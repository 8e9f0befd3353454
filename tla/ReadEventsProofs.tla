-------------------------- MODULE ReadEventsProofs --------------------------
(* Proofs that the consumer group never commits past an event nobody dealt    *)
(* with, and that an event is counted again only where something was lost,    *)
(* for any number of processes and messages and any batch size.               *)
EXTENDS ReadEvents, TLAPS, FiniteSetTheorems

Messages == Articles \union {Garbage}

(* The types the argument needs; the offsets of a process are ordered.        *)
Tables ==
  /\ log \in Seq(Messages)
  /\ times \in [Offsets -> Nat] /\ dropped \in SUBSET Offsets
  /\ skipTo \in 0..Len(log)
  /\ Len(log) <= MaxLog

Cursors ==
  /\ first \in [Consumers -> Nat] /\ pos \in [Consumers -> Nat]
  /\ at \in [Consumers -> Nat] /\ marked \in [Consumers -> Nat]
  /\ st \in [Consumers -> {"down", "joining", "idle", "collect", "apply", "stopped"}]

Ordered ==
  \A i \in Consumers : /\ marked[i] <= first[i] /\ first[i] <= at[i]
                       /\ at[i] <= pos[i] /\ pos[i] <= Len(log)

CommitInLog == committed \in 0..Len(log) \union {None}

(* The strengthening: also everything before the cursor of a process, whether *)
(* it still has the partition or not, is settled.                             *)
CursorSettled == \A i \in Consumers : \A o \in 1..at[i] : Settled(o)

IInv == Tables /\ Cursors /\ Ordered /\ CommitInLog /\ CursorSettled
        /\ CommittedIsSettled

THEOREM Initially == Init => IInv
BY ReadEventsAssumption
   DEF Init, IInv, Tables, Cursors, Ordered, CommitInLog, CursorSettled,
       CommittedIsSettled, Offsets, Messages

(* What is settled stays settled: the log only grows, counts only rise, and   *)
(* the sets of lost and skipped offsets only grow.                            *)
LEMMA SettledStays ==
  ASSUME NEW o \in Offsets, o <= Len(log), Settled(o),
         times' \in [Offsets -> Nat], times'[o] >= times[o],
         dropped \subseteq dropped', skipTo <= skipTo', skipTo \in Nat, skipTo' \in Nat,
         times \in [Offsets -> Nat], log'[o] = log[o]
  PROVE  Settled(o)'
BY DEF Settled, Offsets

(* Every step but those of BatchConsume leaves times and dropped alone.       *)
LEMMA NextCases ==
  ASSUME [Next]_vars
  PROVE  \/ UNCHANGED <<log, times, dropped, skipTo, at, st, pos, first, marked, committed>>
         \/ \E m \in Messages : GetPubById(m)
         \/ \E i \in Consumers :
              \/ Start(i) \/ Claim(i) \/ Collect(i) \/ Dispatch(i) \/ Apply(i)
              \/ Mark(i) \/ ApplyFails(i) \/ ApplyReplyLost(i)
              \/ (Leave(i) /\ (CommitMarked(i) \/ UNCHANGED committed))
              \/ (AutoCommit(i) \/ Evict(i) \/ Crash(i))
BY DEF Next, Consume, Trouble, SessionEnds, LastCommitLost, IdleEnds, vars,
       session, history, Messages

LEMMA TablesStep ==
  ASSUME IInv, [Next]_vars
  PROVE  /\ Tables'
         /\ \A o \in 1..Len(log) : log'[o] = log[o] /\ (Settled(o) => Settled(o)')
         /\ Len(log) <= Len(log')
<1> USE DEF IInv
<1>0. log \in Seq(Messages) /\ Len(log) \in Nat /\ Len(log) <= MaxLog /\ MaxLog \in Nat
  BY ReadEventsAssumption DEF Tables
<1>1. CASE /\ UNCHANGED <<log, skipTo>>
           /\ times' \in [Offsets -> Nat] /\ \A o \in Offsets : times'[o] >= times[o]
           /\ dropped \subseteq dropped' /\ dropped' \in SUBSET Offsets
  <2>1. ASSUME NEW o \in 1..Len(log), Settled(o)  PROVE Settled(o)'
    <3>1. o \in Offsets /\ o <= Len(log)
      BY <1>0 DEF Offsets
    <3>2. times \in [Offsets -> Nat] /\ skipTo \in Nat
      BY <1>0 DEF Tables
    <3> QED
      BY <1>1, <2>1, <3>1, <3>2, SettledStays
  <2> QED
    BY <1>0, <1>1, <2>1 DEF Tables
<1>2. CASE \E m \in Messages : GetPubById(m)
  <2>1. PICK m \in Messages : GetPubById(m)
    BY <1>2
  <2>2. /\ log' \in Seq(Messages) /\ Len(log') = Len(log) + 1 /\ Len(log') <= MaxLog
        /\ \A o \in 1..Len(log) : log'[o] = log[o]
        /\ UNCHANGED <<times, dropped, skipTo>>
    BY <1>0, <2>1 DEF GetPubById, history
  <2>3. ASSUME NEW o \in 1..Len(log), Settled(o)  PROVE Settled(o)'
    BY <2>2, <2>3 DEF Settled
  <2> QED
    BY <1>0, <2>2, <2>3 DEF Tables
<1>3. CASE \E i \in Consumers : Claim(i)
  <2>1. /\ UNCHANGED <<log, times, dropped>>
        /\ skipTo' \in {skipTo, Len(log)} /\ skipTo \in 0..Len(log)
    BY <1>3 DEF Claim, Tables
  <2>2. ASSUME NEW o \in 1..Len(log), Settled(o)  PROVE Settled(o)'
    BY <1>0, <2>1, <2>2 DEF Settled
  <2> QED
    BY <1>0, <2>1, <2>2 DEF Tables
<1>4. ASSUME NEW i \in Consumers, at[i] < pos[i]
      PROVE  /\ at[i] + 1 \in Offsets
             /\ Counted(at[i] + 1) \in [Offsets -> Nat]
             /\ \A o \in Offsets : Counted(at[i] + 1)[o] >= times[o]
             /\ (at[i] + 1)..pos[i] \subseteq Offsets /\ (at[i] + 2)..pos[i] \subseteq Offsets
  <2>1. at[i] \in Nat /\ pos[i] \in Nat /\ pos[i] <= Len(log)
    BY DEF Cursors, Ordered
  <2>2. at[i] + 1 \in Offsets
    BY <1>0, <1>4, <2>1 DEF Offsets
  <2>3. times \in [Offsets -> Nat]
    BY DEF Tables
  <2>4. Counted(at[i] + 1) \in [Offsets -> Nat]
    BY <2>2, <2>3 DEF Counted
  <2>5. \A o \in Offsets : Counted(at[i] + 1)[o] >= times[o]
    BY <2>2, <2>3 DEF Counted
  <2>6. \A o \in Nat : at[i] < o /\ o <= pos[i] => o \in Offsets
    BY <1>0, <2>1 DEF Offsets
  <2>7. (at[i] + 1)..pos[i] \subseteq Offsets /\ (at[i] + 2)..pos[i] \subseteq Offsets
    BY <2>1, <2>6
  <2> QED
    BY <2>2, <2>4, <2>5, <2>7
<1>5. CASE \E i \in Consumers : Apply(i) \/ ApplyFails(i) \/ ApplyReplyLost(i)
  <2>1. PICK i \in Consumers : Apply(i) \/ ApplyFails(i) \/ ApplyReplyLost(i)
    BY <1>5
  <2>2. at[i] < pos[i] /\ UNCHANGED <<log, skipTo>>
    BY <2>1 DEF Apply, ApplyFails, ApplyReplyLost
  <2>3. /\ times' = times \/ times' = Counted(at[i] + 1)
        /\ \/ dropped' = dropped
           \/ dropped' = dropped \union ((at[i] + 1)..pos[i])
           \/ dropped' = dropped \union ((at[i] + 2)..pos[i])
    BY <2>1 DEF Apply, ApplyFails, ApplyReplyLost
  <2>4. times \in [Offsets -> Nat] /\ dropped \in SUBSET Offsets
    BY DEF Tables
  <2>5. times' \in [Offsets -> Nat] /\ \A o \in Offsets : times'[o] >= times[o]
    BY <1>4, <2>2, <2>3, <2>4
  <2>6. dropped \subseteq dropped' /\ dropped' \in SUBSET Offsets
    BY <1>4, <2>2, <2>3, <2>4
  <2> QED
    BY <1>1, <2>2, <2>5, <2>6
<1>6. CASE UNCHANGED <<log, times, dropped, skipTo>>
  <2>1. times \in [Offsets -> Nat] /\ dropped \in SUBSET Offsets
    BY DEF Tables
  <2>2. \A o \in Offsets : times[o] \in Nat /\ times'[o] >= times[o]
    BY <1>6, <2>1
  <2> QED
    BY <1>1, <1>6, <2>1, <2>2
<1> QED
  BY <1>2, <1>3, <1>5, <1>6, NextCases
     DEF Start, Collect, Dispatch, Mark, Leave, AutoCommit, Evict, Crash, history, session

(* The cursors stay ordered and inside the log.                               *)
LEMMA CursorsStep ==
  ASSUME IInv, [Next]_vars
  PROVE  Cursors' /\ Ordered' /\ CommitInLog'
<1> USE DEF IInv
<1>1. Len(log) <= Len(log') /\ Len(log) \in Nat /\ Len(log') \in Nat
  BY TablesStep DEF Tables
<1>2. \A i \in Consumers : /\ marked[i] \in Nat /\ first[i] \in Nat /\ at[i] \in Nat
                            /\ pos[i] \in Nat
                            /\ marked[i] <= first[i] /\ first[i] <= at[i]
                            /\ at[i] <= pos[i] /\ pos[i] <= Len(log)
  BY DEF Cursors, Ordered
<1>3. CASE UNCHANGED <<first, pos, at, marked>> /\ st' \in [Consumers ->
             {"down", "joining", "idle", "collect", "apply", "stopped"}]
           /\ (committed' = committed \/ \E i \in Consumers : committed' = marked[i])
  <2>1. Cursors'
    BY <1>3 DEF Cursors
  <2>2. Ordered'
    BY <1>1, <1>2, <1>3 DEF Ordered
  <2>3. CommitInLog'
    BY <1>1, <1>2, <1>3 DEF CommitInLog
  <2> QED
    BY <2>1, <2>2, <2>3
<1>4. CASE \E i \in Consumers : Claim(i)
  <2>1. PICK i \in Consumers : Claim(i)
    BY <1>4
  <2>2. Begin \in 0..Len(log) /\ UNCHANGED <<log, committed>>
    BY <1>1, <2>1 DEF Begin, CommitInLog, Claim
  <2>3. /\ first' = [first EXCEPT ![i] = Begin] /\ pos' = [pos EXCEPT ![i] = Begin]
        /\ at' = [at EXCEPT ![i] = Begin] /\ marked' = [marked EXCEPT ![i] = Begin]
    BY <2>1 DEF Claim
  <2>4. Cursors'
    BY <2>1, <2>2, <2>3 DEF Cursors, Claim
  <2>5. Ordered'
    BY <1>1, <1>2, <2>2, <2>3 DEF Ordered, Cursors
  <2> QED
    BY <2>2, <2>4, <2>5 DEF CommitInLog
<1>5. ASSUME NEW i \in Consumers,
             Collect(i) \/ Apply(i) \/ ApplyFails(i) \/ ApplyReplyLost(i) \/ Mark(i)
      PROVE  Cursors' /\ Ordered' /\ CommitInLog'
  <2>1. UNCHANGED <<log, committed>>
    BY <1>5 DEF Collect, Apply, ApplyFails, ApplyReplyLost, Mark
  <2>2. CASE Collect(i)
    BY <1>1, <1>2, <2>1, <2>2 DEF Collect, Cursors, Ordered, CommitInLog
  <2>3. CASE Apply(i) \/ ApplyFails(i) \/ ApplyReplyLost(i)
    <3>1. at[i] < pos[i] /\ (at' = [at EXCEPT ![i] = at[i] + 1] \/ at' = [at EXCEPT ![i] = pos[i]])
      BY <2>3 DEF Apply, ApplyFails, ApplyReplyLost
    <3>2. UNCHANGED <<st, first, pos, marked>>
      BY <2>3 DEF Apply, ApplyFails, ApplyReplyLost
    <3> QED
      <4>0. PICK v \in Nat : v \in {at[i] + 1, pos[i]} /\ at' = [at EXCEPT ![i] = v]
        BY <1>2, <3>1
      <4>1. at \in [Consumers -> Nat] /\ at' \in [Consumers -> Nat]
        BY <4>0 DEF Cursors
      <4>2. at'[i] \in {at[i] + 1, pos[i]} /\ \A j \in Consumers \ {i} : at'[j] = at[j]
        BY <4>0, <4>1
      <4>3. Cursors'
        BY <3>2, <4>1 DEF Cursors
      <4>4. Ordered'
        BY <1>2, <2>1, <3>1, <3>2, <4>2 DEF Ordered
      <4> QED
        BY <2>1, <4>3, <4>4 DEF CommitInLog
  <2>4. CASE Mark(i)
    BY <1>1, <1>2, <2>1, <2>4 DEF Mark, Cursors, Ordered, CommitInLog
  <2> QED
    BY <1>5, <2>2, <2>3, <2>4
<1>6. ASSUME NEW i \in Consumers,
             \/ Start(i) \/ Dispatch(i) \/ AutoCommit(i) \/ Evict(i) \/ Crash(i)
             \/ (Leave(i) /\ (CommitMarked(i) \/ UNCHANGED committed))
      PROVE  Cursors' /\ Ordered' /\ CommitInLog'
  <2>1. UNCHANGED <<first, pos, at, marked>>
    BY <1>6 DEF Start, Dispatch, Leave, AutoCommit, Evict, Crash, session
  <2>2. st' \in [Consumers -> {"down", "joining", "idle", "collect", "apply", "stopped"}]
    BY <1>6 DEF Start, Dispatch, Leave, AutoCommit, Evict, Crash, session, Cursors
  <2>3. committed' = committed \/ committed' = marked[i]
    BY <1>6 DEF Start, Dispatch, AutoCommit, Evict, Crash, CommitMarked, Leave
  <2> QED
    BY <2>1, <2>2, <2>3, <1>3
<1> QED
  BY <1>3, <1>4, <1>5, <1>6, NextCases DEF GetPubById, session, Cursors

LEMMA SettledStep ==
  ASSUME IInv, [Next]_vars
  PROVE  CursorSettled' /\ CommittedIsSettled'
<1> USE DEF IInv
<1>1. /\ \A o \in 1..Len(log) : Settled(o) => Settled(o)'
      /\ Len(log) <= Len(log') /\ Len(log) \in Nat
  BY TablesStep DEF Tables
<1>2. \A i \in Consumers : /\ marked[i] \in Nat /\ at[i] \in Nat /\ pos[i] \in Nat
                            /\ marked[i] <= at[i] /\ at[i] <= pos[i] /\ pos[i] <= Len(log)
  BY DEF Cursors, Ordered
(* What was settled before is settled after.                                  *)
<1>3. ASSUME NEW i \in Consumers, NEW o \in 1..at[i]  PROVE Settled(o)'
  BY <1>1, <1>2 DEF CursorSettled
<1>4. ASSUME committed # None, NEW o \in 1..committed  PROVE Settled(o)'
  BY <1>1, <1>4 DEF CommittedIsSettled, CommitInLog
(* The committed offset is kept, or comes from the marks of a process.        *)
<1>5. ASSUME committed' = committed \/ \E i \in Consumers : committed' = marked[i]
      PROVE  CommittedIsSettled'
  <2>1. CASE committed' = committed
    BY <1>4, <2>1 DEF CommittedIsSettled
  <2>2. CASE \E i \in Consumers : committed' = marked[i]
    <3>1. PICK i \in Consumers : committed' = marked[i]
      BY <2>2
    <3>2. \A o \in 1..marked[i] : o \in 1..at[i]
      BY <1>2
    <3> QED
      BY <1>3, <3>1, <3>2 DEF CommittedIsSettled
  <2> QED
    BY <1>5, <2>1, <2>2
<1>6. CASE at' = at /\ (committed' = committed \/ \E i \in Consumers : committed' = marked[i])
  BY <1>3, <1>5, <1>6 DEF CursorSettled
<1>7. CASE \E i \in Consumers : Claim(i)
  <2>1. PICK i \in Consumers : Claim(i)
    BY <1>7
  <2>2. at' = [at EXCEPT ![i] = Begin] /\ committed' = committed /\ UNCHANGED <<log, times, dropped>>
    BY <2>1 DEF Claim
  <2>3. \A o \in 1..Begin : Settled(o)'
    <3>1. CASE committed = None
      <4>1. skipTo' = Len(log) /\ Begin = Len(log)
        BY <2>1, <3>1 DEF Claim, Begin
      <4> QED
        BY <1>1, <4>1 DEF Settled
    <3>2. CASE committed # None
      BY <1>4, <3>2 DEF Begin
    <3> QED
      BY <3>1, <3>2
  <2>4. at'[i] = Begin /\ \A j \in Consumers \ {i} : at'[j] = at[j]
    BY <2>2 DEF Cursors
  <2>5. CursorSettled'
    BY <1>3, <2>3, <2>4 DEF CursorSettled
  <2> QED
    BY <1>5, <2>2, <2>5
(* BatchConsume: the next event is counted, or the rest of the batch is lost. *)
<1>8. CASE \E i \in Consumers : Apply(i) \/ ApplyFails(i) \/ ApplyReplyLost(i)
  <2>1. PICK i \in Consumers : Apply(i) \/ ApplyFails(i) \/ ApplyReplyLost(i)
    BY <1>8
  <2>2. at[i] < pos[i] /\ committed' = committed /\ UNCHANGED <<log, skipTo, pos>>
    BY <2>1 DEF Apply, ApplyFails, ApplyReplyLost
  <2>3. PICK n \in Nat, last \in Nat : n = at[i] /\ last = pos[i]
    BY <1>2
  <2>4. n < last /\ n + 1 \in 1..Len(log) /\ n + 1 \in Offsets /\ times \in [Offsets -> Nat]
    BY <1>2, <2>2, <2>3, ReadEventsAssumption DEF Tables, Offsets
  <2>5. ASSUME times' = Counted(n + 1)  PROVE Settled(n + 1)'
    <3>1. CASE log[n + 1] \in Articles
      <4>1. times'[n + 1] = times[n + 1] + 1 /\ times[n + 1] \in Nat
        BY <2>4, <2>5, <3>1 DEF Counted
      <4> QED
        BY <4>1 DEF Settled
    <3>2. CASE log[n + 1] = Garbage
      BY <2>2, <3>2 DEF Settled
    <3> QED
      BY <2>4, <3>1, <3>2 DEF Tables, Messages
  <2>6. \/ /\ at' = [at EXCEPT ![i] = n + 1]
           /\ times' = Counted(n + 1)
        \/ /\ at' = [at EXCEPT ![i] = last]
           /\ dropped' = dropped \union ((n + 1)..last)
        \/ /\ at' = [at EXCEPT ![i] = last]
           /\ times' = Counted(n + 1)
           /\ dropped' = dropped \union ((n + 2)..last)
    BY <2>1, <2>3 DEF Apply, ApplyFails, ApplyReplyLost
  <2>7. \A j \in Consumers \ {i} : at'[j] = at[j]
    BY <2>6 DEF Cursors
  <2>8. at'[i] \in {n + 1, last} /\ \A o \in (n + 1)..at'[i] : Settled(o)'
    <3>1. CASE /\ at' = [at EXCEPT ![i] = n + 1]
               /\ times' = Counted(n + 1)
      <4>1. at'[i] = n + 1
        BY <3>1 DEF Cursors
      <4>2. \A o \in (n + 1)..(n + 1) : o = n + 1
        OBVIOUS
      <4> QED
        BY <2>5, <3>1, <4>1, <4>2
    <3>2. CASE /\ at' = [at EXCEPT ![i] = last]
               /\ dropped' = dropped \union ((n + 1)..last)
      <4>1. at'[i] = last
        BY <3>2 DEF Cursors
      <4> QED
        BY <3>2, <4>1 DEF Settled
    <3>3. CASE /\ at' = [at EXCEPT ![i] = last]
               /\ times' = Counted(n + 1)
               /\ dropped' = dropped \union ((n + 2)..last)
      <4>1. at'[i] = last
        BY <3>3 DEF Cursors
      <4>2. \A o \in (n + 2)..last : Settled(o)'
        BY <3>3 DEF Settled
      <4>3. \A o \in (n + 1)..last : o = n + 1 \/ o \in (n + 2)..last
        OBVIOUS
      <4> QED
        BY <2>5, <3>3, <4>1, <4>2, <4>3
    <3> QED
      BY <2>6, <3>1, <3>2, <3>3
  <2>9. \A o \in 1..at'[i] : o \in 1..n \/ o \in (n + 1)..at'[i]
    BY <2>8
  <2>10. CursorSettled'
    BY <1>3, <2>3, <2>7, <2>8, <2>9 DEF CursorSettled
  <2> QED
    BY <1>5, <2>2, <2>10
<1>9. ASSUME NEW i \in Consumers,
             \/ Start(i) \/ Collect(i) \/ Dispatch(i) \/ Mark(i)
             \/ AutoCommit(i) \/ Evict(i) \/ Crash(i)
             \/ (Leave(i) /\ (CommitMarked(i) \/ UNCHANGED committed))
      PROVE  at' = at /\ (committed' = committed \/ committed' = marked[i])
  BY <1>9 DEF Start, Collect, Dispatch, Mark, AutoCommit, Evict, Crash, Leave,
              CommitMarked, session
<1> QED
  BY <1>6, <1>7, <1>8, <1>9, NextCases DEF GetPubById, session

THEOREM ReadEventsInvariance == Spec => []IInv
<1>1. Init => IInv
  BY Initially
<1>2. IInv /\ [Next]_vars => IInv'
  <2> SUFFICES ASSUME IInv, [Next]_vars PROVE IInv'
    OBVIOUS
  <2> QED
    BY TablesStep, CursorsStep, SettledStep DEF IInv
<1> QED
  BY <1>1, <1>2, PTL DEF Spec

(* The committed offset never passes an event that was neither counted nor    *)
(* lost with its batch: ConsumeClaim, BatchConsume and the commits of sarama. *)
THEOREM NothingSkipped == Spec => []CommittedIsSettled
<1>1. IInv => CommittedIsSettled
  BY DEF IInv
<1> QED
  BY <1>1, ReadEventsInvariance, PTL

----------------------------------------------------------------------------
(* Who may yet count the event at o: the live processes whose cursor has not   *)
(* reached it, and, while nobody owns the partition, who claims it next.       *)
Pending(o) == {i \in Consumers : st[i] \in Live /\ at[i] < o}
Open(o)    == IF owner = None /\ Begin < o THEN 1 ELSE 0

(* Every count, made or to come, beyond the first has been paid for by a loss. *)
Paid == \A o \in Offsets :
          IsFiniteSet(Pending(o)) /\ times[o] + Cardinality(Pending(o)) + Open(o) <= 1 + losses

(* The owner is at work, and between batches everything counted is marked.     *)
OwnerLive  == owner # None => owner \in Consumers /\ st[owner] \in Live
Caught     == \A i \in Consumers : st[i] = "collect" => at[i] = first[i] /\ marked[i] = first[i]

RepeatsInv == IInv /\ losses \in Nat /\ OwnerLive /\ Caught /\ Paid

(* The sizes of a subset, of a set less a member and of one with a new member. *)
LEMMA Sizes ==
  ASSUME NEW S, IsFiniteSet(S), NEW T
  PROVE  /\ Cardinality(S) \in Nat
         /\ T \subseteq S => IsFiniteSet(T) /\ Cardinality(T) \in Nat /\ Cardinality(T) <= Cardinality(S)
         /\ \A i \in S : T \subseteq S \ {i} =>
              IsFiniteSet(T) /\ Cardinality(T) \in Nat /\ Cardinality(T) <= Cardinality(S) - 1
         /\ \A i : T \subseteq S \union {i} =>
              IsFiniteSet(T) /\ Cardinality(T) \in Nat /\ Cardinality(T) <= Cardinality(S) + 1
<1>1. Cardinality(S) \in Nat
  BY FS_CardinalityType
<1>2. \A A : IsFiniteSet(A) /\ T \subseteq A =>
        IsFiniteSet(T) /\ Cardinality(T) \in Nat /\ Cardinality(T) <= Cardinality(A)
  BY FS_Subset, FS_CardinalityType
<1>3. ASSUME NEW i \in S, T \subseteq S \ {i}
      PROVE  IsFiniteSet(T) /\ Cardinality(T) \in Nat /\ Cardinality(T) <= Cardinality(S) - 1
  <2>1. IsFiniteSet(S \ {i}) /\ Cardinality(S \ {i}) = Cardinality(S) - 1
    BY FS_RemoveElement
  <2> QED
    BY <1>2, <1>3, <2>1
<1>4. ASSUME NEW i, T \subseteq S \union {i}
      PROVE  IsFiniteSet(T) /\ Cardinality(T) \in Nat /\ Cardinality(T) <= Cardinality(S) + 1
  <2>1. IsFiniteSet(S \union {i}) /\ Cardinality(S \union {i}) \in Nat
        /\ Cardinality(S \union {i}) <= Cardinality(S) + 1
    BY <1>1, FS_AddElement
  <2> QED
    BY <1>1, <1>2, <1>4, <2>1
<1> QED
  BY <1>1, <1>2, <1>3, <1>4

(* The sum that is to stay: no step adds a count without taking one that was   *)
(* pending, or makes one possible without a loss.                              *)
Balance(o) == /\ IsFiniteSet(Pending(o)')
              /\ times'[o] + Cardinality(Pending(o)') + Open(o)' - losses'
                   <= times[o] + Cardinality(Pending(o)) + Open(o) - losses

(* A step that keeps the sum within what the losses pay for keeps Paid.        *)
LEMMA Balanced ==
  ASSUME Tables, Tables', Paid, losses \in Nat, losses' \in Nat, \A o \in Offsets : Balance(o)
  PROVE  Paid'
<1> SUFFICES ASSUME NEW o \in Offsets
             PROVE  /\ IsFiniteSet(Pending(o)')
                    /\ times'[o] + Cardinality(Pending(o)') + Open(o)' <= 1 + losses'
  BY DEF Paid
<1>1. /\ IsFiniteSet(Pending(o)) /\ IsFiniteSet(Pending(o)')
      /\ times[o] + Cardinality(Pending(o)) + Open(o) <= 1 + losses
  BY DEF Paid, Balance
<1>2. /\ Cardinality(Pending(o)) \in Nat /\ Cardinality(Pending(o)') \in Nat
      /\ times[o] \in Nat /\ times'[o] \in Nat /\ Open(o) \in Nat /\ Open(o)' \in Nat
  BY <1>1, FS_CardinalityType DEF Tables, Open
<1> QED
  BY <1>1, <1>2 DEF Balance

(* Every step of a process, the coordinator or a sender keeps the invariant.   *)
LEMMA RepeatsStep ==
  ASSUME RepeatsInv, [Next]_vars
  PROVE  RepeatsInv'
<1>1. IInv'
  BY TablesStep, CursorsStep, SettledStep DEF IInv, RepeatsInv
<1>2. /\ Tables /\ Tables' /\ losses \in Nat /\ OwnerLive /\ Caught
      /\ \A o \in Offsets : IsFiniteSet(Pending(o)) /\ Cardinality(Pending(o)) \in Nat
                            /\ times[o] \in Nat /\ times'[o] \in Nat /\ o \in Nat
  <2>1. Tables /\ Tables' /\ losses \in Nat /\ OwnerLive /\ Caught /\ Paid
    BY <1>1 DEF RepeatsInv, IInv
  <2>2. times \in [Offsets -> Nat] /\ times' \in [Offsets -> Nat]
    BY <2>1 DEF Tables, Offsets
  <2>3. \A o \in Offsets : IsFiniteSet(Pending(o)) /\ Cardinality(Pending(o)) \in Nat
    BY <2>1, FS_CardinalityType DEF Paid
  <2>4. \A o \in Offsets : o \in Nat
    BY ReadEventsAssumption DEF Offsets
  <2> QED
    BY <2>1, <2>2, <2>3, <2>4
<1>3. /\ st \in [Consumers -> {"down", "joining", "idle", "collect", "apply", "stopped"}]
      /\ \A i \in Consumers : /\ marked[i] \in Nat /\ first[i] \in Nat /\ at[i] \in Nat
                              /\ pos[i] \in Nat /\ first[i] <= at[i]
                              /\ at[i] <= pos[i] /\ pos[i] <= Len(log)
      /\ first \in [Consumers -> Nat] /\ at \in [Consumers -> Nat] /\ marked \in [Consumers -> Nat]
      /\ pos \in [Consumers -> Nat]
      /\ Len(log) \in Nat /\ Len(log') \in Nat /\ Len(log) <= Len(log')
      /\ committed \in 0..Len(log) \union {None} /\ None \notin Consumers
  BY TablesStep, ReadEventsAssumption DEF RepeatsInv, IInv, Tables, Cursors, Ordered, CommitInLog
<1> DEFINE Goal == losses' \in Nat /\ OwnerLive' /\ Caught' /\ \A o \in Offsets : Balance(o)
<1>4. ASSUME \/ UNCHANGED vars
             \/ \E m \in Articles \union {Garbage} : GetPubById(m)
      PROVE  Goal
  <2>1. UNCHANGED <<committed, owner, session, times, losses>>
    BY <1>4 DEF GetPubById, Smooth, bounds, history, vars
  <2>2. \A o : Pending(o)' = Pending(o)
    BY <2>1 DEF Pending, session
  <2>3. \A o \in Offsets : Open(o)' <= Open(o) /\ Open(o) \in Nat /\ Open(o)' \in Nat
    <3>1. Begin' \in Nat /\ Begin \in Nat /\ Begin <= Begin'
      BY <1>3, <2>1 DEF Begin
    <3> QED
      BY <1>2, <2>1, <3>1 DEF Open
  <2>4. \A o \in Offsets : Balance(o)
    BY <1>2, <2>1, <2>2, <2>3 DEF Balance
  <2> QED
    BY <1>2, <2>1, <2>4 DEF OwnerLive, Caught, session
<1>5. ASSUME NEW i \in Consumers, Start(i) \/ Collect(i) \/ Dispatch(i) \/ Mark(i) PROVE Goal
  <2>1. UNCHANGED <<log, committed, owner, at, times, losses>>
    BY <1>5 DEF Start, Collect, Dispatch, Mark, Smooth, bounds, history
  <2>2. /\ st' \in [Consumers -> {"down", "joining", "idle", "collect", "apply", "stopped"}]
        /\ \A j \in Consumers : st'[j] \in Live <=> st[j] \in Live
    BY <1>3, <1>5 DEF Start, Collect, Dispatch, Mark, Live
  <2>3. \A o : Pending(o)' = Pending(o) /\ Open(o)' = Open(o) /\ Open(o) \in Nat
    BY <2>1, <2>2 DEF Pending, Open, Begin
  <2>4. Caught'
    BY <1>2, <1>3, <1>5, <2>1 DEF Caught, Start, Collect, Dispatch, Mark
  <2>5. OwnerLive'
    BY <1>2, <2>1, <2>2 DEF OwnerLive
  <2> QED
    BY <1>2, <2>1, <2>3, <2>4, <2>5 DEF Balance
<1>6. ASSUME NEW i \in Consumers, Claim(i) PROVE Goal
  <2>1. /\ owner = None /\ owner' = i /\ st[i] = "joining"
        /\ UNCHANGED <<log, committed, times, losses>> /\ Begin \in Nat
        /\ at' = [at EXCEPT ![i] = Begin] /\ first' = [first EXCEPT ![i] = Begin]
        /\ marked' = [marked EXCEPT ![i] = Begin]
        /\ \A j \in Consumers : st'[j] = IF j = i THEN "collect"
                                         ELSE IF st[j] = "joining" THEN "idle" ELSE st[j]
    BY <1>3, <1>6 DEF Claim, Begin, Smooth, bounds
  <2>2. ASSUME NEW o \in Offsets PROVE Balance(o)
    <3>1. Open(o)' = 0 /\ Open(o) = IF Begin < o THEN 1 ELSE 0
      BY <1>3, <2>1 DEF Open
    <3>2. CASE Begin < o
      <4>1. Pending(o)' \subseteq Pending(o) \union {i}
        BY <1>3, <2>1 DEF Pending, Live
      <4> HIDE DEF Balance
      <4>2. IsFiniteSet(Pending(o)') /\ Cardinality(Pending(o)') \in Nat
            /\ Cardinality(Pending(o)') <= Cardinality(Pending(o)) + 1
        BY <1>2, <4>1, Sizes
      <4> QED
        BY <1>2, <2>1, <3>1, <3>2, <4>2 DEF Balance
    <3>3. CASE ~(Begin < o)
      <4>1. Pending(o)' \subseteq Pending(o)
        BY <1>3, <2>1, <3>3 DEF Pending, Live
      <4>2. IsFiniteSet(Pending(o)') /\ Cardinality(Pending(o)') \in Nat
            /\ Cardinality(Pending(o)') <= Cardinality(Pending(o))
        BY <1>2, <4>1, Sizes
      <4> QED
        BY <1>2, <2>1, <3>1, <3>3, <4>2 DEF Balance
    <3> QED
      BY <3>2, <3>3
  <2>3. OwnerLive'
    BY <2>1 DEF OwnerLive, Live
  <2>4. Caught'
    BY <1>2, <1>3, <2>1 DEF Caught
  <2> QED
    BY <1>2, <2>1, <2>2, <2>3, <2>4
<1>7. ASSUME NEW i \in Consumers, Apply(i) \/ ApplyFails(i) \/ ApplyReplyLost(i) PROVE Goal
  <2>1. PICK n \in Nat : n = at[i] + 1
    BY <1>3
  <2>2. /\ st[i] = "apply" /\ n \in Offsets /\ UNCHANGED <<log, committed, owner, st, first, marked, losses>>
        /\ at' = [at EXCEPT ![i] = n] \/ at' = [at EXCEPT ![i] = pos[i]]
        /\ times' = times \/ times' = Counted(n)
        /\ n <= pos[i]
    <3>1. /\ st[i] = "apply" /\ UNCHANGED <<log, committed, owner, st, first, marked, losses>>
          /\ at' = [at EXCEPT ![i] = at[i] + 1] \/ at' = [at EXCEPT ![i] = pos[i]]
          /\ (times' = times \/ times' = Counted(n)) /\ at[i] < pos[i]
      BY <1>7, <2>1 DEF Apply, ApplyFails, ApplyReplyLost, Smooth, Fails, bounds
    <3>2. n \in Offsets /\ n <= pos[i]
      BY <1>2, <1>3, <2>1, <3>1, ReadEventsAssumption DEF Offsets, Tables
    <3> QED
      BY <2>1, <3>1, <3>2
  <2>3. at'[i] >= n /\ at'[i] \in Nat /\ \A j \in Consumers \ {i} : at'[j] = at[j]
    BY <1>3, <2>2
  <2>4. ASSUME NEW o \in Offsets PROVE Balance(o)
    <3>1. Open(o)' = Open(o) /\ Open(o) \in Nat
      BY <2>2 DEF Open, Begin
    <3>2. \A j \in Consumers : at'[j] < o => at[j] < o
      <4>1. o \in Nat /\ at[i] \in Nat /\ n = at[i] + 1
        BY <1>2, <1>3, <2>1
      <4>2. at'[i] < o => at[i] < o
        BY <2>3, <4>1
      <4> QED
        BY <2>3, <4>2
    <3>3. Pending(o)' \subseteq Pending(o)
      BY <2>2, <3>2 DEF Pending
    <3>4. CASE o = n
      <4>1. i \in Pending(o) /\ Pending(o)' \subseteq Pending(o) \ {i}
        BY <1>2, <1>3, <2>1, <2>2, <2>3, <3>3, <3>4 DEF Pending, Live
      <4>2. IsFiniteSet(Pending(o)') /\ Cardinality(Pending(o)') \in Nat
            /\ Cardinality(Pending(o)') <= Cardinality(Pending(o)) - 1
        BY <1>2, <4>1, Sizes
      <4>3. times'[o] <= times[o] + 1
        BY <1>2, <2>2, <3>4 DEF Counted, Tables
      <4>4. /\ Cardinality(Pending(o)) \in Nat /\ times[o] \in Nat /\ times'[o] \in Nat
            /\ losses \in Nat /\ losses' = losses
        BY <1>2, <2>2
      <4> QED
        BY <3>1, <4>2, <4>3, <4>4 DEF Balance
    <3>5. CASE o # n
      <4>1. times'[o] = times[o]
        BY <1>2, <2>2, <3>5 DEF Counted, Tables
      <4>2. IsFiniteSet(Pending(o)') /\ Cardinality(Pending(o)') \in Nat
            /\ Cardinality(Pending(o)') <= Cardinality(Pending(o))
        BY <1>2, <3>3, Sizes
      <4>3. /\ Cardinality(Pending(o)) \in Nat /\ times[o] \in Nat /\ losses \in Nat
            /\ losses' = losses
        BY <1>2, <2>2
      <4> QED
        BY <3>1, <4>1, <4>2, <4>3 DEF Balance
    <3> QED
      BY <3>4, <3>5
  <2>5. OwnerLive' /\ Caught'
    BY <1>2, <2>2, <2>3 DEF OwnerLive, Caught
  <2> QED
    BY <1>2, <2>2, <2>4, <2>5
<1>8. ASSUME NEW i \in Consumers, AutoCommit(i) PROVE Goal
  <2>1. owner = i /\ UNCHANGED <<log, owner, session, times, losses>>
    BY <1>8 DEF AutoCommit, Smooth, bounds, history
  <2>2. \A o : Open(o) = 0 /\ Open(o)' = 0 /\ Pending(o)' = Pending(o)
    BY <1>3, <2>1 DEF Open, Pending, session
  <2> QED
    BY <1>2, <2>1, <2>2 DEF Balance, OwnerLive, Caught, session
(* A process stops or loses the partition: a loss pays for who comes next.     *)
<1>9. ASSUME NEW i \in Consumers, losses' = losses + 1, UNCHANGED <<log, committed, first, at, marked, times>>,
             st' = st \/ st' = [st EXCEPT ![i] = "stopped"] \/ st' = [st EXCEPT ![i] = "down"],
             owner' = IF owner = i THEN None ELSE owner
      PROVE  Goal
  <2>1. \A j \in Consumers : st'[j] \in {st[j], "stopped", "down"} /\ (j # i => st'[j] = st[j])
    BY <1>3, <1>9
  <2>2. ASSUME NEW o \in Offsets PROVE Balance(o)
    <3>1. Open(o)' <= Open(o) + 1 /\ Open(o) \in Nat /\ Open(o)' \in Nat
      BY DEF Open
    <3>2. Pending(o)' \subseteq Pending(o)
      BY <1>9, <2>1 DEF Pending, Live
    <3>3. IsFiniteSet(Pending(o)') /\ Cardinality(Pending(o)') \in Nat
          /\ Cardinality(Pending(o)') <= Cardinality(Pending(o))
      BY <1>2, <3>2, Sizes
    <3> QED
      BY <1>2, <1>9, <3>1, <3>3 DEF Balance
  <2>3. OwnerLive'
    BY <1>2, <1>3, <1>9, <2>1 DEF OwnerLive
  <2>4. Caught'
    BY <1>2, <1>9, <2>1 DEF Caught
  <2> QED
    BY <1>2, <1>9, <2>2, <2>3, <2>4
<1>10. ASSUME NEW i \in Consumers, LastCommitLost(i) \/ Evict(i) \/ Crash(i) PROVE Goal
  <2>1. losses' = losses + 1 /\ UNCHANGED <<log, committed, first, at, marked, times>>
    BY <1>10 DEF LastCommitLost, Evict, Crash, Leave, Lose, session, history
  <2>2. st' = st \/ st' = [st EXCEPT ![i] = "stopped"] \/ st' = [st EXCEPT ![i] = "down"]
    BY <1>10 DEF LastCommitLost, Evict, Crash, Leave, session
  <2>3. owner' = IF owner = i THEN None ELSE owner
    BY <1>10 DEF LastCommitLost, Evict, Crash, Leave
  <2> QED
    BY <1>9, <2>1, <2>2, <2>3
(* A session ends in order: what it has counted is committed.                  *)
<1>11. ASSUME NEW i \in Consumers, SessionEnds(i) \/ IdleEnds(i) PROVE Goal
  <2>1. /\ st[i] \in {"collect", "idle"} /\ st' = [st EXCEPT ![i] = "stopped"]
        /\ owner' = (IF owner = i THEN None ELSE owner)
        /\ UNCHANGED <<log, first, at, marked, times, losses, skipTo>>
        /\ (owner # i => committed' = committed)
    BY <1>11 DEF SessionEnds, IdleEnds, Leave, Smooth, bounds, history, CommitMarked
  <2>2. \A j \in Consumers : st'[j] = IF j = i THEN "stopped" ELSE st[j]
    BY <1>3, <2>1
  <2>3. OwnerLive'
    BY <1>2, <1>3, <2>1, <2>2 DEF OwnerLive
  <2>4. Caught'
    BY <1>2, <2>1, <2>2 DEF Caught
  <2>5. ASSUME NEW o \in Offsets PROVE Balance(o)
    <3>1. Pending(o)' \subseteq Pending(o) \ {i}
      BY <2>1, <2>2 DEF Pending, Live
    <3>2. CASE owner = i
      <4>1. st[i] = "collect" /\ CommitMarked(i) /\ at[i] = marked[i]
        <5>1. st[i] = "collect"
          BY <1>2, <1>3, <2>1, <3>2 DEF OwnerLive, Live
        <5> QED
          BY <1>2, <1>11, <5>1 DEF Caught, SessionEnds, IdleEnds
      <4>2. Open(o) = 0
        BY <1>3, <3>2 DEF Open
      <4>3. CASE at[i] < o
        <5>1. i \in Pending(o)
          BY <4>1, <4>3 DEF Pending, Live
        <5>2. IsFiniteSet(Pending(o)') /\ Cardinality(Pending(o)') \in Nat
              /\ Cardinality(Pending(o)') <= Cardinality(Pending(o)) - 1
          BY <1>2, <3>1, <5>1, Sizes
        <5>3. Open(o)' \in Nat /\ Open(o)' <= 1
          BY DEF Open
        <5> QED
          BY <1>2, <2>1, <4>2, <5>2, <5>3 DEF Balance
      <4>4. CASE ~(at[i] < o)
        <5>1. Begin' >= o /\ Begin' \in Nat
          BY <1>2, <1>3, <2>1, <3>2, <4>1, <4>4, ReadEventsAssumption DEF Begin, CommitMarked, HasMarked
        <5>2. Open(o)' = 0
          BY <1>2, <5>1 DEF Open
        <5>3. IsFiniteSet(Pending(o)') /\ Cardinality(Pending(o)') \in Nat
              /\ Cardinality(Pending(o)') <= Cardinality(Pending(o))
          BY <1>2, <3>1, Sizes
        <5> QED
          BY <1>2, <2>1, <4>2, <5>2, <5>3 DEF Balance
      <4> QED
        BY <4>3, <4>4
    <3>3. CASE owner # i
      <4>1. Open(o)' = Open(o) /\ Open(o) \in Nat
        BY <2>1, <3>3 DEF Open, Begin
      <4>2. IsFiniteSet(Pending(o)') /\ Cardinality(Pending(o)') \in Nat
            /\ Cardinality(Pending(o)') <= Cardinality(Pending(o))
        BY <1>2, <3>1, Sizes
      <4> QED
        BY <1>2, <2>1, <4>1, <4>2 DEF Balance
    <3> QED
      BY <3>2, <3>3
  <2> QED
    BY <1>2, <2>1, <2>3, <2>4, <2>5
<1>12. Goal
  <2> HIDE DEF Goal
  <2> QED
    BY <1>4, <1>5, <1>6, <1>7, <1>8, <1>10, <1>11 DEF Next, Consume, Trouble
<1> QED
  BY <1>1, <1>2, <1>12, Balanced DEF RepeatsInv

(* An event is counted once more only for a crash, an eviction or a lost       *)
(* commit, for any number of processes: a rebalance alone repeats nothing.     *)
THEOREM RepeatsTheorem == Spec => []RepeatsAreLosses
<1>1. Init => RepeatsInv
  <2> SUFFICES ASSUME Init PROVE RepeatsInv
    OBVIOUS
  <2>1. \A o : Pending(o) = {} /\ Open(o) \in {0, 1}
    BY DEF Init, Pending, Open, Live
  <2>2. losses = 0 /\ OwnerLive /\ Caught /\ \A o \in Offsets : times[o] = 0
    BY DEF Init, OwnerLive, Caught
  <2>3. Paid
    BY <2>1, <2>2, FS_EmptySet DEF Paid
  <2> QED
    BY <2>2, <2>3, Initially DEF RepeatsInv
<1>2. RepeatsInv => RepeatsAreLosses
  <2> SUFFICES ASSUME RepeatsInv, NEW o \in Offsets PROVE times[o] <= 1 + losses
    BY DEF RepeatsAreLosses
  <2>1. /\ Cardinality(Pending(o)) \in Nat /\ Open(o) \in Nat /\ times[o] \in Nat /\ losses \in Nat
        /\ times[o] + Cardinality(Pending(o)) + Open(o) <= 1 + losses
    BY FS_CardinalityType DEF RepeatsInv, Paid, Open, IInv, Tables
  <2> QED
    BY <2>1
<1> QED
  BY <1>1, <1>2, RepeatsStep, PTL DEF Spec
=============================================================================
