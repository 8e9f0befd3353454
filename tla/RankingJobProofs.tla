--------------------------- MODULE RankingJobProofs ---------------------------
(***************************************************************************)
(* RankingJob: r.lock and its refreshers stay in step in every instance,   *)
(* and without faults one process at a time computes.  HotList: what the   *)
(* scan has ranked while authors go on publishing and withdrawing.         *)
(***************************************************************************)
EXTENDS MCJobsFaults, Places, TLAPS, FiniteSetTheorems

\* A Run that requests the redis lock holds localLock, alone, with r.lock nil.
LockerHolds == \A i \in Instances, r \in Runs :
  run[i][r] = "locking" => /\ localLock[i] /\ lock[i] = 0
                           /\ \A s \in Runs : run[i][s] = "locking" => s = r

\* What every step preserves: LockInv says nothing of the Run that is about to
\* set r.lock, and would be broken if two of them were under way.
IInv == LockInv /\ LockerHolds

\* Nothing has happened yet.
LEMMA InitIInv == Init => IInv
<1> SUFFICES ASSUME Init PROVE IInv
  OBVIOUS
<1>1. TypeOK
  BY LocksAssumption DEF Init, TypeOK, NoKey, Locks
<1>2. RefresherIsCurrent /\ LockIsWatched /\ LockerHolds
  BY DEF Init, RefresherIsCurrent, LockIsWatched, LockerHolds
<1> QED
  BY <1>1, <1>2 DEF IInv, LockInv

\* The steps of Run and of the firings.
LEMMA RunStep ==
  ASSUME IInv, NEW i \in Instances, NEW r \in Runs, Fire(i, r) \/ Run(i, r)
  PROVE  IInv'
<1> USE DEF IInv, LockInv, TypeOK, RefresherIsCurrent, LockIsWatched, LockerHolds,
            RunTo, shutdown
<1>1. CASE Fire(i, r)
  BY <1>1 DEF Fire
<1>2. CASE EnterWithoutLock(i, r)
  BY <1>2 DEF EnterWithoutLock
<1>3. CASE EnterWithLock(i, r)
  BY <1>3 DEF EnterWithLock
<1>4. CASE LockSucceeds(i, r)
  <2>1. made'[i] \in Locks /\ made' \in [Instances -> 0 .. MaxLocks]
    BY <1>4, LocksAssumption DEF LockSucceeds, Locks
  <2>2. TypeOK'
    BY <1>4, <2>1 DEF LockSucceeds, Locks, NoKey
  <2>3. \A n \in Locks : refresher[i][n] = "off"
    BY <1>4 DEF LockSucceeds, Locks
  <2>4. RefresherIsCurrent'
    BY <1>4, <2>1, <2>3 DEF LockSucceeds
  <2>5. LockIsWatched'
    <3>1. lock'[i] = made'[i] /\ refresher'[i][made'[i]] = "on"
      BY <1>4, <2>1 DEF LockSucceeds
    <3>2. ASSUME NEW j \in Instances, j # i
          PROVE  /\ lock'[j] = lock[j] /\ closing'[j] = closing[j]
                 /\ refresher'[j] = refresher[j]
      BY <1>4, <3>2, <2>1 DEF LockSucceeds
    <3> QED
      BY <3>1, <3>2
  <2>6. LockerHolds'
    BY <1>4 DEF LockSucceeds
  <2> QED
    BY <2>2, <2>4, <2>5, <2>6
<1>5. CASE LockFails(i, r)
  BY <1>5 DEF LockFails
<1>6. CASE LockReplyLost(i, r)
  <2>1. made'[i] \in Locks /\ made' \in [Instances -> 0 .. MaxLocks]
    BY <1>6, LocksAssumption DEF LockReplyLost, Locks
  <2> QED
    BY <1>6, <2>1 DEF LockReplyLost, NoKey
<1>7. CASE TopNReturns(i, r)
  BY <1>7 DEF TopNReturns
<1> QED
  BY <1>1, <1>2, <1>3, <1>4, <1>5, <1>6, <1>7 DEF Run

\* The steps of the goroutine that keeps the redis lock.
LEMMA RefreshStep ==
  ASSUME IInv, NEW i \in Instances, NEW n \in Locks, AutoRefresh(i, n)
  PROVE  IInv'
<1> USE DEF IInv, LockInv, TypeOK, RefresherIsCurrent, LockIsWatched, LockerHolds,
            shutdown
<1>1. CASE RefreshFails(i, n)
  <2>1. TypeOK' /\ RefresherIsCurrent' /\ LockerHolds'
    BY <1>1 DEF RefreshFails
  <2>2. \A j \in Instances, m \in Locks : refresher'[j][m] = "off" => refresher[j][m] = "off"
    BY <1>1 DEF RefreshFails
  <2>3. LockIsWatched'
    <3> SUFFICES ASSUME NEW j \in Instances, lock[j] # 0, closing[j] \notin {"done", "dead"}
                 PROVE  refresher'[j][lock[j]] # "off"
      BY <1>1 DEF RefreshFails
    <3>1. lock[j] \in Locks
      BY LocksAssumption DEF Locks
    <3> QED
      BY <2>2, <3>1
  <2> QED
    BY <2>1, <2>3
<1>2. CASE ForgetLock(i, n)
  <2>1. TypeOK'
    BY <1>2, LocksAssumption DEF ForgetLock, Locks
  <2>2. lock'[i] = 0 /\ \A m \in Locks : refresher'[i][m] = "off"
    BY <1>2 DEF ForgetLock
  <2>3. \A j \in Instances : j # i =>
          lock'[j] = lock[j] /\ refresher'[j] = refresher[j]
    BY <1>2 DEF ForgetLock
  <2>4. UNCHANGED <<run, localLock, closing>>
    BY <1>2 DEF ForgetLock
  <2>5. LockerHolds'
    BY <2>2, <2>3, <2>4
  <2>6. RefresherIsCurrent'
    BY <2>2, <2>3
  <2>7. LockIsWatched'
    BY <2>2, <2>3, <2>4
  <2> QED
    BY <2>1, <2>5, <2>6, <2>7
<1> HIDE DEF IInv
<1> QED
  BY <1>1, <1>2 DEF AutoRefresh

\* The steps of Close.
LEMMA CloseStep ==
  ASSUME IInv, NEW i \in Instances, CloseEnters(i) \/ Close(i)
  PROVE  IInv'
<1> USE DEF IInv, LockInv, TypeOK, RefresherIsCurrent, LockIsWatched, LockerHolds
<1>1. CASE CloseEnters(i)
  BY <1>1 DEF CloseEnters
<1>2. CASE CloseReads(i)
  <2>1. TypeOK'
    <3>1. \A j \in Instances : closing'[j] = "unlock" => toUnlock'[j] \in Locks
      BY <1>2, LocksAssumption DEF CloseReads, Locks
    <3>2. /\ closing' \in [Instances -> {"no", "enter", "unlock", "done", "panic", "dead"}]
          /\ toUnlock' \in [Instances -> 0 .. MaxLocks]
      BY <1>2 DEF CloseReads
    <3> QED
      BY <1>2, <3>1, <3>2 DEF CloseReads
  <2>2. RefresherIsCurrent' /\ LockIsWatched' /\ LockerHolds'
    BY <1>2 DEF CloseReads
  <2> QED
    BY <2>1, <2>2
<1>3. CASE CloseUnlocks(i)
  BY <1>3 DEF CloseUnlocks, NoKey
<1> QED
  BY <1>1, <1>2, <1>3 DEF Close

\* The steps of the environment.
LEMMA EnvironmentStep ==
  ASSUME IInv, (\E i \in Instances : Crash(i)) \/ Expire
  PROVE  IInv'
<1> USE DEF IInv, LockInv, TypeOK, RefresherIsCurrent, LockIsWatched, LockerHolds,
            shutdown
<1>1. CASE \E i \in Instances : Crash(i)
  BY <1>1 DEF Crash
<1>2. CASE Expire
  BY <1>2 DEF Expire
<1> QED
  BY <1>1, <1>2

\* Every step preserves the strengthened invariant.
LEMMA NextIInv == IInv /\ [Next]_vars => IInv'
<1> SUFFICES ASSUME IInv, [Next]_vars PROVE IInv'
  OBVIOUS
<1>1. CASE Next
  BY <1>1, RunStep, RefreshStep, CloseStep, EnvironmentStep DEF Next
<1>2. CASE UNCHANGED vars
  BY <1>2 DEF vars, shutdown, IInv, LockInv, TypeOK, RefresherIsCurrent,
              LockIsWatched, LockerHolds
<1> QED
  BY <1>1, <1>2

\* r.lock and its refreshers stay in step: a lock that is refreshed or whose loss
\* is being handled is the one in r.lock, and r.lock is not left to nobody, whatever
\* fails, overlaps and crashes (ranking.go:44-97).
THEOREM LockTheorem == Spec => []LockInv
<1>1. IInv => LockInv
  BY DEF IInv
<1> QED
  BY InitIInv, NextIInv, <1>1, PTL DEF Spec

-----------------------------------------------------------------------------
\* Without faults: a lock is refreshed exactly as long as its process lives, and
\* owns the key meanwhile; who computes has one.
KeyInv == \A i \in Instances :
  /\ closing[i] \in {"no", "dead"}
  /\ closing[i] = "dead" => \A r \in Runs : run[i][r] = "dead"
  /\ \A n \in Locks : refresher[i][n] # "off" => refresher[i][n] = "on" /\ key = <<i, n>>
  /\ \A r \in Runs : run[i][r] = "topn" => lock[i] # 0

\* Nothing but the owner's death ends a lock when Faults is empty.
LEMMA KeyStep ==
  ASSUME Faults = {}, IInv, KeyInv, [Next]_vars
  PROVE  KeyInv'
<1> USE DEF IInv, LockInv, TypeOK, KeyInv, RunTo, shutdown
<1>1. ASSUME NEW i \in Instances, NEW r \in Runs, Fire(i, r) PROVE KeyInv'
  BY <1>1 DEF Fire
<1>2. ASSUME NEW i \in Instances, NEW r \in Runs, EnterWithoutLock(i, r) PROVE KeyInv'
  BY <1>2 DEF EnterWithoutLock
<1>3. ASSUME NEW i \in Instances, NEW r \in Runs, EnterWithLock(i, r) PROVE KeyInv'
  BY <1>3 DEF EnterWithLock
<1>4. ASSUME NEW i \in Instances, NEW r \in Runs, LockSucceeds(i, r) PROVE KeyInv'
  <2>1. \A j \in Instances, n \in Locks : refresher[j][n] = "off"
    BY <1>4 DEF LockSucceeds, NoKey
  <2>2. made'[i] \in Locks
    BY <1>4, LocksAssumption DEF LockSucceeds, Locks
  <2>3. \A j \in Instances, n \in Locks :
          refresher'[j][n] # "off" => j = i /\ n = made'[i] /\ refresher'[j][n] = "on"
    BY <1>4, <2>1, <2>2 DEF LockSucceeds
  <2>4. key' = <<i, made'[i]>> /\ lock'[i] # 0 /\ closing' = closing
    BY <1>4, <2>2 DEF LockSucceeds, Locks
  <2>5. \A j \in Instances, s \in Runs : run'[j][s] # run[j][s] =>
          j = i /\ s = r /\ run[i][r] = "locking"
    BY <1>4 DEF LockSucceeds
  <2>6. \A j \in Instances : j # i => lock'[j] = lock[j]
    BY <1>4 DEF LockSucceeds
  <2> QED
    BY <2>3, <2>4, <2>5, <2>6
<1>5. ASSUME NEW i \in Instances, NEW r \in Runs, LockFails(i, r) PROVE KeyInv'
  BY <1>5 DEF LockFails
<1>6. ASSUME NEW i \in Instances, NEW r \in Runs, LockReplyLost(i, r) PROVE KeyInv'
  BY <1>6, Faults = {} DEF LockReplyLost
<1>7. ASSUME NEW i \in Instances, NEW r \in Runs, TopNReturns(i, r) PROVE KeyInv'
  BY <1>7 DEF TopNReturns
<1>8. ASSUME NEW i \in Instances, NEW n \in Locks, AutoRefresh(i, n) PROVE KeyInv'
  BY <1>8, Faults = {} DEF AutoRefresh, RefreshFails, ForgetLock
<1>9. ASSUME NEW i \in Instances, CloseEnters(i) \/ Close(i) PROVE KeyInv'
  BY <1>9, Faults = {} DEF CloseEnters, Close, CloseReads, CloseUnlocks
<1>10. ASSUME NEW i \in Instances, Crash(i) PROVE KeyInv'
  BY <1>10 DEF Crash
<1>11. CASE Expire
  <2>1. \A j \in Instances, n \in Locks : refresher[j][n] = "off"
    BY <1>11, Faults = {} DEF Expire
  <2> QED
    BY <1>11, <2>1 DEF Expire
<1>12. CASE UNCHANGED vars
  BY <1>12 DEF vars
<1> HIDE DEF KeyInv
<1> QED
  BY <1>1, <1>2, <1>3, <1>4, <1>5, <1>6, <1>7, <1>8, <1>9, <1>10, <1>11, <1>12
  DEF Next, Run

\* While no refresh is late or fails and Close is not called, at most one process
\* computes the hot list, for every number of processes, overlapping firings and
\* crashes (ranking.go:83).
THEOREM SoleComputerTheorem == Faults = {} => (Spec => []SoleComputer)
<1> SUFFICES ASSUME Faults = {} PROVE Spec => []SoleComputer
  OBVIOUS
<1>1. Init => KeyInv
  BY DEF Init, KeyInv
<1>2. IInv /\ KeyInv /\ [Next]_vars => KeyInv'
  BY KeyStep
<1>3. IInv /\ KeyInv => SoleComputer
  <2> SUFFICES ASSUME IInv, KeyInv, NEW a \in Instances, NEW b \in Instances,
                      Computes(a), Computes(b)
               PROVE  a = b
    BY DEF SoleComputer
  <2>1. ASSUME NEW i \in Instances, Computes(i)
        PROVE  key = <<i, lock[i]>>
    <3>1. lock[i] \in Locks /\ closing[i] \notin {"done", "dead"}
      BY <2>1, LocksAssumption DEF Computes, KeyInv, IInv, LockInv, TypeOK, Locks
    <3>2. refresher[i][lock[i]] # "off"
      BY <3>1, 0 \notin Locks DEF IInv, LockInv, LockIsWatched, Locks
    <3> QED
      BY <3>1, <3>2 DEF KeyInv
  <2> QED
    BY <2>1
<1> QED
  BY InitIInv, NextIInv, <1>1, <1>2, <1>3, PTL DEF Spec

----------------------------------------------------------------------------
(* The scan (HotList): rows by their places.                                 *)

(* The instance has operators of its own name for those of its libraries.     *)
LEMMA CardinalityInScan == \A S : H!Cardinality(S) = Cardinality(S)
BY DEF H!Cardinality, Cardinality, H!IsFiniteSet, IsFiniteSet

(* The heap: as many of the scored articles as it can hold, the best of them. *)
Best(h, S) ==
  /\ h \subseteq S
  /\ Cardinality(h) <= Capacity /\ Cardinality(h) <= Cardinality(S)
  /\ Cardinality(h) = Capacity \/ Cardinality(h) = Cardinality(S)
  /\ \A kept \in h, out \in S \ h : out.score <= kept.score

(* A member with the least score.                                             *)
LEMMA LeastScore ==
  ASSUME NEW h, h \subseteq H!Score, h # {}
  PROVE  \E m \in h : \A o \in h : m.score <= o.score
<1> DEFINE scores == {m.score : m \in h}
<1>1. scores \subseteq Nat /\ scores # {}
  BY HotListAssumption DEF H!Score, H!Parameters
<1> HIDE DEF scores
<1>2. PICK least \in scores : \A s \in scores : least <= s
  BY <1>1, Least
<1>3. PICK m \in h : m.score = least
  BY DEF scores
<1>4. \A o \in h : o.score \in scores
  BY DEF scores
<1> QED
  BY <1>2, <1>3, <1>4

(* What is offered to the heap, and has not been before, leaves the best in it. *)
LEMMA OfferKeepsTheBest ==
  ASSUME NEW S, S \subseteq H!Score, IsFiniteSet(S), NEW h, Best(h, S),
         NEW e \in H!Score, e \notin S
  PROVE  Best(H!Offer(h, e), S \cup {e})
<1>1. /\ IsFiniteSet(h) /\ Cardinality(h) \in Nat /\ Cardinality(S) \in Nat /\ h \subseteq S
      /\ Capacity \in Nat /\ Capacity # 0
  BY Part, FS_CardinalityType, HotListAssumption DEF Best, H!Parameters
<1>2. IsFiniteSet(S \cup {e}) /\ Cardinality(S \cup {e}) = Cardinality(S) + 1
  BY FS_AddElement
<1>3. ASSUME Cardinality(h) < Capacity PROVE Best(H!Offer(h, e), S \cup {e})
  <2>1. H!Offer(h, e) = h \cup {e}
    BY <1>3, CardinalityInScan DEF H!Offer
  <2>2. h = S
    BY <1>1, <1>3, Part DEF Best
  <2>3. Cardinality(S) + 1 <= Capacity
    BY <1>1, <1>3, <2>2
  <2>4. (S \cup {e}) \ (S \cup {e}) = {}
    OBVIOUS
  <2> QED
    BY <1>1, <1>2, <2>1, <2>2, <2>3, <2>4 DEF Best
<1>4. ASSUME ~(Cardinality(h) < Capacity) PROVE Best(H!Offer(h, e), S \cup {e})
  <2>1. Cardinality(h) = Capacity /\ h # {}
    <3>1. Cardinality(h) = Capacity
      BY <1>1, <1>4 DEF Best
    <3>2. Cardinality({}) = 0
      BY FS_EmptySet
    <3> QED
      BY <1>1, <3>1, <3>2
  <2>2. PICK min \in h : /\ \A o \in h : min.score <= o.score
                         /\ min = CHOOSE m \in h : \A o \in h : m.score <= o.score
    <3>1. h \subseteq H!Score
      BY <1>1
    <3>2. \E m \in h : \A o \in h : m.score <= o.score
      BY <2>1, <3>1, LeastScore
    <3> QED
      BY <3>2
  <2>3. H!Offer(h, e) = IF min.score < e.score THEN (h \ {min}) \cup {e} ELSE h
    BY <1>4, <2>2, CardinalityInScan DEF H!Offer
  <2>4. \A o \in S \cup {e} : o.score \in Nat
    BY HotListAssumption DEF H!Score, H!Parameters
  <2>5. \A kept \in h, out \in S \ h : out.score <= kept.score
    BY DEF Best
  <2>6. CASE min.score < e.score
    <3>1. IsFiniteSet(h \ {min}) /\ Cardinality(h \ {min}) = Cardinality(h) - 1
      BY <1>1, FS_RemoveElement
    <3>2. e \notin h \ {min}
      BY <1>1
    <3>3. Cardinality((h \ {min}) \cup {e}) = Cardinality(h \ {min}) + 1
      BY <3>1, <3>2, FS_AddElement
    <3>4. Cardinality((h \ {min}) \cup {e}) = Capacity
      BY <1>1, <2>1, <3>1, <3>3
    <3>5. ASSUME NEW kept \in (h \ {min}) \cup {e},
                 NEW out \in (S \cup {e}) \ ((h \ {min}) \cup {e})
          PROVE  out.score <= kept.score
      <4>1. out = min \/ out \in S \ h
        OBVIOUS
      <4>2. out.score <= min.score
        BY <2>2, <2>5, <4>1
      <4>3. min.score <= kept.score
        BY <1>1, <2>2, <2>4, <2>6
      <4>4. out.score \in Nat /\ min.score \in Nat /\ kept.score \in Nat
        BY <1>1, <2>4
      <4> QED
        BY <4>2, <4>3, <4>4
    <3>6. (h \ {min}) \cup {e} \subseteq S \cup {e}
      BY <1>1
    <3>7. Capacity <= Cardinality(S \cup {e})
      BY <1>1, <1>2, <2>1 DEF Best
    <3>8. H!Offer(h, e) = (h \ {min}) \cup {e}
      BY <2>3, <2>6
    <3> QED
      BY <1>1, <3>4, <3>5, <3>6, <3>7, <3>8 DEF Best
  <2>7. CASE ~(min.score < e.score)
    <3>1. ASSUME NEW kept \in h, NEW out \in (S \cup {e}) \ h
          PROVE  out.score <= kept.score
      <4>1. CASE out = e
        <5>1. out.score \in Nat /\ min.score \in Nat /\ kept.score \in Nat
          BY <1>1, <2>4
        <5>2. min.score <= kept.score
          BY <2>2
        <5> QED
          BY <2>7, <4>1, <5>1, <5>2
      <4>2. CASE out \in S \ h
        BY <2>5, <4>2
      <4> QED
        BY <4>1, <4>2
    <3>2. H!Offer(h, e) = h
      BY <2>3, <2>7
    <3>3. Capacity <= Cardinality(S \cup {e}) /\ Capacity <= Capacity
      BY <1>1, <1>2, <2>1 DEF Best
    <3> QED
      BY <1>1, <2>1, <3>1, <3>2, <3>3 DEF Best
  <2> QED
    BY <2>6, <2>7
<1> QED
  BY <1>3, <1>4

----------------------------------------------------------------------------
(* The scan: its inductive invariant.                                         *)
ScanTypes ==
  /\ live \subseteq H!Ids /\ fresh \subseteq H!Ids /\ late \subseteq H!Ids
  /\ at \in {"idle", "list", "score", "drain", "dead"}
  /\ offset \in Nat /\ page \subseteq H!Ids /\ left \subseteq page /\ old \in BOOLEAN
  /\ scored \subseteq H!Score /\ IsFiniteSet(scored)
  /\ changes \subseteq H!Ids /\ start \subseteq H!Ids /\ byAge \in BOOLEAN

(* There is a page only while it is scored, and nothing outside a scan.       *)
Resting ==
  /\ at # "score" => page = {}
  /\ at \in {"idle", "dead"} => offset = 0 /\ scored = {} /\ changes = {}

(* Each article is scored once: those of the pages before, and of this page   *)
(* those that are not left.                                                   *)
Once ==
  /\ Cardinality(scored) = offset + Cardinality(page \ left)
  /\ Cardinality(H!Seen) = Cardinality(scored)
  /\ left \cap H!Seen = {} /\ page \ left \subseteq H!Seen

(* Authors only take rows out of the result, so that a row the scan has been  *)
(* at can only have moved forward: it stays behind the scan.                  *)
Behind ==
  H!Scanning =>
    /\ H!Rows \subseteq start /\ start \ changes \subseteq H!Rows
    /\ H!Seen \subseteq start /\ page \subseteq start
    /\ \A i \in (H!Seen \cup page) \cap H!Rows : Place(H!Rows, i) < offset + Cardinality(page)

(* At the last page the articles that have been missed are as few as those    *)
(* that have changed.                                                         *)
Few ==
  /\ Cardinality(page) <= BatchSize
  /\ at = "score" /\ Cardinality(page) < BatchSize
       => Cardinality((start \ changes) \ (H!Seen \cup page)) <= Cardinality(changes)

HotListInv ==
  /\ ScanTypes /\ Resting /\ Once /\ Behind /\ Few
  /\ Best(heap, scored) /\ H!MissedWithinChanges

(* The sets of articles are finite.                                           *)
LEMMA Articles ==
  /\ LastId \in Nat /\ BatchSize \in Nat /\ H!Ids = 1 .. LastId
  /\ \A S : S \subseteq H!Ids => IsFiniteSet(S) /\ Cardinality(S) \in Nat
<1>1. LastId \in Nat /\ BatchSize \in Nat
  BY HotListAssumption DEF H!Parameters
<1>2. IsFiniteSet(1 .. LastId)
  <2>1. \A a, b \in Int : IsFiniteSet(a .. b)
    BY FS_Interval
  <2> QED
    BY <1>1, <2>1
<1> QED
  BY <1>1, <1>2, FS_Subset, FS_CardinalityType DEF H!Ids

(* Nothing is known of a scan that has not begun.                             *)
LEMMA AtRest ==
  ASSUME /\ live' \subseteq H!Ids /\ fresh' \subseteq H!Ids /\ late' \subseteq H!Ids,
         at' \in {"idle", "dead", "list"}, offset' = 0, page' = {}, left' = {}, old' \in BOOLEAN,
         heap' = {}, scored' = {}, changes' = {}, byAge' \in BOOLEAN, start' \subseteq H!Ids,
         at' = "list" => start' = live' /\ late' = {}
  PROVE  HotListInv'
<1>1. /\ IsFiniteSet({}) /\ Cardinality({}) = 0 /\ Capacity \in Nat /\ BatchSize \in Nat
  BY FS_EmptySet, HotListAssumption DEF H!Parameters
<1>2. H!Seen' = {}
  BY DEF H!Seen
<1>3. ScanTypes' /\ Resting'
  BY <1>1 DEF ScanTypes, Resting
<1>4. Once'
  <2>1. page' \ left' = {}
    OBVIOUS
  <2> QED
    BY <1>1, <1>2, <2>1 DEF Once
<1>5. Behind'
  BY <1>2 DEF Behind, H!Rows, H!Scanning
<1>6. Few'
  BY <1>1 DEF Few
<1>7. Best(heap, scored)'
  BY <1>1 DEF Best
<1>8. H!MissedWithinChanges'
  BY DEF H!MissedWithinChanges
<1> QED
  BY <1>3, <1>4, <1>5, <1>6, <1>7, <1>8 DEF HotListInv

(* A page is read: what is behind the scan is in the pages before, what is in *)
(* the page comes next.                                                       *)
LEMMA ListStep == HotListInv /\ H!List => HotListInv'
<1> SUFFICES ASSUME HotListInv, H!List PROVE HotListInv'
  OBVIOUS
<1>1. /\ at = "list" /\ at' = "score" /\ left' = page' /\ page = {} /\ left = {}
      /\ live' = live /\ fresh' = fresh /\ late' = late /\ offset' = offset /\ heap' = heap
      /\ scored' = scored /\ changes' = changes /\ start' = start /\ byAge' = byAge
      /\ old' \in BOOLEAN
  BY DEF H!List, H!table, H!history, HotListInv, Resting, ScanTypes
<1>2. /\ H!Rows \subseteq H!Ids /\ changes \subseteq H!Ids /\ start \subseteq H!Ids
      /\ offset \in Nat /\ scored \subseteq H!Score /\ IsFiniteSet(scored)
  BY DEF HotListInv, ScanTypes, H!Rows
<1>3. /\ H!Rows' = H!Rows /\ H!Seen' = H!Seen
  BY <1>1 DEF H!Rows, H!Seen
<1>4. page' = {i \in H!Rows : offset <= Place(H!Rows, i) /\ Place(H!Rows, i) < offset + BatchSize}
  BY CardinalityInScan DEF H!List, H!ListPub, H!Position, Place
<1>5. /\ IsFiniteSet(page') /\ Cardinality(page') \in Nat /\ Cardinality(page') <= BatchSize
      /\ \A i \in page' : Place(H!Rows, i) < offset + Cardinality(page')
      /\ Cardinality(page') < BatchSize => H!Rows \subseteq Under(H!Rows, offset) \cup page'
  <2>1. H!Rows \subseteq 1 .. LastId /\ LastId \in Nat /\ BatchSize \in Nat /\ offset \in Nat
    BY <1>2, Articles
  <2>2. page' = Slice(H!Rows, offset, BatchSize)
    BY <1>4 DEF Slice
  <2> QED
    BY <2>1, <2>2, SlicePlaces
<1>6. /\ IsFiniteSet(H!Rows) /\ IsFiniteSet(Under(H!Rows, offset))
      /\ Cardinality(Under(H!Rows, offset)) \in Nat
      /\ Cardinality(Under(H!Rows, offset)) <= offset
      /\ \A i \in H!Rows : Place(H!Rows, i) \in Nat
  BY <1>2, UnderPlaces, Articles
<1>7. /\ Cardinality({}) = 0 /\ page \ left = {} /\ page' \ left' = {}
  BY <1>1, FS_EmptySet
<1>8. /\ Cardinality(scored) = offset /\ Cardinality(H!Seen) = offset
  BY <1>1, <1>2, <1>7 DEF HotListInv, Once
<1>9. /\ H!Rows \subseteq start /\ start \ changes \subseteq H!Rows /\ H!Seen \subseteq start
      /\ \A i \in H!Seen \cap H!Rows : Place(H!Rows, i) < offset
  BY <1>1, <1>2, <1>7 DEF HotListInv, Behind, H!Scanning
<1>10. ScanTypes' /\ Resting'
  BY <1>1, <1>2, <1>4 DEF HotListInv, ScanTypes, Resting
<1>11. Once'
  <2>1. page' \cap H!Seen = {}
    BY <1>2, <1>4, <1>6, <1>9
  <2> QED
    BY <1>1, <1>2, <1>3, <1>7, <1>8, <2>1 DEF Once
<1>12. Behind'
  <2>1. ASSUME NEW i \in (H!Seen \cup page') \cap H!Rows
        PROVE  Place(H!Rows, i) < offset + Cardinality(page')
    <3>1. Place(H!Rows, i) \in Nat
      BY <1>6
    <3> QED
      BY <1>2, <1>5, <1>9, <3>1
  <2>2. page' \subseteq start
    BY <1>4, <1>9
  <2> QED
    BY <1>1, <1>3, <1>9, <2>1, <2>2 DEF Behind
<1>13. Few'
  <2>1. ASSUME Cardinality(page') < BatchSize
        PROVE  Cardinality((start \ changes) \ (H!Seen \cup page')) <= Cardinality(changes)
    <3> DEFINE under == Under(H!Rows, offset)
    <3>1. (start \ changes) \ (H!Seen \cup page') \subseteq under \ H!Seen
      BY <1>5, <1>9, <2>1
    <3>2. H!Seen \ under \subseteq changes
      <4>1. ASSUME NEW i \in H!Seen, i \notin changes PROVE i \in under
        BY <1>9, <4>1 DEF Under
      <4> QED
        BY <4>1
    <3>3. IsFiniteSet(H!Seen)
      BY <1>2, <1>9, Articles
    <3> HIDE DEF under
    <3>4. /\ IsFiniteSet(under) /\ Cardinality(under) \in Nat /\ Cardinality(under) <= offset
      BY <1>6 DEF under
    <3>5. /\ Cardinality(under \ H!Seen) = Cardinality(under) - Cardinality(under \cap H!Seen)
          /\ IsFiniteSet(under \ H!Seen)
      <4>1. under \ H!Seen = under \ (under \cap H!Seen)
        OBVIOUS
      <4> QED
        BY <3>4, <4>1, Difference
    <3>6. /\ Cardinality(H!Seen \ under) = Cardinality(H!Seen) - Cardinality(under \cap H!Seen)
          /\ IsFiniteSet(H!Seen \ under)
      <4>1. H!Seen \ under = H!Seen \ (under \cap H!Seen)
        OBVIOUS
      <4> QED
        BY <3>3, <4>1, Difference
    <3>7. Cardinality(H!Seen \ under) <= Cardinality(changes)
      BY <1>2, <3>2, Part, Articles
    <3>8. Cardinality((start \ changes) \ (H!Seen \cup page')) <= Cardinality(under \ H!Seen)
      BY <3>1, <3>5, Part
    <3>9. /\ Cardinality(under \cap H!Seen) \in Nat /\ Cardinality(changes) \in Nat
          /\ Cardinality((start \ changes) \ (H!Seen \cup page')) \in Nat
      BY <1>2, <3>1, <3>4, <3>5, Part, Articles
    <3> QED
      BY <1>2, <1>8, <3>4, <3>5, <3>6, <3>7, <3>8, <3>9
  <2> QED
    BY <1>1, <1>3, <1>5, <2>1 DEF Few
<1>14. Best(heap, scored)' /\ H!MissedWithinChanges'
  BY <1>1 DEF HotListInv, Best, H!MissedWithinChanges
<1> QED
  BY <1>10, <1>11, <1>12, <1>13, <1>14 DEF HotListInv

(* An article is scored: it goes from those left to those seen.               *)
LEMMA EnqueueStep ==
  ASSUME HotListInv, NEW i \in left, NEW s \in 0 .. MaxScore, H!Enqueue(i, s)
  PROVE  HotListInv'
<1> DEFINE e == [id |-> i, score |-> s]
<1>1. /\ at = "score" /\ at' = at /\ left' = left \ {i} /\ scored' = scored \cup {e}
      /\ heap' = H!Offer(heap, e)
      /\ live' = live /\ fresh' = fresh /\ late' = late /\ offset' = offset /\ page' = page
      /\ old' = old /\ changes' = changes /\ start' = start /\ byAge' = byAge
  BY DEF H!Enqueue, H!table
<1>2. e \in H!Score /\ e.id = i /\ i \in page /\ i \in H!Ids /\ page \subseteq H!Ids
  BY DEF HotListInv, ScanTypes, H!Score
<1> HIDE DEF e
<1>3. e \notin scored /\ i \notin H!Seen
  BY <1>2 DEF HotListInv, Once, H!Seen
<1>4. H!Seen' = H!Seen \cup {i} /\ H!Rows' = H!Rows
  BY <1>1, <1>2 DEF H!Seen, H!Rows
<1>5. /\ scored \subseteq H!Score /\ IsFiniteSet(scored) /\ offset \in Nat /\ left \subseteq page
      /\ IsFiniteSet(page \ left) /\ Cardinality(page \ left) \in Nat
      /\ IsFiniteSet(page) /\ Cardinality(scored) \in Nat
  BY <1>2, Articles, Part, FS_CardinalityType DEF HotListInv, ScanTypes
<1>6. Best(heap, scored)'
  BY <1>1, <1>2, <1>3, <1>5, OfferKeepsTheBest DEF HotListInv
<1>7. IsFiniteSet(scored \cup {e}) /\ Cardinality(scored \cup {e}) = Cardinality(scored) + 1
  BY <1>3, <1>5, FS_AddElement
<1>8. IsFiniteSet(H!Seen)
  <2>1. H!Seen \subseteq H!Ids
    BY <1>5 DEF H!Seen, H!Score
  <2> QED
    BY <2>1, Articles
<1>9. Cardinality(H!Seen \cup {i}) = Cardinality(H!Seen) + 1
  BY <1>3, <1>8, FS_AddElement
<1>10. /\ page \ (left \ {i}) = (page \ left) \cup {i}
       /\ Cardinality((page \ left) \cup {i}) = Cardinality(page \ left) + 1
  <2>1. page \ (left \ {i}) = (page \ left) \cup {i} /\ i \notin page \ left
    BY <1>2
  <2> QED
    BY <1>5, <2>1, FS_AddElement
<1>11. ScanTypes' /\ Resting'
  BY <1>1, <1>2, <1>5, <1>7 DEF HotListInv, ScanTypes, Resting
<1>12. Once'
  <2>1. /\ Cardinality(scored) = offset + Cardinality(page \ left)
        /\ Cardinality(H!Seen) = Cardinality(scored)
        /\ left \cap H!Seen = {} /\ page \ left \subseteq H!Seen
    BY DEF HotListInv, Once
  <2>2. page' \ left' = (page \ left) \cup {i}
    BY <1>1, <1>10
  <2>3. /\ Cardinality(scored)' = Cardinality(scored) + 1
        /\ Cardinality(H!Seen)' = Cardinality(H!Seen) + 1
        /\ Cardinality(page \ left)' = Cardinality(page \ left) + 1
    BY <1>1, <1>4, <1>7, <1>9, <1>10, <2>2
  <2>4. (left \cap H!Seen)' = {} /\ (page \ left \subseteq H!Seen)'
    BY <1>1, <1>4, <2>1, <2>2
  <2> QED
    BY <1>1, <1>5, <2>1, <2>3, <2>4 DEF Once
<1>13. H!Seen' \cup page' = H!Seen \cup page
  BY <1>1, <1>2, <1>4
<1>14. Behind' /\ Few'
  <2>1. i \in start
    BY <1>1, <1>2 DEF HotListInv, Behind, H!Scanning
  <2> QED
    BY <1>1, <1>4, <1>13, <2>1 DEF HotListInv, Behind, Few, H!Scanning
<1>15. H!MissedWithinChanges'
  BY <1>1 DEF H!MissedWithinChanges
<1> QED
  BY <1>6, <1>11, <1>12, <1>14, <1>15 DEF HotListInv

(* The next page begins behind this one; the last page was short, or old.     *)
LEMMA NextPageStep == HotListInv /\ H!NextPage => HotListInv'
<1> SUFFICES ASSUME HotListInv, H!NextPage PROVE HotListInv'
  OBVIOUS
<1>1. /\ at = "score" /\ left = {} /\ left' = {} /\ page' = {} /\ old' = FALSE
      /\ offset' = offset + Cardinality(page)
      /\ at' = IF Cardinality(page) < BatchSize \/ old THEN "drain" ELSE "list"
      /\ byAge' = (Cardinality(page) = BatchSize /\ old)
      /\ live' = live /\ fresh' = fresh /\ late' = late /\ heap' = heap
      /\ scored' = scored /\ changes' = changes /\ start' = start
  BY CardinalityInScan DEF H!NextPage, H!NextOffset, H!Stops, H!table
<1>2. /\ H!Seen' = H!Seen /\ H!Rows' = H!Rows
  BY <1>1 DEF H!Seen, H!Rows
<1>3. /\ page \subseteq H!Seen /\ page \ left = page /\ page' \ left' = {}
      /\ Cardinality(scored) = offset + Cardinality(page)
      /\ Cardinality(H!Seen) = Cardinality(scored)
  <2>1. page \ left = page
    BY <1>1
  <2> QED
    BY <1>1, <2>1 DEF HotListInv, Once
<1>4. /\ offset \in Nat /\ Cardinality(page) \in Nat /\ BatchSize \in Nat /\ Cardinality({}) = 0
      /\ offset' \in Nat
  <2>1. offset \in Nat /\ page \subseteq H!Ids
    BY DEF HotListInv, ScanTypes
  <2>2. Cardinality(page) \in Nat /\ BatchSize \in Nat
    BY <2>1, Articles
  <2>3. Cardinality({}) = 0
    BY FS_EmptySet
  <2> QED
    BY <1>1, <2>1, <2>2, <2>3
<1>5. ScanTypes'
  BY <1>1, <1>4 DEF HotListInv, ScanTypes
<1>6. Resting' /\ Best(heap, scored)'
  BY <1>1 DEF HotListInv, Resting, Best
<1>7. Once'
  BY <1>1, <1>2, <1>3, <1>4 DEF Once
<1>8. Behind'
  <2>1. H!Seen \cup page = H!Seen \cup {}
    BY <1>3
  <2>2. offset' + Cardinality(page') = offset + Cardinality(page)
    BY <1>1, <1>4
  <2>3. (H!Seen \cup page) \cap H!Rows = (H!Seen' \cup page') \cap H!Rows'
    BY <1>1, <1>2, <2>1
  <2> QED
    BY <1>1, <1>2, <2>2, <2>3 DEF HotListInv, Behind, H!Scanning
<1>9. Few'
  BY <1>1, <1>4 DEF Few
<1>10. H!MissedWithinChanges'
  <2>1. ASSUME at' = "drain", ~byAge'
        PROVE  Cardinality((start \ changes) \ H!Seen) <= Cardinality(changes)
    <3>1. Cardinality(page) <= BatchSize
      BY DEF HotListInv, Few
    <3>2. Cardinality(page) < BatchSize \/ old
      BY <1>1, <2>1
    <3>4. ~(Cardinality(page) = BatchSize /\ old)
      BY <1>1, <2>1
    <3>5. Cardinality(page) < BatchSize
      BY <1>4, <3>1, <3>2, <3>4
    <3>3. H!Seen \cup page = H!Seen
      BY <1>3
    <3> QED
      BY <1>1, <3>5, <3>3 DEF HotListInv, Few
  <2> QED
    BY <1>1, <1>2, <2>1, CardinalityInScan DEF H!MissedWithinChanges
<1> QED
  BY <1>5, <1>6, <1>7, <1>8, <1>9, <1>10 DEF HotListInv

(* Authors: a row leaves the result, and never enters it during a scan.       *)
LEMMA AuthorStep ==
  ASSUME HotListInv, NEW i \in H!Ids,
         H!PublishArticle(i) \/ H!WithdrawArticle(i) \/ H!Ages(i)
  PROVE  HotListInv'
<1>1. /\ at' = at /\ offset' = offset /\ page' = page /\ left' = left /\ old' = old
      /\ heap' = heap /\ scored' = scored /\ start' = start /\ byAge' = byAge
  BY DEF H!PublishArticle, H!WithdrawArticle, H!Ages, H!scan, H!history
<1>2. /\ H!Scanning => changes' = changes \cup {i} /\ H!Rows' = H!Rows \ {i}
      /\ ~H!Scanning => changes' = changes
  BY DEF H!PublishArticle, H!WithdrawArticle, H!Ages, H!scan, H!history, H!Changes,
         H!Scanning, H!Rows
<1>3. /\ H!Seen' = H!Seen /\ H!Scanning' = H!Scanning
  BY <1>1 DEF H!Seen, H!Scanning
<1>4. ScanTypes'
  <2>1. live' \subseteq H!Ids /\ fresh' \subseteq H!Ids /\ late' \subseteq H!Ids
    BY DEF HotListInv, ScanTypes, H!PublishArticle, H!WithdrawArticle, H!Ages, H!scan
  <2>2. changes' \subseteq H!Ids
    BY <1>2 DEF HotListInv, ScanTypes
  <2> QED
    BY <1>1, <2>1, <2>2 DEF HotListInv, ScanTypes
<1>5. Resting' /\ Once' /\ Best(heap, scored)'
  BY <1>1, <1>2, <1>3 DEF HotListInv, Resting, Once, Best, H!Scanning
<1>6. Behind'
  <2>1. ASSUME H!Scanning
        PROVE  /\ H!Rows' \subseteq start /\ start \ changes' \subseteq H!Rows'
               /\ \A j \in (H!Seen \cup page) \cap H!Rows' :
                     Place(H!Rows', j) < offset + Cardinality(page)
    <3>1. /\ H!Rows \subseteq start /\ start \ changes \subseteq H!Rows
          /\ \A j \in (H!Seen \cup page) \cap H!Rows : Place(H!Rows, j) < offset + Cardinality(page)
      BY <2>1 DEF HotListInv, Behind
    <3>2. ASSUME NEW j \in (H!Seen \cup page) \cap H!Rows'
          PROVE  Place(H!Rows', j) < offset + Cardinality(page)
      <4>1. j \in (H!Seen \cup page) \cap H!Rows /\ H!Rows' \subseteq H!Rows
        BY <1>2, <2>1, <3>2
      <4>2. H!Rows \subseteq H!Ids /\ page \subseteq H!Ids /\ offset \in Nat
        BY DEF HotListInv, ScanTypes, H!Rows
      <4>3. /\ IsFiniteSet({k \in H!Rows : k < j}) /\ Cardinality(page) \in Nat
        BY <4>2, Articles
      <4>4. {k \in H!Rows' : k < j} \subseteq {k \in H!Rows : k < j}
        BY <4>1
      <4>5. /\ Place(H!Rows', j) <= Place(H!Rows, j)
            /\ Place(H!Rows', j) \in Nat /\ Place(H!Rows, j) \in Nat
        BY <4>3, <4>4, Part DEF Place
      <4>6. Place(H!Rows, j) < offset + Cardinality(page)
        BY <3>1, <4>1
      <4> QED
        BY <4>2, <4>3, <4>5, <4>6
    <3> QED
      BY <1>2, <2>1, <3>1, <3>2
  <2> QED
    BY <1>1, <1>3, <2>1 DEF HotListInv, Behind
<1>7. Few'
  <2>1. ASSUME at = "score", Cardinality(page) < BatchSize
        PROVE  Cardinality((start \ changes') \ (H!Seen \cup page)) <= Cardinality(changes')
    <3> DEFINE missed == (start \ changes) \ (H!Seen \cup page)
               fewer  == (start \ changes') \ (H!Seen \cup page)
    <3>1. changes' = changes \cup {i}
      BY <1>2, <2>1 DEF H!Scanning
    <3>2. fewer \subseteq missed /\ changes \subseteq changes'
      BY <3>1
    <3>3. Cardinality(missed) <= Cardinality(changes)
      BY <2>1 DEF HotListInv, Few
    <3>4. missed \subseteq H!Ids /\ changes' \subseteq H!Ids
      BY <3>1 DEF HotListInv, ScanTypes
    <3> HIDE DEF missed, fewer
    <3>5. IsFiniteSet(missed) /\ IsFiniteSet(changes')
      BY <3>4, Articles
    <3>6. /\ Cardinality(fewer) <= Cardinality(missed) /\ Cardinality(changes) <= Cardinality(changes')
          /\ Cardinality(fewer) \in Nat /\ Cardinality(missed) \in Nat
          /\ Cardinality(changes) \in Nat /\ Cardinality(changes') \in Nat
      BY <3>2, <3>5, Part
    <3>7. Cardinality(fewer) <= Cardinality(changes')
      BY <3>3, <3>6
    <3> QED
      BY <3>7 DEF fewer
  <2> QED
    BY <1>1, <1>3, <2>1 DEF HotListInv, Few
<1>8. H!MissedWithinChanges'
  BY <1>1, <1>2, <1>3 DEF HotListInv, H!MissedWithinChanges, H!Scanning
<1> QED
  BY <1>4, <1>5, <1>6, <1>7, <1>8 DEF HotListInv

\* What a scan has ranked when authors interfere, for any number of articles and any
\* size of the pages and of the heap: articles are scored once, the best of them are
\* kept, and no more unchanged articles are missed than articles have changed
\* (ranking_service.go:75-137).
THEOREM ScanTheorem == H!Spec => []ScanInv
<1>1. H!Init => HotListInv
  <2> SUFFICES ASSUME H!Init PROVE HotListInv
    OBVIOUS
  <2>1. /\ IsFiniteSet({}) /\ Cardinality({}) = 0 /\ Capacity \in Nat /\ BatchSize \in Nat
    BY FS_EmptySet, HotListAssumption DEF H!Parameters
  <2>2. H!Seen = {} /\ page \ left = {}
    BY DEF H!Init, H!Seen
  <2>3. /\ at = "idle" /\ scored = {} /\ heap = {} /\ page = {} /\ left = {} /\ changes = {}
        /\ start = {} /\ offset = 0 /\ old = FALSE /\ byAge = FALSE
        /\ live \subseteq H!Ids /\ fresh \subseteq live /\ late = {}
    BY DEF H!Init
  <2>4. ScanTypes /\ Resting
    BY <2>1, <2>3 DEF ScanTypes, Resting
  <2>5. Once
    <3>1. Cardinality(scored) = 0 /\ Cardinality(H!Seen) = 0 /\ Cardinality(page \ left) = 0
      BY <2>1, <2>2, <2>3
    <3> QED
      BY <2>2, <2>3, <3>1 DEF Once
  <2>6. Behind /\ H!MissedWithinChanges
    BY <2>3 DEF Behind, H!MissedWithinChanges, H!Scanning
  <2>7. Few /\ Best(heap, scored)
    BY <2>1, <2>3 DEF Few, Best
  <2> QED
    BY <2>4, <2>5, <2>6, <2>7 DEF HotListInv
<1>2. HotListInv /\ [H!Next]_(H!vars) => HotListInv'
  <2> SUFFICES ASSUME HotListInv, [H!Next]_(H!vars) PROVE HotListInv'
    OBVIOUS
  <2>1. live \subseteq H!Ids /\ fresh \subseteq H!Ids /\ late \subseteq H!Ids
    BY DEF HotListInv, ScanTypes
  <2>2. ASSUME H!Begin PROVE HotListInv'
    <3>1. at = "idle" /\ Best(heap, scored)
      BY <2>2 DEF H!Begin, HotListInv
    <3>2. offset = 0 /\ page = {} /\ scored = {} /\ changes = {}
      BY <3>1 DEF HotListInv, Resting
    <3>3. left = {} /\ heap = {} /\ old \in BOOLEAN /\ byAge \in BOOLEAN
      BY <3>1, <3>2 DEF HotListInv, ScanTypes, Best
    <3> QED
      BY <2>1, <2>2, <3>2, <3>3, AtRest DEF H!Begin
  <2>3. ASSUME H!End("idle") \/ H!End("dead") PROVE HotListInv'
    BY <2>1, <2>3, AtRest DEF H!End, H!table
  <2>4. ASSUME H!Fail \/ H!NoCounters \/ H!Drain \/ H!Store \/ H!Restart PROVE HotListInv'
    BY <2>3, <2>4 DEF H!Fail, H!NoCounters, H!Drain, H!Store, H!Restart
  <2>5. ASSUME UNCHANGED H!vars PROVE HotListInv'
    BY <2>5 DEF H!vars, H!table, H!scan, H!history, HotListInv, ScanTypes, Resting, Once,
                Behind, Few, Best, H!MissedWithinChanges, H!Scanning, H!Seen, H!Rows
  <2> QED
    BY <2>2, <2>4, <2>5, ListStep, EnqueueStep, NextPageStep, AuthorStep DEF H!Next
<1>3. HotListInv => ScanInv
  <2> SUFFICES ASSUME HotListInv PROVE H!ScanInv
    BY DEF ScanInv
  <2>1. H!KeptAreBest
    <3>1. /\ Cardinality(heap) \in Nat /\ Cardinality(scored) \in Nat /\ Capacity \in Nat
      BY Part, FS_CardinalityType, HotListAssumption DEF HotListInv, ScanTypes, Best, H!Parameters
    <3>2. \A a, b, m \in Nat : m <= a /\ m <= b /\ (m = a \/ m = b) => m = H!Min({a, b})
      BY DEF H!Min
    <3> QED
      BY <3>1, <3>2, CardinalityInScan DEF H!KeptAreBest, HotListInv, Best
  <2>2. H!ScoredOnce
    <3>1. ASSUME at \in {"list", "drain"} PROVE page = {} /\ offset \in Nat
      BY <3>1 DEF HotListInv, Resting, ScanTypes
    <3>2. Cardinality({}) = 0
      BY FS_EmptySet
    <3>3. page = {} => Cardinality(page \ left) = 0
      <4>1. page = {} => page \ left = {}
        OBVIOUS
      <4> QED
        BY <3>2, <4>1
    <3>4. ASSUME at \in {"list", "drain"}
          PROVE  Cardinality(scored) = offset /\ Cardinality(H!Seen) = offset
      BY <3>1, <3>3, <3>4 DEF HotListInv, Once
    <3> QED
      BY <3>4, CardinalityInScan DEF H!ScoredOnce
  <2> QED
    BY <2>1, <2>2 DEF H!ScanInv, HotListInv
<1> QED
  BY <1>1, <1>2, <1>3, PTL DEF H!Spec
=============================================================================
