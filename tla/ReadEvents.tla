----------------------------- MODULE ReadEvents -----------------------------
(* Read events of articles: GetPubById sends one to the topic article_read    *)
(* for every successful read, and the consumer group "interactive" counts     *)
(* them in the interactive table.  samarax.BatchHandler collects batches,     *)
(* InteractiveReadEventConsumer.BatchConsume has one statement per event, and *)
(* sarama commits the marked offsets now and then.  One partition.            *)
(*                                                                            *)
(* An offset is a position of log.  The consumers are processes; a process    *)
(* calls ConsumerGroup.Consume once in its life, and Consume is over when its *)
(* session is (interactive/events/consumer.go:29).                            *)
EXTENDS Integers, Sequences

CONSTANTS
  Consumers,   \* processes with an InteractiveReadEventConsumer
  Articles,
  Garbage,     \* a message that is no JSON of a ReadEvent
  None,        \* no process, no committed offset
  BatchSize,   \* batchSize of ConsumeClaim (10 in the code)
  MaxLog,      \* bound: messages
  MaxLosses,   \* bound: crashes, evictions, commits and answers lost
  MaxFailures, \* bound: failing statements
  MaxStarts    \* bound: process starts

ASSUME ReadEventsAssumption ==
  /\ BatchSize \in Nat \ {0}
  /\ {MaxLog, MaxLosses, MaxFailures, MaxStarts} \subseteq Nat
  /\ Garbage \notin Articles /\ None \notin Consumers /\ None \notin Nat

VARIABLES
  log,       \* the partition
  committed, \* the offset the group has committed, None before the first
  owner,     \* the process that the coordinator believes has the partition
  st,        \* "down", "joining", "idle" (a member without the partition),
             \* "collect", "apply" or "stopped" (Consume has returned)
  first,     \* the batch is first[i] + 1 .. pos[i]
  pos,
  at,        \* the last offset of the batch BatchConsume has dealt with
  marked,    \* the offset up to which messages are marked
  times,     \* times[o]: how often the event at o was counted
  dropped,   \* offsets whose batch failed before or at them
  skipTo,    \* offsets up to here were passed over by a start at the newest
  losses, failures, starts  \* counters of the bounds

session == <<st, first, pos, at, marked>>
history == <<times, dropped, skipTo>>
bounds  == <<losses, failures, starts>>
vars    == <<log, committed, owner, session, history, bounds>>

Offsets == 1..MaxLog
Live    == {"collect", "apply"}

Init ==
  /\ log = <<>> /\ committed = None /\ owner = None
  /\ st = [i \in Consumers |-> "down"]
  /\ first = [i \in Consumers |-> 0] /\ pos = [i \in Consumers |-> 0]
  /\ at = [i \in Consumers |-> 0] /\ marked = [i \in Consumers |-> 0]
  /\ times = [o \in Offsets |-> 0] /\ dropped = {} /\ skipTo = 0
  /\ losses = 0 /\ failures = 0 /\ starts = 0

Lose   == losses < MaxLosses /\ losses' = losses + 1 /\ UNCHANGED <<failures, starts>>
Fails  == failures < MaxFailures /\ failures' = failures + 1 /\ UNCHANGED <<losses, starts>>
Smooth == UNCHANGED bounds
----------------------------------------------------------------------------
(* articleService.GetPubById: the goroutine of a successful read sends its    *)
(* event.  A send that fails is only logged and leaves no trace here.         *)
GetPubById(m) ==
  /\ Len(log) < MaxLog
  /\ log' = Append(log, m)
  /\ Smooth
  /\ UNCHANGED <<committed, owner, session, history>>

(* InteractiveReadEventConsumer.Start.                                        *)
Start(i) ==
  /\ st[i] = "down" /\ starts < MaxStarts
  /\ starts' = starts + 1 /\ UNCHANGED <<losses, failures>>
  /\ st' = [st EXCEPT ![i] = "joining"]
  /\ UNCHANGED <<log, committed, owner, first, pos, at, marked, history>>

(* A generation is formed of the processes that are joining; one of them gets *)
(* the partition.  sarama begins at the committed offset or, when there is    *)
(* none, at the newest (Consumer.Offsets.Initial is not set).                 *)
Begin == IF committed = None THEN Len(log) ELSE committed

Claim(i) ==
  /\ st[i] = "joining" /\ owner = None
  /\ owner' = i
  /\ st' = [j \in Consumers |-> IF j = i THEN "collect"
                                ELSE IF st[j] = "joining" THEN "idle" ELSE st[j]]
  /\ first' = [first EXCEPT ![i] = Begin] /\ pos' = [pos EXCEPT ![i] = Begin]
  /\ at' = [at EXCEPT ![i] = Begin] /\ marked' = [marked EXCEPT ![i] = Begin]
  /\ skipTo' = IF committed = None THEN Len(log) ELSE skipTo
  /\ Smooth
  /\ UNCHANGED <<log, committed, times, dropped>>

(* ConsumeClaim takes the next message into the batch.                        *)
Collect(i) ==
  /\ st[i] = "collect"
  /\ pos[i] < Len(log) /\ pos[i] - first[i] < BatchSize
  /\ pos' = [pos EXCEPT ![i] = @ + 1]
  /\ Smooth
  /\ UNCHANGED <<log, committed, owner, st, first, at, marked, history>>

(* The batch is full or its second is over: BatchConsume begins.  (With an    *)
(* empty batch nothing happens.)                                              *)
Dispatch(i) ==
  /\ st[i] = "collect" /\ pos[i] > first[i]
  /\ st' = [st EXCEPT ![i] = "apply"]
  /\ Smooth
  /\ UNCHANGED <<log, committed, owner, first, pos, at, marked, history>>

(* BatchIncrReadCnt: the next event in a statement of its own; a message that *)
(* could not be decoded is not among the events.                              *)
Counted(o) == IF log[o] \in Articles THEN [times EXCEPT ![o] = @ + 1] ELSE times

(* Mutant: a message that could not be decoded holds the batch up.            *)
ApplyStopsAtGarbage(i) ==
  /\ st[i] = "apply" /\ at[i] < pos[i] /\ log[at[i] + 1] # Garbage
  /\ at' = [at EXCEPT ![i] = @ + 1]
  /\ times' = Counted(at[i] + 1)
  /\ Smooth
  /\ UNCHANGED <<log, committed, owner, st, first, pos, marked, dropped, skipTo>>

Apply(i) ==
  /\ st[i] = "apply" /\ at[i] < pos[i]
  /\ at' = [at EXCEPT ![i] = @ + 1]
  /\ times' = Counted(at[i] + 1)
  /\ Smooth
  /\ UNCHANGED <<log, committed, owner, st, first, pos, marked, dropped, skipTo>>

(* A statement fails, or the second of the batch is over: the rest of the     *)
(* batch is not counted.                                                      *)
ApplyFails(i) ==
  /\ st[i] = "apply" /\ at[i] < pos[i]
  /\ Fails
  /\ dropped' = dropped \union ((at[i] + 1)..pos[i])
  /\ at' = [at EXCEPT ![i] = pos[i]]
  /\ UNCHANGED <<log, committed, owner, st, first, pos, marked, times, skipTo>>

(* ... or it succeeds and only its answer is lost.                            *)
ApplyReplyLost(i) ==
  /\ st[i] = "apply" /\ at[i] < pos[i]
  /\ Fails
  /\ times' = Counted(at[i] + 1)
  /\ dropped' = dropped \union ((at[i] + 2)..pos[i])
  /\ at' = [at EXCEPT ![i] = pos[i]]
  /\ UNCHANGED <<log, committed, owner, st, first, pos, marked, skipTo>>

(* All messages of the batch are marked, whatever the handler returned.       *)
Mark(i) ==
  /\ st[i] = "apply" /\ at[i] = pos[i]
  /\ marked' = [marked EXCEPT ![i] = pos[i]]
  /\ first' = [first EXCEPT ![i] = pos[i]]
  /\ st' = [st EXCEPT ![i] = "collect"]
  /\ Smooth
  /\ UNCHANGED <<log, committed, owner, pos, at, history>>
----------------------------------------------------------------------------
(* sarama's offset manager and the coordinator of the group.                  *)

(* The commit of the marked offsets: nothing is committed before something    *)
(* was marked.  A process that lost the partition has its commits refused.    *)
HasMarked(i) == marked[i] # (IF committed = None THEN skipTo ELSE committed)

(* Mutant: messages are marked as soon as they are in the batch.              *)
CommitCollected(i) ==
  committed' = IF owner = i /\ pos[i] # Begin THEN pos[i] ELSE committed

CommitMarked(i) ==
  committed' = IF owner = i /\ HasMarked(i) THEN marked[i] ELSE committed

AutoCommit(i) ==
  /\ st[i] \in Live /\ owner = i /\ HasMarked(i)
  /\ CommitMarked(i)
  /\ Smooth
  /\ UNCHANGED <<log, owner, session, history>>

(* Another process joins, or the coordinator has evicted this one: the        *)
(* session ends, the channel of messages is closed and ConsumeClaim returns,  *)
(* leaving its unfinished batch.  The marks are committed (or that is lost).  *)
Disturbed(i) == owner # i \/ \E j \in Consumers : st[j] = "joining"

Leave(i) ==
  /\ st' = [st EXCEPT ![i] = "stopped"]
  /\ owner' = IF owner = i THEN None ELSE owner
  /\ UNCHANGED <<log, first, pos, at, marked, history>>

(* Mutant: the marks of a session that ends are not committed.                *)
SessionEndsUncommitted(i) ==
  /\ st[i] = "collect" /\ Disturbed(i)
  /\ Leave(i) /\ UNCHANGED committed
  /\ Smooth

SessionEnds(i) ==
  /\ st[i] = "collect" /\ Disturbed(i)
  /\ Leave(i) /\ CommitMarked(i)
  /\ Smooth

LastCommitLost(i) ==
  /\ st[i] = "collect" /\ Disturbed(i) /\ owner = i /\ HasMarked(i)
  /\ Leave(i) /\ UNCHANGED committed
  /\ Lose

(* A member without the partition does not survive a rebalance either.        *)
IdleEnds(i) ==
  /\ st[i] = "idle"
  /\ owner = None \/ \E j \in Consumers : st[j] = "joining"
  /\ Leave(i) /\ UNCHANGED committed
  /\ Smooth

(* The coordinator has not heard from the owner for a session timeout; the    *)
(* process itself does not know yet.                                          *)
Evict(i) ==
  /\ st[i] \in Live /\ owner = i
  /\ owner' = None
  /\ Lose
  /\ UNCHANGED <<log, committed, session, history>>

Crash(i) ==
  /\ st[i] # "down"
  /\ st' = [st EXCEPT ![i] = "down"]
  /\ owner' = IF owner = i THEN None ELSE owner
  /\ Lose
  /\ UNCHANGED <<log, committed, first, pos, at, marked, history>>
----------------------------------------------------------------------------
Consume(i) == \/ Collect(i) \/ Dispatch(i) \/ Apply(i) \/ Mark(i)
              \/ SessionEnds(i) \/ IdleEnds(i)
Trouble(i) == \/ ApplyFails(i) \/ ApplyReplyLost(i) \/ LastCommitLost(i)
              \/ Evict(i) \/ Crash(i)

Next ==
  \/ \E m \in Articles \union {Garbage} : GetPubById(m)
  \/ \E i \in Consumers : Start(i) \/ Claim(i) \/ AutoCommit(i) \/ Consume(i) \/ Trouble(i)

Fairness == \A i \in Consumers : WF_vars(Claim(i)) /\ WF_vars(Consume(i))

Spec     == Init /\ [][Next]_vars
FairSpec == Spec /\ Fairness
----------------------------------------------------------------------------
(* What became of an offset: counted, lost with its batch, undecodable, or    *)
(* passed over by a start at the newest offset.                               *)
Settled(o) == \/ times[o] > 0 \/ o \in dropped \/ o <= skipTo
              \/ log[o] = Garbage

TypeOK ==
  /\ log \in Seq(Articles \union {Garbage}) /\ Len(log) <= MaxLog
  /\ committed \in 0..Len(log) \union {None}
  /\ owner \in Consumers \union {None}
  /\ st \in [Consumers -> {"down", "joining", "idle", "collect", "apply", "stopped"}]
  /\ first \in [Consumers -> Nat] /\ pos \in [Consumers -> Nat]
  /\ at \in [Consumers -> Nat] /\ marked \in [Consumers -> Nat]
  /\ \A i \in Consumers : /\ marked[i] <= first[i] /\ first[i] <= at[i]
                          /\ at[i] <= pos[i] /\ pos[i] <= Len(log)
  /\ times \in [Offsets -> Nat] /\ dropped \subseteq Offsets /\ skipTo \in 0..Len(log)

(* The group never commits past an event that nobody dealt with, through any  *)
(* sequence of batches, rebalances, evictions, crashes and restarts: what is  *)
(* not delivered again was counted, undecodable, in a batch that failed, or   *)
(* older than the start of a group that had committed nothing.                *)
CommittedIsSettled ==
  committed # None => \A o \in 1..committed : Settled(o)

(* An event is counted once more only for a crash, an eviction or a lost      *)
(* commit; a rebalance alone repeats nothing.                                 *)
RepeatsAreLosses == \A o \in Offsets : times[o] <= 1 + losses

Deserted == \A i \in Consumers : st[i] \in {"down", "stopped"}

(* Every event that is sent is settled in the end, or there comes a time when *)
(* no process consumes any more: a start of one process ends the consumption  *)
(* of all others for good, and no process takes over from a dead one.         *)
EventuallySettled ==
  \A o \in Offsets : (Len(log) >= o) ~> ((Len(log) >= o /\ Settled(o)) \/ Deserted)

(* batch_hanler.go:79: what is marked are messages that were processed.       *)
MarkedWereProcessed ==
  \A i \in Consumers : \A o \in 1..marked[i] :
    log[o] \in Articles /\ o > skipTo => times[o] > 0
=============================================================================
