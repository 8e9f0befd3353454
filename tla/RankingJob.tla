------------------------------ MODULE RankingJob ------------------------------
(***************************************************************************)
(* The hot-list job of internal/job/ranking.go (internal/job/like100.go    *)
(* has the same Run and Close): every firing of the cron of ioc/job.go     *)
(* calls Run in a goroutine of its own, localLock guards r.lock inside a   *)
(* process, and one redis key elects the process that computes.            *)
(*                                                                         *)
(* The redis lock (github.com/gotomicro/redis-lock) is external and        *)
(* modelled from its use: Lock sets the key to a fresh value unless it     *)
(* exists, AutoRefresh prolongs it until a refresh fails or the lock is    *)
(* unlocked, Unlock deletes the key if it still has the value.             *)
(***************************************************************************)
EXTENDS Integers, FiniteSets

CONSTANTS Instances,  \* processes that run the cron
          Runs,       \* bound: Run calls of one process under way at a time
          MaxLocks,   \* bound: locks one process takes in its lifetime
          MaxCrashes, \* bound: crashes of processes
          Faults      \* "redis": commands fail or replies are lost;
                      \* "stall": a refresh comes too late; "close": Close is called

ASSUME LocksAssumption   == MaxLocks \in Nat \ {0}
ASSUME CrashesAssumption == MaxCrashes \in Nat

VARIABLES
  key,        \* the redis key: NoKey, or the process and lock that set it
  localLock,  \* localLock[i]: the mutex of process i is locked
  lock,       \* r.lock of each process: 0 is nil, n its n-th lock
  made,       \* locks the process has taken so far
  run,        \* run[i][r]: where that Run call is
  refresher,  \* refresher[i][n]: the AutoRefresh goroutine of the n-th lock
  closing,    \* where Close is
  toUnlock,   \* the lock Close has read
  crashed     \* processes that have died

vars == <<key, localLock, lock, made, run, refresher, closing, toUnlock, crashed>>
shutdown == <<closing, toUnlock>>

Locks == 1 .. MaxLocks
NoKey == <<>>

Init == /\ key       = NoKey
        /\ localLock = [i \in Instances |-> FALSE]
        /\ lock      = [i \in Instances |-> 0]
        /\ made      = [i \in Instances |-> 0]
        /\ run       = [i \in Instances |-> [r \in Runs |-> "idle"]]
        /\ refresher = [i \in Instances |-> [n \in Locks |-> "off"]]
        /\ closing   = [i \in Instances |-> "no"]
        /\ toUnlock  = [i \in Instances |-> 0]
        /\ crashed   = {}

RunTo(i, r, s) == run' = [run EXCEPT ![i][r] = s]

-----------------------------------------------------------------------------
\* Run

\* The cron fires; the new goroutine asks for localLock.
Fire(i, r) ==
  /\ run[i][r] \in {"idle", "done"}
  /\ RunTo(i, r, "enter")
  /\ UNCHANGED <<key, localLock, lock, made, refresher, shutdown, crashed>>

\* r.lock is nil: the redis lock is requested with localLock held.
EnterWithoutLock(i, r) ==
  /\ run[i][r] = "enter" /\ ~localLock[i]
  /\ lock[i] = 0
  /\ localLock' = [localLock EXCEPT ![i] = TRUE]
  /\ RunTo(i, r, "locking")
  /\ UNCHANGED <<key, lock, made, refresher, shutdown, crashed>>

\* Mutant: r.lock is not looked at.
EnterAlways(i, r) ==
  /\ run[i][r] = "enter" /\ ~localLock[i]
  /\ RunTo(i, r, "topn")
  /\ UNCHANGED <<key, localLock, lock, made, refresher, shutdown, crashed>>

\* r.lock is set: the mutex is taken and no path of Run unlocks it.
EnterWithLock(i, r) ==
  /\ run[i][r] = "enter" /\ ~localLock[i]
  /\ lock[i] # 0
  /\ localLock' = [localLock EXCEPT ![i] = TRUE]
  /\ RunTo(i, r, "topn")
  /\ UNCHANGED <<key, lock, made, refresher, shutdown, crashed>>

LockSucceeds(i, r) ==
  /\ run[i][r] = "locking"
  /\ key = NoKey /\ made[i] < MaxLocks
  /\ made' = [made EXCEPT ![i] = @ + 1]
  /\ key'  = <<i, made'[i]>>
  /\ lock' = [lock EXCEPT ![i] = made'[i]]
  /\ localLock' = [localLock EXCEPT ![i] = FALSE]
  /\ refresher' = [refresher EXCEPT ![i][made'[i]] = "on"]
  /\ RunTo(i, r, "topn")
  /\ UNCHANGED <<shutdown, crashed>>

\* Mutant: the error path leaves localLock locked.
LockFailsLocked(i, r) ==
  /\ run[i][r] = "locking"
  /\ key # NoKey \/ "redis" \in Faults
  /\ RunTo(i, r, "done")
  /\ UNCHANGED <<key, localLock, lock, made, refresher, shutdown, crashed>>

\* Lock fails after its retries: localLock is unlocked, Run returns.
LockFails(i, r) ==
  /\ run[i][r] = "locking"
  /\ key # NoKey \/ "redis" \in Faults
  /\ localLock' = [localLock EXCEPT ![i] = FALSE]
  /\ RunTo(i, r, "done")
  /\ UNCHANGED <<key, lock, made, refresher, shutdown, crashed>>

\* Every reply to the requests of this Lock is lost: the key is set for nobody.
LockReplyLost(i, r) ==
  /\ "redis" \in Faults
  /\ run[i][r] = "locking"
  /\ key = NoKey /\ made[i] < MaxLocks
  /\ made' = [made EXCEPT ![i] = @ + 1]
  /\ key'  = <<i, made'[i]>>
  /\ localLock' = [localLock EXCEPT ![i] = FALSE]
  /\ RunTo(i, r, "done")
  /\ UNCHANGED <<lock, refresher, shutdown, crashed>>

\* TopN returns, at the latest when its context ends.
TopNReturns(i, r) ==
  /\ run[i][r] = "topn"
  /\ RunTo(i, r, "done")
  /\ UNCHANGED <<key, localLock, lock, made, refresher, shutdown, crashed>>

-----------------------------------------------------------------------------
\* The goroutine that keeps the redis lock

\* Refresh finds another value, or fails otherwise than by its deadline.  (A
\* refresh that succeeds, or is tried again, changes nothing.)
RefreshFails(i, n) ==
  /\ refresher[i][n] = "on"
  /\ key # <<i, n>> \/ "redis" \in Faults
  /\ refresher' = [refresher EXCEPT ![i][n] = "failed"]
  /\ UNCHANGED <<key, localLock, lock, made, run, shutdown, crashed>>

\* Mutant: the handler does not forget the lock.
KeepLock(i, n) ==
  /\ refresher[i][n] = "failed" /\ ~localLock[i]
  /\ refresher' = [refresher EXCEPT ![i][n] = "off"]
  /\ UNCHANGED <<key, localLock, lock, made, run, shutdown, crashed>>

\* The handler of that error, under localLock.
ForgetLock(i, n) ==
  /\ refresher[i][n] = "failed" /\ ~localLock[i]
  /\ lock' = [lock EXCEPT ![i] = 0]
  /\ refresher' = [refresher EXCEPT ![i][n] = "off"]
  /\ UNCHANGED <<key, localLock, made, run, shutdown, crashed>>

-----------------------------------------------------------------------------
\* Close

\* Close is called once, after some Run has returned.
CloseEnters(i) ==
  /\ "close" \in Faults
  /\ closing[i] = "no" /\ \E r \in Runs : run[i][r] = "done"
  /\ closing' = [closing EXCEPT ![i] = "enter"]
  /\ UNCHANGED <<key, localLock, lock, made, run, refresher, toUnlock, crashed>>

\* r.lock is read under localLock; the call of Unlock on a nil lock panics.
CloseReads(i) ==
  /\ closing[i] = "enter" /\ ~localLock[i]
  /\ closing'  = [closing EXCEPT ![i] = IF lock[i] = 0 THEN "panic" ELSE "unlock"]
  /\ toUnlock' = [toUnlock EXCEPT ![i] = lock[i]]
  /\ UNCHANGED <<key, localLock, lock, made, run, refresher, crashed>>

\* Unlock deletes the key if its value is still ours and ends AutoRefresh
\* without an error; r.lock keeps its value.
CloseUnlocks(i) ==
  /\ closing[i] = "unlock"
  /\ \/ key' = IF key = <<i, toUnlock[i]>> THEN NoKey ELSE key
     \/ "redis" \in Faults /\ key' = key
  /\ refresher' = [refresher EXCEPT ![i][toUnlock[i]] = IF @ = "on" THEN "off" ELSE @]
  /\ closing' = [closing EXCEPT ![i] = "done"]
  /\ UNCHANGED <<localLock, lock, made, run, toUnlock, crashed>>

-----------------------------------------------------------------------------
\* The environment

\* The key reaches its expiry: nobody refreshes it, or too late.
Expire ==
  /\ key # NoKey
  /\ "stall" \in Faults \/ refresher[key[1]][key[2]] # "on"
  /\ key' = NoKey
  /\ UNCHANGED <<localLock, lock, made, run, refresher, shutdown, crashed>>

\* The process dies with all its goroutines.
Crash(i) ==
  /\ i \notin crashed /\ Cardinality(crashed) < MaxCrashes
  /\ crashed'   = crashed \cup {i}
  /\ run'       = [run EXCEPT ![i] = [r \in Runs |-> "dead"]]
  /\ refresher' = [refresher EXCEPT ![i] = [n \in Locks |-> "off"]]
  /\ closing'   = [closing EXCEPT ![i] = "dead"]
  /\ UNCHANGED <<key, localLock, lock, made, toUnlock>>

-----------------------------------------------------------------------------
Run(i, r) == \/ EnterWithoutLock(i, r) \/ EnterWithLock(i, r)
             \/ LockSucceeds(i, r) \/ LockFails(i, r) \/ LockReplyLost(i, r)
             \/ TopNReturns(i, r)

AutoRefresh(i, n) == RefreshFails(i, n) \/ ForgetLock(i, n)

Close(i) == CloseReads(i) \/ CloseUnlocks(i)

Next == \/ \E i \in Instances :
             \/ \E r \in Runs : Fire(i, r) \/ Run(i, r)
             \/ \E n \in Locks : AutoRefresh(i, n)
             \/ CloseEnters(i) \/ Close(i)
             \/ Crash(i)
        \/ Expire

Spec == Init /\ [][Next]_vars

\* The cron goes on firing, goroutines that can run do run, keys expire, and a
\* goroutine that waits for localLock gets it if it becomes free again and again
\* (sync.Mutex does not starve its waiters).
Fairness == /\ \A i \in Instances, r \in Runs :
                 /\ WF_vars(Fire(i, r))
                 /\ SF_vars(Run(i, r))
            /\ \A i \in Instances, n \in Locks : SF_vars(AutoRefresh(i, n))
            /\ \A i \in Instances : SF_vars(Close(i))
            /\ WF_vars(Expire)

FairSpec == Spec /\ Fairness

-----------------------------------------------------------------------------
\* The redis key, the mutexes and the goroutines are in states of the expected
\* shape, and Close unlocks a lock that exists.
TypeOK ==
  /\ key \in {NoKey} \cup (Instances \X Locks)
  /\ localLock \in [Instances -> BOOLEAN]
  /\ lock      \in [Instances -> 0 .. MaxLocks]
  /\ made      \in [Instances -> 0 .. MaxLocks]
  /\ run       \in [Instances -> [Runs -> {"idle", "enter", "locking", "topn", "done", "dead"}]]
  /\ refresher \in [Instances -> [Locks -> {"off", "on", "failed"}]]
  /\ closing   \in [Instances -> {"no", "enter", "unlock", "done", "panic", "dead"}]
  /\ toUnlock  \in [Instances -> 0 .. MaxLocks]
  /\ \A i \in Instances : closing[i] = "unlock" => toUnlock[i] \in Locks
  /\ crashed   \in SUBSET Instances

Computes(i) == \E r \in Runs : run[i][r] = "topn"

\* While no refresh is late or fails, one process at a time computes the hot
\* list (ranking.go:83): whoever crashes, and however many firings of the cron
\* overlap.
SoleComputer == \A a, b \in Instances : Computes(a) /\ Computes(b) => a = b

\* A lock that is refreshed, or whose loss is being handled, is the one in
\* r.lock: the handler, which writes nil without looking, forgets the right one.
RefresherIsCurrent == \A i \in Instances, n \in Locks : refresher[i][n] # "off" => lock[i] = n

\* r.lock is set only while somebody will notice the loss of the lock, or Close
\* has given it back: no process keeps computing on a lock nobody refreshes.
LockIsWatched == \A i \in Instances :
  lock[i] # 0 /\ closing[i] \notin {"done", "dead"} => refresher[i][lock[i]] # "off"

\* r.lock and its refreshers stay in step, whichever firings, losses of the key
\* and calls of Close overlap (ranking.go:44-97), and Close unlocks a lock.
LockInv == TypeOK /\ RefresherIsCurrent /\ LockIsWatched

\* When the process that holds the key dies, another computes (ranking.go:87).
Failover == \A i \in Instances :
  (i \in crashed /\ key # NoKey /\ key[1] = i) ~> (\E k \in Instances : Computes(k))

-----------------------------------------------------------------------------
\* The hot list is computed once a second (ioc/job.go:34), so again and again.
KeepsComputing == []<>(\E i \in Instances : Computes(i))
=============================================================================
