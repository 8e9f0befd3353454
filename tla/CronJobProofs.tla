---------------------------- MODULE CronJobProofs ----------------------------
(***************************************************************************)
(* Proofs about CronJob for every set of instances and of jobs, every      *)
(* limit, every bound on versions and every combination of faults.         *)
(***************************************************************************)
EXTENDS MCJobsFaults, FiniteSetTheorems, TLAPS

-----------------------------------------------------------------------------
\* What CronJob assumes of its parameters, and the operators of FiniteSets that
\* it names through its instance.

LEMMA JobsAssumption == Jobs \subseteq Nat /\ IsFiniteSet(Jobs)
BY CronJobAssumption DEF C!Parameters, C!IsFiniteSet, IsFiniteSet

LEMMA CardinalityInTable == \A S : C!Cardinality(S) = Cardinality(S)
BY DEF C!Cardinality, Cardinality, C!IsFiniteSet, IsFiniteSet

LEMMA LimitAssumption == Limit \in Nat
BY CronJobAssumption DEF C!Parameters

LEMMA InitLeaseInv == C!Init => C!LeaseInv
<1> SUFFICES ASSUME C!Init PROVE C!LeaseInv
  OBVIOUS
<1>1. C!TypeOK
  BY LimitAssumption DEF C!Init, C!TypeOK, C!Idle, C!NoRow, C!LoopStates,
     C!TaskStates
<1>2. \A i \in Instances, j \in Jobs : ~C!Holds(i, j)
  BY DEF C!Init, C!Holds, C!Idle
<1>3. C!PendingReads /\ C!OneGoroutine
  BY DEF C!Init, C!PendingReads, C!OneGoroutine
<1> QED
  BY <1>1, <1>2, <1>3 DEF C!LeaseInv, C!MutualExclusion, C!HeldIsRunning

LEMMA TypeStep == C!TypeOK /\ C!OneGoroutine /\ C!PendingReads /\ [C!Next]_(C!vars) => C!TypeOK'
<1> SUFFICES ASSUME C!TypeOK, C!OneGoroutine, C!PendingReads, [C!Next]_(C!vars) PROVE C!TypeOK'
  OBVIOUS
<1> USE DEF C!TypeOK, C!LoopStates, C!TaskStates, C!row, C!loop, C!Goto, C!Move
<1>1. ASSUME NEW i \in Instances, C!AcquirePermit(i) PROVE C!TypeOK'
  BY LimitAssumption, JobsAssumption, <1>1 DEF C!AcquirePermit
<1>2. ASSUME NEW i \in Instances, C!GiveUp(i) PROVE C!TypeOK'
  BY LimitAssumption, JobsAssumption, <1>2 DEF C!GiveUp
<1>3. ASSUME NEW i \in Instances, C!SelectDue(i) PROVE C!TypeOK'
  BY LimitAssumption, JobsAssumption, <1>3 DEF C!SelectDue, C!Candidates
<1>4. ASSUME NEW i \in Instances, C!SelectNone(i) PROVE C!TypeOK'
  BY LimitAssumption, JobsAssumption, <1>4 DEF C!SelectNone
<1>5. ASSUME NEW i \in Instances, C!PreemptFails(i) PROVE C!TypeOK'
  BY LimitAssumption, JobsAssumption, <1>5 DEF C!PreemptFails
<1>6. ASSUME NEW i \in Instances, C!Preempt(i) PROVE C!TypeOK'
  BY LimitAssumption, JobsAssumption, <1>6 DEF C!Preempt, C!TakeRow,
     C!VersionMatches, C!PendingReads
<1>7. ASSUME NEW i \in Instances, C!PreemptMissed(i) PROVE C!TypeOK'
  BY LimitAssumption, JobsAssumption, <1>7 DEF C!PreemptMissed
<1>8. ASSUME NEW i \in Instances, C!PreemptReplyLost(i) PROVE C!TypeOK'
  BY LimitAssumption, JobsAssumption, <1>8 DEF C!PreemptReplyLost, C!TakeRow,
     C!VersionMatches, C!PendingReads
<1>9. ASSUME NEW i \in Instances, C!Dispatch(i) PROVE C!TypeOK'
  BY LimitAssumption, JobsAssumption, <1>9 DEF C!Dispatch, C!OneGoroutine
<1>10. ASSUME NEW i \in Instances, C!NoExecutor(i) PROVE C!TypeOK'
  BY LimitAssumption, JobsAssumption, <1>10 DEF C!NoExecutor
<1>11. ASSUME NEW i \in Instances, C!EndContext(i) PROVE C!TypeOK'
  BY LimitAssumption, JobsAssumption, <1>11 DEF C!EndContext
<1>12. ASSUME NEW i \in Instances, C!Crash(i) PROVE C!TypeOK'
  BY LimitAssumption, JobsAssumption, <1>12 DEF C!Crash, C!Idle, C!NoRow
<1>13. ASSUME NEW i \in Instances, C!Restart(i) PROVE C!TypeOK'
  BY LimitAssumption, JobsAssumption, <1>13 DEF C!Restart
<1>14. ASSUME NEW i \in Instances, NEW j \in Jobs, C!ExecSucceeds(i, j) PROVE C!TypeOK'
  BY <1>14 DEF C!ExecSucceeds
<1>15. ASSUME NEW i \in Instances, NEW j \in Jobs, C!ExecFails(i, j) PROVE C!TypeOK'
  BY <1>15 DEF C!ExecFails
<1>16. ASSUME NEW i \in Instances, NEW j \in Jobs, C!ResetNextTime(i, j) PROVE C!TypeOK'
  BY <1>16 DEF C!ResetNextTime
<1>17. ASSUME NEW i \in Instances, NEW j \in Jobs, C!ResetFails(i, j) PROVE C!TypeOK'
  BY <1>17 DEF C!ResetFails
<1>18. ASSUME NEW i \in Instances, NEW j \in Jobs, C!Finish(i, j) PROVE C!TypeOK'
  BY <1>18 DEF C!Finish
<1>19. ASSUME NEW i \in Instances, NEW j \in Jobs, C!Release(i, j) PROVE C!TypeOK'
  BY <1>19 DEF C!Release
<1>20. ASSUME NEW i \in Instances, NEW j \in Jobs, C!ReleaseFails(i, j) PROVE C!TypeOK'
  BY <1>20 DEF C!ReleaseFails
<1>21. ASSUME NEW i \in Instances, NEW j \in Jobs, C!Refresh(i, j) PROVE C!TypeOK'
  BY <1>21 DEF C!Refresh
<1>22. ASSUME NEW j \in Jobs, C!Tick(j) PROVE C!TypeOK'
  BY <1>22 DEF C!Tick
<1>23. ASSUME NEW j \in Jobs, C!Age(j) PROVE C!TypeOK'
  BY <1>23 DEF C!Age
<1>24. CASE UNCHANGED C!vars
  BY <1>24 DEF C!vars
<1> QED
  BY <1>1, <1>2, <1>3, <1>4, <1>5, <1>6, <1>7, <1>8, <1>9, <1>10, <1>11, <1>12,
     <1>13, <1>14, <1>15, <1>16, <1>17, <1>18, <1>19, <1>20, <1>21, <1>22, <1>23,
     <1>24 DEF C!Next, C!Schedule, C!Exec, C!Conclude

LEMMA ExclusionStep ==
  ASSUME C!LeaseInv, [C!Next]_(C!vars)
  PROVE  (C!MutualExclusion /\ C!OneGoroutine /\ C!HeldIsRunning /\ C!PendingReads)'
<1> DEFINE P == C!MutualExclusion /\ C!OneGoroutine /\ C!HeldIsRunning /\ C!PendingReads
<1> USE DEF C!LeaseInv, C!TypeOK, C!LoopStates, C!TaskStates, C!row, C!loop,
C!Goto, C!Move, C!Holds,
            C!MutualExclusion, C!OneGoroutine, C!HeldIsRunning, C!PendingReads,
            C!VersionMatches
<1>1. ASSUME NEW i \in Instances, C!AcquirePermit(i) PROVE P'
  BY <1>1 DEF C!AcquirePermit
<1>2. ASSUME NEW i \in Instances, C!GiveUp(i) PROVE P'
  BY <1>2 DEF C!GiveUp
<1>3. ASSUME NEW i \in Instances, C!SelectDue(i) PROVE P'
  BY <1>3 DEF C!SelectDue, C!Candidates
<1>4. ASSUME NEW i \in Instances, C!SelectNone(i) PROVE P'
  BY <1>4 DEF C!SelectNone
<1>5. ASSUME NEW i \in Instances, C!PreemptFails(i) PROVE P'
  BY <1>5 DEF C!PreemptFails
<1>6. ASSUME NEW i \in Instances, C!Preempt(i) PROVE P'
  <2> DEFINE j == cur[i].job
  <2>1. j \in Jobs /\ status[j] = "waiting"
    BY <1>6 DEF C!Preempt
  <2>2. \A k \in Instances : ~C!Holds(k, j)
    BY <2>1
  <2>3. \A k \in Instances, m \in Jobs : C!Holds(k, m)' => C!Holds(k, m) \/ (k = i /\ m = j)
    BY <1>6 DEF C!Preempt
  <2>4. C!MutualExclusion' /\ C!HeldIsRunning'
    BY <1>6, <2>1, <2>2, <2>3 DEF C!Preempt, C!TakeRow
  <2>5. C!OneGoroutine'
    BY <1>6, <2>1, <2>2 DEF C!Preempt
  <2>6. C!PendingReads'
    <3>1. version'[j] = version[j] + 1
      BY <1>6, <2>1 DEF C!Preempt, C!TakeRow
    <3> QED
      BY <1>6, <2>1, <3>1 DEF C!Preempt, C!TakeRow
  <2> QED
    BY <2>4, <2>5, <2>6
<1>7. ASSUME NEW i \in Instances, C!PreemptMissed(i) PROVE P'
  BY <1>7 DEF C!PreemptMissed
<1>8. ASSUME NEW i \in Instances, C!PreemptReplyLost(i) PROVE P'
  BY <1>8 DEF C!PreemptReplyLost, C!TakeRow
<1>9. ASSUME NEW i \in Instances, C!Dispatch(i) PROVE P'
  BY <1>9 DEF C!Dispatch
<1>10. ASSUME NEW i \in Instances, C!NoExecutor(i) PROVE P'
  BY <1>10 DEF C!NoExecutor
<1>11. ASSUME NEW i \in Instances, C!EndContext(i) PROVE P'
  BY <1>11 DEF C!EndContext
<1>12. ASSUME NEW i \in Instances, C!Crash(i) PROVE P'
  BY <1>12 DEF C!Crash, C!Idle, C!NoRow
<1>13. ASSUME NEW i \in Instances, C!Restart(i) PROVE P'
  BY <1>13 DEF C!Restart
<1>14. ASSUME NEW i \in Instances, NEW j \in Jobs, C!ExecSucceeds(i, j) PROVE P'
  BY <1>14 DEF C!ExecSucceeds
<1>15. ASSUME NEW i \in Instances, NEW j \in Jobs, C!ExecFails(i, j) PROVE P'
  BY <1>15 DEF C!ExecFails
<1>16. ASSUME NEW i \in Instances, NEW j \in Jobs, C!ResetNextTime(i, j) PROVE P'
  BY <1>16 DEF C!ResetNextTime
<1>17. ASSUME NEW i \in Instances, NEW j \in Jobs, C!ResetFails(i, j) PROVE P'
  BY <1>17 DEF C!ResetFails
<1>18. ASSUME NEW i \in Instances, NEW j \in Jobs, C!Finish(i, j) PROVE P'
  BY <1>18 DEF C!Finish
<1>19. ASSUME NEW i \in Instances, NEW j \in Jobs, C!Release(i, j) PROVE P'
  BY <1>19 DEF C!Release
<1>20. ASSUME NEW i \in Instances, NEW j \in Jobs, C!ReleaseFails(i, j) PROVE P'
  BY <1>20 DEF C!ReleaseFails
<1>21. ASSUME NEW i \in Instances, NEW j \in Jobs, C!Refresh(i, j) PROVE P'
  BY <1>21 DEF C!Refresh
<1>22. ASSUME NEW j \in Jobs, C!Tick(j) PROVE P'
  BY <1>22 DEF C!Tick
<1>23. ASSUME NEW j \in Jobs, C!Age(j) PROVE P'
  BY <1>23 DEF C!Age
<1>24. CASE UNCHANGED C!vars
  BY <1>24 DEF C!vars
<1> QED
  BY <1>1, <1>2, <1>3, <1>4, <1>5, <1>6, <1>7, <1>8, <1>9, <1>10, <1>11, <1>12,
     <1>13, <1>14, <1>15, <1>16, <1>17, <1>18, <1>19, <1>20, <1>21, <1>22, <1>23,
     <1>24 DEF C!Next, C!Schedule, C!Exec, C!Conclude

LEMMA LeaseHolds == C!Spec => []C!LeaseInv
<1>1. C!LeaseInv /\ [C!Next]_(C!vars) => C!LeaseInv'
  <2> SUFFICES ASSUME C!LeaseInv, [C!Next]_(C!vars) PROVE C!LeaseInv'
    OBVIOUS
  <2>1. C!TypeOK'
    BY TypeStep DEF C!LeaseInv
  <2> QED
    BY <2>1, ExclusionStep DEF C!LeaseInv
<1> QED
  BY InitLeaseInv, <1>1, PTL DEF C!Spec

\* The strengthened invariant of the lease holds in every behaviour.
THEOREM LeaseInvariance == C!Spec => []LeaseInv
BY LeaseHolds, PTL DEF LeaseInv

\* At any number of instances and jobs, under lost replies, crashes and ended
\* contexts, no two instances hold the lease of one job.
THEOREM ExclusionTheorem == C!Spec => []C!MutualExclusion
<1>1. C!LeaseInv => C!MutualExclusion
  BY DEF C!LeaseInv
<1> QED
  BY LeaseHolds, <1>1, PTL

\* Only an UPDATE of the loop takes a job, and it takes the row it has read.
LEMMA TakenByUpdate ==
  ASSUME C!LeaseInv, C!Next, NEW j \in Jobs, status[j] = "waiting", status'[j] = "running"
  PROVE  \E i \in Instances : j = cur[i].job /\ C!VersionMatches(i) /\ pc[i] = "cas"
<1>1. PICK i \in Instances : C!Preempt(i) \/ C!PreemptReplyLost(i)
  <2>1. status' # status
    OBVIOUS
  <2>2. ASSUME NEW i \in Instances, NEW k \in Jobs, C!Release(i, k) PROVE FALSE
    BY <2>2 DEF C!Release, C!LeaseInv, C!TypeOK
  <2>3. ASSUME NEW i \in Instances, NEW k \in Jobs,
               C!Exec(i, k) \/ (C!Conclude(i, k) /\ ~C!Release(i,
               k)) \/ C!Refresh(i, k)
        PROVE  FALSE
    BY <2>1, <2>3 DEF C!Exec, C!Conclude, C!ExecSucceeds, C!ExecFails,
       C!ResetNextTime, C!ResetFails,
                      C!Finish, C!ReleaseFails, C!Refresh, C!row
  <2>4. ASSUME NEW i \in Instances,
               C!EndContext(i) \/ C!Crash(i) \/ C!Restart(i) \/ C!AcquirePermit(i) \/ C!GiveUp(i)
               \/ C!SelectDue(i) \/ C!SelectNone(i) \/ C!PreemptFails(i) \/ C!PreemptMissed(i)
               \/ C!Dispatch(i) \/ C!NoExecutor(i)
        PROVE  FALSE
    BY <2>1, <2>4 DEF C!EndContext, C!Crash, C!Restart, C!AcquirePermit, C!GiveUp,
       C!SelectDue, C!SelectNone,
                      C!PreemptFails, C!PreemptMissed, C!Dispatch, C!NoExecutor,
                      C!row
  <2>5. ASSUME NEW k \in Jobs, C!Tick(k) \/ C!Age(k) PROVE FALSE
    BY <2>1, <2>5 DEF C!Tick, C!Age
  <2> QED
    BY <2>2, <2>3, <2>4, <2>5 DEF C!Next, C!Schedule
<1>2. j = cur[i].job /\ C!VersionMatches(i) /\ pc[i] = "cas"
  BY <1>1 DEF C!Preempt, C!PreemptReplyLost, C!TakeRow, C!LeaseInv, C!TypeOK
<1> QED
  BY <1>2

\* A job is taken only while it is due: a stale read loses the race.
THEOREM NotEarlyTheorem == C!Spec => NotEarly
<1> DEFINE A == \A j \in Jobs : status[j] = "waiting" /\ status'[j] = "running" => due[j]
<1>1. C!LeaseInv /\ [C!Next]_(C!vars) => [A]_(C!vars)
  <2> SUFFICES ASSUME C!LeaseInv, C!Next,
                      NEW j \in Jobs, status[j] = "waiting", status'[j] = "running"
               PROVE  due[j]
    BY DEF C!vars
  <2>1. PICK i \in Instances : j = cur[i].job /\ C!VersionMatches(i) /\ pc[i] = "cas"
    BY TakenByUpdate
  <2> QED
    BY <2>1 DEF C!LeaseInv, C!PendingReads
<1> QED
  BY LeaseHolds, <1>1, PTL DEF C!Spec, NotEarly, C!NotEarly

-----------------------------------------------------------------------------
\* Without faults: no context has ended, and a job that was executed is not due
\* again before its next firing time, unless its goroutine has yet to say so.
RanIsOver ==
  /\ \A i \in Instances : ~ctxDone[i]
  /\ \A j \in Jobs : ran[j] /\ due[j] => \E i \in Instances : task[i][j] = "reset"

\* Nothing but ResetNextTime ends the last part of an execution when Faults is empty.
LEMMA RanStep ==
  ASSUME TableFaults = {}, C!LeaseInv, RanIsOver, [C!Next]_(C!vars)
  PROVE  RanIsOver'
<1> USE DEF C!LeaseInv, C!TypeOK, RanIsOver, C!StatementMayFail, C!row, C!loop,
C!Move
<1>1. ASSUME NEW i \in Instances,
             \/ C!AcquirePermit(i) \/ C!GiveUp(i) \/ C!SelectDue(i) \/ C!SelectNone(i)
             \/ C!PreemptFails(i) \/ C!Preempt(i) \/ C!PreemptMissed(i) \/ C!PreemptReplyLost(i)
             \/ C!NoExecutor(i) \/ C!Restart(i)
      PROVE  RanIsOver'
  <2>1. UNCHANGED <<ran, due, task, ctxDone>>
    BY <1>1 DEF C!AcquirePermit, C!GiveUp, C!SelectDue, C!SelectNone,
       C!PreemptFails, C!Preempt,
                C!PreemptMissed, C!PreemptReplyLost, C!NoExecutor, C!Restart,
                C!TakeRow
  <2> QED
    BY <2>1
<1>2. ASSUME NEW i \in Instances, C!Dispatch(i) PROVE RanIsOver'
  <2>1. cur[i].job \in Jobs /\ task[i][cur[i].job] = "none"
    BY <1>2 DEF C!Dispatch, C!OneGoroutine
  <2>2. ASSUME NEW k \in Instances, NEW j \in Jobs, task[k][j] = "reset"
        PROVE  task'[k][j] = "reset"
    BY <1>2, <2>1, <2>2 DEF C!Dispatch
  <2>3. UNCHANGED <<ran, due, ctxDone>>
    BY <1>2 DEF C!Dispatch
  <2> QED
    BY <2>2, <2>3
<1>3. ASSUME NEW i \in Instances, NEW j \in Jobs, C!ExecSucceeds(i, j) PROVE RanIsOver'
  <2>1. task'[i][j] = "reset" /\ UNCHANGED <<due, ctxDone>>
    BY <1>3 DEF C!ExecSucceeds
  <2>2. ASSUME NEW k \in Instances, NEW m \in Jobs, task[k][m] = "reset"
        PROVE  task'[k][m] = "reset"
    BY <1>3, <2>2 DEF C!ExecSucceeds
  <2>3. \A m \in Jobs : m # j => ran'[m] = ran[m]
    BY <1>3 DEF C!ExecSucceeds
  <2> QED
    BY <2>1, <2>2, <2>3
<1>4. ASSUME NEW i \in Instances, NEW j \in Jobs,
             C!ExecFails(i, j) \/ C!Finish(i, j) \/ C!Release(i, j)
      PROVE  RanIsOver'
  <2>1. UNCHANGED <<ran, due, ctxDone>>
    BY <1>4 DEF C!ExecFails, C!Finish, C!Release
  <2>2. ASSUME NEW k \in Instances, NEW m \in Jobs, task[k][m] = "reset"
        PROVE  task'[k][m] = "reset"
    <3>1. task[i][j] # "reset" /\ \E t \in C!TaskStates : task' = [task EXCEPT ![i][j] = t]
      BY <1>4 DEF C!ExecFails, C!Finish, C!Release, C!TaskStates
    <3>2. k # i \/ m # j
      BY <2>2, <3>1
    <3> QED
      BY <2>2, <3>1, <3>2
  <2> QED
    BY <2>1, <2>2
<1>5. ASSUME NEW i \in Instances, NEW j \in Jobs, C!ResetNextTime(i, j) PROVE RanIsOver'
  <2>1. ~due'[j] /\ (\A m \in Jobs : m # j => due'[m] = due[m]) /\ UNCHANGED <<ran, ctxDone>>
    BY <1>5 DEF C!ResetNextTime
  <2>2. ASSUME NEW k \in Instances, NEW m \in Jobs, m # j, task[k][m] = "reset"
        PROVE  task'[k][m] = "reset"
    BY <1>5, <2>2 DEF C!ResetNextTime
  <2> QED
    BY <2>1, <2>2
<1>6. ASSUME NEW i \in Instances, NEW j \in Jobs,
             C!ResetFails(i, j) \/ C!ReleaseFails(i,
             j) \/ C!EndContext(i) \/ C!Crash(i)
      PROVE  FALSE
  BY <1>6, TableFaults = {} DEF C!ResetFails, C!ReleaseFails, C!EndContext, C!Crash
<1>7. ASSUME NEW i \in Instances, C!EndContext(i) \/ C!Crash(i) PROVE FALSE
  BY <1>7, TableFaults = {} DEF C!EndContext, C!Crash
<1>8. ASSUME NEW i \in Instances, NEW j \in Jobs, C!Refresh(i, j) PROVE RanIsOver'
  BY <1>8 DEF C!Refresh
<1>9. ASSUME NEW j \in Jobs, C!Tick(j) PROVE RanIsOver'
  BY <1>9 DEF C!Tick
<1>10. ASSUME NEW j \in Jobs, C!Age(j) PROVE RanIsOver'
  BY <1>10 DEF C!Age
<1>11. CASE UNCHANGED C!vars
  BY <1>11 DEF C!vars
<1> HIDE DEF RanIsOver
<1> QED
  BY <1>1, <1>2, <1>3, <1>4, <1>5, <1>6, <1>7, <1>8, <1>9, <1>10, <1>11
  DEF C!Next, C!Schedule, C!Exec, C!Conclude

\* While nothing fails, a job is executed once per firing time, for every number of
\* instances and jobs and whichever instance takes it (mysql_job.go:95-131).
THEOREM FiresOnceTheorem == TableFaults = {} => (C!Spec => C!FiresOnce)
<1> SUFFICES ASSUME TableFaults = {} PROVE C!Spec => C!FiresOnce
  OBVIOUS
<1> DEFINE A == \A j \in Jobs : status[j] = "waiting" /\ status'[j] = "running" => ~ran[j]
<1>1. C!Init => RanIsOver
  BY DEF C!Init, RanIsOver
<1>2. C!LeaseInv /\ RanIsOver /\ [C!Next]_(C!vars) => RanIsOver'
  BY RanStep
<1>3. C!LeaseInv /\ RanIsOver /\ [C!Next]_(C!vars) => [A]_(C!vars)
  <2> SUFFICES ASSUME C!LeaseInv, RanIsOver, C!Next,
                      NEW j \in Jobs, status[j] = "waiting", status'[j] = "running", ran[j]
               PROVE  FALSE
    BY DEF C!vars
  <2>1. PICK i \in Instances : j = cur[i].job /\ C!VersionMatches(i) /\ pc[i] = "cas"
    BY TakenByUpdate
  <2>2. due[j]
    BY <2>1 DEF C!LeaseInv, C!PendingReads
  <2>3. PICK k \in Instances : task[k][j] = "reset"
    BY <2>2 DEF RanIsOver
  <2>4. status[j] = "running"
    BY <2>3 DEF C!LeaseInv, C!HeldIsRunning, C!Holds
  <2> QED
    BY <2>4
<1> QED
  BY LeaseHolds, <1>1, <1>2, <1>3, PTL DEF C!Spec, C!FiresOnce

-----------------------------------------------------------------------------
\* The limiter: what an instance executes, fetches and has free adds up to at
\* most Limit.

Fetching(i) == IF pc[i] \in {"select", "cas", "dispatch"} THEN 1 ELSE 0

LEMMA ChargedFinite ==
  ASSUME NEW i \in Instances
  PROVE  IsFiniteSet(C!Charged(i)) /\ Cardinality(C!Charged(i)) \in Nat
BY JobsAssumption, FS_Subset, FS_CardinalityType, C!Charged(i) \subseteq Jobs
   DEF C!Charged

\* The other instances are not concerned by a step of instance i.
LEMMA ChargedFrame ==
  ASSUME NEW k \in Instances, task'[k] = task[k]
  PROVE  C!Charged(k)' = C!Charged(k)
BY DEF C!Charged

LEMMA LimitStep ==
  ASSUME C!LeaseInv, C!WithinLimit, [C!Next]_(C!vars)
  PROVE  C!WithinLimit'
<1> DEFINE L(k) == Cardinality(C!Charged(k)) + permits[k] + Fetching(k)
<1> SUFFICES ASSUME NEW k \in Instances PROVE (L(k) <= Limit)'
  BY CardinalityInTable DEF C!WithinLimit, Fetching
<1> USE DEF C!LeaseInv, C!TypeOK
<1>0. L(k) <= Limit
  BY CardinalityInTable DEF C!WithinLimit, Fetching
<1> HIDE DEF C!LeaseInv, C!TypeOK
<1>t. /\ pc \in [Instances -> C!LoopStates] /\ permits \in [Instances -> Nat]
      /\ task \in [Instances -> [Jobs -> C!TaskStates]]
      /\ IsFiniteSet(C!Charged(k)) /\ Cardinality(C!Charged(k)) \in Nat
  BY ChargedFinite DEF C!LeaseInv, C!TypeOK
<1>1. CASE task'[k] = task[k] /\ permits'[k] = permits[k] /\ Fetching(k)' <= Fetching(k)
  BY <1>0, <1>1, <1>t, ChargedFrame, LimitAssumption DEF Fetching
<1>2. CASE C!AcquirePermit(k)
  <2>1. C!Charged(k)' = C!Charged(k) /\ permits'[k] = permits[k] - 1
    BY <1>2, <1>t, ChargedFrame DEF C!AcquirePermit
  <2>2. Fetching(k) = 0 /\ Fetching(k)' = 1
    BY <1>2, <1>t DEF C!AcquirePermit, C!Goto, Fetching
  <2> QED
    BY <1>0, <1>t, <2>1, <2>2, LimitAssumption
<1>3. CASE C!Dispatch(k)
  <2> DEFINE j == cur[k].job
  <2>1. j \in Jobs /\ j \notin C!Charged(k)
    BY <1>3 DEF C!Dispatch, C!LeaseInv, C!OneGoroutine, C!Charged
  <2>2. C!Charged(k)' = C!Charged(k) \cup {j}
    BY <1>3, <1>t, <2>1 DEF C!Dispatch, C!Move, C!Charged
  <2>3. Cardinality(C!Charged(k)') = Cardinality(C!Charged(k)) + 1
    BY <1>t, <2>1, <2>2, FS_AddElement
  <2>4. permits'[k] = permits[k] /\ Fetching(k) = 1 /\ Fetching(k)' = 0
    BY <1>3, <1>t DEF C!Dispatch, C!Goto, Fetching
  <2> QED
    BY <1>0, <1>t, <2>3, <2>4, LimitAssumption
<1>4. CASE \E j \in Jobs : C!Finish(k, j)
  <2> PICK j \in Jobs : C!Finish(k, j)
    BY <1>4
  <2>1. j \in C!Charged(k) /\ C!Charged(k)' = C!Charged(k) \ {j}
    BY <1>t DEF C!Finish, C!Move, C!Charged
  <2>2. Cardinality(C!Charged(k)') = Cardinality(C!Charged(k)) - 1
    BY <1>t, <2>1, FS_RemoveElement
  <2>3. permits'[k] = permits[k] + 1 /\ Fetching(k)' = Fetching(k)
    BY <1>t DEF C!Finish, C!loop, Fetching
  <2> QED
    BY <1>0, <1>t, <2>2, <2>3, LimitAssumption DEF Fetching
<1>5. CASE \E j \in Jobs : C!Exec(k, j) \/ (C!Conclude(k, j) /\ ~C!Finish(k, j))
  <2> PICK j \in Jobs : C!Exec(k, j) \/ (C!Conclude(k, j) /\ ~C!Finish(k, j))
    BY <1>5
  <2>1. C!Charged(k)' = C!Charged(k)
    BY <1>t DEF C!Exec, C!Conclude, C!ExecSucceeds, C!ExecFails, C!ResetNextTime,
       C!ResetFails,
                C!Release, C!ReleaseFails, C!Move, C!Charged
  <2>2. permits'[k] = permits[k] /\ Fetching(k)' = Fetching(k)
    BY <1>t DEF C!Exec, C!Conclude, C!ExecSucceeds, C!ExecFails, C!ResetNextTime,
       C!ResetFails,
                C!Release, C!ReleaseFails, C!loop, Fetching
  <2> QED
    BY <1>0, <1>t, <2>1, <2>2
<1>6. CASE C!Crash(k)
  <2>1. C!Charged(k)' = {} /\ permits'[k] = Limit /\ Fetching(k)' = 0
    BY <1>6, <1>t DEF C!Crash, C!Goto, C!Idle, C!Charged, Fetching
  <2> QED
    BY <2>1, FS_EmptySet, LimitAssumption
<1>7. CASE \/ C!EndContext(k) \/ C!Restart(k) \/ C!GiveUp(k) \/ C!SelectDue(k) \/ C!SelectNone(k)
           \/ C!PreemptFails(k) \/ C!Preempt(k) \/ C!PreemptMissed(k) \/ C!PreemptReplyLost(k)
           \/ C!NoExecutor(k) \/ (\E j \in Jobs : C!Refresh(k, j) \/ C!Tick(j) \/ C!Age(j))
  <2>1. task'[k] = task[k] /\ permits'[k] = permits[k]
    BY <1>7 DEF C!EndContext, C!Restart, C!GiveUp, C!SelectDue, C!SelectNone,
       C!PreemptFails, C!Preempt,
                C!PreemptMissed, C!PreemptReplyLost, C!NoExecutor, C!Refresh,
                C!Tick, C!Age
  <2>2. \/ pc'[k] = pc[k]
        \/ pc'[k] \in {"acquire", "stopped"}
        \/ pc[k] \in {"select", "cas"}
    BY <1>7, <1>t DEF C!EndContext, C!Restart, C!GiveUp, C!SelectDue,
       C!SelectNone, C!PreemptFails, C!Preempt,
                C!PreemptMissed, C!PreemptReplyLost, C!NoExecutor, C!Refresh,
                C!Tick, C!Age, C!loop, C!Goto
  <2>3. Fetching(k)' <= Fetching(k)
    BY <2>2 DEF Fetching
  <2> QED
    BY <1>1, <2>1, <2>3
<1>8. ASSUME NEW i \in Instances, i # k,
             C!Schedule(i) \/ C!EndContext(i) \/ C!Crash(i) \/ C!Restart(i)
             \/ \E j \in Jobs : C!Exec(i, j) \/ C!Conclude(i, j) \/ C!Refresh(i, j)
      PROVE  (L(k) <= Limit)'
  <2>1. task'[k] = task[k] /\ permits'[k] = permits[k]
    BY <1>8, <1>t DEF C!Schedule, C!EndContext, C!Crash, C!Restart, C!Exec,
       C!Conclude, C!Refresh,
          C!AcquirePermit, C!GiveUp, C!SelectDue, C!SelectNone, C!PreemptFails,
          C!Preempt, C!PreemptMissed,
          C!PreemptReplyLost, C!Dispatch, C!NoExecutor, C!ExecSucceeds,
          C!ExecFails, C!ResetNextTime,
          C!ResetFails, C!Finish, C!Release, C!ReleaseFails, C!Move
  <2>2. pc'[k] = pc[k]
    BY <1>8, <1>t DEF C!Schedule, C!EndContext, C!Crash, C!Restart, C!Exec,
       C!Conclude, C!Refresh,
          C!AcquirePermit, C!GiveUp, C!SelectDue, C!SelectNone, C!PreemptFails,
          C!Preempt, C!PreemptMissed,
          C!PreemptReplyLost, C!Dispatch, C!NoExecutor, C!ExecSucceeds,
          C!ExecFails, C!ResetNextTime,
          C!ResetFails, C!Finish, C!Release, C!ReleaseFails, C!Goto, C!loop
  <2> QED
    BY <1>1, <2>1, <2>2, <1>t DEF Fetching
<1>9. CASE UNCHANGED C!vars
  BY <1>1, <1>9, <1>t DEF C!vars, Fetching
<1> QED
  BY <1>2, <1>3, <1>4, <1>5, <1>6, <1>7, <1>8, <1>9 DEF C!Next, C!Schedule

\* No instance executes more jobs at a time than its limiter has weight,
\* although permits are returned before the lease is.
THEOREM LimitTheorem == C!Spec => []WithinLimit
<1>1. C!Init => C!WithinLimit
  <2> SUFFICES ASSUME C!Init, NEW i \in Instances
               PROVE  C!Charged(i) = {} /\ permits[i] = Limit /\ pc[i] = "acquire"
    BY CardinalityInTable, FS_EmptySet, LimitAssumption DEF C!WithinLimit
  <2> QED
    BY DEF C!Init, C!Charged, C!Idle
<1> QED
  BY <1>1, LeaseHolds, LimitStep, PTL DEF C!Spec, WithinLimit

-----------------------------------------------------------------------------
\* CronJob implements JobLease: every step is a step of the lease or a stutter.

LEMMA LeaseRefinesInit == C!Init => C!Lease!Init
<1> SUFFICES ASSUME C!Init PROVE C!Lease!Init
  OBVIOUS
<1>1. \A i \in Instances, j \in Jobs : ~C!Holds(i, j)
  BY DEF C!Init, C!Holds, C!Idle
<1> QED
  BY <1>1 DEF C!Init, C!Lease!Init

LEMMA LeaseRefinesStep ==
  ASSUME C!LeaseInv, [C!Next]_(C!vars)
  PROVE  [C!Lease!Next]_(C!Lease!vars)
<1> DEFINE tk == [j \in Jobs |-> status[j] = "running"]
           hd == [j \in Jobs |-> {i \in Instances : C!Holds(i, j)}]
<1> USE DEF C!LeaseInv, C!TypeOK
<1>1. ASSUME UNCHANGED <<status, due>>,
             \A i \in Instances, j \in Jobs : C!Holds(i, j)' <=> C!Holds(i, j)
      PROVE  UNCHANGED C!Lease!vars
  BY <1>1 DEF C!Lease!vars
<1>2. ASSUME NEW i \in Instances, NEW J \in SUBSET Jobs,
             UNCHANGED <<status, due>>,
             \A k \in Instances, j \in Jobs : C!Holds(k, j)' <=> C!Holds(k, j) /\ ~(k = i /\ j \in J)
      PROVE  C!Lease!Next
  <2>1. C!Lease!Forget(i, J)
    <3>1. hd' = [j \in Jobs |-> IF j \in J THEN hd[j] \ {i} ELSE hd[j]]
      BY <1>2
    <3> QED
      BY <1>2, <3>1 DEF C!Lease!Forget
  <2> QED
    BY <2>1 DEF C!Lease!Next
<1>3. ASSUME NEW i \in Instances, C!Preempt(i) PROVE C!Lease!Next
  <2>0. PICK j \in Jobs : j = cur[i].job
    BY <1>3 DEF C!Preempt, C!PendingReads
  <2>1. status[j] = "waiting" /\ due[j] /\ \A k \in Instances : ~C!Holds(k, j)
    BY <1>3, <2>0 DEF C!Preempt, C!PendingReads, C!HeldIsRunning
  <2>2. \A k \in Instances, m \in Jobs : C!Holds(k, m)' <=> C!Holds(k, m) \/ (k = i /\ m = j)
    BY <1>3, <2>0, <2>1 DEF C!Preempt, C!Goto, C!Holds
  <2>3. status' = [status EXCEPT ![j] = "running"] /\ UNCHANGED due
    BY <1>3, <2>0 DEF C!Preempt, C!TakeRow
  <2>4. ~tk[j] /\ tk' = [tk EXCEPT ![j] = TRUE]
    BY <2>1, <2>3
  <2>5. hd' = [hd EXCEPT ![j] = {i}]
    <3>1. {k \in Instances : C!Holds(k, j)'} = {i}
      BY <2>1, <2>2
    <3>2. ASSUME NEW m \in Jobs, m # j
          PROVE  {k \in Instances : C!Holds(k, m)'} = {k \in Instances : C!Holds(k, m)}
      BY <2>2, <3>2
    <3> QED
      BY <3>1, <3>2
  <2> HIDE DEF tk, hd
  <2>6. C!Lease!Grant(i, j)
    BY <2>1, <2>3, <2>4, <2>5 DEF C!Lease!Grant, C!Lease!Take, tk, hd
  <2> QED
    BY <2>1, <2>6 DEF C!Lease!Next
<1>4. ASSUME NEW i \in Instances, C!PreemptReplyLost(i) PROVE C!Lease!Next
  <2>0. PICK j \in Jobs : j = cur[i].job
    BY <1>4 DEF C!PreemptReplyLost, C!PendingReads
  <2>1. status[j] = "waiting" /\ due[j] /\ \A k \in Instances : ~C!Holds(k, j)
    BY <1>4, <2>0 DEF C!PreemptReplyLost, C!PendingReads, C!HeldIsRunning
  <2>2. \A k \in Instances, m \in Jobs : C!Holds(k, m)' <=> C!Holds(k, m)
    BY <1>4, <2>0, <2>1 DEF C!PreemptReplyLost, C!Goto, C!Holds
  <2>3. status' = [status EXCEPT ![j] = "running"] /\ UNCHANGED due
    BY <1>4, <2>0 DEF C!PreemptReplyLost, C!TakeRow
  <2>4. ~tk[j] /\ tk' = [tk EXCEPT ![j] = TRUE]
    BY <2>1, <2>3
  <2>5. hd' = [hd EXCEPT ![j] = {}]
    <3>1. {k \in Instances : C!Holds(k, j)'} = {}
      BY <2>1, <2>2
    <3>2. ASSUME NEW m \in Jobs
          PROVE  {k \in Instances : C!Holds(k, m)'} = {k \in Instances : C!Holds(k, m)}
      BY <2>2
    <3> QED
      BY <3>1, <3>2
  <2> HIDE DEF tk, hd
  <2>6. C!Lease!GrantLost(j)
    BY <2>1, <2>3, <2>4, <2>5 DEF C!Lease!GrantLost, C!Lease!Take, tk, hd
  <2> QED
    BY <2>1, <2>6 DEF C!Lease!Next
<1>5. ASSUME NEW i \in Instances, NEW j \in Jobs, C!ResetNextTime(i, j) PROVE C!Lease!Next
  <2>1. \A k \in Instances, m \in Jobs : C!Holds(k, m)' <=> C!Holds(k, m)
    BY <1>5 DEF C!ResetNextTime, C!Move, C!loop, C!Holds
  <2>2. status[j] = "running" /\ hd[j] = {i}
    BY <1>5 DEF C!ResetNextTime, C!HeldIsRunning, C!MutualExclusion, C!Holds
  <2>3. C!Lease!Reschedule(i, j)
    BY <1>5, <2>1, <2>2 DEF C!ResetNextTime, C!Lease!Reschedule
  <2> QED
    BY <2>3 DEF C!Lease!Next
<1>6. ASSUME NEW i \in Instances, NEW j \in Jobs, C!Release(i, j) PROVE C!Lease!Next
  <2>1. C!Holds(i, j) /\ status[j] = "running" /\ hd[j] = {i}
    BY <1>6 DEF C!Release, C!HeldIsRunning, C!MutualExclusion, C!Holds
  <2>2. \A k \in Instances, m \in Jobs : C!Holds(k, m)' <=> C!Holds(k, m) /\ m # j
    <3>1. ASSUME NEW k \in Instances PROVE ~(pc[k] = "dispatch" /\ cur[k].job = j)
      BY <1>6 DEF C!Release, C!MutualExclusion, C!OneGoroutine, C!Holds
    <3>2. ASSUME NEW k \in Instances, k # i PROVE task[k][j] = "none"
      BY <1>6, <2>1, <3>2 DEF C!MutualExclusion, C!Holds
    <3> QED
      BY <1>6, <3>1, <3>2 DEF C!Release, C!Move, C!loop, C!Holds
  <2>3. tk' = [tk EXCEPT ![j] = FALSE] /\ hd' = [hd EXCEPT ![j] = {}] /\ UNCHANGED due
    BY <1>6, <2>2 DEF C!Release
  <2>4. C!Lease!GiveBack(i, j)
    BY <2>1, <2>3 DEF C!Lease!GiveBack
  <2> QED
    BY <2>4 DEF C!Lease!Next
<1>7. ASSUME NEW j \in Jobs, C!Tick(j) PROVE C!Lease!Next
  <2>1. C!Lease!Tick(j)
    BY <1>7 DEF C!Tick, C!Lease!Tick, C!loop, C!Holds
  <2> QED
    BY <2>1 DEF C!Lease!Next
<1>8. ASSUME NEW i \in Instances, C!NoExecutor(i) PROVE C!Lease!Next
  <2>1. cur[i].job \in Jobs /\ task[i][cur[i].job] = "none"
    BY <1>8 DEF C!NoExecutor, C!OneGoroutine
  <2>2. \A k \in Instances, m \in Jobs :
          C!Holds(k, m)' <=> C!Holds(k, m) /\ ~(k = i /\ m \in {cur[i].job})
    BY <1>8, <2>1 DEF C!NoExecutor, C!Goto, C!Holds
  <2> QED
    BY <1>2, <1>8, <2>1, <2>2 DEF C!NoExecutor, C!row
<1>9. ASSUME NEW i \in Instances, NEW j \in Jobs, C!ReleaseFails(i, j) PROVE C!Lease!Next
  <2>1. ~(pc[i] = "dispatch" /\ cur[i].job = j)
    BY <1>9 DEF C!ReleaseFails, C!OneGoroutine
  <2>2. \A k \in Instances, m \in Jobs :
          C!Holds(k, m)' <=> C!Holds(k, m) /\ ~(k = i /\ m \in {j})
    BY <1>9, <2>1 DEF C!ReleaseFails, C!Move, C!loop, C!Holds
  <2> QED
    BY <1>2, <1>9, <2>2 DEF C!ReleaseFails, C!row
<1>10. ASSUME NEW i \in Instances, C!Crash(i) PROVE C!Lease!Next
  <2>1. \A k \in Instances, m \in Jobs : C!Holds(k, m)' <=> C!Holds(k, m) /\ ~(k = i /\ m \in Jobs)
    BY <1>10 DEF C!Crash, C!Goto, C!Idle, C!Holds
  <2> QED
    BY <1>2, <1>10, <2>1 DEF C!Crash, C!row
<1>11. ASSUME NEW i \in Instances,
              \/ C!AcquirePermit(i) \/ C!GiveUp(i) \/ C!SelectDue(i) \/ C!SelectNone(i)
              \/ C!PreemptFails(i) \/ C!PreemptMissed(i) \/ C!Dispatch(i) \/ C!EndContext(i) \/ C!Restart(i)
       PROVE  UNCHANGED C!Lease!vars
  <2>1. UNCHANGED <<status, due>>
    BY <1>11 DEF C!AcquirePermit, C!GiveUp, C!SelectDue, C!SelectNone,
       C!PreemptFails, C!PreemptMissed,
                 C!Dispatch, C!EndContext, C!Restart, C!row
  <2>2. \A k \in Instances, m \in Jobs : C!Holds(k, m)' <=> C!Holds(k, m)
    BY <1>11 DEF C!AcquirePermit, C!GiveUp, C!SelectDue, C!SelectNone,
       C!PreemptFails, C!PreemptMissed,
                 C!Dispatch, C!EndContext, C!Restart, C!loop, C!Goto, C!Move,
                 C!OneGoroutine, C!Holds
  <2> QED
    BY <1>1, <2>1, <2>2
<1>12. ASSUME NEW i \in Instances, NEW j \in Jobs,
              C!ExecSucceeds(i, j) \/ C!ExecFails(i, j) \/ C!ResetFails(i,
              j) \/ C!Finish(i, j)
              \/ C!Refresh(i, j)
       PROVE  UNCHANGED C!Lease!vars
  <2>1. UNCHANGED <<status, due>>
    BY <1>12 DEF C!ExecSucceeds, C!ExecFails, C!ResetFails, C!Finish, C!Refresh,
       C!row
  <2>2. \A k \in Instances, m \in Jobs : task'[k][m] = "none" <=> task[k][m] = "none"
    <3>1. task' = task \/ (task[i][j] # "none" /\ \E t \in C!TaskStates \ {"none"} : C!Move(i, j, t))
      BY <1>12 DEF C!ExecSucceeds, C!ExecFails, C!ResetFails, C!Finish, C!Refresh,
         C!TaskStates
    <3> QED
      BY <3>1 DEF C!Move
  <2>3. UNCHANGED C!loop
    BY <1>12 DEF C!ExecSucceeds, C!ExecFails, C!ResetFails, C!Finish, C!Refresh
  <2> QED
    BY <1>1, <2>1, <2>2, <2>3 DEF C!loop, C!Holds
<1>13. ASSUME NEW j \in Jobs, C!Age(j) PROVE UNCHANGED C!Lease!vars
  <2>1. UNCHANGED <<status, due>> /\ \A k \in Instances, m \in Jobs : C!Holds(k, m)' <=> C!Holds(k, m)
    BY <1>13 DEF C!Age, C!loop, C!Holds
  <2> QED
    BY <1>1, <2>1
<1>14. CASE UNCHANGED C!vars
  BY <1>1, <1>14 DEF C!vars, C!Holds
<1> QED
  BY <1>3, <1>4, <1>5, <1>6, <1>7, <1>8, <1>9, <1>10, <1>11, <1>12, <1>13, <1>14
  DEF C!Next, C!Schedule, C!Exec, C!Conclude

\* The table-driven scheduler is a correct lease: JobLease with taken read as
\* "status is running" and holders as "a loop or a goroutine holds it".
THEOREM LeaseRefinement == C!Spec => LeaseSpec
<1>1. C!LeaseInv /\ [C!Next]_(C!vars) => [C!Lease!Next]_(C!Lease!vars)
  BY LeaseRefinesStep
<1> QED
  BY LeaseHolds, LeaseRefinesInit, <1>1, PTL DEF C!Spec, LeaseSpec, C!LeaseSpec,
     C!Lease!Spec
==============================================================================
