------------------------------- MODULE CronJob -------------------------------
(***************************************************************************)
(* The distributed scheduler over the MySQL table "jobs":                  *)
(* Scheduler.Schedule (internal/job/mysql_job.go), the lease of            *)
(* cronJobService (internal/service/job.go) and the optimistic lock of     *)
(* GORMJobDAO (internal/repository/dao/job.go).                            *)
(*                                                                         *)
(* Each instance runs one Schedule loop, one goroutine per job it executes *)
(* and one ticker goroutine per lease.  A SQL statement is one step: it    *)
(* takes effect between its call and its return, or never.  Times are      *)
(* abstracted to what the code compares: due[j] is next_time < now, and    *)
(* recent[j] is "utime was written lately".                                *)
(***************************************************************************)
EXTENDS Integers, FiniteSets

CONSTANTS Instances,   \* processes sharing the table
          Jobs,        \* primary keys of the rows
          Registered,  \* jobs whose executor name is in Scheduler.executors
          Limit,       \* weight of Scheduler.limiter (100 in NewScheduler)
          MaxVersion,  \* bound: rows whose version reaches it are not taken again
          Faults       \* what may go wrong: "db", "crash", "ctx"

Parameters == /\ Jobs \subseteq Nat /\ IsFiniteSet(Jobs)
              /\ {Limit, MaxVersion} \subseteq Nat
              /\ Faults \subseteq {"db", "crash", "ctx"}

VARIABLES
  status, version, due, recent,  \* the row of each job
  ran,      \* history: the job was executed since its last firing time
  pc,       \* where the Schedule loop of each instance is
  cur,      \* the row that loop has read: its key and version
  permits,  \* free weight of the limiter of each instance
  task,     \* task[i][j]: where the goroutine that executes j on i is
  ticking,  \* <<i, j>>: the ticker goroutine of this lease renews utime
  ctxDone   \* the context given to Schedule has ended

row  == <<status, version, due, recent, ran>>
loop == <<pc, cur>>
vars == <<status, version, due, recent, ran, pc, cur, permits, task, ticking, ctxDone>>

Idle == [j \in Jobs |-> "none"]
NoRow == [job |-> 0, ver |-> 0]

Init == /\ status  = [j \in Jobs |-> "waiting"]
        /\ version = [j \in Jobs |-> 0]
        /\ due \in [Jobs -> BOOLEAN]
        /\ recent  = [j \in Jobs |-> FALSE]
        /\ ran     = [j \in Jobs |-> FALSE]
        /\ pc      = [i \in Instances |-> "acquire"]
        /\ cur     = [i \in Instances |-> NoRow]
        /\ permits = [i \in Instances |-> Limit]
        /\ task    = [i \in Instances |-> Idle]
        /\ ticking = {}
        /\ ctxDone = [i \in Instances |-> FALSE]

Goto(i, l) == pc' = [pc EXCEPT ![i] = l]
Move(i, j, s) == task' = [task EXCEPT ![i][j] = s]

\* A statement under a context can fail when the database does or the context ends.
StatementMayFail(i) == "db" \in Faults \/ ctxDone[i]

-----------------------------------------------------------------------------
\* The Schedule loop

\* The context is checked and one permit is taken; with no permit left the
\* loop blocks here.
AcquirePermit(i) ==
  /\ pc[i] = "acquire" /\ ~ctxDone[i]
  /\ permits[i] > 0
  /\ permits' = [permits EXCEPT ![i] = @ - 1]
  /\ Goto(i, "select")
  /\ UNCHANGED <<row, cur, task, ticking, ctxDone>>

GiveUp(i) ==
  /\ pc[i] = "acquire" /\ ctxDone[i]
  /\ Goto(i, "stopped")
  /\ UNCHANGED <<row, cur, permits, task, ticking, ctxDone>>

\* Mutant: the firing time is not in the WHERE clause.
CandidatesAnyTime == {j \in Jobs : status[j] = "waiting"}

\* Mutant: the status is not in the WHERE clause.
CandidatesAnyStatus == {j \in Jobs : due[j]}

Candidates == {j \in Jobs : status[j] = "waiting" /\ due[j]}

\* SELECT ... WHERE status = waiting AND next_time < now, First by primary key.
SelectDue(i) ==
  /\ pc[i] = "select" /\ ~ctxDone[i]
  /\ \E j \in Candidates :
       /\ \A k \in Candidates : j <= k
       /\ version[j] < MaxVersion
       /\ cur' = [cur EXCEPT ![i] = [job |-> j, ver |-> version[j]]]
  /\ Goto(i, "cas")
  /\ UNCHANGED <<row, permits, task, ticking, ctxDone>>

\* ErrRecordNotFound: Schedule continues with its next round.
SelectNone(i) ==
  /\ pc[i] = "select"
  /\ Candidates = {}
  /\ Goto(i, "acquire")
  /\ UNCHANGED <<row, cur, permits, task, ticking, ctxDone>>

\* Preempt returns an error before its UPDATE has taken effect.
PreemptFails(i) ==
  /\ pc[i] \in {"select", "cas"}
  /\ StatementMayFail(i)
  /\ Goto(i, "acquire")
  /\ UNCHANGED <<row, cur, permits, task, ticking, ctxDone>>

\* Mutant: the UPDATE names the row by its key alone.
VersionIgnored(i) == TRUE

\* UPDATE ... WHERE id = cur.job AND version = cur.ver
VersionMatches(i) == version[cur[i].job] = cur[i].ver

TakeRow(j) ==
  /\ status'  = [status EXCEPT ![j] = "running"]
  /\ version' = [version EXCEPT ![j] = @ + 1]
  /\ recent'  = [recent EXCEPT ![j] = TRUE]
  /\ UNCHANGED <<due, ran>>

\* Mutant: no ticker is started.
PreemptWithoutTicker(i) ==
  /\ pc[i] = "cas" /\ ~ctxDone[i]
  /\ VersionMatches(i)
  /\ TakeRow(cur[i].job)
  /\ Goto(i, "dispatch")
  /\ UNCHANGED <<cur, permits, task, ticking, ctxDone>>

\* One row affected: the lease is taken and its ticker started.
Preempt(i) ==
  /\ pc[i] = "cas" /\ ~ctxDone[i]
  /\ VersionMatches(i)
  /\ TakeRow(cur[i].job)
  /\ ticking' = ticking \cup {<<i, cur[i].job>>}
  /\ Goto(i, "dispatch")
  /\ UNCHANGED <<cur, permits, task, ctxDone>>

\* No row affected: select again.
PreemptMissed(i) ==
  /\ pc[i] = "cas" /\ ~ctxDone[i]
  /\ ~VersionMatches(i)
  /\ Goto(i, "select")
  /\ UNCHANGED <<row, cur, permits, task, ticking, ctxDone>>

\* The UPDATE takes effect and its reply does not come back.
PreemptReplyLost(i) ==
  /\ pc[i] = "cas"
  /\ StatementMayFail(i)
  /\ VersionMatches(i)
  /\ TakeRow(cur[i].job)
  /\ Goto(i, "acquire")
  /\ UNCHANGED <<cur, permits, task, ticking, ctxDone>>

\* Mutant: the loop returns the permit when it starts the goroutine.
DispatchReturnsPermit(i) ==
  /\ pc[i] = "dispatch"
  /\ cur[i].job \in Registered
  /\ Move(i, cur[i].job, "exec")
  /\ permits' = [permits EXCEPT ![i] = @ + 1]
  /\ Goto(i, "acquire")
  /\ UNCHANGED <<row, cur, ticking, ctxDone>>

Dispatch(i) ==
  /\ pc[i] = "dispatch"
  /\ cur[i].job \in Registered
  /\ Move(i, cur[i].job, "exec")
  /\ Goto(i, "acquire")
  /\ UNCHANGED <<row, cur, permits, ticking, ctxDone>>

\* No executor of that name: the loop continues, the lease and its ticker stay.
NoExecutor(i) ==
  /\ pc[i] = "dispatch"
  /\ cur[i].job \notin Registered
  /\ Goto(i, "acquire")
  /\ UNCHANGED <<row, cur, permits, task, ticking, ctxDone>>

-----------------------------------------------------------------------------
\* The goroutine of one job

\* Mutant: success ends the goroutine without a new firing time.
ExecSkipsReset(i, j) ==
  /\ task[i][j] = "exec"
  /\ ran' = [ran EXCEPT ![j] = TRUE]
  /\ Move(i, j, "finish")
  /\ UNCHANGED <<status, version, due, recent, loop, permits, ticking, ctxDone>>

ExecSucceeds(i, j) ==
  /\ task[i][j] = "exec"
  /\ ran' = [ran EXCEPT ![j] = TRUE]
  /\ Move(i, j, "reset")
  /\ UNCHANGED <<status, version, due, recent, loop, permits, ticking, ctxDone>>

ExecFails(i, j) ==
  /\ task[i][j] = "exec"
  /\ Move(i, j, "finish")
  /\ UNCHANGED <<row, loop, permits, ticking, ctxDone>>

\* UpdateNextTime takes effect; a lost reply changes nothing else.
ResetNextTime(i, j) ==
  /\ task[i][j] = "reset"
  /\ due'    = [due EXCEPT ![j] = FALSE]
  /\ recent' = [recent EXCEPT ![j] = TRUE]
  /\ Move(i, j, "finish")
  /\ UNCHANGED <<status, version, ran, loop, permits, ticking, ctxDone>>

ResetFails(i, j) ==
  /\ task[i][j] = "reset"
  /\ StatementMayFail(i)
  /\ Move(i, j, "finish")
  /\ UNCHANGED <<row, loop, permits, ticking, ctxDone>>

\* Mutant: the lease is forgotten instead of released.
FinishForgets(i, j) ==
  /\ task[i][j] = "finish"
  /\ permits' = [permits EXCEPT ![i] = @ + 1]
  /\ ticking' = ticking \ {<<i, j>>}
  /\ Move(i, j, "none")
  /\ UNCHANGED <<row, loop, ctxDone>>

\* The deferred call, up to the UPDATE: the permit is returned, the ticker stopped.
Finish(i, j) ==
  /\ task[i][j] = "finish"
  /\ permits' = [permits EXCEPT ![i] = @ + 1]
  /\ ticking' = ticking \ {<<i, j>>}
  /\ Move(i, j, "release")
  /\ UNCHANGED <<row, loop, ctxDone>>

\* Release runs under a context of its own: only the database can fail it.
Release(i, j) ==
  /\ task[i][j] = "release"
  /\ status' = [status EXCEPT ![j] = "waiting"]
  /\ recent' = [recent EXCEPT ![j] = TRUE]
  /\ Move(i, j, "none")
  /\ UNCHANGED <<version, due, ran, loop, permits, ticking, ctxDone>>

ReleaseFails(i, j) ==
  /\ task[i][j] = "release"
  /\ "db" \in Faults
  /\ Move(i, j, "none")
  /\ UNCHANGED <<row, loop, permits, ticking, ctxDone>>

-----------------------------------------------------------------------------
\* The ticker goroutine of a lease, the clock, and the fate of the processes

Refresh(i, j) ==
  /\ <<i, j>> \in ticking
  /\ recent' = [recent EXCEPT ![j] = TRUE]
  /\ UNCHANGED <<status, version, due, ran, loop, permits, task, ticking, ctxDone>>

Age(j) ==
  /\ recent[j]
  /\ recent' = [recent EXCEPT ![j] = FALSE]
  /\ UNCHANGED <<status, version, due, ran, loop, permits, task, ticking, ctxDone>>

Tick(j) ==
  /\ ~due[j]
  /\ due' = [due EXCEPT ![j] = TRUE]
  /\ ran' = [ran EXCEPT ![j] = FALSE]
  /\ UNCHANGED <<status, version, recent, loop, permits, task, ticking, ctxDone>>

EndContext(i) ==
  /\ "ctx" \in Faults
  /\ pc[i] # "down" /\ ~ctxDone[i]
  /\ ctxDone' = [ctxDone EXCEPT ![i] = TRUE]
  /\ UNCHANGED <<row, loop, permits, task, ticking>>

Crash(i) ==
  /\ "crash" \in Faults
  /\ pc[i] # "down"
  /\ Goto(i, "down")
  /\ cur'     = [cur EXCEPT ![i] = NoRow]
  /\ task'    = [task EXCEPT ![i] = Idle]
  /\ ticking' = {t \in ticking : t[1] # i}
  /\ ctxDone' = [ctxDone EXCEPT ![i] = FALSE]
  /\ permits' = [permits EXCEPT ![i] = Limit]
  /\ UNCHANGED row

Restart(i) ==
  /\ pc[i] = "down"
  /\ Goto(i, "acquire")
  /\ UNCHANGED <<row, cur, permits, task, ticking, ctxDone>>

-----------------------------------------------------------------------------
Schedule(i) == \/ AcquirePermit(i) \/ GiveUp(i)
               \/ SelectDue(i) \/ SelectNone(i)
               \/ PreemptFails(i) \/ Preempt(i) \/ PreemptMissed(i) \/ PreemptReplyLost(i)
               \/ Dispatch(i) \/ NoExecutor(i)

Exec(i, j) == ExecSucceeds(i, j) \/ ExecFails(i, j)

Conclude(i, j) == \/ ResetNextTime(i, j) \/ ResetFails(i, j)
                  \/ Finish(i, j)
                  \/ Release(i, j) \/ ReleaseFails(i, j)

Next == \/ \E i \in Instances : \/ Schedule(i)
                                \/ EndContext(i) \/ Crash(i) \/ Restart(i)
                                \/ \E j \in Jobs : Exec(i, j) \/ Conclude(i, j) \/ Refresh(i, j)
        \/ \E j \in Jobs : Tick(j) \/ Age(j)

Spec == Init /\ [][Next]_vars

\* A goroutine that can run does run and tickers fire.  An executor need not
\* return, and no firing time need come.
Fairness == /\ \A i \in Instances : WF_vars(Schedule(i))
            /\ \A i \in Instances, j \in Jobs : WF_vars(Conclude(i, j)) /\ WF_vars(Refresh(i, j))

FairSpec == Spec /\ Fairness

-----------------------------------------------------------------------------
LoopStates == {"acquire", "select", "cas", "dispatch", "stopped", "down"}
TaskStates == {"none", "exec", "reset", "finish", "release"}

\* The state of the table, of the loops and of the goroutines is of the
\* expected shape.
TypeOK ==
  /\ status  \in [Jobs -> {"waiting", "running"}]
  /\ version \in [Jobs -> Nat]
  /\ due     \in [Jobs -> BOOLEAN]
  /\ recent  \in [Jobs -> BOOLEAN]
  /\ ran     \in [Jobs -> BOOLEAN]
  /\ pc      \in [Instances -> LoopStates]
  /\ cur     \in [Instances -> [job : Jobs \cup {0}, ver : Nat]]
  /\ permits \in [Instances -> Nat]
  /\ task    \in [Instances -> [Jobs -> TaskStates]]
  /\ ticking \in SUBSET (Instances \X Jobs)
  /\ ctxDone \in [Instances -> BOOLEAN]

\* Instance i believes it holds the lease of j: its loop is about to dispatch
\* it, or a goroutine of it executes or releases it.
Holds(i, j) == \/ pc[i] = "dispatch" /\ cur[i].job = j
               \/ task[i][j] # "none"

\* A job is leased by one instance at a time, whichever of them read its row
\* and in whatever order their UPDATEs arrive (the comment of Preempt,
\* dao/job.go:45-47).
MutualExclusion == \A j \in Jobs : \A a, b \in Instances :
                     Holds(a, j) /\ Holds(b, j) => a = b

\* The loop of an instance and its goroutine never both hold the same job.
OneGoroutine == \A i \in Instances :
                  pc[i] = "dispatch" => cur[i].job \in Jobs /\ task[i][cur[i].job] = "none"

\* The row of a held job is not offered to the others.
HeldIsRunning == \A i \in Instances, j \in Jobs : Holds(i, j) => status[j] = "running"

\* A loop that is about to send its UPDATE will lose, unless the row is as it
\* read it: still waiting and still due.
PendingReads ==
  \A i \in Instances : pc[i] = "cas" =>
    /\ cur[i].job \in Jobs
    /\ cur[i].ver <= version[cur[i].job]
    /\ VersionMatches(i) => status[cur[i].job] = "waiting" /\ due[cur[i].job]

\* Why leases exclude one another: the strengthening of MutualExclusion that
\* every step of CronJob preserves.
LeaseInv == TypeOK /\ MutualExclusion /\ OneGoroutine /\ HeldIsRunning /\ PendingReads

\* Jobs that use up weight of the limiter of instance i.
Charged(i) == {j \in Jobs : task[i][j] \in {"exec", "reset", "finish"}}

\* At most Limit jobs execute at a time on an instance (mysql_job.go:95), with
\* the weight of the job the loop is fetching counted in.
WithinLimit == \A i \in Instances :
                 Cardinality(Charged(i)) + permits[i]
                   + (IF pc[i] \in {"select", "cas", "dispatch"} THEN 1 ELSE 0) <= Limit

\* A job is taken only while it is due, although the UPDATE that takes it tests
\* the version alone.
NotEarly == [][\A j \in Jobs : status[j] = "waiting" /\ status'[j] = "running" => due[j]]_vars

\* Without faults a job that was executed is not taken again before its next
\* firing time.
FiresOnce == [][\A j \in Jobs : status[j] = "waiting" /\ status'[j] = "running" => ~ran[j]]_vars

\* Without faults the lease of a job comes back once its executor has returned,
\* on the error path and on the successful one.
LeaseReturns == \A i \in Instances, j \in Jobs :
                  task[i][j] \in {"reset", "finish", "release"} ~> status[j] = "waiting"

\* Without crashes the utime of a leased job is renewed again and again, however
\* long its executor runs.
LeaseIsRenewed == \A j \in Jobs : []<>(status[j] = "waiting" \/ recent[j])

\* CronJob implements JobLease.
Lease == INSTANCE JobLease WITH taken   <- [j \in Jobs |-> status[j] = "running"],
                                holders <- [j \in Jobs |-> {i \in Instances : Holds(i, j)}],
                                due     <- due
LeaseSpec == Lease!Spec

-----------------------------------------------------------------------------
\* After a round in which nothing was taken the loop goes on to its next round
\* (mysql_job.go:80-81): an instance that executes nothing has weight left.
NextRoundPossible == \A i \in Instances :
  pc[i] = "acquire" /\ (\A j \in Jobs : task[i][j] = "none") => permits[i] > 0
=============================================================================
