------------------------------- MODULE MCJobs -------------------------------
(* Small instances of the two kinds of cron jobs under fairness: "ranking",   *)
(* RankingJob, and "table", CronJob.  They share no state and are explored    *)
(* side by side in one run; part says which moves.                            *)
EXTENDS RankingJob, FiniteSets

CONSTANTS Jobs, Registered, Limit, MaxVersion

VARIABLES part, status, version, due, recent, ran, pc, cur, permits, task, ticking, ctxDone

C == INSTANCE CronJob

ASSUME CronJobAssumption == C!Parameters

cvars  == <<status, version, due, recent, ran, pc, cur, permits, task, ticking, ctxDone>>
mcvars == <<vars, cvars, part>>

MCInit == /\ Init /\ C!Init
          /\ \/ part = "table"
             \/ part = "ranking" /\ due = [j \in Jobs |-> FALSE]

InRanking(A) == part = "ranking" /\ A /\ UNCHANGED <<cvars, part>>
InTable(A)   == part = "table"   /\ A /\ UNCHANGED <<vars, part>>

MCNext == InRanking(Next) \/ InTable(C!Next)

\* Of the cron of each process it is enough that one of its firings goes on.
MCSpec ==
  /\ MCInit /\ [][MCNext]_mcvars
  /\ \A i \in Instances :
       /\ WF_mcvars(InRanking(\E r \in Runs : Fire(i, r)))
       /\ SF_mcvars(InRanking(\E r \in Runs : Run(i, r)))
  /\ WF_mcvars(InRanking(Expire))
  /\ \A i \in Instances : WF_mcvars(InTable(C!Schedule(i)))
  /\ \A i \in Instances, j \in Jobs :
       WF_mcvars(InTable(C!Conclude(i, j))) /\ WF_mcvars(InTable(C!Refresh(i, j)))

\* FiresOnce of CronJob: a job runs once for each firing time.
FiresOnce == C!FiresOnce

\* LeaseReturns of CronJob: the lease comes back once its executor has returned.
LeaseReturns == C!LeaseReturns

\* LeaseIsRenewed of CronJob: utime is renewed as long as the executor runs.
LeaseIsRenewed == C!LeaseIsRenewed
=============================================================================
