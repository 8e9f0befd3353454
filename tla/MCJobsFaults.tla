---------------------------- MODULE MCJobsFaults ----------------------------
(* Small instances of the cron jobs with every fault: "lock", RankingJob,     *)
(* which elects the process that computes; "scan", HotList, what it computes; *)
(* "table", CronJob.  The scan does not look at the lock and the table is     *)
(* that of other jobs: they share no state and are explored side by side in   *)
(* one run; part says which moves.  Processes, and the firings of one cron,   *)
(* are interchangeable.  Rows have numeric keys, because the SELECT of        *)
(* GORMJobDAO.Preempt takes the smallest one.                                 *)
EXTENDS RankingJob, FiniteSets, TLC

CONSTANTS LastId, BatchSize, Capacity, MaxScore, MaxChanges,
          Jobs, Registered, Limit, MaxVersion, TableFaults

VARIABLES part, live, fresh, late, at, offset, page, left, old, heap, scored,
          changes, start, byAge,
          status, version, due, recent, ran, pc, cur, permits, task, ticking, ctxDone

H == INSTANCE HotList
C == INSTANCE CronJob WITH Faults <- TableFaults

ASSUME HotListAssumption == H!Parameters
ASSUME CronJobAssumption == C!Parameters

hvars  == <<live, fresh, late, at, offset, page, left, old, heap, scored,
            changes, start, byAge>>
cvars  == <<status, version, due, recent, ran, pc, cur, permits, task, ticking, ctxDone>>
mcvars == <<vars, hvars, cvars, part>>

MCInit == /\ Init /\ H!Init /\ C!Init
          /\ part \in {"lock", "scan", "table"}
          /\ part # "scan"  => live = {}
          /\ part # "table" => due = [j \in Jobs |-> FALSE]

InLock(A)  == part = "lock"  /\ A /\ UNCHANGED <<hvars, cvars, part>>
InScan(A)  == part = "scan"  /\ A /\ UNCHANGED <<vars, cvars, part>>
InTable(A) == part = "table" /\ A /\ UNCHANGED <<vars, hvars, part>>

MCNext == InLock(Next) \/ InScan(H!Next) \/ InTable(C!Next)

MCSpec == MCInit /\ [][MCNext]_mcvars

Symmetry == Permutations(Instances) \union Permutations(Runs)

\* ScanInv of HotList: the heap holds the best of the articles scored so far, each
\* scored once, and a scan that age does not end misses no more unchanged articles
\* than articles have changed during it.
ScanInv == H!ScanInv

\* LeaseInv of CronJob: no two instances hold the lease of one job, and what makes
\* this inductive.
LeaseInv == C!LeaseInv

\* WithinLimit of CronJob: what an instance executes is within its limiter.
WithinLimit == C!WithinLimit

\* NotEarly of CronJob: a job is taken only while it is due.
NotEarly == C!NotEarly

\* LeaseSpec of CronJob: the scheduler implements JobLease.
LeaseSpec == C!LeaseSpec
=============================================================================
