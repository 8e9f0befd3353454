------------------------------ MODULE JobLease ------------------------------
(***************************************************************************)
(* What the table-driven scheduler of internal/job/mysql_job.go promises:  *)
(* a due job is leased to at most one instance, an instance gives back     *)
(* only its own lease, and nobody takes a lease from a live holder.  A     *)
(* lease can be lost (its holder is gone): a taken job without a holder    *)
(* stays taken.  CronJob implements this specification.                    *)
(***************************************************************************)

CONSTANTS Instances,   \* processes that run Scheduler.Schedule
          Jobs         \* rows of the job table

VARIABLES taken,       \* taken[j]: the job is leased
          holders,     \* holders[j]: the instances that hold the lease
          due          \* due[j]: the next firing time has passed

vars == <<taken, holders, due>>

Init == /\ taken   = [j \in Jobs |-> FALSE]
        /\ holders = [j \in Jobs |-> {}]
        /\ due \in [Jobs -> BOOLEAN]

Take(j, H) == /\ ~taken[j]
              /\ due[j]
              /\ taken'   = [taken EXCEPT ![j] = TRUE]
              /\ holders' = [holders EXCEPT ![j] = H]
              /\ UNCHANGED due

\* Instance i obtains the lease of a due job that nobody has.
Grant(i, j) == Take(j, {i})

\* The lease is granted and the grantee never learns of it.
GrantLost(j) == Take(j, {})

\* Only the holder moves the firing time of its job on.
Reschedule(i, j) == /\ taken[j]
                    /\ holders[j] = {i}
                    /\ due' = [due EXCEPT ![j] = FALSE]
                    /\ UNCHANGED <<taken, holders>>

\* Only the holder gives the lease back.
GiveBack(i, j) == /\ taken[j]
                  /\ holders[j] = {i}
                  /\ taken'   = [taken EXCEPT ![j] = FALSE]
                  /\ holders' = [holders EXCEPT ![j] = {}]
                  /\ UNCHANGED due

\* Instance i forgets the leases of the jobs in J (an error, or a crash).
Forget(i, J) == /\ holders' = [j \in Jobs |-> IF j \in J THEN holders[j] \ {i}
                                                        ELSE holders[j]]
                /\ UNCHANGED <<taken, due>>

Tick(j) == /\ due' = [due EXCEPT ![j] = TRUE]
           /\ UNCHANGED <<taken, holders>>

Next == \/ \E i \in Instances : \E J \in SUBSET Jobs : Forget(i, J)
        \/ \E j \in Jobs : Tick(j) \/ GrantLost(j)
        \/ \E i \in Instances, j \in Jobs : Grant(i, j) \/ Reschedule(i, j) \/ GiveBack(i, j)

Spec == Init /\ [][Next]_vars

=============================================================================
