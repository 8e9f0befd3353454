----------------------------- MODULE MCServices -----------------------------
(* Small instances of components that share no state, explored side by side   *)
(* in one run; part says which moves:                                         *)
(*   "failover"  TimeoutFailover with the constants of the cfg;               *)
(*   "balancer"  Balancer with the weights of the cfg;                        *)
(*   "articles"  Articles;                                                    *)
(*   "admin"     Scheduler.                                                   *)
EXTENDS Articles, Integers, FiniteSets

CONSTANTS Callers, N, Threshold, Outcomes, Weights, MaxPicks, MaxMixed, MaxStarts

VARIABLES part, idx, cnt, pc, myIdx, changes,
          current, turn, read, chosen, picks, overlapped,
          started, kind, place, prev, cancelled, cancelIncr, cancelFull, races

\* Providers that may end a call in any way.
Flaky3 == [p \in 0 .. 2 |-> {"nil", "timeout", "error"}]

\* Provider 0 is dead, the other two may do anything.
ZeroDead == [Flaky3 EXCEPT ![0] = {"timeout"}]

\* One connection has most of the work, one has none: the first is a whole pick ahead
\* once the others' turns come.
Uneven == <<4, 0, 1, 1>>

\* Two goroutines pick.
Picking == CHOOSE two \in SUBSET Callers : Cardinality(two) = 2

B == INSTANCE Balancer WITH Callers <- Picking, at <- turn
F == INSTANCE TimeoutFailover
S == INSTANCE Scheduler WITH at <- place

bvars  == <<current, turn, read, chosen, picks, overlapped>>
fvars  == <<idx, cnt, pc, myIdx, changes>>
svars  == <<started, kind, place, prev, cancelled, cancelIncr, cancelFull, races>>
mcvars == <<vars, bvars, fvars, svars, part>>

MCInit == /\ Init /\ B!Init /\ F!Init /\ S!Init
          /\ part \in {"failover", "balancer", "articles", "admin"}

Only(p, Act) == part = p /\ Act /\ UNCHANGED part
InFailover(Act) == Only("failover", Act) /\ UNCHANGED <<vars, bvars, svars>>
InBalancer(Act) == Only("balancer", Act) /\ UNCHANGED <<vars, fvars, svars>>
InArticles(Act) == Only("articles", Act) /\ UNCHANGED <<bvars, fvars, svars>>
InAdmin(Act)    == Only("admin", Act)    /\ UNCHANGED <<vars, bvars, fvars>>

MCNext == \/ InFailover(F!Next) \/ InBalancer(B!Next)
          \/ InArticles(Next) \/ InAdmin(S!Next)

MCSpec == /\ MCInit /\ [][MCNext]_mcvars
          /\ \A c \in Callers : WF_mcvars(InFailover(F!Send(c)))
          /\ \A r \in Requests : WF_mcvars(InArticles(SetEntry(r)))
          /\ \A k \in Keys : WF_mcvars(InArticles(Expire(k)))

\* The constants of the failover, the balancer and the scheduler are as their theorems
\* assume, and somebody calls.
ASSUME FailoverAssumption  == F!Parameters
ASSUME BalancerAssumption  == B!Parameters
ASSUME CallersAssumption   == Callers # {} /\ IsFiniteSet(Callers)
ASSUME SchedulerAssumption == MaxStarts \in Nat

\* CountInv of TimeoutFailover: the index is that of a provider, and the count, which
\* nothing in the code bounds, is bounded by the number of callers.
CountInv == F!CountInv

\* LeavesDead of TimeoutFailover: again and again a call goes to a live provider.
FailoverLeavesDead == part = "failover" => F!LeavesDead

\* ChangesBounded of TimeoutFailover: n callers change the provider at most n times
\* before another timeout is counted, however their atomic operations interleave.
ChangesBounded == F!ChangesBounded

\* SharesAreEven of Balancer: picks that come one after another follow the weights.
SharesAreEven == B!SharesAreEven

\* StopsReach of Scheduler: a validation gets out of reach of its stop only by a
\* start that overtakes the goroutine of an earlier one (scheduler.go:168-175).
StopsReach == S!StopsReach
=============================================================================
