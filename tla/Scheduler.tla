------------------------------ MODULE Scheduler ------------------------------
(***************************************************************************)
(* The validations that the migration's admin server starts and stops      *)
(* (pkg/migrator/scheduler/scheduler.go).  What they do to the tables is   *)
(* in Migration, which has one of them; here there are several, and how to *)
(* cancel them.                                                            *)
(*                                                                         *)
(* The handlers run under Scheduler.lock and are one action each.  The     *)
(* goroutine of an incremental validation writes cancelIncr without it.    *)
(***************************************************************************)
EXTENDS Integers, FiniteSets

CONSTANT MaxStarts  \* bound: validations started

VARIABLES
  started,     \* the validations numbered 1 .. started have been asked for
  kind,        \* "full", "incr", or "once": incremental without an interval
  at,          \* where the goroutine of each is
  prev,        \* the validation whose cancel it has captured, or 0
  cancelled,   \* validations whose context is cancelled
  cancelIncr,  \* the validation that cancelIncr cancels, or 0
  cancelFull,  \* the validation that cancelFull cancels, or 0
  races        \* history: starts that came while another was about to register

vars == <<started, kind, at, prev, cancelled, cancelIncr, cancelFull, races>>

Validations == 1 .. MaxStarts

\* The functions of NewScheduler cancel nothing.
Init == /\ started = 0
        /\ kind = [v \in Validations |-> "none"]
        /\ at   = [v \in Validations |-> "none"]
        /\ prev = [v \in Validations |-> 0]
        /\ cancelled = {} /\ cancelIncr = 0 /\ cancelFull = 0
        /\ races = 0

Cancels(v) == cancelled' = cancelled \union ({v} \ {0})

\* A goroutine that has not yet put its own cancel into cancelIncr.
Unregistered == {v \in Validations : at[v] = "register"}

-----------------------------------------------------------------------------
(* The handlers. *)

\* The next validation, whose goroutine begins at the given place.
Start(k, place) ==
  /\ started < MaxStarts
  /\ started' = started + 1
  /\ kind' = [kind EXCEPT ![started'] = k]
  /\ at'   = [at EXCEPT ![started'] = place]

\* cancelIncr is read here; the goroutine replaces it.  The request gives an
\* interval, or none, so that one pass is made.
StartIncrementValidation(k) ==
  /\ Start(k, "register")
  /\ prev' = [prev EXCEPT ![started'] = cancelIncr]
  /\ races' = IF Unregistered = {} THEN races ELSE races + 1
  /\ UNCHANGED <<cancelled, cancelIncr, cancelFull>>

StopIncrementValidation ==
  /\ Cancels(cancelIncr)
  /\ UNCHANGED <<started, kind, at, prev, cancelIncr, cancelFull, races>>

\* The full validation before it is not cancelled: the call is commented out.
StartFullValidation ==
  /\ Start("full", "run")
  /\ cancelFull' = started'
  /\ UNCHANGED <<prev, cancelled, cancelIncr, races>>

StopFullValidation ==
  /\ Cancels(cancelFull)
  /\ UNCHANGED <<started, kind, at, prev, cancelIncr, cancelFull, races>>

-----------------------------------------------------------------------------
(* The goroutines. *)

Goes(v, from, to) == at[v] = from /\ at' = [at EXCEPT ![v] = to]

\* ctx, s.cancelIncr = context.WithCancel(...)
Register(v) ==
  /\ Goes(v, "register", "cancel")
  /\ cancelIncr' = v
  /\ UNCHANGED <<started, kind, prev, cancelled, cancelFull, races>>

\* Mutant: the call is commented out, as it is for full validations.
CancelNothing(v) ==
  /\ Goes(v, "cancel", "run")
  /\ UNCHANGED <<started, kind, prev, cancelled, cancelIncr, cancelFull, races>>

\* cancel()
CancelPrevious(v) ==
  /\ Goes(v, "cancel", "run")
  /\ Cancels(prev[v])
  /\ UNCHANGED <<started, kind, prev, cancelIncr, cancelFull, races>>

\* Validate returns: a single pass at its end, all when they are cancelled.
Returns(v) ==
  /\ kind[v] # "incr" \/ v \in cancelled
  /\ Goes(v, "run", "done")
  /\ UNCHANGED <<started, kind, prev, cancelled, cancelIncr, cancelFull, races>>

Next ==
  \/ \E k \in {"incr", "once"} : StartIncrementValidation(k)
  \/ StopIncrementValidation
  \/ StartFullValidation \/ StopFullValidation
  \/ \E v \in Validations : Register(v) \/ CancelPrevious(v) \/ Returns(v)

Spec == Init /\ [][Next]_vars

-----------------------------------------------------------------------------
TypeOK ==
  /\ started \in 0 .. MaxStarts
  /\ kind \in [Validations -> {"none", "incr", "once", "full"}]
  /\ at \in [Validations -> {"none", "register", "cancel", "run", "done"}]
  /\ prev \in [Validations -> 0 .. MaxStarts]
  /\ cancelled \subseteq Validations
  /\ cancelIncr \in 0 .. MaxStarts /\ cancelFull \in 0 .. MaxStarts
  /\ races \in Nat

\* Incremental validations that run on.
Running == {v \in Validations : kind[v] = "incr" /\ at[v] \in {"cancel", "run"}} \ cancelled

\* ... and are about to be cancelled by their successor.
Doomed == {prev[v] : v \in {w \in Validations : at[w] \in {"register", "cancel"}}}

\* ... and that nobody can stop any more.
Unstoppable == Running \ (Doomed \union {cancelIncr})

\* An incremental validation, which with an interval does not end by itself, gets out of reach of
\* its stop only by a start that came before the goroutine of an earlier start had
\* registered its cancel (scheduler.go:168-175), and each such start costs at most
\* one validation: started one after another, each replaces the one before.
StopsReach == TypeOK /\ Cardinality(Unstoppable) <= races
=============================================================================
