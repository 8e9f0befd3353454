--------------------------- MODULE TimeoutFailover ---------------------------
(***************************************************************************)
(* TimeoutFailoverSMSService.Send (internal/service/sms/failover/          *)
(* timeout_failover.go): concurrent callers share the index of the         *)
(* provider in use and a count of timeouts, each read and written by       *)
(* atomic operations of its own.  Every atomic operation is one step.      *)
(***************************************************************************)
EXTENDS Integers, FiniteSets

CONSTANTS Callers,    \* goroutines that call Send, one call at a time each
          N,          \* len(svcs)
          Threshold,  \* the count of timeouts at which the provider is changed
          Outcomes    \* Outcomes[p]: what calls of provider p may end with

Providers == 0 .. N - 1

\* What is assumed of the constants.
Parameters == /\ N \in Nat \ {0} /\ Threshold \in Nat \ {0}
              /\ Outcomes \in [Providers -> SUBSET {"nil", "timeout", "error"}]

\* A dead provider answers nothing but timeouts.
Dead == {p \in Providers : Outcomes[p] = {"timeout"}}

VARIABLES
  idx, cnt,   \* the shared fields
  pc,         \* where each caller is
  myIdx,      \* its local idx
  changes     \* history: changes of the provider since a timeout was last counted

vars  == <<idx, cnt, pc, myIdx, changes>>

Init == /\ idx = 0
        /\ cnt = 0
        /\ pc    = [c \in Callers |-> "idle"]
        /\ myIdx = [c \in Callers |-> 0]
        /\ changes = 0

Goto(c, l) == pc' = [pc EXCEPT ![c] = l]

LoadIdx(c) ==
  /\ pc[c] = "idle"
  /\ myIdx' = [myIdx EXCEPT ![c] = idx]
  /\ Goto(c, "load")
  /\ UNCHANGED <<idx, cnt, changes>>

\* Its local cnt is used for this comparison only.
LoadCnt(c) ==
  /\ pc[c] = "load"
  /\ Goto(c, IF cnt >= Threshold THEN "switch" ELSE "send")
  /\ UNCHANGED <<idx, cnt, myIdx, changes>>

NewIdx(c) == (myIdx[c] + 1) % N

\* CompareAndSwap succeeds: this caller will reset the count.
SwitchWon(c) ==
  /\ pc[c] = "switch" /\ idx = myIdx[c]
  /\ idx'     = NewIdx(c)
  /\ myIdx'   = [myIdx EXCEPT ![c] = NewIdx(c)]
  /\ changes' = changes + 1
  /\ Goto(c, "reset")
  /\ UNCHANGED cnt

\* It fails: another caller has switched, this one goes on with its own newIdx.
SwitchLost(c) ==
  /\ pc[c] = "switch" /\ idx # myIdx[c]
  /\ myIdx' = [myIdx EXCEPT ![c] = NewIdx(c)]
  /\ Goto(c, "send")
  /\ UNCHANGED <<idx, cnt, changes>>

\* Mutant: the switch does not reset the count.
ResetNothing(c) ==
  /\ pc[c] = "reset"
  /\ Goto(c, "send")
  /\ UNCHANGED <<idx, cnt, myIdx, changes>>

ResetCnt(c) ==
  /\ pc[c] = "reset"
  /\ cnt' = 0
  /\ Goto(c, "send")
  /\ UNCHANGED <<idx, myIdx, changes>>

\* svc.Send returns nil.
Succeeds(c) ==
  /\ pc[c] = "send" /\ "nil" \in Outcomes[myIdx[c]]
  /\ cnt' = 0
  /\ Goto(c, "idle")
  /\ UNCHANGED <<idx, myIdx, changes>>

\* Mutant: a timeout is not counted.
TimesOutUncounted(c) ==
  /\ pc[c] = "send" /\ "timeout" \in Outcomes[myIdx[c]]
  /\ Goto(c, "idle")
  /\ UNCHANGED <<idx, cnt, myIdx, changes>>

\* svc.Send returns context.DeadlineExceeded.
TimesOut(c) ==
  /\ pc[c] = "send" /\ "timeout" \in Outcomes[myIdx[c]]
  /\ cnt' = cnt + 1
  /\ changes' = 0
  /\ Goto(c, "idle")
  /\ UNCHANGED <<idx, myIdx>>

\* It returns another error.
Fails(c) ==
  /\ pc[c] = "send" /\ "error" \in Outcomes[myIdx[c]]
  /\ Goto(c, "idle")
  /\ UNCHANGED <<idx, cnt, myIdx, changes>>

Send(c) == \/ LoadIdx(c) \/ LoadCnt(c)
           \/ SwitchWon(c) \/ SwitchLost(c) \/ ResetCnt(c)
           \/ Succeeds(c) \/ TimesOut(c) \/ Fails(c)

Next == \E c \in Callers : Send(c)

Spec == Init /\ [][Next]_vars

\* Send is called again and again, and every call of a provider ends.
FairSpec == Spec /\ \A c \in Callers : WF_vars(Send(c))

-----------------------------------------------------------------------------
\* The shared fields and the callers are in states of the expected shape, and
\* whoever is to be called exists.
TypeOK ==
  /\ idx    \in Providers
  /\ cnt    \in Nat
  /\ pc     \in [Callers -> {"idle", "load", "switch", "reset", "send"}]
  /\ myIdx  \in [Callers -> Providers]
  /\ changes \in Nat

\* The count overshoots the threshold, but not without bound: a caller that sees
\* the threshold reached and loses the switch counts one more timeout only while
\* the winner has yet to reset the count.  For n callers the overshoot is at most
\* n(n + 1)/2 - 1, so the int32 is safe.
Overshoot == (Cardinality(Callers) * (Cardinality(Callers) + 1)) \div 2 - 1

CountBounded == cnt <= Threshold + Overshoot

\* The index is that of a provider, too, whoever loses a switch
\* (timeout_failover.go:30-37), so that svcs[idx] never panics.
CountInv == TypeOK /\ CountBounded

\* A dead provider is not used for ever: again and again a call goes to another.
LeavesDead == []<>(\E c \in Callers : pc[c] = "send" /\ myIdx[c] \notin Dead)

\* A timeout makes the provider change, but not without bound: the callers that have
\* seen the threshold reached, and those that read it before the first of them resets
\* the count, may each change it once more, past providers nobody has called.  Of n
\* callers no more than n do so before another timeout is counted, however the reads,
\* the compare-and-swap and the reset interleave (timeout_failover.go:27-36).
ChangesBounded == changes <= Cardinality(Callers)
=============================================================================
