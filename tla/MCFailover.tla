----------------------------- MODULE MCFailover -----------------------------
(* TimeoutFailover with the history of the answers that its callers get: the *)
(* timeouts since the last answer of another kind.                           *)
EXTENDS TimeoutFailover

VARIABLE streak   \* history: timeouts in a row, counted up to Threshold

Flaky == [p \in Providers |-> {"nil", "timeout", "error"}]

Longer == IF streak < Threshold THEN streak + 1 ELSE streak

\* Any answer that is not a timeout ends the row, and so does a change of provider.
MCNext == \E c \in Callers :
  \/ TimesOut(c) /\ streak' = Longer
  \/ (Succeeds(c) \/ Fails(c) \/ SwitchWon(c)) /\ streak' = 0
  \/ (LoadIdx(c) \/ LoadCnt(c) \/ SwitchLost(c) \/ ResetCnt(c)) /\ UNCHANGED streak

MCSpec == Init /\ streak = 0 /\ [][MCNext]_<<vars, streak>>

\* What the comments ask for (timeout_failover.go:13, "how many have timed out in a
\* row", and :42, "timeouts in a row, so whatever does not time out has to reset to
\* 0"): the provider is changed only after Threshold timeouts in a row.  It fails for
\* a single caller already: an error that is no timeout leaves the count (:47-51).
SwitchIsEarned == [][idx' # idx => streak >= Threshold]_<<vars, streak>>
=============================================================================
