------------------------------- MODULE AsyncSms -------------------------------
(***************************************************************************)
(* Asynchronous sending of short messages: Service.Send stores the message *)
(* (internal/service/sms/async/service.go) and one AsyncSend loop per      *)
(* process takes waiting messages from the table, calls the provider and   *)
(* reports the result (internal/repository/dao/async_sms.go).              *)
(*                                                                         *)
(* The transaction of GetWaitingSMS is two steps, the locking read and the *)
(* update with its commit.  ripe[m] stands for utime < now - 1 minute.     *)
(***************************************************************************)
EXTENDS Integers

CONSTANTS Senders,     \* processes with an AsyncSend loop
          Messages,    \* primary keys of the table
          RetryMax,    \* AsyncSms.RetryMax, 3 in Service.Send
          MaxAttempts, \* bound: messages with that retry_cnt are left alone
          Faults       \* "late": the provider needs the whole second; "db": statements
                       \* fail; "crash": processes die; "slow": a send outlasts a minute

ASSUME MessagesAssumption == Messages \subseteq Nat
ASSUME RetryAssumption    == RetryMax \in Nat /\ MaxAttempts \in Nat

VARIABLES
  status,    \* the column, "absent" before the INSERT
  retryCnt,  \* the column
  ripe,      \* utime is more than a minute old
  rowLock,   \* rowLock[m]: the senders whose transaction has locked the row
  sent,      \* history: times the provider has delivered m
  pc,        \* where the loop of each sender is
  cur,       \* the message it is working on
  result     \* what svc.Send returned, and whether its context had ended by then

table == <<status, retryCnt, ripe>>
vars  == <<status, retryCnt, ripe, rowLock, sent, pc, cur, result>>

Finals == {"failed", "success"}
Unset  == [ok |-> FALSE, late |-> FALSE]

Init == /\ status   = [m \in Messages |-> "absent"]
        /\ retryCnt = [m \in Messages |-> 0]
        /\ ripe     = [m \in Messages |-> FALSE]
        /\ rowLock  = [m \in Messages |-> {}]
        /\ sent     = [m \in Messages |-> 0]
        /\ pc       = [s \in Senders |-> "idle"]
        /\ cur      = [s \in Senders |-> 0]
        /\ result   = [s \in Senders |-> Unset]

Goto(s, l) == pc' = [pc EXCEPT ![s] = l]

\* Service.Send: needAsync is always true, the row is inserted with utime 0.
Send(m) ==
  /\ status[m] = "absent"
  /\ status' = [status EXCEPT ![m] = "waiting"]
  /\ ripe'   = [ripe EXCEPT ![m] = TRUE]
  /\ UNCHANGED <<retryCnt, rowLock, sent, pc, cur, result>>

-----------------------------------------------------------------------------
\* GetWaitingSMS

Waiting == {m \in Messages : status[m] = "waiting" /\ ripe[m]}

\* Mutant: the read takes no lock.
SelectPlain(s) ==
  /\ pc[s] = "idle"
  /\ \E m \in Waiting :
       /\ \A k \in Waiting : m <= k
       /\ retryCnt[m] < MaxAttempts
       /\ cur' = [cur EXCEPT ![s] = m]
  /\ Goto(s, "locked")
  /\ UNCHANGED <<table, rowLock, sent, result>>

\* SELECT ... FOR UPDATE of the first waiting row; it blocks while that is locked.
SelectForUpdate(s) ==
  /\ pc[s] = "idle"
  /\ \E m \in Waiting :
       /\ \A k \in Waiting : m <= k
       /\ rowLock[m] = {} /\ retryCnt[m] < MaxAttempts
       /\ cur' = [cur EXCEPT ![s] = m]
       /\ rowLock' = [rowLock EXCEPT ![m] = {s}]
  /\ Goto(s, "locked")
  /\ UNCHANGED <<table, sent, result>>

TakeRow(s) ==
  /\ pc[s] = "locked"
  /\ retryCnt' = [retryCnt EXCEPT ![cur[s]] = @ + 1]
  /\ ripe'     = [ripe EXCEPT ![cur[s]] = FALSE]
  /\ rowLock'  = [rowLock EXCEPT ![cur[s]] = @ \ {s}]
  /\ UNCHANGED <<status, sent, cur, result>>

Preempt(s) == TakeRow(s) /\ Goto(s, "send")

\* The commit takes effect and its reply is lost: the attempt is spent.
PreemptReplyLost(s) == "db" \in Faults /\ TakeRow(s) /\ Goto(s, "idle")

\* The transaction is rolled back.
PreemptFails(s) ==
  /\ "db" \in Faults
  /\ pc[s] = "locked"
  /\ rowLock' = [rowLock EXCEPT ![cur[s]] = @ \ {s}]
  /\ Goto(s, "idle")
  /\ UNCHANGED <<table, sent, cur, result>>

-----------------------------------------------------------------------------
\* svc.Send, then ReportScheduleResult under the same one-second context.  The
\* UPDATEs of the report wait for the lock of the row.

Provider(s, delivered, ok, late) ==
  /\ pc[s] = "send"
  /\ sent' = [sent EXCEPT ![cur[s]] = IF delivered THEN @ + 1 ELSE @]
  /\ result' = [result EXCEPT ![s] = [ok |-> ok, late |-> late]]
  /\ Goto(s, "report")
  /\ UNCHANGED <<table, rowLock, cur>>

Delivered(s) == Provider(s, TRUE, TRUE, FALSE)
Refused(s)   == Provider(s, FALSE, FALSE, FALSE)

\* The context ends during the call: it failed, or it did not, or nobody knows.
AnswersLate(s) ==
  /\ "late" \in Faults
  /\ \E delivered \in BOOLEAN :
       \/ Provider(s, delivered, FALSE, TRUE)
       \/ delivered /\ Provider(s, delivered, TRUE, TRUE)

\* Mutant: the result is not looked at.
MarkSuccessAlways(s) ==
  /\ pc[s] = "report" /\ ~result[s].late /\ rowLock[cur[s]] = {}
  /\ status' = [status EXCEPT ![cur[s]] = "success"]
  /\ ripe'   = [ripe EXCEPT ![cur[s]] = FALSE]
  /\ Goto(s, "idle")
  /\ UNCHANGED <<retryCnt, rowLock, sent, cur, result>>

MarkSuccess(s) ==
  /\ pc[s] = "report" /\ ~result[s].late /\ rowLock[cur[s]] = {}
  /\ result[s].ok
  /\ status' = [status EXCEPT ![cur[s]] = "success"]
  /\ ripe'   = [ripe EXCEPT ![cur[s]] = FALSE]
  /\ Goto(s, "idle")
  /\ UNCHANGED <<retryCnt, rowLock, sent, cur, result>>

\* Mutant: the first refusal ends the message.
MarkFailedAtOnce(s) ==
  /\ pc[s] = "report" /\ ~result[s].late /\ rowLock[cur[s]] = {}
  /\ ~result[s].ok
  /\ status' = [status EXCEPT ![cur[s]] = "failed"]
  /\ ripe'   = [ripe EXCEPT ![cur[s]] = FALSE]
  /\ Goto(s, "idle")
  /\ UNCHANGED <<retryCnt, rowLock, sent, cur, result>>

\* Mutant: a message is never given up.
MarkFailedNever(s) ==
  /\ pc[s] = "report" /\ ~result[s].late /\ rowLock[cur[s]] = {}
  /\ ~result[s].ok
  /\ Goto(s, "idle")
  /\ UNCHANGED <<table, rowLock, sent, cur, result>>

\* UPDATE ... WHERE id = ? AND retry_cnt >= retry_max
MarkFailed(s) ==
  /\ pc[s] = "report" /\ ~result[s].late /\ rowLock[cur[s]] = {}
  /\ ~result[s].ok
  /\ \/ /\ retryCnt[cur[s]] >= RetryMax
        /\ status' = [status EXCEPT ![cur[s]] = "failed"]
        /\ ripe'   = [ripe EXCEPT ![cur[s]] = FALSE]
     \/ /\ retryCnt[cur[s]] < RetryMax
        /\ UNCHANGED <<status, ripe>>
  /\ Goto(s, "idle")
  /\ UNCHANGED <<retryCnt, rowLock, sent, cur, result>>

\* The report is an error, which is logged: its context has ended, or the
\* database fails.
ReportFails(s) ==
  /\ pc[s] = "report"
  /\ result[s].late \/ "db" \in Faults
  /\ Goto(s, "idle")
  /\ UNCHANGED <<table, rowLock, sent, cur, result>>

-----------------------------------------------------------------------------
\* Mutant: the attempt does not renew utime.
RipenAnyTime(m) ==
  /\ status[m] # "absent" /\ ~ripe[m]
  /\ ripe' = [ripe EXCEPT ![m] = TRUE]
  /\ UNCHANGED <<status, retryCnt, rowLock, sent, pc, cur, result>>

\* A minute passes since utime; sending takes one second, unless it is "slow".
Ripen(m) ==
  /\ status[m] # "absent" /\ ~ripe[m]
  /\ \/ "slow" \in Faults
     \/ \A s \in Senders : pc[s] \in {"send", "report"} => cur[s] # m
  /\ ripe' = [ripe EXCEPT ![m] = TRUE]
  /\ UNCHANGED <<status, retryCnt, rowLock, sent, pc, cur, result>>

\* The process dies, its transaction is rolled back, and it is started again.
Crash(s) ==
  /\ "crash" \in Faults
  /\ pc[s] # "idle"
  /\ rowLock' = [m \in Messages |-> rowLock[m] \ {s}]
  /\ Goto(s, "idle")
  /\ UNCHANGED <<table, sent, cur, result>>

AsyncSend(s) == \/ SelectForUpdate(s)
                \/ Preempt(s) \/ PreemptReplyLost(s) \/ PreemptFails(s)
                \/ Delivered(s) \/ Refused(s) \/ AnswersLate(s)
                \/ MarkSuccess(s) \/ MarkFailed(s) \/ ReportFails(s)

Next == \/ \E s \in Senders : AsyncSend(s) \/ Crash(s)
        \/ \E m \in Messages : Send(m) \/ Ripen(m)

Spec == Init /\ [][Next]_vars

\* The loops never stop, and a minute passes.
Fairness == /\ \A s \in Senders : WF_vars(AsyncSend(s))
            /\ \A m \in Messages : WF_vars(Ripen(m))

FairSpec == Spec /\ Fairness

-----------------------------------------------------------------------------
\* The table, the loops and the row locks are of the expected shape.
TypeOK ==
  /\ status   \in [Messages -> {"absent", "waiting"} \cup Finals]
  /\ retryCnt \in [Messages -> Nat]
  /\ ripe     \in [Messages -> BOOLEAN]
  /\ rowLock  \in [Messages -> SUBSET Senders]
  /\ sent     \in [Messages -> Nat]
  /\ pc       \in [Senders -> {"idle", "locked", "send", "report"}]
  /\ cur      \in [Senders -> Messages \cup {0}]
  /\ result   \in [Senders -> [ok : BOOLEAN, late : BOOLEAN]]
  /\ \A s \in Senders : pc[s] # "idle" => cur[s] \in Messages

Works(s, m) == pc[s] # "idle" /\ cur[s] = m

\* While sending takes less than a minute, no two processes work on the same
\* message (async_sms.go:60 and :65), although no row says who has taken it.
OneSender == \A a, b \in Senders, m \in Messages : Works(a, m) /\ Works(b, m) => a = b

\* A transaction holds the lock of the waiting row it is about to take.
LockedRow == \A s \in Senders : pc[s] = "locked" =>
  rowLock[cur[s]] = {s} /\ status[cur[s]] = "waiting" /\ ripe[cur[s]]

\* A message that is being sent is still waiting and not offered to others.
SendingRow == \A s \in Senders : pc[s] \in {"send", "report"} =>
  status[cur[s]] = "waiting" /\ ~ripe[cur[s]] /\ rowLock[cur[s]] = {}

\* What OneSender rests on.
SenderInv == TypeOK /\ OneSender /\ LockedRow /\ SendingRow

\* A message is recorded as sent only if the provider delivered it, even when
\* replies come late, processes die and sends overlap.
SuccessWasSent == \A m \in Messages : status[m] = "success" => sent[m] > 0

\* While a send takes less than a minute a recorded outcome stays: MarkFailed,
\* whose WHERE clause does not look at the status, overwrites no success.
OutcomeStays == [][\A m \in Messages : status[m] \in Finals => status'[m] = status[m]]_vars

\* Without faults a message is delivered at most once, exactly if it is
\* recorded as sent, and given up only after RetryMax attempts.
ExactlyOnce == \A m \in Messages :
  /\ sent[m] <= 1
  /\ status[m] = "failed" => sent[m] = 0 /\ retryCnt[m] >= RetryMax
  /\ status[m] = "waiting" /\ sent[m] = 1 => \E s \in Senders : pc[s] = "report" /\ cur[s] = m

\* A message is tried at most RetryMax times (service.go:94): it holds while the
\* provider answers within the second, and not otherwise.
AttemptsBounded == \A m \in Messages : retryCnt[m] <= RetryMax

\* Without faults every accepted message reaches an outcome.
EventuallyDecided == \A m \in Messages : status[m] = "waiting" ~> status[m] \in Finals
=============================================================================
