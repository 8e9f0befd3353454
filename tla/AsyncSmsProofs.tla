---------------------------- MODULE AsyncSmsProofs ----------------------------
(***************************************************************************)
(* Proofs about what logging in by SMS goes through: AsyncSms for every    *)
(* set of senders and of messages, every retry limit and every combination *)
(* of faults; AsyncSms without faults; Users for every number of requests  *)
(* and persons; Limiter for every window and rate.                         *)
(***************************************************************************)
EXTENDS MCAsyncSms, TLAPS, FiniteSetTheorems

LEMMA InitSenderInv == Init => SenderInv
<1> SUFFICES ASSUME Init PROVE SenderInv
  OBVIOUS
<1>1. TypeOK
  BY DEF Init, TypeOK, Finals, Unset
<1>2. \A s \in Senders : pc[s] = "idle"
  BY DEF Init
<1> QED
  BY <1>1, <1>2 DEF SenderInv, OneSender, LockedRow, SendingRow, Works

LEMMA SenderStep ==
  ASSUME "slow" \notin Faults, SenderInv, [Next]_vars
  PROVE  SenderInv'
<1> USE DEF SenderInv, TypeOK, OneSender, LockedRow, SendingRow, Works, Finals, Goto, table
<1>1. ASSUME NEW s \in Senders, SelectForUpdate(s) PROVE SenderInv'
  <2>1. PICK m \in Waiting : /\ cur' = [cur EXCEPT ![s] = m]
                             /\ rowLock[m] = {}
                             /\ rowLock' = [rowLock EXCEPT ![m] = {s}]
    BY <1>1 DEF SelectForUpdate
  <2>2. m \in Messages /\ status[m] = "waiting" /\ ripe[m]
    BY DEF Waiting
  <2>3. ASSUME NEW r \in Senders, Works(r, m) PROVE FALSE
    <3>1. CASE pc[r] = "locked"
      <4>1. rowLock[m] = {r}
        BY <2>3, <3>1
      <4> QED
        BY <2>1, <4>1
    <3>2. CASE pc[r] \in {"send", "report"}
      BY <2>2, <2>3, <3>2
    <3> QED
      BY <2>3, <3>1, <3>2
  <2>4. TypeOK'
    BY <1>1, <2>1, <2>2 DEF SelectForUpdate
  <2>5. OneSender'
    BY <1>1, <2>1, <2>2, <2>3 DEF SelectForUpdate
  <2>6. LockedRow' /\ SendingRow'
    BY <1>1, <2>1, <2>2, <2>3 DEF SelectForUpdate
  <2> QED
    BY <2>4, <2>5, <2>6
<1>2. ASSUME NEW s \in Senders, Preempt(s) PROVE SenderInv'
  BY <1>2 DEF Preempt, TakeRow
<1>3. ASSUME NEW s \in Senders, PreemptReplyLost(s) PROVE SenderInv'
  BY <1>3 DEF PreemptReplyLost, TakeRow
<1>4. ASSUME NEW s \in Senders, PreemptFails(s) PROVE SenderInv'
  BY <1>4 DEF PreemptFails
<1>5. ASSUME NEW s \in Senders, NEW d \in BOOLEAN, NEW o \in BOOLEAN, NEW l \in BOOLEAN,
             Provider(s, d, o, l)
      PROVE  SenderInv'
  BY <1>5 DEF Provider
<1>6. ASSUME NEW s \in Senders, MarkSuccess(s) PROVE SenderInv'
  BY <1>6 DEF MarkSuccess
<1>7. ASSUME NEW s \in Senders, MarkFailed(s) PROVE SenderInv'
  <2>1. CASE /\ status' = [status EXCEPT ![cur[s]] = "failed"]
             /\ ripe'   = [ripe EXCEPT ![cur[s]] = FALSE]
    BY <1>7, <2>1 DEF MarkFailed
  <2>2. CASE UNCHANGED <<status, ripe>>
    <3>1. UNCHANGED <<status, retryCnt, ripe, rowLock, sent, cur, result>>
      BY <1>7, <2>2 DEF MarkFailed
    <3>2. pc' = [pc EXCEPT ![s] = "idle"]
      BY <1>7 DEF MarkFailed
    <3> QED
      BY <3>1, <3>2
  <2> QED
    BY <1>7, <2>1, <2>2 DEF MarkFailed
<1>8. ASSUME NEW s \in Senders, ReportFails(s) PROVE SenderInv'
  BY <1>8 DEF ReportFails
<1>9. ASSUME NEW s \in Senders, Crash(s) PROVE SenderInv'
  BY <1>9 DEF Crash
<1>10. ASSUME NEW m \in Messages, Send(m) PROVE SenderInv'
  BY <1>10 DEF Send
<1>11. ASSUME NEW m \in Messages, Ripen(m) PROVE SenderInv'
  BY <1>11 DEF Ripen
<1>12. CASE UNCHANGED vars
  BY <1>12 DEF vars
<1>13. ASSUME NEW s \in Senders, Delivered(s) \/ Refused(s) \/ AnswersLate(s) PROVE SenderInv'
  <2>1. PICK d \in BOOLEAN, o \in BOOLEAN, l \in BOOLEAN : Provider(s, d, o, l)
    BY <1>13 DEF Delivered, Refused, AnswersLate
  <2> QED
    BY <1>5, <2>1
<1> QED
  BY <1>1, <1>2, <1>3, <1>4, <1>6, <1>7, <1>8, <1>9, <1>10, <1>11, <1>12, <1>13
  DEF Next, AsyncSend

\* The strengthened invariant, while a send takes less than a minute.
THEOREM SenderInvariance == "slow" \notin Faults => (Spec => []SenderInv)
<1> SUFFICES ASSUME "slow" \notin Faults PROVE Spec => []SenderInv
  OBVIOUS
<1>1. SenderInv /\ [Next]_vars => SenderInv'
  BY SenderStep
<1> QED
  BY InitSenderInv, <1>1, PTL DEF Spec

\* Any number of processes share the table without two of them working on the
\* same message, although messages carry no owner.
THEOREM OneSenderTheorem == "slow" \notin Faults => (Spec => []OneSender)
<1> SUFFICES ASSUME "slow" \notin Faults PROVE Spec => []OneSender
  OBVIOUS
<1>1. SenderInv => OneSender
  BY DEF SenderInv
<1> QED
  BY SenderInvariance, <1>1, PTL

\* A recorded outcome is never overwritten, while a send takes less than a minute.
THEOREM OutcomeTheorem == "slow" \notin Faults => (Spec => OutcomeStays)
<1> SUFFICES ASSUME "slow" \notin Faults PROVE Spec => OutcomeStays
  OBVIOUS
<1> DEFINE A == \A m \in Messages : status[m] \in Finals => status'[m] = status[m]
<1>1. SenderInv /\ [Next]_vars => [A]_vars
  <2> SUFFICES ASSUME SenderInv, Next PROVE A
    OBVIOUS
  <2>1. ASSUME NEW s \in Senders, MarkSuccess(s) \/ MarkFailed(s) PROVE A
    BY <2>1 DEF MarkSuccess, MarkFailed, SenderInv, TypeOK, SendingRow, Finals
  <2>2. ASSUME NEW m \in Messages, Send(m) PROVE A
    BY <2>2 DEF Send, SenderInv, TypeOK, Finals
  <2>3. ASSUME NEW s \in Senders,
               Crash(s) \/ (AsyncSend(s) /\ ~MarkSuccess(s) /\ ~MarkFailed(s))
        PROVE  status' = status
    BY <2>3 DEF Crash, AsyncSend, SelectForUpdate, Preempt, PreemptReplyLost, TakeRow, PreemptFails,
                Delivered, Refused, AnswersLate, Provider, ReportFails, table
  <2>4. ASSUME NEW m \in Messages, Ripen(m) PROVE status' = status
    BY <2>4 DEF Ripen
  <2> QED
    BY <2>1, <2>2, <2>3, <2>4 DEF Next
<1> QED
  BY SenderInvariance, <1>1, PTL DEF Spec, OutcomeStays

-----------------------------------------------------------------------------
\* An outcome that says "sent" is backed by a delivery, whatever goes wrong.

ReportedWasSent == \A s \in Senders : pc[s] = "report" /\ result[s].ok => sent[cur[s]] > 0

\* The part of the type invariant that holds whatever overlaps.
Shape == /\ status \in [Messages -> {"absent", "waiting"} \cup Finals]
         /\ sent   \in [Messages -> Nat]
         /\ pc     \in [Senders -> {"idle", "locked", "send", "report"}]
         /\ cur    \in [Senders -> Messages \cup {0}]
         /\ result \in [Senders -> [ok : BOOLEAN, late : BOOLEAN]]
         /\ \A s \in Senders : pc[s] # "idle" => cur[s] \in Messages

SentInv == Shape /\ ReportedWasSent /\ SuccessWasSent

LEMMA SentStep ==
  ASSUME SentInv, [Next]_vars
  PROVE  SentInv'
<1> USE DEF SentInv, Shape, ReportedWasSent, SuccessWasSent, Finals, Goto, table
<1>1. ASSUME NEW s \in Senders, SelectForUpdate(s) PROVE SentInv'
  BY <1>1 DEF SelectForUpdate, Waiting
<1>2. ASSUME NEW s \in Senders, Preempt(s) \/ PreemptReplyLost(s) PROVE SentInv'
  BY <1>2 DEF Preempt, PreemptReplyLost, TakeRow
<1>3. ASSUME NEW s \in Senders, PreemptFails(s) \/ ReportFails(s) \/ Crash(s) PROVE SentInv'
  BY <1>3 DEF PreemptFails, ReportFails, Crash
<1>4. ASSUME NEW s \in Senders, NEW d \in BOOLEAN, NEW o \in BOOLEAN, NEW l \in BOOLEAN,
             o => d, Provider(s, d, o, l)
      PROVE  SentInv'
  BY <1>4 DEF Provider
<1>5. ASSUME NEW s \in Senders, Delivered(s) \/ Refused(s) \/ AnswersLate(s) PROVE SentInv'
  BY <1>4, <1>5 DEF Delivered, Refused, AnswersLate
<1>6. ASSUME NEW s \in Senders, MarkSuccess(s) PROVE SentInv'
  BY <1>6 DEF MarkSuccess
<1>7. ASSUME NEW s \in Senders, MarkFailed(s) PROVE SentInv'
  BY <1>7 DEF MarkFailed
<1>8. ASSUME NEW m \in Messages, Send(m) \/ Ripen(m) PROVE SentInv'
  BY <1>8 DEF Send, Ripen
<1>9. CASE UNCHANGED vars
  BY <1>9 DEF vars
<1> QED
  BY <1>1, <1>2, <1>3, <1>5, <1>6, <1>7, <1>8, <1>9 DEF Next, AsyncSend

\* No message is recorded as sent without a delivery: not when replies are
\* late, when processes die, or when sends of one message overlap.
THEOREM SuccessTheorem == Spec => []SuccessWasSent
<1>1. Init => SentInv
  BY DEF Init, SentInv, Shape, ReportedWasSent, SuccessWasSent, Finals, Unset
<1>2. SentInv /\ [Next]_vars => SentInv'
  BY SentStep
<1>3. SentInv => SuccessWasSent
  BY DEF SentInv
<1> QED
  BY <1>1, <1>2, <1>3, PTL DEF Spec

-----------------------------------------------------------------------------
(* AsyncSms without faults. *)

\* What ExactlyOnce rests on: a refused or delivered message is known to be so by
\* its sender, who alone works on it.
ReportIsTrue == \A s \in Senders :
  pc[s] = "report" => ~result[s].late /\ (result[s].ok <=> sent[cur[s]] = 1)

AbsentUnsent == \A m \in Messages : status[m] = "absent" => sent[m] = 0

CalmInv == SenderInv /\ ExactlyOnce /\ ReportIsTrue /\ AbsentUnsent

LEMMA CalmSenderStep ==
  ASSUME SenderInv, [Calm!Next]_vars
  PROVE  SenderInv'
<1> USE DEF SenderInv, TypeOK, OneSender, LockedRow, SendingRow, Works, Finals, Calm!Goto,
            Calm!table, Calm!Finals
<1>1. ASSUME NEW s \in Senders, Calm!SelectForUpdate(s) PROVE SenderInv'
  <2>1. PICK m \in Calm!Waiting : /\ cur' = [cur EXCEPT ![s] = m]
                                  /\ rowLock[m] = {}
                                  /\ rowLock' = [rowLock EXCEPT ![m] = {s}]
    BY <1>1 DEF Calm!SelectForUpdate
  <2>2. m \in Messages /\ status[m] = "waiting" /\ ripe[m]
    BY DEF Calm!Waiting
  <2>3. ASSUME NEW r \in Senders, Works(r, m) PROVE FALSE
    <3>1. CASE pc[r] = "locked"
      <4>1. rowLock[m] = {r}
        BY <2>3, <3>1
      <4> QED
        BY <2>1, <4>1
    <3>2. CASE pc[r] \in {"send", "report"}
      BY <2>2, <2>3, <3>2
    <3> QED
      BY <2>3, <3>1, <3>2
  <2>4. TypeOK'
    BY <1>1, <2>1, <2>2 DEF Calm!SelectForUpdate
  <2>5. OneSender'
    BY <1>1, <2>1, <2>2, <2>3 DEF Calm!SelectForUpdate
  <2>6. LockedRow' /\ SendingRow'
    BY <1>1, <2>1, <2>2, <2>3 DEF Calm!SelectForUpdate
  <2> QED
    BY <2>4, <2>5, <2>6
<1>2. ASSUME NEW s \in Senders, Calm!Preempt(s) PROVE SenderInv'
  BY <1>2 DEF Calm!Preempt, Calm!TakeRow
<1>3. ASSUME NEW s \in Senders, NEW d \in BOOLEAN, NEW o \in BOOLEAN, NEW l \in BOOLEAN,
             Calm!Provider(s, d, o, l)
      PROVE  SenderInv'
  BY <1>3 DEF Calm!Provider
<1>4. ASSUME NEW s \in Senders, Calm!MarkSuccess(s) PROVE SenderInv'
  BY <1>4 DEF Calm!MarkSuccess
<1>5. ASSUME NEW s \in Senders, Calm!MarkFailed(s) PROVE SenderInv'
  <2>1. CASE /\ status' = [status EXCEPT ![cur[s]] = "failed"]
             /\ ripe'   = [ripe EXCEPT ![cur[s]] = FALSE]
    BY <1>5, <2>1 DEF Calm!MarkFailed
  <2>2. CASE UNCHANGED <<status, ripe>>
    <3>1. UNCHANGED <<status, retryCnt, ripe, rowLock, sent, cur, result>>
      BY <1>5, <2>2 DEF Calm!MarkFailed
    <3>2. pc' = [pc EXCEPT ![s] = "idle"]
      BY <1>5 DEF Calm!MarkFailed
    <3> QED
      BY <3>1, <3>2
  <2> QED
    BY <1>5, <2>1, <2>2 DEF Calm!MarkFailed
<1>6. ASSUME NEW s \in Senders, Calm!ReportFails(s) PROVE SenderInv'
  BY <1>6 DEF Calm!ReportFails
<1>7. ASSUME NEW m \in Messages, Calm!Send(m) PROVE SenderInv'
  BY <1>7 DEF Calm!Send
<1>8. ASSUME NEW m \in Messages, Calm!Ripen(m) PROVE SenderInv'
  BY <1>8 DEF Calm!Ripen
<1>9. CASE UNCHANGED vars
  BY <1>9 DEF vars
<1> HIDE DEF SenderInv, TypeOK, OneSender, LockedRow, SendingRow
<1> QED
  BY <1>1, <1>2, <1>3, <1>4, <1>5, <1>6, <1>7, <1>8, <1>9
  DEF Calm!Next, Calm!AsyncSend, Calm!Delivered, Calm!Refused, Calm!AnswersLate,
      Calm!PreemptReplyLost, Calm!PreemptFails, Calm!Crash

\* Who is about to send knows that nobody has delivered the message yet.
LEMMA NotYetSent ==
  ASSUME CalmInv, NEW s \in Senders, pc[s] \in {"locked", "send"}
  PROVE  sent[cur[s]] = 0
<1>1. cur[s] \in Messages /\ status[cur[s]] = "waiting"
  BY DEF CalmInv, SenderInv, TypeOK, LockedRow, SendingRow
<1>2. sent[cur[s]] # 1
  BY <1>1 DEF CalmInv, ExactlyOnce, SenderInv, OneSender, Works
<1>3. sent[cur[s]] \in Nat /\ sent[cur[s]] <= 1
  BY <1>1 DEF CalmInv, ExactlyOnce, SenderInv, TypeOK
<1> QED
  BY <1>2, <1>3

LEMMA CalmStep ==
  ASSUME CalmInv, [Calm!Next]_vars
  PROVE  CalmInv'
<1>0. SenderInv /\ SenderInv'
  BY CalmSenderStep DEF CalmInv
<1> USE RetryAssumption, <1>0
    DEF ExactlyOnce, ReportIsTrue, AbsentUnsent, TypeOK, Calm!Goto, Calm!table
<1> DEFINE Goal == ExactlyOnce' /\ ReportIsTrue' /\ AbsentUnsent'
<1>1. ASSUME NEW s \in Senders, Calm!SelectForUpdate(s) PROVE Goal
  <2>1. PICK m \in Messages : /\ cur' = [cur EXCEPT ![s] = m] /\ pc' = [pc EXCEPT ![s] = "locked"]
                              /\ pc[s] = "idle" /\ UNCHANGED <<status, retryCnt, ripe, sent, result>>
    BY <1>1 DEF Calm!SelectForUpdate, Calm!Waiting
  <2>2. \A t \in Senders : t # s => pc'[t] = pc[t] /\ cur'[t] = cur[t]
    BY <2>1 DEF SenderInv
  <2>3. pc'[s] = "locked"
    BY <2>1 DEF SenderInv
  <2> QED
    BY <2>1, <2>2, <2>3 DEF CalmInv
<1>2. ASSUME NEW s \in Senders, Calm!Preempt(s) PROVE Goal
  BY <1>2 DEF Calm!Preempt, Calm!TakeRow, CalmInv, SenderInv
<1>3. ASSUME NEW s \in Senders, NEW d \in BOOLEAN, Calm!Provider(s, d, d, FALSE)
      PROVE  Goal
  <2>1. sent[cur[s]] = 0 /\ cur[s] \in Messages /\ pc[s] = "send"
    BY <1>3, NotYetSent DEF Calm!Provider, SenderInv
  <2>2. status[cur[s]] = "waiting"
    BY <2>1 DEF SenderInv, SendingRow
  <2>3. \A t \in Senders : t # s /\ pc[t] # "idle" => cur[t] # cur[s]
    BY <2>1 DEF SenderInv, OneSender, Works
  <2>4. /\ sent' = [sent EXCEPT ![cur[s]] = IF d THEN 1 ELSE 0]
        /\ result' = [result EXCEPT ![s] = [ok |-> d, late |-> FALSE]]
        /\ pc' = [pc EXCEPT ![s] = "report"]
        /\ UNCHANGED <<status, retryCnt, cur>>
    BY <1>3, <2>1 DEF Calm!Provider, SenderInv
  <2>5. ReportIsTrue'
    BY <2>1, <2>3, <2>4 DEF CalmInv, SenderInv
  <2>6. AbsentUnsent'
    BY <2>1, <2>2, <2>4 DEF CalmInv, SenderInv
  <2>7. ASSUME NEW m \in Messages, m # cur[s] PROVE
          /\ sent'[m] <= 1
          /\ status'[m] = "failed" => sent'[m] = 0 /\ retryCnt'[m] >= RetryMax
          /\ status'[m] = "waiting" /\ sent'[m] = 1 =>
               \E t \in Senders : pc'[t] = "report" /\ cur'[t] = m
    BY <2>1, <2>4, <2>7 DEF CalmInv, SenderInv
  <2>8. /\ sent'[cur[s]] <= 1 /\ status'[cur[s]] = "waiting"
        /\ pc'[s] = "report" /\ cur'[s] = cur[s]
    BY <2>1, <2>2, <2>4 DEF SenderInv
  <2> QED
    BY <2>4, <2>5, <2>6, <2>7, <2>8
<1>4. ASSUME NEW s \in Senders, Calm!MarkSuccess(s) PROVE Goal
  BY <1>4 DEF Calm!MarkSuccess, CalmInv, SenderInv
<1>5. ASSUME NEW s \in Senders, Calm!MarkFailed(s) PROVE Goal
  <2>1. pc[s] = "report" /\ ~result[s].ok
    BY <1>5 DEF Calm!MarkFailed
  <2>2. cur[s] \in Messages /\ sent[cur[s]] # 1
    BY <2>1 DEF CalmInv, SenderInv
  <2>3. sent[cur[s]] \in Nat /\ sent[cur[s]] <= 1
    BY <2>2 DEF CalmInv, SenderInv
  <2>4. sent[cur[s]] = 0
    BY <2>2, <2>3
  <2> QED
    <3>1. UNCHANGED <<retryCnt, sent, cur, result>> /\ pc' = [pc EXCEPT ![s] = "idle"]
      BY <1>5 DEF Calm!MarkFailed
    <3>2. \/ retryCnt[cur[s]] >= RetryMax /\ status' = [status EXCEPT ![cur[s]] = "failed"]
          \/ UNCHANGED status
      BY <1>5 DEF Calm!MarkFailed
    <3>3. ReportIsTrue' /\ AbsentUnsent'
      BY <2>2, <3>1, <3>2 DEF CalmInv, SenderInv
    <3>4. ASSUME NEW m \in Messages PROVE
            /\ sent'[m] <= 1
            /\ status'[m] = "failed" => sent'[m] = 0 /\ retryCnt'[m] >= RetryMax
            /\ status'[m] = "waiting" /\ sent'[m] = 1 =>
                 \E t \in Senders : pc'[t] = "report" /\ cur'[t] = m
      <4>1. CASE m = cur[s]
        BY <2>2, <2>4, <3>1, <3>2, <4>1 DEF CalmInv, SenderInv
      <4>2. CASE m # cur[s]
        BY <2>2, <3>1, <3>2, <4>2 DEF CalmInv, SenderInv
      <4> QED
        BY <4>1, <4>2
    <3> QED
      BY <3>3, <3>4
<1>6. ASSUME NEW s \in Senders, Calm!ReportFails(s) PROVE FALSE
  BY <1>6 DEF Calm!ReportFails, CalmInv
<1>7. ASSUME NEW m \in Messages, Calm!Send(m) PROVE Goal
  BY <1>7 DEF Calm!Send, CalmInv, SenderInv
<1>8. ASSUME NEW m \in Messages, Calm!Ripen(m) PROVE Goal
  BY <1>8 DEF Calm!Ripen, CalmInv, SenderInv
<1>9. ASSUME UNCHANGED vars PROVE Goal
  BY <1>9 DEF vars, CalmInv
<1>10. Goal
  <2> HIDE DEF Goal, Calm!Goto, Calm!table, ExactlyOnce, ReportIsTrue, AbsentUnsent, TypeOK
  <2>1. ASSUME NEW s \in Senders, Calm!Delivered(s) \/ Calm!Refused(s) PROVE Goal
    BY <1>3, <2>1 DEF Calm!Delivered, Calm!Refused
  <2>2. ASSUME NEW s \in Senders, Calm!AsyncSend(s) \/ Calm!Crash(s) PROVE Goal
    <3>1. ~Calm!AnswersLate(s) /\ ~Calm!PreemptReplyLost(s) /\ ~Calm!PreemptFails(s)
          /\ ~Calm!Crash(s)
      BY DEF Calm!AnswersLate, Calm!PreemptReplyLost, Calm!PreemptFails, Calm!Crash
    <3> QED
      BY <1>1, <1>2, <1>4, <1>5, <1>6, <2>1, <2>2, <3>1 DEF Calm!AsyncSend
  <2>3. CASE Calm!Next
    BY <1>7, <1>8, <2>2, <2>3 DEF Calm!Next
  <2> QED
    BY <1>9, <2>3
<1> QED
  BY <1>10 DEF CalmInv

\* Without faults a message is delivered at most once, exactly if it is recorded as
\* sent, and given up only after RetryMax attempts, with any number of processes.
THEOREM ExactlyOnceTheorem == Calm!Spec => []CalmExactlyOnce
<1>1. Calm!Init => CalmInv
  BY DEF Calm!Init, Calm!Unset, CalmInv, SenderInv, TypeOK, OneSender, LockedRow, SendingRow,
         Works, Finals, ExactlyOnce, ReportIsTrue, AbsentUnsent
<1>2. CalmInv /\ [Calm!Next]_vars => CalmInv'
  BY CalmStep
<1>3. CalmInv => CalmExactlyOnce
  BY DEF CalmInv, CalmExactlyOnce
<1>4. CalmInv /\ [Calm!Next]_(Calm!vars) => CalmInv'
  BY <1>2 DEF Calm!vars, vars, Calm!table, table
<1> QED
  BY <1>1, <1>3, <1>4, PTL DEF Calm!Spec

-----------------------------------------------------------------------------
(* Users. *)

\* What a request is doing; one that creates an account does not log in by password.
Doing == {U!Idle}
  \cup [at : {"find"}, who : People, login : U!Logins]
  \cup [at : {"create", "again"}, who : People, login : {"sms", "wechat"}]
  \cup [at : {"token"}, who : People, login : U!Logins, id : U!Ids]

UsersShape == /\ users \in [U!Ids -> U!User \cup {None}]
              /\ info \in [U!Ids -> U!User \cup {None}]
              /\ req \in [Requests -> Doing]
              /\ faults \in 0 .. MaxFaults
              /\ sessions \in SUBSET [who : People, login : U!Logins, id : U!Ids]

\* The three unique indexes.
Unique == \A i, j \in U!Rows : i # j =>
  /\ users[i].email  = None \/ users[i].email  # users[j].email
  /\ users[i].phone  = None \/ users[i].phone  # users[j].phone
  /\ users[i].openId = None \/ users[i].openId # users[j].openId

\* A request that is about to give a token has found the one account.
TokenIsOwn == \A r \in Requests :
  req[r].at = "token" => U!Found(req[r].who, req[r].login) = {req[r].id}

UsersInv == UsersShape /\ Unique /\ TokenIsOwn /\ U!OwnAccount /\ U!EntryIsRow

LEMMA KeysAreNotNull ==
  \A p \in People : p # None /\ U!Phone(p) # None /\ U!OpenId(p) # None
BY UsersAssumption DEF U!Parameters, U!Phone, U!OpenId, U!Strings

\* A lookup finds one account at most.
LEMMA FoundOne ==
  ASSUME UsersShape, Unique, NEW p \in People, NEW l \in U!Logins, NEW i \in U!Found(p, l)
  PROVE  U!Found(p, l) = {i}
<1>0. p # None /\ U!Phone(p) # None /\ U!OpenId(p) # None
  BY KeysAreNotNull
<1>1. ASSUME NEW j \in U!FindByPhone(p), NEW k \in U!FindByPhone(p) PROVE j = k
  BY <1>0 DEF U!FindByPhone, Unique
<1>2. ASSUME NEW j \in U!FindByWechat(p), NEW k \in U!FindByWechat(p) PROVE j = k
  BY <1>0 DEF U!FindByWechat, Unique
<1>3. ASSUME NEW j \in U!FindByEmail(p), NEW k \in U!FindByEmail(p) PROVE j = k
  BY <1>0 DEF U!FindByEmail, Unique
<1>4. U!Found(p, l) \in {U!FindByPhone(p), U!FindByWechat(p), U!FindByEmail(p)}
  BY DEF U!Found, U!Logins
<1> QED
  BY <1>1, <1>2, <1>3, <1>4

\* The INSERT of an account moves no other, and no lookup that had one result gets
\* another.
LEMMA InsertKeeps ==
  ASSUME UsersShape, Unique, U!EntryIsRow, NEW u \in U!User, U!Insert(u)
  PROVE  /\ users' \in [U!Ids -> U!User \cup {None}]
         /\ Unique'
         /\ UNCHANGED info => U!EntryIsRow'
         /\ \A p \in People, l \in U!Logins, i \in U!Ids :
              U!Found(p, l) = {i} => U!Found(p, l)' = {i}
<1> USE UsersAssumption DEF U!Parameters, UsersShape, U!Rows
<1>1. PICK n \in U!Ids : n \notin U!Rows /\ users' = [users EXCEPT ![n] = u]
  <2>1. PICK n \in U!Ids : /\ \A j \in U!Ids : j < n <=> j \in U!Rows
                           /\ users' = [users EXCEPT ![n] = u]
    BY DEF U!Insert
  <2>2. ~(n < n)
    BY DEF U!Ids
  <2> QED
    BY <2>1, <2>2
<1>2. U!Rows' = U!Rows \cup {n} /\ users'[n] = u /\ u # None
  BY <1>1
<1>3. \A i \in U!Rows : users'[i] = users[i] /\ i # n
  BY <1>1
<1>4. \A i \in U!Rows : /\ u.email  = None \/ users[i].email  # u.email
                        /\ u.phone  = None \/ users[i].phone  # u.phone
                        /\ u.openId = None \/ users[i].openId # u.openId
  BY DEF U!Insert, U!Clashes
<1>5. users' \in [U!Ids -> U!User \cup {None}]
  BY <1>1
<1>6. Unique'
  <2> SUFFICES ASSUME NEW i \in U!Rows', NEW j \in U!Rows', i # j
               PROVE  /\ users'[i].email  = None \/ users'[i].email  # users'[j].email
                      /\ users'[i].phone  = None \/ users'[i].phone  # users'[j].phone
                      /\ users'[i].openId = None \/ users'[i].openId # users'[j].openId
    BY DEF Unique
  <2> HIDE DEF U!Rows
  <2>1. CASE i \in U!Rows /\ j \in U!Rows
    BY <1>3, <2>1 DEF Unique
  <2>2. CASE i = n /\ j \in U!Rows
    BY <1>2, <1>3, <1>4, <2>2
  <2>3. CASE i \in U!Rows /\ j = n
    BY <1>2, <1>3, <1>4, <2>3
  <2> QED
    BY <1>2, <2>1, <2>2, <2>3
<1>7. UNCHANGED info => U!EntryIsRow'
  BY <1>1 DEF U!EntryIsRow
<1>8. ASSUME NEW p \in People, NEW l \in U!Logins, NEW i \in U!Ids, U!Found(p, l) = {i}
      PROVE  U!Found(p, l)' = {i}
  <2>1. i \in U!Rows
    BY <1>8 DEF U!Found, U!FindByPhone, U!FindByWechat, U!FindByEmail
  <2>2. U!Phone(p) # None /\ U!OpenId(p) # None /\ p # None
    BY KeysAreNotNull
  <2> HIDE DEF U!Rows
  <2>3. CASE l = "sms"
    <3>1. U!FindByPhone(p) = {i} /\ users[i].phone = U!Phone(p)
      BY <1>8, <2>3 DEF U!Found, U!FindByPhone
    <3>2. U!FindByPhone(p)' = {i}
      BY <1>2, <1>3, <1>4, <2>1, <2>2, <3>1 DEF U!FindByPhone
    <3> QED
      BY <2>3, <3>2 DEF U!Found
  <2>4. CASE l = "wechat"
    <3>1. U!FindByWechat(p) = {i} /\ users[i].openId = U!OpenId(p)
      BY <1>8, <2>4 DEF U!Found, U!FindByWechat
    <3>2. U!FindByWechat(p)' = {i}
      BY <1>2, <1>3, <1>4, <2>1, <2>2, <3>1 DEF U!FindByWechat
    <3> QED
      BY <2>4, <3>2 DEF U!Found
  <2>5. CASE l = "password"
    <3>1. U!FindByEmail(p) = {i} /\ users[i].email = p
      BY <1>8, <2>5 DEF U!Found, U!FindByEmail
    <3>2. U!FindByEmail(p)' = {i}
      BY <1>2, <1>3, <1>4, <2>1, <2>2, <3>1 DEF U!FindByEmail
    <3> QED
      BY <2>5, <3>2 DEF U!Found
  <2> QED
    BY <2>3, <2>4, <2>5 DEF U!Logins
<1> QED
  BY <1>5, <1>6, <1>7, <1>8

LEMMA NewUserType == \A p \in People, l \in U!Logins : U!NewUser(p, l) \in U!User
BY DEF U!NewUser, U!NoUser, U!User, U!Phone, U!OpenId, U!Strings

LEMMA InitUsersInv == U!Init => UsersInv
BY UsersAssumption
DEF U!Init, U!Parameters, UsersInv, UsersShape, Doing, Unique, TokenIsOwn, U!OwnAccount,
    U!EntryIsRow, U!Rows, U!Idle

\* The lookups depend on the rows alone.
LEMMA SameRows ==
  ASSUME users' = users
  PROVE  /\ Unique => Unique'
         /\ \A p, l : U!Found(p, l)' = U!Found(p, l)
BY DEF Unique, U!Found, U!FindByPhone, U!FindByWechat, U!FindByEmail, U!Rows, U!Phone, U!OpenId

LEMMA UsersStep ==
  ASSUME UsersInv, [U!Next]_(U!vars)
  PROVE  UsersInv'
<1> USE DEF UsersInv
<1>1. ASSUME NEW r \in Requests, NEW p \in People, NEW l \in U!Logins, U!Login(r, p, l)
      PROVE  UsersInv'
  <2>1. /\ req' = [req EXCEPT ![r] = [at |-> "find", who |-> p, login |-> l]]
        /\ UNCHANGED <<users, info, faults, sessions>>
    BY <1>1 DEF U!Login
  <2>2. UsersShape'
    BY <2>1 DEF UsersShape, Doing
  <2>3. TokenIsOwn'
    BY <2>1, SameRows DEF TokenIsOwn, UsersShape
  <2> QED
    BY <2>1, <2>2, <2>3, SameRows DEF U!OwnAccount, U!EntryIsRow
\* A request ends, and nothing else happens.
<1>2. ASSUME NEW r \in Requests, req' = [req EXCEPT ![r] = U!Idle],
             UNCHANGED <<users, info, sessions>>, faults' \in 0 .. MaxFaults
      PROVE  UsersInv'
  <2>1. req' \in [Requests -> Doing]
    BY <1>2 DEF UsersShape, Doing
  <2>2. TokenIsOwn'
    BY <1>2, SameRows DEF TokenIsOwn, UsersShape, U!Idle
  <2> QED
    BY <1>2, <2>1, <2>2, SameRows DEF UsersShape, U!OwnAccount, U!EntryIsRow
\* A first login goes on to create the account.
<1>13. ASSUME NEW r \in Requests, U!To(r, "create"), req[r].at = "find",
              req[r].login # "password", UNCHANGED <<users, info, faults, sessions>>
       PROVE  UsersInv'
  <2>1. req[r] \in [at : {"find"}, who : People, login : U!Logins]
    BY <1>13 DEF UsersShape, Doing, U!Idle
  <2>2. [req[r] EXCEPT !.at = "create"]
           \in [at : {"create", "again"}, who : People, login : {"sms", "wechat"}]
    BY <1>13, <2>1 DEF U!Logins
  <2>3. req' = [req EXCEPT ![r] = [req[r] EXCEPT !.at = "create"]]
    BY <1>13 DEF U!To
  <2>4. UsersShape'
    BY <1>13, <2>2, <2>3 DEF UsersShape, Doing
  <2>5. TokenIsOwn'
    BY <1>13, <2>2, <2>3, SameRows DEF TokenIsOwn, UsersShape
  <2> QED
    BY <1>13, <2>4, <2>5, SameRows DEF U!OwnAccount, U!EntryIsRow
\* A lookup gives the id of the account.
<1>3. ASSUME NEW r \in Requests, NEW i \in U!Found(req[r].who, req[r].login),
             req[r].at \in {"find", "again"}, UNCHANGED <<users, info, faults, sessions>>,
             req' = [req EXCEPT ![r] = [at |-> "token", who |-> @.who, login |-> @.login, id |-> i]]
      PROVE  UsersInv'
  <2>1. req[r].who \in People /\ req[r].login \in U!Logins
    BY <1>3 DEF UsersShape, Doing, U!Idle, U!Logins
  <2>2. U!Found(req[r].who, req[r].login) = {i}
    BY <2>1, FoundOne
  <2>3. i \in U!Ids
    BY <2>1 DEF U!Found, U!FindByPhone, U!FindByWechat, U!FindByEmail, U!Rows, U!Logins
  <2>4. req'[r] = [at |-> "token", who |-> req[r].who, login |-> req[r].login, id |-> i]
        /\ \A q \in Requests : q # r => req'[q] = req[q]
    BY <1>3 DEF UsersShape
  <2>5. req' \in [Requests -> Doing]
    BY <1>3, <2>1, <2>3 DEF UsersShape, Doing
  <2>6. TokenIsOwn'
    BY <1>3, <2>2, <2>4, SameRows DEF TokenIsOwn
  <2> QED
    BY <1>3, <2>5, <2>6, SameRows DEF UsersShape, U!OwnAccount, U!EntryIsRow
<1>4. ASSUME NEW r \in Requests, U!Fault(r) PROVE UsersInv'
  <2>1. faults' \in 0 .. MaxFaults
    BY <1>4, UsersAssumption DEF U!Fault, UsersShape, U!Parameters
  <2>2. req' = [req EXCEPT ![r] = U!Idle] /\ UNCHANGED <<users, info, sessions>>
    BY <1>4 DEF U!Fault
  <2> QED
    BY <1>2, <2>1, <2>2
<1>5. ASSUME NEW r \in Requests, U!Find(r) PROVE UsersInv'
  <2> DEFINE ids == U!Found(req[r].who, req[r].login)
  <2>1. req[r].at = "find" /\ UNCHANGED <<users, info, faults, sessions>>
    BY <1>5 DEF U!Find
  <2>2. faults' \in 0 .. MaxFaults
    BY <2>1 DEF UsersShape
  <2>3. \/ \E i \in ids : req' = [req EXCEPT ![r] =
               [at |-> "token", who |-> @.who, login |-> @.login, id |-> i]]
        \/ req[r].login # "password" /\ U!To(r, "create")
        \/ req' = [req EXCEPT ![r] = U!Idle]
    BY <1>5 DEF U!Find
  <2> QED
    BY <1>2, <1>3, <1>13, <2>1, <2>2, <2>3
<1>6. ASSUME NEW r \in Requests, U!Again(r) PROVE UsersInv'
  <2> DEFINE ids == U!Found(req[r].who, req[r].login)
  <2>1. req[r].at = "again" /\ UNCHANGED <<users, info, faults, sessions>>
    BY <1>6 DEF U!Again
  <2>2. faults' \in 0 .. MaxFaults
    BY <2>1 DEF UsersShape
  <2>3. \/ \E i \in ids : req' = [req EXCEPT ![r] =
               [at |-> "token", who |-> @.who, login |-> @.login, id |-> i]]
        \/ req' = [req EXCEPT ![r] = U!Idle]
    BY <1>6 DEF U!Again
  <2> QED
    BY <1>2, <1>3, <2>1, <2>2, <2>3
<1>7. ASSUME NEW u \in U!User, U!Insert(u), UNCHANGED <<info, faults, sessions>>,
             req' \in [Requests -> Doing],
             \A r \in Requests : req'[r].at = "token" => req'[r] = req[r]
      PROVE  UsersInv'
  <2>1. /\ users' \in [U!Ids -> U!User \cup {None}]
        /\ Unique' /\ U!EntryIsRow'
    BY <1>7, InsertKeeps
  <2>2. \A p \in People, l \in U!Logins, i \in U!Ids :
           U!Found(p, l) = {i} => U!Found(p, l)' = {i}
    BY <1>7, InsertKeeps
  <2>3. U!OwnAccount'
    BY <1>7, <2>2 DEF U!OwnAccount, UsersShape
  <2>4. TokenIsOwn'
    <3>1. ASSUME NEW r \in Requests, req'[r].at = "token"
          PROVE  (U!Found(req[r].who, req[r].login) = {req[r].id})'
      <4>1. req'[r] = req[r]
        BY <1>7, <3>1
      <4>2. req[r] \in [at : {"token"}, who : People, login : U!Logins, id : U!Ids]
        BY <3>1, <4>1 DEF UsersShape, Doing, U!Idle
      <4>3. U!Found(req[r].who, req[r].login) = {req[r].id}
        BY <3>1, <4>1 DEF TokenIsOwn
      <4>4. PICK w \in People, l \in U!Logins, d \in U!Ids :
              req[r].who = w /\ req[r].login = l /\ req[r].id = d
        BY <4>2
      <4>5. U!Found(w, l)' = {d}
        BY <2>2, <4>3, <4>4
      <4> QED
        BY <4>1, <4>4, <4>5
    <3> QED
      BY <3>1 DEF TokenIsOwn
  <2> QED
    BY <1>7, <2>1, <2>3, <2>4 DEF UsersShape
<1>8. ASSUME NEW r \in Requests, U!Create(r) PROVE UsersInv'
  <2> DEFINE u == U!NewUser(req[r].who, req[r].login)
  <2>1. req[r] \in [at : {"create", "again"}, who : People, login : {"sms", "wechat"}]
    BY <1>8 DEF U!Create, UsersShape, Doing, U!Idle
  <2>2. u \in U!User
    BY <2>1, NewUserType DEF U!Logins
  <2>3. CASE U!Insert(u) /\ U!To(r, "again")
    <3>1. [req[r] EXCEPT !.at = "again"] \in Doing
      BY <2>1 DEF Doing
    <3>2. req' \in [Requests -> Doing]
      BY <2>3, <3>1 DEF U!To, UsersShape
    <3>3. \A q \in Requests : req'[q].at = "token" => req'[q] = req[q]
      BY <2>1, <2>3 DEF U!To, UsersShape
    <3> QED
      BY <1>7, <1>8, <2>2, <2>3, <3>2, <3>3 DEF U!Create
  <2>4. CASE U!Clashes(u) /\ req' = [req EXCEPT ![r] = U!Idle] /\ UNCHANGED users
    <3>1. UNCHANGED <<users, info, sessions>> /\ faults' \in 0 .. MaxFaults
      BY <1>8, <2>4 DEF U!Create, UsersShape
    <3> QED
      BY <1>2, <2>4, <3>1
  <2> QED
    BY <1>8, <2>3, <2>4 DEF U!Create
<1>9. ASSUME NEW r \in Requests, U!SetLoginToken(r) PROVE UsersInv'
  <2>1. req[r] \in [at : {"token"}, who : People, login : U!Logins, id : U!Ids]
    BY <1>9 DEF U!SetLoginToken, UsersShape, Doing, U!Idle
  <2>2. U!Found(req[r].who, req[r].login) = {req[r].id}
    BY <1>9 DEF U!SetLoginToken, TokenIsOwn
  <2> DEFINE s == [who |-> req[r].who, login |-> req[r].login, id |-> req[r].id]
  <2>3. s \in [who : People, login : U!Logins, id : U!Ids]
    BY <2>1
  <2>4. sessions' = sessions \cup {s} /\ UNCHANGED <<users, info, faults>>
        /\ req' = [req EXCEPT ![r] = U!Idle]
    BY <1>9 DEF U!SetLoginToken
  <2>5. UsersShape'
    BY <2>3, <2>4 DEF UsersShape, Doing
  <2>6. U!OwnAccount'
    BY <2>2, <2>4, SameRows DEF U!OwnAccount
  <2>7. TokenIsOwn'
    BY <2>4, SameRows DEF TokenIsOwn, UsersShape, U!Idle
  <2> QED
    BY <2>4, <2>5, <2>6, <2>7, SameRows DEF U!EntryIsRow
<1>10. ASSUME NEW p \in People, U!SignUp(p) PROVE UsersInv'
  <2>1. [U!NoUser EXCEPT !.email = p] \in U!User
    BY DEF U!NoUser, U!User
  <2> QED
    BY <1>7, <1>10, <2>1 DEF U!SignUp, UsersShape
\* The entry of redis is filled from the row, or dropped.
<1>11. ASSUME NEW a \in U!Ids, U!FindById(a) \/ U!Expire(a) PROVE UsersInv'
  <2>1. UNCHANGED <<users, req, faults, sessions>>
    BY <1>11 DEF U!FindById, U!Expire
  <2>2. \/ \E i \in U!Rows : info' = [info EXCEPT ![i] = users[i]]
        \/ info' = [info EXCEPT ![a] = None]
        \/ info' = info
    BY <1>11 DEF U!FindById, U!Expire, U!Entry
  <2>3. UsersShape' /\ U!EntryIsRow'
    BY <2>1, <2>2 DEF UsersShape, U!EntryIsRow, U!Rows
  <2> QED
    BY <2>1, <2>3, SameRows DEF TokenIsOwn, U!OwnAccount
<1>12. CASE UNCHANGED U!vars
  BY <1>12, SameRows DEF U!vars, UsersShape, TokenIsOwn, U!OwnAccount, U!EntryIsRow
<1> QED
  BY <1>1, <1>4, <1>5, <1>6, <1>8, <1>9, <1>10, <1>11, <1>12 DEF U!Next

LEMMA SameCardinality == \A S : U!Cardinality(S) = Cardinality(S)
BY DEF U!Cardinality, Cardinality, U!IsFiniteSet, IsFiniteSet

\* At most one account has the email of a person.
LEMMA OneEmail ==
  ASSUME UsersShape, Unique, NEW p \in People
  PROVE  U!Cardinality(U!FindByEmail(p)) <= 1
<1>1. U!Found(p, "password") = U!FindByEmail(p)
  BY DEF U!Found
<1>2. \A i \in U!FindByEmail(p) : U!FindByEmail(p) = {i}
  BY <1>1, FoundOne DEF U!Logins
<1>3. U!FindByEmail(p) = {} \/ \E i : U!FindByEmail(p) = {i}
  BY <1>2
<1>4. Cardinality({}) = 0 /\ \A i : Cardinality({i}) = 1
  BY FS_EmptySet, FS_Singleton
<1>5. U!Cardinality(U!FindByEmail(p)) \in {0, 1}
  BY <1>3, <1>4, SameCardinality
<1> QED
  BY <1>5

\* Whatever is created in between, in whatever order and with whatever failing, a
\* token is for the account of the person who has logged in, and no two accounts
\* share an email, a phone or a WeChat id.
THEOREM AccountTheorem == U!Spec => []AccountInv
<1>1. UsersInv /\ [U!Next]_(U!vars) => UsersInv'
  BY UsersStep
<1>2. UsersInv => AccountInv
  <2> SUFFICES ASSUME UsersInv PROVE U!TypeOK /\ U!OwnAccount
    BY DEF AccountInv, U!AccountInv
  <2>1. \A r \in Requests : req[r].at \in {"idle", "find", "create", "again", "token"}
    BY DEF UsersInv, UsersShape, Doing, U!Idle
  <2>2. \A i, j \in U!Rows : i # j => users[i].phone = None \/ users[i].phone # users[j].phone
    BY DEF UsersInv, Unique
  <2>3. \A p \in People : U!Cardinality(U!FindByEmail(p)) <= 1
    BY OneEmail DEF UsersInv
  <2>4. UsersShape /\ U!OwnAccount
    BY DEF UsersInv
  <2> QED
    BY <2>1, <2>2, <2>3, <2>4 DEF UsersShape, U!TypeOK
<1> QED
  BY InitUsersInv, <1>1, <1>2, PTL DEF U!Spec

\* An entry of redis is the row of its id, although no query asks for that id.
THEOREM EntryTheorem == U!Spec => []EntryIsRow
<1>1. UsersInv /\ [U!Next]_(U!vars) => UsersInv'
  BY UsersStep
<1>2. UsersInv => EntryIsRow
  BY DEF UsersInv, EntryIsRow
<1> QED
  BY InitUsersInv, <1>1, <1>2, PTL DEF U!Spec

-----------------------------------------------------------------------------
(* Limiter. *)

\* While the scripts run in order, the sorted set is what has been admitted since the
\* window of the newest of them began, however late redis drops it.
LimiterShape ==
  /\ clock \in L!Times /\ newest \in L!Times /\ expiry \in Nat /\ inOrder \in BOOLEAN
  /\ taken \in [Calls -> L!Times \cup {None}]
  /\ passed \cup limited \subseteq {r \in Calls : taken[r] # None}
  /\ log \subseteq L!Admitted

LogIsWindow ==
  /\ \A r \in Calls : taken[r] # None => taken[r] <= clock
  /\ newest <= clock /\ expiry <= clock + Window
  /\ \A t \in L!Admitted : t + Window <= expiry
  /\ inOrder => L!Within(log, newest) = L!Within(L!Admitted, newest)

LimiterInv == LimiterShape /\ LogIsWindow /\ L!WindowInv

LEMMA CardinalityInLimiter == \A S : L!Cardinality(S) = Cardinality(S)
BY DEF L!Cardinality, Cardinality, L!IsFiniteSet, IsFiniteSet

\* A subset of a set of times is finite and not larger.
LEMMA FewerTimes ==
  ASSUME NEW S, NEW T, S \subseteq T, T \subseteq L!Times
  PROVE  /\ IsFiniteSet(S) /\ IsFiniteSet(T)
         /\ Cardinality(S) \in Nat /\ Cardinality(T) \in Nat /\ Cardinality(S) <= Cardinality(T)
<1>1. IsFiniteSet(L!Times)
  BY FS_Interval, LimiterAssumption DEF L!Times, L!Parameters
<1>2. IsFiniteSet(T)
  BY <1>1, FS_Subset
<1>3. IsFiniteSet(S) /\ Cardinality(S) <= Cardinality(T)
  BY <1>2, FS_Subset
<1> QED
  BY <1>2, <1>3, FS_CardinalityType

\* What has been let through has a time.
LEMMA AdmittedTimes == LimiterShape => L!Admitted \subseteq L!Times
BY DEF LimiterShape, L!Admitted

\* The milliseconds of the requests let through change only with these.
LEMMA AdmittedStays ==
  ASSUME LimiterShape, passed' = passed, \A q \in passed : taken'[q] = taken[q]
  PROVE  L!Admitted' = L!Admitted
BY DEF L!Admitted

LEMMA InitLimiterInv == L!Init => LimiterInv
<1> SUFFICES ASSUME L!Init PROVE LimiterInv
  OBVIOUS
<1> USE LimiterAssumption DEF L!Parameters, L!Init, L!Times
<1>0. L!Admitted = {}
  BY DEF L!Admitted
<1>1. LimiterShape /\ LogIsWindow
  BY <1>0 DEF LimiterShape, LogIsWindow, L!Within
<1>2. L!RejectionIsEarned
  BY DEF L!RejectionIsEarned
<1>3. L!WithinRate
  <2>1. \A t \in L!Times : L!Within(L!Admitted, t) \intersect (0 .. t) = {}
    BY <1>0 DEF L!Within
  <2>2. L!Cardinality({}) = 0
    BY CardinalityInLimiter, FS_EmptySet
  <2> QED
    BY <2>1, <2>2 DEF L!WithinRate
<1> QED
  BY <1>1, <1>2, <1>3 DEF LimiterInv, L!WindowInv

\* A script that is not overtaken counts what has been admitted in its window.
LEMMA InOrderCounts ==
  ASSUME LimiterInv, inOrder, NEW now \in L!Times, now >= newest
  PROVE  L!Within(log, now) = L!Within(L!Admitted, now)
<1> USE LimiterAssumption DEF L!Parameters, L!Times
<1>0. /\ clock \in 0 .. MaxTime /\ newest \in 0 .. MaxTime /\ expiry \in Nat
      /\ inOrder \in BOOLEAN /\ taken \in [Calls -> 0 .. MaxTime \cup {None}]
      /\ log \subseteq L!Admitted /\ L!Admitted \subseteq 0 .. MaxTime
  BY AdmittedTimes DEF LimiterInv, LimiterShape
<1>1. L!Within(log, newest) = L!Within(L!Admitted, newest)
  BY DEF LimiterInv, LogIsWindow
<1>2. \A t \in L!Admitted : t > now - Window => t > newest - Window
  BY <1>0
<1>3. \A t \in L!Admitted : t > now - Window => t \in log
  BY <1>1, <1>2 DEF L!Within
<1> QED
  BY <1>0, <1>3 DEF L!Within

\* The step of a script that lets the request through.
LEMMA AdmitStep ==
  ASSUME LimiterInv, NEW r \in Calls, L!Script(r),
         ~L!Full(L!Within(log, taken[r]))
  PROVE  LogIsWindow' /\ L!WindowInv' /\ LimiterShape'
<1> DEFINE now  == taken[r]
           kept == L!Within(log, now)
<1> USE LimiterAssumption DEF L!Parameters, L!Times
<1>0. /\ clock \in 0 .. MaxTime /\ newest \in 0 .. MaxTime /\ expiry \in Nat
      /\ inOrder \in BOOLEAN /\ taken \in [Calls -> 0 .. MaxTime \cup {None}]
      /\ log \subseteq L!Admitted /\ L!Admitted \subseteq 0 .. MaxTime
  BY AdmittedTimes DEF LimiterInv, LimiterShape
<1>1. /\ now \in L!Times /\ now <= clock
      /\ log' = kept \cup {now} /\ expiry' = clock + Window
      /\ passed' = passed \cup {r} /\ UNCHANGED <<limited, clock, taken>>
      /\ inOrder' = (inOrder /\ now >= newest)
      /\ newest' = IF now > newest THEN now ELSE newest
  BY DEF L!Script, L!Admit, L!UnderWay, LimiterInv, LimiterShape, LogIsWindow
<1>9. L!Admitted' = L!Admitted \cup {now}
  BY <1>1 DEF L!Admitted
<1>2. kept \subseteq log /\ kept \subseteq L!Admitted
  BY DEF L!Within, LimiterInv, LimiterShape
<1>3. LimiterShape'
  <2>1. newest' \in 0 .. MaxTime /\ expiry' \in Nat /\ clock' \in 0 .. MaxTime
    BY <1>0, <1>1
  <2>2. inOrder' \in BOOLEAN
    BY <1>1
  <2>3. log' \subseteq L!Admitted'
    BY <1>0, <1>1, <1>2, <1>9
  <2>4. /\ taken' \in [Calls -> 0 .. MaxTime \cup {None}]
        /\ passed' \cup limited' \subseteq {q \in Calls : taken'[q] # None}
    BY <1>0, <1>1 DEF L!Script, L!UnderWay, LimiterInv, LimiterShape
  <2> QED
    BY <1>0, <1>1, <2>1, <2>2, <2>3, <2>4 DEF LimiterShape
<1>4. inOrder' => kept = L!Within(L!Admitted, now) /\ newest' = now
  <2> SUFFICES ASSUME inOrder' PROVE kept = L!Within(L!Admitted, now) /\ newest' = now
    OBVIOUS
  <2>1. inOrder /\ now >= newest
    BY <1>1
  <2> QED
    BY <1>0, <1>1, <2>1, InOrderCounts
<1>5. LogIsWindow'
  <2>1. \A q \in Calls : taken'[q] # None => taken'[q] <= clock'
    BY <1>1 DEF LimiterInv, LimiterShape, LogIsWindow
  <2>2. newest' <= clock' /\ expiry' <= clock' + Window /\ \A t \in L!Admitted' : t + Window <= expiry'
    BY <1>0, <1>1, <1>9 DEF LimiterInv, LogIsWindow
  <2>3. inOrder' => L!Within(log, newest)' = L!Within(L!Admitted, newest)'
    BY <1>1, <1>4, <1>9 DEF L!Within
  <2> QED
    BY <2>1, <2>2, <2>3 DEF LogIsWindow
<1>6. Cardinality(kept \cup {now}) <= Rate
  <2>1. Cardinality(kept) < Rate /\ Cardinality(kept) \in Nat /\ IsFiniteSet(kept)
    <3>1. Cardinality(kept) \in Nat /\ IsFiniteSet(kept)
      BY <1>0, <1>2, FewerTimes
    <3>2. ~(Cardinality(kept) >= Rate)
      BY CardinalityInLimiter DEF L!Full
    <3> QED
      BY <3>1, <3>2
  <2> QED
    BY <2>1, FS_AddElement
<1>7. L!WithinRate'
  <2> SUFFICES ASSUME inOrder', NEW t \in L!Times
               PROVE  Cardinality(L!Within(L!Admitted', t) \intersect (0 .. t)) <= Rate
    BY CardinalityInLimiter DEF L!WithinRate
  <2> DEFINE window == L!Within(L!Admitted', t) \intersect (0 .. t)
  <2>1. CASE t < now
    <3>1. window = L!Within(L!Admitted, t) \intersect (0 .. t)
      BY <1>0, <1>1, <1>9, <2>1 DEF L!Within
    <3>2. inOrder
      BY <1>1
    <3> QED
      BY <3>1, <3>2, CardinalityInLimiter DEF LimiterInv, L!WindowInv, L!WithinRate
  <2>2. CASE t >= now
    <3>1. window \subseteq kept \cup {now}
      BY <1>0, <1>1, <1>4, <1>9, <2>2 DEF L!Within
    <3>2. kept \cup {now} \subseteq L!Times
      BY <1>0, <1>1, <1>2
    <3> QED
      BY <1>6, <3>1, <3>2, FewerTimes
  <2> QED
    BY <1>1, <2>1, <2>2
<1>8. L!RejectionIsEarned'
  <2> SUFFICES ASSUME NEW q \in limited
               PROVE  Cardinality(L!Within(L!Admitted', taken[q])) >= Rate
    BY <1>1, CardinalityInLimiter DEF L!RejectionIsEarned, L!Within
  <2>1. L!Within(L!Admitted, taken[q]) \subseteq L!Within(L!Admitted', taken[q])
        /\ L!Within(L!Admitted', taken[q]) \subseteq L!Times
    BY <1>0, <1>1, <1>9 DEF L!Within
  <2>2. Cardinality(L!Within(L!Admitted, taken[q])) >= Rate
    BY CardinalityInLimiter DEF LimiterInv, L!WindowInv, L!RejectionIsEarned
  <2> QED
    BY <2>1, <2>2, FewerTimes
<1> QED
  BY <1>3, <1>5, <1>7, <1>8 DEF L!WindowInv

\* The step of a script that turns the request away.
LEMMA RejectStep ==
  ASSUME LimiterInv, NEW r \in Calls, L!Script(r),
         L!Full(L!Within(log, taken[r]))
  PROVE  LogIsWindow' /\ L!WindowInv' /\ LimiterShape'
<1> DEFINE now  == taken[r]
           kept == L!Within(log, now)
<1> USE LimiterAssumption DEF L!Parameters, L!Times
<1>0. /\ clock \in 0 .. MaxTime /\ newest \in 0 .. MaxTime /\ expiry \in Nat
      /\ inOrder \in BOOLEAN /\ taken \in [Calls -> 0 .. MaxTime \cup {None}]
      /\ log \subseteq L!Admitted /\ L!Admitted \subseteq 0 .. MaxTime
  BY AdmittedTimes DEF LimiterInv, LimiterShape
<1>1. /\ now \in L!Times /\ now <= clock
      /\ log' = kept /\ limited' = limited \cup {r}
      /\ UNCHANGED <<expiry, passed, clock, taken>>
      /\ inOrder' = (inOrder /\ now >= newest)
      /\ newest' = IF now > newest THEN now ELSE newest
  BY DEF L!Script, L!Reject, L!UnderWay, LimiterInv, LimiterShape, LogIsWindow
<1>7. L!Admitted' = L!Admitted
  BY <1>1, AdmittedStays DEF LimiterInv
<1>2. kept \subseteq log /\ kept \subseteq L!Within(L!Admitted, now)
      /\ L!Within(L!Admitted, now) \subseteq L!Times
  BY <1>0 DEF L!Within
<1>3. LimiterShape'
  <2>1. newest' \in 0 .. MaxTime /\ log' \subseteq L!Admitted'
    BY <1>0, <1>1, <1>2, <1>7
  <2>2. /\ inOrder' \in BOOLEAN /\ taken' \in [Calls -> 0 .. MaxTime \cup {None}]
        /\ passed' \cup limited' \subseteq {q \in Calls : taken'[q] # None}
    BY <1>0, <1>1 DEF L!Script, L!UnderWay, LimiterInv, LimiterShape
  <2> QED
    BY <1>0, <1>1, <2>1, <2>2 DEF LimiterShape
<1>4. LogIsWindow'
  <2>1. \A q \in Calls : taken'[q] # None => taken'[q] <= clock'
    BY <1>1 DEF LimiterInv, LimiterShape, LogIsWindow
  <2>2. newest' <= clock' /\ expiry' <= clock' + Window /\ \A t \in L!Admitted' : t + Window <= expiry'
    BY <1>0, <1>1, <1>7 DEF LimiterInv, LogIsWindow
  <2>3. ASSUME inOrder' PROVE L!Within(log, newest)' = L!Within(L!Admitted, newest)'
    <3>1. inOrder /\ now >= newest
      BY <1>1, <2>3
    <3>2. newest' = now
      BY <1>0, <1>1, <3>1
    <3>3. kept = L!Within(L!Admitted, now)
      BY <1>1, <3>1, InOrderCounts
    <3> QED
      BY <1>1, <1>7, <3>2, <3>3 DEF L!Within
  <2> QED
    BY <2>1, <2>2, <2>3 DEF LogIsWindow
<1>5. L!WithinRate'
  BY <1>1, <1>7 DEF LimiterInv, L!WindowInv, L!WithinRate, L!Within
<1>6. L!RejectionIsEarned'
  <2>1. Cardinality(kept) >= Rate
    BY CardinalityInLimiter DEF L!Full
  <2>2. Cardinality(L!Within(L!Admitted, now)) >= Rate
    BY <1>2, <2>1, FewerTimes
  <2>3. \A q \in limited : Cardinality(L!Within(L!Admitted, taken[q])) >= Rate
    BY CardinalityInLimiter DEF LimiterInv, L!WindowInv, L!RejectionIsEarned
  <2> QED
    BY <1>1, <1>7, <2>2, <2>3, CardinalityInLimiter DEF L!RejectionIsEarned, L!Within
<1> QED
  BY <1>3, <1>4, <1>5, <1>6 DEF L!WindowInv

LEMMA LimiterStep ==
  ASSUME LimiterInv, [L!Next]_(L!vars)
  PROVE  LimiterInv'
<1> USE LimiterAssumption DEF L!Parameters, L!Times
<1>1. ASSUME UNCHANGED <<passed, limited>>, inOrder' => inOrder,
             \A q \in passed \cup limited : taken'[q] = taken[q]
      PROVE  L!WindowInv'
  <2>1. L!Admitted' = L!Admitted
    BY <1>1, AdmittedStays DEF LimiterInv
  <2> QED
    BY <1>1, <2>1 DEF LimiterInv, L!WindowInv, L!WithinRate, L!RejectionIsEarned, L!Within
<1>0. /\ clock \in 0 .. MaxTime /\ newest \in 0 .. MaxTime /\ expiry \in Nat
      /\ inOrder \in BOOLEAN /\ taken \in [Calls -> 0 .. MaxTime \cup {None}]
      /\ log \subseteq L!Admitted /\ L!Admitted \subseteq 0 .. MaxTime
  BY AdmittedTimes DEF LimiterInv, LimiterShape
<1>2. CASE L!Tick
  <2>2. L!Admitted' = L!Admitted
    BY <1>2, AdmittedStays DEF L!Tick, LimiterInv
  <2>1. LimiterShape' /\ LogIsWindow'
    BY <1>2, <2>2 DEF L!Tick, LimiterInv, LimiterShape, LogIsWindow, L!Within
  <2> QED
    BY <1>1, <1>2, <2>1 DEF L!Tick, LimiterInv
<1>3. CASE L!Expire
  <2>1. /\ log' = {} /\ newest' = clock /\ clock >= expiry
        /\ UNCHANGED <<clock, taken, expiry, passed, inOrder, limited>>
    BY <1>3 DEF L!Expire
  <2>5. L!Admitted' = L!Admitted
    BY <2>1, AdmittedStays DEF LimiterInv
  <2>2. L!Within(L!Admitted, clock) = {}
    <3>1. \A t \in L!Admitted : t + Window <= expiry
      BY DEF LimiterInv, LogIsWindow
    <3>2. \A t \in L!Admitted : ~(t > clock - Window)
      BY <1>0, <2>1, <3>1
    <3> QED
      BY <3>2 DEF L!Within
  <2>3. LimiterShape'
    BY <2>1, <2>5 DEF LimiterInv, LimiterShape
  <2>4. LogIsWindow'
    BY <2>1, <2>2, <2>5 DEF LimiterInv, LimiterShape, LogIsWindow, L!Within
  <2> QED
    BY <1>1, <2>1, <2>3, <2>4 DEF LimiterInv
<1>4. ASSUME NEW r \in Calls, L!Limit(r) \/ L!Lose(r) PROVE LimiterInv'
  <2>1. /\ UNCHANGED <<clock, log, expiry, passed, newest, inOrder, limited>>
        /\ r \notin passed \cup limited
        /\ \E t \in {clock, None} : taken' = [taken EXCEPT ![r] = t]
    BY <1>4 DEF L!Limit, L!Lose, L!UnderWay, LimiterInv, LimiterShape
  <2>6. \A q \in passed \cup limited : taken'[q] = taken[q]
    BY <1>0, <2>1 DEF LimiterInv, LimiterShape
  <2>7. L!Admitted' = L!Admitted
    BY <2>1, <2>6, AdmittedStays DEF LimiterInv
  <2>2. /\ taken' \in [Calls -> 0 .. MaxTime \cup {None}]
        /\ \A q \in Calls : taken'[q] # None => taken'[q] = taken[q] \/ taken'[q] = clock
    BY <1>0, <2>1
  <2>3. LimiterShape'
    BY <1>0, <2>1, <2>2, <2>6, <2>7 DEF LimiterInv, LimiterShape
  <2>4. \A q \in Calls : taken'[q] # None => taken'[q] <= clock'
    BY <1>0, <2>1, <2>2 DEF LimiterInv, LogIsWindow
  <2>5. LogIsWindow'
    BY <2>1, <2>4, <2>7 DEF LimiterInv, LogIsWindow, L!Within
  <2> QED
    BY <1>1, <2>1, <2>3, <2>5, <2>6 DEF LimiterInv
<1>5. ASSUME NEW r \in Calls, L!Script(r) PROVE LimiterInv'
  BY <1>5, AdmitStep, RejectStep DEF LimiterInv
<1>6. CASE UNCHANGED L!vars
  <2>1. L!Admitted' = L!Admitted
    BY <1>6, AdmittedStays DEF L!vars, LimiterInv
  <2> QED
    BY <1>1, <1>6, <2>1 DEF L!vars, LimiterInv, LimiterShape, LogIsWindow, L!Within
<1> QED
  BY <1>2, <1>3, <1>4, <1>5, <1>6 DEF L!Next

\* For every rate, window and number of requests: in order, no window has more than
\* Rate milliseconds in which requests were let through; in any order, none is turned
\* away before its window has had as many.
THEOREM WindowTheorem == L!Spec => []WindowInv
<1>1. LimiterInv /\ [L!Next]_(L!vars) => LimiterInv'
  BY LimiterStep
<1>2. LimiterInv => WindowInv
  BY DEF LimiterInv, WindowInv
<1> QED
  BY InitLimiterInv, <1>1, <1>2, PTL DEF L!Spec
=============================================================================
