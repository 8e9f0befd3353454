\* Two loops, two messages, every fault but a send of more than a minute; two
\* requests of two people, one failing statement; four calls of Limit in windows of 3 ms.
CONSTANTS
  Senders = {s1, s2}
  Messages = {1, 2}
  RetryMax = 2
  MaxAttempts = 3
  Faults = {"late", "db", "crash"}
  Requests = {r1, r2}
  People = {1, 2}
  Leading <- CrossedLeading
  MaxId = 2
  MaxFaults = 1
  None = None
  Calls = {l1, l2, l3, l4}
  Window = 3
  Rate = 2
  MaxTime = 4
SPECIFICATION MCSpec
INVARIANTS
  SenderInv
  SuccessWasSent
  CalmExactlyOnce
  AccountInv
  EntryIsRow
  WindowInv
PROPERTIES
  OutcomeStays
  CalmEventuallyDecided
  LoginByPhoneSucceeds
CHECK_DEADLOCK FALSE
