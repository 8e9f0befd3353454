\* One loop, one message, a provider that needs the whole second.
CONSTANTS
  Senders = {s1}
  Messages = {1}
  RetryMax = 3
  MaxAttempts = 5
  Faults = {"late"}
SPECIFICATION Spec
INVARIANT AttemptsBounded
CHECK_DEADLOCK FALSE
