\* One caller and two providers that may do anything: nothing interleaves.
CONSTANTS
  Callers = {c1}
  N = 2
  Threshold = 2
  Outcomes <- Flaky
SPECIFICATION MCSpec
PROPERTY SwitchIsEarned
CHECK_DEADLOCK FALSE
