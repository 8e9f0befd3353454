\* One instance without any fault: does the loop get to its next round?
CONSTANTS
  Instances = {i1}
  Jobs = {1}
  Registered = {1}
  Limit = 2
  MaxVersion = 2
  Faults = {}
SPECIFICATION Spec
INVARIANT NextRoundPossible
CHECK_DEADLOCK FALSE
