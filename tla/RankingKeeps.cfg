\* One process and no fault: is the hot list computed again and again?
CONSTANTS
  Instances = {i1}
  Runs = {r1, r2}
  MaxLocks = 1
  MaxCrashes = 0
  Faults = {}
SPECIFICATION FairSpec
PROPERTY KeepsComputing
CHECK_DEADLOCK FALSE
