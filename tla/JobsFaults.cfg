\* Two processes, two overlapping firings each, two locks each, every fault; four
\* articles in pages of two, a heap of two; a table of two jobs of which one has no
\* executor, every fault.
CONSTANTS
  Instances = {i1, i2}
  Runs = {r1, r2}
  MaxLocks = 2
  MaxCrashes = 1
  Faults = {"redis", "stall", "close"}
  LastId = 4
  BatchSize = 2
  Capacity = 2
  MaxScore = 1
  MaxChanges = 2
  Jobs = {1, 2}
  Registered = {1}
  Limit = 2
  MaxVersion = 2
  TableFaults = {"db", "crash", "ctx"}
SYMMETRY Symmetry
SPECIFICATION MCSpec
INVARIANTS
  LockInv
  ScanInv
  LeaseInv
  WithinLimit
PROPERTIES
  NotEarly
  LeaseSpec
CHECK_DEADLOCK FALSE
