\* Two instances, two jobs with executors, no faults; two processes, two
\* overlapping firings of RankingJob on each, one crash.
CONSTANTS
  Instances = {i1, i2}
  Jobs = {1, 2}
  Registered = {1, 2}
  Limit = 1
  MaxVersion = 2
  Faults = {}
  Runs = {r1, r2}
  MaxLocks = 1
  MaxCrashes = 1
SPECIFICATION MCSpec
INVARIANT SoleComputer
PROPERTIES
  FiresOnce
  LeaseReturns
  LeaseIsRenewed
  Failover
CHECK_DEADLOCK FALSE
