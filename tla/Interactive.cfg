\* Two callers, two users, batches of two, three writes; four comments, pages of two.
CONSTANTS
  Callers = {p1, p2}
  Users = {u1, u2}
  MaxBatch = 2
  MaxWrites = 3
  Faults = {"redis", "db"}
  MaxId = 4
  Limit = 2
  None = None
SPECIFICATION MCSpec
INVARIANTS
  CacheInv
  CountersAgree
  NoOrphans
  PagesAreComplete
PROPERTIES
  WrongCountersEnd
CHECK_DEADLOCK FALSE
