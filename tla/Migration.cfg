\* Two writers, two business objects, batches of one: four events with all of them,
\* five events with one transaction and one report at a time and one key.
CONSTANTS
  Writers = {w1, w2}
  Biz = {a, b}
  NoBiz = none
  BatchSize = 1
  MaxEvents = 5
  WideEvents = 4
  MaxReports = 2
  MaxRows = 1
SYMMETRY Symmetry
SPECIFICATION MCSpec
INVARIANTS
  AuthorityInv
  PairAgrees
  FullPassRepairs
CHECK_DEADLOCK FALSE
