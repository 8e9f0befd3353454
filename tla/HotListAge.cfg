\* Four articles in pages of two, a heap of two.
CONSTANTS
  LastId = 4
  BatchSize = 2
  Capacity = 2
  MaxScore = 1
  MaxChanges = 2
SPECIFICATION Spec
INVARIANTS
  NothingFreshIsLeft
