\* Two consumers, batches of two, three messages, one loss, one failing statement; one
\* writer, two business objects, pages of two rows, two events.
CONSTANTS
  Consumers = {c1, c2}
  Articles = {a}
  Garbage = garbage
  None = none
  BatchSize = 2
  MaxLog = 3
  MaxLosses = 1
  MaxFailures = 1
  MaxStarts = 3
  Writers = {w1}
  Biz = {x, y}
  NoBiz = noBiz
  MaxEvents = 2
  MaxReports = 2
  MaxRows = 2
SPECIFICATION MCSpec
INVARIANTS
  CommittedIsSettled
  RepeatsAreLosses
PROPERTIES
  EventuallySettled
  FullPassEnds
CHECK_DEADLOCK FALSE
