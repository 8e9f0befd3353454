\* Three callers, provider 0 dead, the other two may do anything; four connections;
\* two requests and their goroutines, one article, two authors, two texts; three validations.
CONSTANTS
  Callers = {c1, c2, c3}
  N = 3
  Threshold = 2
  Outcomes <- ZeroDead
  Weights <- Uneven
  MaxPicks = 6
  MaxMixed = 2
  Requests = {r1, r2}
  Users = {u1, u2}
  Texts = {x, y}
  MaxRows = 1
  MaxWrites = 4
  None = None
  MaxStarts = 3
SPECIFICATION MCSpec
INVARIANTS
  CountInv
  ChangesBounded
  SharesAreEven
  TablesInv
  ReadersSeeReleases
  StopsReach
PROPERTIES
  FailoverLeavesDead
  WrongEntriesEnd
CHECK_DEADLOCK FALSE
