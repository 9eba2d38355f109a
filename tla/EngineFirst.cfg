CONSTANTS
  Requests = {r1}
  Objects = {a, b}
  Modes = {TRUE}
  MaxSubs = 2
  Watched = {r1}
  MaxClears = 0
  None = None
SPECIFICATION Spec
SYMMETRY Symmetry
INVARIANT PublishedOnce
CHECK_DEADLOCK FALSE
