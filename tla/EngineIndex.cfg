CONSTANTS
  Requests = {r1, r2}
  Objects = {a, b}
  Modes = {TRUE}
  MaxSubs = 3
  Watched = {r1, r2}
  MaxClears = 1
  None = None
SPECIFICATION Spec
SYMMETRY Symmetry
INVARIANT DedupExclusive
CHECK_DEADLOCK FALSE
