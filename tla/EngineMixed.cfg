CONSTANTS
  Requests = {r1, r2}
  Objects = {a, b}
  Modes = {TRUE, FALSE}
  MaxSubs = 1
  Watched = {r1, r2}
  MaxClears = 1
  None = None
SPECIFICATION Spec
SYMMETRY Symmetry
INVARIANTS TypeOK NoTaskLost NoTaskTwice IndexOwned SkipJustified
PROPERTY Lifecycle
CHECK_DEADLOCK FALSE
