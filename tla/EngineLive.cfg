CONSTANTS
  Requests = {r1, r2}
  Objects = {a}
  Modes = {FALSE}
  MaxSubs = 1
  Watched = {}
  MaxClears = 0
  None = None
SPECIFICATION FairSpec
PROPERTY AcceptedRunsOrStalls
CHECK_DEADLOCK FALSE
