CONSTANTS
  Channels = {c1, c2, c3}
  Root = Root
  None = None
  Admins = {a1, a2}
  MaxOperations = 3
  MaxCaches = 2
  Reloads = "any"
SPECIFICATION ChannelSpec
SYMMETRY ChannelSymmetry
INVARIANT ReachableLoaded
CHECK_DEADLOCK FALSE
