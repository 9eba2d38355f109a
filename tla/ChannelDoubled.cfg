CONSTANTS
  Channels = {c1, c2, c3}
  Root = Root
  None = None
  Admins = {a1}
  MaxOperations = 5
  MaxCaches = 2
  Reloads = "alone"
SPECIFICATION ChannelSpec
SYMMETRY ChannelSymmetry
INVARIANT ListsAreChildren
CHECK_DEADLOCK FALSE
