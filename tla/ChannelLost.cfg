CONSTANTS
  Channels = {c1, c2, c3}
  Root = Root
  None = None
  Admins = {a1}
  MaxOperations = 3
  MaxCaches = 2
  Reloads = "alone"
SPECIFICATION ChannelSpec
SYMMETRY ChannelSymmetry
INVARIANT AllChannelsLoaded
CHECK_DEADLOCK FALSE
