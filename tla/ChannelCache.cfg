CONSTANTS
  Channels = {c1, c2, c3}
  Root = Root
  None = None
  Admins = {a1, a2}
  MaxOperations = 4
  MaxCaches = 2
  Reloads = "alone"
SPECIFICATION ChannelSpec
SYMMETRY ChannelSymmetry
INVARIANTS ChannelTypeOK CacheIsComplete ListsAreExact GhostsAreLeftovers
PROPERTY ReadsGoForward
CHECK_DEADLOCK FALSE
