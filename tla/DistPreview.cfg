CONSTANTS
  Runs = {r1, r2}
  Files = {t}
  TemplateLinks = {t}
  DirFiles = {}
  ContextLinks = {}
  TemplatePages = {}
  ContextPages = {}
  MaxVersion = 2
  MaxContexts = 1
  MaxActive = 1
  MaxFaults = 0
  MaxCrashes = 0
  Views = TRUE
  NoFile = NoFile
SPECIFICATION DistributionSpec
SYMMETRY RunSymmetry
INVARIANT StampIsLastPublication
CHECK_DEADLOCK FALSE
