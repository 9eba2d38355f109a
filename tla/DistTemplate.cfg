CONSTANTS
  Runs = {r1}
  Files = {t, d}
  TemplateLinks = {t}
  DirFiles = {d}
  ContextLinks = {}
  TemplatePages = {}
  ContextPages = {}
  MaxVersion = 2
  MaxContexts = 2
  MaxActive = 1
  MaxFaults = 1
  MaxCrashes = 0
  Views = FALSE
  NoFile = NoFile
SPECIFICATION DistributionSpec
SYMMETRY RunSymmetry
INVARIANT IndexedIsDistributed
CHECK_DEADLOCK FALSE
