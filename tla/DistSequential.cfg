CONSTANTS
  Runs = {r1, r2}
  Files = {t, d, p}
  TemplateLinks = {t}
  DirFiles = {d}
  ContextLinks = {}
  TemplatePages = {p}
  ContextPages = {p}
  MaxVersion = 2
  MaxContexts = 2
  MaxActive = 1
  MaxFaults = 1
  MaxCrashes = 1
  Views = TRUE
  NoFile = NoFile
SPECIFICATION DistributionSpec
SYMMETRY RunSymmetry
INVARIANTS PublicationTakesEffect ForcedRunRepublishes
PROPERTY Mirrored
CHECK_DEADLOCK FALSE
