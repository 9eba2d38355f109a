CONSTANTS
  Runs = {r1, r2}
  Files = {t, c}
  TemplateLinks = {t}
  DirFiles = {}
  ContextLinks = {c}
  TemplatePages = {}
  ContextPages = {}
  MaxVersion = 2
  MaxContexts = 1
  MaxActive = 2
  MaxFaults = 1
  MaxCrashes = 1
  Views = TRUE
  NoFile = NoFile
SPECIFICATION DistributionSpec
SYMMETRY RunSymmetry
INVARIANTS DistributionTypeOK StampBacked PublicationTakesEffect ForcedRunRepublishes
CHECK_DEADLOCK FALSE
