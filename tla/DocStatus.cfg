CONSTANTS
  Requests = {r1, r2}
  Objects = {a, b}
  Operators = {op1}
  MaxCrashes = 1
  None = None
SPECIFICATION DocSpec
SYMMETRY DocSymmetry
INVARIANTS DocTypeOK PublishedIsTrue RowMeansPublishing AloneIsRecoverable
CHECK_DEADLOCK FALSE
