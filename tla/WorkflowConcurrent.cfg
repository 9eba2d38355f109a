CONSTANTS
  Users = {u1, u2}
  Requests = {r1, r2}
  NoUser = NoUser
  OtherPerformers <- NoOthers
  Groups <- Everybody
  Flow <- AuditLoop
  NeedsPublishing = FALSE
  MaxTasks = 2
  MaxFaults = 1
SPECIFICATION Spec
SYMMETRY WorkflowSymmetry
INVARIANTS RejectedHasRework ReworkGoesBack
CHECK_DEADLOCK FALSE
