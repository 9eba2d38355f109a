CONSTANTS
  Users = {u1, u2}
  Requests = {r1}
  NoUser = NoUser
  OtherPerformers <- NoOthers
  Groups <- AnyGroup
  Flow <- AuditFlow
  NeedsPublishing = TRUE
  MaxTasks = 3
  MaxFaults = 0
SPECIFICATION Spec
SYMMETRY WorkflowSymmetry
INVARIANTS WorkflowTypeOK WaitingIsListed AnsweredIsClosed
CHECK_DEADLOCK FALSE
