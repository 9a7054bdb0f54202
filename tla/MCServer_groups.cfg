SPECIFICATION Spec
CONSTANTS
  UpBytes = 1
  NGroups = 2
  SrvNum <- TwoGroups
  MaxConn = 2
  MaxReq = 2
  Env <- AllEvents
INVARIANTS
  GroupCounts
  FullGroupServes
\* A fault has no continuation.
CHECK_DEADLOCK FALSE
