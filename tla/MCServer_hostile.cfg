SPECIFICATION Spec
CONSTANTS
  UpBytes = 1
  NGroups = 1
  SrvNum <- OneServer
  MaxConn = 3
  MaxReq = 3
  Env <- AllEvents
INVARIANTS
  TypeOK
  CloseAccounting
  FreedByLastClose
  CloseShape
  StatusTruthful
  CountersBalance
  SkewStarves
  AtMostOneAnswer
PROPERTIES
  WaitReconnectFinal
  FreedOnce
\* A fault has no continuation.
CHECK_DEADLOCK FALSE
