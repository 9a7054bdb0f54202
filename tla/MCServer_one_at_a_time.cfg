SPECIFICATION FairSpec
CONSTANTS
  UpBytes = 1
  NGroups = 1
  SrvNum <- OneServer
  MaxConn = 3
  MaxReq = 3
  Env <- OneAtATime
INVARIANTS
  AnswersOwnRequest
PROPERTIES
  ClosingEnds
  RequestSettles
\* A fault has no continuation.
CHECK_DEADLOCK FALSE
