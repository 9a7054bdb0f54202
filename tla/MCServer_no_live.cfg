SPECIFICATION Spec
CONSTANTS
  UpBytes = 1
  NGroups = 1
  SrvNum <- ThreeServers
  MaxConn = 2
  MaxReq = 2
  Env <- AllEvents
INVARIANTS
  NoLiveUpstreamLog
CHECK_DEADLOCK FALSE
