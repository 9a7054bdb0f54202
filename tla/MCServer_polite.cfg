SPECIFICATION FairSpec
CONSTANTS
  UpBytes = 1
  NGroups = 1
  SrvNum <- OneServer
  MaxConn = 3
  MaxReq = 3
  Env <- PoliteEvents
PROPERTIES
  ServesSession
