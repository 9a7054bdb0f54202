SPECIFICATION Spec
CONSTANTS
  Sizes <- SomeSizes
  Templates <- SomeTemplates
  DateLen = 4
  INT_MAX = 536870911
  Requests <- SomeRequests
INVARIANT
  RoomRespected
CHECK_DEADLOCK FALSE
