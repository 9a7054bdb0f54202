SPECIFICATION Spec
CONSTANTS
  Sizes <- SomeSizes
  Templates <- SomeTemplates
  DateLen = 4
  INT_MAX = 536870911
  Requests <- SomeRequests
INVARIANTS
  TypeOK
  SentPageComplete
  FallsBackInOrder
  CurrentPageLinked
CHECK_DEADLOCK FALSE
