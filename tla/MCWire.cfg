SPECIFICATION Spec
CONSTANTS
  MAGIC <- ShortMagic
  QUERY = 1
  Queries <- SomeQueries
  Memories <- SomeMemories
  RESPONSE_BUF_SIZE = 4
  Bodies <- SomeBodies
  MaxRequests = 3
  MaxForwarded = 3
  Env <- Everything
INVARIANTS
  TypeOK
  WholeThenShut
  AnswerEndsInOwnReply
  StaysInside
\* A connection that is closed or undefined stays so.
CHECK_DEADLOCK FALSE
