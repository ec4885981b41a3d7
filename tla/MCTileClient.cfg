SPECIFICATION Spec
CONSTANTS
  Builds <- MCBuilds
  MaxSize = 3
  Chunk = 2
  Totals = {0, 1, 3, 4}
  Responses <- MCResponses
  None = None
INVARIANTS
  BufferIsBounded
  TooLargeIsFinal
  WaitIsBounded
PROPERTY
  ImplementsTileRequest
CHECK_DEADLOCK FALSE
