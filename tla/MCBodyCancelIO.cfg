SPECIFICATION Spec
CONSTANTS
  Limit = 2
  MaxChunk = 2
  MaxBody = 4
  NoHint = NoHint
  NoFailure = NoFailure
PROPERTIES
  CancellationPreventsReads
CHECK_DEADLOCK FALSE
