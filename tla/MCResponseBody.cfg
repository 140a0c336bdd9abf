SPECIFICATION Spec
CONSTANTS
  Limit = 2
  MaxChunk = 2
  MaxBody = 4
  NoHint = NoHint
  NoFailure = NoFailure
INVARIANTS
  TypeOK
  SingleOwner
  FailureAnswersEveryRead
  CachedBodyIsComplete
  AggregationIsBounded
PROPERTIES
  CacheIsPermanent
  ReadReturns
  ImplementsReadOnce
CHECK_DEADLOCK FALSE
