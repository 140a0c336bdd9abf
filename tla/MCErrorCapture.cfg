SPECIFICATION Spec
CONSTANTS
  PreviewLimit = 1
  RawLimit = 3
  ReadTimeout = 2
  MaxChunk = 3
  MaxBody = 5
  MaxClock = 5
  NoHint = NoHint
INVARIANTS
  TypeOK
  CompleteIsWhole
  RawIsLongestPrefix
  PreviewCutIsTrue
  DeadlineIsCumulative
CHECK_DEADLOCK FALSE
