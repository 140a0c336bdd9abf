SPECIFICATION Spec
CONSTANTS
  Log <- MCLog
  Cut <- MCCut
  MaxAttempts = 3
  TimeBudgets = {"total"}
  RetryValues = {0, 5}
  HintValues = {0, 4}
  PolicyDelays = {0}
  ServerCap = 3
PROPERTIES
  CursorIsAWrittenId
CHECK_DEADLOCK FALSE
