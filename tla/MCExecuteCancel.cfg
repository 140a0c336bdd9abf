SPECIFICATION Spec
CONSTANTS
  MaxAttempts = 3
  HasBudget = TRUE
  Kinds = {"Timeout", "Fatal", "Cancelled"}
  RetryOn = {"Timeout", "Cancelled"}
  Interceptors = 2
  Clients <- MCClients
  Templates <- MCTemplates
PROPERTIES
  CancellationCheckedBeforeSend
CHECK_DEADLOCK FALSE
