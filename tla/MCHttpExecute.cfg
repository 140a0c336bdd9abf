SPECIFICATION Spec
CONSTANTS
  MaxAttempts = 3
  HasBudget = TRUE
  Kinds = {"Timeout", "Fatal", "Cancelled"}
  RetryOn = {"Timeout", "Cancelled"}
  Interceptors = 2
  Clients <- MCClients
  Templates <- MCTemplates
INVARIANTS
  TypeOK
  RetriesAreJustified
  OnlyAdmittedFlowsRepeat
  ResponseCarriesToken
  EachAttemptSendsItsBody
  ReportsLastFailure
PROPERTIES
  Returns
CHECK_DEADLOCK FALSE
