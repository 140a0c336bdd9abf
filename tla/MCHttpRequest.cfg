SPECIFICATION Spec
CONSTANTS
  Options <- MCOptions
  Paths <- MCPaths
  Bases = {"b"}
  Typed = {"text", "json"}
  Boundaries = {1, 2}
  Injectors <- MCInjectors
  Timeouts = {1, 2}
  MaxEdits = 2
  MaxHelpers = 3
  MaxAttempts = 2
INVARIANTS
  TypeOK
  WireHeadersAreLayered
  WireUrlIsAllowed
  ContentTypeFitsBody
  OneDeadline
CHECK_DEADLOCK FALSE
