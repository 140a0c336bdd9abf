SPECIFICATION Spec
CONSTANTS
  MaxRecords = 3
INVARIANTS
  StreamMeansItsPolicies
CHECK_DEADLOCK FALSE
