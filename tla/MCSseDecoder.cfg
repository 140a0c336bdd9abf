CONSTANTS
  MaxWire = 5
  MaxLine = 2
  MaxFrame = 3
  Window = 2
  Wires <- MCWires
SPECIFICATION Spec
INVARIANTS
  TypeOK
  LinesAreExact
  RecordsFollowLines
  EndMatches
CHECK_DEADLOCK FALSE
