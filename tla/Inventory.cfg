SPECIFICATION Spec
CONSTANTS
  MaxBatches = 2
  MaxLines = 2
  MaxQty = 2
  MaxShortfall = 2
INVARIANTS TypeOK UnitsAccountedFor LinesBacked DriftExplained
PROPERTIES FirstInFirstOut
CHECK_DEADLOCK FALSE
