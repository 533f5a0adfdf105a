SPECIFICATION Spec
CONSTANTS
  Settings <- OrdinarySettings
  MaxLines = 7
  MaxSymbols = 2
INVARIANTS
  DistinctIds
CHECK_DEADLOCK FALSE
