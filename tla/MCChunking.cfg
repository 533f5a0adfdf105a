SPECIFICATION FairSpec
CONSTANTS
  Settings <- SomeSettings
  MaxLines = 7
  MaxSymbols = 2
INVARIANTS
  ChunkTypeOK
  EveryLineKept
  WindowsAdvance
  NeighboursOverlap
  ChunksFit
PROPERTIES
  ChunkingEnds
CHECK_DEADLOCK FALSE
