SPECIFICATION Spec
CONSTANTS
  ChunkCapacity = 2
  MaxChunks = 3
INVARIANTS
  StopLosesNothing
CHECK_DEADLOCK FALSE
