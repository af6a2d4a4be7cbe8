SPECIFICATION FairSpec
CONSTANTS
  ChunkCapacity = 2
  MaxChunks = 6
INVARIANTS
  TypeOK
  SpeechConserved
  CleanExit
  OneStartPerUtterance
PROPERTIES
  ImplementsLife
CHECK_DEADLOCK FALSE
