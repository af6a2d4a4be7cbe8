SPECIFICATION FairSpec
CONSTANTS
  ChunkCapacity = 2
  PromptCapacity = 2
  DoneCapacity = 4
  MaxChunks = 4
INVARIANTS
  TypeOK
  ConsumersOutliveProducers
  HeardIsDecodedFirst
  ReturnsClean
  DoneNotMissed
PROPERTIES
  SignalEndsProgram
  EnginesUsedProperly
CHECK_DEADLOCK FALSE
