SPECIFICATION Spec
CONSTANTS
  ChunkCapacity = 2
  MaxChunks = 5
PROPERTIES
  DecodingMissesNoSpeech
CHECK_DEADLOCK FALSE
