SPECIFICATION FairDeviceSpec
CONSTANTS
  Channels = 1
  MaxChannels = 3
  Periods = {2, 3}
  MaxErrors = 3
  MaxXruns = 3
  MaxChunks = 3
INVARIANTS
  TypeOK
  ReadFitsBuffer
  PcmLifetime
  GivesUpLoudly
  ChunkIsItsRead
PROPERTIES
  ImplementsLife
CHECK_DEADLOCK FALSE
