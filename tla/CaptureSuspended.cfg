SPECIFICATION FairSpec
CONSTANTS
  Channels = 1
  MaxChannels = 2
  Periods = {2}
  MaxErrors = 3
  MaxXruns = 1
  MaxChunks = 2
PROPERTIES
  StopReturns
CHECK_DEADLOCK FALSE
