SPECIFICATION FairSpec
CONSTANTS
  ChunkCapacity = 2
  PromptCapacity = 2
  DoneCapacity = 4
  MaxChunks = 1
PROPERTY ExitsByItself
CHECK_DEADLOCK FALSE
