SPECIFICATION FairSpec
CONSTANTS
  PromptCapacity = 2
  Blank = {3}
  MaxPrompts = 5
  MaxTokens = 2
INVARIANTS
  TypeOK
  HandleOutlivesUse
  AnswerIsOfThisRound
  EveryRoundReported
  SingleTurn
  OneRoundAfterStop
PROPERTIES
  PromptLeavesQueue
  ImplementsLife
CHECK_DEADLOCK FALSE
