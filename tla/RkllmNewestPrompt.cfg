SPECIFICATION Spec
CONSTANTS
  PromptCapacity = 2
  Blank = {}
  MaxPrompts = 3
  MaxTokens = 1
PROPERTIES
  NewestPromptNext
CHECK_DEADLOCK FALSE
