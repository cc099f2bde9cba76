SPECIFICATION Spec
CONSTANTS
  NumBlocks = 3
  BlockSize = 2
  MaxConcurrent = 2
  PromptLengths = {1, 2}
  NewTokens = {0, 4}
  MaxSubmit = 3
INVARIANT GeneratedIsOwn
CHECK_DEADLOCK FALSE
