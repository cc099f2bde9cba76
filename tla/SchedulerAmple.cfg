SPECIFICATION Spec
CONSTANTS
  NumBlocks = 6
  BlockSize = 2
  MaxConcurrent = 2
  PromptLengths = {1, 2}
  NewTokens = {1, 3}
  MaxSubmit = 3
INVARIANT NeverCutShort
CHECK_DEADLOCK FALSE
