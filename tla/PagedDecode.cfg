SPECIFICATION DecodeSpec
CONSTANTS
  NumBlocks = 3
  BlockSize = 2
  KvHeads = 2
  HeadDim = 2
  QHeads = 2
  MaxScore = 0
  MaxConcurrent = 2
  PromptLengths = {1, 2}
  NewTokens = {1, 4}
  MaxSubmit = 3
INVARIANTS AttendsOwn CachedRowsKept
CHECK_DEADLOCK FALSE
