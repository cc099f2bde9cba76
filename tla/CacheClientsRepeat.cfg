SPECIFICATION RepeatSpec
CONSTANTS
  NumBlocks = 3
  BlockSize = 2
  MaxLive = 2
  MaxHeld = 1
  MaxTable = 2
  MaxTokens = 4
INVARIANT FreeIffUnreferenced
