SPECIFICATION Spec
CONSTANTS
  NumBlocks = 3
  BlockSize = 2
  MaxConcurrent = 2
  PromptLengths = {1, 2, 6}
  NewTokens = {0, 4}
  MaxSubmit = 3
INVARIANTS LifecycleConsistent BlocksPartitioned DecodeSlotReserved ViewCurrent
PROPERTIES ServiceRefined ServedUnlessBlocked
CHECK_DEADLOCK FALSE
