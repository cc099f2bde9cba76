SPECIFICATION CallSpec
CONSTANTS
  MaxScore = 2
  SeqLens = {1, 4}
  Windows = {0, 2}
  Chunks = {0, 3}
  BlockSizes = {0, 2, 3}
  SplitCounts = {1, 2, 3}
  HardMasked = FALSE
  NumBlocks = 3
  BlockSize = 2
  KvHeads = 2
  HeadDim = 2
  QHeads = 4
  MaxSeq = 5
  SeqWindows = {0, 3}
  SeqChunks = {0, 2}
  MaxCalls = 3
  MaxNodes = 5
  MaxHistory = 2
  MaxLen = 5
  Freqs <- PairFreqs
  FreqScales = {1, 2, 3}
INVARIANTS
  FlashMatchesSdpa EachKeyOnce ChunksMatchPrefill PagedMatchesDense
  TreeMatchesPath PositionsRelative
CHECK_DEADLOCK FALSE
