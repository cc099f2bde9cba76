SPECIFICATION CallSpec
CONSTANTS
  Names = {s, t, u}
  Addresses = {a, b}
  Capacity = 12
  Align = 8
  Sizes = {0, 4}
  Values = {0, 1}
  Labels = {"gemm", "softmax"}
  Micro = 2
  MaxTime = 4
  MaxDepth = 2
  MaxCalls = 2
SYMMETRY Symmetry
INVARIANTS OneOwner ContentsKept EventsNest StatsConsistent StoredNearest ElementsTracked
CHECK_DEADLOCK FALSE
