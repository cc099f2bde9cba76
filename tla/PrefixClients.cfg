SPECIFICATION Spec
CONSTANTS
  NumBlocks = 3
  BlockSize = 2
  Clients = {c1, c2}
  Prompts <- SharedPrompts
  MaxTick = 5
INVARIANTS ReferencesAccounted BitExact TreePruned PrefixesFresher
PROPERTY EvictsLeastRecent
