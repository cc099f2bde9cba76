SPECIFICATION CallSpec
CONSTANTS
  Blocks = 16
  Run = 8192
  Products <- ExtremeProducts
  Tokens = 3
  Experts = 3
  Chosen = 2
  MaxScore = 4
  Rows = 1
  Dims = {0, 1, 3, 4}
  Ks = {0, 1, 2, 3, 4}
  Vocab = 4
  MaxLogit = 2
  InvTemps = {1, 2}
  TopKs = {0, 2}
  TopPs <- SomeTopPs
  MinPs <- SomeMinPs
  TypicalPs <- SomeTypicalPs
  Drift = 0
  Words = 3
  Drafts = 2
  Whole = 3
  Fine = 6
  Coarse = 3
INVARIANTS
  AccumulatorPrecise RoutingKeepsBest CombineExact TokenLaw QuantizationClose
  MatchesReference RecurrencesMatch
PROPERTY FiltersKeepBest
CHECK_DEADLOCK FALSE
