SPECIFICATION LandingSpec
CONSTANTS
  c1 = c1
  c2 = c2
  jan = jan
  Callers <- MCCallers
  Names <- MCNames
  Tables = {1, 2}
  Keys = {1, 2, 3}
  References <- MCReferences
  Batch <- MCBatch
  Start <- MCProductsOnly
  Target = 2
  Incomplete = {2}
  PageSize = 1
  ChunkSize = 1
  MaxSource = 3
  MaxCalls = 3
  MaxFaults = 2
SYMMETRY MCSymmetry
INVARIANT NothingMissed
PROPERTIES PromotedAtOnce SweptCameLater
CHECK_DEADLOCK FALSE
