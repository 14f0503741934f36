SPECIFICATION LandingSpec
CONSTANTS
  c1 = c1
  c2 = c2
  jan = jan
  Callers <- MCOneCaller
  Names <- MCNames
  Tables = {1, 2}
  Keys = {1}
  References <- MCReferences
  Batch <- MCNoBatch
  Start <- MCWithSales
  Target = 2
  Incomplete = {}
  PageSize = 1
  ChunkSize = 1
  MaxSource = 0
  MaxCalls = 2
  MaxFaults = 0
INVARIANT PromotionGoesThrough
CHECK_DEADLOCK FALSE
