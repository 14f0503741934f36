\* Two calls at a time, three in all; facts change, one statement fails.
SPECIFICATION ServedSpec
CONSTANTS
  north = north  south = south  dana = dana  eli = eli
  admin = admin  manager = manager 
  mia = mia   acme = acme  orderCount = orderCount  netRevenue = netRevenue
  Procs = {p1, p2}
  Orders <- MCOrders
  Orders0 <- MCOrders0
  Principals <- MCPrincipals
  Queries <- MCQueries
  RolesOf <- MCRolesOf
  Scoped = {manager}
  KAnonDims = {"customer"}
  KAnonExempt = {admin}
  K = 2
  Masked = {"customer"}
  Unmask = {admin}
  Budget = 2
  MaxCost = 2
  MaxWrites = 1
  MaxCalls = 3
  MaxFailures = 1
  MaxResets = 1
  All = All
  Blank = Blank
  None = None
  Api = Api
  TTL = 1
  MaxTime = 2
SYMMETRY Interchangeable
INVARIANTS OnlyEntitled AsFreshAsLabelled TrailCoversAnswers OvershootBounded
CHECK_DEADLOCK FALSE
