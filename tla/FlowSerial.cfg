\* Two runs; calls overlap on different runs only; one dies, one statement fails.
SPECIFICATION Spec
CONSTANTS
  feed = feed  price = price  note = note  v1 = v1  v2 = v2  v3 = v3  nil = nil
  Runs = {r1, r2}
  Steps <- MCSteps
  Cells = {feed, price, note}
  Values = {v1, v2, v3, nil}
  NilText = nil
  Procs = {p1, p2}
  Overlap = FALSE
  World0 <- MCWorld
  MaxCalls = 4
  MaxFails = 1
  MaxFaults = 1
  Null = Null
  None = None
INVARIANTS TypeOK JournalTruthful GateKeeps StatusTellsEffects RollbackRestores
CHECK_DEADLOCK FALSE
