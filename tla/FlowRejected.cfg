\* One run, one call at a time; one statement fails.
SPECIFICATION Spec
CONSTANTS
  feed = feed  price = price  note = note  v1 = v1  v2 = v2  v3 = v3  nil = nil
  Runs = {r1}
  Steps <- MCSteps
  Cells = {feed, price, note}
  Values = {v1, v2, v3, nil}
  NilText = nil
  Procs = {p1}
  Overlap = FALSE
  World0 <- MCWorld
  MaxCalls = 4
  MaxFails = 1
  MaxFaults = 0
  Null = Null
  None = None
INVARIANT RejectedRunsNoMore
CHECK_DEADLOCK FALSE
