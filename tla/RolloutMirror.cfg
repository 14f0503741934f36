\* One call of the registry at a time with Resync beside it, and one fault: a
\* call dies, or an access of the brain fails.  No canaries, no edits of files.
SPECIFICATION MirrorSpec
CONSTANTS
  v1 = v1  v2 = v2  file1 = file1  file2 = file2  m1 = m1  m2 = m2
  revenue = revenue  cost = cost
  Names = {v1, v2}
  Paths = {file1, file2}
  Contents = {m1, m2}
  Metrics = {revenue, cost}
  Definition <- MCDefinition
  Files <- MCFiles
  InitialDisk <- MCDisk
  Signers = {ann}
  Pcts = {}
  Buckets = {0, 60}
  Ties = {FALSE}
  Procs = {p1}
  Operator = op
  SameSecond = {TRUE, FALSE}
  MaxLedger = 4
  MaxEdits = 0
  MaxFaults = 1
  MaxLost = 0
  MaxResyncs = 1
  None = None
SYMMETRY Twins
INVARIANTS
  MirrorTypeOK BrainIsDerived NoDanglingEdges GapsAreKnown
  ActiveIsLedgered AtMostOneActive
CHECK_DEADLOCK FALSE
