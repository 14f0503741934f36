\* Two calls at a time, one edit, one death and one failed read of
\* the active version.
SPECIFICATION Spec
CONSTANTS
  v1 = v1  v2 = v2  file1 = file1  file2 = file2  m1 = m1  m2 = m2
  revenue = revenue  cost = cost
  Names = {v1, v2}
  Paths = {file1, file2}
  Contents = {m1, m2}
  Metrics = {revenue, cost}
  Definition <- MCDefinition
  Files <- MCFiles
  InitialDisk <- MCDisk
  Signers = {ann}
  Pcts = {50}
  Buckets = {0, 60}
  Ties = {TRUE, FALSE}
  Procs = {p1, p2}
  MaxLedger = 2
  MaxEdits = 1
  MaxFaults = 1
  MaxLost = 1
  None = None
SYMMETRY Alike
INVARIANTS LiveIsSigned SignaturesHold LedgerTruthful
CHECK_DEADLOCK FALSE
