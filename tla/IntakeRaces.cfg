\* Two calls overlap on a brain that refuses overtaken transactions.
SPECIFICATION Spec
CONSTANTS
  db = db  total = total  phone = phone  text = text  number = number
  i1 = i1  i2 = i2
  Ids = {i1, i2}
  Sources = {db}
  Columns = {total, phone}
  Targets <- MCTargets
  Types = {text, number}
  Numeric = {number}
  Keys = {phone}
  Personal = {phone}
  People = {ann}
  Procs = {p1, p2}
  Serial = TRUE
  Catalogue0 <- MCWithoutPhone
  MaxLedger = 4
  MaxAlters = 1
  MaxTampers = 1
  None = None
SYMMETRY Symmetry
INVARIANTS TypeOK GateHolds SignedAsRead InForceIsLastSigned LedgerReplays DraftKeepsPlan
PROPERTY SignedNeverEdited
CHECK_DEADLOCK FALSE
