\* Is a redacted column never read?  One call at a time; nothing else changes.
SPECIFICATION Spec
CONSTANTS
  db = db  total = total  phone = phone  text = text  number = number
  i1 = i1  i2 = i2
  Ids = {i1, i2}
  Sources = {db}
  Columns = {total, phone}
  Targets <- MCTargets
  Types = {text, number}
  Numeric = {number}
  Keys = {phone}
  Personal = {phone}
  People = {ann}
  Procs = {p1}
  Serial = TRUE
  Catalogue0 <- MCCatalogue
  MaxLedger = 4
  MaxAlters = 0
  MaxTampers = 0
  None = None
INVARIANT RedactedNotRead
CHECK_DEADLOCK FALSE
