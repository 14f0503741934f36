\* One call at a time and no call dies; three proposals over two rows.
SPECIFICATION FairSpec
CONSTANTS
  k1 = k1  k2 = k2  a = a  b = b  ann = ann  bob = bob
  Principals = {ann, bob}
  Proposers = {ann}
  Approvers = {bob}
  Handlers = {h1}
  Ids = {p1, p2, p3}
  Keys = {k1, k2}
  Vals = {a, b}
  Changes <- MCSwaps
  InitialRows <- MCRows
  MaxAffected = 1
  MaxFaults = 0
  Absent = Absent
  Keep = Keep
  Nobody = Nobody
  NoId = NoId
  NoProposal = NoProposal
  Base = Base
  NoModel = NoModel
INVARIANT StatusTellsEffect
PROPERTIES KeepsPromise NoLimbo
CHECK_DEADLOCK FALSE
