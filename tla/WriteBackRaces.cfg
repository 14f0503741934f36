\* Two calls at a time, one of which may die; two proposals over two rows.
SPECIFICATION Spec
CONSTANTS
  k1 = k1  k2 = k2  a = a  b = b  ann = ann  bob = bob
  Principals = {ann, bob}
  Proposers = {ann, bob}
  Approvers = {bob, ann}
  Handlers = {h1, h2}
  Ids = {p1, p2}
  Keys = {k1, k2}
  Vals = {a, b}
  Changes <- MCTwoChanges
  InitialRows <- MCRows
  MaxAffected = 1
  MaxFaults = 1
  Absent = Absent
  Keep = Keep
  Nobody = Nobody
  NoId = NoId
  NoProposal = NoProposal
  Base = Base
  NoModel = NoModel
INVARIANTS DutiesSeparated TrailTellsTruth ModelKept
PROPERTY NeverPendingAgain
SYMMETRY Symmetry
CHECK_DEADLOCK FALSE
