\* Four calls of any kind about two ids, two seconds, a list of one.
CONSTANTS
  c1 = c1
  c2 = c2
  c3 = c3
  c4 = c4
  u1 = u1
  u2 = u2
  Call = {c1, c2, c3, c4}
  Id = {u1, u2}
  None = None
  Limit = 1
  MaxTime = 2
SPECIFICATION Spec
SYMMETRY Symmetry
INVARIANTS TypeOK DecisionIsWhole ConfirmedWritesStand PageShowsConfirmed
PROPERTIES ImplementsRegistry
CHECK_DEADLOCK FALSE
