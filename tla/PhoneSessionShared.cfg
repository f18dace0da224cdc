SPECIFICATION Spec
CONSTANTS
  c1 = c1
  c2 = c2
  i1 = i1
  i2 = i2
  None = None
  Conns = {c1, c2}
  CallIds = {i1}
  CallIdOf <- SharedCallId
  Endpoints = {"/phone/ws"}
  Monitors = {}
  Calls = {1}
  MaxTurns = 1
  MayCrash = FALSE
  InOrder = TRUE
INVARIANTS
  NothingLeft
SYMMETRY ConnSymmetry
CHECK_DEADLOCK FALSE
