SPECIFICATION Spec
CONSTANTS
  Paths = {p1, p2}
  Inodes = {i1, i2}
  Records = {w1}
  Jobs = {j1}
  None = None
INVARIANT OfferedOnlyUnderTrust
CHECK_DEADLOCK FALSE
