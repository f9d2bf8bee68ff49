SPECIFICATION ExecutionSpec
SYMMETRY Symmetry
CONSTANTS
  Paths = {p1, p2}
  Inodes = {i1, i2}
  Records = {w1, w2}
  Jobs = {j1}
  None = None
  Runs = {"c1", "c2"}
  Pids = {1, 2}
  MaxBytes = 2
  Limit = 1
INVARIANTS TrustIsBound OnlyOwnStruck OutcomeTrue
CHECK_DEADLOCK FALSE
