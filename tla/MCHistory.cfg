SPECIFICATION HistorySpec
CONSTANTS
  MaxThreads = 3
  MaxLog = 9
  MaxTurns = 2
  MaxSteers = 1
  Threads = {t1, t2}
  Turns = {u1, u2}
  Invs = {i1}
INVARIANTS StatusTellsTruth InheritsSnapshot RequestsPaired SteersReachModel
SYMMETRY Symmetry
CHECK_DEADLOCK FALSE
