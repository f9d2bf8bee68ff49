SPECIFICATION ServingSpec
CONSTANTS
  Threads = {t1, t2}
  MaxSeq = 3
  Buffer = 2
  Page = 2
  MaxDrops = 1
  Requests = {r1, r2}
  Runs = {"c1", "c2"}
  Pids = {1, 2}
  MaxBytes = 2
  Limit = 1
INVARIANT ExactlyOnceInOrder
PROPERTIES CatchesUp EveryRequestAnswered EveryCallEnds
CHECK_DEADLOCK FALSE
