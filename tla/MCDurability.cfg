SPECIFICATION DurabilitySpec
CONSTANTS
  Threads = {t1, t2}
  Home = t1
  Writers = {w1, w2}
  Commands = {c1}
  Digests = {d1, d2}
  Notes = {n1}
  MaxOrder = 9
  Putters <- TwoPutters
  Contents <- TwoContents
  Shard <- OneShard
  MaxFailures = 1
  Conns = {"c1", "c2"}
  Lines <- SomeLines
  MaxLine = 2
  MaxFill = 3
  MaxSent = 3
  MaxNotes = 1
  Procs <- ThreeProcesses
  Dirs <- TwoDirectories
  Free = "free"
INVARIANTS HistoryReplays PrefixSafe AckedIsStored CommandAppliedOnce
INVARIANTS StoredIsWhole AcceptedTurnRuns FramingInvisible ServingIsReachable
PROPERTY RecoversTheDeadOnly
CHECK_DEADLOCK FALSE
