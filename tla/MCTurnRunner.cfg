SPECIFICATION Spec
CONSTANTS
  MaxTurns = 2
  MaxCalls = 2
  MaxRounds = 1
  MaxWorkers = 1
  MaxCrashes = 1
  MaxFaults = 0
INVARIANTS TerminalTurnSettled EvidenceBacked LiveTurnHasRunner
PROPERTY NeverReexecuted
CHECK_DEADLOCK FALSE
