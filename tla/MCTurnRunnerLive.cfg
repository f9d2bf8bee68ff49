SPECIFICATION FairSpec
CONSTANTS
  MaxTurns = 2
  MaxCalls = 1
  MaxRounds = 2
  MaxWorkers = 1
  MaxCrashes = 1
  MaxFaults = 1
PROPERTIES TurnsEnd RestartRepairs ImplementsContract
CHECK_DEADLOCK FALSE
