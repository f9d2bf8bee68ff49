SPECIFICATION Spec
CONSTANTS
  MaxTurns = 1
  MaxCalls = 1
  MaxRounds = 1
  MaxWorkers = 1
  MaxCrashes = 0
  MaxFaults = 0
PROPERTY InterruptEndsCancelled
CHECK_DEADLOCK FALSE
