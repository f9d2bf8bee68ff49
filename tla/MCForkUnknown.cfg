SPECIFICATION Spec
CONSTANTS
  MaxThreads = 2
  MaxLog = 9
  MaxTurns = 1
  MaxSteers = 0
CHECK_DEADLOCK FALSE
INVARIANT UnknownNeverFed
