SPECIFICATION AccessSpec
CONSTANTS
  Names <- GrantNames
  Profiles <- SomeProfiles
  Requests <- SomeRequests
  MaxTime = 2
  Limit = 1
  MaxOther = 5
  Searches = {"s1", "s2"}
  Queries <- SomeQueries
  Contents <- Texts
  NL = "nl"
  Tree <- SmallTree
  MaxFiles = 4
  MaxDepth = 2
  MaxFileBytes = 5
  MaxScanBytes = 9
  MaxMatches = 5
  MaxOutput = 4
  Multiplier = 4
  Interval = 3
  SharedLimit = 42
  MaxRewrites = 1
INVARIANTS DecisionIsMeet MatchesExact SearchBounded
PROPERTIES  PatchAllOrNothing
CHECK_DEADLOCK FALSE
