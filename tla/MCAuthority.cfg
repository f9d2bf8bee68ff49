SPECIFICATION AuthoritySpec
CONSTANTS
  Tokens = {1, 2, 3}
  Turns = {0, 1}
  TurnOf <- OneTurn
  ReadOnly = {3}
  Patches = {1, 2}
  Replacement <- OwnContent
  Executors = {e1, e2}
  Nodes = {1, 2}
  Contents = {0, 1, 2}
  TTL = 2
  MaxStall = 2
  Capacity = 2
  MaxTime = 4
  Registries = {g1, g2}
  Proposals = {"c1"}
  Names <- Tree
  Tools <- ToolNames
  Kind <- ToolKind
  Template <- ToolTemplate
  MaxRelinks = 2
  Requests = {r1, r2, r3}
  Slots = 1
  MaxStray = 1
SYMMETRY Symmetry
CONSTRAINT PatchFocus
INVARIANTS SingleUse NoBlindOverwrite ExecutedAsJudged VerdictIsTheClients
CHECK_DEADLOCK FALSE
