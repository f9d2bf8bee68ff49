SPECIFICATION DecodingSpec
CONSTANTS
  Bodies <- ShortBodies
  Indices = {1, 2}
  MaxChunk = 5
  MaxBuffer = 9
  MaxCalls = 2
  MaxArgs = 2
  MaxRound = 3
  Letters = {a, b}
  Fields = {"i1", "i2"}
  Keys = {"c1", "c2"}
  KeysOf <- CallKeys
  MaxSecret = 3
  MaxField = 5
  MaxDelta = 2
  Limit = 3
SYMMETRY LetterSymmetry
INVARIANTS ChunkingInvisible AcceptedIsWhole RedactionExact
CHECK_DEADLOCK FALSE
