\* a turn relayed over one connection that may be cut
SPECIFICATION Spec
CONSTANTS
  a = a
  b = b
  Char <- MCChar
  Chunks <- MCChunks
  IncludeUsage = TRUE
  MaxChunks = 3
INVARIANTS
  RelayHonest
PROPERTIES
  ImplementsTurn
CHECK_DEADLOCK FALSE
