\* text, thinking and parallel calls in any order
SPECIFICATION Spec
CONSTANTS
  a = a
  b = b
  Char <- MCChar
  Chunks <- MixedChunks
  Turn <- PoliteTurn
  MaxChunks = 4
  LateErrors = FALSE
INVARIANTS
  TypeOK
  ItemsBracketed
  TextCarried
  ArgsReachTheirCall
  VerdictHonest
  UsageCarried
PROPERTIES
  ImplementsTurn
CHECK_DEADLOCK FALSE
