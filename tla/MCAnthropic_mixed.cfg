\* every channel, usage report and way to end a turn, in any order
SPECIFICATION Spec
CONSTANTS
  a = a
  b = b
  Char <- MCChar
  StopSeqs <- NoStop
  Chunks <- MixedChunks
  Turn <- AnyTurn
  MaxChunks = 4
  LateErrors = FALSE
INVARIANTS
  TypeOK
  BlocksBracketed
  OneTerminal
  OrderKept
  ArgsWithoutHoles
  UsageSurvives
PROPERTIES
  ImplementsTurn
CHECK_DEADLOCK FALSE
