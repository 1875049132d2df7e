\* two stop sequences: one of them reaches the client
SPECIFICATION Spec
CONSTANTS
  a = a
  b = b
  Char <- MCChar
  StopSeqs <- TwoSeqs
  MaxDelta = 4
  MaxFed = 6
  MaxBlocks = 2
INVARIANTS
  NeverShown
CHECK_DEADLOCK FALSE
