\* one stop sequence, every division of the text into deltas
SPECIFICATION Spec
CONSTANTS
  a = a
  b = b
  Char <- MCChar
  StopSeqs <- OneSeq
  MaxDelta = 4
  MaxFed = 7
  MaxBlocks = 2
INVARIANTS
  TypeOK
  ExactCut
  NothingLost
  NoLeakBeforeFiring
CHECK_DEADLOCK FALSE
