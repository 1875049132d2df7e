\* a call named after text resumed reopens the index of the text block
SPECIFICATION Spec
CONSTANTS
  a = a
  b = b
  Char <- MCChar
  StopSeqs <- NoStop
  Chunks <- ToolChunks
  Turn <- AnyTurn
  MaxChunks = 4
  LateErrors = FALSE
INVARIANTS
  FreshIndices
CHECK_DEADLOCK FALSE
