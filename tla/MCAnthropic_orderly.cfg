\* a stop sequence cut into deltas, tool calls numbered the way OpenAI-style upstreams do
SPECIFICATION Spec
CONSTANTS
  a = a
  b = b
  Char <- MCChar
  StopSeqs <- StopAB
  Chunks <- OrderlyChunks
  Turn <- OrderlyTurn
  MaxChunks = 5
  LateErrors = FALSE
INVARIANTS
  FreshIndices
  TextSurvives
PROPERTIES
  FiringIsFinal
CHECK_DEADLOCK FALSE
