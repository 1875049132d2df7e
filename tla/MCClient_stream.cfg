\* every dialect, well-formed and broken bodies, cut anywhere
SPECIFICATION Spec
CONSTANTS
  a = a
  b = b
  Char <- MCChar
  Dialects <- AllDialects
  Events <- MCEvents
  MaxEvents = 5
INVARIANTS
  HonestEnd
  OnlyAcceptable
  ContentOnce
CHECK_DEADLOCK FALSE
