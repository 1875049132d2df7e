\* the real channel capacity and a stream that overfills it
SPECIFICATION LiveSpec
CONSTANTS
  CHUNK_FEED = 8
  MaxItems = 11
INVARIANTS
  Backpressure
  InWireOrder
  NoneIsTheEnd
PROPERTIES
  NextReturns
  DropAborts
CHECK_DEADLOCK FALSE
