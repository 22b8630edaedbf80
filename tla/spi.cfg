SPECIFICATION Spec
CONSTANTS
  RxDepth = 2
  MaxWords = 3
  MaxCalls = 5
  MaxFaults = 3
INVARIANTS
  OwnSelection
  Lagged
  InOrder
PROPERTIES
  Delivered
CHECK_DEADLOCK FALSE
