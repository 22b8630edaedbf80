SPECIFICATION LiveSpec
CONSTANTS
  INT_PIT = INT_PIT
  INT_RESCH = INT_RESCH
  Vectors = {INT_PIT, INT_RESCH, nic, rtc}
  PicVectors = {rtc}
  MaxRaised = 4
  MaxCalls = 2
CHECK_DEADLOCK FALSE
INVARIANT NoneLost
INVARIANT NothingInService
INVARIANT TickPerCall
PROPERTY Delivered
