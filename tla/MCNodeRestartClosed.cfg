CONSTANTS
  FifoSize = 3
  HeaderSize = 1
  Alignment = 1
  MsgSize = 1
  CounterRange = 3
  MaxEnds = 1
  MaxLives = 3
  MaxSends = 1
  MaxSwitches = 1
  PastOverrun = TRUE
SPECIFICATION FairSpec
PROPERTIES
  PendingReturns
CHECK_DEADLOCK FALSE
