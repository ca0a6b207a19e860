CONSTANTS
  FifoSize = 12
  HeaderSize = 4
  Alignment = 4
  MsgSize = 1
  CounterRange = 3
  MaxInits = 3
  MaxEnds = 1
  MaxOpens = 2
  MaxSends = 3
SPECIFICATION Spec
INVARIANTS
  CallbackNeverWaits
  WakeupUnlessLate
  FinalizeReaches
CHECK_DEADLOCK FALSE
