CONSTANTS
  FifoSize = 12
  HeaderSize = 4
  Alignment = 2
  Senders = {s1}
  Receivers = {r1}
  MsgSizes <- const_MsgSizes
  Timeouts <- const_Timeouts
  RxOps <- const_RxOps
  Polling = FALSE
  MaxSends = 3
SPECIFICATION Spec
INVARIANTS
  TimedWaitEnds
CHECK_DEADLOCK FALSE
