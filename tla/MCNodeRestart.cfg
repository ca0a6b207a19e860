CONSTANTS
  FifoSize = 3
  HeaderSize = 1
  Alignment = 1
  MsgSize = 1
  CounterRange = 3
  MaxEnds = 2
  MaxLives = 3
  MaxSends = 2
  MaxSwitches = 1
  PastOverrun = FALSE
SPECIFICATION Spec
CONSTRAINT FewChanges
INVARIANTS
  InOrder
  LostOnlyByRestart
  WaitersReleased
CHECK_DEADLOCK FALSE
