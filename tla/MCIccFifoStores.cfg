CONSTANTS
  FifoSize = 14
  HeaderSize = 4
  Alignment = 2
  MaxMsgs = 8
  MsgSizes <- const_MsgSizes
SPECIFICATION Spec
INVARIANTS
  Occupancy
  LoadsStayTrue
  HandedOverWhole
CHECK_DEADLOCK FALSE
