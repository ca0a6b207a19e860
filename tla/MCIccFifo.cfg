CONSTANTS
  FifoSize = 14
  HeaderSize = 4
  Alignment = 2
  MaxMsgs = 5
  PastEarly = FALSE
  MsgSizes <- const_MsgSizes
  RxBufSizes <- const_RxBufSizes
SPECIFICATION Spec
INVARIANTS
  TypeOK
  PendingRight
  UnreadIntact
  AtBoundary
  DeliveredInOrder
  CheckedReceive
  EmptyAccepts
  NextSizeRight
PROPERTIES
  ImplementsQueue
  FreeOnlyGrows
CHECK_DEADLOCK FALSE
