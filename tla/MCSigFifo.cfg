CONSTANTS
  MaxSignals = 3
  SignalBound = 7
SPECIFICATION FairSpec
INVARIANTS
  RecentKept
PROPERTY RecentDelivered
CHECK_DEADLOCK FALSE
