CONSTANTS
  Stoppable <- const_Stoppable
  Shared = TRUE
  Capacity = 2
  ValRange = 2
  MaxRuns = 2
SPECIFICATION FairSpec
INVARIANTS
  NoFalseAlarm
  OldRunsDropped
  TimerCancelled
PROPERTY
  FinalizedRunEnds
CHECK_DEADLOCK FALSE
