CONSTANTS
  QueueSlots = 4
  MaxLives <- const_MaxLives
  MaxChanges <- const_MaxChanges
  PastDisturbance = FALSE
SPECIFICATION Spec
INVARIANTS
  NodesMeet
  EndsMeet
  ReportsCatchUp
CHECK_DEADLOCK FALSE
