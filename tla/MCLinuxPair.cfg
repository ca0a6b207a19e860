CONSTANTS
  Slots = 2
  MaxLoads = 2
  MaxStarts = 2
SPECIFICATION FairSpec
INVARIANTS
  PointersRight
  WindowRight
  HandshakeLeftOver
  NobodyAsleep
  TakeTurns
PROPERTY
  HandshakeTaken
CHECK_DEADLOCK FALSE
