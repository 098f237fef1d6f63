CONSTANTS
  Ops <- OnlyStatus
  TimerCmds <- Lowest
  MaxAsync = 2
  MaxFaults = 1
SPECIFICATION FairSpec
INVARIANTS AcksInOrder
PROPERTIES SessionEnds AcksSettle
CHECK_DEADLOCK FALSE
