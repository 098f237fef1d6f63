CONSTANTS
  Ops <- OnlyStatus
  TimerCmds <- Highest
  MaxAsync = 1
  MaxFaults = 0
SPECIFICATION Spec
INVARIANTS DrainWaits
CHECK_DEADLOCK FALSE
