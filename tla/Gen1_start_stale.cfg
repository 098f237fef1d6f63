CONSTANTS
  Ops <- OnlyStart
  TimerCmds <- Highest
  MaxAsync = 0
  MaxFaults = 0
SPECIFICATION Spec
INVARIANTS StartIsConfirmed
CHECK_DEADLOCK FALSE
