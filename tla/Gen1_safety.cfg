CONSTANTS
  Ops <- Operations
  TimerCmds <- Highest
  MaxAsync = 1
  MaxFaults = 2
SPECIFICATION Spec
INVARIANTS TypeOK StopEndsRun StopIsConfirmed AnsweredByOwn NoSpuriousTimeout StartEndsWatering NeverExhausted OnboardLearnsId
PROPERTIES AllocFresh ImplementsSession
CHECK_DEADLOCK FALSE
