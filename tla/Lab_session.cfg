CONSTANTS
  MaxAsync = 2
  MaxFaults = 2
SPECIFICATION Spec
INVARIANTS TypeOK CountersUnique PairPrintsWhatHolds
CHECK_DEADLOCK FALSE
