CONSTANTS
  CtrMod = 7
  MaxSkip = 1
  Tasks = {}
  EncStarts = {7}
  DecStarts = {5, 7}
  MaxReads = 1
  MaxSends = 0
  MaxNotifies = 3
  MaxBlocks = 2
  MaxAhead = 2
  Collisions = TRUE
SPECIFICATION Spec
INVARIANTS RejectOnlyBeyondWindow DeafBeyondWindow GarbageOnlyAtGap
PROPERTIES ImplementsStream
CHECK_DEADLOCK FALSE
