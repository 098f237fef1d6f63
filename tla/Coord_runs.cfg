CONSTANTS
  Gens <- Both
  Durations <- Short
  Settle = 1
  MidDelay = 1
  MaxTime = 4
  Budget <- Pairs
SPECIFICATION FairSpec
INVARIANTS TypeOK RunIsWatched LeakOnlyInFlight
PROPERTIES ViewSettles
CHECK_DEADLOCK FALSE
