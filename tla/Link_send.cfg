CONSTANTS
  CtrMod = 9
  MaxSkip = 1
  Tasks = {t1, t2}
  EncStarts = {7, 9}
  DecStarts = {7}
  MaxReads = 2
  MaxSends = 3
  MaxNotifies = 0
  MaxBlocks = 2
  MaxAhead = 0
  Collisions = FALSE
SPECIFICATION FairSpec
INVARIANTS TypeOK NoKeystreamReuse WireInCounterOrder CrashOnlyAfterClose
PROPERTIES LockComesBack AlwaysClosed
CHECK_DEADLOCK FALSE
