CONSTANTS
  Flows = {f1, f2}
  Timers = {t1, t2}
  NoTimer = NoTimer
  Entries <- OneEntry
  MaxKeys = 3
  MaxEdits = 0
SPECIFICATION Spec
INVARIANT Gen2SharesKey
CHECK_DEADLOCK FALSE
