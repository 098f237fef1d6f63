CONSTANTS
  Flows = {f1, f2}
  Timers = {t1, t2}
  NoTimer = NoTimer
  Entries <- TwoEntries
  MaxKeys = 3
  MaxEdits = 1
SPECIFICATION Spec
INVARIANTS TypeOK OneEntryPerTimer SavedAnswers HubFollowsEntry
PROPERTIES SharedKeyStable NoDeviceLost
SYMMETRY Symmetry
CHECK_DEADLOCK FALSE
