SPECIFICATION FairSpec
CONSTANTS
  Keys = {k1, k2}
  OutCap = 1
  MaxStarts = 3
  MaxResets = 1
INVARIANTS EndedOnce  PendingHasTimer
PROPERTY EventuallyReady
CHECK_DEADLOCK FALSE
