SPECIFICATION FairSpec
CONSTANTS
  Jobs = {j1, j2}
  Slots = 1
INVARIANTS QuietAfterWait RecoveryBound NothingLeftOwned
PROPERTY ShutdownEnds
CHECK_DEADLOCK FALSE
