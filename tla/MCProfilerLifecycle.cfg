SPECIFICATION FairSpec
CONSTANTS
  t1 = t1
  t2 = t2
  None = None
  Threads <- MCThreads
  Leader = t1
  Modes <- MCModes
  NumPhases = 2
  MayExit <- MCMayExit
  Outside <- MCOutside
  MaxPhases = 3
CHECK_DEADLOCK FALSE
INVARIANT LeftStoppedOnlyByCrash
INVARIANT ProfileSaved
INVARIANT ReturnsComplete
PROPERTY WindsDown
