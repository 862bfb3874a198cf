SPECIFICATION Spec
CONSTANTS
  t1 = t1
  t2 = t2
  None = None
  Threads <- MCThreads
  Leader = t1
  Modes <- MCCounters
  NumPhases = 2
  MayExit = {}
  Outside = {}
  MaxPhases = 3
CHECK_DEADLOCK FALSE
INVARIANT DetachesAll
