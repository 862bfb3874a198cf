SPECIFICATION FairSpec
CONSTANTS
  Threads = {t1, t2, t3}
  WarmupReqs = 2
  MaxReqs = 3
  NumReqsToProcess = 4
INVARIANTS
  StartupOrder
  FindsRequest
  SampleAccounting
  LatsWithinThreads
  StartedOverrun
PROPERTIES
  Finishes
  ImplementsMeasurement
