SPECIFICATION FairSpec
CONSTANTS
  NumClients = 3
  Workers = {w1, w2}
  WarmupReqs = 1
  MaxReqs = 1
  NumReqsToProcess = 3
  MaxQueued = 1
INVARIANTS
  FinishReachesAll
  WaitBounded
  RoiOnce
PROPERTY ServerEnds
