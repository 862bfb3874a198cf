SPECIFICATION FairSpec
CONSTANTS
  Threads = {t1, t2}
  Receivers = {r1, r2}
  Servers = {s1, s2}
  InFlightLimit = 0
  WarmupReqs = 1
  MaxReqs = 2
  NumReqsToProcess = 2
INVARIANTS
  InFlightOnce
  LatsExactInOrder
  InFlightBounded
PROPERTIES
  ClientFinishes
  ImplementsMeasurement
