SPECIFICATION FairSpec
CONSTANTS
  MaxIter = 3
  MaxFaults = 3
INVARIANTS
  ProfilesOwnThread
  CostIsOfItsParams
  EndsInOrder
  InterruptStops
PROPERTY SearchEnds
