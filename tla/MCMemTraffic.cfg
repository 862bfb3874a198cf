SPECIFICATION TrafficSpec
CONSTANTS
  Max = 4
  MaxBurst = 4
  MaxTraffic = 17
INVARIANTS
  NeverOvercounts
  LostOnlyBetweenReads
