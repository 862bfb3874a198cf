SPECIFICATION FairSpec
CONSTANT Configs <- MCConfigs
INVARIANTS
  CurveComplete
  MeasuredWithAtLeast
  CachePartition
  RoundBounded
PROPERTY CurveEventually
