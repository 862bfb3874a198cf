SPECIFICATION FairSpec
CONSTANTS
  NumGroups = 3
  Switch = 10
  NumPhases = 65
  OtherWords = 3
  BufferRecords = 18
  MaxOthers = 2
INVARIANTS
  NeverStarves
  RowsBalanced
  NoSampleLost
  SignalsHaveRecords
PROPERTY Completes
