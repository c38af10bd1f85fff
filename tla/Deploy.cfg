SPECIFICATION FairSpec
CONSTANTS
  Delays <- MCDelays
  MaxHeight = 6
INVARIANTS
  TypeOK
  ReturnedMeansBuilt
CHECK_DEADLOCK FALSE
PROPERTY
  DeployReturns
