SPECIFICATION FairSpec
CONSTANTS
  Appends <- ThreeThenTwo
  MaxFaults = 2
INVARIANTS
  TypeOK
  ResolvedIsStored
PROPERTIES
  ZombieFenced
  FatalIsFinal
  AppendsSettle
CHECK_DEADLOCK FALSE
