SPECIFICATION FairSpec
CONSTANTS
  MaxCalls = 3
  Configs = 2
  Natives = 2
  MaxOpens = 2
  MaxFaults = 1
INVARIANTS
  TypeOK
  StoppedMeansStopped
  OneContinuation
  ViewIsHistory
  ReopensUnlessForked
PROPERTIES
  StoppedCallsReturn
CHECK_DEADLOCK FALSE
