SPECIFICATION FairSpec
CONSTANTS
  Host = {h1, h2}
  Execution = {e1, e2}
  Nil = Nil
  MaxBegins = 2
  MaxFaults = 3
  Script <- TwoWaits
  Deliverer = {d1, d2}
INVARIANTS
  TypeOK
  LiveIsUnfinished
  HalvesAgree
  SuspendedAtOpenWait
  CloseBeatsCancel
  WorkspaceMatchesJournal
PROPERTIES
  CancelledIsFinal
  ImplementsWait
  DeliveredIsSpent
