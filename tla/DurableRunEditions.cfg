SPECIFICATION Spec
CONSTANTS
  r = r
  x = x
  y = y
  z = z
  a = a
  b = b
  NoName = NoName
  Coroutine <- Flat
  Root = r
  Subtree <- FlatSubtree
  Name = {a, b}
  Definition <- Editions
  Outcomes = {"ok", "err"}
  Refusable = {}
  StaleInputs = FALSE
  LivePolicy = FALSE
  BackendFails = FALSE
  MayStop = TRUE
  MayHalt = TRUE
  MaxRuns = 2
INVARIANTS
  TypeOK
  LeafFirst
  ClosedIsFinal
  AcceptedNeverErr
PROPERTIES
  ImplementsHistory
CHECK_DEADLOCK FALSE
