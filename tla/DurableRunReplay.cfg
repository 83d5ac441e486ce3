SPECIFICATION FairSpec
CONSTANTS
  r = r
  x = x
  y = y
  z = z
  a = a
  b = b
  NoName = NoName
  Coroutine <- Nested
  Root = r
  Subtree <- NestedSubtree
  Name = {a, b}
  Definition <- NestedEdition
  Outcomes = {"ok", "err"}
  Refusable = {}
  StaleInputs = FALSE
  LivePolicy = FALSE
  BackendFails = TRUE
  MayStop = TRUE
  MayHalt = FALSE
  MaxRuns = 3
INVARIANTS
  LeafFirst
  ParkedIsCancellable
PROPERTIES
  OnlyHaltedDiverge
  RunEnds
