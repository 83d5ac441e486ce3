SPECIFICATION Spec
CONSTANTS
  r = r
  x = x
  y = y
  z = z
  a = a
  b = b
  NoName = NoName
  Coroutine <- Flat
  Root = r
  Subtree <- FlatSubtree
  Name = {a, b}
  Definition <- OneEdition
  Outcomes = {"ok"}
  Refusable = {}
  StaleInputs = FALSE
  LivePolicy = FALSE
  BackendFails = FALSE
  MayStop = FALSE
  MayHalt = TRUE
  MaxRuns = 2
INVARIANT ParkedIsCancellable
CHECK_DEADLOCK FALSE
