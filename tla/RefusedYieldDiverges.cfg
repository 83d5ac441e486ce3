SPECIFICATION Spec
CONSTANTS
  r = r
  x = x
  y = y
  z = z
  a = a
  b = b
  NoName = NoName
  Coroutine <- Flat
  Root = r
  Subtree <- FlatSubtree
  Name = {a, b}
  Definition <- OnlyCalls
  Outcomes = {"ok"}
  Refusable <- YieldsOfRoot
  StaleInputs = FALSE
  LivePolicy = FALSE
  BackendFails = FALSE
  MayStop = FALSE
  MayHalt = FALSE
  MaxRuns = 2
INVARIANT NeverDiverges
CHECK_DEADLOCK FALSE
