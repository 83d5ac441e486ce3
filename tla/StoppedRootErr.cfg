SPECIFICATION Spec
CONSTANTS
  r = r
  x = x
  y = y
  z = z
  a = a
  b = b
  NoName = NoName
  Coroutine <- Flat
  Root = r
  Subtree <- FlatSubtree
  Name = {a, b}
  Definition <- OnlyCalls
  Outcomes = {"ok"}
  Refusable <- ClosesOfRoot
  StaleInputs = FALSE
  LivePolicy = FALSE
  BackendFails = FALSE
  MayStop = TRUE
  MayHalt = FALSE
  MaxRuns = 1
INVARIANT AcceptedNeverErr
CHECK_DEADLOCK FALSE
