SPECIFICATION FairSpec
CONSTANTS
  r = r
  x = x
  y = y
  z = z
  a = a
  b = b
  NoName = NoName
  Coroutine <- Flat
  Root = r
  Subtree <- FlatSubtree
  Name = {a, b}
  Definition <- WithAndWithoutChildren
  Outcomes = {"ok", "err"}
  Refusable <- Everything
  StaleInputs = TRUE
  LivePolicy = TRUE
  BackendFails = TRUE
  MayStop = TRUE
  MayHalt = TRUE
  MaxRuns = 2
INVARIANTS
  SingleWriter
  ClosedIsFinal
  PersistBeforeResume
  RetainedIsJournaled
  AcceptedNeverOk
PROPERTIES
  FailStop
  ChildlessRunEnds
CHECK_DEADLOCK FALSE
