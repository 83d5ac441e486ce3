SPECIFICATION FairSpec
CONSTANT
  Turn = {t1, t2, t3, t4, t5}
INVARIANTS
  MutualExclusion
  NoStrandedFence
PROPERTIES
  FirstComeFirstServed
  EveryTurnIsServed
