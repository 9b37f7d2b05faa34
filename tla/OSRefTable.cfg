SPECIFICATION FairSpec
CONSTANTS
  th1 = th1
  th2 = th2
  th3 = th3
  r1 = r1
  r2 = r2
  k1 = k1
  k2 = k2
  None = None
  Threads <- ThreeThreads
  Refs <- TwoRefs
  Keys <- TwoKeys
INVARIANTS TypeOK HeldIsSafe FoundIsLive NoLostWakeup
PROPERTIES UnRegisterReturns
