SPECIFICATION FairSpec
CONSTANTS
  c1 = c1
  c2 = c2
  evt = evt
  None = None
  EventThread = evt
  Contexts <- OneContext
  FDs <- TwoFDs
  Masks <- ReadOrWrite
  kLastID = 3
  MaxID = 4
PROPERTIES ReadyIsSignalled RemovedIsClosed
