SPECIFICATION Spec
CONSTANTS
  c1 = c1
  c2 = c2
  evt = evt
  None = None
  EventThread = evt
  Contexts <- TwoContexts
  FDs <- TwoFDs
  Masks <- ReadOnly
  kLastID = 10000000
  MaxID = 4
SYMMETRY Symmetry
INVARIANTS OnlyOpenIsPolled EventReachesOwner SelectIsNotDeaf
