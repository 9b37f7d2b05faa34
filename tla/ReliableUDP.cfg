SPECIFICATION Spec
CONSTANTS
  NumStreams = 2
  NumSeqs = 2
  Sizes <- LargeAndSmall
  AgeLimits <- LateOrNot
  MSS = 1
  WindowSize = 4
  WordSize = 16
  SlowStart = TRUE
  MinRTO = 1
  MaxRTO = 2
  AdjustGap = 0
  None = None
INVARIANTS TypeOK WindowAddsUp ListIsWhatWaits InFlightBounded
PROPERTIES BurstHalvesOnce WindowReopens
