SPECIFICATION Spec
CONSTANTS
  r1 = r1
  r2 = r2
  w1 = w1
  w2 = w2
  Threads <- FourThreads
  Writers <- TwoWriters
INVARIANTS OnlyOneWriter
