SPECIFICATION Spec
CONSTANTS
  s1 = s1
  s2 = s2
  s3 = s3
  t1 = t1
  t2 = t2
  None = None
  Cookie = Cookie
  Threads <- TwoThreads
  Sessions <- ThreeSessions
SYMMETRY Symmetry
INVARIANTS OneReader OtherIsAlive NotSnarfedInUse CookieFindsTunnel
CHECK_DEADLOCK FALSE
