SPECIFICATION FairSpec
CONSTANTS
  s1 = s1
  s2 = s2
  s3 = s3
  t1 = t1
  t2 = t2
  None = None
  Cookie = Cookie
  Threads <- TwoThreads
  Sessions <- TwoSessions
PROPERTY TunnelIsRead
CHECK_DEADLOCK FALSE
