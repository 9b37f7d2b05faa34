SPECIFICATION Spec
CONSTANTS
  rtp = rtp
  rtcp = rtcp
  o1 = o1
  o2 = o2
  p1 = p1
  p2 = p2
  p3 = p3
  q1 = q1
  None = None
  Senders <- BothSenders
  RTPSender = rtp
  Outputs <- OneOutput
  Buffers <- RTPAndRTCP
  Preallocated <- OneEach
  Kinds <- KeyAndRest
  OverBuffer = 0
  RelocateAge = 1
  MaxAge = 1
  MaxArrived = 3
  Refused <- Reports
INVARIANTS PlaceIsKept AudioSkipsOnlyAged NothingTwice
