SPECIFICATION Spec
CONSTANTS
  v1 = v1
  v2 = v2
  b1 = b1
  b2 = b2
  o1 = o1
  o2 = o2
  o3 = o3
  audio = audio
  video = video
  None = None
  Null = Null
  Viewers <- TwoViewers
  Broadcasters <- TwoBroadcasters
  Objects <- Addresses
  Streams <- TwoStreams
  AllowDuplicateBroadcasts = FALSE
  MaxStrays = 1
  MaxGave = 3
SYMMETRY Symmetry
INVARIANTS RefsAddUp NeededIsAlive OneSessionPerPath
CHECK_DEADLOCK FALSE
