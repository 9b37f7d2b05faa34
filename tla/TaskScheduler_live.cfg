SPECIFICATION FairSpec
CONSTANTS
  t1 = t1
  t2 = t2
  short = short
  blocking = blocking
  s1 = s1
  s2 = s2
  None = None
  Tasks <- BothTasks
  TaskThreads <- BothThreads
  Signallers <- OneSignaller
  SignalEvents <- ReadOnly
  EventFlags <- Flags
  kIdleEvent = "idle"
  kAlive = "alive"
  Picker <- AnyThread
  DefaultThread <- NoDefault
  LockingTasks <- OneTask
  ServerStops = FALSE
PROPERTIES EventIsTaken
CHECK_DEADLOCK FALSE
