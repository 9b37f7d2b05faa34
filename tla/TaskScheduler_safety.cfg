SPECIFICATION Spec
CONSTANTS
  t1 = t1
  t2 = t2
  short = short
  blocking = blocking
  s1 = s1
  s2 = s2
  None = None
  Tasks <- BothTasks
  TaskThreads <- BothThreads
  Signallers <- TwoSignallers
  SignalEvents <- ReadOnly
  EventFlags <- Flags
  kIdleEvent = "idle"
  kAlive = "alive"
  Picker <- AnyThread
  DefaultThread <- T2Default
  LockingTasks <- BothTasks
  ServerStops = TRUE
INVARIANTS TypeOK ScheduledOnce DeletedIsNowhere NoStrandedEvent ForcedThreadHonoured FirstCallIsLocked LockedRunIsAlone
PROPERTIES KeepsContract
CHECK_DEADLOCK FALSE
