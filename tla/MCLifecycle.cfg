SPECIFICATION LifecycleFairSpec
CONSTANTS
  Scrapes = {r1, r2}
  MaxSignals = 2
  ExitDelay = 2
  ShutdownTimeout = 4
  WriteTimeout = 7
  FetchInterval = 3
  RefreshTimes = {0, 1, 3}
  PushTimes = {0, 1, 4}
INVARIANTS
  LifecycleTypeOK
  
  LastBatchUnlessLate
  NodeUpReturned
PROPERTIES
  SignalExits
CHECK_DEADLOCK FALSE
