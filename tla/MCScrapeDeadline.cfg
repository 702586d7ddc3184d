\* The times of configs/ape.toml: a refresh of a hung node is three attempts
\* of five seconds, an answer may take ten.
SPECIFICATION LifecycleSpec
CONSTANTS
  Scrapes = {r1}
  MaxSignals = 0
  ExitDelay = 1
  ShutdownTimeout = 10
  WriteTimeout = 10
  FetchInterval = 15
  RefreshTimes = {0, 15}
  PushTimes = {0}
INVARIANTS
  NodeUpReturned
CHECK_DEADLOCK FALSE
