\* The defaults of config.go:175-181: a refresh every 15 s, a push every 60 s.
SPECIFICATION OtelSpec
CONSTANTS
  Callers = {ticker}
  Ticker = ticker
  Sockets = {s1, s2}
  Idents = {i1}
  NoSocket = NoSocket
  NoReply = NoReply
  RETRY_COUNT = 3
  RequiresAuthentication = FALSE
  Modes = {"up"}
  Privileges = {"granted"}
  UserStatsConfigured = FALSE
  Legacy = {}
  Unversioned = {}
  RefreshesPerPush = 4
  MaxSettled = 4
PROPERTIES
  NoSpike
