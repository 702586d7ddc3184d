SPECIFICATION OtelFairSpec
CONSTANTS
  Callers = {ticker}
  Ticker = ticker
  Sockets = {s1, s2}
  Idents = {i1}
  NoSocket = NoSocket
  NoReply = NoReply
  RETRY_COUNT = 3
  RequiresAuthentication = FALSE
  Modes = {"up"}
  Privileges = {"granted"}
  UserStatsConfigured = FALSE
  Legacy = {}
  Unversioned = {}
  RefreshesPerPush = 1
  MaxSettled = 1
INVARIANTS
  OtelTypeOK
PROPERTIES
  DownIsReported
  NodeUpIsSent
