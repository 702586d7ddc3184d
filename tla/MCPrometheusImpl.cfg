SPECIFICATION PromFairSpec
CONSTANTS
  Callers = {r1, r2}
  Sockets = {s1, s2}
  Idents = {i1, i2}
  NoSocket = NoSocket
  NoReply = NoReply
  NoOne = NoOne
  NoAnswer = NoAnswer
  RETRY_COUNT = 3
  RequiresAuthentication = TRUE
  Modes = {"up"}
  Privileges = {"granted"}
  UserStatsConfigured = TRUE
  Legacy = {}
  Unversioned = {}
INVARIANTS
  PromTypeOK
  ScrapesSerialised
  LabelsMatchStats
PROPERTIES
  KeepsPromise
  EveryScrapeAnswered
