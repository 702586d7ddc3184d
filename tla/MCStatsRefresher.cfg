SPECIFICATION StatsFairSpec
CONSTANTS
  Callers = {w1}
  Sockets = {s1, s2}
  Idents = {i1, i2, i3}
  NoSocket = NoSocket
  NoReply = NoReply
  RETRY_COUNT = 3
  RequiresAuthentication = TRUE
  Modes = {"up", "denying", "garbling", "hung"}
  Privileges = {"granted", "violation", "error"}
  UserStatsConfigured = TRUE
  Legacy = {i2}
  Unversioned = {i3}
INVARIANTS
  AeroTypeOK
  OneSocket
  AuthenticatedRequests
  InfoAnswersOrFails
  FailureNeedsFaults
  RoleViolationNotRetried
  FailedRefreshNeedsFaults
PROPERTIES
  NoNeedlessReconnect
  CallTerminates
  UserStatsStayOff
