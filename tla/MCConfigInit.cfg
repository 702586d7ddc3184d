SPECIFICATION CredentialsSpec
CONSTANTS
  Files <- MCFiles
  Lower <- MCLower
  Store <- MCStore
  Base64 <- MCBase64
  Pairs <- MCPairs
  Encrypted <- MCEncrypted
  CAs <- MCCAs
  Undefined = Undefined
  Nil = Nil
  Error = Error
INVARIANTS
  ConfigTypeOK
  UsableWhenReady
  NoListLost
  LabelsComplete
  PolicyComplete
CHECK_DEADLOCK FALSE
