SPECIFICATION ProcessorsFairSpec
CONSTANTS
  h1 = h1
  Namespaces = {n1, n2}
  Hists = {h1}
  ServiceHists = {g1}
  ReRepl = ReRepl
  Config <- MCConfig
  Absent = Absent
  NoMap = NoMap
  FETCH_INTERVAL = 1
INVARIANTS
  ProcessorsTypeOK
  NoNilMapWrite
  RequestsFollowConfig
PROPERTIES
  IndexPressureRecurs
