SPECIFICATION LatencySpec
CONSTANTS
  Namespaces = {"test"}
  Operations = {"read"}
  Rates = {100}
  Percents = {0, 37}
  MaxEntries = 3
  MaxBuckets = 2
  BucketCounts = {0, 1}
  None = None
CHECK_DEADLOCK FALSE
INVARIANTS
  LatencyTypeOK
  EntriesParsed
  BucketsCumulative
PROPERTIES
  ParserTerminates
