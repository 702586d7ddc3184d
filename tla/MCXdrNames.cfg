SPECIFICATION CatalogSpec
CONSTANTS
  Answers <- MCAnswers
  Hosts <- MCHosts
  Filters <- MCFilters
  GaugeList <- MCGaugeList
  Miss = Miss
INVARIANTS
  NamedByLevel
