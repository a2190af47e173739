CONSTANTS
  old = old
  new = new
  a = a
  b = b
  bad = bad
  Configs = {old, new}
  Urls = {a, b, bad}
  Parseable = {a, b}
  EndpointUrl <- MCEndpointUrl
  InitialConfigs <- MCInitial
  MaxCrashes = 1
  DbFails = TRUE
SPECIFICATION FairSpec
INVARIANTS
  TypeOK
  UnparsedNeverHealthy
  HistoryComplete
PROPERTIES
  RowsMoveOnlyForTwins
  MemoryConverges
