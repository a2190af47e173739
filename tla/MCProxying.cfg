CONSTANTS
  c1 = c1
  c2 = c2
  c3 = c3
  c4 = c4
  c5 = c5
  c6 = c6
  NoMatch = NoMatch
  Configs <- MCConfigs
  Char <- MCChar
  Prefix <- MCPrefix
  Slash = "/"
  Paths <- MCPaths
  BasePaths <- MCBasePaths
  WsConfigs = {c2, c5}
  N = 4
  Parsed = {0, 1, 3}
  Callers = {p1, p2}
  Nobody = Nobody
  MaxMessages = 2
  Writers = {"gin", "recorder"}
  HeaderAccepted = TRUE
  PoolSize = 3
  CounterSize = 4
SPECIFICATION MCSpec
INVARIANTS
  TypeOK
  LookupCorrect
  TargetKeepsPathsApart
  NilMissesNobody
  NobodyStarves
  
  PoolMissesExplained
PROPERTIES
  SteadyIsPicked
\* A lookup and a WebSocket session end; each module models one.
CHECK_DEADLOCK FALSE
