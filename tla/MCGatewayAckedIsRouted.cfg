CONSTANTS
  old = old
  deep = deep
  twin = twin
  side = side
  q1 = q1
  q2 = q2
  Configs = {old, deep, twin}
  Requests = {q1, q2}
  NoMatch = NoMatch
  Checker = Checker
  Char <- MCChar
  Prefix <- MCPrefix
  PathOf <- MCPathOf
  InitialConfigs <- MCInitial
  MaxCrashes = 0
  DbFails = FALSE
SPECIFICATION Spec
INVARIANT AckedIsRouted
