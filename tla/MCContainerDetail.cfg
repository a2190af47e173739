CONSTANTS
  None = None
  Ids = {a, b}
  MaxEffects = 2
  MaxFlips = 2
  Polls = {p1, p2}
SPECIFICATION FairSpec
INVARIANTS
  TypeOK
  FreshPageIsOwn
PROPERTIES
  StatsConverge
\* The user closes the page for the last time.
CHECK_DEADLOCK FALSE
