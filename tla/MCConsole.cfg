CONSTANTS
  None = None
  Ids = {a, b}
  Tabs = {t1, t2}
  Users = {u1, u2}
  Guest = Guest
  Closed = Closed
  Paths = {"/", "/container", "/container/v/:id", "/container/v/:other", "/login", "*"}
  Sections = {s1, s2}
  Absent = Absent
  N = 2
  Matching = {2}
  PageSize = 1
  Deletes = {d1, d2}
  MaxViews = 2
  MaxOutside = 1
  Calls = {c1, c2}
  MaxForms = 2
  Latencies = {12000000}
  MaxRows = 2
  MaxEffects = 2
  MaxLines = 2
  Past = 1
  MaxStreams = 2
  MaxToasts = 3
  TOAST_LIMIT = 1
  Searches = {{}, {2}, {1, 2}}
  PageSizes = {1, 2}
SPECIFICATION MCSpec
INVARIANTS
  TypesOK
  SessionHonest
  PreferencesKept
  ImagesCurrentAtRest
  NoSilentStaleness
  PagesShowTheirOwn
PROPERTIES
  PageRunsOffExplained
  TransientsGo
\* Nothing has to happen in a page: its server, its effects and its user may all
\* have come to an end.
CHECK_DEADLOCK FALSE
