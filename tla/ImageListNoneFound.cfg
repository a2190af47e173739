CONSTANTS
  N = 2
  Matching = {2}
  PageSize = 1
  Deletes = {d1, d2}
  MaxViews = 1
  MaxOutside = 1
  None = None
SPECIFICATION Spec
INVARIANT NoneFoundIsTrue
CHECK_DEADLOCK FALSE
