CONSTANTS
  MaxMessages = 1
  Writers = {"gin"}
  HeaderAccepted = TRUE
SPECIFICATION Spec
INVARIANT SessionEndsAlone
\* A session ends.
CHECK_DEADLOCK FALSE
