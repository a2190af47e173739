CONSTANTS
  None = None
  Containers = {c1, c2}
  Bulks = {b1, b2}
  MaxViews = 2
  MaxOutside = 1
SYMMETRY Symmetry
SPECIFICATION Spec
INVARIANTS
  TypeOK
  ListCurrentAtRest
  SpinnerHonest
  SelectionListed
\* The page is left for the last time and nothing is in flight.
CHECK_DEADLOCK FALSE
