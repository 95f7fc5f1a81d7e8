SPECIFICATION Spec
CONSTANTS
  Items <- MCItems
  Writers = {w1, w2}
  PageLimit = 2
  MaxClock = 2
  None = None
INVARIANT ListedOnce
PROPERTY WalkEnds
\* The requests are over and the walk is done.
CHECK_DEADLOCK FALSE
