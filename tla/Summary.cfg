CONSTANTS
  Jobs = {j1, j2}
  RecentCount = 2
  Trigger = 3
  MaxMessages = 6
  MaxRemovals = 1
SPECIFICATION Spec
INVARIANT NothingForgotten
INVARIANT RecentWindowKept
PROPERTY SummaryMovesForward
CHECK_DEADLOCK FALSE
SYMMETRY Symmetry
