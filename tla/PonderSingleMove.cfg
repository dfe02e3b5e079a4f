\* A ponder search of a position with one legal move, under a clock.
SPECIFICATION Spec
CONSTANTS
  N = 1
  MaxSearches = 1
  MaxDepth = 1
  MaxLost = 0
  Requests <- MCPonderRequests
INVARIANT
  PonderWaitsForStop
CHECK_DEADLOCK FALSE
