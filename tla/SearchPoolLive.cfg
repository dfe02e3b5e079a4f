\* Refinement of SearchService and liveness.
SPECIFICATION FairSpec
CONSTANTS
  N = 2
  MaxSearches = 1
  MaxDepth = 1
  MaxLost = 0
  Requests <- MCLiveRequests
PROPERTIES
  ImplementsService
  LimitedEnds
  CallsReturn
CHECK_DEADLOCK FALSE
