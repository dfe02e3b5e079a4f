\* Safety of the search life cycle: two workers, two searches.
SPECIFICATION Spec
CONSTANTS
  N = 2
  MaxSearches = 2
  MaxDepth = 1
  MaxLost = 1
  Requests <- MCRequests
INVARIANTS
  OneSearchAtATime
  WorkersConserved
  AnswerIsTrue
  EndlessWaits
PROPERTY
  ImplementsSafely
\* An application that has dropped its engine and its handles is done.
CHECK_DEADLOCK FALSE
