SPECIFICATION Spec
CONSTANTS
  Games <- MCGames
  NONE = NONE
  MAX_PLY = 6
  VALUE_MATE = 16
  MaxDepth = 4
  Delta = 3
  Margin = 1
  Rule60Max = 6
  Rule60Near = 5
  DeepEnough = 2
  NullReduction = 1
  MaxOdd = 1
  CLUSTER_SIZE = 3
  Generations = 4
  DepthSlack = 1
  AgeableDepth = 1
INVARIANTS
  MatesAreProven
  ReportedMateIsProven
  LinesArePlayable
  ScopesAreClosed
