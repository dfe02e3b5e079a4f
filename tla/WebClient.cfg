CONSTANTS
  Fens <- MCFens
  Refused <- MCRefused
  StartFen <- MCStart
  MaxPlies = 3
  MaxActs = 4
  MaxFaults = 2
  PipeRoom = 2
SPECIFICATION FairSpec
CHECK_DEADLOCK FALSE
INVARIANTS
  TurnOfThePosition
  NeverStranded
  QuietBetweenOperations
PROPERTY
  TurnEnds
