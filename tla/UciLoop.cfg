\* The native UCI loop: three lines of input, a channel of one.
SPECIFICATION FairSpec
CONSTANTS
  MaxSearches = 3
  MaxLines = 3
  Capacity = 1
  Lines <- MCLines
  FirstLines <- MCFirstLines
  Unreadable <- MCUnreadable
  Folded <- MCFolded
  Numeral <- MCNumeral
  MAX_I32 = 7
  MAX_U32 = 15
  MAX_I64 = 31
  MAX_U64 = 63
  MAX_PLY = 4
  START_FEN <- MCStart
  Playable <- MCPlayable
INVARIANTS
  AnsweredOnceInOrder
  ReadyAfterBestmove
  SearchesAsAsked
PROPERTIES
  IsReadyIsAnswered
  ClosedExits
\* The program exits.
CHECK_DEADLOCK FALSE
