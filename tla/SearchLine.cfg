CONSTANTS
  FreeChecks = 2
  FilterSlots <- MCSlots
  FilterWidth = 256
  Slot <- MCSlot
  RuleLimit = 12
  Histories <- MCHistories
  Scenes <- MCScenes
SPECIFICATION Spec
CHECK_DEADLOCK FALSE
INVARIANTS
  LegalMovesByTheRules
  SeeIsExchange
  ChecksForeseen
  DerivedState
  PliesAccounted
  RepetitionByTheRules
  AccumulatorsExact
PROPERTIES
  UndoRestores
