\* Limits of any size.
SPECIFICATION Spec
CONSTANTS
  Half = 32
  Unit = 4
  MaxGap = 16
  NodeLimits <- MCAny
INVARIANT
  LimitsLookedAt
