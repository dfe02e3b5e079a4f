\* Limits that fit the counter.
SPECIFICATION NodesSpec
CONSTANTS
  Half = 8
  Unit = 2
  MaxGap = 3
  NodeLimits <- MCFitting
  Main = main
  Workers = {main, helper}
  Limit = 2
  Reach = 2
  FirstBonus = 1
  Bonuses <- MCBonuses
  Width = 131072
  Cleared <- MCCleared
  TableLimits <- MCTableLimits
  TableCleared <- MCTableCleared
  Fresh = 1
INVARIANTS
  LimitsLookedAt
  HistoriesBounded
