SPECIFICATION Spec
CONSTANTS
  tabA = tabA
  tabB = tabB
  Nobody = Nobody
  Tabs <- MCTabs
  Dates <- MCDates
  Openings <- MCOpenings
  MaxRows = 1
  MaxActs = 2
INVARIANTS OnlyOverlapBreaks WritesShown NothingInvented
PROPERTIES NothingTakenBack StartEnds
CHECK_DEADLOCK FALSE
