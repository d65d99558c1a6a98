SPECIFICATION Spec
CONSTANTS
  Scenarios <- AllScenarios
  Values = {1, 2}
INVARIANTS
  AcceptIsEarned
  OrderIrrelevant
  
  NoMutualWin
  VerdictStands
PROPERTIES
  HistoryIsInert
CHECK_DEADLOCK FALSE
