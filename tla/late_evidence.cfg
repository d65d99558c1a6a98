SPECIFICATION Spec
CONSTANTS
  Scenarios <- AllScenarios
  Values = {1, 2}
PROPERTIES
  LateIsNeverCurrent
CHECK_DEADLOCK FALSE
