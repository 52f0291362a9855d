SPECIFICATION WindowFairSpec
CONSTANTS
  Tab = {t1, t2}
  NoTab = NoTab
  Incognito = FALSE
  Modes = {TRUE}
  Unloads = FALSE
  MoveOuts = FALSE
  MaxMade = 1
  MaxClosed = 2
PROPERTY SwitchesToNextTab
CHECK_DEADLOCK FALSE
