SPECIFICATION Spec
CONSTANTS
  Tab = {t1, t2}
  NoTab = NoTab
  Private = Private
  MaxWindows = 3
  MaxPrivate = 1
  MaxUrls = 2
  MaxRuns = 1
  CloseBackground = FALSE
INVARIANT CurrentOnTop
CHECK_DEADLOCK FALSE
