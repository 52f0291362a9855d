SPECIFICATION MCSpec
CONSTANTS
  Tab = {t1, t2, t3, t4}
  NoTab = NoTab
  Incognito = FALSE
  Modes = {TRUE}
  Unloads = TRUE
  MoveOuts = TRUE
  MaxMade = 2
  MaxClosed = 1
INVARIANTS WindowHasCurrent WideCurrentIsLoaded
PROPERTY NarrowStack
CHECK_DEADLOCK FALSE
SYMMETRY Symmetric
