SPECIFICATION FairMCSpec
CONSTANTS
  Tab = {t1, t2}
  NoTab = NoTab
  Private = Private
  MaxWindows = 3
  MaxPrivate = 1
  MaxUrls = 2
  MaxRuns = 2
  CloseBackground = FALSE
  ATab = {s1, s2, s3}
INVARIANTS WindowsListed SavedWhenQuiet NoIncognitoTraces
PROPERTIES SessionSaved SwitchEnds
CHECK_DEADLOCK FALSE
