SPECIFICATION Spec
CONSTANTS
  Id = {a, b}
  NoId = NoId
  NoUrl = NoUrl
  NoFilter = NoFilter
  MaxArgs = 3
  MaxChanges = 3
  MaxCrashes = 1
  MaxRuns = 2
PROPERTY UpgradeCleans
CHECK_DEADLOCK FALSE
