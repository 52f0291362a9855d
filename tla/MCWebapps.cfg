SPECIFICATION Spec
CONSTANTS
  Id = {a, b}
  NoId = NoId
  MaxChanges = 3
  MaxCrashes = 1
  NoUrl = NoUrl
  NoFilter = NoFilter
  MaxArgs = 3
  MaxRuns = 2
INVARIANTS InSync NavigatesWithin LocalStaysLocal OpenedIsShown
PROPERTY DeletedAsAsked
CHECK_DEADLOCK FALSE
