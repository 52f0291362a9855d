SPECIFICATION FairSpec
CONSTANTS
  u1 = u1
  u2 = u2
  d1 = d1
  d2 = d2
  Url = {u1, u2}
  Title = {t1}
  Domain = {d1, d2}
  DomainOf <- MCDomainOf
  NoDomain = NoDomain
  TicksPerDay = 1
  EarlyUse = FALSE
  LegacyRows = FALSE
  Failures = FALSE
  MaxStored = 1
  MaxClock = 1
  MaxOps = 2
  MaxRuns = 1
INVARIANTS ShownIsStored UniqueUrls HiddenFlags
PROPERTIES FileFollowsModel WorkEnds
CHECK_DEADLOCK FALSE
