SPECIFICATION Spec
CONSTANTS
  u1 = u1
  u2 = u2
  d1 = d1
  d2 = d2
  Url = {u1, u2}
  Title = {t1, t2}
  Domain = {d1, d2}
  DomainOf <- MCDomainOf
  NoDomain = NoDomain
  TicksPerDay = 1
  EarlyUse = TRUE
  LegacyRows = TRUE
  Failures = TRUE
  MaxStored = 1
  MaxClock = 1
  MaxOps = 2
  MaxRuns = 0
INVARIANTS TypeOK Chronological PendingIsArmed
PROPERTIES StatementsInOrder

CHECK_DEADLOCK FALSE
SYMMETRY Symmetric
