SPECIFICATION FairSpec
CONSTANTS
  Process = {p1, p2, p3, p4}
  Others = {p3, p4}
  NoFile = NoFile
  Stale = Stale
  Short = "short"
  Store = {s1, s2}
  Cookie = {c1, c2, c3}
  Alone = {c1}
  Id = {i1, i2}
  Path = {f1, f2}
INVARIANTS InstancesRight MovedTruthfully
PROPERTIES ArgumentsHandled AllEnds
CHECK_DEADLOCK FALSE
