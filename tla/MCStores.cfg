SPECIFICATION Spec
CONSTANTS
  Id = {i1, i2}
  Path = {p1, p2, p3}
  PageSize = 1
  MaxSeconds = 1
  Domain = {d1, d2}
  NoDomain = NoDomain
  MaxAsked = 2
  Name = {n1, n2}
  Zoom = {1, 2}
  InitialZoom = 1
  MaxId = 2
  Url = {1, 2}
  Title = {t1, t2}
  Folder = {1, 2}
  MaxCreated = 2
  MaxFolders = 3
  Cookie = {c1, c2}
  PerMs = 4
  MaxMs = 3
  MaxCookies = 3
  MaxRuns = 2
SYMMETRY Symmetric
INVARIANTS DownloadsKept PermissionsInForce
PROPERTIES BookmarksKept IncognitoUnrecorded SettingsKept CookiesKept
CHECK_DEADLOCK FALSE
