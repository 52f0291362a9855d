SPECIFICATION MCSpec
CONSTANTS
  Pages = {u1, u2, u3}
  PageDomain <- MCDomainOf
  MaxDay = 3
  IconUrl = {i1, i2}
  Direct = Direct
  NoUrl = NoUrl
  MaxRedirections = 3
  Row = {r1, r2, r3, r4, r5}
  MaxRows = 5
  MaxLimit = 5
SYMMETRY SymmetricRows
INVARIANTS ViewIsFirstRows AnnouncedFits DomainsShown DatesShown IconsShown
CHECK_DEADLOCK FALSE
