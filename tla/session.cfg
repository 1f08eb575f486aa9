SPECIFICATION Spec
CONSTANTS
  t1 = t1
  t2 = t2
  Tabs = {t1, t2}
  MaxIssues = 4
  None = None
  Empty = Empty
SYMMETRY TabSymmetry
INVARIANTS
  TypeOK
  CookiesPaired
  SessionKept
PROPERTIES
  LogoutClears
