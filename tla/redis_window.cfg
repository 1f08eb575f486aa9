SPECIFICATION Spec
CONSTANTS
  t1 = t1
  t2 = t2
  Calls = {t1, t2}
  Limit = 1
  Window = 4
  Grace = 1
  MaxDelay = 2
  MaxClock = 7
  MaxRequests = 4
SYMMETRY Symmetry
INVARIANTS
  TypeOK
  RateBound
