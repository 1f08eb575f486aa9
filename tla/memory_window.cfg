SPECIFICATION Spec
CONSTANTS
  k1 = k1
  k2 = k2
  t1 = t1
  t2 = t2
  Keys = {k1, k2}
  Calls = {t1, t2}
  Limit = 2
  Window = 2
  MaxKeys = 1
  MaxDelay = 1
  MaxClock = 5
  MaxRequests = 5
INVARIANTS
  TypeOK
  KeyCap
  RateBound
