SPECIFICATION LiveSpec
CONSTANTS
  t1 = t1
  t2 = t2
  t3 = t3
  Calls = {t1, t2, t3}
  DegradeMode = "memory"
  DegradeThreshold = 0
  ProbeInterval = 2
INVARIANTS
  TypeOK
  FailOpenBound
PROPERTIES
  OutageCloses
  Recovers
