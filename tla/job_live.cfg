SPECIFICATION LiveSpec
CONSTANTS
  c1 = c1
  c2 = c2
  w1 = w1
  w2 = w2
  p1 = p1
  p2 = p2
  s1 = s1
  s2 = s2
  None = None
  Streams = {s1, s2}
  Clients = {c1}
  Workers = {w1, w2}
  Replicas = {p1}
  PoolOf <- TwoPools
  HostOf <- OneClient
  MaxDepth <- Depths1
  MaxJobs = 3
  MaxFaults = 1
INVARIANTS
  OneWakeupGap
PROPERTIES
  StreamsKeptApart
  HandlersReturn
