SPECIFICATION Spec
CONSTANTS
  c1 = c1
  c2 = c2
  w1 = w1
  w2 = w2
  p1 = p1
  p2 = p2
  s1 = s1
  s2 = s2
  None = None
  Streams = {s1}
  Clients = {c1}
  Workers = {w1}
  Replicas = {p1}
  PoolOf <- SoloPool
  HostOf <- SoloReplica
  MaxDepth <- Depth1
  MaxJobs = 3
  MaxFaults = 0
PROPERTIES
  FullMeansPending
