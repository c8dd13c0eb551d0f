SPECIFICATION FairSpec
CONSTANTS
  k1 = k1
  k2 = k2
  k3 = k3
  s1 = s1
  s2 = s2
  a1 = a1
  a2 = a2
  Conns <- ThreeConns
  Services <- OneService
  Addrs <- TwoAddrs
  MaxRequests = 1
  Repeats = FALSE
PROPERTY OfflineWithdrawn
CHECK_DEADLOCK FALSE
