SPECIFICATION Spec
CONSTANTS
  k1 = k1
  k2 = k2
  k3 = k3
  s1 = s1
  s2 = s2
  a1 = a1
  a2 = a2
  Conns <- ThreeConns
  Services <- TwoServices
  Addrs <- TwoAddrs
  MaxRequests = 2
  Repeats = TRUE
SYMMETRY ConnSymmetry
INVARIANTS
  MapsAgree
  NoGhostProvider
  ListedUnlessShared
 
CHECK_DEADLOCK FALSE
