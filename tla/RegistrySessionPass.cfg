SPECIFICATION FairSpec
CONSTANTS
  s1 = s1
  s2 = s2
  s3 = s3
  Services <- ThreeServices
  ChanSize = 4
INVARIANTS
  TypeOK
  AnnouncedFirst
PROPERTIES
  RequestsOnce
  ClosedQuiesces
  SilentRegistryGivenUp
  AllRegistered
CHECK_DEADLOCK FALSE
