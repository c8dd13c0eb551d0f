SPECIFICATION MCSpec
CONSTANTS
  l1 = l1
  l2 = l2
  c1 = c1
  Free = Free
  Lost = Lost
  Listeners <- TwoListeners
  Clients <- OneClient
  MaxFd = 3
  MaxStarts = 2
  MaxStops = 2
INVARIANT DescriptorOwned
PROPERTY StopQuiesces
CHECK_DEADLOCK FALSE
