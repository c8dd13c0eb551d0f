SPECIFICATION FairSpec
CONSTANTS
  c1 = c1
  c2 = c2
  Callers <- OneCaller
  ChanSize = 1
  MaxCalls = 3
  MaxConnects = 1
  TimerArmed = TRUE
  CallTimed = TRUE
  ServerCodes = {"kRpcSuccess"}
PROPERTY CallReturns
CHECK_DEADLOCK FALSE
