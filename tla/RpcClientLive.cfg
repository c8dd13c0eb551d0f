SPECIFICATION LiveSpec
CONSTANTS
  c1 = c1
  c2 = c2
  Callers <- OneCaller
  ChanSize = 1
  MaxCalls = 1
  MaxConnects = 2
  TimerArmed = TRUE
  CallTimed = TRUE
  ServerCodes = {"kRpcSuccess", "kRpcNoMethod"}
PROPERTIES
  CallReturns
  CloseQuiesces
  DeadPeerNoticed
  SilentPeerGivenUp
CHECK_DEADLOCK FALSE
