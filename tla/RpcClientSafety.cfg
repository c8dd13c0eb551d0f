SPECIFICATION Spec
CONSTANTS
  c1 = c1
  c2 = c2
  Callers <- TwoCallers
  ChanSize = 1
  MaxCalls = 3
  MaxConnects = 1
  TimerArmed = FALSE
  CallTimed = TRUE
  ServerCodes = {"kRpcSuccess"}
SYMMETRY CallerSymmetry
INVARIANTS
  OwnAnswer
  TableExact
PROPERTIES
  InsertTakes
  ImplementsRpcCall
CHECK_DEADLOCK FALSE
