SPECIFICATION FairSpec
CONSTANTS
  k1 = k1
  Conns <- OneConn
  MaxRequests = 3
  Kinds = {"heartbeat", "success", "failShort", "failLong", "nameless", "other"}
INVARIANTS
  AnswersWhole
  NoTimerLeft
PROPERTIES
  EveryConnectionEnds
  TasksEnd
CHECK_DEADLOCK FALSE
