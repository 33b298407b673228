SPECIFICATION LiveSpec
CONSTANTS
  Requests = {mine, a}
  Own = {mine}
  Conns = {c1, c2}
  NoConn = NoConn
  NoReq = NoReq
  PageSize = 1
  MaxLog = 3
  MaxCuts = 1
  MaxLost = 1
INVARIANTS MissingIsOnItsWay AckedIsVisible
PROPERTIES AppendsAreAnswered 
CHECK_DEADLOCK FALSE
