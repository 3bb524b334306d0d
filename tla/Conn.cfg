SPECIFICATION FairSpec
CONSTANTS
  Callers = {p1, p2}
  Conns = {c1, c2}
  AcceptLoops = {bidi}
  MaxCalls = 1
  SettingsMayFail = TRUE
  Closer = Closer
  None = None
INVARIANTS SingleConn ClosedMeansClosed
PROPERTIES LiveConnKept SessionsEnd CallsReturn
CHECK_DEADLOCK FALSE
