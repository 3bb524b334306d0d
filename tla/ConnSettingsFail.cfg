SPECIFICATION FairSpec
CONSTANTS
  Callers = {p1, p2}
  Conns = {c1, c2}
  AcceptLoops = {bidi, uni}
  MaxCalls = 1
  SettingsMayFail = TRUE
  Closer = Closer
  None = None
CHECK_DEADLOCK FALSE
PROPERTY EveryCallReturns
