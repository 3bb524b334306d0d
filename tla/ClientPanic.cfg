SPECIFICATION Spec
CONSTANTS
  Streams = {s1, s2}
  Datagrams = dg
  QueueDepth = 1
  IncomingDepth = 1
  MaxFrames = 1
  MaxDatagrams = 1
INVARIANT NoPanic
CHECK_DEADLOCK FALSE
