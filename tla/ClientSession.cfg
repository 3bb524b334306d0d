SPECIFICATION FairSpec
CONSTANTS
  Streams = {s1, s2}
  Datagrams = dg
  QueueDepth = 1
  IncomingDepth = 1
  MaxFrames = 1
  MaxDatagrams = 2
INVARIANTS DeliveredInOrder
PROPERTIES SessionEndReleases
CHECK_DEADLOCK FALSE
