SPECIFICATION OpenFairSpec
CONSTANTS
  pub = pub
  sub = sub
  Sessions <- MCSessions
  Topics = {t1,t2}
  PubTopics = {t1}
  OutDatagramDepth = 1
  OutStreamDepth = 1
  MaxStreamPubs <- TwoThenOne
  MaxDatagrams <- TwoThenOne
  MaxBadDatagrams = 1
  NoFrame = NoFrame
INVARIANTS TablesAgree NoZombieSubscriber StreamFIFO
PROPERTIES ImplementsDelivery DeadSessionsLeave StreamFramesServed DatagramPublishEnds
CHECK_DEADLOCK FALSE
