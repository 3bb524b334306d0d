SPECIFICATION ProxySpec
CONSTANTS
  Clients = {c1}
  Sessions = {s1,s2}
  Loops = {l1}
  None = None
  QueueDepth = 1
  MaxPackets = 4
INVARIANTS MappedIsOpen NoOrphan GaugeCountsOpen NothingLostInside
PROPERTIES ServeEndsAfterCancel UnmappedIsClosed GoroutinesEnd QueuesDrain
CHECK_DEADLOCK FALSE
