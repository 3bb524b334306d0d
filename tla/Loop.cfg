SPECIFICATION FairSpec
CONSTANTS
  Drop = "maybe"
  Duplicate = "maybe"
  Reorder = "maybe"
  ReorderHold = 0
  DefaultHold = 2
  Latency = 1
  Jitter = 1
  Bandwidth = 2
  Second = 1
  MaxPackets = 2
  PacketLen <- MCPacketLen
  LastArrival = 2
  MaxClock = 12
  NoTimer = NoTimer
INVARIANTS SentInScheduleOrder OvertakenOnce DelayBounded
PROPERTIES ImplementsDelayLine PipelineDrains
CHECK_DEADLOCK FALSE
