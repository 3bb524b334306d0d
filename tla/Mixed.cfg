SPECIFICATION OpenFairSpec
CONSTANTS
  Requesters = {"poller"}
  PayloadLen = 61
  Window = 66
  PathDepth = 1
  MaxCommands = 3
INVARIANTS ControlFramesWhole
PROPERTIES ShutdownCompletes FailureEndsRun
CHECK_DEADLOCK FALSE
