SPECIFICATION Spec
CONSTANTS
  Count = 2
  Conns = {1, 2}
PROPERTIES ServerStopsClean FailureEndsFleet GaugeSettles
CHECK_DEADLOCK FALSE
