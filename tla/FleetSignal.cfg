SPECIFICATION Spec
CONSTANTS
  Count = 2
  Conns = {1, 2}
INVARIANT FleetTellsClients
CHECK_DEADLOCK FALSE
