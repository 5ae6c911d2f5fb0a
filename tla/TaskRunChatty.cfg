SPECIFICATION Spec
CONSTANTS
  Setups <- Chatty
  MaxOut = 1
  MaxStops = 0
  None = None
PROPERTY TimeoutKept
CHECK_DEADLOCK FALSE
