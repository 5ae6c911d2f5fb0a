SPECIFICATION Spec
CONSTANTS
  Setups <- Recorded
  MaxOut = 2
  MaxStops = 1
  None = None
INVARIANT OutputWhole
INVARIANT OutputInOrder
INVARIANT ReportTrue
INVARIANT NoStray
PROPERTY Returns
CHECK_DEADLOCK FALSE
