SPECIFICATION Spec
CONSTANTS
  Requests = {r1, r2, r3}
  Old = Old
  MaxOps = 2
  MaxBroken = 1
  None = None
PROPERTY ClearedStaysCleared
PROPERTY UpdatesAtomic
PROPERTY SessionKept
PROPERTY RequestsEnd
PROPERTY StoredAsTold
CHECK_DEADLOCK FALSE
