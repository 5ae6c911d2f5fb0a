SPECIFICATION Spec
CONSTANTS
  Threads = {h1, h2}
  RamKeys = {k1, k2}
  Evicting = TRUE
  Callers = {r1, r2}
  DiskKeys = {k1}
  Stats = Stats
  Expires = {1, Never}
  Never = Never
  MaxTime = 1
  MaxAdded = 2
  NoItem = NoItem
  MaxDiskCalls = 3
  MaxDeaths = 1
PROPERTY RamFresh
PROPERTY RamAddsToStored
PROPERTY DiskFresh
PROPERTY DiskAddsToStored
PROPERTY DiskCallsEnd
CHECK_DEADLOCK FALSE
