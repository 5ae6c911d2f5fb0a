SPECIFICATION FairSpec
CONSTANTS
  Workers = {w1}
  Tasks = {t1}
  None = None
  Late = {t1}
  Repeats <- OneShot
  RetryFailed <- NoRetry
  StopTimed = {}
  Unplannable = {}
  Deps = {}
  PerWorker = 1
  MaxEmptyRuns = 0
  MaxTotalRuns = 0
  AdminActions = {"DISABLED", "TERMINATE", "KILL", "STOP_TASK"}
  Serializable = FALSE
  LateBeats = FALSE
  ReusedNames = TRUE
  MaxAdmin = 2
  MaxCrashes = 0
  MaxDone = 3
  MaxFails = 3
PROPERTY WorkersObey
CHECK_DEADLOCK FALSE
