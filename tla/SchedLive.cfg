SPECIFICATION FairSpec
CONSTANTS
  Workers = {w1, w2}
  Tasks = {t1}
  None = None
  Late = {}
  Repeats <- OneShot
  RetryFailed <- NoRetry
  StopTimed = {}
  Unplannable = {}
  Deps = {}
  PerWorker = 50
  MaxEmptyRuns = 1
  MaxTotalRuns = 0
  AdminActions = {}
  Serializable = TRUE
  LateBeats = FALSE
  ReusedNames = FALSE
  MaxAdmin = 0
  MaxCrashes = 1
  MaxDone = 3
  MaxFails = 3
PROPERTY TasksSettle
PROPERTY DueWorkStarts
PROPERTY IdleWorkersQuit
CHECK_DEADLOCK FALSE
