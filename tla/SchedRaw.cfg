SPECIFICATION Spec
CONSTANTS
  Workers = {w1, w2}
  Tasks = {t1}
  None = None
  Late = {}
  Repeats <- OneShot
  RetryFailed <- NoRetry
  StopTimed = {}
  Unplannable = {}
  Deps = {}
  PerWorker = 1
  MaxEmptyRuns = 0
  MaxTotalRuns = 0
  AdminActions = {}
  Serializable = FALSE
  LateBeats = FALSE
  ReusedNames = FALSE
  MaxAdmin = 0
  MaxCrashes = 1
  MaxDone = 3
  MaxFails = 3
INVARIANT OneTickerRow
INVARIANT OneDispatcher
SYMMETRY Symmetry
CHECK_DEADLOCK FALSE
