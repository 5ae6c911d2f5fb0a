SPECIFICATION Spec
CONSTANTS
  Workers = {w1, w2}
  Tasks = {t1, t2}
  None = None
  Late = {}
  Repeats <- RunTwice
  RetryFailed <- RetryOnce
  StopTimed = {t1}
  Unplannable = {}
  Deps <- Chain
  PerWorker = 50
  MaxEmptyRuns = 0
  MaxTotalRuns = 0
  AdminActions = {}
  Serializable = TRUE
  LateBeats = FALSE
  ReusedNames = FALSE
  MaxAdmin = 0
  MaxCrashes = 1
  MaxDone = 4
  MaxFails = 3
INVARIANT TypeOK
INVARIANT CalmInv
INVARIANT ExclusiveRun
INVARIANT RepeatsHonoured
INVARIANT CountAgrees
INVARIANT RetriesBounded
INVARIANT ParentWaits
PROPERTY RefinesQueue
SYMMETRY Symmetry
CHECK_DEADLOCK FALSE
