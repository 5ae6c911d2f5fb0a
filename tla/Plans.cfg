SPECIFICATION Spec
CONSTANTS
  Tasks = {t1, t2, t3}
  Jobs = {j1, j2}
  Clients = {c1, c2}
  MaxDeps = 4
  Serializable = TRUE
  MinutesPerHour = 3
  HoursPerDay = 3
  DaysPerWeek = 3
  MonthsPerYear = 3
  LongestMonth = 3
  Calendar <- FourYears
  Lines <- SomeLines
  Bases <- SomeTimes
  MaxCalls = 3
  LastDay = LastDay
  Dances = {d1, d2, d3}
  LockTime = 2
  LastTime = 4
  MaxLost = 1
  Nobody = Nobody
SYMMETRY Symmetry
PROPERTY ValidateExact
INVARIANT JobsOrdered
INVARIANT ParsedAsWritten
PROPERTY NextRight
PROPERTY Spaced
CHECK_DEADLOCK FALSE
