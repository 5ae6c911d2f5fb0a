SPECIFICATION Spec
CONSTANTS
  Tasks = {t1, t2, t3}
  Jobs = {j1, j2}
  Clients = {c1, c2}
  MaxDeps = 0
  Serializable = TRUE
  MinutesPerHour = 3
  HoursPerDay = 3
  DaysPerWeek = 3
  MonthsPerYear = 3
  LongestMonth = 3
  Calendar <- FourYears
  Lines <- DayLines
  Bases <- FirstYear
  MaxCalls = 1
  LastDay = LastDay
  Dances = {d1, d2, d3}
  LockTime = 2
  LastTime = 2
  MaxLost = 1
  Nobody = Nobody
PROPERTY NextMatches
CHECK_DEADLOCK FALSE
