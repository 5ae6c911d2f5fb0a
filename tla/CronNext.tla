------------------------------ MODULE CronNext ------------------------------
(***************************************************************************)
(* gluon/scheduler.py, CronParser: a cron line is parsed, and next() goes  *)
(* from one time to the next that fits the line.                           *)
(*                                                                         *)
(* The calendar begins with date 0 and ends (datetime.max); its hours,     *)
(* days and months may be shorter than ours.  Times are minutes since its  *)
(* beginning.  A field of a line is a set of ranges lo-hi/step, a number n *)
(* being n-n/1; "*" is no range.                                           *)
(***************************************************************************)
EXTENDS Integers, Sequences, FiniteSetsExt

CONSTANTS
  MinutesPerHour, HoursPerDay, DaysPerWeek, MonthsPerYear,
  LongestMonth,   \* 31
  Calendar,       \* the lengths of the months, leap years included
  Lines,          \* cron lines: [min, hr, dom, mon, dow |-> a set of ranges]
  Bases,          \* the times a CronParser starts from
  MaxCalls,       \* bound: calls of next() on one CronParser
  LastDay         \* "l", the last day of the month

ASSUME CalendarAssumption ==
  /\ {MinutesPerHour, HoursPerDay, DaysPerWeek, MonthsPerYear, LongestMonth} \subseteq Nat \ {0}
  /\ Calendar \in Seq(1..LongestMonth) /\ Calendar # <<>> /\ MaxCalls \in Nat

Periods == {"min", "hr", "dom", "mon", "dow"}
Ranges  == [lo : Nat, hi : Nat, step : Nat]
Months  == DOMAIN Calendar

\* The date at which a month begins, and the month of a date.
FirstDate[m \in 1..(Len(Calendar) + 1)] ==
  IF m = 1 THEN 0 ELSE FirstDate[m - 1] + Calendar[m - 1]
Dates   == 0..(FirstDate[Len(Calendar) + 1] - 1)
MonthOf == [n \in Dates |-> CHOOSE m \in Months : FirstDate[m] <= n /\ n < FirstDate[m + 1]]

Day(n)     == n - FirstDate[MonthOf[n]] + 1
Weekday(n) == n % DaysPerWeek
Named(m)   == ((m - 1) % MonthsPerYear) + 1

Minute(t)   == t % MinutesPerHour
Hour(t)     == (t \div MinutesPerHour) % HoursPerDay
Date(t)     == (t \div MinutesPerHour) \div HoursPerDay
Midnight(n) == (n * HoursPerDay) * MinutesPerHour

ASSUME LineAssumption ==
  /\ LastDay \notin Nat /\ LastDay \notin Ranges
  /\ \A line \in Lines : \A p \in Periods :
       line[p] \subseteq IF p = "dom" THEN Ranges \union {LastDay} ELSE Ranges
  /\ \A now \in Bases : now \in Nat /\ Date(now) \in Dates

VARIABLES
  step,    \* "none", "made", "refused" by _parse, "date", "ready", "raised" by next
  cron,    \* the line
  task,    \* what _parse made of it: period -> values, for the periods without "*"
  base,    \* self.sched
  sched,   \* next()'s local variable
  calls

lineVars == <<step, cron, task, base, sched, calls>>

NoLine == [p \in Periods |-> {}]

LineInit == step = "none" /\ cron = NoLine /\ task = <<>> /\ base = 0 /\ sched = 0 /\ calls = 0

Create ==
  /\ step = "none"
  /\ \E line \in Lines, now \in Bases : cron' = line /\ base' = now /\ sched' = now
  /\ step' = "made"
  /\ UNCHANGED <<task, calls>>

-----------------------------------------------------------------------------
(* _parse(). *)

\* ranges_max, and the least value that _sanitycheck accepts.
Highest == [min |-> MinutesPerHour - 1, hr |-> HoursPerDay - 1, dom |-> LongestMonth,
            mon |-> MonthsPerYear, dow |-> DaysPerWeek]
Lowest  == [min |-> 0, hr |-> 0, dom |-> 1, mon |-> 1, dow |-> 0]

CeilDiv(a, b) == -((-a) \div b)

FirstBadShort(r, limit) == r.lo + ((limit - r.lo) \div r.step) * r.step       \* mutant
\* "first multiple of step_ at or above the limit"
FirstBad(r, limit) == r.lo + CeilDiv(limit - r.lo, r.step) * r.step

\* _rangetolist: a list that leaves the period ends with its first value outside.
RangeToList(r, p) ==
  LET limit == Highest[p] + 1
      bound == IF r.lo >= limit THEN r.lo + 1 ELSE FirstBad(r, limit) + 1
      stop  == IF r.hi + 1 > limit THEN Min({r.hi + 1, bound}) ELSE r.hi + 1
  IN {i \in r.lo..(stop - 1) : (i - r.lo) % r.step = 0}

Values(p) == UNION {RangeToList(r, p) : r \in cron[p] \ {LastDay}}

\* A field with no value or one outside, a step of 0, and "l" among other days.
Bad(p) ==
  \/ \E r \in cron[p] \ {LastDay} : r.step = 0
  \/ cron[p] # {LastDay} /\ (Values(p) = {} \/ LastDay \in cron[p])
  \/ \E v \in Values(p) : v < Lowest[p] \/ v > Highest[p]

Given == {p \in Periods : cron[p] # {}}

Parse ==
  /\ step = "made"
  /\ IF \E p \in Given : Bad(p)
     THEN step' = "refused" /\ UNCHANGED task
     ELSE /\ step' = "date"
          /\ task' = [p \in Given |-> IF cron[p] = {LastDay} THEN {LastDay} ELSE Values(p)]
  /\ calls' = 1
  /\ UNCHANGED <<cron, base, sched>>

-----------------------------------------------------------------------------
(* next(). *)

Has(p) == p \in DOMAIN task

\* The dates from n on that the searches of _get_next_dow and _get_next_dom end at.
DowDates(n) ==
  LET weekdays == {v % DaysPerWeek : v \in task["dow"]}
  IN {k \in Dates : k >= n /\ Weekday(k) \in weekdays}
\* The last day is that of the month of n.
DomDates(n) ==
  LET doms == IF task["dom"] = {LastDay} THEN {Calendar[MonthOf[n]]} ELSE task["dom"]
  IN {k \in Dates : k >= n /\ Day(k) \in doms}

LaterDate(n) == Max({Min(DowDates(n)), Min(DomDates(n))})           \* mutant
SoonerDate(n) == Min({Min(DowDates(n)), Min(DomDates(n))})

\* A search that leaves the calendar raises OverflowError.
DayLost(n) == (Has("dow") /\ DowDates(n) = {}) \/ (Has("dom") /\ DomDates(n) = {})
DayFound(n) ==
  CASE Has("dow") /\ Has("dom") -> SoonerDate(n)
    [] Has("dow") /\ ~Has("dom") -> Min(DowDates(n))
    [] ~Has("dow") /\ Has("dom") -> Min(DomDates(n))
    [] OTHER -> n

\* _get_next_mon: month by month, and the day stays: it must exist in each of them.
RightMonths(n) == {m \in Months : m >= MonthOf[n] /\ (Has("mon") => Named(m) \in task["mon"])}
MonthFound(n)  == Min(RightMonths(n))
MonthLost(n)   == RightMonths(n) = {} \/ \E m \in MonthOf[n]..MonthFound(n) : Calendar[m] < Day(n)

\* _getnext_date
DateLost(n) == DayLost(n) \/ MonthLost(DayFound(n))
NextDate(n) == FirstDate[MonthFound(DayFound(n))] + Day(DayFound(n)) - 1

\* _getnext_hhmm: the minute first, and then the hour with that minute.
NextMinute(t) == Min({u \in t..(t + MinutesPerHour) : Has("min") => Minute(u) \in task["min"]})
NextHour(t) ==
  t + Min({k \in 0..HoursPerDay : Has("hr") => Hour(t + k * MinutesPerHour) \in task["hr"]}) * MinutesPerHour
NextHhmm(t) == NextHour(NextMinute(t))

\* One round of the loop: another date, a later time of this date, or neither:
\* the time rolled over midnight and the loop goes on from there.
Rolled(n) == n > Date(base)
TimeFound(n) == IF Rolled(n) THEN NextHhmm(Midnight(n)) ELSE NextHhmm(sched + 1)
Lost == DateLost(Date(sched)) \/ Date(TimeFound(NextDate(Date(sched)))) \notin Dates

Round ==
  /\ step = "date"
  /\ IF Lost
     THEN step' = "raised" /\ UNCHANGED <<base, sched>>
     ELSE LET n == NextDate(Date(sched))
          IN /\ sched' = TimeFound(n)
             /\ IF ~Rolled(n) /\ Date(sched') > Date(sched)
                THEN step' = "date" /\ UNCHANGED base
                ELSE step' = "ready" /\ base' = sched'
  /\ UNCHANGED <<cron, task, calls>>

Again ==
  /\ step = "ready" /\ calls < MaxCalls
  /\ step' = "date" /\ calls' = calls + 1
  /\ UNCHANGED <<cron, task, base, sched>>

LineNext == Create \/ Parse \/ Round \/ Again
LineSpec == LineInit /\ [][LineNext]_lineVars
-----------------------------------------------------------------------------
(* Properties. *)

\* A field as it is written: its values are those of its ranges, and it is right if
\* there are any, all of them are values of the period, and "l" stands alone.
Written(p) == UNION {{v \in r.lo..r.hi : r.step > 0 /\ (v - r.lo) % r.step = 0} : r \in cron[p] \ {LastDay}}
FieldRight(p) ==
  \/ cron[p] = {LastDay}
  \/ /\ LastDay \notin cron[p] /\ \A r \in cron[p] : r.step > 0
     /\ Written(p) # {} /\ Written(p) \subseteq Lowest[p]..Highest[p]

\* Lists that are cut short ("Stop generating once one out-of-range value is present")
\* change nothing: a line is rejected exactly when a field of it is wrong, and an
\* accepted line has the values it says.
ParsedAsWritten ==
  /\ step \in {"date", "ready", "raised"} => \A p \in Given :
       FieldRight(p) /\ (cron[p] # {LastDay} => task[p] = Written(p))
  /\ step = "refused" => \E p \in Given : ~FieldRight(p)

DomFits(n) == IF task["dom"] = {LastDay} THEN Day(n) = Calendar[MonthOf[n]] ELSE Day(n) \in task["dom"]
DowFits(n) == \E v \in task["dow"] : v % DaysPerWeek = Weekday(n)

\* A date, a time of the day fit a line: as in every cron, one of dom and dow is enough
\* if both are given.
DayFits(n) ==
  \/ ~Has("dom") /\ ~Has("dow")
  \/ Has("dom") /\ DomFits(n)
  \/ Has("dow") /\ DowFits(n)
TimeFits(t) ==
  /\ Has("min") => Minute(t) \in task["min"]
  /\ Has("hr") => Hour(t) \in task["hr"]
MonthFits(m) == Has("mon") => Named(m) \in task["mon"]
Matches(t) == TimeFits(t) /\ DayFits(Date(t)) /\ MonthFits(MonthOf[Date(t)])

Skipped == {u \in (base + 1)..(base' - 1) : Matches(u)}

\* Unless it has to skip months, next() finds a time that fits, and the first one
\* except within its hour: the minute was chosen before the hour, so when the hour of
\* the day advanced, earlier minutes of the new hour are lost.  It gives up only if it
\* has to look at months, or if no later date of the calendar fits a field that is given.
NextRight ==
  [][step = "date" =>
       /\ step' = "raised" =>
            \/ Has("mon")
            \/ \A n \in Dates : n > Date(base) => Has("dom") /\ ~DomFits(n)
            \/ \A n \in Dates : n > Date(base) => Has("dow") /\ ~DowFits(n)
       /\ step' = "ready" /\ (\A m \in MonthOf[Date(base)]..MonthOf[Date(base')] : MonthFits(m)) =>
            /\ base' > base /\ Matches(base')
            /\ \A u \in Skipped : u \div MinutesPerHour = base' \div MinutesPerHour
            /\ Skipped # {} => Has("hr") /\ Date(base') = Date(base)]_lineVars

\* "Get next date according to specs" (next): what it finds fits the line.
NextMatches ==
  [][step = "date" /\ step' = "ready" => Matches(base')]_lineVars
=============================================================================
