----------------------------- MODULE CronProofs -----------------------------
(* Theorems about CronNext, for every calendar, line and time; and one about    *)
(* CronToken: dances are spaced, for any number of them.                        *)
EXTENDS CronNext, CronToken, WellFoundedInduction, TLAPS

(* Numbers. *)

\* A set of natural numbers has a least one; what is shown by induction elsewhere is shown
\* here with the least number for which it fails.
LEMMA LeastNat ==
  ASSUME NEW S \in SUBSET Nat, S # {}
  PROVE  \E m \in S : \A n \in S : m <= n
<1> DEFINE R == {ss \in Nat \X Nat : ss[1] < ss[2]}
<1>1. IsWellFoundedOn(R, Nat)
  BY NatLessThanWellFounded DEF OpToRel
<1>2. PICK m \in S : \A n \in S : ~(<<n, m>> \in R)
  <2> HIDE DEF R
  <2> QED BY <1>1, WFMin
<1>3. ASSUME NEW n \in S PROVE m <= n
  <2>1. <<n, m>> \notin R /\ n \in Nat /\ m \in Nat
    BY <1>2
  <2> QED BY <2>1
<1> QED BY <1>3

\* Min of a set of numbers is its least.
LEMMA MinNat ==
  ASSUME NEW S \in SUBSET Nat, S # {}
  PROVE  Min(S) \in S /\ Min(S) \in Nat /\ \A n \in S : Min(S) <= n
BY LeastNat DEF Min

\* Quotient and remainder, and that there is one of each only.
LEMMA DivMod ==
  ASSUME NEW a \in Int, NEW b \in Nat \ {0}
  PROVE  a \div b \in Int /\ a % b \in 0..(b - 1) /\ a = (b * (a \div b)) + (a % b)
OBVIOUS

LEMMA DivUnique ==
  ASSUME NEW a \in Int, NEW b \in Nat \ {0}, NEW q \in Int, NEW r \in 0..(b - 1), a = (b * q) + r
  PROVE  a \div b = q /\ a % b = r
OBVIOUS

\* Of two numbers the greater has no smaller quotient; the quotient of a natural number is one.
LEMMA DivMonotone ==
  ASSUME NEW a \in Int, NEW c \in Int, NEW b \in Nat \ {0}, a <= c
  PROVE  (a \div b) <= (c \div b)
BY DivMod

LEMMA DivNat ==
  ASSUME NEW a \in Nat, NEW b \in Nat \ {0}
  PROVE  a \div b \in Nat /\ a % b \in Nat
BY DivMod

\* Whole units change the quotient only.
LEMMA DivAdd ==
  ASSUME NEW a \in Int, NEW b \in Nat \ {0}, NEW k \in Int
  PROVE  (a + k * b) \div b = (a \div b) + k /\ (a + k * b) % b = a % b
<1> DEFINE q == a \div b
           r == a % b
<1>1. q \in Int /\ r \in 0..(b - 1) /\ a = (b * q) + r
  BY DivMod
<1>2. ASSUME NEW p \in Int, NEW s \in Int, a = (b * p) + s
      PROVE  a + k * b = (b * (p + k)) + s
  BY <1>2
<1>3. a + k * b \in Int /\ q + k \in Int /\ a + k * b = (b * (q + k)) + r
  <2> HIDE DEF q, r
  <2> QED BY <1>1, <1>2
<1> HIDE DEF q, r
<1>4. (a + k * b) \div b = q + k /\ (a + k * b) % b = r
  BY <1>1, <1>3, DivUnique
<1> QED BY <1>4 DEF q, r

\* Within b steps every remainder comes.
LEMMA Cycle ==
  ASSUME NEW x \in Nat, NEW b \in Nat \ {0}, NEW v \in 0..(b - 1)
  PROVE  \E k \in 0..(b - 1) : (x + k) % b = v
<1> DEFINE q == x \div b
           r == x % b
<1>1. q \in Int /\ r \in 0..(b - 1) /\ x = (b * q) + r
  BY DivMod
<1> HIDE DEF q, r
<1>2. CASE v >= r
  <2>1. v - r \in 0..(b - 1) /\ x + (v - r) \in Int /\ x + (v - r) = (b * q) + v
    BY <1>1, <1>2
  <2>2. (x + (v - r)) % b = v
    BY <1>1, <2>1, DivUnique
  <2> QED BY <2>1, <2>2
<1>3. CASE v < r
  <2>1. v - r + b \in 0..(b - 1) /\ x + (v - r + b) \in Int
    BY <1>1, <1>3
  <2>2. x + (v - r + b) = (b * (q + 1)) + v /\ q + 1 \in Int
    BY <1>1
  <2>3. (x + (v - r + b)) % b = v
    BY <2>1, <2>2, DivUnique
  <2> QED BY <2>1, <2>3
<1> QED BY <1>1, <1>2, <1>3

-----------------------------------------------------------------------------
(* The calendar. *)

Ends == 1..(Len(Calendar) + 1)

LEMMA CalendarTypes ==
  /\ Len(Calendar) \in Nat \ {0} /\ Months = 1..Len(Calendar) /\ LongestMonth \in Nat
  /\ \A m \in Months : Calendar[m] \in 1..LongestMonth /\ m \in Ends /\ m + 1 \in Ends
BY CalendarAssumption DEF Months, Ends

\* FirstDate is what its recursive definition says.
LEMMA FirstDateDef ==
  FirstDate = [m \in Ends |-> IF m = 1 THEN 0 ELSE FirstDate[m - 1] + Calendar[m - 1]]
<1> DEFINE Sum(f, m) == IF m = 1 THEN 0 ELSE f[m - 1] + Calendar[m - 1]
           Begun(n) == {f \in [1..n -> Nat] : \A m \in 1..n : f[m] = Sum(f, m)}
           S == {n \in Ends : Begun(n) = {}}
<1>1. ASSUME S # {} PROVE FALSE
  <2>1. PICK n \in S : \A k \in S : n <= k
    <3>1. S \in SUBSET Nat /\ S # {}
      BY <1>1 DEF Ends
    <3> HIDE DEF S
    <3> QED BY <3>1, LeastNat
  <2>2. n \in Nat \ {0} /\ n \in Ends
    BY CalendarTypes DEF Ends
  <2>3. n # 1
    <3>1. [m \in 1..1 |-> 0] \in Begun(1)
      OBVIOUS
    <3> QED BY <3>1
  <2>4. n - 1 \in Months /\ n - 1 \in Ends /\ n - 1 \notin S
    <3>1. n - 1 \in Months /\ n - 1 \in Ends
      BY <2>2, <2>3, CalendarTypes DEF Ends
    <3>2. ~(n <= n - 1)
      BY <2>2
    <3> QED BY <2>1, <3>1, <3>2
  <2>5. PICK f \in Begun(n - 1) : TRUE
    BY <2>4
  <2> DEFINE g == [m \in 1..n |-> IF m = n THEN f[n - 1] + Calendar[n - 1] ELSE f[m]]
  <2>6. g \in [1..n -> Nat]
    <3>1. Calendar[n - 1] \in Nat /\ n - 1 \in 1..(n - 1)
      BY <2>4, CalendarTypes
    <3>2. \A i \in 1..(n - 1) : f[i] \in Nat
      BY <2>5
    <3>3. f[n - 1] + Calendar[n - 1] \in Nat /\ \A m \in 1..n : m # n => m \in 1..(n - 1)
      BY <2>2, <3>1, <3>2
    <3> QED BY <3>2, <3>3
  <2>7. ASSUME NEW m \in 1..n PROVE g[m] = Sum(g, m)
    <3>1. m = 1 \/ m - 1 \in 1..(n - 1)
      BY <2>2
    <3>2. \A i \in 1..(n - 1) : g[i] = f[i] /\ f[i] = Sum(f, i)
      BY <2>2, <2>5
    <3> QED BY <2>2, <2>3, <3>1, <3>2
  <2>8. g \in Begun(n)
    BY <2>6, <2>7
  <2> QED BY <2>8
<1>2. PICK f \in Begun(Len(Calendar) + 1) : TRUE
  <2>1. Len(Calendar) + 1 \in Ends
    BY CalendarTypes DEF Ends
  <2> QED BY <1>1, <2>1
<1>3. f = [m \in Ends |-> Sum(f, m)]
  BY <1>2 DEF Ends
<1> QED BY <1>3 DEF FirstDate, Ends

\* One month after the other.
LEMMA FirstDates ==
  /\ FirstDate[1] = 0
  /\ \A m \in Months : FirstDate[m + 1] = FirstDate[m] + Calendar[m]
  /\ \A m \in Ends : FirstDate[m] \in Nat
<1>1. FirstDate[1] = 0 /\ \A m \in Months : FirstDate[m + 1] = FirstDate[m] + Calendar[m]
  <2>1. ASSUME NEW m \in Months PROVE FirstDate[m + 1] = FirstDate[m] + Calendar[m]
    <3>1. m + 1 \in Ends /\ m + 1 # 1 /\ (m + 1) - 1 = m
      BY CalendarTypes
    <3> QED BY <3>1, FirstDateDef
  <2>2. 1 \in Ends
    BY CalendarTypes DEF Ends
  <2> QED BY <2>1, <2>2, FirstDateDef
<1> DEFINE S == {m \in Ends : FirstDate[m] \notin Nat}
<1>2. ASSUME S # {} PROVE FALSE
  <2>1. PICK n \in S : \A k \in S : n <= k
    <3>1. S \in SUBSET Nat /\ S # {}
      BY <1>2 DEF Ends
    <3> HIDE DEF S
    <3> QED BY <3>1, LeastNat
  <2>2. n # 1
    BY <1>1
  <2>3. n - 1 \in Months /\ n - 1 \in Ends /\ n - 1 \notin S /\ (n - 1) + 1 = n
    BY <2>1, <2>2, CalendarTypes DEF Ends
  <2>4. FirstDate[n] = FirstDate[n - 1] + Calendar[n - 1]
    BY <1>1, <2>3
  <2> QED BY <2>3, <2>4, CalendarTypes
<1> QED BY <1>1, <1>2

LEMMA FirstDatesGrow ==
  ASSUME NEW i \in Ends, NEW j \in Ends, i < j
  PROVE  FirstDate[i] < FirstDate[j]
<1> DEFINE S == {m \in Ends : i < m /\ ~(FirstDate[i] < FirstDate[m])}
<1>1. ASSUME S # {} PROVE FALSE
  <2>1. PICK n \in S : \A k \in S : n <= k
    <3>1. S \in SUBSET Nat /\ S # {}
      BY <1>1 DEF Ends
    <3> HIDE DEF S
    <3> QED BY <3>1, LeastNat
  <2>2. n - 1 \in Months /\ n - 1 \in Ends /\ n - 1 \notin S /\ (n - 1) + 1 = n /\ i <= n - 1
    BY <2>1, CalendarTypes DEF Ends
  <2>3. FirstDate[n] = FirstDate[n - 1] + Calendar[n - 1] /\ Calendar[n - 1] > 0
    BY <2>2, FirstDates, CalendarTypes
  <2>4. FirstDate[i] <= FirstDate[n - 1]
    BY <2>2, FirstDates DEF Ends
  <2> QED BY <2>2, <2>3, <2>4, FirstDates, CalendarTypes
<1> QED BY <1>1

\* Every date has its month, and one only.
LEMMA MonthOfDate ==
  ASSUME NEW n \in Dates
  PROVE  /\ n \in Nat /\ MonthOf[n] \in Months
         /\ FirstDate[MonthOf[n]] <= n /\ n < FirstDate[MonthOf[n] + 1]
<1> DEFINE S == {m \in Ends : n < FirstDate[m]}
<1>1. n \in Nat /\ Len(Calendar) + 1 \in S
  BY CalendarTypes, FirstDates DEF Ends, Dates
<1>2. PICK m \in S : \A k \in S : m <= k
  <2>1. S \in SUBSET Nat /\ S # {}
    BY <1>1 DEF Ends
  <2> HIDE DEF S
  <2> QED BY <2>1, LeastNat
<1>3. m # 1
  BY <1>1, FirstDates
<1>4. m - 1 \in Months /\ m - 1 \in Ends /\ m - 1 \notin S /\ (m - 1) + 1 = m
  BY <1>2, <1>3, CalendarTypes DEF Ends
<1>5. FirstDate[m - 1] <= n /\ n < FirstDate[(m - 1) + 1]
  BY <1>1, <1>4, FirstDates
<1> QED BY <1>1, <1>4, <1>5 DEF MonthOf

LEMMA MonthIs ==
  ASSUME NEW n \in Dates, NEW m \in Months, FirstDate[m] <= n, n < FirstDate[m + 1]
  PROVE  MonthOf[n] = m
<1> DEFINE k == MonthOf[n]
<1>1. k \in Months /\ FirstDate[k] <= n /\ n < FirstDate[k + 1] /\ n \in Nat
  BY MonthOfDate
<1>2. \A i \in Months, j \in Months : i < j => FirstDate[i + 1] <= FirstDate[j]
  <2> SUFFICES ASSUME NEW i \in Months, NEW j \in Months, i < j
               PROVE  FirstDate[i + 1] <= FirstDate[j]
    OBVIOUS
  <2>1. i + 1 = j \/ i + 1 < j
    BY CalendarTypes
  <2>2. i + 1 \in Ends /\ j \in Ends /\ FirstDate[i + 1] \in Nat /\ FirstDate[j] \in Nat
    BY CalendarTypes, FirstDates
  <2> QED BY <2>1, <2>2, FirstDatesGrow
<1>3. /\ FirstDate[k] \in Nat /\ FirstDate[k + 1] \in Nat /\ FirstDate[m] \in Nat /\ FirstDate[m + 1] \in Nat
      /\ k \in Int /\ m \in Int
  BY <1>1, FirstDates, CalendarTypes
<1> HIDE DEF k
<1>4. ~(k < m) /\ ~(m < k)
  BY <1>1, <1>2, <1>3
<1>5. k = m
  BY <1>3, <1>4
<1> QED BY <1>5 DEF k

LEMMA MonthsGrow ==
  ASSUME NEW n \in Dates, NEW k \in Dates, n <= k
  PROVE  MonthOf[n] <= MonthOf[k]
<1> DEFINE i == MonthOf[n]
           j == MonthOf[k]
<1>1. /\ i \in Months /\ FirstDate[i] <= n /\ n < FirstDate[i + 1] /\ n \in Nat
      /\ j \in Months /\ FirstDate[j] <= k /\ k < FirstDate[j + 1] /\ k \in Nat
  BY MonthOfDate
<1>2. j + 1 = i \/ j + 1 < i => FirstDate[j + 1] <= FirstDate[i]
  BY <1>1, FirstDatesGrow, FirstDates, CalendarTypes
<1>3. FirstDate[i] \in Nat /\ FirstDate[j + 1] \in Nat /\ i \in Int /\ j \in Int
  BY <1>1, FirstDates, CalendarTypes
<1> HIDE DEF i, j
<1>4. i <= j
  BY <1>1, <1>2, <1>3
<1> QED BY <1>4 DEF i, j

\* A day of a month, and the date of one.
LEMMA DayOfDate ==
  ASSUME NEW n \in Dates
  PROVE  Day(n) \in 1..Calendar[MonthOf[n]] /\ FirstDate[MonthOf[n]] + Day(n) - 1 = n
<1> DEFINE m == MonthOf[n]
<1>1. /\ n \in Nat /\ m \in Months /\ FirstDate[m] <= n /\ n < FirstDate[m + 1]
      /\ FirstDate[m + 1] = FirstDate[m] + Calendar[m] /\ FirstDate[m] \in Nat /\ Calendar[m] \in Nat
  BY MonthOfDate, FirstDates, CalendarTypes
<1> QED BY <1>1 DEF Day

LEMMA DateOfDay ==
  ASSUME NEW m \in Months, NEW d \in 1..Calendar[m]
  PROVE  /\ FirstDate[m] + d - 1 \in Dates
         /\ MonthOf[FirstDate[m] + d - 1] = m /\ Day(FirstDate[m] + d - 1) = d
<1> DEFINE n == FirstDate[m] + d - 1
<1>1. /\ FirstDate[m] \in Nat /\ FirstDate[m + 1] = FirstDate[m] + Calendar[m] /\ Calendar[m] \in Nat
      /\ m + 1 \in Ends /\ Len(Calendar) + 1 \in Ends
      /\ m + 1 = Len(Calendar) + 1 \/ m + 1 < Len(Calendar) + 1
  BY FirstDates, CalendarTypes DEF Ends
<1>2. FirstDate[m + 1] <= FirstDate[Len(Calendar) + 1] /\ FirstDate[Len(Calendar) + 1] \in Nat
  BY <1>1, FirstDatesGrow, FirstDates
<1>3. n \in Dates /\ FirstDate[m] <= n /\ n < FirstDate[m + 1]
  BY <1>1, <1>2 DEF Dates
<1>4. MonthOf[n] = m
  BY <1>3, MonthIs
<1> QED BY <1>1, <1>3, <1>4 DEF Day

-----------------------------------------------------------------------------
(* _parse. *)

LEMMA MinOfTwo ==
  ASSUME NEW a \in Nat, NEW b \in Nat
  PROVE  Min({a, b}) = IF a <= b THEN a ELSE b
<1>1. Min({a, b}) \in {a, b} /\ Min({a, b}) <= a /\ Min({a, b}) <= b
  BY MinNat
<1> QED BY <1>1

LEMMA PeriodBounds ==
  ASSUME NEW p \in Periods
  PROVE  Highest[p] \in Nat /\ Lowest[p] \in Nat
BY CalendarAssumption DEF Periods, Highest, Lowest

\* "first multiple of step_ at or above the limit": a value of the range outside of its period.
LEMMA FirstBadOutside ==
  ASSUME NEW r \in Ranges, NEW limit \in Nat, r.lo < limit, r.step > 0
  PROVE  /\ FirstBad(r, limit) \in Nat /\ FirstBad(r, limit) >= limit
         /\ (FirstBad(r, limit) - r.lo) % r.step = 0
<1> DEFINE q == (-(limit - r.lo)) \div r.step
           m == (-(limit - r.lo)) % r.step
           s == r.step
           n == limit - r.lo
<1>1. r.lo \in Nat /\ s \in Nat \ {0} /\ n \in Nat \ {0} /\ limit = r.lo + n
  BY DEF Ranges
<1>2. q \in Int /\ m \in 0..(s - 1) /\ -n = (s * q) + m
  <2>1. -(limit - r.lo) \in Int
    BY <1>1
  <2> HIDE DEF s
  <2> QED BY <1>1, <2>1, DivMod DEF s
<1>3. FirstBad(r, limit) = r.lo + (-q) * s
  BY DEF FirstBad, CeilDiv
<1> HIDE DEF q, m, n, s
<1>4. (-q) * s \in Int /\ (-q) * s >= n
  BY <1>1, <1>2
<1>5. (r.lo + (-q) * s) - r.lo = (s * (-q)) + 0
  BY <1>1, <1>2
<1>6. -q \in Int /\ (r.lo + (-q) * s) - r.lo \in Int /\ 0 \in 0..(s - 1)
  BY <1>1, <1>2, <1>4
<1>7. ((r.lo + (-q) * s) - r.lo) % s = 0
  BY <1>1, <1>5, <1>6, DivUnique
<1>8. r.lo + (-q) * s \in Nat /\ r.lo + (-q) * s >= limit
  BY <1>1, <1>4
<1> QED BY <1>3, <1>7, <1>8 DEF s

\* The values of a range.
InRange(r) == {v \in r.lo..r.hi : (v - r.lo) % r.step = 0}

\* A list is whole, or it has a value outside of its period, which the range has too.
LEMMA ListWhole ==
  ASSUME NEW r \in Ranges, r.step > 0, NEW p \in Periods
  PROVE  /\ RangeToList(r, p) \subseteq InRange(r)
         /\ RangeToList(r, p) = InRange(r) \/ \E v \in RangeToList(r, p) : v > Highest[p]
<1> DEFINE limit == Highest[p] + 1
           bound == IF r.lo >= limit THEN r.lo + 1 ELSE FirstBad(r, limit) + 1
           stop == IF r.hi + 1 > limit THEN Min({r.hi + 1, bound}) ELSE r.hi + 1
<1>1. r.lo \in Nat /\ r.hi \in Nat /\ r.step \in Nat \ {0} /\ limit \in Nat /\ Highest[p] \in Nat
  BY PeriodBounds DEF Ranges
<1>2. r.lo < limit => /\ FirstBad(r, limit) \in Nat /\ FirstBad(r, limit) >= limit
                      /\ (FirstBad(r, limit) - r.lo) % r.step = 0
  BY <1>1, FirstBadOutside
<1>3. RangeToList(r, p) = {i \in r.lo..(stop - 1) : (i - r.lo) % r.step = 0}
  BY DEF RangeToList
<1>4. /\ bound \in Nat /\ bound > limit /\ bound > r.lo
      /\ bound - 1 \in Nat /\ ((bound - 1) - r.lo) % r.step = 0
  <2>1. CASE r.lo >= limit
    <3>1. (r.lo - r.lo) % r.step = 0
      BY <1>1
    <3> QED BY <1>1, <2>1, <3>1
  <2>2. CASE r.lo < limit
    BY <1>1, <1>2, <2>2
  <2> QED BY <1>1, <2>1, <2>2
<1> HIDE DEF bound
<1>5. stop = r.hi + 1 \/ (stop = bound /\ stop < r.hi + 1)
  BY <1>1, <1>4, MinOfTwo
<1>6. CASE stop = r.hi + 1
  <2>1. stop - 1 = r.hi
    BY <1>1, <1>6
  <2> HIDE DEF stop
  <2> QED BY <1>3, <2>1 DEF InRange
<1>7. CASE stop = bound /\ stop < r.hi + 1
  <2> HIDE DEF stop
  <2>1. RangeToList(r, p) \subseteq InRange(r)
    BY <1>1, <1>3, <1>4, <1>7 DEF InRange
  <2>2. bound - 1 \in RangeToList(r, p)
    BY <1>1, <1>3, <1>4, <1>7
  <2>3. bound - 1 > Highest[p]
    BY <1>1, <1>4 DEF limit
  <2> QED BY <2>1, <2>2, <2>3
<1> QED BY <1>5, <1>6, <1>7

\* The fields of a line.
LineOK == \A p \in Periods : cron[p] \subseteq IF p = "dom" THEN Ranges \union {LastDay} ELSE Ranges

\* _parse rejects a field exactly if it is wrong, and takes a right one as it is written.
LEMMA BadIsWrong ==
  ASSUME LineOK, NEW p \in Given
  PROVE  /\ Bad(p) <=> ~FieldRight(p)
         /\ ~Bad(p) /\ cron[p] # {LastDay} => Values(p) = Written(p)
<1> DEFINE rs == cron[p] \ {LastDay}
<1>1. p \in Periods /\ cron[p] # {} /\ rs \subseteq Ranges /\ Highest[p] \in Nat /\ Lowest[p] \in Nat
  BY PeriodBounds DEF LineOK, Given
<1>2. CASE \E r \in rs : r.step = 0
  <2>1. Bad(p)
    BY <1>2 DEF Bad
  <2>2. ~FieldRight(p)
    BY <1>2 DEF FieldRight
  <2> QED BY <2>1, <2>2
<1>3. CASE \A r \in rs : r.step # 0
  <2>1. \A r \in rs : r \in Ranges /\ r.step > 0
    BY <1>1, <1>3 DEF Ranges
  <2>2. Written(p) = UNION {InRange(r) : r \in rs}
    BY <2>1 DEF Written, InRange
  <2>3. Values(p) = UNION {RangeToList(r, p) : r \in rs}
    BY DEF Values
  <2>4. \A r \in rs : /\ RangeToList(r, p) \subseteq InRange(r)
                      /\ RangeToList(r, p) = InRange(r) \/ \E v \in RangeToList(r, p) : v > Highest[p]
    BY <1>1, <2>1, ListWhole
  <2>5. Values(p) \subseteq Written(p) /\ (Values(p) = Written(p) \/ \E v \in Values(p) : v > Highest[p])
    BY <2>2, <2>3, <2>4
  <2>6. Written(p) \subseteq Nat
    BY <2>1, <2>2 DEF InRange, Ranges
  <2>7. CASE cron[p] = {LastDay}
    <3>1. Values(p) = {}
      BY <2>3, <2>7
    <3> QED BY <1>3, <2>7, <3>1 DEF Bad, FieldRight
  <2>8. CASE cron[p] # {LastDay}
    <3>1. Bad(p) <=> \/ Values(p) = {} \/ LastDay \in cron[p]
                     \/ \E v \in Values(p) : v < Lowest[p] \/ v > Highest[p]
      BY <1>3, <2>8 DEF Bad
    <3>2. FieldRight(p) <=> /\ LastDay \notin cron[p] /\ Written(p) # {}
                            /\ Written(p) \subseteq Lowest[p]..Highest[p]
      BY <2>1, <2>8 DEF FieldRight
    <3>3. Written(p) \subseteq Lowest[p]..Highest[p] <=> \A v \in Written(p) : ~(v < Lowest[p]) /\ ~(v > Highest[p])
      BY <1>1, <2>6
    <3>4. CASE Values(p) = Written(p)
      BY <3>1, <3>2, <3>3, <3>4
    <3>5. CASE \E v \in Values(p) : v > Highest[p]
      BY <2>5, <3>1, <3>2, <3>3, <3>5
    <3> QED BY <2>5, <3>4, <3>5
  <2> QED BY <2>7, <2>8
<1> QED BY <1>2, <1>3

\* What _parse has made of the line.
Parsed == step \in {"date", "ready", "raised"} =>
  /\ task = [p \in Given |-> IF cron[p] = {LastDay} THEN {LastDay} ELSE Written(p)]
  /\ \A p \in Given : FieldRight(p)
Refused == step = "refused" => \E p \in Given : ~FieldRight(p)

LEMMA ParseRight ==
  ASSUME LineOK, Parse
  PROVE  LineOK' /\ Parsed' /\ Refused'
<1>1. LineOK' /\ Given' = Given /\ \A p : Written(p)' = Written(p) /\ (FieldRight(p)' <=> FieldRight(p))
  BY DEF Parse, LineOK, Given, Written, FieldRight
<1>2. CASE \E p \in Given : Bad(p)
  <2>1. step' = "refused" /\ \E p \in Given : ~FieldRight(p)
    BY <1>2, BadIsWrong DEF Parse
  <2> QED BY <1>1, <2>1 DEF Parsed, Refused
<1>3. CASE ~\E p \in Given : Bad(p)
  <2>1. step' = "date" /\ task' = [p \in Given |-> IF cron[p] = {LastDay} THEN {LastDay} ELSE Values(p)]
    BY <1>3 DEF Parse
  <2>2. \A p \in Given : FieldRight(p) /\ (cron[p] # {LastDay} => Values(p) = Written(p))
    BY <1>3, BadIsWrong
  <2>3. cron' = cron
    BY DEF Parse
  <2> QED BY <1>1, <2>1, <2>2, <2>3 DEF Parsed, Refused
<1> QED BY <1>2, <1>3

\* Every step keeps what _parse has found out.
LEMMA ParsedNext ==
  LineOK /\ Parsed /\ Refused /\ [LineNext]_lineVars => LineOK' /\ Parsed' /\ Refused'
<1> SUFFICES ASSUME LineOK, Parsed, Refused, [LineNext]_lineVars
             PROVE  LineOK' /\ Parsed' /\ Refused'
  OBVIOUS
<1>1. CASE Create
  <2>1. cron' \in Lines /\ step' = "made"
    BY <1>1 DEF Create
  <2> QED BY <2>1, LineAssumption DEF LineOK, Parsed, Refused
<1>2. CASE Parse
  BY <1>2, ParseRight
<1>3. ASSUME UNCHANGED <<cron, task>>, \/ UNCHANGED step
                                       \/ step \in {"date", "ready"} /\ step' \in {"date", "ready", "raised"}
      PROVE  LineOK' /\ Parsed' /\ Refused'
  <2>1. LineOK' /\ Given' = Given /\ \A p : Written(p)' = Written(p) /\ (FieldRight(p)' <=> FieldRight(p))
    BY <1>3 DEF LineOK, Given, Written, FieldRight
  <2> QED BY <1>3, <2>1 DEF Parsed, Refused
<1>4. CASE Round
  <2>1. step = "date" /\ step' \in {"date", "ready", "raised"} /\ UNCHANGED <<cron, task>>
    BY <1>4 DEF Round
  <2> QED BY <1>3, <2>1
<1>5. CASE Again
  BY <1>3, <1>5 DEF Again
<1>6. CASE UNCHANGED lineVars
  BY <1>3, <1>6 DEF lineVars
<1> QED BY <1>1, <1>2, <1>4, <1>5, <1>6 DEF LineNext

LEMMA ParsedInit == LineInit => LineOK /\ Parsed /\ Refused
BY DEF LineInit, NoLine, LineOK, Parsed, Refused

\* A line is rejected exactly when a field of it is wrong, and an accepted one has the values
\* it says: _rangetolist may cut lists short because what it cuts is rejected anyway.
THEOREM ParsedRight == LineSpec => []ParsedAsWritten
<1>1. LineOK /\ Parsed /\ Refused => ParsedAsWritten
  BY DEF Parsed, Refused, ParsedAsWritten
<1> QED BY <1>1, ParsedInit, ParsedNext, PTL DEF LineSpec

-----------------------------------------------------------------------------
(* Times of the day. *)

Index(t) == t \div MinutesPerHour     \* the hour of t, since the calendar began

LEMMA ClockTypes ==
  /\ MinutesPerHour \in Nat \ {0} /\ HoursPerDay \in Nat \ {0}
  /\ \A t \in Nat : /\ Index(t) \in Nat /\ Minute(t) \in 0..(MinutesPerHour - 1)
                    /\ Hour(t) \in 0..(HoursPerDay - 1) /\ Date(t) \in Nat
                    /\ t = (MinutesPerHour * Index(t)) + Minute(t)
                    /\ Index(t) = (HoursPerDay * Date(t)) + Hour(t)
<1>1. MinutesPerHour \in Nat \ {0} /\ HoursPerDay \in Nat \ {0}
  BY CalendarAssumption
<1>2. ASSUME NEW t \in Nat
      PROVE  /\ Index(t) \in Nat /\ Minute(t) \in 0..(MinutesPerHour - 1)
             /\ t = (MinutesPerHour * Index(t)) + Minute(t)
  BY <1>1, DivMod, DivNat DEF Index, Minute
<1>3. ASSUME NEW t \in Nat
      PROVE  /\ Hour(t) \in 0..(HoursPerDay - 1) /\ Date(t) \in Nat
             /\ Index(t) = (HoursPerDay * Date(t)) + Hour(t)
  <2> DEFINE h == t \div MinutesPerHour
  <2>1. h \in Nat
    BY <1>2 DEF Index
  <2> HIDE DEF h
  <2>2. /\ h % HoursPerDay \in 0..(HoursPerDay - 1) /\ h \div HoursPerDay \in Nat
        /\ h = (HoursPerDay * (h \div HoursPerDay)) + (h % HoursPerDay)
    <3>1. h \in Int
      BY <2>1
    <3>2. h \div HoursPerDay \in Nat
      BY <1>1, <2>1, DivNat
    <3> QED BY <1>1, <3>1, <3>2, DivMod
  <2> QED BY <2>2 DEF h, Hour, Date, Index
<1> QED BY <1>1, <1>2, <1>3

\* Later times have no earlier hours, later hours no earlier dates.
LEMMA ClockGrows ==
  ASSUME NEW t \in Nat, NEW u \in Nat
  PROVE  /\ t <= u => Index(t) <= Index(u)
         /\ Index(t) <= Index(u) => Date(t) <= Date(u)
         /\ Index(t) < Index(u) => t < u
         /\ Date(t) < Date(u) => t < u
         /\ Index(u) <= Index(t) + HoursPerDay => Date(u) <= Date(t) + 1
<1>1. ASSUME NEW a \in Nat, NEW b \in Nat, a <= b PROVE Index(a) <= Index(b)
  BY <1>1, ClockTypes, DivMonotone DEF Index
<1>2. ASSUME NEW a \in Nat, NEW b \in Nat, Index(a) <= Index(b) PROVE Date(a) <= Date(b)
  <2>1. Date(a) = Index(a) \div HoursPerDay /\ Date(b) = Index(b) \div HoursPerDay
    BY DEF Date, Index
  <2>2. Index(a) \in Int /\ Index(b) \in Int /\ HoursPerDay \in Nat \ {0}
    BY ClockTypes
  <2> QED BY <1>2, <2>1, <2>2, DivMonotone
<1>3. Index(u) <= Index(t) + HoursPerDay => Date(u) <= Date(t) + 1
  <2>1. /\ Date(t) = Index(t) \div HoursPerDay /\ Date(u) = Index(u) \div HoursPerDay
        /\ Index(t) \in Int /\ Index(u) \in Int /\ HoursPerDay \in Nat \ {0}
    BY ClockTypes DEF Date, Index
  <2>2. ASSUME NEW i \in Int, NEW b \in Nat \ {0}
        PROVE  i + b \in Int /\ (i + b) \div b = (i \div b) + 1
    <3> DEFINE q == i \div b
               r == i % b
    <3>1. q \in Int /\ r \in 0..(b - 1) /\ i = (b * q) + r
      BY DivMod
    <3> HIDE DEF q, r
    <3>2. i + b = (b * (q + 1)) + r /\ q + 1 \in Int /\ i + b \in Int
      BY <3>1
    <3>3. (i + b) \div b = q + 1
      BY <3>1, <3>2, DivUnique
    <3> QED BY <3>2, <3>3 DEF q
  <2>3. /\ (Index(t) + HoursPerDay) \div HoursPerDay = Date(t) + 1
        /\ Index(t) + HoursPerDay \in Int
    BY <2>1, <2>2
  <2> QED BY <2>1, <2>2, <2>3, DivMonotone
<1>4. /\ Index(t) \in Nat /\ Index(u) \in Nat /\ Date(t) \in Nat /\ Date(u) \in Nat
  BY ClockTypes
<1> QED BY <1>1, <1>2, <1>3, <1>4

\* Midnight is the first time of its date.
LEMMA MidnightFirst ==
  ASSUME NEW n \in Nat
  PROVE  /\ Midnight(n) \in Nat /\ Index(Midnight(n)) = HoursPerDay * n
         /\ Minute(Midnight(n)) = 0 /\ Hour(Midnight(n)) = 0 /\ Date(Midnight(n)) = n
         /\ \A t \in Nat : n <= Date(t) => Midnight(n) <= t
<1> DEFINE h == HoursPerDay * n
           m == Midnight(n)
<1>1. /\ MinutesPerHour \in Nat \ {0} /\ HoursPerDay \in Nat \ {0}
      /\ 0 \in 0..(MinutesPerHour - 1) /\ 0 \in 0..(HoursPerDay - 1)
  BY ClockTypes
<1>2. h \in Nat /\ m \in Nat /\ m = (MinutesPerHour * h) + 0 /\ h = (HoursPerDay * n) + 0
  BY <1>1 DEF Midnight
<1>3. m \div MinutesPerHour = h /\ m % MinutesPerHour = 0
  BY <1>1, <1>2, DivUnique
<1>4. h \div HoursPerDay = n /\ h % HoursPerDay = 0
  BY <1>1, <1>2, DivUnique
<1>5. Index(m) = h /\ Minute(m) = 0 /\ Hour(m) = 0 /\ Date(m) = n
  BY <1>3, <1>4 DEF Index, Minute, Hour, Date
<1>6. ASSUME NEW t \in Nat, n <= Date(t) PROVE m <= t
  <2>1. /\ t = (MinutesPerHour * Index(t)) + Minute(t) /\ Minute(t) >= 0 /\ Minute(t) \in Nat
        /\ Index(t) = (HoursPerDay * Date(t)) + Hour(t) /\ Hour(t) >= 0 /\ Hour(t) \in Nat
        /\ Index(t) \in Nat /\ Date(t) \in Nat
    BY ClockTypes
  <2>2. HoursPerDay * n <= HoursPerDay * Date(t)
    BY <1>1, <1>6, <2>1
  <2>3. h <= Index(t)
    BY <1>1, <2>1, <2>2
  <2> HIDE DEF h, m
  <2>4. MinutesPerHour * h <= MinutesPerHour * Index(t)
    BY <1>1, <1>2, <2>1, <2>3
  <2> QED BY <1>1, <1>2, <2>1, <2>4
<1> QED BY <1>2, <1>5, <1>6

\* The minute after a time is of its date, or midnight of the next.
LEMMA NextUnit ==
  ASSUME NEW a \in Nat, NEW b \in Nat \ {0}
  PROVE  \/ (a + 1) \div b = a \div b
         \/ (a + 1) \div b = (a \div b) + 1 /\ a + 1 = b * ((a \div b) + 1)
<1> DEFINE q == a \div b
           r == a % b
<1>1. q \in Int /\ r \in 0..(b - 1) /\ a = (b * q) + r
  BY DivMod
<1> HIDE DEF q, r
<1>2. CASE r + 1 < b
  <2>1. r + 1 \in 0..(b - 1) /\ a + 1 \in Int /\ a + 1 = (b * q) + (r + 1)
    BY <1>1, <1>2
  <2> QED BY <1>1, <2>1, DivUnique DEF q
<1>3. CASE r + 1 >= b
  <2>1. r + 1 = b /\ 0 \in 0..(b - 1) /\ q + 1 \in Int /\ a + 1 \in Int
    BY <1>1, <1>3
  <2>2. a + 1 = b * (q + 1) /\ b * (q + 1) \in Int
    BY <1>1, <2>1
  <2>3. (a + 1) \div b = q + 1
    BY <2>1, <2>2, DivUnique
  <2> QED BY <2>2, <2>3 DEF q
<1> QED BY <1>1, <1>2, <1>3

LEMMA MinuteAfter ==
  ASSUME NEW t \in Nat
  PROVE  Date(t + 1) = Date(t) \/ (Date(t + 1) = Date(t) + 1 /\ t + 1 = Midnight(Date(t) + 1))
<1> DEFINE h == Index(t)
<1>1. h \in Nat /\ MinutesPerHour \in Nat \ {0} /\ HoursPerDay \in Nat \ {0} /\ Date(t) \in Nat
  BY ClockTypes
<1>2. \/ Index(t + 1) = h
      \/ Index(t + 1) = h + 1 /\ t + 1 = MinutesPerHour * (h + 1)
  BY <1>1, NextUnit DEF Index
<1>3. Date(t) = h \div HoursPerDay /\ Date(t + 1) = Index(t + 1) \div HoursPerDay
  BY DEF Date, Index
<1> HIDE DEF h
<1>4. CASE Index(t + 1) = h
  BY <1>3, <1>4
<1>5. CASE Index(t + 1) = h + 1 /\ t + 1 = MinutesPerHour * (h + 1)
  <2>1. \/ (h + 1) \div HoursPerDay = h \div HoursPerDay
        \/ (h + 1) \div HoursPerDay = (h \div HoursPerDay) + 1 /\ h + 1 = HoursPerDay * ((h \div HoursPerDay) + 1)
    BY <1>1, NextUnit
  <2>2. ASSUME NEW n \in Nat, h + 1 = HoursPerDay * n PROVE t + 1 = Midnight(n)
    <3>1. t + 1 = MinutesPerHour * (HoursPerDay * n)
      BY <1>5, <2>2
    <3> QED BY <1>1, <3>1 DEF Midnight
  <2> QED BY <1>1, <1>3, <1>5, <2>1, <2>2
<1> QED BY <1>2, <1>4, <1>5

-----------------------------------------------------------------------------
(* _getnext_hhmm. *)

\* Its loops end, because a line that was accepted has minutes and hours that there are.
Usable ==
  /\ Has("min") => task["min"] # {} /\ task["min"] \subseteq 0..(MinutesPerHour - 1)
  /\ Has("hr") => task["hr"] # {} /\ task["hr"] \subseteq 0..(HoursPerDay - 1)

LEMMA ParsedUsable ==
  ASSUME LineOK, Parsed, step = "date"
  PROVE  Usable
<1>1. ASSUME NEW p \in {"min", "hr"}, Has(p)
      PROVE  task[p] # {} /\ task[p] \subseteq Lowest[p]..Highest[p]
  <2>1. p \in Given /\ cron[p] # {} /\ cron[p] \subseteq Ranges /\ FieldRight(p)
    BY <1>1 DEF Parsed, Has, Given, LineOK, Periods
  <2>2. cron[p] # {LastDay}
    BY <2>1, LineAssumption
  <2>3. task[p] = Written(p)
    BY <2>1, <2>2 DEF Parsed
  <2> QED BY <2>1, <2>2, <2>3 DEF FieldRight
<1>2. Lowest["min"] = 0 /\ Lowest["hr"] = 0 /\ Highest["min"] = MinutesPerHour - 1 /\ Highest["hr"] = HoursPerDay - 1
  BY DEF Lowest, Highest
<1> QED BY <1>1, <1>2 DEF Usable

\* The first minute that fits, within the hour.
LEMMA MinuteFound ==
  ASSUME NEW t \in Nat, Usable
  PROVE  /\ NextMinute(t) \in Nat /\ t <= NextMinute(t) /\ NextMinute(t) < t + MinutesPerHour
         /\ Has("min") => Minute(NextMinute(t)) \in task["min"]
         /\ ~Has("min") => NextMinute(t) = t
         /\ \A u \in Nat : t <= u /\ u < NextMinute(t) => Has("min") /\ Minute(u) \notin task["min"]
<1> DEFINE Good(u) == Has("min") => Minute(u) \in task["min"]
           S == {u \in t..(t + MinutesPerHour) : Good(u)}
<1>1. MinutesPerHour \in Nat \ {0} /\ S \subseteq Nat
  BY ClockTypes
<1>2. \E k \in 0..(MinutesPerHour - 1) : Good(t + k) /\ (~Has("min") => k = 0)
  <2>1. CASE ~Has("min")
    BY <1>1, <2>1
  <2>2. CASE Has("min")
    <3>1. PICK v \in task["min"] : v \in 0..(MinutesPerHour - 1)
      BY <2>2 DEF Usable
    <3>2. \E k \in 0..(MinutesPerHour - 1) : (t + k) % MinutesPerHour = v
      BY <1>1, <3>1, Cycle
    <3> QED BY <2>2, <3>1, <3>2 DEF Minute
  <2> QED BY <2>1, <2>2
<1>3. PICK k \in 0..(MinutesPerHour - 1) : Good(t + k) /\ (~Has("min") => k = 0)
  BY <1>2
<1>4. t + k \in S /\ t + k < t + MinutesPerHour
  BY <1>1, <1>3
<1> DEFINE r == NextMinute(t)
<1>5. r = Min(S)
  BY DEF NextMinute
<1>6. r \in S /\ r \in Nat /\ \A u \in S : r <= u
  <2> HIDE DEF S, r
  <2> QED BY <1>1, <1>4, <1>5, MinNat
<1>7. /\ r <= t + k /\ t <= r
      /\ Good(r)
      /\ \A u \in Nat : t <= u /\ u < r => ~Good(u)
  <2> HIDE DEF r, Good
  <2> QED BY <1>1, <1>4, <1>6
<1> HIDE DEF r
<1>8. r < t + MinutesPerHour /\ (~Has("min") => r = t)
  BY <1>1, <1>3, <1>6, <1>7
<1> QED BY <1>6, <1>7, <1>8 DEF r

\* Hours later: the minute stays.
LEMMA HoursLater ==
  ASSUME NEW t \in Nat, NEW k \in Nat
  PROVE  /\ t + k * MinutesPerHour \in Nat /\ t <= t + k * MinutesPerHour
         /\ Index(t + k * MinutesPerHour) = Index(t) + k
         /\ Minute(t + k * MinutesPerHour) = Minute(t)
         /\ Hour(t + k * MinutesPerHour) = (Index(t) + k) % HoursPerDay
<1>1. t \in Int /\ k \in Int /\ MinutesPerHour \in Nat \ {0}
  BY ClockTypes
<1>2. k * MinutesPerHour \in Nat
  BY <1>1
<1>3. (t + k * MinutesPerHour) \div MinutesPerHour = (t \div MinutesPerHour) + k
  BY <1>1, DivAdd
<1>4. (t + k * MinutesPerHour) % MinutesPerHour = t % MinutesPerHour
  BY <1>1, DivAdd
<1> QED BY <1>2, <1>3, <1>4 DEF Index, Minute, Hour

\* The first hour that fits, within the day.
LEMMA HourFound ==
  ASSUME NEW t \in Nat, Usable
  PROVE  \E k \in 0..(HoursPerDay - 1) :
           /\ NextHour(t) = t + k * MinutesPerHour
           /\ Has("hr") => (Index(t) + k) % HoursPerDay \in task["hr"]
           /\ ~Has("hr") => k = 0
           /\ \A i \in Nat : i < k => (Index(t) + i) % HoursPerDay \notin task["hr"]
<1> DEFINE Good(k) == Has("hr") => Hour(t + k * MinutesPerHour) \in task["hr"]
           S == {k \in 0..HoursPerDay : Good(k)}
<1>1. HoursPerDay \in Nat \ {0} /\ S \subseteq Nat /\ Index(t) \in Nat
  BY ClockTypes
<1>2. \A k \in Nat : Hour(t + k * MinutesPerHour) = (Index(t) + k) % HoursPerDay
  BY HoursLater
<1>3. \E k \in 0..(HoursPerDay - 1) : Good(k) /\ (~Has("hr") => k = 0)
  <2>1. CASE ~Has("hr")
    BY <1>1, <2>1
  <2>2. CASE Has("hr")
    <3>1. PICK v \in task["hr"] : v \in 0..(HoursPerDay - 1)
      BY <2>2 DEF Usable
    <3>2. PICK k \in 0..(HoursPerDay - 1) : (Index(t) + k) % HoursPerDay = v
      BY <1>1, <3>1, Cycle
    <3>3. Hour(t + k * MinutesPerHour) = v
      BY <1>2, <3>2
    <3> QED BY <2>2, <3>1, <3>3
  <2> QED BY <2>1, <2>2
<1>4. PICK j \in 0..(HoursPerDay - 1) : Good(j) /\ (~Has("hr") => j = 0)
  BY <1>3
<1> DEFINE k == Min(S)
<1>5. j \in S
  BY <1>1, <1>4
<1>6. k \in S /\ k \in Nat /\ \A i \in S : k <= i
  <2> HIDE DEF S
  <2> QED BY <1>1, <1>5, MinNat
<1>7. NextHour(t) = t + k * MinutesPerHour
  BY DEF NextHour
<1>8. k <= j /\ k \in 0..(HoursPerDay - 1) /\ Good(k) /\ (~Has("hr") => k = 0)
  <2> HIDE DEF k
  <2> QED BY <1>1, <1>4, <1>5, <1>6
<1>9. \A i \in Nat : i < k => ~Good(i)
  <2> HIDE DEF k, Good
  <2> QED BY <1>1, <1>6, <1>8
<1> HIDE DEF k
<1>10. /\ Has("hr") => (Index(t) + k) % HoursPerDay \in task["hr"]
       /\ \A i \in Nat : i < k => (Index(t) + i) % HoursPerDay \notin task["hr"]
  BY <1>2, <1>6, <1>8, <1>9
<1> HIDE DEF Good
<1> QED BY <1>7, <1>8, <1>10

\* The time that _getnext_hhmm finds, and the times before it that fit: those have its hour.
LEMMA HhmmFound ==
  ASSUME NEW t \in Nat, Usable
  PROVE  /\ NextHhmm(t) \in Nat /\ t <= NextHhmm(t) /\ TimeFits(NextHhmm(t))
         /\ Index(NextHhmm(t)) <= Index(NextMinute(t)) + HoursPerDay - 1
         /\ Minute(NextHhmm(t)) = Minute(NextMinute(t))
         /\ \A u \in Nat : t <= u /\ u < NextHhmm(t) /\ TimeFits(u) =>
              Has("hr") /\ Index(u) = Index(NextHhmm(t))
<1> DEFINE m == NextMinute(t)
           r == NextHhmm(t)
<1>1. /\ m \in Nat /\ t <= m
      /\ Has("min") => Minute(m) \in task["min"]
      /\ \A u \in Nat : t <= u /\ u < m => Has("min") /\ Minute(u) \notin task["min"]
  BY MinuteFound
<1> HIDE DEF m
<1>2. r = NextHour(m)
  BY DEF NextHhmm, m
<1>3. PICK k \in 0..(HoursPerDay - 1) :
        /\ r = m + k * MinutesPerHour
        /\ Has("hr") => (Index(m) + k) % HoursPerDay \in task["hr"]
        /\ ~Has("hr") => k = 0
        /\ \A i \in Nat : i < k => (Index(m) + i) % HoursPerDay \notin task["hr"]
  BY <1>1, <1>2, HourFound
<1> HIDE DEF r
<1>4. /\ r \in Nat /\ m <= r /\ Index(r) = Index(m) + k /\ Minute(r) = Minute(m)
      /\ Hour(r) = (Index(m) + k) % HoursPerDay /\ k \in Nat /\ k <= HoursPerDay - 1
      /\ HoursPerDay \in Nat /\ Index(m) \in Nat
  BY <1>1, <1>3, HoursLater, ClockTypes
<1>5. TimeFits(r)
  BY <1>1, <1>3, <1>4 DEF TimeFits
<1>6. ASSUME NEW u \in Nat, t <= u, u < r, TimeFits(u)
      PROVE  Has("hr") /\ Index(u) = Index(r)
  <2>1. m <= u
    BY <1>1, <1>6 DEF TimeFits
  <2>2. Index(m) <= Index(u) /\ Index(u) <= Index(r) /\ Index(u) \in Nat
    BY <1>1, <1>4, <1>6, <2>1, ClockGrows, ClockTypes
  <2>3. Has("hr")
    <3>1. ~Has("hr") => r = m
      BY <1>1, <1>3, HoursLater, ClockTypes
    <3> QED BY <1>1, <1>6, <2>1, <3>1
  <2>4. Hour(u) = Index(u) % HoursPerDay /\ Hour(u) \in task["hr"]
    BY <1>6, <2>3 DEF Hour, Index, TimeFits
  <2>5. Index(u) - Index(m) \in Nat /\ Index(m) + (Index(u) - Index(m)) = Index(u)
    BY <1>4, <2>2
  <2>6. ~(Index(u) - Index(m) < k)
    BY <1>3, <2>4, <2>5
  <2> QED BY <1>4, <2>2, <2>3, <2>5, <2>6
<1>7. t <= r /\ Index(r) <= Index(m) + HoursPerDay - 1
  BY <1>1, <1>4
<1> QED BY <1>4, <1>5, <1>6, <1>7 DEF r, m

\* From midnight the minute is found in the first hour, and the hour after it: this is the
\* first time of the date that fits.
LEMMA FromMidnight ==
  ASSUME NEW n \in Nat, Usable
  PROVE  /\ Date(NextHhmm(Midnight(n))) = n
         /\ \A u \in Nat : Midnight(n) <= u /\ u < NextHhmm(Midnight(n)) => ~TimeFits(u)
<1> DEFINE t == Midnight(n)
           m == NextMinute(t)
           r == NextHhmm(t)
           h == HoursPerDay * n
<1>1. /\ t \in Nat /\ Index(t) = h /\ Minute(t) = 0 /\ MinutesPerHour \in Nat \ {0} /\ HoursPerDay \in Nat \ {0}
      /\ h \in Nat
  BY MidnightFirst, ClockTypes
<1>2. t = MinutesPerHour * h
  BY <1>1, ClockTypes
<1> HIDE DEF t, h
<1>3. /\ m \in Nat /\ t <= m /\ m < t + MinutesPerHour
      /\ \A u \in Nat : t <= u /\ u < m => Has("min") /\ Minute(u) \notin task["min"]
  BY <1>1, MinuteFound
<1>4. /\ r \in Nat /\ t <= r /\ TimeFits(r)
      /\ Index(r) <= Index(m) + HoursPerDay - 1 /\ Minute(r) = Minute(m)
      /\ \A u \in Nat : t <= u /\ u < r /\ TimeFits(u) => Has("hr") /\ Index(u) = Index(r)
  BY <1>1, HhmmFound
<1> HIDE DEF m, r
<1>5. ASSUME NEW v \in 0..(MinutesPerHour - 1) PROVE Index(t + v) = h /\ Minute(t + v) = v
  <2>1. t + v \in Int /\ h \in Int /\ t + v = (MinutesPerHour * h) + v
    BY <1>1, <1>2
  <2> QED BY <1>1, <2>1, DivUnique DEF Index, Minute
<1>6. m - t \in 0..(MinutesPerHour - 1) /\ t + (m - t) = m
  BY <1>1, <1>3
<1>7. Index(m) = h /\ Minute(m) = m - t
  BY <1>5, <1>6
<1>8. Index(r) \in Nat /\ Index(r) - h \in 0..(HoursPerDay - 1)
  <2>1. Index(t) <= Index(r) /\ Index(r) \in Nat
    BY <1>1, <1>4, ClockGrows, ClockTypes
  <2> QED BY <1>1, <1>4, <1>7, <2>1
<1>9. Date(r) = n
  <2>1. Index(r) = (HoursPerDay * n) + (Index(r) - h)
    BY <1>1, <1>8 DEF h
  <2>2. Index(r) \div HoursPerDay = n
    BY <1>1, <1>8, <2>1, DivUnique
  <2> QED BY <2>2 DEF Date, Index
<1>10. ASSUME NEW u \in Nat, t <= u, u < r, TimeFits(u) PROVE FALSE
  <2>1. Index(u) = Index(r)
    BY <1>4, <1>10
  <2>2. /\ u = (MinutesPerHour * Index(u)) + Minute(u) /\ Minute(u) \in 0..(MinutesPerHour - 1)
        /\ r = (MinutesPerHour * Index(r)) + Minute(r) /\ Minute(r) \in 0..(MinutesPerHour - 1)
    BY <1>1, <1>4, <1>8, ClockTypes
  <2>3. Minute(u) < m - t
    <3>1. MinutesPerHour * Index(r) \in Int
      BY <1>1, <1>8
    <3> QED BY <1>4, <1>7, <1>10, <2>1, <2>2, <3>1
  <2>4. t + Minute(u) \in Nat /\ t <= t + Minute(u) /\ t + Minute(u) < m /\ Minute(t + Minute(u)) = Minute(u)
    BY <1>1, <1>3, <1>5, <2>2, <2>3
  <2> QED BY <1>3, <1>10, <2>4 DEF TimeFits
<1> QED BY <1>9, <1>10 DEF t, r

\* From the next minute: a time of this date, or of the next one if none is left on this.
LEMMA NextTime ==
  ASSUME NEW t \in Nat, Usable
  PROVE  /\ t < NextHhmm(t + 1)
         /\ Date(NextHhmm(t + 1)) \in {Date(t), Date(t) + 1}
         /\ Date(NextHhmm(t + 1)) # Date(t) =>
              \A u \in Nat : t < u /\ Date(u) = Date(t) => ~TimeFits(u)
<1> DEFINE x == t + 1
           m == NextMinute(x)
           r == NextHhmm(x)
<1>1. x \in Nat /\ MinutesPerHour \in Nat \ {0} /\ HoursPerDay \in Nat \ {0} /\ Date(t) \in Nat
  BY ClockTypes
<1>2. m \in Nat /\ x <= m /\ m < x + MinutesPerHour
  BY <1>1, MinuteFound
<1>3. /\ r \in Nat /\ x <= r /\ Index(r) <= Index(m) + HoursPerDay - 1
      /\ \A u \in Nat : x <= u /\ u < r /\ TimeFits(u) => Has("hr") /\ Index(u) = Index(r)
  BY <1>1, HhmmFound
<1>4. Date(x) = Date(t) \/ (Date(x) = Date(t) + 1 /\ x = Midnight(Date(t) + 1))
  BY MinuteAfter
<1>5. t < r /\ Date(t) <= Date(r)
  <2>1. t < r
    BY <1>1, <1>3
  <2> HIDE DEF r
  <2> QED BY <1>3, <2>1, ClockGrows
<1>6. Date(r) \in {Date(t), Date(t) + 1}
  <2>1. CASE Date(x) = Date(t)
    <3>1. /\ x + 1 * MinutesPerHour \in Nat /\ Index(x + 1 * MinutesPerHour) = Index(x) + 1
      <4>1. 1 \in Nat
        OBVIOUS
      <4> HIDE DEF x
      <4> QED BY <1>1, <4>1, HoursLater
    <3>2. x + 1 * MinutesPerHour = x + MinutesPerHour
      BY <1>1
    <3> HIDE DEF x, m, r
    <3>3. Index(m) <= Index(x + MinutesPerHour)
      BY <1>1, <1>2, ClockGrows
    <3>4. Index(m) <= Index(x) + 1 /\ Index(x) \in Nat /\ Index(m) \in Nat /\ Index(r) \in Nat
      BY <1>1, <1>2, <1>3, <3>1, <3>2, <3>3, ClockTypes
    <3>5. Index(r) <= Index(x) + HoursPerDay
      BY <1>1, <1>3, <3>4
    <3>6. Date(r) <= Date(x) + 1 /\ Date(r) \in Nat
      BY <1>1, <1>3, <3>5, ClockGrows, ClockTypes
    <3> QED BY <1>1, <1>5, <2>1, <3>6
  <2>2. CASE x = Midnight(Date(t) + 1)
    <3>1. Date(t) + 1 \in Nat
      BY <1>1
    <3> HIDE DEF x
    <3>2. Date(NextHhmm(Midnight(Date(t) + 1))) = Date(t) + 1
      BY <3>1, FromMidnight
    <3> QED BY <2>2, <3>2
  <2> QED BY <1>4, <2>1, <2>2
<1>7. ASSUME Date(r) # Date(t), NEW u \in Nat, t < u, Date(u) = Date(t), TimeFits(u) PROVE FALSE
  <2>1. x <= u
    BY <1>7
  <2> HIDE DEF x, r
  <2>2. Date(u) < Date(r)
    BY <1>1, <1>6, <1>7
  <2>3. u < r
    BY <1>3, <2>2, ClockGrows
  <2>4. Index(u) = Index(r)
    BY <1>3, <1>7, <2>1, <2>3
  <2> QED BY <1>7, <2>4 DEF Date, Index
<1> QED BY <1>5, <1>6, <1>7

-----------------------------------------------------------------------------
(* _getnext_date. *)

\* The first of the dates from n on that Fits describes, if there is one.
IsFirst(k, n, S) == k \in S /\ k \in Dates /\ n <= k /\ \A i \in Dates : n <= i /\ i < k => i \notin S

LEMMA DowSearch ==
  ASSUME NEW n \in Dates
  PROVE  /\ DowDates(n) # {} => IsFirst(Min(DowDates(n)), n, {k \in Dates : DowFits(k)})
         /\ DowDates(n) = {} => \A k \in Dates : n <= k => ~DowFits(k)
<1>1. DowDates(n) = {k \in Dates : k >= n /\ DowFits(k)}
  BY DEF DowDates, DowFits
<1>2. DowDates(n) \subseteq Nat /\ n \in Nat /\ Dates \subseteq Nat
  BY FirstDates, CalendarTypes DEF Dates, Ends, DowDates
<1> DEFINE S == DowDates(n)
<1> HIDE DEF S
<1>3. S # {} => Min(S) \in S /\ Min(S) \in Nat /\ \A i \in S : Min(S) <= i
  BY <1>2, MinNat DEF S
<1> QED BY <1>1, <1>2, <1>3 DEF S, IsFirst

\* "l": of the dates from n on, the first last day of a month is that of the month of n.
LEMMA LastDaySearch ==
  ASSUME NEW n \in Dates
  PROVE  \E k \in Dates : /\ n <= k /\ Day(k) = Calendar[MonthOf[k]] /\ Day(k) = Calendar[MonthOf[n]]
                          /\ \A i \in Dates : n <= i /\ i < k =>
                               Day(i) # Calendar[MonthOf[i]] /\ Day(i) # Calendar[MonthOf[n]]
<1> DEFINE m == MonthOf[n]
           d == Calendar[m]
           k == FirstDate[m] + d - 1
<1>1. /\ m \in Months /\ n \in Nat /\ FirstDate[m] <= n /\ n < FirstDate[m + 1]
      /\ d \in Nat \ {0} /\ FirstDate[m] \in Nat /\ FirstDate[m + 1] = FirstDate[m] + d
  BY MonthOfDate, FirstDates, CalendarTypes
<1> HIDE DEF m, d
<1>2. k \in Dates /\ MonthOf[k] = m /\ Day(k) = d
  BY <1>1, DateOfDay DEF d
<1>3. n <= k
  BY <1>1
<1>4. ASSUME NEW i \in Dates, n <= i, i < k PROVE MonthOf[i] = m /\ Day(i) # d
  <2>1. i \in Nat /\ FirstDate[m] <= i /\ i < FirstDate[m + 1]
    BY <1>1, <1>4, MonthOfDate
  <2>2. MonthOf[i] = m
    BY <1>1, <2>1, MonthIs
  <2> QED BY <1>1, <1>4, <2>1, <2>2 DEF Day
<1> QED BY <1>2, <1>3, <1>4 DEF m, d

LEMMA DomSearch ==
  ASSUME NEW n \in Dates
  PROVE  /\ DomDates(n) # {} => IsFirst(Min(DomDates(n)), n, {k \in Dates : DomFits(k)})
         /\ DomDates(n) = {} => \A k \in Dates : n <= k => ~DomFits(k)
<1> DEFINE S == DomDates(n)
<1>1. S \subseteq Nat /\ n \in Nat /\ Dates \subseteq Nat
  BY FirstDates, CalendarTypes DEF Dates, Ends, DomDates
<1>2. S # {} => Min(S) \in S /\ Min(S) \in Nat /\ \A i \in S : Min(S) <= i
  <2> HIDE DEF S
  <2> QED BY <1>1, MinNat
<1>3. CASE task["dom"] # {LastDay}
  <2>1. S = {k \in Dates : k >= n /\ DomFits(k)}
    BY <1>3 DEF DomDates, DomFits
  <2> HIDE DEF S
  <2>2. /\ S # {} => IsFirst(Min(S), n, {k \in Dates : DomFits(k)})
        /\ S = {} => \A k \in Dates : n <= k => ~DomFits(k)
    BY <1>1, <1>2, <2>1 DEF IsFirst
  <2> QED BY <2>2 DEF S
<1>4. CASE task["dom"] = {LastDay}
  <2>1. S = {k \in Dates : k >= n /\ Day(k) = Calendar[MonthOf[n]]}
    BY <1>4 DEF DomDates
  <2>2. \A k \in Dates : DomFits(k) <=> Day(k) = Calendar[MonthOf[k]]
    BY <1>4 DEF DomFits
  <2> HIDE DEF S
  <2>3. PICK k \in Dates : /\ n <= k /\ DomFits(k) /\ Day(k) = Calendar[MonthOf[n]]
                           /\ \A i \in Dates : n <= i /\ i < k => ~DomFits(i) /\ Day(i) # Calendar[MonthOf[n]]
    BY <2>2, LastDaySearch
  <2>4. k \in S /\ S # {} /\ \A i \in S : k <= i
    BY <1>1, <2>1, <2>3
  <2>5. Min(S) = k
    BY <1>1, <1>2, <2>4
  <2>6. IsFirst(Min(S), n, {i \in Dates : DomFits(i)})
    BY <2>3, <2>5 DEF IsFirst
  <2> QED BY <2>4, <2>6 DEF S
<1> QED BY <1>3, <1>4

\* The day of _getnext_date is the first one that fits the line's days.
LEMMA DayRight ==
  ASSUME NEW n \in Dates, ~DayLost(n)
  PROVE  IsFirst(DayFound(n), n, {k \in Dates : DayFits(k)})
<1> DEFINE w == Min(DowDates(n))
           m == Min(DomDates(n))
           W == {k \in Dates : DowFits(k)}
           M == {k \in Dates : DomFits(k)}
           F == {k \in Dates : DayFits(k)}
<1>1. n \in Nat /\ Dates \subseteq Nat
  BY FirstDates, CalendarTypes DEF Dates, Ends
<1>2. Has("dow") => IsFirst(w, n, W)
  BY DowSearch DEF DayLost
<1>3. Has("dom") => IsFirst(m, n, M)
  BY DomSearch DEF DayLost
<1>4. \A k \in Dates : k \in F <=> \/ ~Has("dom") /\ ~Has("dow")
                                   \/ Has("dom") /\ k \in M
                                   \/ Has("dow") /\ k \in W
  BY DEF DayFits
<1> HIDE DEF W, M, F
<1>5. ASSUME Has("dow") /\ Has("dom") PROVE IsFirst(DayFound(n), n, F)
  <2>1. w \in Nat /\ m \in Nat
    BY <1>1, <1>2, <1>3, <1>5 DEF IsFirst
  <2>2. DayFound(n) = IF w <= m THEN w ELSE m
    BY <1>5, <2>1, MinOfTwo DEF DayFound, SoonerDate
  <2> HIDE DEF w, m
  <2>3. CASE w <= m
    <3>1. DayFound(n) = w /\ w \in Dates /\ m \in Dates /\ w \in F
      BY <1>2, <1>3, <1>4, <1>5, <2>2, <2>3 DEF IsFirst
    <3>2. \A i \in Dates : n <= i /\ i < w => i \notin W /\ i \notin M
      BY <1>1, <1>2, <1>3, <1>5, <2>1, <2>3 DEF IsFirst
    <3> QED BY <1>2, <1>4, <1>5, <3>1, <3>2 DEF IsFirst
  <2>4. CASE ~(w <= m)
    <3>1. DayFound(n) = m /\ m \in Dates /\ w \in Dates /\ m \in F /\ m < w
      BY <1>2, <1>3, <1>4, <1>5, <2>1, <2>2, <2>4 DEF IsFirst
    <3>2. \A i \in Dates : n <= i /\ i < m => i \notin W /\ i \notin M
      BY <1>1, <1>2, <1>3, <1>5, <2>1, <3>1 DEF IsFirst
    <3> QED BY <1>3, <1>4, <1>5, <3>1, <3>2 DEF IsFirst
  <2> QED BY <2>3, <2>4
<1>6. ASSUME Has("dow") /\ ~Has("dom") PROVE IsFirst(DayFound(n), n, F)
  <2>1. DayFound(n) = w
    BY <1>6 DEF DayFound
  <2> HIDE DEF w
  <2> QED BY <1>2, <1>4, <1>6, <2>1 DEF IsFirst
<1>7. ASSUME ~Has("dow") /\ Has("dom") PROVE IsFirst(DayFound(n), n, F)
  <2>1. DayFound(n) = m
    BY <1>7 DEF DayFound
  <2> HIDE DEF m
  <2> QED BY <1>3, <1>4, <1>7, <2>1 DEF IsFirst
<1>8. ASSUME ~Has("dow") /\ ~Has("dom") PROVE IsFirst(DayFound(n), n, F)
  <2>1. DayFound(n) = n
    BY <1>8 DEF DayFound
  <2> QED BY <1>1, <1>4, <1>8, <2>1 DEF IsFirst
<1> QED BY <1>5, <1>6, <1>7, <1>8 DEF F

\* A day whose month is right is found at once; the month of another one is skipped, and the
\* date is later, with the same day of the month.
LEMMA MonthRight ==
  ASSUME NEW k \in Dates
  PROVE  /\ MonthFits(MonthOf[k]) => ~MonthLost(k) /\ MonthFound(k) = MonthOf[k]
         /\ ~MonthLost(k) =>
              /\ FirstDate[MonthFound(k)] + Day(k) - 1 \in Dates
              /\ k <= FirstDate[MonthFound(k)] + Day(k) - 1
              /\ MonthFits(MonthOf[FirstDate[MonthFound(k)] + Day(k) - 1])
              /\ Day(FirstDate[MonthFound(k)] + Day(k) - 1) = Day(k)
<1> DEFINE S == RightMonths(k)
           a == MonthOf[k]
           m == MonthFound(k)
<1>1. /\ a \in Months /\ k \in Nat /\ Day(k) \in 1..Calendar[a] /\ FirstDate[a] + Day(k) - 1 = k
      /\ a \in Nat /\ FirstDate[a] \in Nat /\ Calendar[a] \in Nat
  BY MonthOfDate, DayOfDate, FirstDates, CalendarTypes
<1>2. S = {i \in Months : i >= a /\ MonthFits(i)}
  BY DEF RightMonths, MonthFits
<1>3. S \in SUBSET Nat /\ Months \subseteq Nat
  BY <1>2, CalendarTypes
<1>4. m = Min(S)
  BY DEF MonthFound
<1>5. MonthLost(k) <=> S = {} \/ \E i \in a..m : Calendar[i] < Day(k)
  BY DEF MonthLost
<1> HIDE DEF a, S, m
<1>6. S # {} => m \in S /\ m \in Nat /\ \A i \in S : m <= i
  BY <1>3, <1>4, MinNat
<1>7. MonthFits(a) => ~MonthLost(k) /\ m = a
  <2> SUFFICES ASSUME MonthFits(a) PROVE ~MonthLost(k) /\ m = a
    OBVIOUS
  <2>1. a \in S
    BY <1>1, <1>2
  <2>2. m = a
    BY <1>1, <1>2, <1>6, <2>1
  <2>3. \A i \in a..m : i = a
    BY <1>1, <2>2
  <2> QED BY <1>1, <1>5, <2>1, <2>2, <2>3
<1>8. ASSUME ~MonthLost(k)
      PROVE  /\ FirstDate[m] + Day(k) - 1 \in Dates
             /\ k <= FirstDate[m] + Day(k) - 1
             /\ MonthFits(MonthOf[FirstDate[m] + Day(k) - 1])
             /\ Day(FirstDate[m] + Day(k) - 1) = Day(k)
  <2>1. m \in Months /\ m \in Nat /\ a <= m /\ MonthFits(m)
    BY <1>2, <1>5, <1>6, <1>8
  <2>2. ~(Calendar[m] < Day(k)) /\ Calendar[m] \in Nat /\ FirstDate[m] \in Nat
    <3>1. Calendar[m] \in Nat /\ FirstDate[m] \in Nat
      BY <2>1, FirstDates, CalendarTypes
    <3>2. m \in a..m
      BY <1>1, <2>1
    <3> QED BY <1>5, <1>8, <3>1, <3>2
  <2>3. Day(k) \in 1..Calendar[m]
    BY <1>1, <2>2
  <2>4. FirstDate[a] <= FirstDate[m]
    <3>1. a = m \/ a < m
      BY <1>1, <2>1
    <3>2. a \in Ends /\ m \in Ends
      BY <1>1, <2>1, CalendarTypes
    <3> QED BY <1>1, <2>2, <3>1, <3>2, FirstDatesGrow
  <2>5. k <= FirstDate[m] + Day(k) - 1
    BY <1>1, <2>2, <2>3, <2>4
  <2> QED BY <2>1, <2>3, <2>5, DateOfDay
<1> QED BY <1>7, <1>8 DEF a, m

LEMMA DateRight ==
  ASSUME NEW n \in Dates
  PROVE  /\ ~DateLost(n) =>
              /\ NextDate(n) \in Dates /\ n <= DayFound(n) /\ DayFound(n) <= NextDate(n)
              /\ MonthFits(MonthOf[NextDate(n)]) /\ Day(NextDate(n)) = Day(DayFound(n))
              /\ IsFirst(DayFound(n), n, {k \in Dates : DayFits(k)})
              /\ MonthFits(MonthOf[DayFound(n)]) => NextDate(n) = DayFound(n)
         /\ DateLost(n) =>
              \/ Has("mon")
              \/ Has("dom") /\ \A k \in Dates : n <= k => ~DomFits(k)
              \/ Has("dow") /\ \A k \in Dates : n <= k => ~DowFits(k)
<1> DEFINE k == DayFound(n)
<1>1. NextDate(n) = FirstDate[MonthFound(k)] + Day(k) - 1 /\ (DateLost(n) <=> DayLost(n) \/ MonthLost(k))
  BY DEF NextDate, DateLost
<1>2. CASE DayLost(n)
  BY <1>1, <1>2, DowSearch, DomSearch DEF DayLost
<1>3. CASE ~DayLost(n)
  <2>1. IsFirst(k, n, {i \in Dates : DayFits(i)}) /\ k \in Dates /\ n <= k
    BY <1>3, DayRight DEF IsFirst
  <2> HIDE DEF k
  <2>2. MonthLost(k) => Has("mon")
    BY <2>1, MonthRight DEF MonthFits
  <2>3. MonthFits(MonthOf[k]) => FirstDate[MonthFound(k)] + Day(k) - 1 = k
    BY <2>1, MonthRight, DayOfDate
  <2> QED BY <1>1, <1>3, <2>1, <2>2, <2>3, MonthRight DEF k
<1> QED BY <1>2, <1>3

-----------------------------------------------------------------------------
(* next(). *)

\* The times of a CronParser are in the calendar.  Between two rounds of a call, the time is
\* of the day after that of base, on which no time is left.
IsTime(t) == t \in Nat /\ Date(t) \in Dates
Between ==
  /\ step \notin {"none", "refused"} => IsTime(base) /\ IsTime(sched)
  /\ step \in {"made", "ready"} => sched = base
  /\ step = "date" /\ sched # base =>
       /\ Date(sched) = Date(base) + 1
       /\ \A u \in Nat : base < u /\ Date(u) = Date(base) => ~TimeFits(u)

LineInv == LineOK /\ Parsed /\ Refused /\ Between

\* What the search for the date leaves: a later date than that of base, or, in the first
\* round of a call, this one.
LEMMA OtherDay ==
  ASSUME LineInv, step = "date", ~DateLost(Date(sched)), Rolled(NextDate(Date(sched)))
  PROVE  NextDate(Date(sched)) \in Dates /\ NextDate(Date(sched)) \in Nat /\ Date(base) < NextDate(Date(sched))
<1> DEFINE n == NextDate(Date(sched))
<1>1. n \in Dates
  BY DateRight DEF LineInv, Between, IsTime
<1> HIDE DEF n
<1>2. n \in Nat /\ Date(base) \in Nat
  BY <1>1, MonthOfDate DEF LineInv, Between, IsTime
<1> QED BY <1>1, <1>2 DEF n, Rolled

LEMMA SameDay ==
  ASSUME LineInv, step = "date", ~DateLost(Date(sched)), ~Rolled(NextDate(Date(sched)))
  PROVE  sched = base /\ NextDate(Date(base)) = Date(base) /\ DayFound(Date(base)) = Date(base)
<1> DEFINE n == NextDate(Date(sched))
           k == DayFound(Date(sched))
<1>1. IsTime(base) /\ IsTime(sched)
  BY DEF LineInv, Between
<1>2. n \in Dates /\ Date(sched) <= k /\ k <= n /\ k \in Dates
  BY <1>1, DateRight DEF IsTime, IsFirst
<1>3. ~(n > Date(base))
  BY DEF Rolled
<1> HIDE DEF n, k
<1>4. n \in Nat /\ Date(base) \in Nat /\ Date(sched) \in Nat /\ k \in Nat
  BY <1>1, <1>2, MonthOfDate DEF IsTime
<1>5. sched = base
  <2>1. ~(Date(sched) = Date(base) + 1)
    BY <1>2, <1>3, <1>4
  <2> QED BY <2>1 DEF LineInv, Between
<1>6. n = Date(base) /\ k = Date(base)
  BY <1>2, <1>3, <1>4, <1>5
<1> QED BY <1>5, <1>6 DEF n, k

\* A round that found another date ends the call with the first time of that date.
LEMMA RolledRound ==
  ASSUME LineInv, Round, ~Lost, Rolled(NextDate(Date(sched)))
  PROVE  LET n == NextDate(Date(sched)) IN
           /\ step' = "ready" /\ base' = sched'
           /\ IsTime(sched') /\ Date(sched') = n /\ TimeFits(sched') /\ base < sched'
           /\ \A u \in Nat : Midnight(n) <= u /\ u < sched' => ~TimeFits(u)
<1> DEFINE n == NextDate(Date(sched))
           t == NextHhmm(Midnight(n))
<1>1. Usable /\ IsTime(base)
  BY ParsedUsable DEF LineInv, Between, Round
<1>2. n \in Dates /\ n \in Nat /\ Date(base) < n
  BY OtherDay DEF Lost, Round
<1>3. step' = "ready" /\ base' = sched' /\ sched' = t
  BY DEF Round, TimeFound
<1> HIDE DEF n
<1>4. Midnight(n) \in Nat /\ Date(t) = n /\ \A u \in Nat : Midnight(n) <= u /\ u < t => ~TimeFits(u)
  BY <1>1, <1>2, FromMidnight, MidnightFirst
<1>5. t \in Nat /\ TimeFits(t)
  BY <1>1, <1>4, HhmmFound
<1>6. base < t
  <2> HIDE DEF t
  <2> QED BY <1>1, <1>2, <1>4, <1>5, ClockGrows DEF IsTime
<1> QED BY <1>2, <1>3, <1>4, <1>5, <1>6 DEF n, IsTime

\* A round that found no other date looks for a later time of this one, and it is the first
\* round of its call.
LEMMA SameDayRound ==
  ASSUME LineInv, Round, ~Lost, ~Rolled(NextDate(Date(sched)))
  PROVE  /\ sched = base /\ NextDate(Date(base)) = Date(base) /\ DayFound(Date(base)) = Date(base)
         /\ sched' = NextHhmm(base + 1) /\ IsTime(sched') /\ base < sched' /\ TimeFits(sched')
         /\ IF Date(sched') = Date(base) THEN step' = "ready" /\ base' = sched'
            ELSE step' = "date" /\ base' = base /\ Date(sched') = Date(base) + 1
<1>1. Usable /\ IsTime(base) /\ base \in Nat /\ base + 1 \in Nat /\ Date(base) \in Nat
  <2>1. Usable /\ IsTime(base)
    BY ParsedUsable DEF LineInv, Between, Round
  <2> QED BY <2>1, ClockTypes DEF IsTime
<1>2. sched = base /\ NextDate(Date(base)) = Date(base) /\ DayFound(Date(base)) = Date(base)
  BY SameDay DEF Lost, Round
<1>3. /\ sched' = NextHhmm(base + 1)
      /\ IF Date(sched') > Date(base) THEN step' = "date" /\ base' = base
         ELSE step' = "ready" /\ base' = sched'
  BY <1>2 DEF Round, TimeFound
<1>4. /\ sched' \in Nat /\ base < sched' /\ TimeFits(sched') /\ Date(sched') \in {Date(base), Date(base) + 1}
  BY <1>1, <1>3, HhmmFound, NextTime
<1>5. Date(sched') \in Dates
  BY <1>3 DEF Lost, Round, TimeFound
<1> QED BY <1>1, <1>2, <1>3, <1>4, <1>5 DEF IsTime

\* Every step keeps it.
LEMMA BetweenNext == LineInv /\ [LineNext]_lineVars => Between'
<1> SUFFICES ASSUME LineInv, [LineNext]_lineVars PROVE Between'
  OBVIOUS
<1>1. CASE Create
  <2>1. base' \in Bases /\ sched' = base' /\ step' = "made"
    BY <1>1 DEF Create
  <2> QED BY <2>1, LineAssumption DEF Between, IsTime
<1>2. CASE Parse
  BY <1>2 DEF Parse, LineInv, Between, IsTime
<1>3. CASE Round /\ Lost
  BY <1>3 DEF Round, LineInv, Between, IsTime
<1>4. CASE Round /\ ~Lost /\ Rolled(NextDate(Date(sched)))
  BY <1>4, RolledRound DEF Between
<1>5. CASE Round /\ ~Lost /\ ~Rolled(NextDate(Date(sched)))
  <2>1. /\ sched' = NextHhmm(base + 1) /\ IsTime(sched') /\ IsTime(base) /\ Usable
        /\ IF Date(sched') = Date(base) THEN step' = "ready" /\ base' = sched'
           ELSE step' = "date" /\ base' = base /\ Date(sched') = Date(base) + 1
    BY <1>5, SameDayRound, ParsedUsable DEF LineInv, Between, Round
  <2>2. CASE Date(sched') = Date(base)
    BY <2>1, <2>2 DEF Between
  <2>3. CASE Date(sched') # Date(base)
    <3>1. \A u \in Nat : base < u /\ Date(u) = Date(base) => ~TimeFits(u)
      BY <2>1, <2>3, NextTime DEF IsTime
    <3>2. \A u : TimeFits(u)' <=> TimeFits(u)
      BY <1>5 DEF TimeFits, Has, Round
    <3> QED BY <2>1, <2>3, <3>1, <3>2 DEF Between
  <2> QED BY <2>2, <2>3
<1>6. CASE Again
  BY <1>6 DEF Again, LineInv, Between, IsTime
<1>7. CASE UNCHANGED lineVars
  BY <1>7 DEF lineVars, LineInv, Between, IsTime, TimeFits, Has
<1> QED BY <1>1, <1>2, <1>3, <1>4, <1>5, <1>6, <1>7 DEF LineNext

LEMMA LineInvAlways == LineSpec => []LineInv
<1>1. LineInit => LineInv
  BY ParsedInit DEF LineInit, LineInv, Between
<1>2. LineInv /\ [LineNext]_lineVars => LineInv'
  BY BetweenNext, ParsedNext DEF LineInv
<1> QED BY <1>1, <1>2, PTL DEF LineSpec

\* It gives up only where the property says.
LEMMA RaisedRight ==
  ASSUME LineInv, Round, step' = "raised"
  PROVE  \/ Has("mon")
         \/ \A n \in Dates : n > Date(base) => Has("dom") /\ ~DomFits(n)
         \/ \A n \in Dates : n > Date(base) => Has("dow") /\ ~DowFits(n)
<1>1. Usable /\ IsTime(base) /\ IsTime(sched) /\ step = "date" /\ Lost
  BY ParsedUsable DEF LineInv, Between, Round
<1>2. Date(base) \in Nat /\ Dates \subseteq Nat /\ (sched = base \/ Date(sched) = Date(base) + 1)
  BY <1>1, MonthOfDate DEF LineInv, Between, IsTime
<1>3. CASE DateLost(Date(sched))
  <2>1. \A n \in Dates : n > Date(base) => Date(sched) <= n
    BY <1>2
  <2> QED BY <1>1, <1>3, <2>1, DateRight DEF IsTime
<1>4. CASE ~DateLost(Date(sched)) /\ Rolled(NextDate(Date(sched)))
  <2> DEFINE n == NextDate(Date(sched))
  <2>1. n \in Dates /\ n \in Nat
    BY <1>1, <1>4, OtherDay
  <2>2. Date(TimeFound(n)) \notin Dates /\ TimeFound(n) = NextHhmm(Midnight(n))
    BY <1>1, <1>4 DEF Lost, TimeFound
  <2> HIDE DEF n
  <2> QED BY <1>1, <2>1, <2>2, FromMidnight
<1>5. CASE ~DateLost(Date(sched)) /\ ~Rolled(NextDate(Date(sched)))
  <2>1. sched = base /\ Date(NextHhmm(base + 1)) \notin Dates
    BY <1>1, <1>4, <1>5, SameDay DEF Lost, TimeFound
  <2>2. Date(base) + 1 \notin Dates
    BY <1>1, <2>1, NextTime DEF IsTime
  <2>3. \A n \in Dates : ~(n > Date(base))
    <3> DEFINE final == FirstDate[Len(Calendar) + 1] - 1
    <3>1. final \in Int /\ Dates = 0..final
      BY FirstDates, CalendarTypes DEF Dates, Ends
    <3> HIDE DEF final
    <3> QED BY <1>2, <2>2, <3>1
  <2> QED BY <2>3
<1> QED BY <1>3, <1>4, <1>5

\* With no month to skip, the time found is the first that fits, or one of its hour.
LEMMA ReadyRight ==
  ASSUME LineInv, Round, step' = "ready",
         \A m \in MonthOf[Date(base)]..MonthOf[Date(base')] : MonthFits(m)
  PROVE  /\ base' > base /\ Matches(base')
         /\ \A u \in Skipped : u \div MinutesPerHour = base' \div MinutesPerHour
         /\ Skipped # {} => Has("hr") /\ Date(base') = Date(base)
<1>1. Usable /\ IsTime(base) /\ IsTime(sched) /\ step = "date" /\ ~Lost /\ base \in Nat /\ Date(base) \in Nat
  BY ParsedUsable, ClockTypes DEF LineInv, Between, Round, IsTime
<1>2. CASE Rolled(NextDate(Date(sched)))
  <2> DEFINE n == NextDate(Date(sched))
             k == DayFound(Date(sched))
  <2>1. /\ base' = sched' /\ IsTime(sched') /\ Date(sched') = n /\ TimeFits(sched') /\ base < sched'
        /\ \A u \in Nat : Midnight(n) <= u /\ u < sched' => ~TimeFits(u)
    BY <1>1, <1>2, RolledRound
  <2>2. /\ n \in Dates /\ Date(sched) <= k /\ k <= n /\ IsFirst(k, Date(sched), {i \in Dates : DayFits(i)})
        /\ MonthFits(MonthOf[n]) /\ (MonthFits(MonthOf[k]) => n = k)
    BY <1>1, DateRight DEF Lost, IsTime
  <2> HIDE DEF n, k
  <2>3. /\ n \in Nat /\ k \in Nat /\ k \in Dates /\ Date(sched) \in Nat /\ Date(base) \in Dates
        /\ Date(base) <= Date(sched) /\ (Date(sched) = Date(base) \/ Date(sched) = Date(base) + 1)
        /\ Date(sched) # Date(base) => \A u \in Nat : base < u /\ Date(u) = Date(base) => ~TimeFits(u)
    BY <1>1, <2>2, MonthOfDate DEF LineInv, Between, IsTime, IsFirst
  <2>4. n = k
    <3>1. MonthOf[Date(base)] <= MonthOf[k] /\ MonthOf[k] <= MonthOf[n]
      BY <1>1, <2>2, <2>3, MonthsGrow
    <3>2. MonthOf[Date(base)] \in Nat /\ MonthOf[k] \in Nat /\ MonthOf[n] \in Nat
      <4>1. ASSUME NEW i \in Dates PROVE MonthOf[i] \in Nat
        BY MonthOfDate, CalendarTypes
      <4> QED BY <2>2, <2>3, <4>1
    <3>3. MonthFits(MonthOf[k])
      BY <2>1, <3>1, <3>2
    <3> QED BY <2>2, <3>3
  <2>5. Matches(sched')
    BY <2>1, <2>2, <2>4 DEF Matches, IsFirst
  <2>6. ASSUME NEW u \in Nat, base < u, u < sched', Matches(u) PROVE FALSE
    <3>1. Date(u) \in Nat /\ Date(base) <= Date(u) /\ Date(u) <= n /\ TimeFits(u) /\ DayFits(Date(u))
      BY <1>1, <2>1, <2>6, ClockGrows, ClockTypes DEF Matches, IsTime
    <3>2. CASE Date(u) = n
      BY <2>1, <2>3, <2>6, <3>1, <3>2, MidnightFirst
    <3>3. CASE Date(u) < Date(sched)
      <4>1. Date(sched) # Date(base) /\ Date(u) = Date(base)
        BY <1>1, <2>3, <3>1, <3>3
      <4> QED BY <2>3, <2>6, <3>1, <4>1
    <3>4. CASE Date(sched) <= Date(u) /\ Date(u) < n
      <4>1. Date(u) \in Dates
        <5>1. \A i \in Nat, j \in Dates : i < j => i \in Dates
          BY FirstDates, CalendarTypes DEF Dates, Ends
        <5> QED BY <2>2, <3>1, <3>4, <5>1
      <4> QED BY <2>2, <2>4, <3>1, <3>4, <4>1 DEF IsFirst
    <3> QED BY <2>3, <3>1, <3>2, <3>3, <3>4
  <2>7. Skipped = {}
    BY <1>1, <2>1, <2>6 DEF Skipped, IsTime
  <2> QED BY <2>1, <2>5, <2>7
<1>3. CASE ~Rolled(NextDate(Date(sched)))
  <2>1. /\ sched = base /\ NextDate(Date(base)) = Date(base) /\ DayFound(Date(base)) = Date(base)
        /\ sched' = NextHhmm(base + 1) /\ IsTime(sched') /\ base < sched' /\ TimeFits(sched')
        /\ Date(sched') = Date(base) /\ base' = sched'
    BY <1>1, <1>3, SameDayRound
  <2>2. MonthFits(MonthOf[Date(base)]) /\ DayFits(Date(base))
    BY <1>1, <2>1, DateRight DEF Lost, IsTime, IsFirst
  <2>3. Matches(sched')
    BY <2>1, <2>2 DEF Matches
  <2>4. ASSUME NEW u \in Skipped PROVE Has("hr") /\ Index(u) = Index(sched')
    <3>1. u \in Nat /\ base + 1 \in Nat /\ base + 1 <= u /\ u < sched' /\ TimeFits(u)
      BY <1>1, <2>1, <2>4 DEF Skipped, Matches, IsTime
    <3> QED BY <1>1, <2>1, <3>1, HhmmFound
  <2> QED BY <2>1, <2>3, <2>4 DEF Index
<1> QED BY <1>2, <1>3

\* For every line and calendar: unless months have to be skipped, next() finds a time that
\* fits, and the first one but for earlier minutes of its hour; it raises only if the line
\* names months or the calendar has no later date for one of its fields.
THEOREM NextFinds == LineSpec => NextRight
<1> DEFINE Right ==
      step = "date" =>
       /\ step' = "raised" =>
            \/ Has("mon")
            \/ \A n \in Dates : n > Date(base) => Has("dom") /\ ~DomFits(n)
            \/ \A n \in Dates : n > Date(base) => Has("dow") /\ ~DowFits(n)
       /\ step' = "ready" /\ (\A m \in MonthOf[Date(base)]..MonthOf[Date(base')] : MonthFits(m)) =>
            /\ base' > base /\ Matches(base')
            /\ \A u \in Skipped : u \div MinutesPerHour = base' \div MinutesPerHour
            /\ Skipped # {} => Has("hr") /\ Date(base') = Date(base)
<1>1. LineInv /\ [LineNext]_lineVars => Right
  <2> SUFFICES ASSUME LineInv, [LineNext]_lineVars, step = "date" PROVE Right
    OBVIOUS
  <2>1. Round \/ step' = "date"
    BY DEF LineNext, Create, Parse, Again, lineVars
  <2> QED BY <2>1, RaisedRight, ReadyRight
<1> QED BY <1>1, LineInvAlways, PTL DEF NextRight, LineSpec

\* The two lines with which next() goes wrong: a month is given, and a day of the week or the
\* last day of the month, which the month's replacement does not keep.
MonthAndMoving == Has("mon") /\ (Has("dow") \/ (Has("dom") /\ task["dom"] = {LastDay}))

\* "Get next date according to specs" (next), as far as it is true.
NextMatchesElsewhere ==
  [][step = "date" /\ step' = "ready" =>
       /\ base' > base /\ TimeFits(base') /\ MonthFits(MonthOf[Date(base')])
       /\ ~MonthAndMoving => Matches(base')]_lineVars

\* For every line and calendar, months skipped or not: next() moves on to a time whose month,
\* hour and minute fit the line, and whose day does too unless the line gives a month together
\* with a day of the week or with the last day.
THEOREM OnlyMovingDays == LineSpec => NextMatchesElsewhere
<1> DEFINE Fits ==
      /\ base' > base /\ TimeFits(base') /\ MonthFits(MonthOf[Date(base')])
      /\ ~MonthAndMoving => Matches(base')
<1>1. LineInv /\ [LineNext]_lineVars => (step = "date" /\ step' = "ready" => Fits)
  <2> SUFFICES ASSUME LineInv, [LineNext]_lineVars, step = "date", step' = "ready" PROVE Fits
    OBVIOUS
  <2>1. Round /\ ~Lost
    BY DEF LineNext, Create, Parse, Again, lineVars, Round
  <2>2. IsTime(base) /\ IsTime(sched) /\ base \in Nat
    BY DEF LineInv, Between, IsTime
  <2>3. CASE Rolled(NextDate(Date(sched)))
    <3> DEFINE n == NextDate(Date(sched))
               k == DayFound(Date(sched))
    <3>1. base' = sched' /\ sched' \in Nat /\ Date(sched') = n /\ TimeFits(sched') /\ base < sched'
      BY <2>1, <2>3, RolledRound DEF IsTime
    <3>2. MonthFits(MonthOf[n]) /\ Day(n) = Day(k) /\ DayFits(k) /\ (MonthFits(MonthOf[k]) => n = k)
      BY <2>1, <2>2, DateRight DEF Lost, IsTime, IsFirst
    <3> HIDE DEF n, k
    <3>3. ASSUME ~MonthAndMoving PROVE DayFits(n)
      <4>1. CASE ~Has("mon")
        BY <3>2, <4>1 DEF MonthFits
      <4>2. CASE Has("mon")
        BY <3>2, <3>3, <4>2 DEF MonthAndMoving, DayFits, DomFits
      <4> QED BY <4>1, <4>2
    <3> QED BY <2>2, <3>1, <3>2, <3>3 DEF Matches
  <2>4. CASE ~Rolled(NextDate(Date(sched)))
    <3>1. /\ sched = base /\ NextDate(Date(base)) = Date(base) /\ DayFound(Date(base)) = Date(base)
          /\ IsTime(sched') /\ base < sched' /\ TimeFits(sched') /\ Date(sched') = Date(base) /\ base' = sched'
      BY <2>1, <2>4, SameDayRound
    <3>2. MonthFits(MonthOf[Date(base)]) /\ DayFits(Date(base))
      BY <2>1, <2>2, <3>1, DateRight DEF Lost, IsTime, IsFirst
    <3> QED BY <2>2, <3>1, <3>2 DEF Matches, IsTime
  <2> QED BY <2>3, <2>4
<1> QED BY <1>1, LineInvAlways, PTL DEF NextMatchesElsewhere, LineSpec

\* "while x < 1000: # avoid potential max recursions": two rounds are enough.
THEOREM TwoRounds == LineSpec => [][Round /\ sched # base => step' # "date"]_lineVars
<1>1. LineInv /\ Round /\ sched # base => step' # "date"
  <2> SUFFICES ASSUME LineInv, Round, sched # base PROVE step' # "date"
    OBVIOUS
  <2>1. CASE Lost
    BY <2>1 DEF Round
  <2>2. CASE ~Lost
    BY <2>2, RolledRound, SameDayRound
  <2> QED BY <2>1, <2>2
<1> QED BY <1>1, LineInvAlways, PTL

-----------------------------------------------------------------------------
(* Dances. *)

\* The file tells of the last start, and so does what the holder of its lock has loaded.
KeepsStart == last # 0 /\ ~emptied => file = "written" /\ master.start = last
HolderKnows(d) ==
  place[d] = "decide" => /\ owner = d
                         /\ last # 0 /\ ~emptied => seen[d].start = last

TokenInv ==
  /\ place = [d \in Dances |-> place[d]] /\ seen = [d \in Dances |-> seen[d]]
  /\ KeepsStart
  /\ \A d \in Dances : HolderKnows(d)

\* Steps that touch neither the file nor its lock.
LEMMA QuietKeeps ==
  ASSUME TokenInv, UNCHANGED <<file, master, owner, seen, last, emptied>>,
         \/ UNCHANGED place
         \/ \E d \in Dances, s \in {"create", "open", "over", "away"} : place' = [place EXCEPT ![d] = s]
  PROVE  TokenInv'
BY DEF TokenInv, KeepsStart, HolderKnows

\* Emptying the file voids the promise, once and for all.
LEMMA EmptyKeeps ==
  ASSUME TokenInv, NEW d \in Dances, Empty(d)
  PROVE  TokenInv'
<1>1. /\ emptied' = (emptied \/ file = "written")
      /\ last' = last /\ owner' = owner /\ seen' = seen
      /\ place' = [place EXCEPT ![d] = "open"]
  BY DEF Empty, At
<1>2. KeepsStart'
  BY <1>1 DEF TokenInv, KeepsStart
<1>3. ASSUME NEW e \in Dances PROVE HolderKnows(e)'
  BY <1>1 DEF TokenInv, HolderKnows
<1> QED BY <1>1, <1>2, <1>3 DEF TokenInv

\* acquire() loads what is in the file, and nobody else is deciding then.
LEMMA AcquireKeeps ==
  ASSUME TokenInv, NEW d \in Dances, Acquire(d)
  PROVE  TokenInv'
<1>1. /\ owner = Nobody /\ owner' = d /\ place' = [place EXCEPT ![d] = "decide"]
      /\ UNCHANGED <<file, master, last, emptied>>
      /\ seen' = [seen EXCEPT ![d] = IF file = "written" THEN master ELSE LongAgo]
  BY DEF Acquire, Unowned, At
<1>2. KeepsStart'
  BY <1>1 DEF TokenInv, KeepsStart
<1>3. HolderKnows(d)'
  BY <1>1 DEF TokenInv, KeepsStart, HolderKnows
<1>4. ASSUME NEW e \in Dances, e # d PROVE HolderKnows(e)'
  BY <1>1, <1>4, TokenAssumption DEF TokenInv, HolderKnows
<1> QED BY <1>1, <1>2, <1>3, <1>4 DEF TokenInv

\* The holder of the lock writes its own start, or nothing.
LEMMA DecideKeeps ==
  ASSUME TokenInv, NEW d \in Dances, Decide(d)
  PROVE  TokenInv'
<1>1. /\ owner = d /\ owner' = Nobody /\ UNCHANGED emptied
      /\ place' = [place EXCEPT ![d] = "dance"] \/ place' = [place EXCEPT ![d] = "away"]
      /\ seen' = [seen EXCEPT ![d] = LongAgo]
  BY DEF Decide, TokenInv, HolderKnows, At
<1>2. \/ last' = mine[d] /\ file' = "written" /\ master' = [start |-> mine[d], stop |-> 0]
      \/ UNCHANGED <<file, master, last>>
  BY DEF Decide
<1>3. KeepsStart'
  BY <1>1, <1>2 DEF TokenInv, KeepsStart
<1>4. ASSUME NEW e \in Dances PROVE HolderKnows(e)'
  BY <1>1 DEF TokenInv, HolderKnows
<1> QED BY <1>1, <1>3, <1>4 DEF TokenInv

\* release() adds an end, to a start that is its own.
LEMMA ReleaseKeeps ==
  ASSUME TokenInv, NEW d \in Dances, Release(d)
  PROVE  TokenInv'
<1>1. /\ place' = [place EXCEPT ![d] = "away"]
      /\ UNCHANGED <<file, owner, seen, last, emptied>>
      /\ master'.start = master.start \/ master' = master
  BY DEF Release, At, IsMine
<1>2. KeepsStart'
  BY <1>1 DEF TokenInv, KeepsStart
<1>3. ASSUME NEW e \in Dances PROVE HolderKnows(e)'
  BY <1>1 DEF TokenInv, HolderKnows
<1> QED BY <1>1, <1>2, <1>3 DEF TokenInv

\* A process that ends gives up its own lock only.
LEMMA LoseKeeps ==
  ASSUME TokenInv, NEW d \in Dances, Lose(d)
  PROVE  TokenInv'
<1>1. /\ place' = [place EXCEPT ![d] = "dead"]
      /\ owner' = IF owner = d THEN Nobody ELSE owner
      /\ UNCHANGED <<file, master, seen, last, emptied>>
  BY DEF Lose, At
<1>2. KeepsStart'
  BY <1>1 DEF TokenInv, KeepsStart
<1>3. ASSUME NEW e \in Dances PROVE HolderKnows(e)'
  BY <1>1 DEF TokenInv, HolderKnows
<1> QED BY <1>1, <1>2, <1>3 DEF TokenInv

\* Every step keeps the invariant.
LEMMA TokenInvNext == TokenInv /\ [TokenNext]_tokenVars => TokenInv'
<1> SUFFICES ASSUME TokenInv, [TokenNext]_tokenVars PROVE TokenInv'
  OBVIOUS
<1>1. CASE UNCHANGED tokenVars \/ Pass
  BY <1>1, QuietKeeps DEF tokenVars, Pass
<1>2. ASSUME NEW d \in Dances, Make(d) \/ Danced(d) PROVE TokenInv'
  BY <1>2, QuietKeeps DEF Make, Danced, At
<1>3. ASSUME NEW d \in Dances, Empty(d) PROVE TokenInv'
  BY <1>3, EmptyKeeps
<1>4. ASSUME NEW d \in Dances, Acquire(d) PROVE TokenInv'
  BY <1>4, AcquireKeeps
<1>5. ASSUME NEW d \in Dances, Decide(d) PROVE TokenInv'
  BY <1>5, DecideKeeps
<1>6. ASSUME NEW d \in Dances, Release(d) PROVE TokenInv'
  BY <1>6, ReleaseKeeps
<1>7. ASSUME NEW d \in Dances, Lose(d) PROVE TokenInv'
  BY <1>7, LoseKeeps
<1> QED BY <1>1, <1>2, <1>3, <1>4, <1>5, <1>6, <1>7 DEF TokenNext

\* At first there is no start.
LEMMA TokenInvInit == TokenInit => TokenInv
BY DEF TokenInit, TokenInv, KeepsStart, HolderKnows

\* As long as no Token() empties the file behind another dance, an ordinary dance begins at
\* least LockTime after the one before it: the file lock, the order in which acquire() loads
\* and writes and the "if this is my lock" of release() together see to it.
THEOREM DancesSpaced == TokenSpec => Spaced
<1> DEFINE Apart == \A d \in Dances :
       Decide(d) /\ place'[d] = "dance" /\ ~startup[d] /\ last # 0 /\ ~emptied =>
         mine[d] - last >= LockTime
<1>1. TokenInv => Apart
  <2> SUFFICES ASSUME TokenInv, NEW d \in Dances, Decide(d), place'[d] = "dance", ~startup[d],
                      last # 0, ~emptied
               PROVE  mine[d] - last >= LockTime
    OBVIOUS
  <2>1. seen[d].start = last
    BY DEF TokenInv, HolderKnows, Decide
  <2>2. Granted(d)
    BY DEF Decide, At, TokenInv
  <2> QED BY <2>1, <2>2 DEF Granted
<1>2. TokenSpec => []TokenInv
  BY TokenInvInit, TokenInvNext, PTL DEF TokenSpec
<1> QED BY <1>1, <1>2, PTL DEF Spaced
=============================================================================
