----------------------------- MODULE TimesProofs -----------------------------
(***************************************************************************)
(* A rendering of Times is a date of the calendar and names the instant it *)
(* renders, for every instant and every offset.                            *)
(***************************************************************************)
EXTENDS Times, TLAPS

(* A day of an era by its century, its four years in it, its year and its day *)
(* in the year, which begins in March; only a leap year has a day 365.        *)
Split(doe, C, Q, Y, T) ==
    /\ 0 <= C /\ C <= 3 /\ 0 <= Q /\ Q <= 24 /\ 0 <= Y /\ Y <= 3 /\ 0 <= T /\ T <= 365
    /\ T = 365 => Y = 3 /\ (Q < 24 \/ C = 3)
    /\ doe = 36524 * C + 1461 * Q + 365 * Y + T

LEMMA CanSplit ==
    ASSUME NEW doe \in Int, 0 <= doe, doe <= 146096
    PROVE  \E C, Q, Y, T \in Int : Split(doe, C, Q, Y, T)
<1>1. PICK C \in Int : /\ 0 <= C /\ C <= 3 /\ 0 <= doe - 36524 * C
                       /\ doe - 36524 * C <= 36523 \/ (C = 3 /\ doe - 36524 * C = 36524)
  <2>1. CASE doe < 36524
    BY <2>1
  <2>2. CASE 36524 <= doe /\ doe < 73048
    BY <2>2
  <2>3. CASE 73048 <= doe /\ doe < 109572
    BY <2>3
  <2>4. CASE 109572 <= doe
    BY <2>4
  <2> QED BY <2>1, <2>2, <2>3, <2>4
<1> DEFINE r == doe - 36524 * C  Q == r \div 1461  s == r - 1461 * Q
<1>2. r \in Int /\ 0 <= r /\ (r <= 36523 \/ (C = 3 /\ r = 36524))
  BY <1>1
<1> HIDE DEF r
<1>3. Q \in Int /\ 0 <= Q /\ Q <= 24 /\ 0 <= s /\ s <= 1460
  BY <1>2
<1>4. s = 1460 => Q < 24 \/ C = 3
  BY <1>2, <1>3
<1> HIDE DEF Q
<1>5. s \in Int
  BY <1>2, <1>3
<1>6. r = 1461 * Q + s
  BY <1>2, <1>3
<1> HIDE DEF s
<1>7. PICK Y \in Int : /\ 0 <= Y /\ Y <= 3 /\ 0 <= s - 365 * Y
                       /\ s - 365 * Y <= 364 \/ (Y = 3 /\ s = 1460)
  <2>1. CASE s < 365
    BY <1>3, <1>5, <2>1
  <2>2. CASE 365 <= s /\ s < 730
    BY <1>5, <2>2
  <2>3. CASE 730 <= s /\ s < 1095
    BY <1>5, <2>3
  <2>4. CASE 1095 <= s
    BY <1>3, <1>5, <2>4
  <2> QED BY <1>5, <2>1, <2>2, <2>3, <2>4
<1>8. Split(doe, C, Q, Y, s - 365 * Y)
  BY <1>1, <1>3, <1>4, <1>5, <1>6, <1>7 DEF Split, r
<1> QED BY <1>3, <1>5, <1>7, <1>8

(* The year civil_from_days finds in the era. *)
LEMMA YearOfEra ==
    ASSUME NEW doe \in Int, NEW C \in Int, NEW Q \in Int, NEW Y \in Int, NEW T \in Int,
           Split(doe, C, Q, Y, T)
    PROVE  (doe - doe \div 1460 + doe \div 36524 - doe \div 146096) \div 365
               = 100 * C + 4 * Q + Y
<1> USE DEF Split
<1>1. doe \div 36524 - doe \div 146096 = C
  <2>1. CASE doe = 146096
    BY <2>1
  <2>2. CASE doe < 146096
    <3>1. 0 <= doe - 36524 * C /\ doe - 36524 * C < 36524
      BY <2>2
    <3>2. doe \div 36524 = C
      BY <3>1
    <3>3. doe \div 146096 = 0
      BY <2>2
    <3> QED BY <3>2, <3>3
  <2> QED BY <2>1, <2>2
<1> DEFINE s == 365 * Y + T
<1> DEFINE late == IF 1460 <= 24 * C + Q + s THEN 1 ELSE 0
<1>2. s \in Int /\ 0 <= s /\ s <= 1460
  OBVIOUS
<1>3. doe \div 1460 = 25 * C + Q + late
  <2>1. doe = 1460 * (25 * C + Q) + (24 * C + Q + s)
    OBVIOUS
  <2>2. 0 <= 24 * C + Q + s /\ 24 * C + Q + s < 2920
    BY <1>2
  <2> HIDE DEF s
  <2> QED BY <1>2, <2>1, <2>2
<1>4. late \in 0..1 /\ 0 <= T - late /\ T - late < 365
  BY <1>2
<1>5. doe - doe \div 1460 + doe \div 36524 - doe \div 146096
          = 365 * (100 * C + 4 * Q + Y) + (T - late)
  <2>0. late \in Int
    BY <1>4
  <2> HIDE DEF late
  <2>1. doe - (25 * C + Q + late) + C = 365 * (100 * C + 4 * Q + Y) + (T - late)
    BY <2>0
  <2> DEFINE k == doe \div 36524  l == doe \div 146096
  <2>2. k \in Int /\ l \in Int
    OBVIOUS
  <2>3. k - l = C
    BY <1>1
  <2> HIDE DEF k, l
  <2>4. doe - (25 * C + Q + late) + k - l = 365 * (100 * C + 4 * Q + Y) + (T - late)
    BY <2>0, <2>1, <2>2, <2>3 DEF Split
  <2> QED BY <1>3, <2>4 DEF k, l
<1> HIDE DEF late
<1> QED BY <1>4, <1>5

(* The leap days before a year of the era, and its day in the year. *)
LEMMA DayOfYear ==
    ASSUME NEW doe \in Int, NEW C \in Int, NEW Q \in Int, NEW Y \in Int, NEW T \in Int,
           Split(doe, C, Q, Y, T), NEW y \in Int, y = 100 * C + 4 * Q + Y
    PROVE  /\ y \div 4 = 25 * C + Q /\ y \div 100 = C /\ y \div 400 = 0
           /\ doe - (365 * y + y \div 4 - y \div 100) = T
<1>1. y = 4 * (25 * C + Q) + Y /\ 0 <= Y /\ Y < 4
  BY DEF Split
<1>2. y = 100 * C + (4 * Q + Y) /\ 0 <= 4 * Q + Y /\ 4 * Q + Y < 100
  BY DEF Split
<1>3. 0 <= y /\ y < 400
  BY DEF Split
<1>4. y \div 4 = 25 * C + Q
  BY <1>1
<1>5. y \div 100 = C
  BY <1>2
<1>6. y \div 400 = 0
  BY <1>3
<1>7. doe - (365 * y + (25 * C + Q) - C) = T
  BY DEF Split
<1> QED BY <1>4, <1>5, <1>6, <1>7

(* A year has a leap day, or not. *)
LEMMA LeapDays ==
    ASSUME NEW y \in Int
    PROVE  LeapsBefore(y + 1) = LeapsBefore(y) + (IF IsLeap(y) THEN 1 ELSE 0)
<1>1. y \div 4 = (y - 1) \div 4 + (IF y % 4 = 0 THEN 1 ELSE 0)
  OBVIOUS
<1>2. y \div 100 = (y - 1) \div 100 + (IF y % 100 = 0 THEN 1 ELSE 0)
  OBVIOUS
<1>3. y \div 400 = (y - 1) \div 400 + (IF y % 400 = 0 THEN 1 ELSE 0)
  OBVIOUS
<1>4. (y % 100 = 0 => y % 4 = 0) /\ (y % 400 = 0 => y % 100 = 0)
  OBVIOUS
<1>5. /\ y \div 4 \in Int /\ y \div 100 \in Int /\ y \div 400 \in Int
      /\ (y - 1) \div 4 \in Int /\ (y - 1) \div 100 \in Int /\ (y - 1) \div 400 \in Int
  OBVIOUS
<1>6. y + 1 - 1 = y
  OBVIOUS
<1>7. LeapsBefore(y + 1) = y \div 4 - y \div 100 + y \div 400
  BY <1>6 DEF LeapsBefore
<1> QED BY <1>1, <1>2, <1>3, <1>4, <1>5, <1>7 DEF LeapsBefore, IsLeap

(* The days of a common year before a month, counted from January. *)
Start(m) == <<0, 31, 59, 90, 120, 151, 181, 212, 243, 273, 304, 334>>[m]

LEMMA MonthStarts ==
    ASSUME NEW y \in Int, NEW m \in 1 .. 12
    PROVE  DaysBeforeMonth(y, m) = Start(m) + (IF m > 2 /\ IsLeap(y) THEN 1 ELSE 0)
<1> DEFINE leap == IF IsLeap(y) THEN 1 ELSE 0
           days == MonthDays(y)
           P(f) == f = [k \in 1 .. 12 |-> IF k = 1 THEN 0 ELSE f[k - 1] + days[k - 1]]
           g == [k \in 1 .. 12 |-> Start(k) + (IF k > 2 THEN leap ELSE 0)]
<1>1. DaysBeforeMonth(y, m) = (CHOOSE f : P(f))[m]
  BY DEF DaysBeforeMonth
<1>2. /\ days[1] = 31 /\ days[2] = 28 + leap /\ days[3] = 31 /\ days[4] = 30
      /\ days[5] = 31 /\ days[6] = 30 /\ days[7] = 31 /\ days[8] = 31
      /\ days[9] = 30 /\ days[10] = 31 /\ days[11] = 30
  BY DEF MonthDays
<1>3. leap \in Int
  OBVIOUS
<1> HIDE DEF leap, days
<1>4. P(g)
  <2>1. ASSUME NEW k \in 1 .. 12
        PROVE  g[k] = IF k = 1 THEN 0 ELSE g[k - 1] + days[k - 1]
    BY <1>2, <1>3 DEF Start
  <2> QED BY <2>1
<1>5. P(CHOOSE f : P(f))
  BY <1>4
<1>6. ASSUME NEW f, P(f)
      PROVE  f[m] = g[m]
  <2>1. f[1] = 0 /\ \A k \in 2 .. 12 : f[k] = f[k - 1] + days[k - 1]
    BY <1>6
  <2> HIDE DEF P
  <2>2. f[2] = 31
    BY <1>2, <2>1
  <2>3. f[3] = 59 + leap
    BY <1>2, <1>3, <2>1, <2>2
  <2>4. f[4] = 90 + leap
    BY <1>2, <1>3, <2>1, <2>3
  <2>5. f[5] = 120 + leap
    BY <1>2, <1>3, <2>1, <2>4
  <2>6. f[6] = 151 + leap
    BY <1>2, <1>3, <2>1, <2>5
  <2>7. f[7] = 181 + leap
    BY <1>2, <1>3, <2>1, <2>6
  <2>8. f[8] = 212 + leap
    BY <1>2, <1>3, <2>1, <2>7
  <2>9. f[9] = 243 + leap
    BY <1>2, <1>3, <2>1, <2>8
  <2>10. f[10] = 273 + leap
    BY <1>2, <1>3, <2>1, <2>9
  <2>11. f[11] = 304 + leap
    BY <1>2, <1>3, <2>1, <2>10
  <2>12. f[12] = 334 + leap
    BY <1>2, <1>3, <2>1, <2>11
  <2> QED
    BY <1>3, <2>1, <2>2, <2>3, <2>4, <2>5, <2>6, <2>7, <2>8, <2>9, <2>10, <2>11, <2>12 DEF Start
<1>7. DaysBeforeMonth(y, m) = g[m]
  <2> HIDE DEF P, g
  <2> QED BY <1>1, <1>5, <1>6
<1> QED BY <1>3, <1>7 DEF leap

(* The month and the day of a day of the year that begins in March. *)
LEMMA MonthAndDay ==
    ASSUME NEW T \in Int, 0 <= T, T <= 365,
           NEW mp \in Int, mp = (5 * T + 2) \div 153,
           NEW day \in Int, day = T - (153 * mp + 2) \div 5 + 1,
           NEW month \in Int, month = IF mp < 10 THEN mp + 3 ELSE mp - 9
    PROVE  /\ month \in 1 .. 12 /\ day \in 1 .. 31
           /\ month \in {4, 6, 9, 11} => day <= 30
           /\ month = 2 => day = T - 336 /\ day <= 29
           /\ month > 2 => T = Start(month) - 59 + day - 1
           /\ month <= 2 => T = Start(month) + 306 + day - 1
<1>1. mp \in 0 .. 11
  OBVIOUS
<1>2. CASE mp = 0
  BY <1>2 DEF Start
<1>3. CASE mp = 1
  BY <1>3 DEF Start
<1>4. CASE mp = 2
  BY <1>4 DEF Start
<1>5. CASE mp = 3
  BY <1>5 DEF Start
<1>6. CASE mp = 4
  BY <1>6 DEF Start
<1>7. CASE mp = 5
  BY <1>7 DEF Start
<1>8. CASE mp = 6
  BY <1>8 DEF Start
<1>9. CASE mp = 7
  BY <1>9 DEF Start
<1>10. CASE mp = 8
  BY <1>10 DEF Start
<1>11. CASE mp = 9
  BY <1>11 DEF Start
<1>12. CASE mp = 10
  BY <1>12 DEF Start
<1>13. CASE mp = 11
  BY <1>13 DEF Start
<1> QED
  BY <1>1, <1>2, <1>3, <1>4, <1>5, <1>6, <1>7, <1>8, <1>9, <1>10, <1>11, <1>12, <1>13

(* The date of the day T of the year y of the era e, and that a date is of the calendar *)
(* and names a day.                                                                     *)
DateIn(e, y, T) ==
    LET mp == (5 * T + 2) \div 153
        month == IF mp < 10 THEN mp + 3 ELSE mp - 9
    IN  [year |-> y + e * 400 + (IF month <= 2 THEN 1 ELSE 0), month |-> month,
         day |-> T - (153 * mp + 2) \div 5 + 1]
Names(date, d) ==
    /\ date.month \in 1 .. 12
    /\ date.day \in 1 .. MonthDays(date.year)[date.month]
    /\ DayOf(date) = d
InEra(d, e, doe) == d + 719468 = 146097 * e + doe

LEMMA DateNamesDay ==
    ASSUME NEW d \in Int, NEW e \in Int, NEW doe \in Int, InEra(d, e, doe),
           NEW C \in Int, NEW Q \in Int, NEW Y \in Int, NEW T \in Int,
           Split(doe, C, Q, Y, T)
    PROVE  Names(DateIn(e, 100 * C + 4 * Q + Y, T), d)
<1> DEFINE y == 100 * C + 4 * Q + Y
           mp == (5 * T + 2) \div 153
           month == IF mp < 10 THEN mp + 3 ELSE mp - 9
           day == T - (153 * mp + 2) \div 5 + 1
           year == y + e * 400 + (IF month <= 2 THEN 1 ELSE 0)
<1>a. DateIn(e, y, T) = [year |-> year, month |-> month, day |-> day]
  BY DEF DateIn
<1>b. mp \in Int /\ month \in Int /\ day \in Int /\ year \in Int
  OBVIOUS
<1>0. 0 <= T /\ T <= 365
  BY DEF Split
<1>1. /\ month \in 1 .. 12 /\ day \in 1 .. 31
      /\ month \in {4, 6, 9, 11} => day <= 30
      /\ month = 2 => day = T - 336 /\ day <= 29
      /\ month > 2 => T = Start(month) - 59 + day - 1
      /\ month <= 2 => T = Start(month) + 306 + day - 1
  BY <1>0, MonthAndDay
<1> HIDE DEF mp, month, day
<1>2. y \in Int /\ y \div 4 = 25 * C + Q /\ y \div 100 = C /\ y \div 400 = 0
  BY DayOfYear
<1>3. doe = 365 * y + 24 * C + Q + T
  BY DEF Split
<1> HIDE DEF y
<1>4. LeapsBefore(y + 400 * e + 1) = 97 * e + 24 * C + Q
  <2>1. (y + 400 * e) \div 4 = 100 * e + y \div 4
    BY <1>2
  <2>2. (y + 400 * e) \div 100 = 4 * e + y \div 100
    BY <1>2
  <2>3. (y + 400 * e) \div 400 = e + y \div 400
    BY <1>2
  <2>4. y + 400 * e + 1 - 1 = y + 400 * e
    BY <1>2
  <2>5. LeapsBefore(y + 400 * e + 1)
          = (y + 400 * e) \div 4 - (y + 400 * e) \div 100 + (y + 400 * e) \div 400
    BY <1>2, <2>4 DEF LeapsBefore
  <2>6. (100 * e + (25 * C + Q)) - (4 * e + C) + (e + 0) = 97 * e + 24 * C + Q
    OBVIOUS
  <2> QED BY <1>2, <2>1, <2>2, <2>3, <2>5, <2>6
<1>5. LeapsBefore(1970) = 477
  BY DEF LeapsBefore
<1>6. year = y + 400 * e + (IF month <= 2 THEN 1 ELSE 0)
  BY <1>1, <1>2
<1> HIDE DEF year
<1> USE <1>b
<1>7. Start(month) \in Int
  BY <1>1 DEF Start
<1>8. day \in 1 .. MonthDays(year)[month]
  <2>1. month = 2 /\ day = 29 => IsLeap(year)
    <3> SUFFICES ASSUME month = 2, day = 29 PROVE IsLeap(year)
      OBVIOUS
    <3>1. T = 365
      BY <1>1
    <3>2. Y = 3 /\ (Q < 24 \/ C = 3) /\ 0 <= Q /\ Q <= 24 /\ 0 <= C /\ C <= 3
      BY <3>1 DEF Split
    <3>3. year = 4 * (25 * C + Q + 1 + 100 * e)
      BY <1>6, <3>2 DEF y
    <3>4. year % 4 = 0
      BY <3>3
    <3>5. CASE Q < 24
      <4>1. year = 100 * (C + 4 * e) + 4 * (Q + 1)
        BY <3>3
      <4>2. year % 100 = 4 * (Q + 1)
        BY <3>2, <3>5, <4>1
      <4> QED BY <3>2, <3>4, <3>5, <4>2 DEF IsLeap
    <3>6. CASE Q = 24 /\ C = 3
      <4>1. year = 400 * (e + 1)
        BY <3>3, <3>6
      <4>2. year % 400 = 0
        BY <4>1
      <4> QED BY <3>4, <4>2 DEF IsLeap
    <3> QED BY <3>2, <3>5, <3>6
  <2>2. CASE month = 2
    BY <1>1, <2>1, <2>2 DEF MonthDays
  <2>3. CASE month # 2
    BY <1>1, <2>3 DEF MonthDays
  <2> QED BY <2>2, <2>3
<1>9. DayOf([year |-> year, month |-> month, day |-> day])
        = 365 * (year - 1970) + LeapsBefore(year) - 477 + DaysBeforeMonth(year, month) + day - 1
  BY <1>5 DEF DayOf
<1>10. LeapsBefore(year) + DaysBeforeMonth(year, month) = 97 * e + 24 * C + Q + Start(month)
  <2>1. DaysBeforeMonth(year, month)
          = Start(month) + (IF month > 2 /\ IsLeap(year) THEN 1 ELSE 0)
    BY <1>1, MonthStarts
  <2>2. CASE month <= 2
    <3>1. year = y + 400 * e + 1
      BY <1>2, <1>6, <2>2
    <3> QED BY <1>1, <1>4, <1>7, <2>1, <2>2, <3>1
  <2>3. CASE month > 2
    <3>1. year = y + 400 * e
      BY <1>1, <1>2, <1>6, <2>3
    <3>2. LeapsBefore(year) + (IF IsLeap(year) THEN 1 ELSE 0) = 97 * e + 24 * C + Q
      BY <1>4, <3>1, LeapDays
    <3>3. LeapsBefore(year) \in Int
      BY DEF LeapsBefore
    <3> QED BY <1>7, <2>1, <2>3, <3>2, <3>3
  <2> QED BY <1>1, <2>2, <2>3
<1>11. 365 * (year - 1970) - 477 + (97 * e + 24 * C + Q + Start(month)) + day - 1 = d
  <2>1. CASE month <= 2
    BY <1>1, <1>2, <1>3, <1>6, <1>7, <2>1 DEF InEra
  <2>2. CASE month > 2
    BY <1>1, <1>2, <1>3, <1>6, <1>7, <2>2 DEF InEra
  <2> QED BY <1>1, <2>1, <2>2
<1>12. LeapsBefore(year) \in Int /\ DaysBeforeMonth(year, month) \in Int
  <2>1. DaysBeforeMonth(year, month)
          = Start(month) + (IF month > 2 /\ IsLeap(year) THEN 1 ELSE 0)
    BY <1>1, MonthStarts
  <2> QED BY <1>7, <2>1 DEF LeapsBefore
<1>13. 365 * (year - 1970) + LeapsBefore(year) - 477 + DaysBeforeMonth(year, month) + day - 1 = d
  BY <1>10, <1>11, <1>12, <1>7
<1>14. DayOf([year |-> year, month |-> month, day |-> day]) = d
  BY <1>9, <1>13
<1> DEFINE date == [year |-> year, month |-> month, day |-> day]
<1>15. date.year = year /\ date.month = month /\ date.day = day
  OBVIOUS
<1>16. Names(date, d)
  <2> HIDE DEF date
  <2>1. DayOf(date) = d
    BY <1>14 DEF date
  <2> QED BY <1>1, <1>8, <1>15, <2>1 DEF Names
<1> QED BY <1>a, <1>16 DEF y

(* Every day is the date of the calendar that is printed for it, over all years, before *)
(* 1970 and across the leap days of centuries (times.rs, civil_from_days).              *)
THEOREM EveryDateIsItsDay ==
    ASSUME NEW d \in Int
    PROVE  LET date == civil_from_days(d)
           IN  /\ date.month \in 1 .. 12
               /\ date.day \in 1 .. MonthDays(date.year)[date.month]
               /\ DayOf(date) = d
<1> DEFINE s == d + 719468  e == s \div 146097  doe == s % 146097
<1>1. /\ e \in Int /\ doe \in Int /\ 0 <= doe /\ doe <= 146096
      /\ s = 146097 * e + doe
  OBVIOUS
<1> HIDE DEF e, doe
<1>2. PICK C, Q, Y, T \in Int : Split(doe, C, Q, Y, T)
  BY <1>1, CanSplit
<1> DEFINE y == 100 * C + 4 * Q + Y
<1>3. (doe - doe \div 1460 + doe \div 36524 - doe \div 146096) \div 365 = y
  BY <1>1, <1>2, YearOfEra
<1>4. doe - (365 * y + y \div 4 - y \div 100) = T
  BY <1>1, <1>2, DayOfYear
<1>5. civil_from_days(d) = DateIn(e, y, T)
  BY <1>3, <1>4 DEF civil_from_days, DateIn, e, doe
<1>6. InEra(d, e, doe)
  BY <1>1 DEF InEra
<1>7. Names(DateIn(e, y, T), d)
  <2>1. e \in Int /\ doe \in Int
    BY <1>1
  <2> QED BY <1>2, <1>6, <2>1, DateNamesDay
<1> QED BY <1>5, <1>7 DEF Names

-----------------------------------------------------------------------------
(* Renderings *)

(* What a rendering leaves out: the seconds of its offset. *)
Unprinted(offset) == (IF offset < 0 THEN -1 ELSE 1) * (Abs(offset) % 60)

(* A rendering is a date of the calendar and a time of the day, and with its printed *)
(* offset it names the instant it renders, for every instant and every offset of      *)
(* whole minutes; for another it is off by that offset's seconds (times.rs, format).  *)
THEOREM RenderingNamesTheInstant ==
    ASSUME NEW epoch \in Int, NEW offset \in Int
    PROVE  /\ IsTime(format(epoch, offset))
           /\ InstantOf(format(epoch, offset)) = epoch + Unprinted(offset)
<1> DEFINE t == epoch + offset
           secs == t % 86400
           days == t \div 86400
           date == civil_from_days(days)
           h == secs \div 3600
           m == (secs % 3600) \div 60
           s == secs % 60
           a == Abs(offset)
           oh == a \div 3600
           om == (a % 3600) \div 60
           r == format(epoch, offset)
<1>1. days \in Int /\ secs \in Int /\ t = 86400 * days + secs /\ 0 <= secs /\ secs < 86400
  OBVIOUS
<1>2. /\ r.date = date /\ r.hour = h /\ r.minute = m /\ r.second = s
      /\ r.minus = (offset < 0) /\ r.offHour = oh /\ r.offMinute = om
  BY DEF format
<1>3. /\ date.month \in 1 .. 12 /\ date.day \in 1 .. MonthDays(date.year)[date.month]
      /\ DayOf(date) = days
  <2> HIDE DEF days
  <2> QED BY <1>1, EveryDateIsItsDay
<1>4. a \in Int /\ 0 <= a /\ (IF offset < 0 THEN -1 ELSE 1) * a = offset
  BY DEF Abs
<1> HIDE DEF r, date, days, secs, a
<1>5. /\ h \in 0 .. 23 /\ m \in 0 .. 59 /\ s \in 0 .. 59
      /\ 3600 * h + 60 * m + s = secs
  BY <1>1
<1>6. IsTime(r)
  <2> HIDE DEF h, m, s
  <2> QED BY <1>2, <1>3, <1>5 DEF IsTime
<1> DEFINE u == a % 60  k == IF offset < 0 THEN -1 ELSE 1
<1>7. u \in Int /\ 3600 * oh + 60 * om = a - u
  BY <1>4
<1>8. InstantOf(r) = 86400 * days + 3600 * h + 60 * m + s - k * (3600 * oh + 60 * om)
  <2>1. InstantOf(r) = 86400 * DayOf(r.date) + 3600 * r.hour + 60 * r.minute + r.second
                         - (IF r.minus THEN -1 ELSE 1) * (3600 * r.offHour + 60 * r.offMinute)
    BY DEF InstantOf
  <2> HIDE DEF h, m, s, oh, om, k, u
  <2>2. (IF r.minus THEN -1 ELSE 1) = k
    BY <1>2, Zenon DEF k
  <2>3. DayOf(r.date) = days
    BY <1>2, <1>3
  <2>4. h \in Int /\ m \in Int /\ s \in Int /\ oh \in Int /\ om \in Int
    BY <1>1, <1>4 DEF h, m, s, oh, om
  <2> QED BY <1>2, <2>1, <2>2, <2>3, <2>4
<1>9. InstantOf(r) = t - k * (a - u)
  <2>1. oh \in Int /\ om \in Int
    BY <1>4
  <2> HIDE DEF h, m, s, oh, om, u
  <2> QED BY <1>1, <1>5, <1>7, <1>8, <2>1
<1>10. InstantOf(r) = epoch + k * u
  <2> HIDE DEF u
  <2>1. CASE offset < 0
    <3>1. k = -1 /\ a = -offset
      BY <1>4, <2>1
    <3> QED BY <1>4, <1>7, <1>9, <3>1
  <2>2. CASE ~(offset < 0)
    <3>1. k = 1 /\ a = offset
      BY <1>4, <2>2
    <3> QED BY <1>4, <1>7, <1>9, <3>1
  <2> QED BY <2>1, <2>2
<1> QED BY <1>6, <1>10 DEF r, a, Unprinted

(* An offset that is read is one of whole minutes. *)
LEMMA ParsedIsWhole ==
    ASSUME NEW minus \in BOOLEAN, NEW h \in Int, NEW m \in Int,
           parse_offset(minus, h, m) # NoOffset
    PROVE  /\ parse_offset(minus, h, m) \in Int
           /\ Unprinted(parse_offset(minus, h, m)) = 0
<1> DEFINE o == parse_offset(minus, h, m)  k == IF minus THEN -(60 * h + m) ELSE 60 * h + m
<1>1. k \in Int /\ o = 60 * k
  BY DEF parse_offset
<1> HIDE DEF o, k
<1>2. Abs(o) = 60 * Abs(k) /\ Abs(k) \in Int
  BY <1>1 DEF Abs
<1>3. Abs(o) % 60 = 0
  BY <1>2
<1>4. Unprinted(o) = 0
  BY <1>3 DEF Unprinted
<1> QED BY <1>1, <1>4 DEF o

(* Every rendering of an instant that a caller is given (UTC, the server's clock at an *)
(* offset of whole minutes, and the offset that was asked for) is a date and a time,   *)
(* and names that instant (times.rs, When::new).                                       *)
THEOREM EveryRenderingIsRight ==
    ASSUME NEW epoch \in Int, NEW server \in Int, Unprinted(server) = 0,
           NEW minus \in BOOLEAN, NEW h \in Int, NEW m \in Int,
           NEW r \in LET w == When(epoch, server, parse_offset(minus, h, m))
                     IN  {w.utc, w.server, w.local}
    PROVE  r = NoOffset \/ (IsTime(r) /\ InstantOf(r) = epoch)
<1> DEFINE o == parse_offset(minus, h, m)
<1>1. r # NoOffset => \E x \in Int : Unprinted(x) = 0 /\ r = format(epoch, x)
  <2>1. \/ r = format(epoch, 0)
        \/ r = (IF server = NoOffset THEN NoOffset ELSE format(epoch, server))
        \/ r = (IF o = NoOffset THEN NoOffset ELSE format(epoch, o))
    BY DEF When
  <2>2. 0 \in Int /\ Unprinted(0) = 0
    BY DEF Unprinted, Abs
  <2>3. o # NoOffset => o \in Int /\ Unprinted(o) = 0
    BY ParsedIsWhole
  <2> QED BY <2>1, <2>2, <2>3
<1>2. SUFFICES ASSUME NEW x \in Int, Unprinted(x) = 0, r = format(epoch, x)
               PROVE  IsTime(r) /\ InstantOf(r) = epoch
  BY <1>1
<1> QED BY <1>2, RenderingNamesTheInstant
=============================================================================
