------------------------------- MODULE Times -------------------------------
(***************************************************************************)
(* Rendering of instants (src/times.rs): an epoch in seconds as a date and *)
(* a time of day at an offset, and a caller's utc_offset.  A rendering is  *)
(* the numbers that are printed.  PBS gives its own offset as of now; an   *)
(* instant on the other side of a change of its clocks is rendered with it *)
(* all the same.                                                           *)
(***************************************************************************)
EXTENDS Integers

\* An offset that is not known or was not asked for.
CONSTANT NoOffset

\* The date of a day counted from 1970-01-01, years beginning in March.
civil_from_days(z) ==
    LET s == z + 719468
        era == s \div 146097
        doe == s % 146097
        yoe == (doe - doe \div 1460 + doe \div 36524 - doe \div 146096) \div 365
        doy == doe - (365 * yoe + yoe \div 4 - yoe \div 100)
        mp == (5 * doy + 2) \div 153
        month == IF mp < 10 THEN mp + 3 ELSE mp - 9
    IN  [year |-> yoe + era * 400 + (IF month <= 2 THEN 1 ELSE 0), month |-> month,
         day |-> doy - (153 * mp + 2) \div 5 + 1]

Abs(n) == IF n < 0 THEN -n ELSE n

\* format: the sign, hours and minutes of the offset are printed after the time; its
\* seconds are not.
format(epoch, offset) ==
    LET t == epoch + offset
        secs == t % 86400
    IN  [date |-> civil_from_days(t \div 86400),
         hour |-> secs \div 3600, minute |-> (secs % 3600) \div 60, second |-> secs % 60,
         minus |-> offset < 0,
         offHour |-> Abs(offset) \div 3600, offMinute |-> (Abs(offset) % 3600) \div 60]

\* When::new
When(epoch, server, local) ==
    [epoch |-> epoch, utc |-> format(epoch, 0),
     server |-> IF server = NoOffset THEN NoOffset ELSE format(epoch, server),
     local |-> IF local = NoOffset THEN NoOffset ELSE format(epoch, local)]

\* server_clock: from the reply's localtime and time; unknown if it cannot be read.
server_clock(reply) ==
    IF reply.readable THEN reply.localtime - reply.time ELSE NoOffset

\* parse_offset: of the sign, hours and minutes that were written; each of the
\* numbers may have a sign of its own.
parse_offset(minus, h, m) ==
    IF h > 14 \/ m > 59 THEN NoOffset
    ELSE (IF minus THEN -1 ELSE 1) * (h * 3600 + m * 60)

-----------------------------------------------------------------------------
(* The calendar, independently of the above: what a rendering stands for *)

IsLeap(y) == y % 4 = 0 /\ (y % 100 # 0 \/ y % 400 = 0)
MonthDays(y) == <<31, IF IsLeap(y) THEN 29 ELSE 28, 31, 30, 31, 30, 31, 31, 30, 31, 30, 31>>
LeapsBefore(y) == (y - 1) \div 4 - (y - 1) \div 100 + (y - 1) \div 400
DaysBeforeMonth(y, m) ==
    LET before[k \in 1 .. 12] == IF k = 1 THEN 0 ELSE before[k - 1] + MonthDays(y)[k - 1]
    IN  before[m]

DayOf(date) ==
    365 * (date.year - 1970) + LeapsBefore(date.year) - LeapsBefore(1970)
      + DaysBeforeMonth(date.year, date.month) + date.day - 1

\* A rendering that is a date of the calendar and a time of the day.
IsTime(r) ==
    /\ r.date.month \in 1 .. 12
    /\ r.date.day \in 1 .. MonthDays(r.date.year)[r.date.month]
    /\ r.hour \in 0 .. 23 /\ r.minute \in 0 .. 59 /\ r.second \in 0 .. 59

\* The instant a rendering names.
InstantOf(r) ==
    86400 * DayOf(r.date) + 3600 * r.hour + 60 * r.minute + r.second
      - (IF r.minus THEN -1 ELSE 1) * (3600 * r.offHour + 60 * r.offMinute)
=============================================================================
