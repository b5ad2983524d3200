-------------------------------- MODULE Calendar --------------------------------
(***************************************************************************)
(* os.time and os.date over the C library functions of lwince.c, which     *)
(* stand in for those Windows CE lacks.                                    *)
(*                                                                         *)
(* A broken down time is a record; what a WORD of a SYSTEMTIME cannot hold *)
(* wraps (Word).  The actions go through the days of the calendar, and on  *)
(* each some times of the day are turned into a time_t and back.           *)
(***************************************************************************)
EXTENDS Integers, Sequences

CONSTANTS LastYear,      \* bound: days up to the end of this year
          TimesOfDay,    \* seconds since midnight
          Zones          \* what GetTimeZoneInformation may return

VARIABLES today,         \* [year, month, day], the calendar's own
          days,          \* since 1970-01-01
          dayOfYear,     \* 1 on 1 January
          hms,           \* the time of the day a program asks about
          timer,         \* the time_t os.time gave
          shift,         \* what the zone took from it, in seconds
          stm,           \* the tm of the last os.date
          pc

calendar == <<today, days, dayOfYear>>
vars == <<calendar, hms, timer, shift, stm, pc>>

SecondsInDay == 86400
SecondsInYear == 31536000
SecondsInLeapYear == 31622400
Word(n) == n % 65536

CenturiesAreLeap(year) == year >= 1582 /\ year % 4 = 0 /\ year % 100 # 0
IsLeap(year) == year >= 1582 /\ (year % 400 = 0 \/ (year % 100 # 0 /\ year % 4 = 0))
DaysInMonth(month, year) ==
  IF month < 1 \/ month > 12 THEN -1
  ELSE IF month = 2 /\ IsLeap(year) THEN 29
  ELSE <<31, 28, 31, 30, 31, 30, 31, 31, 30, 31, 30, 31>>[month]

\* Seconds before a year, and days before a month of a year.
YearStart[y \in 1970 .. LastYear + 1] ==
  IF y = 1970 THEN 0 ELSE YearStart[y - 1] + (IF IsLeap(y - 1) THEN SecondsInLeapYear ELSE SecondsInYear)
MonthStart[m \in 1 .. 12, leap \in BOOLEAN] ==
  IF m = 1 THEN 0 ELSE MonthStart[m - 1, leap] + DaysInMonth(m - 1, IF leap THEN 2000 ELSE 1999)
DaysBefore(month, year) == MonthStart[month, IsLeap(year)]

\* The summer time: after the 22nd of each of the months from March to October.
IsDaylightSaving(tm, isNow, zone) ==
  LET month == tm.mon + 1
  IN IF isNow THEN zone.id = "daylight"
     ELSE tm.year + 1900 >= 1916 /\ month \in 3 .. 10 /\ tm.mday > 22

MkTime(tm) ==
  LET year == tm.year + 1900
  IN IF year < 1970 THEN -1
     ELSE YearStart[year] + SecondsInDay * DaysBefore(tm.mon + 1, year)
          + SecondsInDay * (tm.mday - 1) + 3600 * tm.hour + 60 * tm.min + tm.sec

TmStructFromSystime(s, isNow, zone) ==
  LET tm == [sec |-> s.second, min |-> s.minute, hour |-> s.hour, mday |-> s.day, mon |-> s.month - 1, year |-> s.year - 1900,
             wday |-> s.dayOfWeek, yday |-> DaysBefore(s.month, s.year) + s.day - 1, isdst |-> FALSE]
  IN [tm EXCEPT !.isdst = IsDaylightSaving(tm, isNow, zone)]

\* The loops of gmtime: r is what is left of the seconds, and the field counted.
YearsAllShort(r) == [secs |-> r.secs % SecondsInYear, n |-> r.n + r.secs \div SecondsInYear]
RECURSIVE Years(_), Months(_, _), Counted(_, _)
Years(r) ==
  IF r.secs < SecondsInYear THEN r
  ELSE Years([secs |-> r.secs - (IF IsLeap(r.n) /\ r.secs >= SecondsInLeapYear THEN SecondsInLeapYear ELSE SecondsInYear), n |-> r.n + 1])
Months(r, year) ==
  LET month == DaysInMonth(r.n, year) * SecondsInDay
  IN IF r.secs = 0 \/ r.secs < month THEN r ELSE Months([secs |-> r.secs - month, n |-> r.n + 1], year)
Counted(r, unit) == IF r.secs < unit THEN r ELSE Counted([secs |-> r.secs - unit, n |-> r.n + 1], unit)
Days(t) == IF t < 0 THEN -(-t \div SecondsInDay) ELSE t \div SecondsInDay        \* of C, to zero
DayOfWeek(t) == LET d == 4 + (Days(t) % 7) IN IF d > 6 THEN d - 7 ELSE d
GmTime(t, isNow, zone) ==
  LET year == Years([secs |-> t, n |-> 1970])
      month == Months([year EXCEPT !.n = 1], year.n)
      day == Counted([month EXCEPT !.n = 1], SecondsInDay)
      hour == Counted([day EXCEPT !.n = 0], 3600)
      minute == Counted([hour EXCEPT !.n = 0], 60)
  IN TmStructFromSystime([year |-> Word(year.n), month |-> month.n, dayOfWeek |-> DayOfWeek(t), day |-> day.n, hour |-> hour.n,
                          minute |-> minute.n, second |-> minute.secs], isNow, zone)

\* "only works for 'now'": what the clock's zone says today shifts every time.
Bias(zone) == CASE zone.id = "standard" -> zone.bias [] zone.id = "daylight" -> zone.bias + zone.daylightBias [] OTHER -> 0
LocalTime(t, isNow, zone) == GmTime(t - Bias(zone) * 60, isNow, zone)

(***************************************************************************)
(* os.time of a table, os.date("!*t") and os.date("*t").                   *)
(***************************************************************************)
Field(table, key, d) == IF key \in DOMAIN table THEN table[key] ELSE d
OsTime(table) ==
  MkTime([sec |-> Field(table, "sec", 0), min |-> Field(table, "min", 0), hour |-> Field(table, "hour", 12),
          mday |-> table.day, mon |-> table.month - 1, year |-> table.year - 1900])
DateTable(tm) ==
  [sec |-> tm.sec, min |-> tm.min, hour |-> tm.hour, day |-> tm.mday, month |-> tm.mon + 1, year |-> tm.year + 1900,
   wday |-> tm.wday + 1, yday |-> tm.yday + 1, isdst |-> tm.isdst]

TableOf(d, s) == [year |-> d.year, month |-> d.month, day |-> d.day, hour |-> s \div 3600, min |-> (s \div 60) % 60, sec |-> s % 60]
NotYet == [year |-> 0]
Noon == 43200

Init ==
  /\ today = [year |-> 1970, month |-> 1, day |-> 1] /\ days = 0 /\ dayOfYear = 1 /\ shift = 0
  /\ hms = 0 /\ timer = 0 /\ stm = NotYet /\ pc = "day"

\* The day after, by the rules of the Gregorian calendar.
LongFebruary(year) == \/ year % 400 = 0
                      \/ year % 4 = 0 /\ year % 100 # 0
LastOf(d) == CASE d.month \in {4, 6, 9, 11} -> 30
               [] d.month = 2 -> (IF LongFebruary(d.year) THEN 29 ELSE 28)
               [] OTHER -> 31
DayAfter(d) ==
  IF d.day < LastOf(d) THEN [d EXCEPT !.day = @ + 1]
  ELSE IF d.month < 12 THEN [d EXCEPT !.day = 1, !.month = @ + 1]
  ELSE [year |-> d.year + 1, month |-> 1, day |-> 1]
Midnight ==
  /\ pc \in {"day", "date"} /\ DayAfter(today).year <= LastYear
  /\ today' = DayAfter(today) /\ days' = days + 1
  /\ dayOfYear' = (IF DayAfter(today).year # today.year THEN 1 ELSE dayOfYear + 1)
  /\ hms' = 0 /\ timer' = 0 /\ shift' = 0 /\ stm' = NotYet /\ pc' = "day"

Time ==
  /\ pc = "day"
  /\ \/ \E s \in TimesOfDay : hms' = s /\ timer' = OsTime(TableOf(today, s))
     \/ hms' = Noon /\ timer' = OsTime(today)              \* no hour in the table
  /\ pc' = "time" /\ UNCHANGED <<calendar, shift, stm>>

Date ==
  /\ pc = "time"
  /\ \E isNow \in BOOLEAN, zone \in Zones :
       \/ stm' = DateTable(GmTime(timer, isNow, zone)) /\ UNCHANGED shift
       \/ stm' = DateTable(LocalTime(timer, isNow, zone)) /\ shift' = Bias(zone) * 60
  /\ pc' = "date" /\ UNCHANGED <<calendar, hms, timer>>

Next == Midnight \/ Time \/ Date
Spec == Init /\ [][Next]_vars

(***************************************************************************)
(* Properties.                                                             *)
(***************************************************************************)
\* mktime gives the seconds since 1970-01-01 00:00:00: each day of the calendar has
\* its 86400, through every end of month and of year and every 29 February.
CountsEveryDay == pc # "day" => timer = days * SecondsInDay + hms

\* os.date("!*t", os.time(date)) is date, and os.date("*t", ...) what it is in the zone.
Shown == hms - shift
Recovered ==
  pc = "date" /\ Shown \in 0 .. SecondsInDay - 1 =>
    /\ [f \in DOMAIN TableOf(today, Shown) |-> stm[f]] = TableOf(today, Shown)
    /\ stm.wday = 1 + ((days + 4) % 7) /\ stm.yday = dayOfYear
DateInvertsTime == Recovered
\* It is, but for the last day of a leap year, which gmtime takes for the first of the next.
LastOfLeapYear == LongFebruary(today.year) /\ today.month = 12 /\ today.day = 31
DateInvertsTimeElse == ~LastOfLeapYear => Recovered
=============================================================================
