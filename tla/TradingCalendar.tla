-------------------------- MODULE TradingCalendar --------------------------
(***************************************************************************)
(* The calendars the charts are drawn on: src/data/calendar.ts, its table    *)
(* of Korean holidays, and the two functions by which the server tells       *)
(* whether the American market is open.  The browser computes New York's      *)
(* offset itself, from dates; the server asks the platform's time zones.      *)
(*                                                                         *)
(* A date is the number of days since 1 January 1970, a Thursday; an instant *)
(* is a number of minutes since then.  Months count from zero, as they do     *)
(* for Date.UTC, and days of the week from Sunday.  Charts are sets of their  *)
(* bars' instants: the code pushes them in order.                            *)
(***************************************************************************)
EXTENDS Integers, FiniteSets

CONSTANTS
  Years,        \* the years that are looked at
  Dates         \* the dates a chart may end with

VARIABLES
  calendar,     \* the calendar of the asset that is shown
  endDate       \* the date of its last close

calendarVars == <<calendar, endDate>>

DayMinutes == 24 * 60
Quarter == 15

-----------------------------------------------------------------------------
(* Dates.                                                                    *)

IsLeap(year) == year % 4 = 0 /\ (year % 100 # 0 \/ year % 400 = 0)

DaysBefore(month, leap) ==
  <<0, 31, 59, 90, 120, 151, 181, 212, 243, 273, 304, 334>>[month + 1]
    + (IF leap /\ month >= 2 THEN 1 ELSE 0)

\* Months and days beyond their range run over into the next years and months.
utcDate(year, month, day) ==
  LET y == year + month \div 12
      leaps == ((y - 1) \div 4) - ((y - 1) \div 100) + ((y - 1) \div 400) - 477
  IN  365 * (y - 1970) + leaps + DaysBefore(month % 12, IsLeap(y)) + day - 1

NewYear == [y \in Years |-> utcDate(y, 0, 1)]
yearOf(date) == CHOOSE y \in Years : NewYear[y] <= date /\ date < NewYear[y] + (IF IsLeap(y) THEN 366 ELSE 365)
monthOf(date) == CHOOSE m \in 0..11 : /\ utcDate(yearOf(date), m, 1) <= date
                                      /\ date < utcDate(yearOf(date), m + 1, 1)
dayOf(date) == date - utcDate(yearOf(date), monthOf(date), 1) + 1
weekday(date) == (date + 4) % 7

nthWeekday(year, month, day, nth) ==
  LET first == utcDate(year, month, 1)
  IN  first + ((day - weekday(first)) % 7) + (nth - 1) * 7

lastWeekday(year, month, day) ==
  LET last == utcDate(year, month + 1, 0)
  IN  last - ((weekday(last) - day) % 7)

observedFixedHoliday(year, month, day) ==
  LET actual == utcDate(year, month, day)
  IN  actual + (CASE weekday(actual) = 6 -> -1 [] weekday(actual) = 0 -> 1 [] OTHER -> 0)

easterSunday(year) ==
  LET a == year % 19
      b == year \div 100
      c == year % 100
      g == (b - ((b + 8) \div 25) + 1) \div 3
      h == (19 * a + b - (b \div 4) - g + 15) % 30
      l == (32 + 2 * (b % 4) + 2 * (c \div 4) - h - (c % 4)) % 7
      m == (a + 11 * h + 22 * l) \div 451
      n == h + l - 7 * m + 114
  IN  utcDate(year, (n \div 31) - 1, (n % 31) + 1)

-----------------------------------------------------------------------------
(* Session days.                                                             *)

usEquityHolidayKeys(year) ==
  {date \in
     {observedFixedHoliday(year, 0, 1), nthWeekday(year, 0, 1, 3), nthWeekday(year, 1, 1, 3),
      easterSunday(year) - 2, lastWeekday(year, 4, 1), observedFixedHoliday(year, 6, 4),
      nthWeekday(year, 8, 1, 1), nthWeekday(year, 10, 4, 4), observedFixedHoliday(year, 11, 25),
      observedFixedHoliday(year + 1, 0, 1)}
     \cup (IF year >= 2022 THEN {observedFixedHoliday(year, 5, 19)} ELSE {}) :
   utcDate(year, 0, 1) <= date /\ date < utcDate(year + 1, 0, 1)}

holidayCache == [year \in Years |-> usEquityHolidayKeys(year)]

isWeekday(date) == weekday(date) \notin {0, 6}
isUsEquityTradingDay(date) == isWeekday(date) /\ date \notin holidayCache[yearOf(date)]

\* The rows of the table for two years, by month and day; the table reaches from 2021 to 2026.
KR_NON_TRADING_DAYS ==
  [year \in {2025, 2026} |->
     IF year = 2025
     THEN {<<1, 1>>, <<1, 27>>, <<1, 28>>, <<1, 29>>, <<1, 30>>, <<3, 1>>, <<3, 3>>, <<5, 1>>, <<5, 5>>,
           <<5, 6>>, <<6, 3>>, <<6, 6>>, <<8, 15>>, <<10, 3>>, <<10, 5>>, <<10, 6>>, <<10, 7>>, <<10, 8>>,
           <<10, 9>>, <<12, 25>>, <<12, 31>>}
     ELSE {<<1, 1>>, <<2, 16>>, <<2, 17>>, <<2, 18>>, <<3, 1>>, <<3, 2>>, <<5, 1>>, <<5, 5>>, <<5, 24>>,
           <<5, 25>>, <<6, 3>>, <<6, 6>>, <<7, 17>>, <<8, 15>>, <<8, 17>>, <<9, 24>>, <<9, 25>>, <<9, 26>>,
           <<10, 3>>, <<10, 5>>, <<10, 9>>, <<12, 25>>, <<12, 31>>}]

\* A year that the table lacks has no holidays.
krNonTradingKeys(year) ==
  IF year \in DOMAIN KR_NON_TRADING_DAYS
  THEN {utcDate(year, row[1] - 1, row[2]) : row \in KR_NON_TRADING_DAYS[year]} ELSE {}

krHolidayCache == [year \in Years |-> krNonTradingKeys(year)]
isKrEquityTradingDay(date) == isWeekday(date) /\ date \notin krHolidayCache[yearOf(date)]

calendarForAsset(kind, region) ==
  CASE kind = "crypto" -> "CRYPTO_24_7"
    [] kind = "future" -> "WEEKDAY"
    [] OTHER           -> IF region = "KR" THEN "KR_EQUITY" ELSE "US_EQUITY"

isSessionDay(c, date) ==
  CASE c = "CRYPTO_24_7" -> TRUE
    [] c = "WEEKDAY"     -> isWeekday(date)
    [] c = "KR_EQUITY"   -> isKrEquityTradingDay(date)
    [] OTHER             -> isUsEquityTradingDay(date)

\* How far the walk back to some number of sessions goes at most.
Lookback(count) == 2 * count + 14

Latest(count, times) == {t \in times : Cardinality({u \in times : u > t}) < count}

previousSessionDates(c, end, count) ==
  Latest(count, {date \in end - Lookback(count)..end : isSessionDay(c, date)})

rangeStart(end, range) ==
  LET year == yearOf(end)
      month == monthOf(end)
      day == dayOf(end)
  IN  CASE range = "YTD" -> utcDate(year, 0, 1)
        [] range = "1M"  -> utcDate(year, month - 1, day)
        [] range = "6M"  -> utcDate(year, month - 6, day)
        [] range = "1Y"  -> utcDate(year - 1, month, day)
        [] OTHER         -> utcDate(year - 5, month, day)

sessionDatesForRange(c, end, range) ==
  {date \in rangeStart(end, range)..end : isSessionDay(c, date)}

-----------------------------------------------------------------------------
(* The instants of the bars.                                                 *)

\* Mutant: summer ends with October.
offsetUntilOctober(date) ==
  IF /\ nthWeekday(yearOf(date), 2, 0, 2) <= date
     /\ date < lastWeekday(yearOf(date), 9, 0)
  THEN -4 ELSE -5

easternOffsetHours(date) ==
  IF /\ nthWeekday(yearOf(date), 2, 0, 2) <= date
     /\ date < nthWeekday(yearOf(date), 10, 0, 1)
  THEN -4 ELSE -5

easternTimestamp(date, hour, minute) ==
  date * DayMinutes + (hour - easternOffsetHours(date)) * 60 + minute

kstTimestamp(date, hour, minute) == date * DayMinutes + (hour - 9) * 60 + minute

dailyBarTimestamp(c, date) ==
  CASE c = "US_EQUITY" -> easternTimestamp(date, 16, 0)
    [] c = "KR_EQUITY" -> kstTimestamp(date, 15, 30)
    [] c = "WEEKDAY"   -> date * DayMinutes + 20 * 60
    [] OTHER           -> date * DayMinutes

Sessions(range) == CASE range = "1D" -> 1 [] range = "5D" -> 5 [] OTHER -> 7

\* The bars before an instant: the walk back leaves out the weekends of the calendar of weekdays.
BarsBefore(c, endTimestamp, needed) ==
  LET skip(t) == t - Quarter * (CHOOSE k \in 0..192 :
                   /\ isSessionDay(c, (t - k * Quarter) \div DayMinutes)
                   /\ \A j \in 0..k - 1 : ~ isSessionDay(c, (t - j * Quarter) \div DayMinutes))
      walk[i \in 1..needed] == skip((IF i = 1 THEN endTimestamp ELSE walk[i - 1]) - Quarter)
  IN  {walk[i] : i \in 1..needed}

\* Equities have the bars of their sessions, the others the bars before an instant.
intradayBarTimestamps(c, end, endTimestamp, range) ==
  IF c \in {"US_EQUITY", "KR_EQUITY"}
  THEN {(IF c = "US_EQUITY" THEN easternTimestamp(date, 9, 30) ELSE kstTimestamp(date, 9, 0)) + i * Quarter :
          date \in previousSessionDates(c, end, Sessions(range)), i \in 0..25}
  ELSE BarsBefore(c, endTimestamp, Sessions(range) * 96)

Intraday == {"1D", "5D", "7D"}

\* The instants of a chart that ends with a date and, within it, at an instant.
getHistory(c, end, endTimestamp, range) ==
  IF range \in Intraday THEN intradayBarTimestamps(c, end, endTimestamp, range)
  ELSE {dailyBarTimestamp(c, date) : date \in sessionDatesForRange(c, end, range)}

-----------------------------------------------------------------------------
(* What the server takes for the hours of the American market.                *)

\* New York's clocks change at two in the morning of its own time.
NewYork(instant) ==
  LET year == yearOf(instant \div DayMinutes)
      summer == nthWeekday(year, 2, 0, 2) * DayMinutes + 7 * 60
      winter == nthWeekday(year, 10, 0, 1) * DayMinutes + 6 * 60
      clock == instant - (IF summer <= instant /\ instant < winter THEN 4 ELSE 5) * 60
  IN  [date |-> clock \div DayMinutes, hour |-> (clock % DayMinutes) \div 60, minute |-> clock % 60]

InHours(minutes) == 570 <= minutes /\ minutes < 960

\* Midnight may be formatted as hour 24.
isUsMarketOpenNow(instant) ==
  LET now == NewYork(instant)
      hour == IF now.hour = 0 THEN 24 ELSE now.hour
  IN  isUsEquityTradingDay(now.date) /\ InHours(hour * 60 + now.minute)

stockOpenNow(instant) ==
  LET now == NewYork(instant)
  IN  isUsEquityTradingDay(now.date) /\ InHours((now.hour % 24) * 60 + now.minute)

-----------------------------------------------------------------------------

CalendarInit ==
  /\ calendar \in {calendarForAsset(kind, region) : kind \in {"stock", "future", "crypto"}, region \in {"US", "KR"}}
  /\ endDate \in Dates

\* The close of the next day is known.
NextClose ==
  /\ endDate + 1 \in Dates
  /\ endDate' = endDate + 1
  /\ UNCHANGED calendar

CalendarNext == NextClose

CalendarSpec == CalendarInit /\ [][CalendarNext]_calendarVars

-----------------------------------------------------------------------------

QuartersOf(date) == {date * DayMinutes + i * Quarter : i \in 0..95}

\* The quarters of an hour with a bar are those in which the server says that the market is open:
\* two calculations of New York's time, on both sides of every change of its clocks, holidays and
\* weekends (calendar.ts 198-212 and 233-244, session.ts 3-17, alpaca.ts 66-81).
BarsAreOpenHours ==
  calendar = "US_EQUITY" =>
    LET bars == getHistory("US_EQUITY", endDate, 0, "5D")
    IN  \A t \in QuartersOf(endDate) :
          /\ t \in bars <=> isUsMarketOpenNow(t)
          /\ isUsMarketOpenNow(t) <=> stockOpenNow(t)

\* The dates a chart of a range shows.
DatesOf(range) ==
  IF range \in Intraday THEN previousSessionDates(calendar, endDate, Sessions(range))
  ELSE sessionDatesForRange(calendar, endDate, range)

\* A longer range shows everything that a shorter one shows, also where a month lacks the day the
\* range would start with, and no chart ends before the session that its date closes
\* (calendar.ts 154-191).
RangesAreNested ==
  /\ Cardinality(DatesOf("5D")) = 5
  /\ DatesOf("5D") \subseteq DatesOf("1M")
  /\ DatesOf("1M") \subseteq DatesOf("6M")
  /\ DatesOf("6M") \subseteq DatesOf("1Y")
  /\ isSessionDay(calendar, endDate) =>
       \A range \in {"1D", "1M", "YTD"} : endDate \in DatesOf(range)

\* The chart of one day has all the bars of a day and ends with the last quarter of an hour before the
\* instant at which its day is stamped (calendar.ts 221-257).
DaysEndWithTheirBars ==
  \A date \in previousSessionDates(calendar, endDate, 1) :
    LET close == dailyBarTimestamp(calendar, date)
        bars == getHistory(calendar, endDate, close, "1D")
    IN  /\ Cardinality(bars) = IF calendar \in {"US_EQUITY", "KR_EQUITY"} THEN 26 ELSE 96
        /\ Latest(1, bars) = {close - Quarter}

ChartsFollowTheMarket == BarsAreOpenHours /\ RangesAreNested /\ DaysEndWithTheirBars
=============================================================================
