---------------------------- MODULE TimeWindows ----------------------------
(***************************************************************************)
(* internal/dashboard/timewin.go: the windows the dashboard asks for.      *)
(* Zones are ArchiveCalendar's, and so are instants, but that HoursPerDay  *)
(* counts finer ones than hours here.  Weeks and months are runs of        *)
(* DaysPerWeek and DaysPerMonth dates, and date 0 begins one of each.      *)
(***************************************************************************)
EXTENDS ArchiveCalendar

CONSTANTS
  DaysPerWeek, DaysPerMonth,
  Bars,          \* [day, week, month]: bars of a sparkline; 14, 12 and 12 in the code
  HeatmapDays,   \* 360 in the code
  RateInterval,  \* [day, week, month]: instants to a point; 1, 6 and 24 hours in the code
  RateCount,     \* [day, week, month]: points; 48, 28 and 30 in the code
  RealtimeTicks  \* realtimeSpeedWindow

ASSUME WindowAssumption ==
  /\ DaysPerWeek \in Nat \ {0} /\ DaysPerMonth \in Nat \ {0} /\ HeatmapDays \in Nat \ {0}
  /\ RealtimeTicks \in Nat
  /\ \A r \in {"day", "week", "month"} :
       Bars[r] \in Nat \ {0} /\ RateCount[r] \in Nat \ {0} /\ RateInterval[r] \in Nat \ {0}

Grain  == [day |-> 1, week |-> DaysPerWeek, month |-> DaysPerMonth]

Window(start, end) == [start |-> start, end |-> end]

-----------------------------------------------------------------------------
(* windowAt *)

TodayStart(zone, now) == LocalMidnight(zone, now)

\* mondayOf, and the first of the month.
GrainStart(zone, now, range) ==
  LET today == TodayStart(zone, now)
  IN  AddDate(zone, today, -(LocalDate(zone, today) % Grain[range]))

\* Days are added as 24 hours, weeks and months on the calendar.
Shift(zone, t, range, n) ==
  IF range = "day" THEN t + n * HoursPerDay ELSE AddDate(zone, t, n * Grain[range])

HeatmapStart(zone, now) == AddDate(zone, TodayStart(zone, now), -(HeatmapDays - 1))

-----------------------------------------------------------------------------
\* TimeWindow.Resolve.
WindowsFrom(zone, start, now, range) ==
  [current   |-> Window(start, now),
   previous  |-> Window(Shift(zone, start, range, -1), start),
   sparkline |-> Window(Shift(zone, start, range, 1 - Bars[range]),
                        Shift(zone, start, range, 1))]

Resolve(zone, now, range) == WindowsFrom(zone, GrainStart(zone, now, range), now, range)

\* SinceStart: the last 7 or 30 times 24 hours before today.
SinceStart(zone, now, days) == TodayStart(zone, now) - days * HoursPerDay

\* ResolveRates: the last RateCount points, the one now is in included; a day's begin on the
\* hour, a week's are counted from midnight, and a month's last one begins there.
RatesWindow(zone, now, range) ==
  LET today == TodayStart(zone, now)
      step  == RateInterval[range]
      point == CASE range = "day"   -> (now \div step) * step
                 [] range = "week"  -> today + ((now - today) \div step) * step
                 [] range = "month" -> today
  IN  Window(point - (RateCount[range] - 1) * step, now)

\* RatesSpec.BucketIndex, or -1.
BucketIndex(window, range, hour) ==
  LET index == (hour - window.start) \div RateInterval[range]
  IN  IF hour < window.start \/ index >= RateCount[range] THEN -1 ELSE index

\* Mutant: rows are put under dates of UTC.
BarOfUTC(zone, now, range, t) == (t \div HoursPerDay) - ((t \div HoursPerDay) % Grain[range])

\* localGrainExpr: the date that labels t's bar, by the offset of today.
BarOf(zone, now, range, t) ==
  LET date == (t + OffsetAt(zone, TodayStart(zone, now))) \div HoursPerDay
  IN  date - (date % Grain[range])

\* The dates that fillTokensSparkline, BuildTrends and BuildHeatmap draw, from a start on.
BarDates(zone, start, range, count) ==
  LET at[i \in 1 .. count] == IF i = 1 THEN start ELSE AddDate(zone, at[i - 1], Grain[range])
  IN  [i \in 1 .. count |-> LocalDate(zone, at[i])]
=============================================================================
