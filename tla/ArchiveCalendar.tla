-------------------------- MODULE ArchiveCalendar --------------------------
(***************************************************************************)
(* The calendar arithmetic of internal/store/archive.go: which local days  *)
(* have expired, and where each begins and ends.                           *)
(*                                                                         *)
(* An instant is a number of hours; the archiver works in whole hours      *)
(* because archivezone refuses every other zone.  A zone is a record       *)
(* [first, then, at]: the UTC offset is first before the instant at and    *)
(* then from it on, which is one daylight-saving transition.               *)
(***************************************************************************)
EXTENDS Integers

CONSTANTS
  HoursPerDay,     \* 24 in the code; instances may shorten the day
  RetentionDays,   \* archiveRetentionDays, 30 in the code
  RunHour          \* the local hour of the daily sweep, 3 in the code

ASSUME CalendarAssumption ==
  /\ HoursPerDay \in Nat \ {0}
  /\ RetentionDays \in Nat
  /\ RunHour \in 0 .. HoursPerDay - 1

Zones == [first : Int, then : Int, at : Int]

-----------------------------------------------------------------------------
(* Go's time package, as far as archive.go uses it. *)

OffsetAt(zone, t) == IF t < zone.at THEN zone.first ELSE zone.then

LocalDate(zone, t) == (t + OffsetAt(zone, t)) \div HoursPerDay
LocalHour(zone, t) == (t + OffsetAt(zone, t)) % HoursPerDay

\* time.Date: the offset is looked up at the wall clock read as UTC, and once
\* more at the result if the first one does not apply there.  In the gap of a
\* transition the result shows an hour other than the one asked for.
GoDate(zone, date, hour) ==
  LET wall  == date * HoursPerDay + hour
      guess == wall - OffsetAt(zone, wall)
  IN  IF (guess < zone.at) = (wall < zone.at)
      THEN guess
      ELSE wall - OffsetAt(zone, guess)

\* at.AddDate(0, 0, n): the same wall clock n dates later.
AddDate(zone, t, n) == GoDate(zone, LocalDate(zone, t) + n, LocalHour(zone, t))

-----------------------------------------------------------------------------
LocalMidnight(zone, t) == GoDate(zone, LocalDate(zone, t), 0)

\* Mutant: the guard for the day after a spring-forward is missing.
CutoffByDateOnly(zone, now) == AddDate(zone, LocalMidnight(zone, now), -RetentionDays)

\* The first retained instant: a local midnight RetentionDays dates back, or one
\* more where that is less than RetentionDays full days ago.
ArchiveCutoff(zone, now) ==
  LET today  == LocalMidnight(zone, now)
      cutoff == AddDate(zone, today, -RetentionDays)
  IN  IF cutoff > now - RetentionDays * HoursPerDay
      THEN AddDate(zone, today, -RetentionDays - 1)
      ELSE cutoff

NextArchiveRun(zone, now) ==
  LET next == GoDate(zone, LocalDate(zone, now), RunHour)
  IN  IF next > now THEN next ELSE AddDate(zone, next, 1)

\* Mutant: only the local date the UTC date begins in.
SameDateOnly(zone, times, cutoff) ==
  LET utcDays == {(t \div HoursPerDay) * HoursPerDay : t \in {u \in times : u < cutoff}}
  IN  {d \in {LocalMidnight(zone, u) : u \in utcDays} : d < cutoff}

\* The starts of the local days that may hold rows of the given times older than
\* cutoff: of each UTC date with such a row, the local date and the next one.
ExpiredDays(zone, times, cutoff) ==
  LET utcDays == {(t \div HoursPerDay) * HoursPerDay : t \in {u \in times : u < cutoff}}
      starts  == UNION {{LocalMidnight(zone, u), AddDate(zone, LocalMidnight(zone, u), 1)} :
                          u \in utcDays}
  IN  {d \in starts : d < cutoff}

\* Where the day that begins at day ends, at the latest at the cutoff.
DayEnd(zone, day, cutoff) ==
  LET end == AddDate(zone, day, 1) IN IF end > cutoff THEN cutoff ELSE end
=============================================================================
