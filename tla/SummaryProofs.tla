----------------------------- MODULE SummaryProofs -----------------------------
(***************************************************************************)
(* What the dashboard makes of raw rows and of hours of archived ones is   *)
(* what it would make of the same rows if all of them were raw.            *)
(*                                                                         *)
(* The argument.  A window begins and ends on whole hours, or at now, and  *)
(* whatever is archived is Past: its hour is over.  So the hour is in the  *)
(* window if and only if all its rows are (HourInWindow).                  *)
(*                                                                         *)
(* A table of numbers g is Sorted by key into a table q if each entry of q *)
(* is the sum of those of g that have its key; then sums over parts that   *)
(* match are equal.  Hours sort rows: for costs (CostsMerged) and for each *)
(* measure of the facts (FactsMerged), and the parts requests take - by    *)
(* client, model, source, window, bar - match.  So the facts and the costs *)
(* of either view agree (FactsAgree, CostsAgree).                          *)
(***************************************************************************)
EXTENDS DashboardProofs

-----------------------------------------------------------------------------
(* Whole hours *)

\* An instant an hour begins at, or a number of whole hours.
OnHour(t) == \E k \in Int : t = k * HourTicks

LEMMA HourTicksIs == HourTicks \in Nat \ {0} /\ HourTicks \in Int
BY SummaryAssumption DEF SummaryAssumption

\* What is made of whole hours is whole hours.
LEMMA OnHourType == ASSUME NEW a, OnHour(a) PROVE a \in Int
BY HourTicksIs, Products DEF OnHour

\* Sums, differences and multiples of whole hours.
LEMMA OnHourSums ==
  ASSUME NEW a, OnHour(a), NEW b, OnHour(b)
  PROVE  OnHour(a + b) /\ OnHour(a - b)
<1>1. PICK k \in Int : a = k * HourTicks
  BY DEF OnHour
<1>2. PICK l \in Int : b = l * HourTicks
  BY DEF OnHour
<1>3. (k + l) * HourTicks = a + b /\ (k - l) * HourTicks = a - b
  BY <1>1, <1>2, HourTicksIs, Products
<1>4. k + l \in Int /\ k - l \in Int
  OBVIOUS
<1>. QED
  BY <1>3, <1>4 DEF OnHour

LEMMA OnHourTimes ==
  ASSUME NEW a, OnHour(a), NEW n \in Int
  PROVE  OnHour(n * a)
<1>1. PICK k \in Int : a = k * HourTicks
  BY DEF OnHour
<1>2. n * k \in Int /\ (n * k) * HourTicks = n * a
  BY <1>1, HourTicksIs, Products
<1>. QED
  BY <1>2 DEF OnHour

LEMMA NoHours == OnHour(0)
<1>1. 0 * HourTicks = 0
  BY HourTicksIs
<1>. QED
  BY <1>1 DEF OnHour

\* The hour a row is archived under.
LEMMA HourOnHour == \A t \in Int : OnHour(TheHour(t))
<1>1. \A t \in Int : t \div HourTicks \in Int
  BY HourTicksIs, Floor
<1>. QED
  BY <1>1 DEF OnHour, TheHour

\* What the assumptions say with a remainder.
LEMMA RemainderOnHour ==
  ASSUME NEW t, t \in Int, t % HourTicks = 0
  PROVE  OnHour(t)
<1>1. t \div HourTicks \in Int /\ (t \div HourTicks) * HourTicks + (t % HourTicks) = t
  BY HourTicksIs, Floor
<1>2. (t \div HourTicks) * HourTicks \in Int
  BY <1>1, HourTicksIs, Products
<1>3. t = (t \div HourTicks) * HourTicks
  BY <1>1, <1>2
<1>. QED
  BY <1>1, <1>3 DEF OnHour

\* An instant is before the beginning of an hour if and only if its hour is.
LEMMA HourBefore ==
  ASSUME NEW x, OnHour(x), NEW t \in Int
  PROVE  TheHour(t) \in Int /\ x \in Int /\ (x <= TheHour(t) <=> x <= t)
<1>1. PICK k \in Int : x = k * HourTicks
  BY DEF OnHour
<1>2. t \div HourTicks \in Int
  BY HourTicksIs, Floor
<1>3. k <= t \div HourTicks <=> x <= t
  BY <1>1, HourTicksIs, FloorAtLeast
<1>4. \A h \in Nat \ {0}, k1, k2 \in Int : k1 <= k2 <=> k1 * h <= k2 * h
  <2>. SUFFICES ASSUME NEW h \in Nat \ {0}, NEW k1 \in Int, NEW k2 \in Int
                PROVE  k1 <= k2 <=> k1 * h <= k2 * h
    OBVIOUS
  <2>1. (k2 * h) \div h = k2
    BY FloorOfMultiple
  <2>2. k2 * h \in Int
    OBVIOUS
  <2>3. k1 <= (k2 * h) \div h <=> k1 * h <= k2 * h
    BY <2>2, FloorAtLeast
  <2>. QED
    BY <2>1, <2>3
<1>5. k <= t \div HourTicks <=> x <= TheHour(t)
  BY <1>1, <1>2, <1>4, HourTicksIs DEF TheHour
<1>6. TheHour(t) \in Int /\ x \in Int
  BY HourType, OnHourType
<1>. QED
  BY <1>3, <1>5, <1>6

\* The hour of an hour, and the bounds of a window that begins on the hour.
LEMMA HourOfHour ==
  ASSUME NEW x, OnHour(x)
  PROVE  TheHour(x) = x /\ TheHour(x + HourTicks - 1) = x
<1>1. PICK k \in Int : x = k * HourTicks
  BY DEF OnHour
<1>2. x \div HourTicks = k
  BY <1>1, HourTicksIs, FloorOfMultiple
<1>3. TheHour(x) = x
  BY <1>1, <1>2 DEF TheHour
<1>4. \A h \in Nat \ {0}, l \in Int : (l * h + h - 1) \div h = l
  <2>. SUFFICES ASSUME NEW h \in Nat \ {0}, NEW l \in Int PROVE (l * h + h - 1) \div h = l
    OBVIOUS
  <2>. DEFINE s == l * h + h - 1
              q == s \div h
  <2>1. s \in Int /\ l * h \in Int /\ (l + 1) * h = l * h + h /\ l + 1 \in Int
    BY Products
  <2>2. l * h <= s /\ ~((l + 1) * h <= s)
    BY <2>1
  <2>3. l <= q /\ ~(l + 1 <= q)
    <3>1. l <= q <=> l * h <= s
      BY <2>1, FloorAtLeast
    <3>2. l + 1 <= q <=> (l + 1) * h <= s
      BY <2>1, FloorAtLeast
    <3>. QED
      BY <2>2, <3>1, <3>2
  <2>4. q \in Int
    BY <2>1, Floor
  <2>. HIDE DEF q
  <2>5. q = l
    BY <2>3, <2>4
  <2>. QED
    BY <2>5 DEF q
<1>5. (x + HourTicks - 1) \div HourTicks = k
  BY <1>1, <1>4, HourTicksIs
<1>6. TheHour(x + HourTicks - 1) = x
  BY <1>1, <1>5 DEF TheHour
<1>. QED
  BY <1>3, <1>6

\* Counted in wholes of so many hours from the beginning of one, an instant is where its hour is.
LEMMA HourCounts ==
  ASSUME NEW w, OnHour(w), w \in Nat \ {0}, NEW o, OnHour(o), NEW t \in Int
  PROVE  (TheHour(t) + o) \div w = (t + o) \div w
<1>. DEFINE h == TheHour(t)
            a == (h + o) \div w
            b == (t + o) \div w
<1>1. h \in Int /\ o \in Int /\ h + o \in Int /\ t + o \in Int
  BY HourType, OnHourType
<1>2. a \in Int /\ b \in Int
  BY <1>1, Floor
<1>3. ASSUME NEW k \in Int PROVE k <= a <=> k <= b
  <2>1. OnHour(k * w - o) /\ k * w \in Int
    BY OnHourTimes, OnHourSums, OnHourType
  <2>2. k * w - o <= h <=> k * w - o <= t
    BY <2>1, HourBefore
  <2>3. k <= a <=> k * w <= h + o
    BY <1>1, FloorAtLeast
  <2>4. k <= b <=> k * w <= t + o
    BY <1>1, FloorAtLeast
  <2>. HIDE DEF h, a, b
  <2>5. k * w - o <= h <=> k * w <= h + o
    BY <1>1, <2>1
  <2>6. k * w - o <= t <=> k * w <= t + o
    BY <1>1, <2>1
  <2>. QED
    BY <2>2, <2>3, <2>4, <2>5, <2>6
<1>. HIDE DEF a, b
<1>4. a <= b /\ b <= a
  BY <1>2, <1>3
<1>5. a = b
  BY <1>2, <1>4
<1>. QED
  BY <1>5 DEF a, b

\* The constants that are whole hours.
LEMMA HourConstants ==
  /\ \A t \in Int : OnHour(OffsetAt(Zone, t))
  /\ OnHour(HoursPerDay) /\ HoursPerDay \in Nat \ {0}
  /\ \A range \in Ranges : OnHour(RateInterval[range]) /\ RateInterval[range] \in Nat \ {0}
<1>1. Zone.first \in Int /\ Zone.then \in Int /\ Zone.at \in Int
  BY HourAssumption DEF HourAssumption, Zones
<1>2. HoursPerDay \in Nat \ {0}
  BY CalendarAssumption DEF CalendarAssumption
<1>3. \A range \in Ranges : RateInterval[range] \in Nat \ {0}
  BY WindowAssumption DEF WindowAssumption, Ranges
<1>4. Zone.first % HourTicks = 0 /\ Zone.then % HourTicks = 0 /\ HoursPerDay % HourTicks = 0
  BY HourAssumption DEF HourAssumption
<1>5. \A range \in Ranges : RateInterval[range] % HourTicks = 0
  BY HourAssumption DEF HourAssumption, Ranges
<1>6. OnHour(Zone.first) /\ OnHour(Zone.then)
  BY <1>1, <1>4, RemainderOnHour
<1>7. OnHour(HoursPerDay)
  BY <1>2, <1>4, RemainderOnHour
<1>8. \A range \in Ranges : OnHour(RateInterval[range])
  BY <1>3, <1>5, RemainderOnHour
<1>. QED
  BY <1>2, <1>3, <1>6, <1>7, <1>8 DEF OffsetAt

\* time.Date, of whole hours.
LEMMA DateOnHour ==
  ASSUME NEW date \in Int, NEW hour, OnHour(hour)
  PROVE  OnHour(GoDate(Zone, date, hour))
<1>. DEFINE wall == date * HoursPerDay + hour
            guess == wall - OffsetAt(Zone, wall)
<1>1. OnHour(wall) /\ wall \in Int
  BY HourConstants, OnHourTimes, OnHourSums, OnHourType
<1>2. OnHour(guess) /\ guess \in Int
  BY <1>1, HourConstants, OnHourSums, OnHourType
<1>3. OnHour(wall - OffsetAt(Zone, guess))
  BY <1>1, <1>2, HourConstants, OnHourSums
<1>4. GoDate(Zone, date, hour) \in {guess, wall - OffsetAt(Zone, guess)}
  BY DEF GoDate
<1>. QED
  BY <1>2, <1>3, <1>4

\* The clock on the wall.
LEMMA LocalTypes ==
  ASSUME NEW t \in Int
  PROVE  /\ LocalDate(Zone, t) \in Int /\ LocalHour(Zone, t) \in Int
         /\ OnHour(t) => OnHour(LocalHour(Zone, t))
<1>. DEFINE o == OffsetAt(Zone, t)
            s == t + o
            q == s \div HoursPerDay
<1>1. OnHour(o) /\ o \in Int /\ s \in Int
  BY HourConstants, OnHourType
<1>2. q \in Int /\ s % HoursPerDay \in 0 .. HoursPerDay - 1
        /\ q * HoursPerDay + (s % HoursPerDay) = s
  BY <1>1, HourConstants, Floor
<1>3. LocalDate(Zone, t) = q /\ LocalHour(Zone, t) = s % HoursPerDay
  BY DEF LocalDate, LocalHour
<1>4. OnHour(q * HoursPerDay) /\ q * HoursPerDay \in Int
  BY <1>2, HourConstants, OnHourTimes, OnHourType
<1>5. s % HoursPerDay \in Int
  BY <1>2
<1>6. s % HoursPerDay = s - q * HoursPerDay
  BY <1>1, <1>2, <1>4, <1>5
<1>7. OnHour(t) => OnHour(s)
  BY <1>1, OnHourSums
<1>8. OnHour(s) => OnHour(s - q * HoursPerDay)
  BY <1>4, OnHourSums
<1>. QED
  BY <1>2, <1>3, <1>5, <1>6, <1>7, <1>8

\* Midnights are on the hour, and so is what is whole dates away from one.
LEMMA MidnightOnHour ==
  ASSUME NEW t \in Int
  PROVE  OnHour(LocalMidnight(Zone, t))
BY LocalTypes, NoHours, DateOnHour DEF LocalMidnight

\* Calendar days from a whole hour to a whole hour.
LEMMA AddDateOnHour ==
  ASSUME NEW t, OnHour(t), NEW n \in Int
  PROVE  OnHour(AddDate(Zone, t, n))
<1>1. t \in Int
  BY OnHourType
<1>2. LocalDate(Zone, t) + n \in Int /\ OnHour(LocalHour(Zone, t))
  BY <1>1, LocalTypes
<1>. QED
  BY <1>2, DateOnHour DEF AddDate

\* The archiver's cutoff, and the days it makes of it.
LEMMA CutoffOnHour == \A now \in Int : OnHour(ArchiveCutoff(Zone, now))
<1>. SUFFICES ASSUME NEW now \in Int PROVE OnHour(ArchiveCutoff(Zone, now))
  OBVIOUS
<1>1. -RetentionDays \in Int /\ -RetentionDays - 1 \in Int
  BY CalendarAssumption DEF CalendarAssumption
<1>2. OnHour(LocalMidnight(Zone, now))
  BY MidnightOnHour
<1>3. /\ OnHour(AddDate(Zone, LocalMidnight(Zone, now), -RetentionDays))
      /\ OnHour(AddDate(Zone, LocalMidnight(Zone, now), -RetentionDays - 1))
  BY <1>1, <1>2, AddDateOnHour
<1>. QED
  BY <1>3 DEF ArchiveCutoff

\* A window that begins on the hour and ends on one, or now.
Rounded(w, now) ==
  /\ OnHour(w.start)
  /\ w.end \in Int
  /\ OnHour(w.end) \/ w.end = now

\* The bounds of the windows are whole hours, or now.
LEMMA GrainOnHour ==
  ASSUME NEW now \in Int, NEW range \in Ranges
  PROVE  OnHour(GrainStart(Zone, now, range))
<1>. DEFINE today == TodayStart(Zone, now)
            date == LocalDate(Zone, today)
<1>1. OnHour(today)
  BY MidnightOnHour DEF TodayStart
<1>2. date \in Int
  BY <1>1, OnHourType, LocalTypes
<1>3. date % Grain[range] \in Int
  <2>1. date % Grain[range] \in 0 .. Grain[range] - 1
    BY <1>2, GrainTypes, Floor
  <2>2. \A i \in 0 .. Grain[range] - 1 : i \in Int
    OBVIOUS
  <2>. QED
    BY <2>1, <2>2
<1>4. -(date % Grain[range]) \in Int
  BY <1>3
<1>. QED
  BY <1>1, <1>4, AddDateOnHour DEF GrainStart

LEMMA ShiftOnHour ==
  ASSUME NEW t, OnHour(t), NEW range \in Ranges, NEW n \in Int
  PROVE  OnHour(Shift(Zone, t, range, n))
<1>1. OnHour(n * HoursPerDay) /\ OnHour(t + n * HoursPerDay)
  BY HourConstants, OnHourTimes, OnHourSums
<1>2. n * Grain[range] \in Int
  BY GrainTypes
<1>3. OnHour(AddDate(Zone, t, n * Grain[range]))
  BY <1>2, AddDateOnHour
<1>. QED
  BY <1>1, <1>3 DEF Shift

\* All the windows the dashboard computes with.
LEMMA WindowsRounded ==
  ASSUME NEW now \in Int, NEW range \in Ranges
  PROVE  /\ Rounded(Resolve(Zone, now, range).current, now)
         /\ Rounded(Resolve(Zone, now, range).previous, now)
         /\ Rounded(Resolve(Zone, now, range).sparkline, now)
<1>. DEFINE s == GrainStart(Zone, now, range)
<1>1. OnHour(s) /\ s \in Int
  BY GrainOnHour, OnHourType
<1>2. 1 - Bars[range] \in Int
  BY GrainTypes
<1>3. /\ OnHour(Shift(Zone, s, range, -1)) /\ OnHour(Shift(Zone, s, range, 1 - Bars[range]))
      /\ OnHour(Shift(Zone, s, range, 1)) /\ Shift(Zone, s, range, 1) \in Int
  BY <1>1, <1>2, ShiftOnHour, OnHourType
<1>4. /\ Resolve(Zone, now, range).current = Window(s, now)
      /\ Resolve(Zone, now, range).previous = Window(Shift(Zone, s, range, -1), s)
      /\ Resolve(Zone, now, range).sparkline = Window(Shift(Zone, s, range, 1 - Bars[range]),
                                                      Shift(Zone, s, range, 1))
  BY DEF Resolve, WindowsFrom
<1>. HIDE DEF s
<1>. QED
  BY <1>1, <1>3, <1>4 DEF Rounded, Window

\* The same of the heatmap, the rankings and the rates.
LEMMA HeatmapRounded ==
  ASSUME NEW now \in Int
  PROVE  Rounded(Window(HeatmapStart(Zone, now), TodayStart(Zone, now) + HoursPerDay), now)
<1>1. OnHour(TodayStart(Zone, now))
  BY MidnightOnHour DEF TodayStart
<1>2. -(HeatmapDays - 1) \in Int
  BY WindowAssumption DEF WindowAssumption
<1>3. OnHour(HeatmapStart(Zone, now))
  BY <1>1, <1>2, AddDateOnHour DEF HeatmapStart
<1>4. OnHour(TodayStart(Zone, now) + HoursPerDay) /\ TodayStart(Zone, now) + HoursPerDay \in Int
  BY <1>1, HourConstants, OnHourSums, OnHourType
<1>. QED
  BY <1>3, <1>4 DEF Rounded, Window

LEMMA SinceOnHour ==
  ASSUME NEW now \in Int, NEW days \in Int
  PROVE  OnHour(SinceStart(Zone, now, days))
BY MidnightOnHour, HourConstants, OnHourTimes, OnHourSums DEF SinceStart, TodayStart

LEMMA RatesRounded ==
  ASSUME NEW now \in Int, NEW range \in Ranges, NEW w, w = RatesWindow(Zone, now, range)
  PROVE  /\ Rounded(w, now)
         /\ Rounded(Window(w.start - RateCount[range] * RateInterval[range], w.start), now)
<1>. DEFINE today == TodayStart(Zone, now)
            step  == RateInterval[range]
            point == CASE range = "day"   -> (now \div step) * step
                       [] range = "week"  -> today + ((now - today) \div step) * step
                       [] range = "month" -> today
<1>1. OnHour(today) /\ today \in Int
  BY MidnightOnHour, OnHourType DEF TodayStart
<1>2. OnHour(step) /\ step \in Nat \ {0}
  BY HourConstants
<1>3. OnHour((now \div step) * step)
  BY <1>2, Floor, OnHourTimes
<1>4. OnHour(today + ((now - today) \div step) * step)
  <2>1. (now - today) \div step \in Int
    BY <1>1, <1>2, Floor
  <2>. QED
    BY <1>1, <1>2, <2>1, OnHourTimes, OnHourSums
<1>5. OnHour(point)
  BY <1>1, <1>3, <1>4 DEF Ranges
<1>6. RateCount[range] \in Int /\ RateCount[range] - 1 \in Int
  BY WindowAssumption DEF WindowAssumption, Ranges
<1>7. w = Window(point - (RateCount[range] - 1) * step, now)
  BY DEF RatesWindow
<1>. HIDE DEF point, step
<1>8. OnHour(point - (RateCount[range] - 1) * step)
  BY <1>2, <1>5, <1>6, OnHourTimes, OnHourSums
<1>9. OnHour(w.start) /\ w.end = now /\ w.start \in Int
  BY <1>7, <1>8, OnHourType DEF Window
<1>10. OnHour(w.start - RateCount[range] * step)
  BY <1>2, <1>6, <1>9, OnHourTimes, OnHourSums
<1>. QED
  BY <1>9, <1>10 DEF Rounded, Window, step

\* An instant whose hour has been over for a while.
Past(t, now) == TheHour(t) + HourTicks + 2 * RealtimeTicks <= now

\* An archived row is before what is asked as of now, and so is its hour.
LEMMA PastFacts ==
  ASSUME NEW now \in Int, NEW t \in Int, Past(t, now)
  PROVE  /\ t < now - 2 * RealtimeTicks /\ TheHour(t) \in Int /\ TheHour(t) < now
         /\ TheHour(t) < TheHour(now) /\ TheHour(now) \in Int /\ t < now
<1>1. RealtimeTicks \in Nat /\ HourTicks \in Nat \ {0}
  BY WindowAssumption, HourTicksIs DEF WindowAssumption
<1>2. OnHour(TheHour(t)) /\ TheHour(t) \in Int
  BY HourOnHour, OnHourType
<1>3. OnHour(HourTicks)
  <2>1. HourTicks = 1 * HourTicks
    BY <1>1
  <2>. QED
    BY <2>1 DEF OnHour
<1>4. OnHour(TheHour(t) + HourTicks)
  BY <1>2, <1>3, OnHourSums
<1>5. ~(TheHour(t) + HourTicks <= t)
  <2>1. TheHour(t) + HourTicks <= TheHour(t) <=> TheHour(t) + HourTicks <= t
    BY <1>4, HourBefore
  <2>. QED
    BY <1>1, <1>2, <2>1
<1>6. TheHour(t) + HourTicks <= now
  BY <1>1, <1>2 DEF Past
<1>7. TheHour(t) + HourTicks <= TheHour(now)
  BY <1>4, <1>6, HourBefore
<1>8. TheHour(now) \in Int
  BY HourType
<1>. QED
  BY <1>1, <1>2, <1>5, <1>6, <1>7, <1>8 DEF Past

\* A window has an hour that is past if and only if it has the instants of it.
LEMMA HourInWindow ==
  ASSUME NEW now \in Int, NEW w, Rounded(w, now), NEW t \in Int, Past(t, now)
  PROVE  /\ w.start <= t /\ t < w.end <=> w.start <= TheHour(t) /\ TheHour(t) < w.end
         /\ LET hours == ArchiveHours(w.start, w.end)
            IN  w.start <= t /\ t < w.end <=> hours.start <= TheHour(t) /\ TheHour(t) < hours.end
<1>. DEFINE hours == ArchiveHours(w.start, w.end)
<1>1. /\ TheHour(t) \in Int /\ TheHour(t) < now /\ t < now
      /\ TheHour(now) \in Int /\ TheHour(t) < TheHour(now)
  BY PastFacts
<1>2. w.start \in Int /\ (w.start <= TheHour(t) <=> w.start <= t)
  BY HourBefore DEF Rounded
<1>3. hours.start = w.start /\ hours.end = TheHour(w.end)
  BY HourOfHour DEF Rounded, ArchiveHours, Window
<1>4. w.end \in Int /\ (OnHour(w.end) \/ w.end = now)
  BY DEF Rounded
<1>5. CASE OnHour(w.end)
  <2>1. w.end <= TheHour(t) <=> w.end <= t
    BY <1>5, HourBefore
  <2>2. TheHour(w.end) = w.end
    BY <1>5, HourOfHour
  <2>. QED
    BY <1>1, <1>2, <1>3, <1>4, <2>1, <2>2
<1>6. CASE w.end = now
  BY <1>1, <1>2, <1>3, <1>6
<1>. QED
  BY <1>4, <1>5, <1>6

-----------------------------------------------------------------------------
(* Sorting by keys *)

\* Parts of what is sorted and of the keys that go together.
Matched(key, s, K, t, L) ==
  /\ t \subseteq s /\ L \subseteq K
  /\ \A x \in s : x \in t <=> key[x] \in L

\* Such parts add up to the same.
LEMMA SumMatched ==
  ASSUME NEW key, NEW g, NEW q, NEW s, NEW K, Sorts(key, g, q, s, K),
         NEW t, NEW L, Matched(key, s, K, t, L)
  PROVE  SumOf(q, L) = SumOf(g, t)
<1>1. Numbers(g) /\ Numbers(q) /\ t \subseteq DOMAIN g /\ t \subseteq DOMAIN key
        /\ L \subseteq DOMAIN q
  BY DEF Sorts, Matched
<1>2. \A x \in t : key[x] \in L
  BY DEF Matched
<1>3. \A k \in L : q[k] = SumOf(g, {x \in t : key[x] = k})
  <2>. SUFFICES ASSUME NEW k \in L PROVE q[k] = SumOf(g, {x \in t : key[x] = k})
    OBVIOUS
  <2>1. {x \in t : key[x] = k} = {x \in s : key[x] = k}
    BY DEF Matched
  <2>. QED
    BY <2>1 DEF Sorts, Matched
<1>4. Sorts(key, g, q, t, L)
  BY <1>1, <1>2, <1>3 DEF Sorts
<1>. QED
  BY <1>4, SumSorted

\* g and h, on sets that have nothing in common.
Beside(g, h) == [x \in DOMAIN g \cup DOMAIN h |-> IF x \in DOMAIN g THEN g[x] ELSE h[x]]

\* Two tables of numbers, side by side, and what sorts either.
LEMMA BesideNumbers ==
  ASSUME NEW g, Numbers(g), NEW h, Numbers(h)
  PROVE  Numbers(Beside(g, h)) /\ DOMAIN Beside(g, h) = DOMAIN g \cup DOMAIN h
<1>1. DOMAIN Beside(g, h) = DOMAIN g \cup DOMAIN h
  BY DEF Beside
<1>2. IsFiniteSet(DOMAIN g \cup DOMAIN h)
  BY FS_Union DEF Numbers
<1>3. \A x \in DOMAIN g \cup DOMAIN h : Beside(g, h)[x] \in Int
  BY DEF Beside, Numbers
<1>. QED
  BY <1>1, <1>2, <1>3 DEF Numbers

\* What is not sorted is sorted by itself.
LEMMA SortsItself ==
  ASSUME NEW g, Numbers(g), NEW key, DOMAIN key = DOMAIN g, \A x \in DOMAIN g : key[x] = x
  PROVE  Sorts(key, g, g, DOMAIN g, DOMAIN g)
<1>. SUFFICES ASSUME NEW k \in DOMAIN g PROVE g[k] = SumOf(g, {x \in DOMAIN g : key[x] = k})
  BY DEF Sorts
<1>1. {x \in DOMAIN g : key[x] = k} = {k}
  OBVIOUS
<1>2. SumOf(g, {k}) = g[k] + SumOf(g, {k} \ {k})
  BY SumAdds
<1>3. {k} \ {k} = {}
  OBVIOUS
<1>4. SumOf(g, {}) = 0
  BY SumStep
<1>5. g[k] \in Int
  BY DEF Numbers
<1>6. SumOf(g, {k} \ {k}) = 0
  BY <1>3, <1>4
<1>7. SumOf(g, {k}) = g[k]
  BY <1>2, <1>5, <1>6
<1>. QED
  BY <1>1, <1>7

\* Two things that are sorted by keys of their own, together.
Apart(g, q, h, p) == DOMAIN g \cap DOMAIN h = {} /\ DOMAIN q \cap DOMAIN p = {}
SortsAll(key, g, q) == DOMAIN key = DOMAIN g /\ Sorts(key, g, q, DOMAIN g, DOMAIN q)

LEMMA SortsBeside ==
  ASSUME NEW key, NEW g, NEW q, SortsAll(key, g, q),
         NEW lock, NEW h, NEW p, SortsAll(lock, h, p), Apart(g, q, h, p)
  PROVE  SortsAll(Beside(key, lock), Beside(g, h), Beside(q, p))
<1>. DEFINE b == Beside(key, lock)
            n == Beside(g, h)
            m == Beside(q, p)
            D == DOMAIN g \cup DOMAIN h
<1>1. /\ Numbers(g) /\ Numbers(q) /\ Numbers(h) /\ Numbers(p)
      /\ DOMAIN key = DOMAIN g /\ DOMAIN lock = DOMAIN h
      /\ \A x \in DOMAIN g : key[x] \in DOMAIN q
      /\ \A x \in DOMAIN h : lock[x] \in DOMAIN p
      /\ \A k \in DOMAIN q : q[k] = SumOf(g, {x \in DOMAIN g : key[x] = k})
      /\ \A k \in DOMAIN p : p[k] = SumOf(h, {x \in DOMAIN h : lock[x] = k})
  BY DEF SortsAll, Sorts
<1>2. Numbers(n) /\ Numbers(m) /\ DOMAIN n = D /\ DOMAIN m = DOMAIN q \cup DOMAIN p
  BY <1>1, BesideNumbers
<1>3. DOMAIN b = D
  BY <1>1 DEF Beside
<1>4. /\ \A x \in DOMAIN g : b[x] = key[x] /\ n[x] = g[x]
      /\ \A x \in DOMAIN h : b[x] = lock[x] /\ n[x] = h[x]
      /\ \A k \in DOMAIN q : m[k] = q[k]
      /\ \A k \in DOMAIN p : m[k] = p[k]
  BY <1>1 DEF Beside, Apart
<1>. HIDE DEF b, n, m
<1>5. \A x \in D : b[x] \in DOMAIN m
  BY <1>1, <1>2, <1>4
<1>6. ASSUME NEW k \in DOMAIN m PROVE m[k] = SumOf(n, {x \in D : b[x] = k})
  <2>. DEFINE F == {x \in D : b[x] = k}
  <2>1. CASE k \in DOMAIN q
    <3>1. F = {x \in DOMAIN g : key[x] = k}
      BY <1>1, <1>4, <2>1 DEF Apart
    <3>2. SumOf(n, F) = SumOf(g, F)
      <4>1. F \in SUBSET DOMAIN g /\ F \subseteq DOMAIN n /\ \A x \in F : n[x] = g[x]
        BY <1>2, <1>4, <3>1
      <4>. QED
        BY <1>1, <1>2, <4>1, SumLocal
    <3>. QED
      BY <1>1, <1>4, <2>1, <3>1, <3>2
  <2>2. CASE k \in DOMAIN p
    <3>1. F = {x \in DOMAIN h : lock[x] = k}
      BY <1>1, <1>4, <2>2 DEF Apart
    <3>2. SumOf(n, F) = SumOf(h, F)
      <4>1. F \in SUBSET DOMAIN h /\ F \subseteq DOMAIN n /\ \A x \in F : n[x] = h[x]
        BY <1>2, <1>4, <3>1
      <4>. QED
        BY <1>1, <1>2, <4>1, SumLocal
    <3>. QED
      BY <1>1, <1>4, <2>2, <3>1, <3>2
  <2>. QED
    BY <1>2, <2>1, <2>2
<1>7. Sorts(b, n, m, D, DOMAIN m)
  BY <1>2, <1>3, <1>5, <1>6 DEF Sorts
<1>. QED
  BY <1>2, <1>3, <1>7 DEF SortsAll, b, n, m

\* Things renamed, each one otherwise: h has their numbers under the new names.
LEMMA Renamed ==
  ASSUME NEW g, Numbers(g), NEW b, DOMAIN b = DOMAIN g,
         NEW h, DOMAIN h = Image(b, DOMAIN g),
         \A x \in DOMAIN g : h[b[x]] = g[x],
         \A x, y \in DOMAIN g : b[x] = b[y] => x = y
  PROVE  /\ Numbers(h)
         /\ \A s \in SUBSET DOMAIN g : SumOf(h, Image(b, s)) = SumOf(g, s)
<1>1. IsFiniteSet(DOMAIN h) /\ \A c \in DOMAIN h : h[c] \in Int
  BY FiniteValues DEF Numbers, Image
<1>2. Numbers(h)
  BY <1>1 DEF Numbers
<1>3. ASSUME NEW s \in SUBSET DOMAIN g PROVE SumOf(h, Image(b, s)) = SumOf(g, s)
  <2>1. \A x \in s : b[x] \in DOMAIN h /\ h[b[x]] = g[x]
    BY DEF Image
  <2>2. Renames(b, g, h, s)
    BY <1>2, <2>1 DEF Renames
  <2>. QED
    BY <2>2, SumRenamed
<1>. QED
  BY <1>2, <1>3

-----------------------------------------------------------------------------
(* Costs, raw and archived *)

SamplesOf(S) == [c \in S |-> c.samples]
Presences(S) == [r \in S |-> Present(r.cost)]

\* As TotalAmounts.
LEMMA TotalSamples ==
  ASSUME NEW S, IsFiniteSet(S)
  PROVE  Total(LAMBDA c : c.samples, S) = SumOf(SamplesOf(S), S)
<1>. DEFINE Is(f) == f = [s \in SUBSET S |->
                       IF s = {} THEN 0
                       ELSE (CHOOSE x \in s : TRUE).samples + f[s \ {CHOOSE x \in s : TRUE}]]
<1>1. Total(LAMBDA c : c.samples, S) = (CHOOSE f : Is(f))[S]
  BY DEF Total, MapThenSumSet, MapThenFoldSet
<1>2. \A f : Is(f) <=> IsSum(f, SamplesOf(S))
  <2>1. \A s \in SUBSET S : s # {} => SamplesOf(S)[Some(s)] = (CHOOSE x \in s : TRUE).samples
    BY SomeIs DEF Some, SamplesOf
  <2>. QED
    BY <2>1 DEF IsSum, Some, SamplesOf
<1>. HIDE DEF Is
<1>3. (CHOOSE f : Is(f)) = (CHOOSE f : IsSum(f, SamplesOf(S)))
  BY <1>2, Zenon
<1>. QED
  BY <1>1, <1>3, Zenon DEF SumOf, SumOver

LEMMA TotalPresences ==
  ASSUME NEW S, IsFiniteSet(S)
  PROVE  Total(LAMBDA r : Present(r.cost), S) = SumOf(Presences(S), S)
<1>. DEFINE Is(f) == f = [s \in SUBSET S |->
                       IF s = {} THEN 0
                       ELSE Present((CHOOSE x \in s : TRUE).cost) + f[s \ {CHOOSE x \in s : TRUE}]]
<1>1. Total(LAMBDA r : Present(r.cost), S) = (CHOOSE f : Is(f))[S]
  BY DEF Total, MapThenSumSet, MapThenFoldSet
<1>2. \A f : Is(f) <=> IsSum(f, Presences(S))
  <2>1. \A s \in SUBSET S : s # {} =>
          Presences(S)[Some(s)] = Present((CHOOSE x \in s : TRUE).cost)
    BY SomeIs DEF Some, Presences
  <2>. QED
    BY <2>1 DEF IsSum, Some, Presences
<1>. HIDE DEF Is
<1>3. (CHOOSE f : Is(f)) = (CHOOSE f : IsSum(f, Presences(S)))
  BY <1>2, Zenon
<1>. QED
  BY <1>1, <1>3, Zenon DEF SumOf, SumOver

\* A row of a cost view and the one it has become part of, if it has.
CostAlike(c, e, now) ==
  /\ e.session = c.session /\ e.model = c.model /\ e.source = c.source
  /\ c.ts \in Int
  /\ e = c \/ (e.ts = TheHour(c.ts) /\ Past(c.ts, now))
  /\ e = c \/ c.source # "legacy"

\* The rows C2 of a cost view, where C1 has old ones by the hour.
CostsMerged(key, C1, C2, now) ==
  /\ SortsAll(key, Costs(C2), Costs(C1))
  /\ SortsAll(key, SamplesOf(C2), SamplesOf(C1))
  /\ \A c \in C2 : CostAlike(c, key[c], now)

CostNumbers(C) == IsFiniteSet(C) /\ \A c \in C : c.cost \in Int /\ c.samples \in Int

\* What costs have of numbers.
LEMMA CostDomains ==
  ASSUME NEW C
  PROVE  /\ DOMAIN Costs(C) = C /\ DOMAIN SamplesOf(C) = C
         /\ CostNumbers(C) <=> Numbers(Costs(C)) /\ Numbers(SamplesOf(C))
BY DEF Costs, SamplesOf, CostNumbers, Numbers

LEMMA MergedCostsAre ==
  ASSUME NEW key, NEW C1, NEW C2, NEW now, CostsMerged(key, C1, C2, now)
  PROVE  /\ DOMAIN key = C2 /\ \A c \in C2 : key[c] \in C1
         /\ CostNumbers(C1) /\ CostNumbers(C2)
BY CostDomains DEF CostsMerged, SortsAll, Sorts

\* As they are.
LEMMA CostsThemselves ==
  ASSUME NEW C, CostNumbers(C), \A c \in C : c.ts \in Int, NEW now
  PROVE  CostsMerged([c \in C |-> c], C, C, now)
<1>. DEFINE key == [c \in C |-> c]
<1>1. /\ Numbers(Costs(C)) /\ DOMAIN Costs(C) = C
      /\ Numbers(SamplesOf(C)) /\ DOMAIN SamplesOf(C) = C
  BY CostDomains
<1>2. DOMAIN key = C /\ \A c \in C : key[c] = c
  OBVIOUS
<1>. HIDE DEF key
<1>3. SortsAll(key, Costs(C), Costs(C)) /\ SortsAll(key, SamplesOf(C), SamplesOf(C))
  BY <1>1, <1>2, SortsItself DEF SortsAll
<1>4. \A c \in C : CostAlike(c, key[c], now)
  BY <1>2 DEF CostAlike
<1>. QED
  BY <1>3, <1>4 DEF CostsMerged, key

\* Side by side.
LEMMA CostsBeside ==
  ASSUME NEW now,
         NEW key, NEW C1, NEW C2, CostsMerged(key, C1, C2, now),
         NEW lock, NEW E1, NEW E2, CostsMerged(lock, E1, E2, now),
         C1 \cap E1 = {}, C2 \cap E2 = {}
  PROVE  CostsMerged(Beside(key, lock), C1 \cup E1, C2 \cup E2, now)
<1>1. \A C, E : C \cap E = {} => /\ Beside(Costs(C), Costs(E)) = Costs(C \cup E)
                                 /\ Beside(SamplesOf(C), SamplesOf(E)) = SamplesOf(C \cup E)
  BY DEF Beside, Costs, SamplesOf
<1>2. /\ Apart(Costs(C2), Costs(C1), Costs(E2), Costs(E1))
      /\ Apart(SamplesOf(C2), SamplesOf(C1), SamplesOf(E2), SamplesOf(E1))
  BY CostDomains DEF Apart
<1>3. SortsAll(Beside(key, lock), Costs(C2 \cup E2), Costs(C1 \cup E1))
  <2>1. SortsAll(Beside(key, lock), Beside(Costs(C2), Costs(E2)), Beside(Costs(C1), Costs(E1)))
    BY <1>2, SortsBeside DEF CostsMerged
  <2>. QED
    BY <1>1, <2>1
<1>4. SortsAll(Beside(key, lock), SamplesOf(C2 \cup E2), SamplesOf(C1 \cup E1))
  <2>1. SortsAll(Beside(key, lock), Beside(SamplesOf(C2), SamplesOf(E2)),
                 Beside(SamplesOf(C1), SamplesOf(E1)))
    BY <1>2, SortsBeside DEF CostsMerged
  <2>. QED
    BY <1>1, <2>1
<1>5. ASSUME NEW c \in C2 \cup E2 PROVE CostAlike(c, Beside(key, lock)[c], now)
  <2>1. DOMAIN key = C2 /\ DOMAIN lock = E2
    BY MergedCostsAre
  <2>2. Beside(key, lock)[c] = IF c \in C2 THEN key[c] ELSE lock[c]
    BY <2>1 DEF Beside
  <2>. QED
    BY <2>2 DEF CostsMerged
<1>. QED
  BY <1>3, <1>4, <1>5 DEF CostsMerged

\* A part of them.
LEMMA CostsPart ==
  ASSUME NEW now, NEW key, NEW C1, NEW C2, CostsMerged(key, C1, C2, now),
         NEW t, NEW L, Matched(key, C2, C1, t, L)
  PROVE  CostsMerged([c \in t |-> key[c]], L, t, now)
<1>. DEFINE lock == [c \in t |-> key[c]]
<1>1. t \subseteq C2 /\ L \subseteq C1 /\ \A c \in t : key[c] \in L
  BY DEF Matched
<1>2. CostNumbers(C1) /\ CostNumbers(C2)
  BY MergedCostsAre
<1>3. CostNumbers(t) /\ CostNumbers(L)
  BY <1>1, <1>2, FS_Subset DEF CostNumbers
<1>4. /\ Numbers(Costs(t)) /\ Numbers(SamplesOf(t)) /\ Numbers(Costs(L)) /\ Numbers(SamplesOf(L))
      /\ DOMAIN Costs(t) = t /\ DOMAIN SamplesOf(t) = t
      /\ DOMAIN Costs(L) = L /\ DOMAIN SamplesOf(L) = L
      /\ Numbers(Costs(C2)) /\ Numbers(SamplesOf(C2))
      /\ DOMAIN Costs(C2) = C2 /\ DOMAIN SamplesOf(C2) = C2
      /\ DOMAIN Costs(C1) = C1 /\ DOMAIN SamplesOf(C1) = C1
  BY <1>2, <1>3, CostDomains
<1>5. ASSUME NEW k \in L
      PROVE  /\ Costs(L)[k] = SumOf(Costs(t), {c \in t : lock[c] = k})
             /\ SamplesOf(L)[k] = SumOf(SamplesOf(t), {c \in t : lock[c] = k})
  <2>. DEFINE F == {c \in t : lock[c] = k}
  <2>1. F = {c \in C2 : key[c] = k}
    BY DEF Matched
  <2>2. F \in SUBSET t /\ F \in SUBSET C2
    BY <1>1
  <2>. HIDE DEF F
  <2>3. Costs(C1)[k] = SumOf(Costs(C2), F) /\ SamplesOf(C1)[k] = SumOf(SamplesOf(C2), F)
    BY <1>1, <1>4, <2>1 DEF CostsMerged, SortsAll, Sorts
  <2>4. SumOf(Costs(t), F) = SumOf(Costs(C2), F)
    <3>1. \A c \in F : Costs(t)[c] = Costs(C2)[c]
      BY <1>1, <2>2 DEF Costs
    <3>. QED
      BY <1>4, <2>2, <3>1, SumLocal
  <2>5. SumOf(SamplesOf(t), F) = SumOf(SamplesOf(C2), F)
    <3>1. \A c \in F : SamplesOf(t)[c] = SamplesOf(C2)[c]
      BY <1>1, <2>2 DEF SamplesOf
    <3>. QED
      BY <1>4, <2>2, <3>1, SumLocal
  <2>6. Costs(L)[k] = Costs(C1)[k] /\ SamplesOf(L)[k] = SamplesOf(C1)[k]
    BY <1>1 DEF Costs, SamplesOf
  <2>. QED
    BY <2>3, <2>4, <2>5, <2>6 DEF F
<1>6. DOMAIN lock = t /\ \A c \in t : lock[c] \in L
  BY <1>1
<1>7. SortsAll(lock, Costs(t), Costs(L)) /\ SortsAll(lock, SamplesOf(t), SamplesOf(L))
  BY <1>4, <1>5, <1>6 DEF SortsAll, Sorts
<1>8. \A c \in t : CostAlike(c, lock[c], now)
  BY <1>1 DEF CostsMerged
<1>. QED
  BY <1>7, <1>8 DEF CostsMerged

\* Rows by their hours, conversations and models, and the rows they came from.
LocalRows(V) == {LocalRow(r) : r \in V}
HourRows(H)  == {HourRow(k, H) : k \in DOMAIN H}

\* The rows of the cost view, field by field.
LEMMA LocalRowIs ==
  \A r : /\ LocalRow(r).row = r.row /\ LocalRow(r).ts = r.ts /\ LocalRow(r).session = r.session
         /\ LocalRow(r).model = r.model /\ LocalRow(r).cost = OrZero(r.cost)
         /\ LocalRow(r).source = "local" /\ LocalRow(r).samples = Present(r.cost)
BY DEF LocalRow, CostRow

LEMMA HourRowIs ==
  \A k, H : /\ HourRow(k, H).row = "" /\ HourRow(k, H).ts = k.bucket
            /\ HourRow(k, H).session = k.session /\ HourRow(k, H).model = k.model
            /\ HourRow(k, H).cost = H[k].cost
            /\ HourRow(k, H).source = "local" /\ HourRow(k, H).samples = H[k].samples
BY DEF HourRow, CostRow

LEMMA HourRowFields ==
  /\ \A k, H : /\ HourRow(k, H).ts = k.bucket
               /\ HourRow(k, H).session = k.session /\ HourRow(k, H).model = k.model
               /\ HourRow(k, H).cost = H[k].cost /\ HourRow(k, H).samples = H[k].samples
  /\ \A k, H, r : HourRow(k, H).source = LocalRow(r).source
BY DEF HourRow, LocalRow, CostRow

LEMMA LocalRowFields ==
  \A r : /\ LocalRow(r).ts = r.ts /\ LocalRow(r).session = r.session
         /\ LocalRow(r).model = r.model /\ LocalRow(r).cost = OrZero(r.cost)
         /\ LocalRow(r).samples = Present(r.cost)
BY DEF LocalRow, CostRow

LEMMA LocalKeyIs ==
  \A r : /\ LocalKey(r).bucket = TheHour(r.ts) /\ LocalKey(r).session = r.session
         /\ LocalKey(r).model = r.model
BY DEF LocalKey

\* Responses with a time and an estimate, told apart by their names.
Responses(V) ==
  /\ IsFiniteSet(V)
  /\ \A r \in V : r.ts \in Int /\ OrZero(r.cost) \in Int
  /\ \A r, s \in V : r.row = s.row => r = s

\* What the view has of estimates is as many numbers.
LEMMA LocalNumbers ==
  ASSUME NEW V, Responses(V)
  PROVE  /\ CostNumbers(LocalRows(V)) /\ \A c \in LocalRows(V) : c.ts \in Int
         /\ Numbers(Estimates(V)) /\ DOMAIN Estimates(V) = V
         /\ Numbers(Presences(V)) /\ DOMAIN Presences(V) = V
         /\ \A s \in SUBSET V : LET C == {LocalRow(r) : r \in s}
                                IN  /\ SumOf(Costs(LocalRows(V)), C) = SumOf(Estimates(V), s)
                                    /\ SumOf(SamplesOf(LocalRows(V)), C) = SumOf(Presences(V), s)
<1>. DEFINE b == [r \in V |-> LocalRow(r)]
            C == LocalRows(V)
<1>1. \A r \in V : Present(r.cost) \in Int
  BY DEF Present
<1>2. /\ Numbers(Estimates(V)) /\ DOMAIN Estimates(V) = V
      /\ Numbers(Presences(V)) /\ DOMAIN Presences(V) = V
  BY <1>1 DEF Numbers, Estimates, Presences, Responses
<1>3. DOMAIN b = V /\ C = Image(b, V)
  BY DEF Image, LocalRows
<1>4. \A r \in V : /\ b[r] = LocalRow(r) /\ b[r] \in C
                   /\ Costs(C)[b[r]] = Estimates(V)[r] /\ SamplesOf(C)[b[r]] = Presences(V)[r]
  BY LocalRowIs DEF Costs, SamplesOf, Estimates, Presences, LocalRows
<1>5. \A r, s \in V : b[r] = b[s] => r = s
  BY <1>4, LocalRowIs DEF Responses
<1>. HIDE DEF b, C
<1>6. DOMAIN Costs(C) = C /\ DOMAIN SamplesOf(C) = C
  BY CostDomains
<1>7. Numbers(Costs(C)) /\ \A s \in SUBSET V : SumOf(Costs(C), Image(b, s)) = SumOf(Estimates(V), s)
  BY <1>2, <1>3, <1>4, <1>5, <1>6, Renamed
<1>8. /\ Numbers(SamplesOf(C))
      /\ \A s \in SUBSET V : SumOf(SamplesOf(C), Image(b, s)) = SumOf(Presences(V), s)
  BY <1>2, <1>3, <1>4, <1>5, <1>6, Renamed
<1>9. \A s \in SUBSET V : Image(b, s) = {LocalRow(r) : r \in s}
  BY <1>4 DEF Image
<1>10. CostNumbers(C)
  BY <1>7, <1>8, CostDomains
<1>11. \A c \in C : c.ts \in Int
  BY LocalRowIs DEF C, LocalRows, Responses
<1>. QED
  BY <1>2, <1>7, <1>8, <1>9, <1>10, <1>11 DEF C

\* The archived hours of a cost view are what the responses archived come to.
LEMMA HoursMerged ==
  ASSUME NEW A, NEW now, Responses(ValidUsage(A)), \A r \in ValidUsage(A) : Past(r.ts, now),
         NEW H, H = LocalCostHourly(A)
  PROVE  \E key : CostsMerged(key, HourRows(H), LocalRows(ValidUsage(A)), now)
<1>. DEFINE V == ValidUsage(A)
            C2 == LocalRows(V)
            C1 == HourRows(H)
            home(c) == [bucket |-> TheHour(c.ts), session |-> c.session, model |-> c.model]
            key == [c \in C2 |-> HourRow(home(c), H)]
            Own(k) == {r \in V : LocalKey(r) = k}
<1>1. DOMAIN H = {LocalKey(r) : r \in V}
  BY DEF LocalCostHourly
<1>2. \A k \in DOMAIN H : /\ H[k].cost = Total(LAMBDA r : OrZero(r.cost), Own(k))
                          /\ H[k].samples = Total(LAMBDA r : Present(r.cost), Own(k))
  BY DEF LocalCostHourly
<1>3. /\ CostNumbers(C2) /\ \A c \in C2 : c.ts \in Int
      /\ Numbers(Estimates(V)) /\ DOMAIN Estimates(V) = V
      /\ Numbers(Presences(V)) /\ DOMAIN Presences(V) = V
      /\ \A s \in SUBSET V : /\ SumOf(Costs(C2), {LocalRow(r) : r \in s}) = SumOf(Estimates(V), s)
                             /\ SumOf(SamplesOf(C2), {LocalRow(r) : r \in s}) =
                                  SumOf(Presences(V), s)
  BY LocalNumbers
<1>4. IsFiniteSet(V)
  BY DEF Responses
<1>5. \A r : home(LocalRow(r)) = LocalKey(r)
  BY LocalRowIs DEF LocalKey
<1>6. ASSUME NEW k \in DOMAIN H
      PROVE  H[k].cost = SumOf(Estimates(V), Own(k)) /\ H[k].samples = SumOf(Presences(V), Own(k))
  <2>. DEFINE own == Own(k)
  <2>1. own \in SUBSET V /\ IsFiniteSet(own)
    BY <1>4, FS_Subset
  <2>2. H[k].cost = Total(LAMBDA r : OrZero(r.cost), own)
    BY <1>2
  <2>3. H[k].samples = Total(LAMBDA r : Present(r.cost), own)
    BY <1>2
  <2>. HIDE DEF own, V
  <2>4. H[k].cost = SumOf(Estimates(own), own)
    BY <2>1, <2>2, TotalEstimates
  <2>5. H[k].samples = SumOf(Presences(own), own)
    BY <2>1, <2>3, TotalPresences
  <2>6. Numbers(Estimates(own)) /\ DOMAIN Estimates(own) = own
    BY <1>3, <2>1 DEF Numbers, Estimates
  <2>7. Numbers(Presences(own)) /\ DOMAIN Presences(own) = own
    BY <1>3, <2>1 DEF Numbers, Presences
  <2>8. \A r \in own : Estimates(own)[r] = Estimates(V)[r] /\ Presences(own)[r] = Presences(V)[r]
    BY <2>1 DEF Estimates, Presences
  <2>9. SumOf(Estimates(own), own) = SumOf(Estimates(V), own)
    BY <1>3, <2>1, <2>6, <2>8, SumLocal
  <2>10. SumOf(Presences(own), own) = SumOf(Presences(V), own)
    BY <1>3, <2>1, <2>7, <2>8, SumLocal
  <2>. QED
    BY <2>4, <2>5, <2>9, <2>10 DEF own
<1>7. \A k \in DOMAIN H : H[k].cost \in Int /\ H[k].samples \in Int
  <2>. TAKE k \in DOMAIN H
  <2>1. Own(k) \in SUBSET V
    OBVIOUS
  <2>2. SumOf(Estimates(V), Own(k)) \in Int /\ SumOf(Presences(V), Own(k)) \in Int
    BY <1>3, <2>1, SumType
  <2>. QED
    BY <1>6, <2>2
<1>8. IsFiniteSet(C1)
  <2>1. C1 = {HourRow(LocalKey(r), H) : r \in V}
    BY <1>1 DEF HourRows
  <2>2. IsFiniteSet({[r \in V |-> HourRow(LocalKey(r), H)][x] : x \in V})
    BY <1>4, FiniteValues
  <2>. HIDE DEF V, C1
  <2>3. {[r \in V |-> HourRow(LocalKey(r), H)][x] : x \in V} = {HourRow(LocalKey(r), H) : r \in V}
    OBVIOUS
  <2>. QED
    BY <2>1, <2>2, <2>3
<1>9. CostNumbers(C1)
  BY <1>7, <1>8, HourRowFields DEF CostNumbers, HourRows
<1>10. \A c \in C2 : \E r \in V : c = LocalRow(r)
  BY DEF LocalRows
<1>11. \A r \in V : /\ LocalRow(r) \in C2 /\ LocalKey(r) \in DOMAIN H
                    /\ key[LocalRow(r)] = HourRow(LocalKey(r), H)
  BY <1>1, <1>5 DEF LocalRows
<1>12. \A k \in DOMAIN H : HourRow(k, H) \in C1
  BY DEF HourRows
<1>13. DOMAIN key = C2 /\ \A c \in C2 : key[c] \in C1
  BY <1>10, <1>11, <1>12
<1>14. \A k, l \in DOMAIN H : HourRow(k, H) = HourRow(l, H) => k = l
  <2>1. \A k \in DOMAIN H : k = [bucket |-> k.bucket, session |-> k.session, model |-> k.model]
    BY <1>1 DEF LocalKey
  <2>2. \A k, l \in DOMAIN H : HourRow(k, H) = HourRow(l, H) =>
          k.bucket = l.bucket /\ k.session = l.session /\ k.model = l.model
    BY HourRowFields
  <2>. QED
    BY <2>1, <2>2
<1>. HIDE DEF key, V, C2, C1
<1>15. ASSUME NEW k \in DOMAIN H
       PROVE  {c \in C2 : key[c] = HourRow(k, H)} = {LocalRow(r) : r \in Own(k)}
  <2>1. ASSUME NEW c \in C2, key[c] = HourRow(k, H) PROVE \E r \in Own(k) : c = LocalRow(r)
    <3>1. PICK r \in V : c = LocalRow(r)
      BY <1>10
    <3>2. HourRow(LocalKey(r), H) = HourRow(k, H) /\ LocalKey(r) \in DOMAIN H
      BY <1>11, <2>1, <3>1
    <3>3. LocalKey(r) = k
      BY <1>14, <3>2
    <3>. QED
      BY <3>1, <3>3
  <2>2. ASSUME NEW r \in Own(k) PROVE LocalRow(r) \in C2 /\ key[LocalRow(r)] = HourRow(k, H)
    BY <1>11
  <2>. QED
    BY <2>1, <2>2
<1>16. ASSUME NEW e \in C1
       PROVE  /\ Costs(C1)[e] = SumOf(Costs(C2), {c \in C2 : key[c] = e})
              /\ SamplesOf(C1)[e] = SumOf(SamplesOf(C2), {c \in C2 : key[c] = e})
  <2>1. PICK k \in DOMAIN H : e = HourRow(k, H)
    BY DEF C1, HourRows
  <2>2. Own(k) \in SUBSET V
    OBVIOUS
  <2>3. Costs(C1)[e] = H[k].cost /\ SamplesOf(C1)[e] = H[k].samples
    BY <2>1, HourRowIs DEF Costs, SamplesOf
  <2>4. /\ H[k].cost = SumOf(Costs(C2), {LocalRow(r) : r \in Own(k)})
        /\ H[k].samples = SumOf(SamplesOf(C2), {LocalRow(r) : r \in Own(k)})
    BY <1>3, <1>6, <2>2
  <2>5. {c \in C2 : key[c] = e} = {LocalRow(r) : r \in Own(k)}
    BY <1>15, <2>1
  <2>. QED
    BY <2>3, <2>4, <2>5
<1>17. /\ Numbers(Costs(C1)) /\ Numbers(SamplesOf(C1)) /\ Numbers(Costs(C2))
            /\ Numbers(SamplesOf(C2))
       /\ DOMAIN Costs(C1) = C1 /\ DOMAIN SamplesOf(C1) = C1
       /\ DOMAIN Costs(C2) = C2 /\ DOMAIN SamplesOf(C2) = C2
  BY <1>3, <1>9, CostDomains
<1>18. SortsAll(key, Costs(C2), Costs(C1)) /\ SortsAll(key, SamplesOf(C2), SamplesOf(C1))
  BY <1>13, <1>16, <1>17 DEF SortsAll, Sorts
<1>19. ASSUME NEW c \in C2 PROVE CostAlike(c, key[c], now)
  <2>1. PICK r \in V : c = LocalRow(r)
    BY <1>10
  <2>2. key[c] = HourRow(LocalKey(r), H)
    BY <1>11, <2>1
  <2>3. Past(r.ts, now)
    BY DEF V
  <2>. DEFINE e == HourRow(LocalKey(r), H)
  <2>4. c.ts = r.ts /\ c.session = r.session /\ c.model = r.model
    BY <2>1, LocalRowFields
  <2>5. e.ts = TheHour(r.ts) /\ e.session = r.session /\ e.model = r.model
    BY HourRowFields, LocalKeyIs
  <2>6. e.source = c.source /\ c.source # "legacy"
    <3>1. e.source = "local" /\ c.source = "local"
      BY <2>1, LocalRowIs, HourRowIs
    <3>. QED
      BY <3>1
  <2>7. c.ts \in Int
    BY <1>3
  <2>. HIDE DEF e
  <2>8. CostAlike(c, e, now)
    BY <2>3, <2>4, <2>5, <2>6, <2>7 DEF CostAlike
  <2>. QED
    BY <2>2, <2>8 DEF e
<1>20. CostsMerged(key, C1, C2, now)
  BY <1>18, <1>19 DEF CostsMerged
<1>. QED
  BY <1>20 DEF C1, C2, V

\* Rows of which some have been archived, all of those long before now.
Aged(R, A, now) ==
  /\ Priced(R \cup A) /\ R \cap A = {}
  /\ now \in Int
  /\ \A r \in R \cup A : r.ts \in Int
  /\ \A r \in A : Past(r.ts, now)

\* Rows with prices are responses with costs.
LEMMA UsageResponds ==
  ASSUME NEW S, Priced(S), \A r \in S : r.ts \in Int, NEW T, T \subseteq S
  PROVE  Responses(ValidUsage(T))
<1>1. ValidUsage(T) \subseteq S /\ \A r \in ValidUsage(T) : r.table = "codex_token_usage"
  BY DEF ValidUsage, Valid
<1>2. IsFiniteSet(ValidUsage(T))
  BY <1>1, FS_Subset DEF Priced
<1>. QED
  BY <1>1, <1>2 DEF Responses, Priced

\* The view of estimates is of the rows and of the hours.
LEMMA LocalCostsAre ==
  ASSUME NEW R, NEW A
  PROVE  /\ LocalCosts(R, A) = LocalRows(ValidUsage(R)) \cup HourRows(LocalCostHourly(A))
         /\ LocalCosts(R \cup A, {}) = LocalRows(ValidUsage(R)) \cup LocalRows(ValidUsage(A))
<1>1. \A S, T : LocalCosts(S, T) = LocalRows(ValidUsage(S)) \cup HourRows(LocalCostHourly(T))
  BY DEF LocalCosts, LocalRows, HourRows, LocalRow, HourRow
<1>2. HourRows(LocalCostHourly({})) = {}
  BY DEF HourRows, LocalCostHourly, ValidUsage
<1>3. ValidUsage(R \cup A) = ValidUsage(R) \cup ValidUsage(A)
  BY DEF ValidUsage
<1>4. \A S, T : LocalRows(S \cup T) = LocalRows(S) \cup LocalRows(T)
  BY DEF LocalRows
<1>. QED
  BY <1>1, <1>2, <1>3, <1>4

\* The view of the estimates.
LEMMA LocalsMerged ==
  ASSUME NEW R, NEW A, NEW now, Aged(R, A, now)
  PROVE  \E key : CostsMerged(key, LocalCosts(R, A), LocalCosts(R \cup A, {}), now)
<1>. DEFINE V == ValidUsage(R)
            W == ValidUsage(A)
            H == LocalCostHourly(A)
<1>1. Responses(V) /\ Responses(W)
  BY UsageResponds DEF Aged
<1>2. V \subseteq R /\ W \subseteq A
  BY DEF ValidUsage
<1>3. CostNumbers(LocalRows(V)) /\ \A c \in LocalRows(V) : c.ts \in Int
  BY <1>1, LocalNumbers
<1>4. PICK same : CostsMerged(same, LocalRows(V), LocalRows(V), now)
  BY <1>3, CostsThemselves
<1>5. PICK key : CostsMerged(key, HourRows(H), LocalRows(W), now)
  <2>1. \A r \in W : Past(r.ts, now)
    BY <1>2 DEF Aged
  <2>. QED
    BY <1>1, <2>1, HoursMerged
<1>6. LocalRows(V) \cap LocalRows(W) = {}
  <2>1. ASSUME NEW c \in LocalRows(V), NEW d \in LocalRows(W) PROVE c # d
    <3>1. PICK r \in V, s \in W : c = LocalRow(r) /\ d = LocalRow(s)
      BY DEF LocalRows
    <3>2. r \in R /\ s \in A /\ r # s
      BY <1>2 DEF Aged
    <3>3. r.row # s.row
      BY <3>2 DEF Aged, Priced
    <3>. QED
      BY <3>1, <3>3, LocalRowIs
  <2>. QED
    BY <2>1
<1>7. LocalRows(V) \cap HourRows(H) = {}
  <2>1. ASSUME NEW c \in LocalRows(V), NEW d \in HourRows(H) PROVE c # d
    <3>1. PICK r \in V : c = LocalRow(r)
      BY DEF LocalRows
    <3>2. PICK k : d = HourRow(k, H)
      BY DEF HourRows
    <3>3. r.row # ""
      BY <1>2 DEF Aged, Priced
    <3>4. c.row = r.row
      BY <3>1 DEF LocalRow, CostRow
    <3>5. d.row = ""
      BY <3>2 DEF HourRow, CostRow
    <3>. QED
      BY <3>3, <3>4, <3>5
  <2>. QED
    BY <2>1
<1>8. CostsMerged(Beside(same, key), LocalRows(V) \cup HourRows(H),
                  LocalRows(V) \cup LocalRows(W), now)
  BY <1>4, <1>5, <1>6, <1>7, CostsBeside
<1>. QED
  BY <1>8, LocalCostsAre

LegacyRow(l) ==
  CostRow("", l.bucket, "", l.model, l.cost, "legacy", IF l.cost > 0 THEN 1 ELSE 0)

\* Costs that are the same however old, and estimates that are not looked at.
KeptCosts(T) == {NativeRow(r) : r \in NewestTurns(T)} \cup {LegacyRow(l) : l \in LegacyHours}
Unreported(L, T) == {c \in L : c.session \notin {r.session : r \in NewestTurns(T)}}

\* The selected costs: what no hour stands for, and the estimates of who reported nothing.
LEMMA SelectedAre ==
  ASSUME NEW R, NEW A, Priced(R \cup A)
  PROVE  SelectedCosts(R, A) = KeptCosts(R \cup A) \cup Unreported(LocalCosts(R, A), R \cup A)
<1>1. NativeTurnCosts(R, A) = NewestTurns(R \cup A)
  BY NativeAreNewest
<1>2. NativeSessions(R, A) = {r.session : r \in NewestTurns(R \cup A)}
  BY <1>1 DEF NativeSessions
<1>. DEFINE N == {NativeRow(r) : r \in NewestTurns(R \cup A)}
            O == {LegacyRow(l) : l \in LegacyHours}
            U == {c \in LocalCosts(R, A) : c.session \notin NativeSessions(R, A)}
<1>3. SelectedCosts(R, A) = N \cup U \cup O
  BY <1>1 DEF SelectedCosts, NativeRow, LegacyRow
<1>4. KeptCosts(R \cup A) = N \cup O
  BY DEF KeptCosts
<1>5. U = Unreported(LocalCosts(R, A), R \cup A)
  BY <1>2 DEF Unreported
<1>. HIDE DEF N, U, O
<1>. QED
  BY <1>3, <1>4, <1>5

LEMMA KeptNumbers ==
  ASSUME NEW T, Priced(T)
  PROVE  CostNumbers(KeptCosts(T)) /\ \A c \in KeptCosts(T) : c.ts \in Int
<1>. DEFINE P == NewestTurns(T)
            N == {NativeRow(r) : r \in P}
            O == {LegacyRow(l) : l \in LegacyHours}
<1>1. P \subseteq T /\ \A r \in P : r.table = "turn_cost"
  BY DEF NewestTurns, Of
<1>2. \A r \in P : r.ts \in Int /\ r.amount \in Int
  BY <1>1 DEF Priced
<1>3. IsFiniteSet(P)
  BY <1>1, FS_Subset DEF Priced
<1>. HIDE DEF P
<1>4. IsFiniteSet(N)
  <2>1. IsFiniteSet({[r \in P |-> NativeRow(r)][x] : x \in P})
    BY <1>3, FiniteValues
  <2>2. {[r \in P |-> NativeRow(r)][x] : x \in P} = N
    OBVIOUS
  <2>. QED
    BY <2>1, <2>2
<1>5. IsFiniteSet(LegacyHours) /\ \A l \in LegacyHours : l.bucket \in Int /\ l.cost \in Int
  BY SummaryAssumption DEF SummaryAssumption
<1>6. IsFiniteSet(O)
  <2>1. IsFiniteSet({[l \in LegacyHours |-> LegacyRow(l)][x] : x \in LegacyHours})
    BY <1>5, FiniteValues
  <2>2. {[l \in LegacyHours |-> LegacyRow(l)][x] : x \in LegacyHours} = O
    OBVIOUS
  <2>. QED
    BY <2>1, <2>2
<1>7. \A r : NativeRow(r).ts = r.ts /\ NativeRow(r).cost = r.amount /\ NativeRow(r).samples = 1
  BY DEF NativeRow, CostRow
<1>8. \A l : /\ LegacyRow(l).ts = l.bucket /\ LegacyRow(l).cost = l.cost
             /\ LegacyRow(l).samples \in {0, 1}
  BY DEF LegacyRow, CostRow
<1>9. \A c \in N : c.ts \in Int /\ c.cost \in Int /\ c.samples \in Int
  BY <1>2, <1>7
<1>10. \A c \in O : c.ts \in Int /\ c.cost \in Int /\ c.samples \in Int
  BY <1>5, <1>8
<1>11. KeptCosts(T) = N \cup O
  BY DEF KeptCosts, P
<1>. HIDE DEF N, O
<1>. QED
  BY <1>4, <1>6, <1>9, <1>10, <1>11, FS_Union DEF CostNumbers

LEMMA KeptNotLocal ==
  ASSUME NEW T, NEW c \in KeptCosts(T)
  PROVE  c.source # "local"
<1>1. \A r : NativeRow(r).source = "native"
  BY DEF NativeRow, CostRow
<1>2. \A l : LegacyRow(l).source = "legacy"
  BY DEF LegacyRow, CostRow
<1>3. (\E r : c = NativeRow(r)) \/ (\E l : c = LegacyRow(l))
  BY DEF KeptCosts
<1>4. c.source = "native" \/ c.source = "legacy"
  BY <1>1, <1>2, <1>3
<1>. QED
  BY <1>4

LEMMA LocalsAreLocal ==
  ASSUME NEW R, NEW A, NEW c \in LocalCosts(R, A)
  PROVE  c.source = "local"
<1>1. (\E r : c = LocalRow(r)) \/ (\E k : c = HourRow(k, LocalCostHourly(A)))
  <2>1. c \in LocalRows(ValidUsage(R)) \cup HourRows(LocalCostHourly(A))
    BY LocalCostsAre
  <2>. QED
    BY <2>1 DEF LocalRows, HourRows
<1>2. \A r : LocalRow(r).source = "local"
  BY DEF LocalRow, CostRow
<1>3. \A k : HourRow(k, LocalCostHourly(A)).source = "local"
  BY DEF HourRow, CostRow
<1>. QED
  BY <1>1, <1>2, <1>3

\* The view of the costs that count.
LEMMA SelectedMerged ==
  ASSUME NEW R, NEW A, NEW now, Aged(R, A, now)
  PROVE  \E key : CostsMerged(key, SelectedCosts(R, A), SelectedCosts(R \cup A, {}), now)
<1>. DEFINE T == R \cup A
            L1 == LocalCosts(R, A)
            L2 == LocalCosts(T, {})
            U1 == Unreported(L1, T)
            U2 == Unreported(L2, T)
            K == KeptCosts(T)
<1>1. Priced(T) /\ T \cup {} = T
  BY DEF Aged
<1>2. SelectedCosts(R, A) = K \cup U1
  BY <1>1, SelectedAre
<1>3. SelectedCosts(T, {}) = K \cup U2
  <2>1. Priced(T \cup {})
    BY <1>1
  <2>. HIDE DEF T
  <2>2. SelectedCosts(T, {}) =
          KeptCosts(T \cup {}) \cup Unreported(LocalCosts(T, {}), T \cup {})
    BY <2>1, SelectedAre
  <2>. QED
    BY <1>1, <2>2
<1>4. PICK key : CostsMerged(key, L1, L2, now)
  BY LocalsMerged
<1>5. DOMAIN key = L2 /\ \A c \in L2 : key[c] \in L1
  BY <1>4, MergedCostsAre
<1>6. \A c \in L2 : key[c].session = c.session
  BY <1>4 DEF CostsMerged, CostAlike
<1>7. Matched(key, L2, L1, U2, U1)
  BY <1>5, <1>6 DEF Matched, Unreported
<1>8. PICK lock : CostsMerged(lock, U1, U2, now)
  BY <1>4, <1>7, CostsPart
<1>9. PICK same : CostsMerged(same, K, K, now)
  BY <1>1, KeptNumbers, CostsThemselves
<1>10. K \cap U1 = {} /\ K \cap U2 = {}
  <2>1. U1 \subseteq L1 /\ U2 \subseteq L2
    BY DEF Unreported
  <2>2. \A c \in K : c.source # "local"
    BY KeptNotLocal
  <2>3. \A c \in U1 \cup U2 : c.source = "local"
    BY <2>1, LocalsAreLocal
  <2>. HIDE DEF K, U1, U2
  <2>. QED
    BY <2>2, <2>3
<1>. HIDE DEF K, U1, U2
<1>11. CostsMerged(Beside(same, lock), K \cup U1, K \cup U2, now)
  BY <1>8, <1>9, <1>10, CostsBeside
<1>. QED
  BY <1>2, <1>3, <1>11

-----------------------------------------------------------------------------
(* Usage, raw and archived *)

\* Rows with numbers in the columns that are added up.
Summable(S) ==
  \A r \in S :
    /\ r.table \in {"token_usage", "cost_usage", "skill_injected"} => r.value \in Int
    /\ r.table = "api_request" => r.output \in Int /\ r.duration \in Int
    /\ r.table \in {"response_tbt", "turn_token_usage"} => r.samples \in Int /\ r.sum \in Int
    /\ r.table = "codex_token_usage" =>
         /\ r.input \in Int /\ r.output \in Int /\ OrZero(r.cached) \in Int
         /\ OrZero(r.write) \in Int /\ OrZero(r.reasoning) \in Int

\* What a fact has of a measure, from the columns of a bucket.
Counted(client, c, m) ==
  LET a == ArchivedMeasures(client, c) IN IF m \in DOMAIN a THEN a[m] ELSE 0

ColumnsOf(r) == [c \in UsageColumns |-> Amount(r, c)]

\* The measures of an hour, column by column.
LEMMA CountedOfCodex ==
  \A c : /\ Counted("codex", c, "in") = c.input - c.cache_read - c.cache_creation
         /\ Counted("codex", c, "gross") = c.input
         /\ Counted("codex", c, "flow") = c.throughput_input
         /\ Counted("codex", c, "out") = c.output
         /\ Counted("codex", c, "total") = c.tokens_total
         /\ Counted("codex", c, "read") = c.cache_read
         /\ Counted("codex", c, "creation") = c.cache_creation
         /\ Counted("codex", c, "denom") = c.input
         /\ Counted("codex", c, "written") = c.cache_creation
         /\ Counted("codex", c, "reasoning") = c.reasoning
         /\ Counted("codex", c, "requests") = c.requests
         /\ Counted("codex", c, "cost") = 0
         /\ Counted("codex", c, "units") = c.speed_units
         /\ Counted("codex", c, "duration") = c.speed_duration
BY DEF Counted, ArchivedMeasures, ++

LEMMA CountedOfClaude ==
  \A c : /\ Counted("claude", c, "in") = c.input
         /\ Counted("claude", c, "gross") = c.input
         /\ Counted("claude", c, "flow") = c.input
         /\ Counted("claude", c, "out") = c.output
         /\ Counted("claude", c, "total") = c.tokens_total
         /\ Counted("claude", c, "read") = c.cache_read
         /\ Counted("claude", c, "creation") = c.cache_creation
         /\ Counted("claude", c, "denom") = c.cache_read + c.cache_creation
         /\ Counted("claude", c, "written") = 0
         /\ Counted("claude", c, "reasoning") = 0
         /\ Counted("claude", c, "requests") = c.requests
         /\ Counted("claude", c, "cost") = c.cost
         /\ Counted("claude", c, "units") = c.speed_units
         /\ Counted("claude", c, "duration") = c.speed_duration
BY DEF Counted, ArchivedMeasures, ++

\* The measures of a row, and the columns its hour would have.
LEMMA RawAmount ==
  \A r, m : m \in Measures =>
    RawFact(r).amount[m] = IF m \in DOMAIN RawMeasures(r) THEN RawMeasures(r)[m] ELSE 0
BY DEF RawFact, Fact

LEMMA ColumnsAre ==
  \A r : /\ ColumnsOf(r).input = Amount(r, "input")
         /\ ColumnsOf(r).output = Amount(r, "output")
         /\ ColumnsOf(r).tokens_total = Amount(r, "tokens_total")
         /\ ColumnsOf(r).cache_read = Amount(r, "cache_read")
         /\ ColumnsOf(r).cache_creation = Amount(r, "cache_creation")
         /\ ColumnsOf(r).reasoning = Amount(r, "reasoning")
         /\ ColumnsOf(r).throughput_input = Amount(r, "throughput_input")
         /\ ColumnsOf(r).requests = Amount(r, "requests")
         /\ ColumnsOf(r).cost = Amount(r, "cost")
         /\ ColumnsOf(r).speed_units = Amount(r, "speed_units")
         /\ ColumnsOf(r).speed_duration = Amount(r, "speed_duration")
BY DEF ColumnsOf, UsageColumns

\* What a raw row counts for, from the columns it will be added to.
CountsAs(r, client) ==
  \A m \in Measures : RawFact(r).amount[m] = Counted(client, ColumnsOf(r), m)

\* The same, measure by measure.
LEMMA CountsAsClaude ==
  ASSUME NEW r,
         RawFact(r).amount["in"] = Amount(r, "input"),
         RawFact(r).amount["gross"] = Amount(r, "input"),
         RawFact(r).amount["flow"] = Amount(r, "input"),
         RawFact(r).amount["out"] = Amount(r, "output"),
         RawFact(r).amount["total"] = Amount(r, "tokens_total"),
         RawFact(r).amount["read"] = Amount(r, "cache_read"),
         RawFact(r).amount["creation"] = Amount(r, "cache_creation"),
         RawFact(r).amount["denom"] = Amount(r, "cache_read") + Amount(r, "cache_creation"),
         RawFact(r).amount["written"] = 0,
         RawFact(r).amount["reasoning"] = 0,
         RawFact(r).amount["requests"] = Amount(r, "requests"),
         RawFact(r).amount["cost"] = Amount(r, "cost"),
         RawFact(r).amount["units"] = Amount(r, "speed_units"),
         RawFact(r).amount["duration"] = Amount(r, "speed_duration")
  PROVE  CountsAs(r, "claude")
BY CountedOfClaude, ColumnsAre DEF CountsAs, Measures

\* A row counts as its columns do, table by table.
LEMMA CountsAsCodex ==
  ASSUME NEW r,
         RawFact(r).amount["in"] =
           Amount(r, "input") - Amount(r, "cache_read") - Amount(r, "cache_creation"),
         RawFact(r).amount["gross"] = Amount(r, "input"),
         RawFact(r).amount["flow"] = Amount(r, "throughput_input"),
         RawFact(r).amount["out"] = Amount(r, "output"),
         RawFact(r).amount["total"] = Amount(r, "tokens_total"),
         RawFact(r).amount["read"] = Amount(r, "cache_read"),
         RawFact(r).amount["creation"] = Amount(r, "cache_creation"),
         RawFact(r).amount["denom"] = Amount(r, "input"),
         RawFact(r).amount["written"] = Amount(r, "cache_creation"),
         RawFact(r).amount["reasoning"] = Amount(r, "reasoning"),
         RawFact(r).amount["requests"] = Amount(r, "requests"),
         RawFact(r).amount["cost"] = 0,
         RawFact(r).amount["units"] = Amount(r, "speed_units"),
         RawFact(r).amount["duration"] = Amount(r, "speed_duration")
  PROVE  CountsAs(r, "codex")
BY CountedOfCodex, ColumnsAre DEF CountsAs, Measures

LEMMA UsageCounts ==
  ASSUME NEW r, r.table = "token_usage", r.value \in Int
  PROVE  CountsAs(r, "claude")
<1>. DEFINE M == OfType(TypeMeasures, r.type)
            C == OfType(TypeColumns, r.type)
<1>1. \A m \in Measures : RawFact(r).amount[m] = IF m = "total" \/ m \in M THEN r.value ELSE 0
  <2>1. RawMeasures(r) = [m \in {"total"} \cup M |-> r.value]
    BY DEF RawMeasures
  <2>. HIDE DEF M
  <2>. QED
    BY <2>1, RawAmount
<1>2. \A c : c # "token_rows" =>
        Amount(r, c) = IF c = "tokens_total" \/ c \in C THEN r.value ELSE 0
  <2>1. Adds(r) = [c \in {"tokens_total"} \cup C |-> r.value] ++ [token_rows |-> 1]
    BY DEF Adds
  <2>. HIDE DEF C
  <2>. QED
    BY <2>1 DEF Amount, ++
<1>3. \/ /\ M = {"in", "gross", "flow"} /\ C = {"input", "throughput_input"}
      \/ /\ M = {"out"} /\ C = {"output"}
      \/ /\ M = {"read", "denom"} /\ C = {"cache_read"}
      \/ /\ M = {"creation", "denom"} /\ C = {"cache_creation"}
      \/ /\ M = {} /\ C = {}
  BY DEF OfType, TypeMeasures, TypeColumns
<1>. HIDE DEF M, C
<1>4. /\ RawFact(r).amount["in"] = Amount(r, "input")
      /\ RawFact(r).amount["gross"] = Amount(r, "input")
      /\ RawFact(r).amount["flow"] = Amount(r, "input")
      /\ RawFact(r).amount["out"] = Amount(r, "output")
      /\ RawFact(r).amount["total"] = Amount(r, "tokens_total")
      /\ RawFact(r).amount["read"] = Amount(r, "cache_read")
      /\ RawFact(r).amount["creation"] = Amount(r, "cache_creation")
      /\ RawFact(r).amount["denom"] = Amount(r, "cache_read") + Amount(r, "cache_creation")
  BY <1>1, <1>2, <1>3 DEF Measures
<1>5. /\ RawFact(r).amount["written"] = 0
      /\ RawFact(r).amount["reasoning"] = 0
      /\ RawFact(r).amount["requests"] = Amount(r, "requests")
      /\ RawFact(r).amount["cost"] = Amount(r, "cost")
      /\ RawFact(r).amount["units"] = Amount(r, "speed_units")
      /\ RawFact(r).amount["duration"] = Amount(r, "speed_duration")
  BY <1>1, <1>2, <1>3 DEF Measures
<1>. QED
  BY <1>4, <1>5, CountsAsClaude

LEMMA CostCounts ==
  ASSUME NEW r, r.table = "cost_usage"
  PROVE  CountsAs(r, "claude")
<1>1. \A m \in Measures : RawFact(r).amount[m] = IF m = "cost" THEN r.value ELSE 0
  <2>1. RawMeasures(r) = [cost |-> r.value]
    BY DEF RawMeasures
  <2>. QED
    BY <2>1, RawAmount
<1>2. \A c : Amount(r, c) = IF c = "cost" THEN r.value ELSE 0
  <2>1. Adds(r) = [cost |-> r.value]
    BY DEF Adds
  <2>. QED
    BY <2>1 DEF Amount
<1>. QED
  BY <1>1, <1>2, CountsAsClaude DEF Measures

LEMMA CallCounts ==
  ASSUME NEW r, r.table = "api_request", r.output \in Int, r.duration \in Int
  PROVE  CountsAs(r, "claude")
<1>. DEFINE u == IF Measured(r) THEN r.output ELSE 0
            d == IF Measured(r) THEN r.duration ELSE 0
<1>1. \A m \in Measures : RawFact(r).amount[m] =
        IF m = "requests" THEN 1 ELSE IF m = "units" THEN u ELSE IF m = "duration" THEN d ELSE 0
  <2>1. RawMeasures(r) = [requests |-> 1] ++
          (IF Measured(r) THEN [units |-> r.output, duration |-> r.duration] ELSE <<>>)
    BY DEF RawMeasures
  <2>2. CASE Measured(r)
    <3>1. RawMeasures(r) = [requests |-> 1] ++ [units |-> r.output, duration |-> r.duration]
      BY <2>1, <2>2
    <3>. QED
      BY <2>2, <3>1, RawAmount DEF ++
  <2>3. CASE ~Measured(r)
    <3>1. RawMeasures(r) = [requests |-> 1] ++ <<>>
      BY <2>1, <2>3
    <3>. QED
      BY <2>3, <3>1, RawAmount DEF ++
  <2>. QED
    BY <2>2, <2>3
<1>2. \A c : Amount(r, c) = IF c = "requests" THEN 1 ELSE IF c = "speed_units" THEN u
                            ELSE IF c = "speed_duration" THEN d ELSE 0
  <2>1. Adds(r) = [requests |-> 1] ++
          (IF Measured(r) THEN [speed_units |-> r.output, speed_duration |-> r.duration] ELSE <<>>)
    BY DEF Adds
  <2>2. CASE Measured(r)
    <3>1. Adds(r) = [requests |-> 1] ++ [speed_units |-> r.output, speed_duration |-> r.duration]
      BY <2>1, <2>2
    <3>. QED
      BY <2>2, <3>1 DEF Amount, ++
  <2>3. CASE ~Measured(r)
    <3>1. Adds(r) = [requests |-> 1] ++ <<>>
      BY <2>1, <2>3
    <3>. QED
      BY <2>3, <3>1 DEF Amount, ++
  <2>. QED
    BY <2>2, <2>3
<1>. HIDE DEF u, d
<1>. QED
  BY <1>1, <1>2, CountsAsClaude DEF Measures

LEMMA SpeedCounts ==
  ASSUME NEW r, r.table = "response_tbt", r.samples \in Int, r.sum \in Int
  PROVE  CountsAs(r, "codex")
<1>. DEFINE u == IF Measured(r) THEN r.samples ELSE 0
            d == IF Measured(r) THEN r.sum ELSE 0
<1>1. \A m \in Measures : RawFact(r).amount[m] =
        IF m = "units" THEN u ELSE IF m = "duration" THEN d ELSE 0
  <2>1. RawMeasures(r) = IF Measured(r) THEN [units |-> r.samples, duration |-> r.sum] ELSE <<>>
    BY DEF RawMeasures
  <2>2. CASE Measured(r)
    <3>1. RawMeasures(r) = [units |-> r.samples, duration |-> r.sum]
      BY <2>1, <2>2
    <3>. QED
      BY <2>2, <3>1, RawAmount
  <2>3. CASE ~Measured(r)
    <3>1. RawMeasures(r) = <<>>
      BY <2>1, <2>3
    <3>. QED
      BY <2>3, <3>1, RawAmount
  <2>. QED
    BY <2>2, <2>3
<1>2. \A c : Amount(r, c) = IF c = "speed_units" THEN u ELSE IF c = "speed_duration" THEN d ELSE 0
  <2>1. Adds(r) = IF Measured(r) THEN [speed_units |-> r.samples, speed_duration |-> r.sum]
          ELSE <<>>
    BY DEF Adds
  <2>2. CASE Measured(r)
    <3>1. Adds(r) = [speed_units |-> r.samples, speed_duration |-> r.sum]
      BY <2>1, <2>2
    <3>. QED
      BY <2>2, <3>1 DEF Amount
  <2>3. CASE ~Measured(r)
    <3>1. Adds(r) = <<>>
      BY <2>1, <2>3
    <3>. QED
      BY <2>3, <3>1 DEF Amount
  <2>. QED
    BY <2>2, <2>3
<1>. HIDE DEF u, d
<1>. QED
  BY <1>1, <1>2, CountsAsCodex DEF Measures

LEMMA ResponseCounts ==
  ASSUME NEW r, r.table = "codex_token_usage", r.input \in Int, r.output \in Int,
         OrZero(r.cached) \in Int, OrZero(r.write) \in Int, OrZero(r.reasoning) \in Int
  PROVE  CountsAs(r, "codex")
<1>1. RawMeasures(r) =
        [in |-> Uncached(r), gross |-> r.input, flow |-> Positive(Uncached(r)),
         out |-> r.output, total |-> r.input + r.output, read |-> OrZero(r.cached),
         creation |-> OrZero(r.write), written |-> OrZero(r.write), denom |-> r.input,
         reasoning |-> OrZero(r.reasoning), requests |-> 1]
  BY DEF RawMeasures
<1>2. Adds(r) =
        [tokens_total |-> r.input + r.output, input |-> r.input, output |-> r.output,
         cache_read |-> OrZero(r.cached), cache_creation |-> OrZero(r.write),
         reasoning |-> OrZero(r.reasoning), throughput_input |-> Positive(Uncached(r)),
         token_rows |-> 1, requests |-> 1, cached_samples |-> Present(r.cached),
         write_samples |-> Present(r.write), reasoning_samples |-> Present(r.reasoning)]
  BY DEF Adds
<1>3. /\ RawFact(r).amount["in"] = Uncached(r)
      /\ RawFact(r).amount["gross"] = r.input
      /\ RawFact(r).amount["flow"] = Positive(Uncached(r))
      /\ RawFact(r).amount["out"] = r.output
      /\ RawFact(r).amount["total"] = r.input + r.output
      /\ RawFact(r).amount["read"] = OrZero(r.cached)
      /\ RawFact(r).amount["creation"] = OrZero(r.write)
      /\ RawFact(r).amount["denom"] = r.input
      /\ RawFact(r).amount["written"] = OrZero(r.write)
      /\ RawFact(r).amount["reasoning"] = OrZero(r.reasoning)
      /\ RawFact(r).amount["requests"] = 1
      /\ RawFact(r).amount["cost"] = 0
      /\ RawFact(r).amount["units"] = 0
      /\ RawFact(r).amount["duration"] = 0
  BY <1>1, RawAmount DEF Measures
<1>4. /\ Amount(r, "input") = r.input /\ Amount(r, "output") = r.output
      /\ Amount(r, "tokens_total") = r.input + r.output
      /\ Amount(r, "cache_read") = OrZero(r.cached) /\ Amount(r, "cache_creation") = OrZero(r.write)
      /\ Amount(r, "reasoning") = OrZero(r.reasoning)
      /\ Amount(r, "throughput_input") = Positive(Uncached(r))
      /\ Amount(r, "requests") = 1
      /\ Amount(r, "speed_units") = 0 /\ Amount(r, "speed_duration") = 0
  BY <1>2 DEF Amount
<1>5. Uncached(r) = r.input - OrZero(r.cached) - OrZero(r.write)
  BY DEF Uncached
<1>. QED
  BY <1>3, <1>4, <1>5, CountsAsCodex

-----------------------------------------------------------------------------
(* Numbers added and taken away one by one. *)
Plus(g, h)  == [x \in DOMAIN g |-> g[x] + h[x]]
Minus(g, h) == [x \in DOMAIN g |-> g[x] - h[x]]
Alongside(g, h) == Numbers(g) /\ Numbers(h) /\ DOMAIN h = DOMAIN g

\* Sums of tables that are added, subtracted, all ones or all zero.
LEMMA SumPlus ==
  ASSUME NEW g, NEW h, Alongside(g, h)
  PROVE  /\ Numbers(Plus(g, h)) /\ DOMAIN Plus(g, h) = DOMAIN g
         /\ \A s \in SUBSET DOMAIN g : SumOf(Plus(g, h), s) = SumOf(g, s) + SumOf(h, s)
<1>. DEFINE p == Plus(g, h)
<1>0. Numbers(g) /\ Numbers(h) /\ DOMAIN h = DOMAIN g
  BY DEF Alongside
<1>1. DOMAIN p = DOMAIN g /\ \A x \in DOMAIN g : p[x] = g[x] + h[x]
  BY DEF Plus
<1>2. Numbers(p)
  BY <1>0, <1>1 DEF Numbers
<1>. HIDE DEF p
<1>3. ASSUME NEW s \in SUBSET DOMAIN g PROVE SumOf(p, s) = SumOf(g, s) + SumOf(h, s)
  <2>. DEFINE Bad == {u \in SUBSET s : SumOf(p, u) # SumOf(g, u) + SumOf(h, u)}
  <2>1. SUFFICES ASSUME Bad # {} PROVE FALSE
    OBVIOUS
  <2>2. IsFiniteSet(s) /\ Bad \subseteq SUBSET s
    BY <1>0, FS_Subset DEF Numbers
  <2>3. PICK u \in Bad : IsFiniteSet(u) /\ u \subseteq s /\ \A y \in u : u \ {y} \notin Bad
    <3>. HIDE DEF Bad
    <3>. QED
      BY <2>1, <2>2, MinimalBad
  <2>4. SumOf(p, {}) = 0 /\ SumOf(g, {}) = 0 /\ SumOf(h, {}) = 0
    BY <1>0, <1>2, SumStep
  <2>5. u # {}
    BY <2>3, <2>4
  <2>6. PICK y : y \in u
    BY <2>5
  <2>7. u \in SUBSET DOMAIN g /\ u \ {y} \in SUBSET s
    BY <2>3
  <2>8. SumOf(p, u \ {y}) = SumOf(g, u \ {y}) + SumOf(h, u \ {y})
    BY <2>3, <2>6, <2>7
  <2>9. /\ SumOf(p, u) = p[y] + SumOf(p, u \ {y})
        /\ SumOf(g, u) = g[y] + SumOf(g, u \ {y})
        /\ SumOf(h, u) = h[y] + SumOf(h, u \ {y})
    BY <1>0, <1>1, <1>2, <2>6, <2>7, SumAdds
  <2>10. p[y] = g[y] + h[y] /\ g[y] \in Int /\ h[y] \in Int
    BY <1>0, <1>1, <2>6, <2>7 DEF Numbers
  <2>11. SumOf(g, u \ {y}) \in Int /\ SumOf(h, u \ {y}) \in Int
    BY <1>0, <2>7, SumType
  <2>12. SumOf(p, u) # SumOf(g, u) + SumOf(h, u)
    BY <2>3
  <2>. HIDE DEF Bad
  <2>. QED
    BY <2>8, <2>9, <2>10, <2>11, <2>12
<1>. QED
  BY <1>1, <1>2, <1>3 DEF p

LEMMA SumMinus ==
  ASSUME NEW g, NEW h, Alongside(g, h)
  PROVE  /\ Numbers(Minus(g, h)) /\ DOMAIN Minus(g, h) = DOMAIN g
         /\ \A s \in SUBSET DOMAIN g : SumOf(Minus(g, h), s) = SumOf(g, s) - SumOf(h, s)
<1>. DEFINE m == Minus(g, h)
<1>0. Numbers(g) /\ Numbers(h) /\ DOMAIN h = DOMAIN g
  BY DEF Alongside
<1>1. DOMAIN m = DOMAIN g /\ \A x \in DOMAIN g : m[x] = g[x] - h[x]
  BY DEF Minus
<1>2. Numbers(m)
  BY <1>0, <1>1 DEF Numbers
<1>. HIDE DEF m
<1>3. Alongside(m, h)
  BY <1>0, <1>1, <1>2 DEF Alongside
<1>4. Plus(m, h) = [x \in DOMAIN g |-> g[x]]
  <2>1. \A x \in DOMAIN g : m[x] + h[x] = g[x]
    BY <1>0, <1>1 DEF Numbers
  <2>. QED
    BY <1>1, <2>1 DEF Plus
<1>5. Numbers([x \in DOMAIN g |-> g[x]])
  BY <1>0 DEF Numbers
<1>6. ASSUME NEW s \in SUBSET DOMAIN g PROVE SumOf(m, s) = SumOf(g, s) - SumOf(h, s)
  <2>1. SumOf(Plus(m, h), s) = SumOf(m, s) + SumOf(h, s)
    BY <1>1, <1>3, SumPlus
  <2>2. SumOf([x \in DOMAIN g |-> g[x]], s) = SumOf(g, s)
    BY <1>0, <1>5, SumLocal
  <2>3. SumOf(m, s) \in Int /\ SumOf(h, s) \in Int /\ SumOf(g, s) \in Int
    BY <1>0, <1>1, <1>2, SumType
  <2>. QED
    BY <1>4, <2>1, <2>2, <2>3
<1>. QED
  BY <1>1, <1>2, <1>6 DEF m

\* As many ones as there are things.
Ones(S) == [x \in S |-> 1]

LEMMA SumOfOnes ==
  ASSUME NEW S, IsFiniteSet(S)
  PROVE  /\ Numbers(Ones(S)) /\ DOMAIN Ones(S) = S
         /\ \A s \in SUBSET S : SumOf(Ones(S), s) = Cardinality(s)
<1>1. Numbers(Ones(S)) /\ DOMAIN Ones(S) = S
  BY DEF Numbers, Ones
<1>2. ASSUME NEW s \in SUBSET S PROVE SumOf(Ones(S), s) = Cardinality(s)
  <2>. DEFINE Bad == {u \in SUBSET s : SumOf(Ones(S), u) # Cardinality(u)}
  <2>1. SUFFICES ASSUME Bad # {} PROVE FALSE
    OBVIOUS
  <2>2. IsFiniteSet(s) /\ Bad \subseteq SUBSET s
    BY FS_Subset
  <2>3. PICK u \in Bad : IsFiniteSet(u) /\ u \subseteq s /\ \A y \in u : u \ {y} \notin Bad
    <3>. HIDE DEF Bad
    <3>. QED
      BY <2>1, <2>2, MinimalBad
  <2>4. SumOf(Ones(S), {}) = 0 /\ Cardinality({}) = 0
    BY <1>1, SumStep, FS_EmptySet
  <2>5. u # {}
    BY <2>3, <2>4
  <2>6. PICK y : y \in u
    BY <2>5
  <2>7. SumOf(Ones(S), u \ {y}) = Cardinality(u \ {y})
    BY <2>3, <2>6
  <2>8. u \in SUBSET DOMAIN Ones(S)
    BY <1>1, <2>3
  <2>9. SumOf(Ones(S), u) = Ones(S)[y] + SumOf(Ones(S), u \ {y})
    BY <1>1, <2>6, <2>8, SumAdds
  <2>10. Cardinality(u \ {y}) = Cardinality(u) - 1 /\ Cardinality(u) \in Nat
    BY <2>3, <2>6, FS_RemoveElement, FS_CardinalityType
  <2>11. Ones(S)[y] = 1
    BY <2>3, <2>6 DEF Ones
  <2>12. SumOf(Ones(S), u) # Cardinality(u)
    BY <2>3
  <2>. HIDE DEF Bad
  <2>. QED
    BY <2>7, <2>9, <2>10, <2>11, <2>12
<1>. QED
  BY <1>1, <1>2

LEMMA SumOfNothing ==
  ASSUME NEW z, Numbers(z), \A x \in DOMAIN z : z[x] = 0
  PROVE  SumOf(z, DOMAIN z) = 0
<1>. DEFINE S   == DOMAIN z
            Bad == {u \in SUBSET S : SumOf(z, u) # 0}
<1>1. SUFFICES ASSUME Bad # {} PROVE FALSE
  OBVIOUS
<1>2. IsFiniteSet(S) /\ Bad \subseteq SUBSET S
  BY DEF Numbers
<1>3. PICK u \in Bad : IsFiniteSet(u) /\ u \subseteq S /\ \A y \in u : u \ {y} \notin Bad
  <2>. HIDE DEF Bad, S
  <2>. QED
    BY <1>1, <1>2, MinimalBad
<1>4. SumOf(z, {}) = 0
  BY SumStep
<1>5. PICK y : y \in u
  BY <1>3, <1>4
<1>6. u \in SUBSET DOMAIN z /\ SumOf(z, u \ {y}) = 0
  BY <1>3, <1>5
<1>7. SumOf(z, u) = z[y] + SumOf(z, u \ {y})
  BY <1>5, <1>6, SumAdds
<1>8. z[y] = 0 /\ SumOf(z, u) # 0
  BY <1>3, <1>5
<1>. HIDE DEF Bad, S
<1>. QED
  BY <1>6, <1>7, <1>8

\* What does not count may be left out.
LEMMA SumOfRest ==
  ASSUME NEW g, Numbers(g), NEW s \in SUBSET DOMAIN g, NEW t \in SUBSET s,
         \A x \in s \ t : g[x] = 0
  PROVE  SumOf(g, s) = SumOf(g, t)
<1>1. SumOf(g, t \cup (s \ t)) = SumOf(g, t) + SumOf(g, s \ t)
  BY SumUnion
<1>2. t \cup (s \ t) = s
  OBVIOUS
<1>. DEFINE z == [x \in s \ t |-> 0]
<1>3. IsFiniteSet(s \ t)
  BY FS_Subset DEF Numbers
<1>4. Numbers(z) /\ DOMAIN z = s \ t
  BY <1>3 DEF Numbers
<1>5. SumOf(g, s \ t) = SumOf(z, s \ t)
  <2>1. \A x \in s \ t : g[x] = z[x]
    OBVIOUS
  <2>. HIDE DEF z
  <2>. QED
    BY <1>4, <2>1, SumLocal
<1>6. SumOf(z, s \ t) = 0
  <2>1. \A x \in DOMAIN z : z[x] = 0
    BY <1>4
  <2>. HIDE DEF z
  <2>. QED
    BY <1>4, <2>1, SumOfNothing
<1>7. SumOf(g, t) \in Int
  BY SumType
<1>8. SumOf(g, s) = SumOf(g, t) + SumOf(g, s \ t)
  BY <1>1, <1>2
<1>9. SumOf(g, s \ t) = 0
  BY <1>5, <1>6
<1>. QED
  BY <1>7, <1>8, <1>9

-----------------------------------------------------------------------------
(* What is sorted, and its keys, under other names. *)
\* h has the numbers of g under the names b, each one otherwise.
Names(b, g, h) ==
  /\ DOMAIN b = DOMAIN g /\ DOMAIN h = Image(b, DOMAIN g)
  /\ \A x \in DOMAIN g : h[b[x]] = g[x]
  /\ \A x, y \in DOMAIN g : b[x] = b[y] => x = y
Relabelled(b, a, key) ==
  [y \in Image(b, DOMAIN b) |-> a[key[CHOOSE x \in DOMAIN b : b[x] = y]]]

\* What is sorted is sorted under other names.
LEMMA RelabelledIs ==
  ASSUME NEW b, \A x, y \in DOMAIN b : b[x] = b[y] => x = y, NEW a, NEW key
  PROVE  /\ DOMAIN Relabelled(b, a, key) = Image(b, DOMAIN b)
         /\ \A x \in DOMAIN b : Relabelled(b, a, key)[b[x]] = a[key[x]]
<1>1. ASSUME NEW x \in DOMAIN b PROVE Relabelled(b, a, key)[b[x]] = a[key[x]]
  <2>. DEFINE z == CHOOSE w \in DOMAIN b : b[w] = b[x]
  <2>1. b[x] \in Image(b, DOMAIN b)
    BY DEF Image
  <2>2. Relabelled(b, a, key)[b[x]] = a[key[z]]
    BY <2>1 DEF Relabelled
  <2>3. z = x
    OBVIOUS
  <2>. QED
    BY <2>2, <2>3
<1>. QED
  BY <1>1 DEF Relabelled

LEMMA SortsRenamed ==
  ASSUME NEW key, NEW g, NEW q, SortsAll(key, g, q),
         NEW b, NEW h, Names(b, g, h), NEW a, NEW p, Names(a, q, p)
  PROVE  SortsAll(Relabelled(b, a, key), h, p)
<1>. DEFINE lock == Relabelled(b, a, key)
<1>1. /\ Numbers(g) /\ Numbers(q) /\ DOMAIN key = DOMAIN g
      /\ \A x \in DOMAIN g : key[x] \in DOMAIN q
      /\ \A k \in DOMAIN q : q[k] = SumOf(g, {x \in DOMAIN g : key[x] = k})
  BY DEF SortsAll, Sorts
<1>2. /\ Numbers(h) /\ \A s \in SUBSET DOMAIN g : SumOf(h, Image(b, s)) = SumOf(g, s)
  BY <1>1, Renamed DEF Names
<1>3. Numbers(p)
  BY <1>1, Renamed DEF Names
<1>4. /\ DOMAIN b = DOMAIN g /\ DOMAIN h = Image(b, DOMAIN g)
      /\ \A x, y \in DOMAIN g : b[x] = b[y] => x = y
  BY DEF Names
<1>5. DOMAIN lock = DOMAIN h /\ \A x \in DOMAIN g : lock[b[x]] = a[key[x]]
  BY <1>4, RelabelledIs
<1>6. /\ \A k \in DOMAIN q : a[k] \in DOMAIN p /\ p[a[k]] = q[k]
      /\ \A e \in DOMAIN p : \E k \in DOMAIN q : e = a[k]
      /\ \A k, l \in DOMAIN q : a[k] = a[l] => k = l
  BY DEF Names, Image
<1>7. \A y \in DOMAIN h : \E x \in DOMAIN g : y = b[x]
  BY <1>4 DEF Image
<1>. HIDE DEF lock
<1>8. \A y \in DOMAIN h : lock[y] \in DOMAIN p
  BY <1>1, <1>5, <1>6, <1>7
<1>9. ASSUME NEW e \in DOMAIN p PROVE p[e] = SumOf(h, {y \in DOMAIN h : lock[y] = e})
  <2>1. PICK k \in DOMAIN q : e = a[k]
    BY <1>6
  <2>. DEFINE S == {x \in DOMAIN g : key[x] = k}
  <2>2. {y \in DOMAIN h : lock[y] = e} = Image(b, S)
    <3>1. ASSUME NEW y \in DOMAIN h, lock[y] = e PROVE y \in Image(b, S)
      <4>1. PICK x \in DOMAIN g : y = b[x]
        BY <1>7
      <4>2. key[x] = k
        BY <1>1, <1>5, <1>6, <2>1, <3>1, <4>1
      <4>. QED
        BY <4>1, <4>2 DEF Image
    <3>2. ASSUME NEW x \in S PROVE b[x] \in DOMAIN h /\ lock[b[x]] = e
      BY <1>4, <1>5, <2>1 DEF Image
    <3>. QED
      BY <3>1, <3>2 DEF Image
  <2>3. q[k] = SumOf(g, S)
    BY <1>1
  <2>4. SumOf(h, Image(b, S)) = SumOf(g, S)
    BY <1>2
  <2>. QED
    BY <1>6, <2>1, <2>2, <2>3, <2>4
<1>10. SortsAll(lock, h, p)
  BY <1>2, <1>3, <1>5, <1>8, <1>9 DEF SortsAll, Sorts
<1>. QED
  BY <1>10 DEF lock

\* Nothing of anything.
LEMMA SortsNothing ==
  ASSUME NEW key, NEW g, NEW q, IsFiniteSet(DOMAIN g), IsFiniteSet(DOMAIN q),
         DOMAIN key = DOMAIN g, \A x \in DOMAIN g : key[x] \in DOMAIN q /\ g[x] = 0,
         \A k \in DOMAIN q : q[k] = 0
  PROVE  SortsAll(key, g, q)
<1>1. Numbers(g) /\ Numbers(q)
  BY DEF Numbers
<1>2. ASSUME NEW s \in SUBSET DOMAIN g PROVE SumOf(g, s) = 0
  <2>1. SumOf(g, s) = SumOf(g, {})
    BY <1>1, SumOfRest
  <2>. QED
    BY <1>1, <2>1, SumStep
<1>. QED
  BY <1>1, <1>2 DEF SortsAll, Sorts

\* With nothing negative to add, there is something if and only if something is.
LEMMA SumPositive ==
  ASSUME NEW g, Numbers(g), NEW s \in SUBSET DOMAIN g, \A x \in s : g[x] >= 0
  PROVE  /\ SumOf(g, s) > 0 <=> \E x \in s : g[x] > 0
         /\ SumOf(g, s) >= 0
<1>1. SumOf(g, {}) = 0 /\ SumOf(g, s) \in Int
  BY SumStep, SumType
<1>2. {} \in SUBSET s
  OBVIOUS
<1>3. SumOf(g, s) >= 0
  BY <1>1, <1>2, SumOfPart
<1>4. ASSUME NEW x \in s, g[x] > 0 PROVE SumOf(g, s) > 0
  <2>1. SumOf(g, s) = g[x] + SumOf(g, s \ {x})
    BY SumAdds
  <2>2. s \ {x} \in SUBSET DOMAIN g /\ s \ {x} \in SUBSET s /\ {} \in SUBSET (s \ {x})
        /\ \A y \in s \ {x} : g[y] >= 0
    OBVIOUS
  <2>3. SumOf(g, {}) <= SumOf(g, s \ {x}) /\ SumOf(g, s \ {x}) \in Int
    BY <2>2, SumOfPart, SumType
  <2>4. g[x] \in Int
    BY DEF Numbers
  <2>. QED
    BY <1>1, <1>4, <2>1, <2>3, <2>4
<1>5. ASSUME \A x \in s : ~(g[x] > 0) PROVE SumOf(g, s) = 0
  <2>1. \A x \in s \ {} : g[x] = 0
    BY <1>5 DEF Numbers
  <2>2. SumOf(g, s) = SumOf(g, {})
    BY <1>2, <2>1, SumOfRest
  <2>. QED
    BY <1>1, <2>2
<1>. QED
  BY <1>3, <1>4, <1>5

-----------------------------------------------------------------------------
(* Facts, raw and archived *)
FromRow(f)  == f.source # "archive"
Requests(f) == f.amount["requests"]
Units(f)    == f.amount["units"]
Duration(f) == f.amount["duration"]

\* A speed has both of its numbers, or neither.
Paced(f) ==
  \/ Units(f) > 0 /\ Duration(f) > 0
  \/ Units(f) = 0 /\ Duration(f) = 0

\* What the fact of a row is like ...
PlainFact(g) ==
  /\ g.ts \in Int /\ FromRow(g) /\ g.seen \subseteq {g.ts}
  /\ g.seen = {} => Requests(g) = 0
  /\ Paced(g)

\* ... and the fact of the hour it has been added to, if it has.
FactAlike(g, f, now) ==
  /\ PlainFact(g)
  /\ f.client = g.client /\ f.model = g.model
  /\ f = g \/ (f.ts = TheHour(g.ts) /\ Past(g.ts, now))
  /\ f = g \/ (f.source # "legacy" /\ g.source # "legacy")
  /\ \A t \in g.seen : \E u \in f.seen : t <= u

\* The facts F2, where F1 has old ones by the hour.
FactsMerged(key, F1, F2, now) ==
  /\ \A m \in Measures : SortsAll(key, MeasureOf(F2, m), MeasureOf(F1, m))
  /\ \A g \in F2 : FactAlike(g, key[g], now)
  /\ \A f \in F1 : \A u \in f.seen : \E g \in F2 : key[g] = f /\ u \in g.seen

FactNumbers(F) == IsFiniteSet(F) /\ \A f \in F : \A m \in Measures : f.amount[m] \in Int

LEMMA SomeMeasure == \E m : m \in Measures
  BY DEF Measures

\* Facts have a number for each measure.
LEMMA MeasureDomains ==
  ASSUME NEW F
  PROVE  /\ \A m : DOMAIN MeasureOf(F, m) = F /\ \A f \in F : MeasureOf(F, m)[f] = f.amount[m]
         /\ FactNumbers(F) <=> \A m \in Measures : Numbers(MeasureOf(F, m))
<1>1. \A m : DOMAIN MeasureOf(F, m) = F /\ \A f \in F : MeasureOf(F, m)[f] = f.amount[m]
  BY DEF MeasureOf
<1>. QED
  BY <1>1, SomeMeasure DEF FactNumbers, Numbers

LEMMA MergedFactsAre ==
  ASSUME NEW key, NEW F1, NEW F2, NEW now, FactsMerged(key, F1, F2, now)
  PROVE  /\ DOMAIN key = F2 /\ \A g \in F2 : key[g] \in F1
         /\ FactNumbers(F1) /\ FactNumbers(F2)
<1>1. \A m \in Measures : /\ DOMAIN key = DOMAIN MeasureOf(F2, m)
                          /\ \A g \in DOMAIN MeasureOf(F2, m) : key[g] \in DOMAIN MeasureOf(F1, m)
                          /\ Numbers(MeasureOf(F2, m)) /\ Numbers(MeasureOf(F1, m))
  BY DEF FactsMerged, SortsAll, Sorts
<1>2. DOMAIN key = F2 /\ \A g \in F2 : key[g] \in F1
  <2>1. PICK m \in Measures : TRUE
    BY SomeMeasure
  <2>2. DOMAIN MeasureOf(F2, m) = F2 /\ DOMAIN MeasureOf(F1, m) = F1
    BY MeasureDomains
  <2>. QED
    BY <1>1, <2>2
<1>. QED
  BY <1>1, <1>2, MeasureDomains

\* As they are.
LEMMA FactsThemselves ==
  ASSUME NEW F, FactNumbers(F), \A f \in F : PlainFact(f), NEW now
  PROVE  FactsMerged([f \in F |-> f], F, F, now)
<1>. DEFINE key == [f \in F |-> f]
<1>1. ASSUME NEW m \in Measures PROVE SortsAll(key, MeasureOf(F, m), MeasureOf(F, m))
  <2>1. Numbers(MeasureOf(F, m)) /\ DOMAIN MeasureOf(F, m) = F
    BY MeasureDomains
  <2>2. DOMAIN key = DOMAIN MeasureOf(F, m) /\ \A x \in DOMAIN MeasureOf(F, m) : key[x] = x
    BY <2>1
  <2>. HIDE DEF key
  <2>. QED
    BY <2>1, <2>2, SortsItself DEF SortsAll
<1>2. \A g \in F : FactAlike(g, key[g], now)
  <2>1. \A t \in Int : t <= t
    OBVIOUS
  <2>2. \A g \in F : \A t \in g.seen : t \in Int
    BY DEF PlainFact
  <2>. QED
    BY <2>1, <2>2 DEF FactAlike
<1>3. \A f \in F : \A u \in f.seen : \E g \in F : key[g] = f /\ u \in g.seen
  OBVIOUS
<1>. QED
  BY <1>1, <1>2, <1>3 DEF FactsMerged

\* Side by side.
LEMMA FactsBeside ==
  ASSUME NEW now,
         NEW key, NEW F1, NEW F2, FactsMerged(key, F1, F2, now),
         NEW lock, NEW E1, NEW E2, FactsMerged(lock, E1, E2, now),
         F1 \cap E1 = {}, F2 \cap E2 = {}
  PROVE  FactsMerged(Beside(key, lock), F1 \cup E1, F2 \cup E2, now)
<1>1. ASSUME NEW F, NEW E, F \cap E = {}, NEW m
      PROVE  Beside(MeasureOf(F, m), MeasureOf(E, m)) = MeasureOf(F \cup E, m)
  BY <1>1 DEF Beside, MeasureOf
<1>2. \A m : Apart(MeasureOf(F2, m), MeasureOf(F1, m), MeasureOf(E2, m), MeasureOf(E1, m))
  BY MeasureDomains DEF Apart
<1>3. ASSUME NEW m \in Measures
      PROVE  SortsAll(Beside(key, lock), MeasureOf(F2 \cup E2, m), MeasureOf(F1 \cup E1, m))
  <2>1. SortsAll(key, MeasureOf(F2, m), MeasureOf(F1, m))
        /\ SortsAll(lock, MeasureOf(E2, m), MeasureOf(E1, m))
    BY DEF FactsMerged
  <2>2. SortsAll(Beside(key, lock), Beside(MeasureOf(F2, m), MeasureOf(E2, m)),
                 Beside(MeasureOf(F1, m), MeasureOf(E1, m)))
    BY <1>2, <2>1, SortsBeside
  <2>. QED
    BY <1>1, <2>2
<1>4. DOMAIN key = F2 /\ DOMAIN lock = E2
  BY MergedFactsAre
<1>5. /\ \A g \in F2 : Beside(key, lock)[g] = key[g]
      /\ \A g \in E2 : Beside(key, lock)[g] = lock[g]
  BY <1>4 DEF Beside
<1>6. ASSUME NEW g \in F2 \cup E2 PROVE FactAlike(g, Beside(key, lock)[g], now)
  BY <1>5 DEF FactsMerged
<1>7. ASSUME NEW f \in F1 \cup E1, NEW u \in f.seen
      PROVE  \E g \in F2 \cup E2 : Beside(key, lock)[g] = f /\ u \in g.seen
  BY <1>5 DEF FactsMerged
<1>. QED
  BY <1>3, <1>6, <1>7 DEF FactsMerged

\* A part of them.
LEMMA FactsPart ==
  ASSUME NEW now, NEW key, NEW F1, NEW F2, FactsMerged(key, F1, F2, now),
         NEW t, NEW L, Matched(key, F2, F1, t, L)
  PROVE  FactsMerged([g \in t |-> key[g]], L, t, now)
<1>. DEFINE lock == [g \in t |-> key[g]]
<1>1. t \subseteq F2 /\ L \subseteq F1 /\ \A g \in F2 : g \in t <=> key[g] \in L
  BY DEF Matched
<1>2. FactNumbers(F1) /\ FactNumbers(F2) /\ DOMAIN key = F2
  BY MergedFactsAre
<1>3. FactNumbers(t) /\ FactNumbers(L)
  BY <1>1, <1>2, FS_Subset DEF FactNumbers
<1>4. DOMAIN lock = t /\ \A g \in t : lock[g] = key[g] /\ lock[g] \in L
  BY <1>1
<1>5. ASSUME NEW k \in L
      PROVE  {g \in t : lock[g] = k} = {g \in F2 : key[g] = k}
  BY <1>1, <1>4
<1>. HIDE DEF lock
<1>6. ASSUME NEW m \in Measures PROVE SortsAll(lock, MeasureOf(t, m), MeasureOf(L, m))
  <2>1. /\ Numbers(MeasureOf(t, m)) /\ DOMAIN MeasureOf(t, m) = t
        /\ Numbers(MeasureOf(L, m)) /\ DOMAIN MeasureOf(L, m) = L
        /\ Numbers(MeasureOf(F2, m)) /\ DOMAIN MeasureOf(F2, m) = F2
        /\ DOMAIN MeasureOf(F1, m) = F1
    BY <1>2, <1>3, MeasureDomains
  <2>2. ASSUME NEW k \in L
        PROVE  MeasureOf(L, m)[k] = SumOf(MeasureOf(t, m), {g \in t : lock[g] = k})
    <3>. DEFINE S == {g \in F2 : key[g] = k}
    <3>1. MeasureOf(F1, m)[k] = SumOf(MeasureOf(F2, m), S)
      BY <1>1, <2>1 DEF FactsMerged, SortsAll, Sorts
    <3>2. MeasureOf(L, m)[k] = MeasureOf(F1, m)[k]
      BY <1>1 DEF MeasureOf
    <3>3. S \in SUBSET F2 /\ S \subseteq t
      BY <1>1
    <3>. HIDE DEF S
    <3>4. \A g \in S : MeasureOf(t, m)[g] = MeasureOf(F2, m)[g]
      BY <1>1, <3>3 DEF MeasureOf
    <3>5. SumOf(MeasureOf(t, m), S) = SumOf(MeasureOf(F2, m), S)
      BY <2>1, <3>3, <3>4, SumLocal
    <3>. QED
      BY <1>5, <3>1, <3>2, <3>5 DEF S
  <2>. QED
    BY <1>4, <2>1, <2>2 DEF SortsAll, Sorts
<1>7. \A g \in t : FactAlike(g, lock[g], now)
  BY <1>1, <1>4 DEF FactsMerged
<1>8. ASSUME NEW f \in L, NEW u \in f.seen PROVE \E g \in t : lock[g] = f /\ u \in g.seen
  <2>1. PICK g \in F2 : key[g] = f /\ u \in g.seen
    BY <1>1 DEF FactsMerged
  <2>. QED
    BY <1>1, <1>4, <2>1
<1>. QED
  BY <1>6, <1>7, <1>8 DEF FactsMerged, lock

-----------------------------------------------------------------------------
(* The hours of the archive *)
\* Rows with numbers in all columns of a bucket, and the bucket they make.
Columned(S) == IsFiniteSet(S) /\ \A r \in S : \A c \in UsageColumns : Amount(r, c) \in Int
Summed(S)   == [c \in UsageColumns |-> SumOf(ColumnOf(S, c), S)]

\* The columns of rows are numbers, and the hours have their sums.
LEMMA ColumnNumbers ==
  ASSUME NEW S, Columned(S), NEW c \in UsageColumns
  PROVE  /\ Numbers(ColumnOf(S, c)) /\ DOMAIN ColumnOf(S, c) = S
         /\ \A r \in S : ColumnOf(S, c)[r] = Amount(r, c)
BY DEF Columned, Numbers, ColumnOf

LEMMA SummedAre ==
  \A S : /\ Summed(S).input = SumOf(ColumnOf(S, "input"), S)
         /\ Summed(S).output = SumOf(ColumnOf(S, "output"), S)
         /\ Summed(S).tokens_total = SumOf(ColumnOf(S, "tokens_total"), S)
         /\ Summed(S).cache_read = SumOf(ColumnOf(S, "cache_read"), S)
         /\ Summed(S).cache_creation = SumOf(ColumnOf(S, "cache_creation"), S)
         /\ Summed(S).reasoning = SumOf(ColumnOf(S, "reasoning"), S)
         /\ Summed(S).throughput_input = SumOf(ColumnOf(S, "throughput_input"), S)
         /\ Summed(S).requests = SumOf(ColumnOf(S, "requests"), S)
         /\ Summed(S).cost = SumOf(ColumnOf(S, "cost"), S)
         /\ Summed(S).speed_units = SumOf(ColumnOf(S, "speed_units"), S)
         /\ Summed(S).speed_duration = SumOf(ColumnOf(S, "speed_duration"), S)
BY DEF Summed, UsageColumns

\* What is a column of each row is a column of the bucket.
LEMMA SumsColumn ==
  ASSUME NEW S, Columned(S), NEW c \in UsageColumns, NEW G, DOMAIN G = S,
         \A r \in S : G[r] = Amount(r, c)
  PROVE  SumOf(G, S) = SumOf(ColumnOf(S, c), S)
<1>1. Numbers(ColumnOf(S, c)) /\ DOMAIN ColumnOf(S, c) = S
  BY ColumnNumbers
<1>2. \A r \in S : ColumnOf(S, c)[r] = G[r] /\ G[r] \in Int
  BY ColumnNumbers, <1>1 DEF Numbers
<1>3. Numbers(G)
  BY <1>1, <1>2 DEF Numbers
<1>. QED
  BY <1>1, <1>2, <1>3, SumLocal

LEMMA ColumnNames ==
  {"input", "output", "tokens_total", "cache_read", "cache_creation", "reasoning",
   "throughput_input", "requests", "cost", "speed_units", "speed_duration"} \subseteq UsageColumns
BY DEF UsageColumns

CountedOf(S, client, m) == [r \in S |-> Counted(client, ColumnsOf(r), m)]

\* What an hour counts is what its rows count together, for either client.
LEMMA ClaudeAdds ==
  ASSUME NEW S, Columned(S), NEW m \in Measures
  PROVE  SumOf(CountedOf(S, "claude", m), S) = Counted("claude", Summed(S), m)
<1>. DEFINE G(n) == CountedOf(S, "claude", n)
            C(c) == ColumnOf(S, c)
<1>1. \A n : DOMAIN G(n) = S /\ \A r \in S : G(n)[r] = Counted("claude", ColumnsOf(r), n)
  BY DEF CountedOf
<1>2. \A n, c : c \in UsageColumns /\ (\A r \in S : G(n)[r] = Amount(r, c)) =>
        SumOf(G(n), S) = SumOf(C(c), S)
  BY <1>1, SumsColumn
<1>. HIDE DEF G, C
<1>3. /\ SumOf(G("in"), S) = SumOf(C("input"), S)
      /\ SumOf(G("gross"), S) = SumOf(C("input"), S)
      /\ SumOf(G("flow"), S) = SumOf(C("input"), S)
  BY <1>1, <1>2, ColumnNames, CountedOfClaude, ColumnsAre
<1>4. /\ SumOf(G("out"), S) = SumOf(C("output"), S)
      /\ SumOf(G("total"), S) = SumOf(C("tokens_total"), S)
      /\ SumOf(G("read"), S) = SumOf(C("cache_read"), S)
      /\ SumOf(G("creation"), S) = SumOf(C("cache_creation"), S)
  BY <1>1, <1>2, ColumnNames, CountedOfClaude, ColumnsAre
<1>5. /\ SumOf(G("requests"), S) = SumOf(C("requests"), S)
      /\ SumOf(G("cost"), S) = SumOf(C("cost"), S)
      /\ SumOf(G("units"), S) = SumOf(C("speed_units"), S)
      /\ SumOf(G("duration"), S) = SumOf(C("speed_duration"), S)
  BY <1>1, <1>2, ColumnNames, CountedOfClaude, ColumnsAre
<1>6. SumOf(G("denom"), S) = SumOf(C("cache_read"), S) + SumOf(C("cache_creation"), S)
  <2>1. Alongside(C("cache_read"), C("cache_creation")) /\ DOMAIN C("cache_read") = S
    BY ColumnNames, ColumnNumbers DEF Alongside, C
  <2>2. G("denom") = Plus(C("cache_read"), C("cache_creation"))
    <3>1. \A r \in S : /\ C("cache_read")[r] = Amount(r, "cache_read")
                       /\ C("cache_creation")[r] = Amount(r, "cache_creation")
      BY DEF C, ColumnOf
    <3>2. \A r \in S : G("denom")[r] = Amount(r, "cache_read") + Amount(r, "cache_creation")
      BY <1>1, CountedOfClaude, ColumnsAre
    <3>3. G("denom") = [r \in S |-> G("denom")[r]]
      BY DEF G, CountedOf
    <3>. QED
      BY <2>1, <3>1, <3>2, <3>3 DEF Plus
  <2>3. S \in SUBSET DOMAIN C("cache_read")
    BY <2>1
  <2>. QED
    BY <2>1, <2>2, <2>3, SumPlus
<1>7. SumOf(G("written"), S) = 0 /\ SumOf(G("reasoning"), S) = 0
  <2>1. ASSUME NEW n \in {"written", "reasoning"} PROVE SumOf(G(n), S) = 0
    <3>1. \A r \in S : G(n)[r] = 0
      BY <1>1, CountedOfClaude
    <3>2. DOMAIN G(n) = S /\ Numbers(G(n))
      BY <1>1, <3>1 DEF Numbers, Columned
    <3>. QED
      BY <3>1, <3>2, SumOfNothing
  <2>. QED
    BY <2>1
<1>8. SumOf(G(m), S) = Counted("claude", Summed(S), m)
  <2>1. CASE m \in {"in", "gross", "flow", "out", "total"}
    BY <1>3, <1>4, <2>1, CountedOfClaude, SummedAre DEF C
  <2>2. CASE m \in {"read", "creation", "denom", "written", "reasoning"}
    BY <1>4, <1>6, <1>7, <2>2, CountedOfClaude, SummedAre DEF C
  <2>3. CASE m \in {"requests", "cost", "units", "duration"}
    BY <1>5, <2>3, CountedOfClaude, SummedAre DEF C
  <2>. QED
    BY <2>1, <2>2, <2>3 DEF Measures
<1>. QED
  BY <1>8 DEF G

LEMMA CodexAdds ==
  ASSUME NEW S, Columned(S), NEW m \in Measures
  PROVE  SumOf(CountedOf(S, "codex", m), S) = Counted("codex", Summed(S), m)
<1>. DEFINE G(n) == CountedOf(S, "codex", n)
            C(c) == ColumnOf(S, c)
<1>1. \A n : DOMAIN G(n) = S /\ \A r \in S : G(n)[r] = Counted("codex", ColumnsOf(r), n)
  BY DEF CountedOf
<1>2. \A n, c : c \in UsageColumns /\ (\A r \in S : G(n)[r] = Amount(r, c)) =>
        SumOf(G(n), S) = SumOf(C(c), S)
  BY <1>1, SumsColumn
<1>. HIDE DEF G, C
<1>3. /\ SumOf(G("gross"), S) = SumOf(C("input"), S)
      /\ SumOf(G("denom"), S) = SumOf(C("input"), S)
      /\ SumOf(G("flow"), S) = SumOf(C("throughput_input"), S)
      /\ SumOf(G("written"), S) = SumOf(C("cache_creation"), S)
  BY <1>1, <1>2, ColumnNames, CountedOfCodex, ColumnsAre
<1>4. /\ SumOf(G("out"), S) = SumOf(C("output"), S)
      /\ SumOf(G("total"), S) = SumOf(C("tokens_total"), S)
      /\ SumOf(G("read"), S) = SumOf(C("cache_read"), S)
      /\ SumOf(G("creation"), S) = SumOf(C("cache_creation"), S)
  BY <1>1, <1>2, ColumnNames, CountedOfCodex, ColumnsAre
<1>5. /\ SumOf(G("requests"), S) = SumOf(C("requests"), S)
      /\ SumOf(G("reasoning"), S) = SumOf(C("reasoning"), S)
      /\ SumOf(G("units"), S) = SumOf(C("speed_units"), S)
      /\ SumOf(G("duration"), S) = SumOf(C("speed_duration"), S)
  BY <1>1, <1>2, ColumnNames, CountedOfCodex, ColumnsAre
<1>6. SumOf(G("in"), S) =
        (SumOf(C("input"), S) - SumOf(C("cache_read"), S)) - SumOf(C("cache_creation"), S)
  <2>1. /\ Numbers(C("input")) /\ Numbers(C("cache_read")) /\ Numbers(C("cache_creation"))
        /\ DOMAIN C("input") = S /\ DOMAIN C("cache_read") = S /\ DOMAIN C("cache_creation") = S
    BY ColumnNames, ColumnNumbers DEF C
  <2>. DEFINE d == Minus(C("input"), C("cache_read"))
  <2>2. Alongside(C("input"), C("cache_read"))
    BY <2>1 DEF Alongside
  <2>3. Numbers(d) /\ DOMAIN d = S /\ SumOf(d, S) = SumOf(C("input"), S) - SumOf(C("cache_read"), S)
    BY <2>1, <2>2, SumMinus
  <2>4. \A r \in S : d[r] = Amount(r, "input") - Amount(r, "cache_read")
    BY <2>1 DEF C, ColumnOf, Minus
  <2>. HIDE DEF d
  <2>5. Alongside(d, C("cache_creation"))
    BY <2>1, <2>3 DEF Alongside
  <2>6. G("in") = Minus(d, C("cache_creation"))
    <3>1. \A r \in S : C("cache_creation")[r] = Amount(r, "cache_creation")
      BY DEF C, ColumnOf
    <3>2. \A r \in S : G("in")[r] = Amount(r, "input") - Amount(r, "cache_read")
                                      - Amount(r, "cache_creation")
      BY <1>1, CountedOfCodex, ColumnsAre
    <3>3. G("in") = [r \in S |-> G("in")[r]]
      BY DEF G, CountedOf
    <3>. QED
      BY <2>3, <2>4, <3>1, <3>2, <3>3 DEF Minus
  <2>7. S \in SUBSET DOMAIN d
    BY <2>3
  <2>8. SumOf(Minus(d, C("cache_creation")), S) = SumOf(d, S) - SumOf(C("cache_creation"), S)
    BY <2>5, <2>7, SumMinus
  <2>. QED
    BY <2>3, <2>6, <2>8
<1>7. SumOf(G("cost"), S) = 0
  <2>1. \A r \in S : G("cost")[r] = 0
    BY <1>1, CountedOfCodex
  <2>2. DOMAIN G("cost") = S /\ Numbers(G("cost"))
    BY <1>1, <2>1 DEF Numbers, Columned
  <2>. QED
    BY <2>1, <2>2, SumOfNothing
<1>8. SumOf(G(m), S) = Counted("codex", Summed(S), m)
  <2>1. CASE m \in {"in", "gross", "flow", "out", "total"}
    BY <1>3, <1>4, <1>6, <2>1, CountedOfCodex, SummedAre DEF C
  <2>2. CASE m \in {"read", "creation", "denom", "written", "reasoning"}
    BY <1>3, <1>4, <1>5, <2>2, CountedOfCodex, SummedAre DEF C
  <2>3. CASE m \in {"requests", "cost", "units", "duration"}
    BY <1>5, <1>7, <2>3, CountedOfCodex, SummedAre DEF C
  <2>. QED
    BY <2>1, <2>2, <2>3 DEF Measures
<1>. QED
  BY <1>8 DEF G

\* Every row of usage counts in its hour as it does by itself.
LEMMA CountsInHours ==
  ASSUME NEW S, Summable(S), NEW r \in UsageRows(S)
  PROVE  CountsAs(r, Client(r))
<1>1. CASE r.table = "token_usage"
  <2>1. Client(r) = "claude"
    BY <1>1 DEF Client, ClaudeTables
  <2>. QED
    BY <1>1, <2>1, UsageTables, UsageCounts DEF Summable
<1>2. CASE r.table = "cost_usage"
  <2>1. Client(r) = "claude"
    BY <1>2 DEF Client, ClaudeTables
  <2>. QED
    BY <1>2, <2>1, CostCounts
<1>3. CASE r.table = "api_request"
  <2>1. Client(r) = "claude"
    BY <1>3 DEF Client, ClaudeTables
  <2>. QED
    BY <1>3, <2>1, UsageTables, CallCounts DEF Summable
<1>4. CASE r.table = "response_tbt"
  <2>1. Client(r) = "codex"
    BY <1>4 DEF Client, ClaudeTables
  <2>. QED
    BY <1>4, <2>1, UsageTables, SpeedCounts DEF Summable
<1>5. CASE r.table = "codex_token_usage"
  <2>1. Client(r) = "codex"
    BY <1>5 DEF Client, ClaudeTables
  <2>. QED
    BY <1>5, <2>1, UsageTables, ResponseCounts DEF Summable
<1>. QED
  BY <1>1, <1>2, <1>3, <1>4, <1>5, UsageTables

\* What a row adds are numbers.
LEMMA AmountNumbers ==
  ASSUME NEW S, Summable(S), NEW r \in UsageRows(S), NEW c
  PROVE  Amount(r, c) \in Int
<1>1. CASE r.table = "token_usage"
  <2>1. Adds(r) = [x \in {"tokens_total"} \cup OfType(TypeColumns, r.type) |-> r.value] ++
                    [token_rows |-> 1]
    BY <1>1 DEF Adds
  <2>2. Amount(r, c) \in {0, 1, r.value}
    BY <2>1 DEF Amount, ++
  <2>. QED
    BY <1>1, <2>2, UsageTables DEF Summable
<1>2. CASE r.table = "cost_usage"
  <2>1. Adds(r) = [cost |-> r.value]
    BY <1>2 DEF Adds
  <2>2. Amount(r, c) \in {0, r.value}
    BY <2>1 DEF Amount
  <2>. QED
    BY <1>2, <2>2, UsageTables DEF Summable
<1>3. CASE r.table = "api_request"
  <2>1. Amount(r, c) \in {0, 1, r.output, r.duration}
    <3>0. Adds(r) = [requests |-> 1] ++
             (IF Measured(r) THEN [speed_units |-> r.output, speed_duration |-> r.duration]
              ELSE <<>>)
      BY <1>3 DEF Adds
    <3>1. CASE Measured(r)
      <4>1. Adds(r) = [requests |-> 1] ++ [speed_units |-> r.output, speed_duration |-> r.duration]
        BY <3>0, <3>1
      <4>. QED
        BY <4>1 DEF Amount, ++
    <3>2. CASE ~Measured(r)
      <4>1. Adds(r) = [requests |-> 1] ++ <<>>
        BY <3>0, <3>2
      <4>. QED
        BY <4>1 DEF Amount, ++
    <3>. QED
      BY <3>1, <3>2
  <2>. QED
    BY <1>3, <2>1, UsageTables DEF Summable
<1>4. CASE r.table = "response_tbt"
  <2>1. Amount(r, c) \in {0, r.samples, r.sum}
    <3>0. Adds(r) = IF Measured(r) THEN [speed_units |-> r.samples, speed_duration |-> r.sum]
                    ELSE <<>>
      BY <1>4 DEF Adds
    <3>1. CASE Measured(r)
      <4>1. Adds(r) = [speed_units |-> r.samples, speed_duration |-> r.sum]
        BY <3>0, <3>1
      <4>. QED
        BY <4>1 DEF Amount
    <3>2. CASE ~Measured(r)
      <4>1. Adds(r) = <<>>
        BY <3>0, <3>2
      <4>. QED
        BY <4>1 DEF Amount
    <3>. QED
      BY <3>1, <3>2
  <2>. QED
    BY <1>4, <2>1, UsageTables DEF Summable
<1>5. CASE r.table = "codex_token_usage"
  <2>1. Amount(r, c) \in {0, 1, r.input + r.output, r.input, r.output, OrZero(r.cached),
                          OrZero(r.write), OrZero(r.reasoning), Positive(Uncached(r)),
                          Present(r.cached), Present(r.write), Present(r.reasoning)}
    BY <1>5 DEF Adds, Amount
  <2>2. Present(r.cached) \in Int /\ Present(r.write) \in Int /\ Present(r.reasoning) \in Int
    BY DEF Present
  <2>3. /\ r.input \in Int /\ r.output \in Int /\ OrZero(r.cached) \in Int
        /\ OrZero(r.write) \in Int /\ OrZero(r.reasoning) \in Int
    BY <1>5, UsageTables DEF Summable
  <2>4. Positive(Uncached(r)) \in Int
    BY <2>3 DEF Positive, Uncached
  <2>. QED
    BY <2>1, <2>2, <2>3, <2>4
<1>. QED
  BY <1>1, <1>2, <1>3, <1>4, <1>5, UsageTables

\* The fact of a row is a plain one, with numbers.
LEMMA RawFactFields ==
  \A r : /\ RawFact(r).ts = r.ts /\ RawFact(r).client = Client(r) /\ RawFact(r).model = r.model
         /\ FromRow(RawFact(r)) /\ RawFact(r).id = <<r.row, "">>
         /\ RawFact(r).seen = IF r.table \in {"cost_usage", "response_tbt"} THEN {} ELSE {r.ts}
BY DEF RawFact, Fact, FromRow

\* Measures are numbers, and there are two clients.
LEMMA CountedNumbers ==
  ASSUME NEW client \in {"claude", "codex"}, NEW c,
         \A x \in {c.input, c.output, c.tokens_total, c.cache_read, c.cache_creation, c.reasoning,
                   c.throughput_input, c.requests, c.cost, c.speed_units, c.speed_duration} :
           x \in Int,
         NEW m \in Measures
  PROVE  Counted(client, c, m) \in Int
<1>1. CASE client = "claude"
  BY <1>1, CountedOfClaude DEF Measures
<1>2. CASE client = "codex"
  BY <1>2, CountedOfCodex DEF Measures
<1>. QED
  BY <1>1, <1>2

LEMMA ClientIs == \A r : Client(r) \in {"claude", "codex"}
  BY DEF Client

\* The fact of a row.
LEMMA RawFactIsPlain ==
  ASSUME NEW S, Summable(S), NEW r \in UsageRows(S), r.ts \in Int
  PROVE  /\ PlainFact(RawFact(r))
         /\ \A m \in Measures : RawFact(r).amount[m] \in Int
<1>1. CountsAs(r, Client(r))
  BY CountsInHours
<1>2. ASSUME NEW m \in Measures PROVE RawFact(r).amount[m] \in Int
  <2>1. \A x \in {ColumnsOf(r).input, ColumnsOf(r).output, ColumnsOf(r).tokens_total,
                  ColumnsOf(r).cache_read, ColumnsOf(r).cache_creation, ColumnsOf(r).reasoning,
                  ColumnsOf(r).throughput_input, ColumnsOf(r).requests, ColumnsOf(r).cost,
                  ColumnsOf(r).speed_units, ColumnsOf(r).speed_duration} : x \in Int
    BY ColumnsAre, AmountNumbers
  <2>2. Counted(Client(r), ColumnsOf(r), m) \in Int
    BY <2>1, ClientIs, CountedNumbers
  <2>. QED
    BY <1>1, <2>2 DEF CountsAs
<1>3. /\ Requests(RawFact(r)) = Amount(r, "requests")
      /\ Units(RawFact(r)) = Amount(r, "speed_units")
      /\ Duration(RawFact(r)) = Amount(r, "speed_duration")
  <2>1. {"requests", "units", "duration"} \subseteq Measures
    BY DEF Measures
  <2>2. CASE Client(r) = "claude"
    BY <1>1, <2>1, <2>2, CountedOfClaude, ColumnsAre DEF CountsAs, Requests, Units, Duration
  <2>3. CASE Client(r) = "codex"
    BY <1>1, <2>1, <2>3, CountedOfCodex, ColumnsAre DEF CountsAs, Requests, Units, Duration
  <2>. QED
    BY <2>2, <2>3, ClientIs
<1>4. r.table \in {"cost_usage", "response_tbt"} => Amount(r, "requests") = 0
  BY DEF Amount, Adds
<1>5. \/ Amount(r, "speed_units") > 0 /\ Amount(r, "speed_duration") > 0
      \/ Amount(r, "speed_units") = 0 /\ Amount(r, "speed_duration") = 0
  <2>1. CASE r.table = "token_usage"
    <3>1. Adds(r) = [x \in {"tokens_total"} \cup OfType(TypeColumns, r.type) |-> r.value] ++
                      [token_rows |-> 1]
      BY <2>1 DEF Adds
    <3>2. /\ "speed_units" \notin OfType(TypeColumns, r.type)
          /\ "speed_duration" \notin OfType(TypeColumns, r.type)
      BY DEF OfType, TypeColumns
    <3>. QED
      BY <3>1, <3>2 DEF Amount, ++
  <2>2. CASE r.table \in {"cost_usage", "codex_token_usage"}
    BY <2>2 DEF Amount, Adds
  <2>3. CASE r.table = "api_request"
    <3>0. Adds(r) = [requests |-> 1] ++
             (IF Measured(r) THEN [speed_units |-> r.output, speed_duration |-> r.duration]
              ELSE <<>>)
      BY <2>3 DEF Adds
    <3>1. CASE Measured(r)
      <4>1. Adds(r) = [requests |-> 1] ++ [speed_units |-> r.output, speed_duration |-> r.duration]
        BY <3>0, <3>1
      <4>. QED
        BY <2>3, <3>1, <4>1 DEF Amount, ++, Measured
    <3>2. CASE ~Measured(r)
      <4>1. Adds(r) = [requests |-> 1] ++ <<>>
        BY <3>0, <3>2
      <4>. QED
        BY <4>1 DEF Amount, ++
    <3>. QED
      BY <3>1, <3>2
  <2>4. CASE r.table = "response_tbt"
    <3>0. Adds(r) = IF Measured(r) THEN [speed_units |-> r.samples, speed_duration |-> r.sum]
                    ELSE <<>>
      BY <2>4 DEF Adds
    <3>1. CASE Measured(r)
      <4>1. Adds(r) = [speed_units |-> r.samples, speed_duration |-> r.sum]
        BY <3>0, <3>1
      <4>2. r.table # "api_request"
        BY <2>4
      <4>3. r.samples > 0 /\ r.sum > 0
        BY <3>1, <4>2 DEF Measured
      <4>4. Amount(r, "speed_units") = r.samples /\ Amount(r, "speed_duration") = r.sum
        BY <4>1 DEF Amount
      <4>. QED
        BY <4>3, <4>4
    <3>2. CASE ~Measured(r)
      <4>1. Adds(r) = <<>>
        BY <3>0, <3>2
      <4>. QED
        BY <4>1 DEF Amount
    <3>. QED
      BY <3>1, <3>2
  <2>. QED
    BY <2>1, <2>2, <2>3, <2>4, UsageTables
<1>. DEFINE f == RawFact(r)
<1>6. f.ts \in Int /\ FromRow(f) /\ f.seen \subseteq {f.ts}
  BY RawFactFields
<1>7. f.seen = {} => Requests(f) = 0
  <2>1. f.seen = {} => r.table \in {"cost_usage", "response_tbt"}
    BY RawFactFields
  <2>. HIDE DEF f
  <2>. QED
    BY <1>3, <1>4, <2>1 DEF f
<1>8. Paced(f)
  <2>1. Amount(r, "speed_units") \in Int /\ Amount(r, "speed_duration") \in Int
    BY AmountNumbers
  <2>2. Units(f) = Amount(r, "speed_units") /\ Duration(f) = Amount(r, "speed_duration")
    BY <1>3
  <2>. HIDE DEF f
  <2>. QED
    BY <1>5, <2>1, <2>2 DEF Paced
<1>. HIDE DEF f
<1>9. PlainFact(f)
  BY <1>6, <1>7, <1>8 DEF PlainFact
<1>. QED
  BY <1>2, <1>9 DEF f

\* Rows with the numbers and times of facts, told apart by their names.
Factual(S) ==
  /\ IsFiniteSet(S) /\ Summable(S)
  /\ \A r \in S : r.ts \in Int
  /\ \A r, s \in S : r.row = s.row => r = s

RawFacts(S) == {RawFact(r) : r \in UsageRows(S)}

\* Different rows are different facts.
LEMMA RawFactNames ==
  ASSUME NEW S, Factual(S), NEW r \in S, NEW s \in S, RawFact(r).id = RawFact(s).id
  PROVE  r = s
<1>1. <<r.row, "">> = <<s.row, "">>
  BY RawFactFields
<1>2. r.row = s.row
  BY <1>1
<1>. QED
  BY <1>2 DEF Factual

LEMMA UsageIsFinite ==
  ASSUME NEW S, IsFiniteSet(S)
  PROVE  IsFiniteSet(UsageRows(S)) /\ UsageRows(S) \subseteq S
<1>1. UsageRows(S) \subseteq S
  BY UsageTables
<1>. QED
  BY <1>1, FS_Subset

LEMMA RawFactsAre ==
  ASSUME NEW S, Factual(S)
  PROVE  FactNumbers(RawFacts(S)) /\ \A f \in RawFacts(S) : PlainFact(f)
<1>. DEFINE V == UsageRows(S)
<1>1. IsFiniteSet(V) /\ \A r \in V : r.ts \in Int
  BY UsageIsFinite DEF Factual
<1>2. IsFiniteSet(RawFacts(S))
  <2>1. IsFiniteSet({[r \in V |-> RawFact(r)][x] : x \in V})
    BY <1>1, FiniteValues
  <2>. HIDE DEF V
  <2>2. {[r \in V |-> RawFact(r)][x] : x \in V} = {RawFact(r) : r \in V}
    OBVIOUS
  <2>. QED
    BY <2>1, <2>2 DEF RawFacts, V
<1>3. \A r \in V : PlainFact(RawFact(r)) /\ \A m \in Measures : RawFact(r).amount[m] \in Int
  BY <1>1, RawFactIsPlain DEF Factual
<1>. QED
  BY <1>2, <1>3 DEF FactNumbers, RawFacts

\* The fact of a bucket.
HourFact(k, H, A) == ArchiveFact(k, H[k], LastSeen(A, k))

\* The fact of an hour, and the hour of a row.
LEMMA HourFactIs ==
  \A k, H, A : /\ HourFact(k, H, A).ts = k.bucket /\ HourFact(k, H, A).client = k.client
               /\ HourFact(k, H, A).model = k.model /\ ~FromRow(HourFact(k, H, A))
               /\ HourFact(k, H, A).seen =
                    IF LastSeen(A, k) = {} THEN {} ELSE {Latest(LastSeen(A, k))}
               /\ \A m \in Measures :
                    HourFact(k, H, A).amount[m] = Counted(k.client, H[k], m)
BY DEF HourFact, ArchiveFact, Fact, FromRow, Counted

LEMMA UsageKeyIs ==
  \A r : /\ UsageKey(r).bucket = TheHour(r.ts) /\ UsageKey(r).client = Client(r)
         /\ UsageKey(r).model = r.model
BY DEF UsageKey

\* A bucket has the sums of its rows.
LEMMA BucketIs ==
  ASSUME NEW A, Factual(A), NEW H, H = UsageHourly(A), NEW k \in DOMAIN H,
         NEW own, own = {r \in UsageRows(A) : UsageKey(r) = k}
  PROVE  /\ H[k] = Summed(own) /\ Columned(own) /\ own \subseteq UsageRows(A)
         /\ DOMAIN H = {UsageKey(r) : r \in UsageRows(A)}
<1>1. IsFiniteSet(own)
  BY UsageIsFinite, FS_Subset DEF Factual
<1>2. DOMAIN H = {UsageKey(r) : r \in UsageRows(A)}
  BY DEF UsageHourly
<1>3. H[k] = [c \in UsageColumns |-> Total(LAMBDA r : Amount(r, c), own)]
  BY DEF UsageHourly
<1>4. \A c : Total(LAMBDA r : Amount(r, c), own) = SumOf(ColumnOf(own, c), own)
  BY <1>1, TotalColumn
<1>5. H[k] = Summed(own)
  BY <1>3, <1>4 DEF Summed
<1>6. Columned(own)
  BY <1>1, AmountNumbers DEF Columned, Factual
<1>. QED
  BY <1>2, <1>5, <1>6

\* What an hour counts is a number.
LEMMA SummedNumbers ==
  ASSUME NEW S, Columned(S), NEW client \in {"claude", "codex"}, NEW m \in Measures
  PROVE  /\ Counted(client, Summed(S), m) \in Int
         /\ SumOf(CountedOf(S, client, m), S) = Counted(client, Summed(S), m)
<1>1. \A c \in UsageColumns : SumOf(ColumnOf(S, c), S) \in Int
  BY ColumnNumbers, SumType
<1>2. Counted(client, Summed(S), m) \in Int
  <2>1. /\ Summed(S).input \in Int /\ Summed(S).output \in Int /\ Summed(S).tokens_total \in Int
        /\ Summed(S).cache_read \in Int /\ Summed(S).cache_creation \in Int
        /\ Summed(S).reasoning \in Int /\ Summed(S).throughput_input \in Int
        /\ Summed(S).requests \in Int /\ Summed(S).cost \in Int
        /\ Summed(S).speed_units \in Int /\ Summed(S).speed_duration \in Int
    BY <1>1, SummedAre, ColumnNames
  <2>. QED
    BY <2>1, CountedNumbers
<1>. QED
  BY <1>2, ClaudeAdds, CodexAdds

\* When the models of a bucket were last seen.
LEMMA LastSeenIs ==
  ASSUME NEW A, Factual(A), NEW k
  PROVE  /\ IsFiniteSet(LastSeen(A, k)) /\ LastSeen(A, k) \subseteq Int
         /\ \A t : t \in LastSeen(A, k) <=>
              \E r \in UsageRows(A) : UsageKey(r) = k /\ t \in RawFact(r).seen
<1>. DEFINE S == {r \in UsageRows(A) : UsageKey(r) = k
              /\ r.table \notin {"cost_usage", "response_tbt"}}
<1>1. S \subseteq A
  BY UsageTables
<1>2. IsFiniteSet(S) /\ \A r \in S : r.ts \in Int
  BY <1>1, FS_Subset DEF Factual
<1>3. LastSeen(A, k) = {r.ts : r \in S}
  BY DEF LastSeen
<1>. HIDE DEF S
<1>4. IsFiniteSet(LastSeen(A, k)) /\ LastSeen(A, k) \subseteq Int
  BY <1>2, <1>3, TimesOf
<1>5. ASSUME NEW t PROVE t \in LastSeen(A, k) <=>
              \E r \in UsageRows(A) : UsageKey(r) = k /\ t \in RawFact(r).seen
  <2>1. \A r : t \in RawFact(r).seen <=> r.table \notin {"cost_usage", "response_tbt"} /\ t = r.ts
    BY RawFactFields
  <2>. QED
    BY <1>3, <2>1 DEF S
<1>. QED
  BY <1>4, <1>5

\* Rows sorted into buckets, and the numbers of facts.
LEMMA HoursSort ==
  ASSUME NEW A, Factual(A), NEW H, H = UsageHourly(A), NEW m \in Measures,
         NEW V, V = UsageRows(A)
  PROVE  SortsAll([r \in V |-> UsageKey(r)], [r \in V |-> RawFact(r).amount[m]],
                  [k \in DOMAIN H |-> HourFact(k, H, A).amount[m]])
<1>. DEFINE ukey   == [r \in V |-> UsageKey(r)]
            g      == [r \in V |-> RawFact(r).amount[m]]
            q      == [k \in DOMAIN H |-> HourFact(k, H, A).amount[m]]
            Own(k) == {r \in V : UsageKey(r) = k}
<1>1. IsFiniteSet(V) /\ V \subseteq A
  BY UsageIsFinite DEF Factual
<1>2. \A r \in V : RawFact(r).amount[m] \in Int /\ CountsAs(r, Client(r))
  BY <1>1, RawFactIsPlain, CountsInHours DEF Factual
<1>3. Numbers(g) /\ DOMAIN g = V
  BY <1>1, <1>2 DEF Numbers
<1>4. DOMAIN H = {UsageKey(r) : r \in V}
  BY DEF UsageHourly
<1>5. IsFiniteSet(DOMAIN H)
  <2>1. IsFiniteSet({ukey[x] : x \in V})
    BY <1>1, FiniteValues
  <2>2. {ukey[x] : x \in V} = {UsageKey(r) : r \in V}
    OBVIOUS
  <2>. QED
    BY <1>4, <2>1, <2>2
<1>6. ASSUME NEW k \in DOMAIN H
      PROVE  q[k] \in Int /\ q[k] = SumOf(g, Own(k))
  <2>. DEFINE own == Own(k)
  <2>1. H[k] = Summed(own) /\ Columned(own) /\ own \subseteq V
    BY BucketIs
  <2>2. k.client \in {"claude", "codex"}
    BY <1>4, UsageKeyIs, ClientIs
  <2>3. q[k] = Counted(k.client, Summed(own), m)
    BY <2>1, HourFactIs
  <2>4. \A r \in own : Client(r) = k.client /\ r \in V
    BY UsageKeyIs
  <2>. HIDE DEF own
  <2>5. /\ Counted(k.client, Summed(own), m) \in Int
        /\ SumOf(CountedOf(own, k.client, m), own) = Counted(k.client, Summed(own), m)
    BY <2>1, <2>2, SummedNumbers
  <2>6. \A r \in own : g[r] = CountedOf(own, k.client, m)[r]
    BY <1>2, <2>4 DEF CountsAs, CountedOf
  <2>7. DOMAIN CountedOf(own, k.client, m) = own /\ IsFiniteSet(own)
    BY <2>1 DEF CountedOf, Columned
  <2>8. Numbers(CountedOf(own, k.client, m))
    BY <1>2, <2>4, <2>6, <2>7 DEF Numbers
  <2>. HIDE DEF g
  <2>9. SumOf(CountedOf(own, k.client, m), own) = SumOf(g, own)
    BY <1>3, <2>1, <2>6, <2>7, <2>8, SumLocal
  <2>. QED
    BY <2>3, <2>5, <2>9 DEF own
<1>7. Numbers(q) /\ DOMAIN q = DOMAIN H
  BY <1>5, <1>6 DEF Numbers
<1>8. \A k \in DOMAIN H : {r \in V : ukey[r] = k} = Own(k)
  OBVIOUS
<1>9. DOMAIN ukey = V /\ \A r \in V : ukey[r] \in DOMAIN H
  BY <1>4
<1>. HIDE DEF ukey, g, q, Own
<1>10. SortsAll(ukey, g, q)
  BY <1>3, <1>6, <1>7, <1>8, <1>9 DEF SortsAll, Sorts
<1>. QED
  BY <1>10 DEF ukey, g, q

\* The archived hours are what the rows archived come to.
LEMMA HourFactsMerged ==
  ASSUME NEW A, NEW now, Factual(A), \A r \in A : Past(r.ts, now), NEW H, H = UsageHourly(A)
  PROVE  \E key : FactsMerged(key, ArchiveFacts(H, A), RawFacts(A), now)
<1>. DEFINE V  == UsageRows(A)
            F2 == RawFacts(A)
            F1 == ArchiveFacts(H, A)
            b  == [r \in V |-> RawFact(r)]
            a  == [k \in DOMAIN H |-> HourFact(k, H, A)]
            ukey == [r \in V |-> UsageKey(r)]
            key  == Relabelled(b, a, ukey)
<1>1. V \subseteq A
  BY UsageTables
<1>2. \A r, s \in V : b[r] = b[s] => r = s
  <2>1. \A r, s \in V : RawFact(r) = RawFact(s) => r = s
    BY <1>1, RawFactNames
  <2>. QED
    BY <2>1
<1>3. DOMAIN H = {UsageKey(r) : r \in V}
  BY DEF UsageHourly
<1>4. \A k, l \in DOMAIN H : a[k] = a[l] => k = l
  <2>1. \A k \in DOMAIN H : k = [bucket |-> k.bucket, client |-> k.client, model |-> k.model]
    BY <1>3 DEF UsageKey
  <2>2. \A k, l \in DOMAIN H : a[k] = a[l] =>
          k.bucket = l.bucket /\ k.client = l.client /\ k.model = l.model
    <3>1. \A k, l \in DOMAIN H : HourFact(k, H, A) = HourFact(l, H, A) =>
            k.bucket = l.bucket /\ k.client = l.client /\ k.model = l.model
      BY HourFactIs
    <3>. QED
      BY <3>1
  <2>. QED
    BY <2>1, <2>2
<1>5. F2 = Image(b, V) /\ DOMAIN b = V
  BY DEF RawFacts, Image
<1>6. F1 = Image(a, DOMAIN H) /\ DOMAIN a = DOMAIN H
  BY DEF ArchiveFacts, Image, HourFact
<1>7. /\ \A r \in V : b[r] \in F2 /\ b[r] = RawFact(r) /\ ukey[r] = UsageKey(r)
                      /\ UsageKey(r) \in DOMAIN H
      /\ \A k \in DOMAIN H : a[k] \in F1 /\ a[k] = HourFact(k, H, A)
  BY <1>3, <1>5, <1>6 DEF Image
<1>8. \A f \in F2 : \E r \in V : f = RawFact(r)
  BY DEF RawFacts
<1>9. \A f \in F1 : \E k \in DOMAIN H : f = HourFact(k, H, A)
  BY DEF ArchiveFacts, HourFact
<1>10. \A m \in Measures :
         SortsAll(ukey, [r \in V |-> RawFact(r).amount[m]],
                  [k \in DOMAIN H |-> HourFact(k, H, A).amount[m]])
  BY HoursSort
<1>. HIDE DEF V, F1, F2, b, a, ukey
<1>11. \A r \in V : key[RawFact(r)] = HourFact(UsageKey(r), H, A)
  <2>1. \A r \in DOMAIN b : key[b[r]] = a[ukey[r]]
    BY <1>2, <1>5, RelabelledIs
  <2>. QED
    BY <1>5, <1>7, <2>1
<1>. HIDE DEF key
<1>12. ASSUME NEW m \in Measures PROVE SortsAll(key, MeasureOf(F2, m), MeasureOf(F1, m))
  <2>. DEFINE g == [r \in V |-> RawFact(r).amount[m]]
              q == [k \in DOMAIN H |-> HourFact(k, H, A).amount[m]]
  <2>1. Names(b, g, MeasureOf(F2, m))
    <3>1. DOMAIN MeasureOf(F2, m) = F2 /\ \A f \in F2 : MeasureOf(F2, m)[f] = f.amount[m]
      BY MeasureDomains
    <3>. QED
      BY <1>2, <1>5, <1>7, <3>1 DEF Names
  <2>2. Names(a, q, MeasureOf(F1, m))
    <3>1. DOMAIN MeasureOf(F1, m) = F1 /\ \A f \in F1 : MeasureOf(F1, m)[f] = f.amount[m]
      BY MeasureDomains
    <3>. QED
      BY <1>4, <1>6, <1>7, <3>1 DEF Names
  <2>3. SortsAll(ukey, g, q)
    BY <1>10
  <2>. HIDE DEF g, q
  <2>. QED
    BY <2>1, <2>2, <2>3, SortsRenamed DEF key
<1>13. ASSUME NEW g \in F2 PROVE FactAlike(g, key[g], now)
  <2>1. PICK r \in V : g = RawFact(r)
    BY <1>8
  <2>. DEFINE k == UsageKey(r)
              f == HourFact(k, H, A)
  <2>2. key[g] = f
    BY <1>11, <2>1
  <2>3. r.ts \in Int /\ Past(r.ts, now)
    BY <1>1 DEF Factual
  <2>4. PlainFact(g)
    BY <2>1, <2>3, RawFactIsPlain DEF V, Factual
  <2>5. f.client = g.client /\ f.model = g.model /\ ~FromRow(f) /\ f.ts = TheHour(r.ts)
          /\ g.ts = r.ts
    <3>1. f.client = k.client /\ f.model = k.model /\ ~FromRow(f) /\ f.ts = k.bucket
      BY HourFactIs
    <3>2. k.client = Client(r) /\ k.model = r.model /\ k.bucket = TheHour(r.ts)
      BY UsageKeyIs
    <3>3. g.client = Client(r) /\ g.model = r.model /\ g.ts = r.ts
      BY <2>1, RawFactFields
    <3>. QED
      BY <3>1, <3>2, <3>3
  <2>6. ASSUME NEW t \in g.seen PROVE \E u \in f.seen : t <= u
    <3>1. t \in LastSeen(A, k)
      BY <2>1, LastSeenIs DEF V
    <3>2. IsFiniteSet(LastSeen(A, k)) /\ LastSeen(A, k) \subseteq Int
      BY LastSeenIs
    <3>3. t <= Latest(LastSeen(A, k))
      BY <3>1, <3>2, LatestOf
    <3>4. f.seen = {Latest(LastSeen(A, k))}
      BY <3>1, HourFactIs
    <3>. QED
      BY <3>3, <3>4
  <2>7. f.source # "legacy" /\ g.source # "legacy"
    <3>1. f.source = "archive"
      BY HourFactIs DEF FromRow
    <3>2. g.source = "raw"
      BY <2>1 DEF RawFact, Fact
    <3>. QED
      BY <3>1, <3>2
  <2>. HIDE DEF f
  <2>8. FactAlike(g, f, now)
    BY <2>3, <2>4, <2>5, <2>6, <2>7 DEF FactAlike
  <2>. QED
    BY <2>2, <2>8
<1>14. ASSUME NEW f \in F1, NEW u \in f.seen PROVE \E g \in F2 : key[g] = f /\ u \in g.seen
  <2>1. PICK k \in DOMAIN H : f = HourFact(k, H, A)
    BY <1>9
  <2>2. LastSeen(A, k) # {} /\ u = Latest(LastSeen(A, k))
    BY <2>1, HourFactIs
  <2>3. u \in LastSeen(A, k)
    BY <2>2, LastSeenIs, LatestOf
  <2>4. PICK r \in V : UsageKey(r) = k /\ u \in RawFact(r).seen
    BY <2>3, LastSeenIs DEF V
  <2>. QED
    BY <1>7, <1>11, <2>1, <2>4
<1>15. FactsMerged(key, F1, F2, now)
  BY <1>12, <1>13, <1>14 DEF FactsMerged
<1>. QED
  BY <1>15 DEF F1, F2

-----------------------------------------------------------------------------
(* The facts of costs *)
CostFacts(C) == {CostFact(c) : c \in C}

\* What a fact of a cost has.
LEMMA CostFactIs ==
  \A c : /\ CostFact(c).ts = c.ts /\ CostFact(c).model = c.model /\ CostFact(c).client = "codex"
         /\ CostFact(c).source = c.source /\ CostFact(c).seen = {}
         /\ CostFact(c).id = <<c.row, c.session>>
         /\ CostFact(c).amount["cost"] = c.cost
         /\ \A m \in Measures : m # "cost" => CostFact(c).amount[m] = 0
BY DEF CostFact, Fact, Measures

\* Costs told apart by their facts.
Distinct(C) == \A c, e \in C : CostFact(c) = CostFact(e) => c = e
Unarchived(C) == \A c \in C : c.source # "archive"

\* Costs that are merged are facts that are merged.
LEMMA CostFactsMerged ==
  ASSUME NEW key, NEW C1, NEW C2, NEW now, CostsMerged(key, C1, C2, now),
         Distinct(C1), Distinct(C2), Unarchived(C2)
  PROVE  \E lock : FactsMerged(lock, CostFacts(C1), CostFacts(C2), now)
<1>. DEFINE F1 == CostFacts(C1)
            F2 == CostFacts(C2)
            b  == [c \in C2 |-> CostFact(c)]
            a  == [c \in C1 |-> CostFact(c)]
            lock == Relabelled(b, a, key)
<1>0. /\ DOMAIN key = C2 /\ \A c \in C2 : key[c] \in C1
      /\ CostNumbers(C1) /\ CostNumbers(C2)
  BY MergedCostsAre
<1>1. \A c, e \in C2 : b[c] = b[e] => c = e
  BY DEF Distinct
<1>2. \A c, e \in C1 : a[c] = a[e] => c = e
  BY DEF Distinct
<1>3. F2 = Image(b, C2) /\ DOMAIN b = C2
  BY DEF CostFacts, Image
<1>4. F1 = Image(a, C1) /\ DOMAIN a = C1
  BY DEF CostFacts, Image
<1>5. /\ \A c \in C2 : b[c] \in F2 /\ b[c] = CostFact(c)
      /\ \A c \in C1 : a[c] \in F1 /\ a[c] = CostFact(c)
      /\ \A f \in F2 : \E c \in C2 : f = CostFact(c)
      /\ \A f \in F1 : \E c \in C1 : f = CostFact(c)
  BY DEF CostFacts
<1>. HIDE DEF F1, F2, b, a
<1>6. \A c \in C2 : lock[CostFact(c)] = CostFact(key[c])
  <2>1. \A c \in DOMAIN b : lock[b[c]] = a[key[c]]
    BY <1>1, <1>3, RelabelledIs
  <2>. QED
    BY <1>0, <1>3, <1>5, <2>1
<1>. HIDE DEF lock
<1>7. ASSUME NEW m \in Measures PROVE SortsAll(lock, MeasureOf(F2, m), MeasureOf(F1, m))
  <2>. DEFINE g == [c \in C2 |-> CostFact(c).amount[m]]
              q == [c \in C1 |-> CostFact(c).amount[m]]
  <2>1. Names(b, g, MeasureOf(F2, m))
    <3>1. DOMAIN MeasureOf(F2, m) = F2 /\ \A f \in F2 : MeasureOf(F2, m)[f] = f.amount[m]
      BY MeasureDomains
    <3>. QED
      BY <1>1, <1>3, <1>5, <3>1 DEF Names
  <2>2. Names(a, q, MeasureOf(F1, m))
    <3>1. DOMAIN MeasureOf(F1, m) = F1 /\ \A f \in F1 : MeasureOf(F1, m)[f] = f.amount[m]
      BY MeasureDomains
    <3>. QED
      BY <1>2, <1>4, <1>5, <3>1 DEF Names
  <2>3. SortsAll(key, g, q)
    <3>1. CASE m = "cost"
      <4>1. g = Costs(C2) /\ q = Costs(C1)
        BY <3>1, CostFactIs DEF Costs
      <4>. QED
        BY <4>1 DEF CostsMerged
    <3>2. CASE m # "cost"
      <4>1. /\ \A c \in C2 : g[c] = 0
            /\ \A c \in C1 : q[c] = 0
        BY <3>2, CostFactIs
      <4>2. DOMAIN g = C2 /\ DOMAIN q = C1 /\ IsFiniteSet(C2) /\ IsFiniteSet(C1)
        BY <1>0 DEF CostNumbers
      <4>. HIDE DEF g, q
      <4>. QED
        BY <1>0, <4>1, <4>2, SortsNothing
    <3>. QED
      BY <3>1, <3>2
  <2>. HIDE DEF g, q
  <2>. QED
    BY <2>1, <2>2, <2>3, SortsRenamed DEF lock
<1>8. ASSUME NEW g \in F2 PROVE FactAlike(g, lock[g], now)
  <2>1. PICK c \in C2 : g = CostFact(c)
    BY <1>5
  <2>. DEFINE e == key[c]
              f == CostFact(e)
  <2>2. lock[g] = f
    BY <1>6, <2>1
  <2>3. CostAlike(c, e, now)
    BY DEF CostsMerged
  <2>. HIDE DEF e
  <2>4. g.ts = c.ts /\ g.model = c.model /\ g.client = f.client /\ g.seen = {}
        /\ f.ts = e.ts /\ f.model = e.model
    BY <2>1, CostFactIs
  <2>5. PlainFact(g)
    <3>1. FromRow(g)
      BY <2>1, CostFactIs DEF Unarchived, FromRow
    <3>2. {"requests", "units", "duration"} \subseteq Measures
      BY DEF Measures
    <3>3. Requests(g) = 0 /\ Units(g) = 0 /\ Duration(g) = 0
      BY <2>1, <3>2, CostFactIs DEF Requests, Units, Duration
    <3>4. g.ts \in Int
      BY <2>3, <2>4 DEF CostAlike
    <3>. QED
      BY <2>4, <3>1, <3>3, <3>4 DEF PlainFact, Paced
  <2>6. f = g \/ (f.ts = TheHour(g.ts) /\ Past(g.ts, now))
    BY <2>1, <2>3, <2>4 DEF CostAlike
  <2>7. f = g \/ (f.source # "legacy" /\ g.source # "legacy")
    BY <2>1, <2>3, CostFactIs DEF CostAlike
  <2>. HIDE DEF f
  <2>8. f.model = g.model
    BY <2>3, <2>4 DEF CostAlike
  <2>9. FactAlike(g, f, now)
    BY <2>4, <2>5, <2>6, <2>8, <2>7 DEF FactAlike
  <2>. QED
    BY <2>2, <2>9
<1>9. \A f \in F1 : f.seen = {}
  BY <1>5, CostFactIs
<1>10. FactsMerged(lock, F1, F2, now)
  BY <1>7, <1>8, <1>9 DEF FactsMerged
<1>. QED
  BY <1>10 DEF F1, F2

\* What tells the rows of the cost view from each other: no two are the same fact.
LEMMA NativeRowIs ==
  \A r : NativeRow(r).source = "native" /\ NativeRow(r).samples = 1
BY DEF NativeRow, CostRow

LEMMA LegacyRowIs ==
  \A l : /\ LegacyRow(l).source = "legacy"
         /\ LegacyRow(l).samples = IF LegacyRow(l).cost > 0 THEN 1 ELSE 0
BY DEF LegacyRow, CostRow

\* The rows of the cost view are of three kinds, and the estimates of two.
LEMMA SelectedKinds ==
  ASSUME NEW R, NEW A, Priced(R \cup A), NEW c \in SelectedCosts(R, A)
  PROVE  \/ \E r \in R \cup A : c = NativeRow(r)
         \/ \E l \in LegacyHours : c = LegacyRow(l)
         \/ \E r \in ValidUsage(R) : c = LocalRow(r)
         \/ \E k \in DOMAIN LocalCostHourly(A) : c = HourRow(k, LocalCostHourly(A))
<1>1. c \in KeptCosts(R \cup A) \/ c \in Unreported(LocalCosts(R, A), R \cup A)
  BY SelectedAre
<1>2. CASE c \in KeptCosts(R \cup A)
  BY <1>2 DEF KeptCosts, NewestTurns, Of
<1>3. CASE c \in Unreported(LocalCosts(R, A), R \cup A)
  <2>1. c \in LocalRows(ValidUsage(R)) \cup HourRows(LocalCostHourly(A))
    BY <1>3, LocalCostsAre DEF Unreported
  <2>. QED
    BY <2>1 DEF LocalRows, HourRows
<1>. QED
  BY <1>1, <1>2, <1>3

\* Rows of the view with the same fields have the same samples.
CostFields(c, e) ==
  /\ c.row = e.row /\ c.ts = e.ts /\ c.session = e.session /\ c.model = e.model
  /\ c.cost = e.cost /\ c.source = e.source

LEMMA CostFactNames ==
  ASSUME NEW c, NEW e, CostFact(c) = CostFact(e)
  PROVE  CostFields(c, e)
<1>1. <<c.row, c.session>> = <<e.row, e.session>>
  BY CostFactIs
<1>2. c.row = e.row /\ c.session = e.session
  BY <1>1
<1>. QED
  BY <1>2, CostFactIs DEF CostFields

IsCostRow(c) ==
  c = [row |-> c.row, ts |-> c.ts, session |-> c.session, model |-> c.model, cost |-> c.cost,
       source |-> c.source, samples |-> c.samples]

LEMMA SameCost ==
  ASSUME NEW c, IsCostRow(c), NEW e, IsCostRow(e), CostFields(c, e), c.samples = e.samples
  PROVE  c = e
BY DEF IsCostRow, CostFields

LEMMA AllCostRows ==
  /\ \A r : IsCostRow(NativeRow(r)) /\ IsCostRow(LocalRow(r))
  /\ \A l : IsCostRow(LegacyRow(l))
  /\ \A k, H : IsCostRow(HourRow(k, H))
<1>1. \A a, b, c, d, e, f, g : IsCostRow(CostRow(a, b, c, d, e, f, g))
  BY DEF CostRow, IsCostRow
<1>. QED
  BY <1>1 DEF NativeRow, LocalRow, LegacyRow, HourRow

LEMMA HourRowsDistinct ==
  ASSUME NEW A, NEW H, H = LocalCostHourly(A), NEW k \in DOMAIN H, NEW l \in DOMAIN H,
         CostFields(HourRow(k, H), HourRow(l, H))
  PROVE  k = l
<1>1. \A x \in DOMAIN H : x = [bucket |-> x.bucket, session |-> x.session, model |-> x.model]
  BY DEF LocalCostHourly, LocalKey
<1>2. k.bucket = l.bucket /\ k.session = l.session /\ k.model = l.model
  BY HourRowFields DEF CostFields
<1>. QED
  BY <1>1, <1>2

LEMMA RowNamed ==
  /\ \A k, H : ~HasName(HourRow(k, H).row)
  /\ \A r : LocalRow(r).row = r.row
BY LocalRowIs, HourRowIs DEF HasName

LEMMA PricedNames ==
  ASSUME NEW S, Priced(S)
  PROVE  /\ \A r \in S : HasName(r.row)
         /\ \A r, s \in S : r.row = s.row => r = s
BY DEF Priced, HasName

LEMMA LocalsDistinct ==
  ASSUME NEW R, NEW A, Priced(R \cup A), NEW H, H = LocalCostHourly(A),
         NEW c, (\E r \in ValidUsage(R) : c = LocalRow(r))
           \/ (\E k \in DOMAIN H : c = HourRow(k, H)),
         NEW e, (\E r \in ValidUsage(R) : e = LocalRow(r))
           \/ (\E k \in DOMAIN H : e = HourRow(k, H)),
         CostFields(c, e)
  PROVE  c = e
<1>0. c.row = e.row
  BY DEF CostFields
<1>1. \A r \in ValidUsage(R) : r \in R \cup A
  BY DEF ValidUsage
<1>2. \A r \in ValidUsage(R) : HasName(LocalRow(r).row)
  BY <1>1, PricedNames, RowNamed
<1>3. CASE (\E r \in ValidUsage(R) : c = LocalRow(r)) /\ (\E r \in ValidUsage(R) : e = LocalRow(r))
  <2>1. PICK r \in ValidUsage(R) : c = LocalRow(r)
    BY <1>3
  <2>2. PICK s \in ValidUsage(R) : e = LocalRow(s)
    BY <1>3
  <2>3. r.row = s.row
    BY <1>0, <2>1, <2>2, RowNamed
  <2>. QED
    BY <1>1, <2>1, <2>2, <2>3, PricedNames
<1>4. CASE (\E k \in DOMAIN H : c = HourRow(k, H)) /\ (\E k \in DOMAIN H : e = HourRow(k, H))
  BY <1>4, HourRowsDistinct
<1>5. CASE (\E r \in ValidUsage(R) : c = LocalRow(r)) /\ (\E k \in DOMAIN H : e = HourRow(k, H))
  BY <1>0, <1>2, <1>5, RowNamed
<1>6. CASE (\E k \in DOMAIN H : c = HourRow(k, H)) /\ (\E r \in ValidUsage(R) : e = LocalRow(r))
  BY <1>0, <1>2, <1>6, RowNamed
<1>. QED
  BY <1>3, <1>4, <1>5, <1>6

LEMMA SelectedDistinct ==
  ASSUME NEW R, NEW A, Priced(R \cup A)
  PROVE  Distinct(SelectedCosts(R, A)) /\ Unarchived(SelectedCosts(R, A))
<1>. DEFINE C == SelectedCosts(R, A)
            H == LocalCostHourly(A)
            Native(c) == \E r \in R \cup A : c = NativeRow(r)
            Legacy(c) == \E l \in LegacyHours : c = LegacyRow(l)
            Local(c)  == (\E r \in ValidUsage(R) : c = LocalRow(r))
              \/ (\E k \in DOMAIN H : c = HourRow(k, H))
<1>1. \A c \in C : Native(c) \/ Legacy(c) \/ Local(c)
  BY SelectedKinds
<1>2. \A c : /\ Native(c) => c.source = "native" /\ c.samples = 1 /\ IsCostRow(c)
             /\ Legacy(c) => c.source = "legacy" /\ c.samples = (IF c.cost > 0 THEN 1 ELSE 0)
                  /\ IsCostRow(c)
             /\ Local(c) => c.source = "local"
  <2>1. \A c : Native(c) => c.source = "native" /\ c.samples = 1 /\ IsCostRow(c)
    BY NativeRowIs, AllCostRows
  <2>2. \A c : Legacy(c) => c.source = "legacy" /\ c.samples = (IF c.cost > 0 THEN 1 ELSE 0)
                              /\ IsCostRow(c)
    BY LegacyRowIs, AllCostRows
  <2>3. \A c : Local(c) => c.source = "local"
    <3>1. \A r : LocalRow(r).source = "local"
      BY LocalRowIs
    <3>2. \A k, G : HourRow(k, G).source = "local"
      BY HourRowIs
    <3>. QED
      BY <3>1, <3>2
  <2>. QED
    BY <2>1, <2>2, <2>3
<1>3. ASSUME NEW c \in C, NEW e \in C, CostFact(c) = CostFact(e) PROVE c = e
  <2>1. CostFields(c, e)
    BY <1>3, CostFactNames
  <2>2. c.source = e.source /\ c.cost = e.cost
    BY <2>1 DEF CostFields
  <2>3. CASE Native(c)
    <3>1. Native(e)
      BY <1>1, <1>2, <2>2, <2>3
    <3>. HIDE DEF Native
    <3>. QED
      BY <1>2, <2>1, <2>3, <3>1, SameCost
  <2>4. CASE Legacy(c)
    <3>1. Legacy(e)
      BY <1>1, <1>2, <2>2, <2>4
    <3>. HIDE DEF Legacy
    <3>2. c.samples = e.samples
      BY <1>2, <2>2, <2>4, <3>1
    <3>. QED
      BY <1>2, <2>1, <2>4, <3>1, <3>2, SameCost
  <2>5. CASE Local(c)
    <3>1. Local(e)
      BY <1>1, <1>2, <2>2, <2>5
    <3>. QED
      BY <2>1, <2>5, <3>1, LocalsDistinct
  <2>. QED
    BY <1>1, <2>3, <2>4, <2>5
<1>4. \A c \in C : c.source # "archive"
  BY <1>1, <1>2
<1>. QED
  BY <1>3, <1>4 DEF Distinct, Unarchived

\* Rows of a view: some archived long ago, all with the numbers and times that are read.
Ready(R, A, now) == Aged(R, A, now) /\ Factual(R \cup A)

IsRaw(f) == f.source = "raw"

\* The facts of a view are of rows, of hours and of costs, and none is two of these.
LEMMA FactSources ==
  /\ \A r : IsRaw(RawFact(r)) /\ FromRow(RawFact(r))
  /\ \A k, H, A : ~FromRow(HourFact(k, H, A))
  /\ \A c : CostFact(c).source = c.source
BY HourFactIs, CostFactIs DEF RawFact, Fact, IsRaw, FromRow

LEMMA CostsNotRaw ==
  ASSUME NEW R, NEW A, Priced(R \cup A), NEW f \in CostFacts(SelectedCosts(R, A))
  PROVE  ~IsRaw(f) /\ FromRow(f)
<1>1. PICK c \in SelectedCosts(R, A) : f = CostFact(c)
  BY DEF CostFacts
<1>2. c.source \in {"native", "legacy", "local"}
  <2>1. CASE \E r \in R \cup A : c = NativeRow(r)
    BY <2>1, NativeRowIs
  <2>2. CASE \E l \in LegacyHours : c = LegacyRow(l)
    BY <2>2, LegacyRowIs
  <2>3. CASE \E r \in ValidUsage(R) : c = LocalRow(r)
    BY <2>3, LocalRowIs
  <2>4. CASE \E k \in DOMAIN LocalCostHourly(A) : c = HourRow(k, LocalCostHourly(A))
    BY <2>4, HourRowIs
  <2>. QED
    BY <2>1, <2>2, <2>3, <2>4, SelectedKinds
<1>. QED
  BY <1>1, <1>2, CostFactIs DEF IsRaw, FromRow

LEMMA ArchiveFactsAre ==
  ASSUME NEW H, NEW A
  PROVE  ArchiveFacts(H, A) = {HourFact(k, H, A) : k \in DOMAIN H}
BY DEF ArchiveFacts, HourFact

LEMMA NoHourly == DOMAIN UsageHourly({}) = {}
  BY DEF UsageHourly, UsageRows, In, ValidUsage

LEMMA FactsOfView ==
  ASSUME NEW R, NEW A, NEW C, NEW D
  PROVE  /\ Facts(R, A, UsageHourly(A), C) =
              (RawFacts(R) \cup ArchiveFacts(UsageHourly(A), A)) \cup CostFacts(C)
         /\ Facts(R \cup A, {}, UsageHourly({}), D) =
              (RawFacts(R) \cup RawFacts(A)) \cup CostFacts(D)
<1>1. Facts(R, A, UsageHourly(A), C) =
        (RawFacts(R) \cup ArchiveFacts(UsageHourly(A), A)) \cup CostFacts(C)
  BY DEF Facts, RawFacts, CostFacts
<1>2. ArchiveFacts(UsageHourly({}), {}) = {}
  BY NoHourly, ArchiveFactsAre
<1>3. UsageRows(R \cup A) = UsageRows(R) \cup UsageRows(A)
  BY DEF UsageRows, In, ValidUsage
<1>4. RawFacts(R \cup A) = RawFacts(R) \cup RawFacts(A)
  BY <1>3 DEF RawFacts
<1>5. Facts(R \cup A, {}, UsageHourly({}), D) =
        RawFacts(R \cup A) \cup ArchiveFacts(UsageHourly({}), {}) \cup CostFacts(D)
  BY DEF Facts, RawFacts, CostFacts
<1>. QED
  BY <1>1, <1>2, <1>4, <1>5

LEMMA FactualParts ==
  ASSUME NEW R, NEW A, Factual(R \cup A)
  PROVE  Factual(R) /\ Factual(A)
<1>1. IsFiniteSet(R) /\ IsFiniteSet(A)
  BY FS_Subset DEF Factual
<1>2. Summable(R) /\ Summable(A)
  BY DEF Factual, Summable
<1>. QED
  BY <1>1, <1>2 DEF Factual

\* All the facts of a view, which the endpoints add up, are those there would be if every row were
\* still raw, archived ones by the hour: archiveUsageSQL, the hourly estimates and the cost view.
THEOREM FactsMerge ==
  ASSUME NEW R, NEW A, NEW now, Ready(R, A, now)
  PROVE  \E key : FactsMerged(key, Facts(R, A, UsageHourly(A), SelectedCosts(R, A)),
                              Facts(R \cup A, {}, UsageHourly({}), SelectedCosts(R \cup A, {})),
                                now)
<1>. DEFINE C1 == SelectedCosts(R, A)
            C2 == SelectedCosts(R \cup A, {})
            AF == ArchiveFacts(UsageHourly(A), A)
<1>1. /\ Priced(R \cup A) /\ R \cap A = {} /\ Factual(R \cup A) /\ Factual(R) /\ Factual(A)
      /\ \A r \in A : Past(r.ts, now)
  BY FactualParts DEF Ready, Aged
<1>2. Priced((R \cup A) \cup {})
  BY <1>1
<1>3. FactsMerged([f \in RawFacts(R) |-> f], RawFacts(R), RawFacts(R), now)
  BY <1>1, RawFactsAre, FactsThemselves
<1>4. PICK k2 : FactsMerged(k2, AF, RawFacts(A), now)
  BY <1>1, HourFactsMerged
<1>5. PICK k3 : FactsMerged(k3, CostFacts(C1), CostFacts(C2), now)
  <2>1. PICK key : CostsMerged(key, C1, C2, now)
    BY SelectedMerged DEF Ready
  <2>2. Distinct(C1)
    BY <1>1, SelectedDistinct
  <2>3. Distinct(C2) /\ Unarchived(C2)
    BY <1>2, SelectedDistinct
  <2>. QED
    BY <2>1, <2>2, <2>3, CostFactsMerged
<1>6. RawFacts(R) \cap AF = {}
  BY ArchiveFactsAre, FactSources DEF RawFacts
<1>7. RawFacts(R) \cap RawFacts(A) = {}
  <2>1. ASSUME NEW f \in RawFacts(R), f \in RawFacts(A) PROVE FALSE
    <3>1. PICK r \in UsageRows(R) : f = RawFact(r)
      BY DEF RawFacts
    <3>2. PICK s \in UsageRows(A) : f = RawFact(s)
      BY <2>1 DEF RawFacts
    <3>3. r \in R /\ s \in A
      BY UsageTables
    <3>4. r = s
      <4>1. r \in R \cup A /\ s \in R \cup A /\ RawFact(r).id = RawFact(s).id
        BY <3>1, <3>2, <3>3
      <4>2. Factual(R \cup A)
        BY <1>1
      <4>. QED
        BY <4>1, <4>2, RawFactNames
    <3>. QED
      BY <1>1, <3>3, <3>4
  <2>. QED
    BY <2>1
<1>8. /\ \A f \in CostFacts(C1) : ~IsRaw(f) /\ FromRow(f)
      /\ \A f \in CostFacts(C2) : ~IsRaw(f)
  BY <1>1, <1>2, CostsNotRaw
<1>9. /\ \A f \in RawFacts(R) \cup RawFacts(A) : IsRaw(f)
      /\ \A f \in AF : ~FromRow(f)
  BY ArchiveFactsAre, FactSources DEF RawFacts
<1>10. /\ (RawFacts(R) \cup AF) \cap CostFacts(C1) = {}
       /\ (RawFacts(R) \cup RawFacts(A)) \cap CostFacts(C2) = {}
  BY <1>8, <1>9
<1>11. /\ Facts(R, A, UsageHourly(A), C1) = (RawFacts(R) \cup AF) \cup CostFacts(C1)
       /\ Facts(R \cup A, {}, UsageHourly({}), C2) =
            (RawFacts(R) \cup RawFacts(A)) \cup CostFacts(C2)
  BY FactsOfView
<1>. HIDE DEF C1, C2, AF
<1>12. PICK k4 : FactsMerged(k4, RawFacts(R) \cup AF, RawFacts(R) \cup RawFacts(A), now)
  BY <1>3, <1>4, <1>6, <1>7, FactsBeside
<1>13. PICK k5 : FactsMerged(k5, (RawFacts(R) \cup AF) \cup CostFacts(C1),
                             (RawFacts(R) \cup RawFacts(A)) \cup CostFacts(C2), now)
  BY <1>5, <1>10, <1>12, FactsBeside
<1>. QED
  BY <1>11, <1>13 DEF C1, C2

-----------------------------------------------------------------------------
(* Parts of facts that agree, and their sums *)
FactsAgree(F1, F2, now) == \E key : FactsMerged(key, F1, F2, now)

\* Parts are alike that have a fact if and only if they have the one it has become part of.
PartsAlike(F1, F2, L, t, now) ==
  /\ t \subseteq F2 /\ L \subseteq F1
  /\ \A g \in F2, f \in F1 : FactAlike(g, f, now) => (g \in t <=> f \in L)

\* Facts that agree do so in parts a request takes of them: by client, model, bar, day, point.
LEMMA AgreePart ==
  ASSUME NEW F1, NEW F2, NEW now, FactsAgree(F1, F2, now),
         NEW L, NEW t, PartsAlike(F1, F2, L, t, now)
  PROVE  FactsAgree(L, t, now)
<1>1. PICK key : FactsMerged(key, F1, F2, now)
  BY DEF FactsAgree
<1>2. \A g \in F2 : key[g] \in F1
  BY <1>1, MergedFactsAre
<1>3. \A g \in F2 : FactAlike(g, key[g], now)
  BY <1>1 DEF FactsMerged
<1>4. Matched(key, F2, F1, t, L)
  BY <1>2, <1>3 DEF Matched, PartsAlike
<1>. QED
  BY <1>1, <1>4, FactsPart DEF FactsAgree

LEMMA AgreeSums ==
  ASSUME NEW F1, NEW F2, NEW now, FactsAgree(F1, F2, now)
  PROVE  \A m \in Measures : Sum(F1, m) = Sum(F2, m) /\ Sum(F2, m) \in Int
<1>1. PICK key : FactsMerged(key, F1, F2, now)
  BY DEF FactsAgree
<1>2. FactNumbers(F1) /\ FactNumbers(F2)
  BY <1>1, MergedFactsAre
<1>3. ASSUME NEW m \in Measures PROVE Sum(F1, m) = Sum(F2, m) /\ Sum(F2, m) \in Int
  <2>1. /\ DOMAIN MeasureOf(F1, m) = F1 /\ DOMAIN MeasureOf(F2, m) = F2
        /\ Numbers(MeasureOf(F1, m)) /\ Numbers(MeasureOf(F2, m))
    BY <1>2, MeasureDomains
  <2>2. Sorts(key, MeasureOf(F2, m), MeasureOf(F1, m), F2, F1)
    BY <1>1, <2>1 DEF FactsMerged, SortsAll
  <2>3. SumOf(MeasureOf(F1, m), F1) = SumOf(MeasureOf(F2, m), F2)
    BY <2>2, SumSorted
  <2>4. Sum(F1, m) = SumOf(MeasureOf(F1, m), F1) /\ Sum(F2, m) = SumOf(MeasureOf(F2, m), F2)
    BY <1>2, TotalMeasure DEF FactNumbers
  <2>5. SumOf(MeasureOf(F2, m), F2) \in Int
    BY <2>1, SumType
  <2>. QED
    BY <2>3, <2>4, <2>5
<1>. QED
  BY <1>3

LEMMA AgreeRecords ==
  ASSUME NEW F1, NEW F2, NEW now, FactsAgree(F1, F2, now), NEW ms \in SUBSET Measures
  PROVE  Sums(F1, ms) = Sums(F2, ms)
BY AgreeSums DEF Sums

\* The facts of a client, of some clients, or of a model.
LEMMA AgreeClients ==
  ASSUME NEW F1, NEW F2, NEW now, FactsAgree(F1, F2, now), NEW C
  PROVE  FactsAgree({f \in F1 : f.client \in C}, {f \in F2 : f.client \in C}, now)
<1>1. PartsAlike(F1, F2, {f \in F1 : f.client \in C}, {f \in F2 : f.client \in C}, now)
  BY DEF PartsAlike, FactAlike
<1>. QED
  BY <1>1, AgreePart

Owned(F, c)    == {f \in F : f.client = c}
Modelled(F, m) == {f \in F : f.model = m}

LEMMA AgreeClient ==
  ASSUME NEW F1, NEW F2, NEW now, FactsAgree(F1, F2, now), NEW c
  PROVE  FactsAgree(Owned(F1, c), Owned(F2, c), now)
<1>1. PartsAlike(F1, F2, Owned(F1, c), Owned(F2, c), now)
  BY DEF PartsAlike, FactAlike, Owned
<1>. QED
  BY <1>1, AgreePart

LEMMA AgreeModel ==
  ASSUME NEW F1, NEW F2, NEW now, FactsAgree(F1, F2, now), NEW m
  PROVE  FactsAgree(Modelled(F1, m), Modelled(F2, m), now)
<1>1. PartsAlike(F1, F2, Modelled(F1, m), Modelled(F2, m), now)
  BY DEF PartsAlike, FactAlike, Modelled
<1>. QED
  BY <1>1, AgreePart

LEMMA AgreePerModel ==
  ASSUME NEW F1, NEW F2, NEW now, FactsAgree(F1, F2, now), NEW ms \in SUBSET Measures
  PROVE  PerModel(F1, ms) = PerModel(F2, ms)
<1>1. ASSUME NEW m PROVE Sums(Modelled(F1, m), ms) = Sums(Modelled(F2, m), ms)
  <2>1. FactsAgree(Modelled(F1, m), Modelled(F2, m), now)
    BY AgreeModel
  <2>. QED
    BY <2>1, AgreeRecords
<1>. QED
  BY <1>1 DEF PerModel, Modelled

\* The facts of costs with samples: a legacy cost is in no row or hour but its own.
LEMMA AgreeCosted ==
  ASSUME NEW F1, NEW F2, NEW now, FactsAgree(F1, F2, now)
  PROVE  FactsAgree(Costed(F1), Costed(F2), now)
<1>1. PartsAlike(F1, F2, Costed(F1), Costed(F2), now)
  BY DEF PartsAlike, FactAlike, Costed
<1>. QED
  BY <1>1, AgreePart

\* The facts in a window.
LEMMA AgreeWithin ==
  ASSUME NEW F1, NEW F2, NEW now \in Int, FactsAgree(F1, F2, now), NEW w, Rounded(w, now)
  PROVE  FactsAgree(Within(F1, w), Within(F2, w), now)
<1>. DEFINE hours == ArchiveHours(w.start, w.end)
            In1(f) == IF f.source = "archive" THEN hours.start <= f.ts /\ f.ts < hours.end
                      ELSE w.start <= f.ts /\ f.ts < w.end
<1>1. Within(F1, w) = {f \in F1 : In1(f)} /\ Within(F2, w) = {f \in F2 : In1(f)}
  BY DEF Within
<1>2. ASSUME NEW g \in F2, NEW f \in F1, FactAlike(g, f, now) PROVE In1(g) <=> In1(f)
  <2>1. CASE f = g
    BY <2>1
  <2>2. CASE f.ts = TheHour(g.ts) /\ Past(g.ts, now)
    <3>1. g.ts \in Int /\ g.source # "archive"
      BY <1>2 DEF FactAlike, PlainFact, FromRow
    <3>2. /\ w.start <= g.ts /\ g.ts < w.end <=> w.start <= f.ts /\ f.ts < w.end
          /\ w.start <= g.ts /\ g.ts < w.end <=> hours.start <= f.ts /\ f.ts < hours.end
      BY <2>2, <3>1, HourInWindow
    <3>. HIDE DEF hours
    <3>. QED
      BY <3>1, <3>2
  <2>. QED
    BY <1>2, <2>1, <2>2 DEF FactAlike
<1>. HIDE DEF In1
<1>3. PartsAlike(F1, F2, Within(F1, w), Within(F2, w), now)
  BY <1>1, <1>2 DEF PartsAlike
<1>. QED
  BY <1>3, AgreePart

\* The bar an hour is drawn in is the bar of its instants.
LEMMA BarOfHour ==
  ASSUME NEW now \in Int, NEW range \in Ranges, NEW t \in Int
  PROVE  BarOf(Zone, now, range, TheHour(t)) = BarOf(Zone, now, range, t)
<1>. DEFINE o == OffsetAt(Zone, TodayStart(Zone, now))
<1>1. TodayStart(Zone, now) \in Int
  BY MidnightOnHour, OnHourType DEF TodayStart
<1>2. OnHour(o) /\ OnHour(HoursPerDay) /\ HoursPerDay \in Nat \ {0}
  BY <1>1, HourConstants
<1>. HIDE DEF o
<1>3. (TheHour(t) + o) \div HoursPerDay = (t + o) \div HoursPerDay
  BY <1>2, HourCounts
<1>. QED
  BY <1>3 DEF BarOf, o

LEMMA AgreeBar ==
  ASSUME NEW F1, NEW F2, NEW now \in Int, FactsAgree(F1, F2, now), NEW range \in Ranges, NEW date
  PROVE  FactsAgree(OfBar(F1, now, range, date), OfBar(F2, now, range, date), now)
<1>. DEFINE L == {f \in F1 : BarOf(Zone, now, range, f.ts) = date}
            t == {f \in F2 : BarOf(Zone, now, range, f.ts) = date}
<1>1. ASSUME NEW g \in F2, NEW f \in F1, FactAlike(g, f, now)
      PROVE  BarOf(Zone, now, range, g.ts) = BarOf(Zone, now, range, f.ts)
  <2>1. g.ts \in Int
    BY <1>1 DEF FactAlike, PlainFact
  <2>2. CASE f = g
    BY <2>2
  <2>3. CASE f.ts = TheHour(g.ts)
    BY <2>1, <2>3, BarOfHour
  <2>. QED
    BY <1>1, <2>2, <2>3 DEF FactAlike
<1>2. PartsAlike(F1, F2, L, t, now)
  BY <1>1 DEF PartsAlike
<1>. HIDE DEF L, t
<1>3. FactsAgree(L, t, now)
  BY <1>2, AgreePart
<1>. QED
  BY <1>3 DEF L, t, OfBar

\* The facts since an hour.
Since(F, start) == {f \in F : f.ts >= start}

LEMMA AgreeSince ==
  ASSUME NEW F1, NEW F2, NEW now \in Int, FactsAgree(F1, F2, now), NEW start, OnHour(start)
  PROVE  FactsAgree(Since(F1, start), Since(F2, start), now)
<1>. DEFINE L == {f \in F1 : f.ts >= start}
            t == {f \in F2 : f.ts >= start}
<1>1. ASSUME NEW g \in F2, NEW f \in F1, FactAlike(g, f, now)
      PROVE  g.ts >= start <=> f.ts >= start
  <2>1. g.ts \in Int
    BY <1>1 DEF FactAlike, PlainFact
  <2>2. CASE f = g
    BY <2>2
  <2>3. CASE f.ts = TheHour(g.ts)
    <3>1. f.ts \in Int /\ start \in Int /\ (start <= f.ts <=> start <= g.ts)
      BY <2>1, <2>3, HourBefore
    <3>. QED
      BY <2>1, <3>1
  <2>. QED
    BY <1>1, <2>2, <2>3 DEF FactAlike
<1>2. PartsAlike(F1, F2, L, t, now)
  BY <1>1 DEF PartsAlike
<1>. HIDE DEF L, t
<1>3. FactsAgree(L, t, now)
  BY <1>2, AgreePart
<1>. QED
  BY <1>3 DEF L, t, Since

\* The facts of a point of a rates window.
AtPoint(F, w, range, i) == {f \in F : BucketIndex(w, range, TheHour(f.ts)) = i}

LEMMA AgreePoint ==
  ASSUME NEW F1, NEW F2, NEW now \in Int, FactsAgree(F1, F2, now), NEW w, NEW range, NEW i
  PROVE  FactsAgree(AtPoint(F1, w, range, i), AtPoint(F2, w, range, i), now)
<1>. DEFINE L == {f \in F1 : BucketIndex(w, range, TheHour(f.ts)) = i}
            t == {f \in F2 : BucketIndex(w, range, TheHour(f.ts)) = i}
<1>1. ASSUME NEW g \in F2, NEW f \in F1, FactAlike(g, f, now)
      PROVE  TheHour(g.ts) = TheHour(f.ts)
  <2>1. g.ts \in Int
    BY <1>1 DEF FactAlike, PlainFact
  <2>2. CASE f = g
    BY <2>2
  <2>3. CASE f.ts = TheHour(g.ts)
    <3>1. OnHour(TheHour(g.ts))
      BY <2>1, HourOnHour
    <3>. QED
      BY <2>3, <3>1, HourOfHour
  <2>. QED
    BY <1>1, <2>2, <2>3 DEF FactAlike
<1>2. PartsAlike(F1, F2, L, t, now)
  BY <1>1 DEF PartsAlike
<1>. HIDE DEF L, t
<1>3. FactsAgree(L, t, now)
  BY <1>2, AgreePart
<1>. QED
  BY <1>3 DEF L, t, AtPoint
==============================================================================
