------------------------------ MODULE AnswerProofs ------------------------------
(***************************************************************************)
(* Archiving changes no answer, for every set of rows, handlers, requests  *)
(* and times.                                                              *)
(*                                                                         *)
(* The argument.  A view some rows R of which are raw and others, A, are   *)
(* archived is Ready if the archived are Past.  SummaryProofs shows that   *)
(* its facts and costs agree with those of the view in which R \cup A are  *)
(* raw; each endpoint is a function of these, or of rankings, histograms   *)
(* and sums of its own that hours sort the same way: one lemma each, up to *)
(* AnswersAgree, ListsAgree, DetailAgrees and RealtimeAgrees.              *)
(*                                                                         *)
(* That the views requests see are Ready is an invariant (Ages): what is   *)
(* archived was before the cutoff of a sweep, and a request that waits     *)
(* briefly (WaitsBriefly) came long after any cutoff there has been when   *)
(* it begins.                                                              *)
(***************************************************************************)
EXTENDS SummaryProofs

-----------------------------------------------------------------------------
(* Speeds *)
Rated == {"units", "duration"}

\* Speeds agree.
LEMMA RatedMeasures == Rated \subseteq Measures
  BY DEF Rated, Measures

LEMMA AgreePaced ==
  ASSUME NEW F1, NEW F2, NEW now, FactsAgree(F1, F2, now)
  PROVE  /\ FactNumbers(F1) /\ FactNumbers(F2)
         /\ \A f \in F1 : Paced(f)
         /\ \A f \in F2 : PlainFact(f)
<1>1. PICK key : FactsMerged(key, F1, F2, now)
  BY DEF FactsAgree
<1>2. FactNumbers(F1) /\ FactNumbers(F2) /\ DOMAIN key = F2
  BY <1>1, MergedFactsAre
<1>3. \A g \in F2 : PlainFact(g)
  BY <1>1 DEF FactsMerged, FactAlike
<1>. DEFINE u == MeasureOf(F2, "units")
            d == MeasureOf(F2, "duration")
<1>4. Numbers(u) /\ Numbers(d) /\ DOMAIN u = F2 /\ DOMAIN d = F2
  BY <1>2, MeasureDomains, RatedMeasures DEF Rated
<1>5. \A g \in F2 : /\ u[g] \in Int /\ d[g] \in Int
                    /\ u[g] >= 0 /\ d[g] >= 0
                    /\ u[g] > 0 <=> d[g] > 0
  <2>1. \A g \in F2 : u[g] = Units(g) /\ d[g] = Duration(g)
    BY DEF MeasureOf, Units, Duration
  <2>2. \A g \in F2 : u[g] \in Int /\ d[g] \in Int
    BY <1>4 DEF Numbers
  <2>. HIDE DEF u, d
  <2>. QED
    BY <1>3, <2>1, <2>2 DEF PlainFact, Paced
<1>6. ASSUME NEW f \in F1 PROVE Paced(f)
  <2>. DEFINE S == {g \in F2 : key[g] = f}
  <2>1. Units(f) = SumOf(u, S) /\ Duration(f) = SumOf(d, S)
    <3>1. /\ SortsAll(key, u, MeasureOf(F1, "units")) /\ SortsAll(key, d, MeasureOf(F1, "duration"))
      BY <1>1, RatedMeasures DEF Rated, FactsMerged
    <3>2. /\ DOMAIN MeasureOf(F1, "units") = F1 /\ MeasureOf(F1, "units")[f] = Units(f)
          /\ DOMAIN MeasureOf(F1, "duration") = F1 /\ MeasureOf(F1, "duration")[f] = Duration(f)
      BY DEF MeasureOf, Units, Duration
    <3>. HIDE DEF u, d
    <3>. QED
      BY <1>4, <3>1, <3>2 DEF SortsAll, Sorts
  <2>2. S \in SUBSET F2
    OBVIOUS
  <2>. HIDE DEF S, u, d
  <2>3. /\ SumOf(u, S) > 0 <=> \E g \in S : u[g] > 0
        /\ SumOf(u, S) >= 0 /\ SumOf(u, S) \in Int
    BY <1>4, <1>5, <2>2, SumPositive, SumType
  <2>4. /\ SumOf(d, S) > 0 <=> \E g \in S : d[g] > 0
        /\ SumOf(d, S) >= 0 /\ SumOf(d, S) \in Int
    BY <1>4, <1>5, <2>2, SumPositive, SumType
  <2>5. SumOf(u, S) > 0 <=> SumOf(d, S) > 0
    BY <1>5, <2>2, <2>3, <2>4
  <2>. QED
    BY <2>1, <2>3, <2>4, <2>5 DEF Paced
<1>. QED
  BY <1>2, <1>3, <1>6

\* A fact without a speed has nothing to add to one.
LEMMA SpeedKnown ==
  ASSUME NEW F, FactNumbers(F), \A f \in F : Paced(f)
  PROVE  Sums(WithSpeed(F), Rated) = Sums(F, Rated)
<1>1. \A f : f \in WithSpeed(F) <=> f \in F /\ Units(f) > 0 /\ Duration(f) > 0
  BY DEF WithSpeed, Units, Duration
<1>2. ASSUME NEW m \in Rated PROVE Sum(WithSpeed(F), m) = Sum(F, m)
  <2>. DEFINE T == WithSpeed(F)
              g == MeasureOf(F, m)
              h == MeasureOf(T, m)
  <2>1. T \in SUBSET F /\ IsFiniteSet(F) /\ IsFiniteSet(T)
    BY <1>1, FS_Subset DEF FactNumbers
  <2>2. FactNumbers(T)
    BY <2>1 DEF FactNumbers
  <2>3. Numbers(g) /\ DOMAIN g = F /\ Numbers(h) /\ DOMAIN h = T
    BY <2>2, MeasureDomains, RatedMeasures
  <2>4. \A f \in F \ T : g[f] = 0
    <3>1. \A f \in F \ T : Units(f) = 0 /\ Duration(f) = 0
      BY <1>1 DEF Paced
    <3>. QED
      BY <3>1 DEF MeasureOf, Units, Duration, Rated
  <2>5. \A f \in T : h[f] = g[f]
    BY <2>1 DEF MeasureOf
  <2>6. Sum(T, m) = SumOf(h, T) /\ Sum(F, m) = SumOf(g, F)
    BY <2>1, TotalMeasure
  <2>. HIDE DEF T, g, h
  <2>7. F \in SUBSET DOMAIN g
    BY <2>3
  <2>8. SumOf(g, F) = SumOf(g, T)
    BY <2>1, <2>3, <2>4, <2>7, SumOfRest
  <2>9. SumOf(g, T) = SumOf(h, T)
    <3>1. T \in SUBSET DOMAIN h /\ T \subseteq DOMAIN g
      BY <2>1, <2>3
    <3>. QED
      BY <2>3, <2>5, <3>1, SumLocal
  <2>. QED
    BY <2>6, <2>8, <2>9 DEF T
<1>. QED
  BY <1>2 DEF Sums

LEMMA AgreeSpeed ==
  ASSUME NEW F1, NEW F2, NEW now, FactsAgree(F1, F2, now)
  PROVE  Speed(WithSpeed(F1)) = Speed(WithSpeed(F2))
<1>1. /\ FactNumbers(F1) /\ FactNumbers(F2)
      /\ \A f \in F1 : Paced(f)
      /\ \A f \in F2 : Paced(f)
  BY AgreePaced DEF PlainFact
<1>2. Sums(WithSpeed(F1), Rated) = Sums(F1, Rated) /\ Sums(WithSpeed(F2), Rated) = Sums(F2, Rated)
  BY <1>1, SpeedKnown
<1>3. Sums(F1, Rated) = Sums(F2, Rated)
  BY AgreeRecords, RatedMeasures
<1>. QED
  BY <1>2, <1>3 DEF Speed, Rated

\* The facts of a model that a client used.
LEMMA AgreeOwned ==
  ASSUME NEW F1, NEW F2, NEW now, FactsAgree(F1, F2, now), NEW c, NEW m
  PROVE  FactsAgree(Modelled(Owned(F1, c), m), Modelled(Owned(F2, c), m), now)
<1>1. FactsAgree(Owned(F1, c), Owned(F2, c), now)
  BY AgreeClient
<1>. DEFINE Q1 == Owned(F1, c)
            Q2 == Owned(F2, c)
<1>. HIDE DEF Q1, Q2
<1>2. FactsAgree(Q1, Q2, now)
  BY <1>1 DEF Q1, Q2
<1>3. FactsAgree(Modelled(Q1, m), Modelled(Q2, m), now)
  BY <1>2, AgreeModel
<1>. QED
  BY <1>3 DEF Q1, Q2

LEMMA SpeedParts ==
  ASSUME NEW F, NEW c, NEW m
  PROVE  Modelled(Owned(WithSpeed(F), c), m) = WithSpeed(Modelled(Owned(F, c), m))
BY DEF WithSpeed, Modelled, Owned

\* The speed per client and model.
LEMMA SpeedOfIs ==
  ASSUME NEW F, NEW client
  PROVE  SpeedOf(F, client) =
           [c \in Arms(client) |-> [m \in Models |-> Speed(Modelled(Owned(F, c), m))]]
BY DEF SpeedOf, PerModel, Speed, Modelled, Owned

LEMMA AgreeSpeedOf ==
  ASSUME NEW F1, NEW F2, NEW now, FactsAgree(F1, F2, now), NEW client
  PROVE  SpeedOf(WithSpeed(F1), client) = SpeedOf(WithSpeed(F2), client)
<1>1. ASSUME NEW c, NEW m
      PROVE  Speed(Modelled(Owned(WithSpeed(F1), c), m)) =
               Speed(Modelled(Owned(WithSpeed(F2), c), m))
  <2>. DEFINE P1 == Modelled(Owned(F1, c), m)
              P2 == Modelled(Owned(F2, c), m)
  <2>2. FactsAgree(P1, P2, now)
    BY AgreeOwned
  <2>. HIDE DEF P1, P2
  <2>3. Speed(WithSpeed(P1)) = Speed(WithSpeed(P2))
    BY <2>2, AgreeSpeed
  <2>4. Modelled(Owned(WithSpeed(F1), c), m) = WithSpeed(P1)
    BY SpeedParts DEF P1
  <2>5. Modelled(Owned(WithSpeed(F2), c), m) = WithSpeed(P2)
    BY SpeedParts DEF P2
  <2>. QED
    BY <2>3, <2>4, <2>5
<1>2. /\ SpeedOf(WithSpeed(F1), client) =
           [c \in Arms(client) |-> [m \in Models |-> Speed(Modelled(Owned(WithSpeed(F1), c), m))]]
      /\ SpeedOf(WithSpeed(F2), client) =
           [c \in Arms(client) |-> [m \in Models |-> Speed(Modelled(Owned(WithSpeed(F2), c), m))]]
  BY SpeedOfIs
<1>. QED
  BY <1>1, <1>2

\* The rates.
LEMMA AgreeRates ==
  ASSUME NEW F1, NEW F2, NEW now \in Int, FactsAgree(F1, F2, now), NEW client, NEW range \in Ranges,
         NEW w, w = RatesWindow(Zone, now, range)
  PROVE  RatesOf(F1, client, range, w) = RatesOf(F2, client, range, w)
<1>. DEFINE before == Window(w.start - RateCount[range] * RateInterval[range], w.start)
            P(F)   == Points(Within(F, w), w, range)
            N      == 0 .. RateCount[range] - 1
<1>1. Rounded(w, now) /\ Rounded(before, now)
  BY RatesRounded
<1>2. \A F : DOMAIN P(F) = N /\
             \A i \in N : P(F)[i] = {f \in Within(F, w) : BucketIndex(w, range, TheHour(f.ts)) = i}
  BY DEF Points
<1>3. FactsAgree(Within(F1, w), Within(F2, w), now)
        /\ FactsAgree(Within(F1, before), Within(F2, before), now)
  BY <1>1, AgreeWithin
<1>4. \A v \in {w, before} : Speed(WithSpeed(Within(F1, v))) = Speed(WithSpeed(Within(F2, v)))
  BY <1>3, AgreeSpeed
<1>5. ASSUME NEW i \in N
      PROVE  /\ SpeedOf(WithSpeed(P(F1)[i]), client) = SpeedOf(WithSpeed(P(F2)[i]), client)
             /\ Throughput(P(F1)[i]) = Throughput(P(F2)[i])
  <2>1. FactsAgree(P(F1)[i], P(F2)[i], now)
    <3>. DEFINE W1 == Within(F1, w)
                W2 == Within(F2, w)
    <3>. HIDE DEF W1, W2, P, N
    <3>1. FactsAgree(W1, W2, now)
      BY <1>3 DEF W1, W2
    <3>2. FactsAgree(AtPoint(W1, w, range, i), AtPoint(W2, w, range, i), now)
      BY <3>1, AgreePoint
    <3>. QED
      BY <1>2, <3>2 DEF W1, W2, AtPoint
  <2>2. {"flow", "out", "read", "creation"} \in SUBSET Measures
    BY DEF Measures
  <2>3. Throughput(P(F1)[i]) = Throughput(P(F2)[i])
    BY <2>1, <2>2, AgreeRecords DEF Throughput
  <2>. QED
    BY <2>1, <2>3, AgreeSpeedOf
<1>6. \A F : RatesOf(F, client, range, w) =
        [speed |-> [i \in N |-> SpeedOf(WithSpeed(P(F)[i]), client)],
         kpis  |-> [v \in IF client = "all" THEN {} ELSE {w, before} |->
                      Speed(WithSpeed(Within(F, v)))],
         throughput |-> [i \in N |-> Throughput(P(F)[i])]]
  BY <1>2 DEF RatesOf
<1>. HIDE DEF P, N, before
<1>7. [i \in N |-> SpeedOf(WithSpeed(P(F1)[i]), client)] =
        [i \in N |-> SpeedOf(WithSpeed(P(F2)[i]), client)]
  BY <1>5
<1>8. [i \in N |-> Throughput(P(F1)[i])] = [i \in N |-> Throughput(P(F2)[i])]
  BY <1>5
<1>9. [v \in IF client = "all" THEN {} ELSE {w, before} |-> Speed(WithSpeed(Within(F1, v)))] =
      [v \in IF client = "all" THEN {} ELSE {w, before} |-> Speed(WithSpeed(Within(F2, v)))]
  BY <1>4
<1>. QED
  BY <1>6, <1>7, <1>8, <1>9

-----------------------------------------------------------------------------
(* Endpoints over facts *)

\* What the queries find in rows of which A have been archived.
Reads(R, A) == Read([raw |-> R, archived |-> A])

\* What is read of a view, field by field.
LEMMA ReadsAre ==
  ASSUME NEW R, NEW A
  PROVE  /\ Reads(R, A).raw = R /\ Reads(R, A).archived = A
         /\ Reads(R, A).hourly = UsageHourly(A)
         /\ Reads(R, A).costs = SelectedCosts(R, A)
         /\ Reads(R, A).locals = LocalCosts(R, A)
         /\ Reads(R, A).facts = Facts(R, A, UsageHourly(A), SelectedCosts(R, A))
BY DEF Reads, Read, View

\* The facts an endpoint is given agree.
LEMMA ServedAgree ==
  ASSUME NEW R, NEW A, NEW now, Ready(R, A, now), NEW client
  PROVE  FactsAgree(Served(Reads(R, A), client), Served(Reads(R \cup A, {}), client), now)
<1>. DEFINE F1 == Facts(R, A, UsageHourly(A), SelectedCosts(R, A))
            F2 == Facts(R \cup A, {}, UsageHourly({}), SelectedCosts(R \cup A, {}))
<1>1. FactsAgree(F1, F2, now)
  BY FactsMerge DEF FactsAgree
<1>2. Reads(R, A).facts = F1 /\ Reads(R \cup A, {}).facts = F2
  BY ReadsAre
<1>. HIDE DEF F1, F2
<1>3. FactsAgree({f \in F1 : f.client \in Arms(client)}, {f \in F2 : f.client \in Arms(client)},
        now)
  BY <1>1, AgreeClients
<1>. QED
  BY <1>2, <1>3 DEF Served

\* The bars of a chart.
LEMMA AgreeChart ==
  ASSUME NEW F1, NEW F2, NEW now \in Int, FactsAgree(F1, F2, now), NEW range \in Ranges,
         NEW start, NEW count, NEW ms \in SUBSET Measures
  PROVE  Chart(F1, now, range, start, count, ms) = Chart(F2, now, range, start, count, ms)
<1>1. ASSUME NEW date
      PROVE  Sums(OfBar(F1, now, range, date), ms) = Sums(OfBar(F2, now, range, date), ms)
  <2>. DEFINE D1 == OfBar(F1, now, range, date)
              D2 == OfBar(F2, now, range, date)
  <2>1. FactsAgree(D1, D2, now)
    BY AgreeBar
  <2>. HIDE DEF D1, D2
  <2>2. Sums(D1, ms) = Sums(D2, ms)
    BY <2>1, AgreeRecords
  <2>. QED
    BY <2>2 DEF D1, D2
<1>. QED
  BY <1>1 DEF Chart, OfBar

\* The bars of the trends.
TrendOf(F, now, range, start) ==
  [i \in 1 .. Bars[range] |->
     PerModel(OfBar(Since(F, start), now, range, BarDates(Zone, start, range, Bars[range])[i]),
              {"total"})]

\* The endpoint of trends.
LEMMA AgreeTrend ==
  ASSUME NEW F1, NEW F2, NEW now \in Int, FactsAgree(F1, F2, now), NEW range \in Ranges,
         NEW start, OnHour(start)
  PROVE  TrendOf(F1, now, range, start) = TrendOf(F2, now, range, start)
<1>. DEFINE S1 == Since(F1, start)
            S2 == Since(F2, start)
<1>1. FactsAgree(S1, S2, now)
  BY AgreeSince
<1>2. {"total"} \in SUBSET Measures
  BY DEF Measures
<1>3. ASSUME NEW date
      PROVE  PerModel(OfBar(S1, now, range, date), {"total"}) =
             PerModel(OfBar(S2, now, range, date), {"total"})
  <2>. DEFINE D1 == OfBar(S1, now, range, date)
              D2 == OfBar(S2, now, range, date)
  <2>. HIDE DEF S1, S2
  <2>1. FactsAgree(D1, D2, now)
    BY <1>1, AgreeBar
  <2>. HIDE DEF D1, D2
  <2>2. PerModel(D1, {"total"}) = PerModel(D2, {"total"})
    BY <1>2, <2>1, AgreePerModel
  <2>. QED
    BY <2>2 DEF D1, D2
<1>. QED
  BY <1>3 DEF TrendOf

LEMMA TrendsAgree ==
  ASSUME NEW R, NEW A, NEW now, Ready(R, A, now), NEW client, NEW range \in Ranges
  PROVE  Trends(Reads(R, A), client, range, now) = Trends(Reads(R \cup A, {}), client, range, now)
<1>. DEFINE start == Resolve(Zone, now, range).sparkline.start
            F1 == Served(Reads(R, A), client)
            F2 == Served(Reads(R \cup A, {}), client)
<1>1. now \in Int
  BY DEF Ready, Aged
<1>2. OnHour(start)
  BY <1>1, WindowsRounded DEF Rounded
<1>3. FactsAgree(F1, F2, now)
  BY ServedAgree
<1>4. \A d : Trends(d, client, range, now) = TrendOf(Served(d, client), now, range, start)
  BY DEF Trends, TrendOf, OfBar, Since
<1>. HIDE DEF F1, F2, start
<1>5. TrendOf(F1, now, range, start) = TrendOf(F2, now, range, start)
  BY <1>1, <1>2, <1>3, AgreeTrend
<1>. QED
  BY <1>4, <1>5 DEF F1, F2

\* The endpoint of rates.
LEMMA RatesAgree ==
  ASSUME NEW R, NEW A, NEW now, Ready(R, A, now), NEW client, NEW range \in Ranges
  PROVE  Rates(Reads(R, A), client, range, now) = Rates(Reads(R \cup A, {}), client, range, now)
<1>. DEFINE F1 == Served(Reads(R, A), client)
            F2 == Served(Reads(R \cup A, {}), client)
            w  == RatesWindow(Zone, now, range)
<1>1. now \in Int
  BY DEF Ready, Aged
<1>2. FactsAgree(F1, F2, now)
  BY ServedAgree
<1>3. \A d : Rates(d, client, range, now) = RatesOf(Served(d, client), client, range, w)
  BY DEF Rates
<1>4. w = RatesWindow(Zone, now, range)
  OBVIOUS
<1>. HIDE DEF F1, F2, w
<1>5. RatesOf(F1, client, range, w) = RatesOf(F2, client, range, w)
  BY <1>1, <1>2, <1>4, AgreeRates
<1>. QED
  BY <1>3, <1>5 DEF F1, F2

-----------------------------------------------------------------------------
(* When models were last seen *)
Seen(F)  == {f \in F : f.seen # {}}
SeenTimes(F) == UNION {f.seen : f \in F}

\* What is never seen has made no request.
LEMMA AgreeUnseen ==
  ASSUME NEW F1, NEW F2, NEW now, FactsAgree(F1, F2, now)
  PROVE  /\ \A f \in F1 : f.seen = {} => Requests(f) = 0
         /\ \A g \in F2 : g.seen = {} => Requests(g) = 0
<1>1. PICK key : FactsMerged(key, F1, F2, now)
  BY DEF FactsAgree
<1>2. FactNumbers(F1) /\ FactNumbers(F2) /\ DOMAIN key = F2
  BY <1>1, MergedFactsAre
<1>3. \A g \in F2 : g.seen = {} => Requests(g) = 0
  BY <1>1 DEF FactsMerged, FactAlike, PlainFact
<1>4. ASSUME NEW f \in F1, f.seen = {} PROVE Requests(f) = 0
  <2>. DEFINE S == {g \in F2 : key[g] = f}
              u == MeasureOf(F2, "requests")
  <2>1. "requests" \in Measures
    BY DEF Measures
  <2>2. Numbers(u) /\ DOMAIN u = F2
    BY <1>2, <2>1, MeasureDomains
  <2>3. Requests(f) = SumOf(u, S)
    <3>1. SortsAll(key, u, MeasureOf(F1, "requests"))
      BY <1>1, <2>1 DEF FactsMerged
    <3>2. DOMAIN MeasureOf(F1, "requests") = F1 /\ MeasureOf(F1, "requests")[f] = Requests(f)
      BY DEF MeasureOf, Requests
    <3>. HIDE DEF u
    <3>. QED
      BY <2>2, <3>1, <3>2 DEF SortsAll, Sorts
  <2>4. \A g \in S : u[g] = 0
    <3>1. \A g \in S : g.seen = {}
      BY <1>1, <1>4 DEF FactsMerged, FactAlike
    <3>. QED
      BY <1>3, <3>1 DEF MeasureOf, Requests
  <2>. HIDE DEF S, u
  <2>5. S \in SUBSET DOMAIN u /\ {} \in SUBSET S /\ S \ {} = S
    BY <2>2 DEF S
  <2>6. SumOf(u, S) = SumOf(u, {})
    BY <2>2, <2>4, <2>5, SumOfRest
  <2>. QED
    BY <2>2, <2>3, <2>6, SumStep
<1>. QED
  BY <1>3, <1>4

\* Models that have been seen, and when.
LEMMA SeenRequests ==
  ASSUME NEW F, FactNumbers(F), \A f \in F : f.seen = {} => Requests(f) = 0
  PROVE  Sum(Seen(F), "requests") = Sum(F, "requests")
<1>. DEFINE T == Seen(F)
            g == MeasureOf(F, "requests")
            h == MeasureOf(T, "requests")
<1>1. T \in SUBSET F /\ IsFiniteSet(F) /\ IsFiniteSet(T)
  BY FS_Subset DEF FactNumbers, Seen
<1>2. FactNumbers(T) /\ "requests" \in Measures
  BY <1>1 DEF FactNumbers, Measures
<1>3. Numbers(g) /\ DOMAIN g = F /\ Numbers(h) /\ DOMAIN h = T
  BY <1>2, MeasureDomains
<1>4. \A f \in F \ T : g[f] = 0
  BY DEF MeasureOf, Requests, Seen
<1>5. \A f \in T : h[f] = g[f]
  BY <1>1 DEF MeasureOf
<1>6. Sum(T, "requests") = SumOf(h, T) /\ Sum(F, "requests") = SumOf(g, F)
  BY <1>1, TotalMeasure
<1>. HIDE DEF T, g, h
<1>7. F \in SUBSET DOMAIN g
  BY <1>3
<1>8. SumOf(g, F) = SumOf(g, T)
  BY <1>1, <1>3, <1>4, <1>7, SumOfRest
<1>9. SumOf(g, T) = SumOf(h, T)
  <2>1. T \in SUBSET DOMAIN h /\ T \subseteq DOMAIN g
    BY <1>1, <1>3
  <2>. QED
    BY <1>3, <1>5, <2>1, SumLocal
<1>. QED
  BY <1>6, <1>8, <1>9 DEF T

\* The greatest of some times is that of more of them, if none of those is later.
LEMMA LatestSame ==
  ASSUME NEW U, NEW V, IsFiniteSet(V), V \subseteq Int, U \subseteq V,
         \A t \in V : \E u \in U : t <= u
  PROVE  Latest(U) = Latest(V)
<1>1. CASE V = {}
  BY <1>1
<1>2. CASE V # {}
  <2>1. U # {} /\ IsFiniteSet(U) /\ U \subseteq Int
    BY <1>2, FS_Subset
  <2>2. Latest(U) \in U /\ \A t \in U : t <= Latest(U)
    BY <2>1, LatestOf
  <2>3. Latest(V) \in V /\ \A t \in V : t <= Latest(V)
    BY <1>2, LatestOf
  <2>4. PICK u \in U : Latest(V) <= u
    BY <2>3
  <2>5. u <= Latest(U) /\ Latest(U) <= Latest(V)
    BY <2>2, <2>3
  <2>6. Latest(U) \in Int /\ Latest(V) \in Int /\ u \in Int
    BY <2>1, <2>2, <2>3, <2>4
  <2>. QED
    BY <2>4, <2>5, <2>6
<1>. QED
  BY <1>1, <1>2

LEMMA AgreeTimes ==
  ASSUME NEW F1, NEW F2, NEW now, FactsAgree(F1, F2, now)
  PROVE  /\ Latest(SeenTimes(Seen(F1))) = Latest(SeenTimes(Seen(F2)))
         /\ Seen(F1) = {} <=> Seen(F2) = {}
         /\ {f.client : f \in Seen(F1)} = {f.client : f \in Seen(F2)}
<1>1. PICK key : FactsMerged(key, F1, F2, now)
  BY DEF FactsAgree
<1>2. FactNumbers(F1) /\ FactNumbers(F2) /\ DOMAIN key = F2 /\ \A g \in F2 : key[g] \in F1
  BY <1>1, MergedFactsAre
<1>3. \A g \in F2 : FactAlike(g, key[g], now)
  BY <1>1 DEF FactsMerged
<1>4. \A f \in F1 : \A u \in f.seen : \E g \in F2 : key[g] = f /\ u \in g.seen
  BY <1>1 DEF FactsMerged
<1>. DEFINE U == SeenTimes(Seen(F1))
            V == SeenTimes(Seen(F2))
<1>5. IsFiniteSet(V) /\ V \subseteq Int
  <2>1. \A g \in F2 : g.ts \in Int /\ g.seen \subseteq {g.ts}
    BY <1>3 DEF FactAlike, PlainFact
  <2>2. IsFiniteSet({g.ts : g \in F2}) /\ {g.ts : g \in F2} \subseteq Int
    BY <1>2, <2>1, TimesOf DEF FactNumbers
  <2>3. V \subseteq {g.ts : g \in F2}
    BY <2>1 DEF SeenTimes, Seen
  <2>. HIDE DEF V
  <2>. QED
    BY <2>2, <2>3, FS_Subset
<1>6. U \subseteq V
  BY <1>4 DEF SeenTimes, Seen
<1>7. \A t \in V : \E u \in U : t <= u
  <2>. SUFFICES ASSUME NEW g \in F2, NEW t \in g.seen PROVE \E u \in U : t <= u
    BY DEF SeenTimes, Seen
  <2>1. PICK u \in key[g].seen : t <= u
    BY <1>3 DEF FactAlike
  <2>. QED
    BY <1>2, <2>1 DEF SeenTimes, Seen
<1>8. Latest(U) = Latest(V)
  <2>. HIDE DEF U, V
  <2>. QED
    BY <1>5, <1>6, <1>7, LatestSame
<1>9. \A g \in Seen(F2) : key[g] \in Seen(F1) /\ key[g].client = g.client
  BY <1>2, <1>3 DEF FactAlike, Seen
<1>10. \A f \in Seen(F1) : \E g \in Seen(F2) : key[g] = f /\ f.client = g.client
  <2>. SUFFICES ASSUME NEW f \in F1, NEW u \in f.seen
                PROVE \E g \in Seen(F2) : key[g] = f /\ f.client = g.client
    BY DEF Seen
  <2>1. PICK g \in F2 : key[g] = f /\ u \in g.seen
    BY <1>4
  <2>. QED
    BY <1>3, <2>1 DEF FactAlike, Seen
<1>. QED
  BY <1>8, <1>9, <1>10

\* What the prices are shown with.
SeenOf(F) ==
  [m \in {f.model : f \in {x \in Seen(F) : x.model # ""}} |->
     [last |-> Latest(SeenTimes(Seen(Modelled(F, m)))),
      requests |-> Sum(Seen(Modelled(F, m)), "requests"),
      clients |-> {f.client : f \in Seen(Modelled(F, m))}]]

LEMMA SeenModelsIs ==
  ASSUME NEW d, NEW client
  PROVE  SeenModels(d, client) = SeenOf(Served(d, client))
<1>. DEFINE F == Served(d, client)
            found == Sightings(d, client)
<1>1. found = {x \in Seen(F) : x.model # ""}
  BY DEF Sightings, Seen
<1>. HIDE DEF F, found
<1>2. \A m \in {f.model : f \in found} : {f \in found : f.model = m} = Seen(Modelled(F, m))
  BY <1>1 DEF Seen, Modelled
<1>3. SeenModels(d, client) =
        [m \in {f.model : f \in found} |->
           [last |-> Latest(SeenTimes({f \in found : f.model = m})),
            requests |-> Sum({f \in found : f.model = m}, "requests"),
            clients |-> {f.client : f \in {f \in found : f.model = m}}]]
  BY DEF SeenModels, SeenTimes, found
<1>4. SeenModels(d, client) =
        [m \in {f.model : f \in found} |->
           [last |-> Latest(SeenTimes(Seen(Modelled(F, m)))),
            requests |-> Sum(Seen(Modelled(F, m)), "requests"),
            clients |-> {f.client : f \in Seen(Modelled(F, m))}]]
  BY <1>2, <1>3
<1>. QED
  BY <1>1, <1>4 DEF SeenOf, F

LEMMA AgreeSeen ==
  ASSUME NEW F1, NEW F2, NEW now, FactsAgree(F1, F2, now)
  PROVE  SeenOf(F1) = SeenOf(F2)
<1>1. ASSUME NEW m
      PROVE  /\ Latest(SeenTimes(Seen(Modelled(F1, m)))) = Latest(SeenTimes(Seen(Modelled(F2, m))))
             /\ {f.client : f \in Seen(Modelled(F1, m))} = {f.client : f \in Seen(Modelled(F2, m))}
             /\ Sum(Seen(Modelled(F1, m)), "requests") = Sum(Seen(Modelled(F2, m)), "requests")
             /\ Seen(Modelled(F1, m)) = {} <=> Seen(Modelled(F2, m)) = {}
  <2>. DEFINE P1 == Modelled(F1, m)
              P2 == Modelled(F2, m)
  <2>1. FactsAgree(P1, P2, now)
    BY AgreeModel
  <2>. HIDE DEF P1, P2
  <2>2. /\ Latest(SeenTimes(Seen(P1))) = Latest(SeenTimes(Seen(P2)))
        /\ {f.client : f \in Seen(P1)} = {f.client : f \in Seen(P2)}
        /\ Seen(P1) = {} <=> Seen(P2) = {}
    BY <2>1, AgreeTimes
  <2>3. FactNumbers(P1) /\ FactNumbers(P2)
    BY <2>1, AgreePaced
  <2>4. Sum(P1, "requests") = Sum(P2, "requests")
    BY <2>1, AgreeSums DEF Measures
  <2>5. Sum(Seen(P1), "requests") = Sum(P1, "requests")
    BY <2>1, <2>3, AgreeUnseen, SeenRequests
  <2>6. Sum(Seen(P2), "requests") = Sum(P2, "requests")
    BY <2>1, <2>3, AgreeUnseen, SeenRequests
  <2>. QED
    BY <2>2, <2>4, <2>5, <2>6 DEF P1, P2
<1>2. \A F : \A m : m \in {f.model : f \in {x \in Seen(F) : x.model # ""}} <=>
                      m # "" /\ Seen(Modelled(F, m)) # {}
  BY DEF Seen, Modelled
<1>3. {f.model : f \in {x \in Seen(F1) : x.model # ""}} =
        {f.model : f \in {x \in Seen(F2) : x.model # ""}}
  <2>. DEFINE M(F) == {f.model : f \in {x \in Seen(F) : x.model # ""}}
  <2>1. \A m : m \in M(F1) <=> m # "" /\ Seen(Modelled(F1, m)) # {}
    BY <1>2
  <2>2. \A m : m \in M(F2) <=> m # "" /\ Seen(Modelled(F2, m)) # {}
    BY <1>2
  <2>3. \A m : Seen(Modelled(F1, m)) = {} <=> Seen(Modelled(F2, m)) = {}
    BY <1>1
  <2>. HIDE DEF M
  <2>4. \A m : m \in M(F1) <=> m \in M(F2)
    BY <2>1, <2>2, <2>3
  <2>5. M(F1) \subseteq M(F2) /\ M(F2) \subseteq M(F1)
    BY <2>4
  <2>6. M(F1) = M(F2)
    BY <2>5
  <2>. QED
    BY <2>6 DEF M
<1>. QED
  BY <1>1, <1>3 DEF SeenOf

\* The endpoint of prices.
LEMMA PricesAgree ==
  ASSUME NEW R, NEW A, NEW now, Ready(R, A, now), NEW client
  PROVE  SeenModels(Reads(R, A), client) = SeenModels(Reads(R \cup A, {}), client)
<1>. DEFINE F1 == Served(Reads(R, A), client)
            F2 == Served(Reads(R \cup A, {}), client)
<1>1. FactsAgree(F1, F2, now)
  BY ServedAgree
<1>2. SeenModels(Reads(R, A), client) = SeenOf(F1)
        /\ SeenModels(Reads(R \cup A, {}), client) = SeenOf(F2)
  BY SeenModelsIs
<1>. HIDE DEF F1, F2
<1>3. SeenOf(F1) = SeenOf(F2)
  BY <1>1, AgreeSeen
<1>. QED
  BY <1>2, <1>3

-----------------------------------------------------------------------------
(* Costs that agree *)
CostsAgree(C1, C2, now) == \E key : CostsMerged(key, C1, C2, now)

CostSum(C)   == SumOf(Costs(C), C)
SampleSum(C) == SumOf(SamplesOf(C), C)

\* Costs that agree do so in what is made of them: sums, parts, metadata.
LEMMA CostsAgreeIn ==
  ASSUME NEW C1, NEW C2, NEW now, CostsAgree(C1, C2, now)
  PROVE  /\ IsFiniteSet(C1) /\ IsFiniteSet(C2)
         /\ CostSum(C1) = CostSum(C2) /\ SampleSum(C1) = SampleSum(C2)
<1>1. PICK key : CostsMerged(key, C1, C2, now)
  BY DEF CostsAgree
<1>2. CostNumbers(C1) /\ CostNumbers(C2)
  BY <1>1, MergedCostsAre
<1>3. Sorts(key, Costs(C2), Costs(C1), C2, C1) /\ Sorts(key, SamplesOf(C2), SamplesOf(C1), C2, C1)
  BY <1>1, CostDomains DEF CostsMerged, SortsAll
<1>4. SumOf(Costs(C1), C1) = SumOf(Costs(C2), C2)
  BY <1>3, SumSorted
<1>5. SumOf(SamplesOf(C1), C1) = SumOf(SamplesOf(C2), C2)
  BY <1>3, SumSorted
<1>. QED
  BY <1>2, <1>4, <1>5 DEF CostNumbers, CostSum, SampleSum

\* Parts of them.
CostPartsAlike(C1, C2, L, t, now) ==
  /\ t \subseteq C2 /\ L \subseteq C1
  /\ \A c \in C2, e \in C1 : CostAlike(c, e, now) => (c \in t <=> e \in L)

LEMMA CostsAgreePart ==
  ASSUME NEW C1, NEW C2, NEW now, CostsAgree(C1, C2, now),
         NEW L, NEW t, CostPartsAlike(C1, C2, L, t, now)
  PROVE  CostsAgree(L, t, now)
<1>1. PICK key : CostsMerged(key, C1, C2, now)
  BY DEF CostsAgree
<1>2. DOMAIN key = C2 /\ \A c \in C2 : key[c] \in C1
  BY <1>1, MergedCostsAre
<1>3. \A c \in C2 : CostAlike(c, key[c], now)
  BY <1>1 DEF CostsMerged
<1>4. Matched(key, C2, C1, t, L)
  BY <1>2, <1>3 DEF Matched, CostPartsAlike
<1>. QED
  BY <1>1, <1>4, CostsPart DEF CostsAgree

BySource(C, source) == {c \in C : c.source = source}

LEMMA CostsAgreeSource ==
  ASSUME NEW C1, NEW C2, NEW now, CostsAgree(C1, C2, now), NEW source
  PROVE  CostsAgree(BySource(C1, source), BySource(C2, source), now)
<1>1. CostPartsAlike(C1, C2, BySource(C1, source), BySource(C2, source), now)
  BY DEF CostPartsAlike, CostAlike, BySource
<1>. QED
  BY <1>1, CostsAgreePart

LEMMA CostsAgreeId ==
  ASSUME NEW C1, NEW C2, NEW now, CostsAgree(C1, C2, now), NEW id
  PROVE  CostsAgree(OfId(C1, id), OfId(C2, id), now)
<1>1. CostPartsAlike(C1, C2, OfId(C1, id), OfId(C2, id), now)
  BY DEF CostPartsAlike, CostAlike, OfId
<1>. QED
  BY <1>1, CostsAgreePart

LEMMA CostsAgreeDuring ==
  ASSUME NEW C1, NEW C2, NEW now \in Int, CostsAgree(C1, C2, now), NEW w, Rounded(w, now)
  PROVE  CostsAgree(During(C1, w), During(C2, w), now)
<1>1. ASSUME NEW c \in C2, NEW e \in C1, CostAlike(c, e, now)
      PROVE  c \in During(C2, w) <=> e \in During(C1, w)
  <2>1. c.ts \in Int
    BY <1>1 DEF CostAlike
  <2>2. CASE e = c
    BY <2>2 DEF During
  <2>3. CASE e.ts = TheHour(c.ts) /\ Past(c.ts, now)
    <3>1. w.start <= c.ts /\ c.ts < w.end <=> w.start <= TheHour(c.ts) /\ TheHour(c.ts) < w.end
      BY <2>1, <2>3, HourInWindow
    <3>. QED
      BY <2>3, <3>1 DEF During
  <2>. QED
    BY <1>1, <2>2, <2>3 DEF CostAlike
<1>2. CostPartsAlike(C1, C2, During(C1, w), During(C2, w), now)
  BY <1>1 DEF CostPartsAlike, During
<1>. QED
  BY <1>2, CostsAgreePart

\* What is said of costs, by sums.
SamplesFrom(C) == [s \in {"native", "local", "legacy"} |-> SampleSum(BySource(C, s))]

MetaFrom(q, legacySession, count, sum) ==
  LET found == {s \in {"native", "local", "legacy"} :
                  q[s] > 0 \/ (s = "legacy" /\ legacySession > 0)}
  IN  [available |-> found # {},
       source    |-> CASE found = {} -> "unknown"
                       [] Cardinality(found) = 1 -> CHOOSE s \in found : TRUE
                       [] OTHER -> "mixed",
       turns     |-> q["native"],
       estimate  |-> IF count = 0 THEN Null ELSE sum]

LEMMA MetadataIs ==
  ASSUME NEW C, IsFiniteSet(C), NEW L, IsFiniteSet(L), NEW n
  PROVE  CostMetadata(C, n, L) = MetaFrom(SamplesFrom(C), n, SampleSum(L), CostSum(L))
<1>1. \A s : Total(LAMBDA c : c.samples, {c \in C : c.source = s}) = SampleSum(BySource(C, s))
  <2>. SUFFICES ASSUME NEW s
                PROVE  Total(LAMBDA c : c.samples, {c \in C : c.source = s}) =
                         SampleSum(BySource(C, s))
    OBVIOUS
  <2>1. IsFiniteSet(BySource(C, s))
    BY FS_Subset DEF BySource
  <2>2. Total(LAMBDA c : c.samples, BySource(C, s)) =
          SumOf(SamplesOf(BySource(C, s)), BySource(C, s))
    BY <2>1, TotalSamples
  <2>. QED
    BY <2>2 DEF BySource, SampleSum
<1>2. Total(LAMBDA c : c.samples, L) = SampleSum(L)
  BY TotalSamples DEF SampleSum
<1>3. Total(LAMBDA c : c.cost, L) = CostSum(L)
  BY TotalCosts DEF CostSum
<1>. QED
  BY <1>1, <1>2, <1>3 DEF CostMetadata, MetaFrom, SamplesFrom

LEMMA MetadataAgree ==
  ASSUME NEW C1, NEW C2, NEW now, CostsAgree(C1, C2, now),
         NEW L1, NEW L2, CostsAgree(L1, L2, now), NEW n
  PROVE  CostMetadata(C1, n, L1) = CostMetadata(C2, n, L2)
<1>1. /\ IsFiniteSet(C1) /\ IsFiniteSet(C2) /\ IsFiniteSet(L1) /\ IsFiniteSet(L2)
      /\ SampleSum(L1) = SampleSum(L2) /\ CostSum(L1) = CostSum(L2)
  BY CostsAgreeIn
<1>2. \A s : SampleSum(BySource(C1, s)) = SampleSum(BySource(C2, s))
  BY CostsAgreeSource, CostsAgreeIn
<1>3. SamplesFrom(C1) = SamplesFrom(C2)
  BY <1>2 DEF SamplesFrom
<1>4. CostMetadata(C1, n, L1) = MetaFrom(SamplesFrom(C1), n, SampleSum(L1), CostSum(L1))
  BY <1>1, MetadataIs
<1>5. CostMetadata(C2, n, L2) = MetaFrom(SamplesFrom(C2), n, SampleSum(L2), CostSum(L2))
  BY <1>1, MetadataIs
<1>. QED
  BY <1>1, <1>3, <1>4, <1>5

\* The cost of a conversation, and where it is from.
LEMMA ViewCostsAgree ==
  ASSUME NEW R, NEW A, NEW now, Ready(R, A, now)
  PROVE  /\ CostsAgree(Reads(R, A).costs, Reads(R \cup A, {}).costs, now)
         /\ CostsAgree(Reads(R, A).locals, Reads(R \cup A, {}).locals, now)
BY ReadsAre, SelectedMerged, LocalsMerged DEF CostsAgree, Ready

LEMMA ConversationIs ==
  ASSUME NEW d, IsFiniteSet(d.costs), NEW id
  PROVE  ConversationCost(d, id) =
           [total |-> CostSum(OfId(d.costs, id)) + LegacyCost(id),
            meta  |-> CostMetadata(OfId(d.costs, id), LegacyCost(id), OfId(d.locals, id))]
<1>1. IsFiniteSet(OfId(d.costs, id))
  BY FS_Subset DEF OfId
<1>2. Total(LAMBDA c : c.cost, OfId(d.costs, id)) = CostSum(OfId(d.costs, id))
  BY <1>1, TotalCosts DEF CostSum
<1>. QED
  BY <1>2 DEF ConversationCost, OfId

\* What a conversation costs does not tell what has been archived.
LEMMA ConversationAgrees ==
  ASSUME NEW R, NEW A, NEW now, Ready(R, A, now), NEW id
  PROVE  ConversationCost(Reads(R, A), id) = ConversationCost(Reads(R \cup A, {}), id)
<1>. DEFINE d1 == Reads(R, A)
            d2 == Reads(R \cup A, {})
<1>1. CostsAgree(d1.costs, d2.costs, now) /\ CostsAgree(d1.locals, d2.locals, now)
  BY ViewCostsAgree
<1>. HIDE DEF d1, d2
<1>2. CostsAgree(OfId(d1.costs, id), OfId(d2.costs, id), now) /\
      CostsAgree(OfId(d1.locals, id), OfId(d2.locals, id), now)
  BY <1>1, CostsAgreeId
<1>3. CostSum(OfId(d1.costs, id)) = CostSum(OfId(d2.costs, id))
  BY <1>2, CostsAgreeIn
<1>4. CostMetadata(OfId(d1.costs, id), LegacyCost(id), OfId(d1.locals, id)) =
      CostMetadata(OfId(d2.costs, id), LegacyCost(id), OfId(d2.locals, id))
  BY <1>2, MetadataAgree
<1>5. IsFiniteSet(d1.costs) /\ IsFiniteSet(d2.costs)
  BY <1>1, CostsAgreeIn
<1>6. ConversationCost(d1, id) = ConversationCost(d2, id)
  BY <1>3, <1>4, <1>5, ConversationIs
<1>. QED
  BY <1>6 DEF d1, d2

-----------------------------------------------------------------------------
(* Where costs are from *)
IsCost(r)  == r.table = "cost_usage"
OfClaude(k) == k.client = "claude"

\* What Claude says a request cost is more than nothing.
PositiveCosts(S) == \A r \in S : IsCost(r) => r.value > 0

\* Whether Claude charged anything.
LEMMA CostRowsAre ==
  ASSUME NEW S, NEW r
  PROVE  /\ r \in Of(S, "cost_usage") <=> r \in S /\ IsCost(r)
         /\ IsCost(r) => (r \in UsageRows(S) <=> r \in S) /\ OfClaude(UsageKey(r))
         /\ IsCost(r) => Amount(r, "cost") = r.value
<1>1. IsCost(r) => (r \in UsageRows(S) <=> r \in S)
  BY DEF IsCost, UsageRows, In, ValidUsage
<1>2. IsCost(r) => OfClaude(UsageKey(r))
  BY DEF IsCost, OfClaude, UsageKey, Client, ClaudeTables
<1>3. IsCost(r) => Amount(r, "cost") = r.value
  BY DEF IsCost, Amount, Adds
<1>. QED
  BY <1>1, <1>2, <1>3 DEF Of, IsCost

LEMMA OtherClaudeRows ==
  ASSUME NEW S, NEW r \in UsageRows(S), OfClaude(UsageKey(r)), ~IsCost(r)
  PROVE  Amount(r, "cost") = 0
<1>1. Client(r) = "claude"
  BY DEF OfClaude, UsageKey
<1>2. r.table = "token_usage" \/ r.table = "api_request"
  <2>1. r.table \in {"token_usage", "cost_usage", "api_request", "response_tbt",
          "codex_token_usage"}
    BY DEF UsageRows, In, ValidUsage, Valid
  <2>2. r.table \notin {"response_tbt", "codex_token_usage"}
    BY <1>1 DEF Client, ClaudeTables
  <2>. QED
    BY <2>1, <2>2 DEF IsCost
<1>3. CASE r.table = "token_usage"
  <2>1. Adds(r) = [c \in {"tokens_total"} \cup OfType(TypeColumns, r.type) |-> r.value]
          ++ [token_rows |-> 1]
    BY <1>3 DEF Adds
  <2>2. "cost" \notin OfType(TypeColumns, r.type)
    BY DEF OfType, TypeColumns
  <2>3. "cost" \notin DOMAIN Adds(r)
    BY <2>1, <2>2 DEF ++
  <2>. QED
    BY <2>3 DEF Amount
<1>4. CASE r.table = "api_request"
  <2>1. "cost" \notin DOMAIN Adds(r)
    BY <1>4 DEF Adds, ++
  <2>. QED
    BY <2>1 DEF Amount
<1>. QED
  BY <1>2, <1>3, <1>4

Covers(w, t) == w.start <= t /\ t < w.end

\* An archived hour of Claude's costs something if and only if there is a cost in it.
LEMMA ChargedHours ==
  ASSUME NEW A, Factual(A), PositiveCosts(A), NEW H, H = UsageHourly(A),
         NEW k \in DOMAIN H, OfClaude(k)
  PROVE  H[k].cost # 0 <=> \E r \in A : IsCost(r) /\ UsageKey(r) = k
<1>. DEFINE own == {r \in UsageRows(A) : UsageKey(r) = k}
            g == ColumnOf(own, "cost")
<1>1. /\ H[k] = Summed(own) /\ Columned(own) /\ own \subseteq UsageRows(A)
  BY BucketIs
<1>2. "cost" \in UsageColumns
  BY DEF UsageColumns
<1>3. Numbers(g) /\ DOMAIN g = own /\ \A r \in own : g[r] = Amount(r, "cost")
  <2>. HIDE DEF own
  <2>. QED
    BY <1>1, <1>2, ColumnNumbers
<1>4. H[k].cost = SumOf(g, own)
  BY <1>1, SummedAre
<1>5. \A r \in own : /\ IsCost(r) => g[r] > 0
                     /\ ~IsCost(r) => g[r] = 0
  <2>1. \A r \in own : OfClaude(UsageKey(r)) /\ r \in A
    BY CostRowsAre, UsageIsFinite DEF Factual
  <2>2. ASSUME NEW r \in own, IsCost(r) PROVE g[r] > 0
    BY <1>3, <2>1, <2>2, CostRowsAre DEF PositiveCosts
  <2>3. ASSUME NEW r \in own, ~IsCost(r) PROVE g[r] = 0
    BY <1>3, <2>1, <2>3, OtherClaudeRows
  <2>. QED
    BY <2>2, <2>3
<1>6. \A r : r \in own /\ IsCost(r) <=> r \in A /\ IsCost(r) /\ UsageKey(r) = k
  BY CostRowsAre
<1>. HIDE DEF own, g
<1>7. \A r \in own : g[r] >= 0 /\ g[r] \in Int
  BY <1>3, <1>5 DEF Numbers
<1>8. /\ SumOf(g, own) > 0 <=> \E r \in own : g[r] > 0
      /\ SumOf(g, own) >= 0
  BY <1>3, <1>7, SumPositive
<1>9. SumOf(g, own) # 0 <=> \E r \in own : g[r] > 0
  BY <1>3, <1>8, SumType
<1>. QED
  BY <1>4, <1>5, <1>6, <1>9

\* Claude's costs in a window.
ChargedIn(d, w) ==
  \/ \E r \in Of(d.raw, "cost_usage") : Covers(w, r.ts)
  \/ \E k \in DOMAIN d.hourly : OfClaude(k) /\ d.hourly[k].cost # 0 /\ Covers(w, k.bucket)

\* Rows of cost or hours with some: the same, as no cost is zero or less.
LEMMA ChargedAgrees ==
  ASSUME NEW R, NEW A, NEW now, Ready(R, A, now), PositiveCosts(A), NEW w, Rounded(w, now)
  PROVE  ChargedIn(Reads(R, A), w) <=> ChargedIn(Reads(R \cup A, {}), w)
<1>. DEFINE H == UsageHourly(A)
<1>1. Factual(A) /\ now \in Int /\ \A r \in A : r.ts \in Int /\ Past(r.ts, now)
  BY FactualParts DEF Ready, Aged
<1>2. ASSUME NEW r \in A PROVE Covers(w, r.ts) <=> Covers(w, UsageKey(r).bucket)
  BY <1>1, HourInWindow, UsageKeyIs DEF Covers
<1>3. DOMAIN H = {UsageKey(r) : r \in UsageRows(A)}
  BY DEF UsageHourly
<1>4. (\E k \in DOMAIN H : OfClaude(k) /\ H[k].cost # 0 /\ Covers(w, k.bucket)) <=>
      (\E r \in A : IsCost(r) /\ Covers(w, r.ts))
  <2>1. ASSUME NEW k \in DOMAIN H, OfClaude(k)
        PROVE  H[k].cost # 0 <=> \E r \in A : IsCost(r) /\ UsageKey(r) = k
    BY <1>1, <2>1, ChargedHours
  <2>2. \A r \in A : IsCost(r) => OfClaude(UsageKey(r)) /\ UsageKey(r) \in DOMAIN H
    BY <1>3, CostRowsAre
  <2>. HIDE DEF H
  <2>. QED
    BY <1>2, <2>1, <2>2
<1>5. \A S : (\E r \in Of(S, "cost_usage") : Covers(w, r.ts)) <=>
        (\E r \in S : IsCost(r) /\ Covers(w, r.ts))
  BY CostRowsAre
<1>6. ChargedIn(Reads(R, A), w) <=>
        \/ \E r \in R : IsCost(r) /\ Covers(w, r.ts)
        \/ \E r \in A : IsCost(r) /\ Covers(w, r.ts)
  BY <1>4, <1>5, ReadsAre DEF ChargedIn
<1>7. ChargedIn(Reads(R \cup A, {}), w) <=> \E r \in R \cup A : IsCost(r) /\ Covers(w, r.ts)
  BY <1>5, ReadsAre, NoHourly DEF ChargedIn
<1>. QED
  BY <1>6, <1>7

SourceOf(codex, client, observed) ==
  IF client = "codex" \/ ~observed THEN codex
  ELSE [codex EXCEPT !.available = TRUE,
                     !.source = IF codex.available THEN "mixed" ELSE "authoritative"]

LEMMA CostSourceIs ==
  ASSUME NEW d, NEW client, NEW w
  PROVE  CostSource(d, client, w) =
           SourceOf(IF "codex" \notin Arms(client) THEN CostMetadata({}, 0, {})
                    ELSE CostMetadata(During(d.costs, w), 0, During(d.locals, w)),
                    client, client = "claude" \/ ChargedIn(d, w))
<1>. DEFINE charged == {r.ts : r \in Of(d.raw, "cost_usage")} \cup
                {k.bucket : k \in {l \in DOMAIN d.hourly :
                                        l.client = "claude" /\ d.hourly[l].cost # 0}}
<1>1. (\E t \in charged : w.start <= t /\ t < w.end) <=> ChargedIn(d, w)
  BY DEF ChargedIn, Covers, OfClaude
<1>. QED
  BY <1>1 DEF CostSource, SourceOf

\* Where costs come from, as an answer says.
LEMMA CostSourceAgrees ==
  ASSUME NEW R, NEW A, NEW now, Ready(R, A, now), PositiveCosts(A), NEW w, Rounded(w, now),
           NEW client
  PROVE  CostSource(Reads(R, A), client, w) = CostSource(Reads(R \cup A, {}), client, w)
<1>. DEFINE d1 == Reads(R, A)
            d2 == Reads(R \cup A, {})
<1>1. CostsAgree(d1.costs, d2.costs, now) /\ CostsAgree(d1.locals, d2.locals, now)
  BY ViewCostsAgree
<1>2. ChargedIn(d1, w) <=> ChargedIn(d2, w)
  BY ChargedAgrees
<1>3. now \in Int
  BY DEF Ready, Aged
<1>. HIDE DEF d1, d2
<1>4. CostsAgree(During(d1.costs, w), During(d2.costs, w), now) /\
      CostsAgree(During(d1.locals, w), During(d2.locals, w), now)
  BY <1>1, <1>3, CostsAgreeDuring
<1>5. CostMetadata(During(d1.costs, w), 0, During(d1.locals, w)) =
      CostMetadata(During(d2.costs, w), 0, During(d2.locals, w))
  BY <1>4, MetadataAgree
<1>6. CostSource(d1, client, w) = CostSource(d2, client, w)
  BY <1>2, <1>5, CostSourceIs
<1>. QED
  BY <1>6 DEF d1, d2

-----------------------------------------------------------------------------
(* Endpoints over facts and costs *)

\* The overview has three windows, and bars of one of them.
LEMMA OverviewParts ==
  ASSUME NEW F1, NEW F2, NEW now \in Int, FactsAgree(F1, F2, now), NEW range \in Ranges,
         NEW w, Rounded(w.current, now), Rounded(w.previous, now), Rounded(w.sparkline, now)
  PROVE  /\ \A ms \in SUBSET Measures : Sums(Within(F1, w.current), ms) =
              Sums(Within(F2, w.current), ms)
         /\ \A ms \in SUBSET Measures : Sums(Within(F1, w.previous), ms) =
              Sums(Within(F2, w.previous), ms)
         /\ \A ms \in SUBSET Measures : \A start, count :
              Chart(Within(F1, w.sparkline), now, range, start, count, ms) =
              Chart(Within(F2, w.sparkline), now, range, start, count, ms)
         /\ \A ms \in SUBSET Measures : PerModel(Costed(F1), ms) = PerModel(Costed(F2), ms)
<1>1. ASSUME NEW v, Rounded(v, now), NEW ms \in SUBSET Measures
      PROVE  Sums(Within(F1, v), ms) = Sums(Within(F2, v), ms)
  <2>1. FactsAgree(Within(F1, v), Within(F2, v), now)
    BY <1>1, AgreeWithin
  <2>. QED
    BY <2>1, AgreeRecords
<1>2. ASSUME NEW v, Rounded(v, now), NEW ms \in SUBSET Measures, NEW start, NEW count
      PROVE  Chart(Within(F1, v), now, range, start, count, ms) =
             Chart(Within(F2, v), now, range, start, count, ms)
  <2>1. FactsAgree(Within(F1, v), Within(F2, v), now)
    BY <1>2, AgreeWithin
  <2>. QED
    BY <2>1, AgreeChart
<1>3. \A ms \in SUBSET Measures : PerModel(Costed(F1), ms) = PerModel(Costed(F2), ms)
  BY AgreeCosted, AgreePerModel
<1>. QED
  BY <1>1, <1>2, <1>3

LEMMA OverviewMeasures ==
  /\ {"in", "out", "total", "cost", "read", "creation", "denom", "requests"} \in SUBSET Measures
  /\ {"total", "cost", "requests"} \in SUBSET Measures
  /\ {"in", "out", "read", "written", "reasoning", "requests", "cost"} \in SUBSET Measures
  /\ {"requests", "gross", "out", "cost"} \in SUBSET Measures
BY DEF Measures

\* The endpoints of the overview, the heatmap and the models of a period.
LEMMA OverviewAgrees ==
  ASSUME NEW R, NEW A, NEW now, Ready(R, A, now), PositiveCosts(A), NEW client, NEW range \in Ranges
  PROVE  Overview(Reads(R, A), client, range, now) =
           Overview(Reads(R \cup A, {}), client, range, now)
<1>. DEFINE d1 == Reads(R, A)
            d2 == Reads(R \cup A, {})
            F1 == Served(d1, client)
            F2 == Served(d2, client)
            w  == Resolve(Zone, now, range)
<1>1. now \in Int
  BY DEF Ready, Aged
<1>2. FactsAgree(F1, F2, now)
  BY ServedAgree
<1>3. Rounded(w.current, now) /\ Rounded(w.previous, now) /\ Rounded(w.sparkline, now)
  BY <1>1, WindowsRounded
<1>. HIDE DEF F1, F2, w
<1>4. CostSource(d1, client, w.current) = CostSource(d2, client, w.current)
  BY <1>3, CostSourceAgrees
<1>. HIDE DEF d1, d2
<1>5. /\ \A ms \in SUBSET Measures : Sums(Within(F1, w.current), ms) =
           Sums(Within(F2, w.current), ms)
      /\ \A ms \in SUBSET Measures : Sums(Within(F1, w.previous), ms) =
           Sums(Within(F2, w.previous), ms)
      /\ \A ms \in SUBSET Measures : \A start, count :
              Chart(Within(F1, w.sparkline), now, range, start, count, ms) =
              Chart(Within(F2, w.sparkline), now, range, start, count, ms)
      /\ \A ms \in SUBSET Measures : PerModel(Costed(F1), ms) = PerModel(Costed(F2), ms)
  BY <1>1, <1>2, <1>3, OverviewParts
<1>6. OverviewOf(d1, F1, client, range, w, now) = OverviewOf(d2, F2, client, range, w, now)
  BY <1>4, <1>5, OverviewMeasures DEF OverviewOf
<1>. QED
  BY <1>6 DEF Overview, d1, d2, F1, F2, w

LEMMA HeatmapAgrees ==
  ASSUME NEW R, NEW A, NEW now, Ready(R, A, now), PositiveCosts(A), NEW client
  PROVE  Heatmap(Reads(R, A), client, now) = Heatmap(Reads(R \cup A, {}), client, now)
<1>. DEFINE d1 == Reads(R, A)
            d2 == Reads(R \cup A, {})
            F1 == Served(d1, client)
            F2 == Served(d2, client)
            w  == Window(HeatmapStart(Zone, now), TodayStart(Zone, now) + HoursPerDay)
<1>1. now \in Int
  BY DEF Ready, Aged
<1>2. FactsAgree(F1, F2, now)
  BY ServedAgree
<1>3. Rounded(w, now)
  BY <1>1, HeatmapRounded
<1>. HIDE DEF F1, F2, w
<1>4. CostSource(d1, client, w) = CostSource(d2, client, w)
  BY <1>3, CostSourceAgrees
<1>. HIDE DEF d1, d2
<1>5. FactsAgree(Within(F1, w), Within(F2, w), now)
  BY <1>1, <1>2, <1>3, AgreeWithin
<1>6. \A start, count :
        Chart(Within(F1, w), now, "day", start, count, {"total", "cost", "requests"}) =
        Chart(Within(F2, w), now, "day", start, count, {"total", "cost", "requests"})
  <2>1. "day" \in Ranges
    BY DEF Ranges
  <2>. QED
    BY <1>1, <1>5, <2>1, OverviewMeasures, AgreeChart
<1>. QED
  BY <1>4, <1>6 DEF Heatmap, d1, d2, F1, F2, w

LEMMA PeriodModelsAgree ==
  ASSUME NEW R, NEW A, NEW now, Ready(R, A, now), PositiveCosts(A), NEW client, NEW range \in Ranges
  PROVE  PeriodModels(Reads(R, A), client, range, now) =
           PeriodModels(Reads(R \cup A, {}), client, range, now)
<1>. DEFINE d1 == Reads(R, A)
            d2 == Reads(R \cup A, {})
            F1 == Served(d1, client)
            F2 == Served(d2, client)
            w  == Resolve(Zone, now, range).current
<1>1. now \in Int
  BY DEF Ready, Aged
<1>2. FactsAgree(F1, F2, now)
  BY ServedAgree
<1>3. Rounded(w, now)
  BY <1>1, WindowsRounded
<1>. HIDE DEF F1, F2, w
<1>4. CostSource(d1, client, w) = CostSource(d2, client, w)
  BY <1>3, CostSourceAgrees
<1>. HIDE DEF d1, d2
<1>5. FactsAgree(Within(F1, w), Within(F2, w), now)
  BY <1>1, <1>2, <1>3, AgreeWithin
<1>6. PerModel(Within(F1, w), {"requests", "gross", "out", "cost"}) =
      PerModel(Within(F2, w), {"requests", "gross", "out", "cost"})
  BY <1>5, OverviewMeasures, AgreePerModel
<1>. QED
  BY <1>4, <1>6 DEF PeriodModels, d1, d2, F1, F2, w

-----------------------------------------------------------------------------
(* The speed of a moment ago, of raw rows alone *)
LEMMA RealtimeAgrees ==
  ASSUME NEW R, NEW A, NEW now, Ready(R, A, now), NEW client
  PROVE  RealtimeSpeed(R, client, now) = RealtimeSpeed(R \cup A, client, now)
<1>. DEFINE Q(S) == {r \in In(S, {"api_request", "response_tbt"}) : Client(r) = client
              /\ Measured(r)}
            start == now - 2 * RealtimeTicks
            split == now - RealtimeTicks
<1>0. now \in Int /\ \A r \in A : r.ts \in Int /\ Past(r.ts, now)
  BY DEF Ready, Aged
<1>1. \A r \in A : r.ts \in Int /\ r.ts < start /\ r.ts < split
  BY <1>0, PastFacts, WindowAssumption
<1>2. Q(R \cup A) = Q(R) \cup Q(A) /\ Q(A) \subseteq A
  BY DEF In
<1>3. start \in Int /\ split \in Int
  BY <1>0, WindowAssumption
<1>4. \A S : RealtimeSpeed(S, client, now) = SpeedPair(Q(S), start, split, now)
  BY DEF RealtimeSpeed
<1>. HIDE DEF Q, start, split
<1>5. \A from \in {start, split} : \A to :
        {q \in Q(R \cup A) : from <= q.ts /\ q.ts < to} = {q \in Q(R) : from <= q.ts /\ q.ts < to}
  <2>. SUFFICES ASSUME NEW from \in {start, split}, NEW to
                PROVE  \A q \in Q(A) : ~(from <= q.ts)
    BY <1>2
  <2>1. \A q \in Q(A) : q.ts \in Int /\ q.ts < from /\ from \in Int
    BY <1>1, <1>2, <1>3
  <2>. QED
    BY <2>1
<1>6. SpeedPair(Q(R \cup A), start, split, now) = SpeedPair(Q(R), start, split, now)
  BY <1>5 DEF SpeedPair
<1>. QED
  BY <1>4, <1>6

-----------------------------------------------------------------------------
(* What is raw and what has been sorted, added up *)
\* g is sorted into q where it is of T, and s has nothing of T.
HotAndCold(key, g, q, s, T, K) ==
  /\ Sorts(key, g, q, T, K) /\ s \subseteq DOMAIN g /\ s \cap T = {}

\* The rows of a window and the hours of the archived ones add up to all of them.
LEMMA HotAndColdAdd ==
  ASSUME NEW key, NEW g, NEW q, NEW s, NEW T, NEW K, HotAndCold(key, g, q, s, T, K),
         NEW t, NEW L, Matched(key, T, K, t, L)
  PROVE  SumOf(g, s) + SumOf(q, L) = SumOf(g, s \cup t)
<1>1. SumOf(q, L) = SumOf(g, t)
  BY SumMatched DEF HotAndCold
<1>2. s \in SUBSET DOMAIN g /\ t \in SUBSET DOMAIN g /\ s \cap t = {} /\ Numbers(g)
  BY DEF HotAndCold, Sorts, Matched
<1>. QED
  BY <1>1, <1>2, SumUnion

-----------------------------------------------------------------------------
(* Counts by name *)
UsesOf(S) == [r \in S |-> Uses(r)]

\* As TotalAmounts.
LEMMA TotalUses ==
  ASSUME NEW S, IsFiniteSet(S)
  PROVE  Total(Uses, S) = SumOf(UsesOf(S), S)
<1>. DEFINE Is(f) == f = [s \in SUBSET S |->
                       IF s = {} THEN 0
                       ELSE Uses(CHOOSE x \in s : TRUE) + f[s \ {CHOOSE x \in s : TRUE}]]
<1>1. Total(Uses, S) = (CHOOSE f : Is(f))[S]
  BY DEF Total, MapThenSumSet, MapThenFoldSet
<1>2. \A f : Is(f) <=> IsSum(f, UsesOf(S))
  <2>1. \A s \in SUBSET S : s # {} => UsesOf(S)[Some(s)] = Uses(CHOOSE x \in s : TRUE)
    BY SomeIs DEF Some, UsesOf
  <2>. QED
    BY <2>1 DEF IsSum, Some, UsesOf
<1>. HIDE DEF Is
<1>3. (CHOOSE f : Is(f)) = (CHOOSE f : IsSum(f, UsesOf(S)))
  BY <1>2, Zenon
<1>. QED
  BY <1>1, <1>3, Zenon DEF SumOf, SumOver

\* Columns of a summary itself.
CountsOf(H, S) == [k \in S |-> H[k]]

\* As TotalAmounts, for hours that count.
LEMMA TotalCounts ==
  ASSUME NEW S, IsFiniteSet(S), NEW H
  PROVE  Total(LAMBDA k : H[k], S) = SumOf(CountsOf(H, S), S)
<1>. DEFINE Is(f) == f = [s \in SUBSET S |->
                       IF s = {} THEN 0
                       ELSE H[CHOOSE x \in s : TRUE] + f[s \ {CHOOSE x \in s : TRUE}]]
<1>1. Total(LAMBDA k : H[k], S) = (CHOOSE f : Is(f))[S]
  BY DEF Total, MapThenSumSet, MapThenFoldSet
<1>2. \A f : Is(f) <=> IsSum(f, CountsOf(H, S))
  <2>1. \A s \in SUBSET S : s # {} => CountsOf(H, S)[Some(s)] = H[CHOOSE x \in s : TRUE]
    BY SomeIs DEF Some, CountsOf
  <2>. QED
    BY <2>1 DEF IsSum, Some, CountsOf
<1>. HIDE DEF Is
<1>3. (CHOOSE f : Is(f)) = (CHOOSE f : IsSum(f, CountsOf(H, S)))
  BY <1>2, Zenon
<1>. QED
  BY <1>1, <1>3, Zenon DEF SumOf, SumOver

\* The same over part of what has numbers.
LEMMA PartOfUses ==
  ASSUME NEW V, Numbers(UsesOf(V)), NEW S, S \subseteq V
  PROVE  IsFiniteSet(S) /\ Total(Uses, S) = SumOf(UsesOf(V), S)
<1>1. DOMAIN UsesOf(V) = V /\ IsFiniteSet(V) /\ DOMAIN UsesOf(S) = S
  BY DEF UsesOf, Numbers
<1>2. IsFiniteSet(S)
  BY <1>1, FS_Subset
<1>3. Numbers(UsesOf(S)) /\ \A x \in S : UsesOf(S)[x] = UsesOf(V)[x]
  BY <1>1, <1>2 DEF UsesOf, Numbers
<1>4. SumOf(UsesOf(S), S) = SumOf(UsesOf(V), S)
  BY <1>1, <1>3, SumLocal
<1>. QED
  BY <1>2, <1>4, TotalUses

LEMMA PartOfCounts ==
  ASSUME NEW H, Numbers(H), NEW S, S \subseteq DOMAIN H
  PROVE  IsFiniteSet(S) /\ Total(LAMBDA k : H[k], S) = SumOf(H, S)
<1>1. DOMAIN CountsOf(H, S) = S /\ IsFiniteSet(S)
  BY FS_Subset DEF CountsOf, Numbers
<1>2. Numbers(CountsOf(H, S)) /\ \A x \in S : CountsOf(H, S)[x] = H[x]
  BY <1>1 DEF CountsOf, Numbers
<1>3. SumOf(CountsOf(H, S), S) = SumOf(H, S)
  BY <1>1, <1>2, SumLocal
<1>. QED
  BY <1>1, <1>3, TotalCounts

\* Hours with what the rows V come to, by name.
NameHours(H, V) ==
  /\ DOMAIN H = {NameKey(r) : r \in V}
  /\ \A k \in DOMAIN H : H[k] = SumOf(UsesOf(V), {r \in V : NameKey(r) = k})

\* Hours by name sort the uses that were archived.
LEMMA NameKeyIs ==
  \A r : /\ NameKey(r).bucket = TheHour(r.ts) /\ NameKey(r).client = Client(r)
         /\ NameKey(r).name = r.name
BY DEF NameKey

LEMMA NamesSort ==
  ASSUME NEW W, Numbers(UsesOf(W)), NEW V, V \subseteq W, NEW H, NameHours(H, V)
  PROVE  /\ Numbers(H)
         /\ Sorts([r \in V |-> NameKey(r)], UsesOf(W), H, V, DOMAIN H)
<1>. DEFINE g == UsesOf(W)
            key == [r \in V |-> NameKey(r)]
            Own(k) == {r \in V : NameKey(r) = k}
<1>1. DOMAIN g = W /\ IsFiniteSet(W) /\ IsFiniteSet(V) /\ DOMAIN UsesOf(V) = V
  BY FS_Subset DEF UsesOf, Numbers
<1>2. Numbers(UsesOf(V)) /\ \A r \in V : UsesOf(V)[r] = g[r]
  BY <1>1 DEF UsesOf, Numbers
<1>3. \A k \in DOMAIN H : H[k] = SumOf(UsesOf(V), Own(k))
  BY DEF NameHours
<1>4. IsFiniteSet(DOMAIN H)
  <2>1. IsFiniteSet({key[x] : x \in V})
    BY <1>1, FiniteValues
  <2>2. {key[x] : x \in V} = {NameKey(r) : r \in V}
    OBVIOUS
  <2>. QED
    BY <2>1, <2>2 DEF NameHours
<1>5. \A k : Own(k) \in SUBSET V
  OBVIOUS
<1>6. \A r \in V : key[r] = NameKey(r) /\ key[r] \in DOMAIN H
  BY DEF NameHours
<1>7. \A k : {x \in V : key[x] = k} = Own(k)
  OBVIOUS
<1>8. DOMAIN key = V
  OBVIOUS
<1>. HIDE DEF g, Own, key
<1>9. ASSUME NEW k \in DOMAIN H
      PROVE  H[k] = SumOf(g, Own(k)) /\ H[k] \in Int
  <2>1. Own(k) \in SUBSET DOMAIN UsesOf(V) /\ Own(k) \subseteq DOMAIN g
    BY <1>1, <1>5
  <2>2. SumOf(g, Own(k)) = SumOf(UsesOf(V), Own(k))
    BY <1>1, <1>2, <1>5, <2>1, SumLocal DEF g
  <2>3. SumOf(UsesOf(V), Own(k)) \in Int
    BY <1>2, <2>1, SumType
  <2>. QED
    BY <1>3, <2>2, <2>3
<1>10. Numbers(H)
  BY <1>4, <1>9 DEF Numbers
<1>11. Numbers(g)
  BY DEF g
<1>12. Sorts(key, g, H, V, DOMAIN H)
  BY <1>1, <1>6, <1>7, <1>8, <1>9, <1>10, <1>11 DEF Sorts
<1>. QED
  BY <1>10, <1>12 DEF g, key

\* The rows of a ranking, and what they come to.
RankedRows(W, client, since) == {r \in W : Client(r) \in Arms(client) /\ r.ts >= since}
RankOf(W, client, since) ==
  [n \in {r.name : r \in RankedRows(W, client, since)} |->
     SumOf(UsesOf(W), {r \in RankedRows(W, client, since) : r.name = n})]

\* A ranking of rows and hours is one of rows.
LEMMA RankingIs ==
  ASSUME NEW VR, NEW VA, VR \cap VA = {}, Numbers(UsesOf(VR \cup VA)), NEW H, NameHours(H, VA),
         \A r \in VA : r.ts \in Int, NEW client, NEW since, OnHour(since)
  PROVE  Ranking(VR, H, client, since) = RankOf(VR \cup VA, client, since)
<1>. DEFINE W    == VR \cup VA
            g    == UsesOf(W)
            key  == [r \in VA |-> NameKey(r)]
            own  == RankedRows(VR, client, since)
            old  == RankedRows(VA, client, since)
            kept == {k \in DOMAIN H : k.client \in Arms(client) /\ k.bucket >= since}
            hot(n)  == {r \in own : r.name = n}
            cold(n) == {r \in old : r.name = n}
            keys(n) == {k \in kept : k.name = n}
<1>1. Numbers(H) /\ Sorts(key, g, H, VA, DOMAIN H)
  BY NamesSort
<1>2. \A r \in VA : TheHour(r.ts) >= since <=> r.ts >= since
  BY HourBefore
<1>3. DOMAIN H = {NameKey(r) : r \in VA}
  BY DEF NameHours
<1>4. \A r \in VA : r \in old <=> NameKey(r) \in kept
  BY <1>2, <1>3, NameKeyIs DEF RankedRows
<1>5. own \subseteq VR /\ old \subseteq VA /\ kept \subseteq DOMAIN H
  BY DEF RankedRows
<1>6. RankedRows(W, client, since) = own \cup old
  BY DEF RankedRows
<1>7. {r.name : r \in own} \cup {k.name : k \in kept} = {r.name : r \in own \cup old}
  <2>1. \A k \in kept : \E r \in old : k.name = r.name
    BY <1>3, <1>4, <1>5, NameKeyIs
  <2>2. \A r \in old : \E k \in kept : k.name = r.name
    BY <1>4, <1>5, NameKeyIs
  <2>. HIDE DEF own, old, kept
  <2>. QED
    BY <2>1, <2>2
<1>8. ASSUME NEW n
      PROVE  Total(Uses, hot(n)) + Total(LAMBDA k : H[k], keys(n)) =
             SumOf(g, {r \in own \cup old : r.name = n})
  <2>1. hot(n) \subseteq VR /\ cold(n) \subseteq VA /\ keys(n) \subseteq DOMAIN H
    BY <1>5
  <2>2. {r \in own \cup old : r.name = n} = hot(n) \cup cold(n)
    OBVIOUS
  <2>3. Total(Uses, hot(n)) = SumOf(g, hot(n))
    <3>1. hot(n) \subseteq W
      BY <2>1
    <3>. HIDE DEF W, hot
    <3>. QED
      BY <3>1, PartOfUses DEF W
  <2>4. Total(LAMBDA k : H[k], keys(n)) = SumOf(H, keys(n))
    <3>. HIDE DEF keys
    <3>. QED
      BY <1>1, <2>1, PartOfCounts
  <2>5. \A x \in VA : x \in cold(n) <=> key[x] \in keys(n)
    BY <1>4, <1>5, NameKeyIs
  <2>6. DOMAIN g = W
    BY DEF UsesOf
  <2>. HIDE DEF hot, cold, keys, g, key, own, old
  <2>7. Matched(key, VA, DOMAIN H, cold(n), keys(n))
    BY <2>1, <2>5 DEF Matched
  <2>8. HotAndCold(key, g, H, hot(n), VA, DOMAIN H)
    BY <1>1, <2>1, <2>6 DEF HotAndCold
  <2>9. SumOf(g, hot(n)) + SumOf(H, keys(n)) = SumOf(g, hot(n) \cup cold(n))
    BY <2>7, <2>8, HotAndColdAdd
  <2>. QED
    BY <2>2, <2>3, <2>4, <2>9
<1>9. Ranking(VR, H, client, since) =
        [n \in {r.name : r \in own} \cup {k.name : k \in kept} |->
           Total(Uses, hot(n)) + Total(LAMBDA k : H[k], keys(n))]
  BY DEF Ranking, RankedRows
<1>10. RankOf(W, client, since) =
         [n \in {r.name : r \in own \cup old} |-> SumOf(g, {r \in own \cup old : r.name = n})]
  BY <1>6 DEF RankOf
<1>. HIDE DEF own, old, kept, hot, keys, g, W
<1>11. Ranking(VR, H, client, since) = RankOf(W, client, since)
  BY <1>7, <1>8, <1>9, <1>10
<1>. QED
  BY <1>11 DEF W

\* Rows that are ranked have numbers.
LEMMA UsesNumbers ==
  ASSUME NEW S, Factual(S)
  PROVE  /\ Numbers(UsesOf(NamedTools(S))) /\ Numbers(UsesOf(RankedSkills(S)))
         /\ \A r \in NamedTools(S) : Uses(r) = 1
         /\ NamedTools(S) \subseteq S /\ RankedSkills(S) \subseteq S
<1>1. NamedTools(S) \subseteq S /\ RankedSkills(S) \subseteq S
  BY DEF NamedTools, RankedSkills, In
<1>2. IsFiniteSet(NamedTools(S)) /\ IsFiniteSet(RankedSkills(S))
  BY <1>1, FS_Subset DEF Factual
<1>3. \A r \in NamedTools(S) : Uses(r) = 1
  BY DEF NamedTools, In, Uses
<1>4. \A r \in RankedSkills(S) : Uses(r) \in Int
  BY <1>1 DEF Factual, Summable, Uses
<1>. QED
  BY <1>1, <1>2, <1>3, <1>4 DEF Numbers, UsesOf

\* Tools and skills.
LEMMA ToolHours ==
  ASSUME NEW A, Factual(A)
  PROVE  NameHours(ToolHourly(A), NamedTools(A))
<1>. DEFINE V == NamedTools(A)
            H == ToolHourly(A)
            Own(k) == {r \in V : NameKey(r) = k}
<1>1. DOMAIN H = {NameKey(r) : r \in V} /\ \A k \in DOMAIN H : H[k] = Cardinality(Own(k))
  BY DEF ToolHourly
<1>2. Numbers(UsesOf(V)) /\ DOMAIN UsesOf(V) = V /\ \A r \in V : UsesOf(V)[r] = 1
  BY UsesNumbers DEF UsesOf
<1>3. IsFiniteSet(V)
  BY <1>2 DEF Numbers
<1>4. \A k : Own(k) \in SUBSET V
  OBVIOUS
<1>5. Numbers(Ones(V)) /\ DOMAIN Ones(V) = V
        /\ \A s \in SUBSET V : SumOf(Ones(V), s) = Cardinality(s)
  BY <1>3, SumOfOnes
<1>6. Ones(V) = UsesOf(V)
  BY UsesNumbers DEF Ones, UsesOf
<1>. HIDE DEF V, H, Own
<1>7. \A k \in DOMAIN H : H[k] = SumOf(UsesOf(V), Own(k))
  BY <1>1, <1>4, <1>5, <1>6
<1>. QED
  BY <1>1, <1>7 DEF NameHours, V, H, Own

LEMMA SkillHours ==
  ASSUME NEW A, Factual(A)
  PROVE  NameHours(SkillHourly(A), RankedSkills(A))
<1>. DEFINE V == RankedSkills(A)
            H == SkillHourly(A)
            Own(k) == {r \in V : NameKey(r) = k}
<1>1. DOMAIN H = {NameKey(r) : r \in V} /\ \A k \in DOMAIN H : H[k] = Total(Uses, Own(k))
  BY DEF SkillHourly
<1>2. Numbers(UsesOf(V))
  BY UsesNumbers
<1>3. \A k : Own(k) \subseteq V
  OBVIOUS
<1>. HIDE DEF V, H, Own
<1>4. \A k \in DOMAIN H : H[k] = SumOf(UsesOf(V), Own(k))
  BY <1>1, <1>2, <1>3, PartOfUses
<1>. QED
  BY <1>1, <1>4 DEF NameHours, V, H, Own

LEMMA NothingFactual == Factual({}) /\ NamedTools({}) = {} /\ RankedSkills({}) = {}
BY FS_EmptySet DEF Factual, Summable, NamedTools, RankedSkills, In

\* The endpoint of rankings.
LEMMA RankingsAgree ==
  ASSUME NEW R, NEW A, NEW now, Ready(R, A, now), NEW client, NEW days \in Int \cup {Null}
  PROVE  Rankings(Reads(R, A), client, days, now) = Rankings(Reads(R \cup A, {}), client, days, now)
<1>. DEFINE since == IF days = Null THEN 0 ELSE SinceStart(Zone, now, days)
<1>1. /\ Factual(A) /\ Factual(R \cup A) /\ now \in Int /\ R \cap A = {}
      /\ \A r \in A : r.ts \in Int
  BY FactualParts DEF Ready, Aged
<1>2. OnHour(since)
  BY <1>1, SinceOnHour, NoHours
<1>. HIDE DEF since
<1>3. Ranking(NamedTools(R), ToolHourly(A), client, since) =
      Ranking(NamedTools(R \cup A), ToolHourly({}), client, since)
  <2>. DEFINE VR == NamedTools(R)
              VA == NamedTools(A)
              W  == NamedTools(R \cup A)
              H  == ToolHourly(A)
              E  == ToolHourly({})
  <2>1. W = VR \cup VA /\ VR \cap VA = {} /\ \A r \in VA : r.ts \in Int
    BY <1>1 DEF NamedTools, In
  <2>2. Numbers(UsesOf(W)) /\ NameHours(H, VA) /\ NameHours(E, {})
    <3>1. NameHours(ToolHourly({}), NamedTools({}))
      BY NothingFactual, ToolHours
    <3>. QED
      BY <1>1, <3>1, UsesNumbers, ToolHours, NothingFactual
  <2>3. W = W \cup {} /\ W \cap {} = {} /\ \A r \in {} : r.ts \in Int
    OBVIOUS
  <2>. HIDE DEF VR, VA, W, H, E
  <2>4. Ranking(VR, H, client, since) = RankOf(VR \cup VA, client, since)
    BY <1>2, <2>1, <2>2, RankingIs
  <2>5. Numbers(UsesOf(W \cup {}))
    BY <2>2, <2>3
  <2>6. Ranking(W, E, client, since) = RankOf(W \cup {}, client, since)
    BY <1>2, <2>2, <2>3, <2>5, RankingIs
  <2>. QED
    BY <2>1, <2>3, <2>4, <2>6 DEF VR, VA, W, H, E
<1>4. Ranking(RankedSkills(R), SkillHourly(A), client, since) =
      Ranking(RankedSkills(R \cup A), SkillHourly({}), client, since)
  <2>. DEFINE VR == RankedSkills(R)
              VA == RankedSkills(A)
              W  == RankedSkills(R \cup A)
              H  == SkillHourly(A)
              E  == SkillHourly({})
  <2>1. W = VR \cup VA /\ VR \cap VA = {} /\ \A r \in VA : r.ts \in Int
    BY <1>1 DEF RankedSkills, In
  <2>2. Numbers(UsesOf(W)) /\ NameHours(H, VA) /\ NameHours(E, {})
    <3>1. NameHours(SkillHourly({}), RankedSkills({}))
      BY NothingFactual, SkillHours
    <3>. QED
      BY <1>1, <3>1, UsesNumbers, SkillHours, NothingFactual
  <2>3. W = W \cup {} /\ W \cap {} = {} /\ \A r \in {} : r.ts \in Int
    OBVIOUS
  <2>. HIDE DEF VR, VA, W, H, E
  <2>4. Ranking(VR, H, client, since) = RankOf(VR \cup VA, client, since)
    BY <1>2, <2>1, <2>2, RankingIs
  <2>5. Numbers(UsesOf(W \cup {}))
    BY <2>2, <2>3
  <2>6. Ranking(W, E, client, since) = RankOf(W \cup {}, client, since)
    BY <1>2, <2>2, <2>3, <2>5, RankingIs
  <2>. QED
    BY <2>1, <2>3, <2>4, <2>6 DEF VR, VA, W, H, E
<1>5. /\ Reads(R, A).raw = R /\ Reads(R, A).archived = A
      /\ Reads(R \cup A, {}).raw = R \cup A /\ Reads(R \cup A, {}).archived = {}
  BY ReadsAre
<1>. QED
  BY <1>3, <1>4, <1>5 DEF Rankings, since

-----------------------------------------------------------------------------
(* Times to first token *)
LEMMA TtftKeyIs ==
  \A r : /\ TtftKey(r).bucket = TheHour(r.ts) /\ TtftKey(r).model = r.model
         /\ TtftKey(r).ttft = r.ttft
BY DEF TtftKey

IsHistogram(H, A) == H = TtftHistogram(A)

\* One for each row, and how many there are of an hour.
LEMMA TtftSort ==
  ASSUME NEW W, IsFiniteSet(W), NEW A, Timed(A) \subseteq W, NEW H, IsHistogram(H, A)
  PROVE  /\ DOMAIN H = {TtftKey(r) : r \in Timed(A)}
         /\ Numbers(H) /\ Numbers(Ones(W))
         /\ Sorts([r \in Timed(A) |-> TtftKey(r)], Ones(W), H, Timed(A), DOMAIN H)
<1>. DEFINE V == Timed(A)
            key == [r \in V |-> TtftKey(r)]
            Own(k) == {r \in V : TtftKey(r) = k}
<1>1. DOMAIN H = {TtftKey(r) : r \in V} /\ \A k \in DOMAIN H : H[k] = Cardinality(Own(k))
  BY DEF TtftHistogram, IsHistogram
<1>2. Numbers(Ones(W)) /\ DOMAIN Ones(W) = W
        /\ \A s \in SUBSET W : SumOf(Ones(W), s) = Cardinality(s)
  BY SumOfOnes
<1>3. IsFiniteSet(V)
  BY FS_Subset
<1>4. IsFiniteSet(DOMAIN H)
  <2>1. IsFiniteSet({key[x] : x \in V})
    BY <1>3, FiniteValues
  <2>2. {key[x] : x \in V} = {TtftKey(r) : r \in V}
    OBVIOUS
  <2>. QED
    BY <1>1, <2>1, <2>2
<1>5. \A k : Own(k) \in SUBSET V /\ {x \in V : key[x] = k} = Own(k)
  OBVIOUS
<1>6. DOMAIN key = V /\ \A r \in V : key[r] \in DOMAIN H
  BY <1>1
<1>. HIDE DEF V, key, Own
<1>7. ASSUME NEW k \in DOMAIN H PROVE H[k] = SumOf(Ones(W), Own(k)) /\ H[k] \in Int
  <2>1. Own(k) \in SUBSET W
    BY <1>5 DEF V
  <2>2. SumOf(Ones(W), Own(k)) \in Int
    BY <1>2, <2>1, SumType
  <2>. QED
    BY <1>1, <1>2, <2>1, <2>2
<1>8. Numbers(H)
  BY <1>4, <1>7 DEF Numbers
<1>9. V \subseteq DOMAIN Ones(W)
  BY <1>2 DEF V
<1>10. Sorts(key, Ones(W), H, V, DOMAIN H)
  BY <1>2, <1>5, <1>6, <1>7, <1>8, <1>9 DEF Sorts
<1>. QED
  BY <1>1, <1>2, <1>8, <1>10 DEF V, key

\* How often each was measured.
FrequencyOf(S) == [t \in {r.ttft : r \in S} |-> Cardinality({r \in S : r.ttft = t})]

\* Rows of W, some of them archived, and the hours those are in.
Measurements(W, A, H, hot, cold, keys) ==
  /\ IsFiniteSet(W) /\ Timed(A) \subseteq W /\ IsHistogram(H, A)
  /\ hot \subseteq W /\ hot \cap Timed(A) = {}
  /\ cold \subseteq Timed(A) /\ keys \subseteq DOMAIN H
  /\ \A r \in Timed(A) : r \in cold <=> TtftKey(r) \in keys

\* A histogram of rows and of archived ones is one of rows.
LEMMA FrequenciesAre ==
  ASSUME NEW W, NEW A, NEW H, NEW hot, NEW cold, NEW keys, Measurements(W, A, H, hot, cold, keys)
  PROVE  Frequencies(hot, H, keys) = FrequencyOf(hot \cup cold)
<1>. DEFINE T == Timed(A)
            g == Ones(W)
            key == [r \in T |-> TtftKey(r)]
            F(t) == {r \in hot : r.ttft = t}
            B(t) == {r \in cold : r.ttft = t}
            L(t) == {k \in keys : k.ttft = t}
<1>0. /\ IsFiniteSet(W) /\ T \subseteq W /\ IsHistogram(H, A)
      /\ hot \subseteq W /\ hot \cap T = {}
      /\ cold \subseteq T /\ keys \subseteq DOMAIN H
      /\ \A r \in T : r \in cold <=> TtftKey(r) \in keys
  BY DEF Measurements
<1>1. /\ DOMAIN H = {TtftKey(r) : r \in T}
      /\ Numbers(H) /\ Numbers(g)
      /\ Sorts(key, g, H, T, DOMAIN H)
  BY <1>0, TtftSort
<1>2. DOMAIN g = W /\ \A s \in SUBSET W : SumOf(g, s) = Cardinality(s)
  BY <1>0, SumOfOnes
<1>3. {r.ttft : r \in hot} \cup {k.ttft : k \in keys} = {r.ttft : r \in hot \cup cold}
  <2>1. \A k \in keys : \E r \in cold : k.ttft = r.ttft
    BY <1>0, <1>1, TtftKeyIs
  <2>2. \A r \in cold : \E k \in keys : k.ttft = r.ttft
    BY <1>0, TtftKeyIs
  <2>. QED
    BY <2>1, <2>2
<1>4. ASSUME NEW t
      PROVE  Cardinality(F(t)) + Total(LAMBDA k : H[k], L(t)) =
             Cardinality({r \in hot \cup cold : r.ttft = t})
  <2>1. F(t) \in SUBSET W /\ B(t) \in SUBSET T /\ L(t) \subseteq DOMAIN H /\ F(t) \cap T = {}
        /\ F(t) \cup B(t) \in SUBSET W
    BY <1>0
  <2>2. {r \in hot \cup cold : r.ttft = t} = F(t) \cup B(t)
    OBVIOUS
  <2>3. \A r \in T : r \in B(t) <=> key[r] \in L(t)
    BY <1>0, TtftKeyIs
  <2>. HIDE DEF F, B, L, key, g, T
  <2>4. Total(LAMBDA k : H[k], L(t)) = SumOf(H, L(t))
    <3>. DEFINE l == L(t)
    <3>1. l \subseteq DOMAIN H /\ Numbers(H)
      BY <1>1, <2>1
    <3>. HIDE DEF l
    <3>2. Total(LAMBDA k : H[k], l) = SumOf(H, l)
      BY <3>1, PartOfCounts
    <3>. QED
      BY <3>2 DEF l
  <2>5. Matched(key, T, DOMAIN H, B(t), L(t))
    BY <2>1, <2>3 DEF Matched
  <2>6. HotAndCold(key, g, H, F(t), T, DOMAIN H)
    BY <1>1, <1>2, <2>1 DEF HotAndCold
  <2>7. SumOf(g, F(t)) + SumOf(H, L(t)) = SumOf(g, F(t) \cup B(t))
    BY <2>5, <2>6, HotAndColdAdd
  <2>. QED
    BY <1>2, <2>1, <2>2, <2>4, <2>7
<1>5. Frequencies(hot, H, keys) =
        [t \in {r.ttft : r \in hot} \cup {k.ttft : k \in keys} |->
           Cardinality(F(t)) + Total(LAMBDA k : H[k], L(t))]
  BY DEF Frequencies
<1>. HIDE DEF F, L
<1>. QED
  BY <1>3, <1>4, <1>5 DEF FrequencyOf

\* By model, of all the rows there are.
TTFTOf(S) ==
  [ms \in {{m} : m \in Models \cup {""}} \cup {Models \cup {""}} |->
     TTFTSummary(FrequencyOf({r \in S : r.model \in ms}))]

\* The times to the first token.
LEMMA TTFTIs ==
  ASSUME NEW R, NEW A, NEW now, Ready(R, A, now), NEW w, Rounded(w, now),
         NEW H, IsHistogram(H, A)
  PROVE  TTFT(Hot(Timed(R), w), H, Cold(DOMAIN H, w)) = TTFTOf(Hot(Timed(R \cup A), w))
<1>. DEFINE W == Timed(R \cup A)
            T == Timed(A)
            hot  == Hot(Timed(R), w)
            cold == Hot(T, w)
            keys == Cold(DOMAIN H, w)
<1>1. /\ IsFiniteSet(R \cup A) /\ now \in Int /\ R \cap A = {}
      /\ \A r \in A : r.ts \in Int /\ Past(r.ts, now)
  BY DEF Ready, Aged, Factual
<1>2. W \subseteq R \cup A /\ W = Timed(R) \cup T /\ Timed(R) \subseteq R /\ T \subseteq A
  BY DEF Timed, ValidUsage
<1>3. IsFiniteSet(W) /\ T \subseteq W
  BY <1>1, <1>2, FS_Subset
<1>4. Hot(W, w) = hot \cup cold /\ hot \subseteq W /\ hot \cap T = {} /\ cold \subseteq T
  BY <1>1, <1>2 DEF Hot
<1>5. keys \subseteq DOMAIN H
  BY DEF Cold
<1>6. DOMAIN H = {TtftKey(r) : r \in T}
  BY DEF TtftHistogram, IsHistogram
<1>7. ASSUME NEW r \in T PROVE r \in cold <=> TtftKey(r) \in keys
  <2>1. r.ts \in Int /\ Past(r.ts, now)
    BY <1>1, <1>2
  <2>2. LET hours == ArchiveHours(w.start, w.end)
        IN  w.start <= r.ts /\ r.ts < w.end <=>
              hours.start <= TheHour(r.ts) /\ TheHour(r.ts) < hours.end
    BY <1>1, <2>1, HourInWindow
  <2>. QED
    BY <1>6, <2>2, TtftKeyIs DEF Hot, Cold
<1>. HIDE DEF W, T, hot, cold, keys
<1>8. ASSUME NEW ms
      PROVE  Frequencies({r \in hot : r.model \in ms}, H, {k \in keys : k.model \in ms}) =
             FrequencyOf({r \in hot \cup cold : r.model \in ms})
  <2>. DEFINE h == {r \in hot : r.model \in ms}
              c == {r \in cold : r.model \in ms}
              l == {k \in keys : k.model \in ms}
  <2>1. {r \in hot \cup cold : r.model \in ms} = h \cup c
    OBVIOUS
  <2>2. h \subseteq W /\ h \cap T = {} /\ c \subseteq T /\ l \subseteq DOMAIN H
    BY <1>4, <1>5
  <2>3. \A r \in T : r \in c <=> TtftKey(r) \in l
    BY <1>7, TtftKeyIs
  <2>. HIDE DEF h, c, l
  <2>4. Frequencies(h, H, l) = FrequencyOf(h \cup c)
    <3>1. Timed(A) \subseteq W /\ h \subseteq W /\ h \cap Timed(A) = {}
      BY <1>3, <2>2 DEF T
    <3>2. c \subseteq Timed(A) /\ \A r \in Timed(A) : r \in c <=> TtftKey(r) \in l
      BY <2>2, <2>3 DEF T
    <3>3. Measurements(W, A, H, h, c, l)
      BY <1>3, <2>2, <3>1, <3>2 DEF Measurements
    <3>. QED
      BY <3>3, FrequenciesAre
  <2>. QED
    BY <2>1, <2>4 DEF h, l
<1>9. TTFT(hot, H, keys) =
        [ms \in {{m} : m \in Models \cup {""}} \cup {Models \cup {""}} |->
           TTFTSummary(Frequencies({r \in hot : r.model \in ms}, H, {k \in keys : k.model \in ms}))]
  BY DEF TTFT
<1>10. TTFT(hot, H, keys) = TTFTOf(hot \cup cold)
  BY <1>8, <1>9 DEF TTFTOf
<1>. QED
  BY <1>4, <1>10 DEF W, hot, keys

-----------------------------------------------------------------------------
(* What responses said of their tokens *)
HoursOf(H, S, c) == [k \in S |-> H[k][c]]

\* As TotalAmounts.
LEMMA TotalHours ==
  ASSUME NEW S, IsFiniteSet(S), NEW H, NEW c
  PROVE  Total(LAMBDA k : H[k][c], S) = SumOf(HoursOf(H, S, c), S)
<1>. DEFINE Is(f) == f = [s \in SUBSET S |->
                       IF s = {} THEN 0
                       ELSE H[CHOOSE x \in s : TRUE][c] + f[s \ {CHOOSE x \in s : TRUE}]]
<1>1. Total(LAMBDA k : H[k][c], S) = (CHOOSE f : Is(f))[S]
  BY DEF Total, MapThenSumSet, MapThenFoldSet
<1>2. \A f : Is(f) <=> IsSum(f, HoursOf(H, S, c))
  <2>1. \A s \in SUBSET S : s # {} => HoursOf(H, S, c)[Some(s)] = H[CHOOSE x \in s : TRUE][c]
    BY SomeIs DEF Some, HoursOf
  <2>. QED
    BY <2>1 DEF IsSum, Some, HoursOf
<1>. HIDE DEF Is
<1>3. (CHOOSE f : Is(f)) = (CHOOSE f : IsSum(f, HoursOf(H, S, c)))
  BY <1>2, Zenon
<1>. QED
  BY <1>1, <1>3, Zenon DEF SumOf, SumOver

\* The columns of a check.
CheckedColumns == {"input", "requests", "output", "cache_read", "cached_samples", "tokens_total",
                   "cache_creation", "write_samples", "reasoning", "reasoning_samples"}

\* The columns that are compared.
LEMMA CheckedAre ==
  /\ CheckedColumns \subseteq UsageColumns
  /\ \A type \in DOMAIN CheckColumns, i \in 1 .. 2 : CheckColumns[type][i] \in CheckedColumns
<1>1. CheckedColumns \subseteq UsageColumns
  BY DEF CheckedColumns, UsageColumns
<1>2. ASSUME NEW type \in DOMAIN CheckColumns, NEW i \in 1 .. 2
      PROVE  CheckColumns[type][i] \in CheckedColumns
  <2>1. i = 1 \/ i = 2
    OBVIOUS
  <2>. QED
    BY <2>1 DEF CheckColumns, CheckedColumns
<1>. QED
  BY <1>1, <1>2

\* Rows that only have a speed add nothing to those.
LEMMA SpeedUnchecked ==
  ASSUME NEW S, NEW r \in UsageRows(S), Client(r) = "codex", r \notin ValidUsage(S),
         NEW c \in CheckedColumns
  PROVE  Amount(r, c) = 0
<1>1. r.table = "response_tbt"
  <2>1. r.table \in {"token_usage", "cost_usage", "api_request", "response_tbt"}
    BY DEF UsageRows, In
  <2>2. r.table \notin {"token_usage", "cost_usage", "api_request"}
    BY DEF Client, ClaudeTables
  <2>. QED
    BY <2>1, <2>2
<1>2. Adds(r) = IF Measured(r) THEN [speed_units |-> r.samples, speed_duration |-> r.sum] ELSE <<>>
  BY <1>1 DEF Adds
<1>3. DOMAIN Adds(r) \subseteq {"speed_units", "speed_duration"}
  BY <1>2
<1>4. c \notin {"speed_units", "speed_duration"}
  BY DEF CheckedColumns
<1>. QED
  BY <1>3, <1>4 DEF Amount

IsHourly(H, A) == H = UsageHourly(A)

\* The rows of the archive, sorted into its hours, by column.
LEMMA ColumnSort ==
  ASSUME NEW S, Factual(S), NEW A, A \subseteq S, NEW H, IsHourly(H, A), NEW c \in UsageColumns
  PROVE  /\ DOMAIN H = {UsageKey(r) : r \in UsageRows(A)}
         /\ Numbers(HoursOf(H, DOMAIN H, c)) /\ Numbers(ColumnOf(UsageRows(S), c))
         /\ UsageRows(A) \subseteq UsageRows(S)
         /\ Sorts([r \in UsageRows(A) |-> UsageKey(r)], ColumnOf(UsageRows(S), c),
                  HoursOf(H, DOMAIN H, c), UsageRows(A), DOMAIN H)
<1>. DEFINE W == UsageRows(S)
            V == UsageRows(A)
            g == ColumnOf(W, c)
            q == HoursOf(H, DOMAIN H, c)
            key == [r \in V |-> UsageKey(r)]
            Own(k) == {r \in V : UsageKey(r) = k}
<1>1. Factual(A)
  <2>1. IsFiniteSet(A)
    BY FS_Subset DEF Factual
  <2>. QED
    BY <2>1 DEF Factual, Summable
<1>2. V \subseteq W /\ IsFiniteSet(W) /\ IsFiniteSet(V)
  <2>1. V \subseteq W
    BY DEF UsageRows, In, ValidUsage
  <2>. QED
    BY <1>1, <2>1, UsageIsFinite DEF Factual
<1>3. DOMAIN H = {UsageKey(r) : r \in V}
  BY DEF UsageHourly, IsHourly
<1>4. Numbers(g) /\ DOMAIN g = W /\ \A r \in W : g[r] = Amount(r, c)
  <2>1. \A r \in W : Amount(r, c) \in Int
    BY AmountNumbers DEF Factual
  <2>. QED
    BY <1>2, <2>1 DEF Numbers, ColumnOf
<1>5. IsFiniteSet(DOMAIN H)
  <2>1. IsFiniteSet({key[x] : x \in V})
    BY <1>2, FiniteValues
  <2>2. {key[x] : x \in V} = {UsageKey(r) : r \in V}
    OBVIOUS
  <2>. QED
    BY <1>3, <2>1, <2>2
<1>6. ASSUME NEW k \in DOMAIN H PROVE q[k] = SumOf(g, Own(k)) /\ q[k] \in Int
  <2>. DEFINE own == Own(k)
  <2>1. H[k] = Summed(own) /\ Columned(own) /\ own \subseteq V
    BY <1>1, BucketIs DEF IsHourly
  <2>2. q[k] = SumOf(ColumnOf(own, c), own)
    BY <2>1 DEF HoursOf, Summed
  <2>. HIDE DEF own
  <2>3. Numbers(ColumnOf(own, c)) /\ DOMAIN ColumnOf(own, c) = own
        /\ \A r \in own : ColumnOf(own, c)[r] = Amount(r, c)
    BY <2>1, ColumnNumbers
  <2>4. own \in SUBSET DOMAIN ColumnOf(own, c) /\ own \subseteq DOMAIN g
        /\ \A r \in own : g[r] = ColumnOf(own, c)[r]
    BY <1>2, <1>4, <2>1, <2>3
  <2>. HIDE DEF g
  <2>5. SumOf(g, own) = SumOf(ColumnOf(own, c), own)
    BY <1>4, <2>3, <2>4, SumLocal
  <2>6. SumOf(ColumnOf(own, c), own) \in Int
    BY <2>3, <2>4, SumType
  <2>. QED
    BY <2>2, <2>5, <2>6 DEF own
<1>7. Numbers(q) /\ DOMAIN q = DOMAIN H
  BY <1>5, <1>6 DEF Numbers, HoursOf
<1>8. \A k : {x \in V : key[x] = k} = Own(k)
  OBVIOUS
<1>9. DOMAIN key = V /\ \A r \in V : key[r] \in DOMAIN H
  BY <1>3
<1>. HIDE DEF V, W, g, q, key, Own
<1>10. Sorts(key, g, q, V, DOMAIN H)
  BY <1>2, <1>4, <1>6, <1>7, <1>8, <1>9 DEF Sorts
<1>. QED
  BY <1>2, <1>3, <1>4, <1>7, <1>10 DEF V, W, g, q, key

\* The same over part of what has numbers.
LEMMA PartOfColumn ==
  ASSUME NEW W, NEW c, Numbers(ColumnOf(W, c)), NEW S, S \subseteq W
  PROVE  IsFiniteSet(S) /\ Total(LAMBDA r : Amount(r, c), S) = SumOf(ColumnOf(W, c), S)
<1>1. DOMAIN ColumnOf(W, c) = W /\ IsFiniteSet(W) /\ DOMAIN ColumnOf(S, c) = S
  BY DEF ColumnOf, Numbers
<1>2. IsFiniteSet(S)
  BY <1>1, FS_Subset
<1>3. Numbers(ColumnOf(S, c)) /\ \A x \in S : ColumnOf(S, c)[x] = ColumnOf(W, c)[x]
  BY <1>1, <1>2 DEF ColumnOf, Numbers
<1>4. SumOf(ColumnOf(S, c), S) = SumOf(ColumnOf(W, c), S)
  BY <1>1, <1>3, SumLocal
<1>. QED
  BY <1>2, <1>4, TotalColumn

\* As TotalCounts, for a column of hours.
LEMMA PartOfHours ==
  ASSUME NEW H, NEW D, NEW c, Numbers(HoursOf(H, D, c)), NEW S, S \subseteq D
  PROVE  IsFiniteSet(S) /\ Total(LAMBDA k : H[k][c], S) = SumOf(HoursOf(H, D, c), S)
<1>1. DOMAIN HoursOf(H, D, c) = D /\ IsFiniteSet(D) /\ DOMAIN HoursOf(H, S, c) = S
  BY DEF HoursOf, Numbers
<1>2. IsFiniteSet(S)
  BY <1>1, FS_Subset
<1>3. Numbers(HoursOf(H, S, c)) /\ \A x \in S : HoursOf(H, S, c)[x] = HoursOf(H, D, c)[x]
  BY <1>1, <1>2 DEF HoursOf, Numbers
<1>4. SumOf(HoursOf(H, S, c), S) = SumOf(HoursOf(H, D, c), S)
  BY <1>1, <1>3, SumLocal
<1>. QED
  BY <1>2, <1>4, TotalHours

\* The rows of a window, and the hours of the archived ones.
LEMMA HourCold ==
  ASSUME NEW now \in Int, NEW w, Rounded(w, now), NEW t \in Int, Past(t, now)
  PROVE  w.start <= t /\ t < w.end <=>
           ArchiveHours(w.start, w.end).start <= TheHour(t)
             /\ TheHour(t) < ArchiveHours(w.start, w.end).end
<1>1. LET hours == ArchiveHours(w.start, w.end)
      IN  w.start <= t /\ t < w.end <=> hours.start <= TheHour(t) /\ TheHour(t) < hours.end
  BY HourInWindow
<1>. QED
  BY <1>1

ResponseOf(S, w, m, c) ==
  SumOf(ColumnOf(UsageRows(S), c), {r \in Hot(ValidUsage(S), w) : r.model = m})

OfCodex(k) == k.client = "codex"

\* The rows and the hours of Codex.
LEMMA CodexIs ==
  \A r : /\ OfCodex(UsageKey(r)) <=> Client(r) = "codex"
         /\ \A S : r \in ValidUsage(S) => OfCodex(UsageKey(r)) /\ r \in UsageRows(S) /\ r \in S
BY DEF OfCodex, UsageKey, ValidUsage, Valid, Client, ClaudeTables, UsageRows

\* What responses used, of rows and hours, is what all of them used.
LEMMA ResponseUsageIs ==
  ASSUME NEW R, NEW A, NEW now, Ready(R, A, now), NEW w, Rounded(w, now),
         NEW H, IsHourly(H, A), NEW m, NEW c \in CheckedColumns
  PROVE  ResponseUsage(Hot(ValidUsage(R), w), H, Cold({k \in DOMAIN H : k.client = "codex"}, w),
           m, c) =
           ResponseOf(R \cup A, w, m, c)
<1>. DEFINE S == R \cup A
            W == UsageRows(S)
            T == UsageRows(A)
            g == ColumnOf(W, c)
            q == HoursOf(H, DOMAIN H, c)
            key == [r \in T |-> UsageKey(r)]
            hot  == {r \in Hot(ValidUsage(R), w) : r.model = m}
            cold == {r \in Hot(ValidUsage(A), w) : r.model = m}
            rest == {r \in Hot(T, w) : OfCodex(UsageKey(r)) /\ r.model = m}
            keys == {k \in Cold({k \in DOMAIN H : k.client = "codex"}, w) : k.model = m}
<1>1. /\ Factual(S) /\ now \in Int /\ R \cap A = {} /\ A \subseteq S /\ R \subseteq S
      /\ \A r \in A : r.ts \in Int /\ Past(r.ts, now)
  BY DEF Ready, Aged
<1>2. c \in UsageColumns
  BY CheckedAre
<1>3. /\ DOMAIN H = {UsageKey(r) : r \in T}
      /\ Numbers(q) /\ Numbers(g) /\ T \subseteq W
      /\ Sorts(key, g, q, T, DOMAIN H)
  <2>. HIDE DEF S
  <2>. QED
    BY <1>1, <1>2, ColumnSort
<1>4. T \subseteq A /\ IsFiniteSet(T)
  BY <1>1, FactualParts, UsageIsFinite DEF Factual
<1>5. hot \subseteq W /\ hot \cap T = {} /\ cold \subseteq rest /\ rest \subseteq T
        /\ keys \subseteq DOMAIN H
  <2>1. hot \subseteq R /\ hot \subseteq W
    BY CodexIs DEF Hot, UsageRows, ValidUsage
  <2>2. cold \subseteq rest
    BY CodexIs DEF Hot
  <2>3. rest \subseteq T /\ keys \subseteq DOMAIN H
    BY DEF Hot, Cold
  <2>. HIDE DEF hot, cold, rest, keys, T, W
  <2>. QED
    BY <1>1, <1>4, <2>1, <2>2, <2>3
<1>6. {r \in Hot(ValidUsage(S), w) : r.model = m} = hot \cup cold
  BY DEF Hot, ValidUsage
<1>7. \A r \in T : r \in rest <=> key[r] \in keys
  <2>. SUFFICES ASSUME NEW r \in T PROVE r \in rest <=> key[r] \in keys
    OBVIOUS
  <2>1. r.ts \in Int /\ Past(r.ts, now)
    BY <1>1, <1>4
  <2>2. w.start <= r.ts /\ r.ts < w.end <=>
           ArchiveHours(w.start, w.end).start <= TheHour(r.ts)
             /\ TheHour(r.ts) < ArchiveHours(w.start, w.end).end
    BY <1>1, <2>1, HourCold
  <2>3. UsageKey(r) \in DOMAIN H /\ key[r] = UsageKey(r)
    BY <1>3
  <2>. QED
    BY <2>2, <2>3, UsageKeyIs DEF Hot, Cold, OfCodex
<1>8. \A r \in (hot \cup rest) \ (hot \cup cold) : g[r] = 0
  <2>. SUFFICES ASSUME NEW r \in rest, r \notin cold PROVE g[r] = 0
    OBVIOUS
  <2>1. r \in T /\ Client(r) = "codex" /\ r \notin ValidUsage(A)
    BY CodexIs DEF Hot
  <2>2. Amount(r, c) = 0
    BY <2>1, SpeedUnchecked
  <2>. QED
    BY <1>3, <2>1, <2>2 DEF ColumnOf
<1>9. Total(LAMBDA r : Amount(r, c), hot) = SumOf(g, hot)
  <2>. HIDE DEF hot, W
  <2>. QED
    BY <1>3, <1>5, PartOfColumn
<1>10. Total(LAMBDA k : H[k][c], keys) = SumOf(q, keys)
  <2>. DEFINE D == DOMAIN H
  <2>1. Numbers(HoursOf(H, D, c)) /\ keys \subseteq D
          /\ SumOf(q, keys) = SumOf(HoursOf(H, D, c), keys)
    BY <1>3, <1>5
  <2>. HIDE DEF keys, D, q
  <2>2. Total(LAMBDA k : H[k][c], keys) = SumOf(HoursOf(H, D, c), keys)
    BY <2>1, PartOfHours
  <2>. QED
    BY <2>1, <2>2
<1>11. DOMAIN g = W
  BY DEF ColumnOf
<1>12. ResponseUsage(Hot(ValidUsage(R), w), H, Cold({k \in DOMAIN H : k.client = "codex"}, w),
         m, c) =
         Total(LAMBDA r : Amount(r, c), hot) + Total(LAMBDA k : H[k][c], keys)
  BY DEF ResponseUsage
<1>13. ResponseOf(S, w, m, c) = SumOf(g, hot \cup cold)
  BY <1>6 DEF ResponseOf
<1>. HIDE DEF hot, cold, rest, keys, g, q, key, W, T
<1>14. Matched(key, T, DOMAIN H, rest, keys)
  BY <1>5, <1>7 DEF Matched
<1>15. HotAndCold(key, g, q, hot, T, DOMAIN H)
  BY <1>3, <1>5, <1>11 DEF HotAndCold
<1>16. SumOf(g, hot) + SumOf(q, keys) = SumOf(g, hot \cup rest)
  BY <1>14, <1>15, HotAndColdAdd
<1>17. hot \cup rest \in SUBSET DOMAIN g /\ hot \cup cold \in SUBSET (hot \cup rest)
  BY <1>3, <1>5, <1>11
<1>18. SumOf(g, hot \cup rest) = SumOf(g, hot \cup cold)
  BY <1>3, <1>8, <1>17, SumOfRest
<1>. QED
  BY <1>9, <1>10, <1>12, <1>13, <1>16, <1>18

-----------------------------------------------------------------------------
(* What turns said of their tokens *)
FieldOf(S, c) == [r \in S |-> r[c]]

\* As TotalAmounts.
LEMMA TotalField ==
  ASSUME NEW S, IsFiniteSet(S), NEW c
  PROVE  Total(LAMBDA r : r[c], S) = SumOf(FieldOf(S, c), S)
<1>. DEFINE Is(f) == f = [s \in SUBSET S |->
                       IF s = {} THEN 0
                       ELSE (CHOOSE x \in s : TRUE)[c] + f[s \ {CHOOSE x \in s : TRUE}]]
<1>1. Total(LAMBDA r : r[c], S) = (CHOOSE f : Is(f))[S]
  BY DEF Total, MapThenSumSet, MapThenFoldSet
<1>2. \A f : Is(f) <=> IsSum(f, FieldOf(S, c))
  <2>1. \A s \in SUBSET S : s # {} => FieldOf(S, c)[Some(s)] = (CHOOSE x \in s : TRUE)[c]
    BY SomeIs DEF Some, FieldOf
  <2>. QED
    BY <2>1 DEF IsSum, Some, FieldOf
<1>. HIDE DEF Is
<1>3. (CHOOSE f : Is(f)) = (CHOOSE f : IsSum(f, FieldOf(S, c)))
  BY <1>2, Zenon
<1>. QED
  BY <1>1, <1>3, Zenon DEF SumOf, SumOver

\* The same over part of what has numbers.
LEMMA PartOfField ==
  ASSUME NEW W, NEW c, Numbers(FieldOf(W, c)), NEW S, S \subseteq W
  PROVE  IsFiniteSet(S) /\ Total(LAMBDA r : r[c], S) = SumOf(FieldOf(W, c), S)
<1>1. DOMAIN FieldOf(W, c) = W /\ IsFiniteSet(W) /\ DOMAIN FieldOf(S, c) = S
  BY DEF FieldOf, Numbers
<1>2. IsFiniteSet(S)
  BY <1>1, FS_Subset
<1>3. Numbers(FieldOf(S, c)) /\ \A x \in S : FieldOf(S, c)[x] = FieldOf(W, c)[x]
  BY <1>1, <1>2 DEF FieldOf, Numbers
<1>4. SumOf(FieldOf(S, c), S) = SumOf(FieldOf(W, c), S)
  BY <1>1, <1>3, SumLocal
<1>. QED
  BY <1>2, <1>4, TotalField

\* The reports of turns, their numbers, and the columns those are added to.
Turns(S) == Of(S, "turn_token_usage")
TurnFields == {"samples", "sum"}
TurnColumn(c) == IF c = "sum" THEN "tokens" ELSE "samples"

IsTurns(H, A) == H = TurnUsageHourly(A)

\* Hours of turns, field by field.
LEMMA TurnKeyIs ==
  \A r : /\ TurnUsageKey(r).bucket = TheHour(r.ts) /\ TurnUsageKey(r).model = r.model
         /\ TurnUsageKey(r).type = r.type
BY DEF TurnUsageKey

LEMMA TurnNumbers ==
  ASSUME NEW S, Factual(S), NEW c \in TurnFields
  PROVE  Numbers(FieldOf(Turns(S), c)) /\ Turns(S) \subseteq S
           /\ DOMAIN FieldOf(Turns(S), c) = Turns(S)
<1>1. IsFiniteSet(Turns(S)) /\ Turns(S) \subseteq S
  <2>1. Turns(S) \subseteq S
    BY DEF Turns, Of
  <2>. QED
    BY <2>1, FS_Subset DEF Factual
<1>2. \A r \in Turns(S) : r["samples"] \in Int /\ r["sum"] \in Int
  BY DEF Turns, Of, Factual, Summable
<1>. QED
  BY <1>1, <1>2 DEF Numbers, FieldOf, TurnFields

LEMMA TurnHours ==
  ASSUME NEW A, Factual(A), NEW H, IsTurns(H, A), NEW k \in DOMAIN H, NEW c \in TurnFields,
         NEW own, own = {r \in Turns(A) : TurnUsageKey(r) = k}
  PROVE  H[k][TurnColumn(c)] = SumOf(FieldOf(Turns(A), c), own)
<1>1. H[k] = [samples |-> Total(LAMBDA r : r.samples, own), tokens |-> Total(LAMBDA r : r.sum, own)]
  BY DEF IsTurns, TurnUsageHourly, Turns
<1>2. own \subseteq Turns(A)
  OBVIOUS
<1>3. \A d \in TurnFields : Total(LAMBDA r : r[d], own) = SumOf(FieldOf(Turns(A), d), own)
  <2>. SUFFICES ASSUME NEW d \in TurnFields
                PROVE  Total(LAMBDA r : r[d], own) = SumOf(FieldOf(Turns(A), d), own)
    OBVIOUS
  <2>1. Numbers(FieldOf(Turns(A), d))
    BY TurnNumbers
  <2>. QED
    BY <1>2, <2>1, PartOfField
<1>4. Total(LAMBDA r : r["samples"], own) = SumOf(FieldOf(Turns(A), "samples"), own)
  BY <1>3 DEF TurnFields
<1>5. Total(LAMBDA r : r["sum"], own) = SumOf(FieldOf(Turns(A), "sum"), own)
  BY <1>3 DEF TurnFields
<1>6. H[k]["samples"] = SumOf(FieldOf(Turns(A), "samples"), own)
  BY <1>1, <1>4
<1>7. H[k]["tokens"] = SumOf(FieldOf(Turns(A), "sum"), own)
  BY <1>1, <1>5
<1>. QED
  BY <1>6, <1>7 DEF TurnFields, TurnColumn

\* The turns of the archive, sorted into its hours.
LEMMA TurnSort ==
  ASSUME NEW S, Factual(S), NEW A, A \subseteq S, NEW H, IsTurns(H, A), NEW c \in TurnFields
  PROVE  /\ DOMAIN H = {TurnUsageKey(r) : r \in Turns(A)}
         /\ Numbers(HoursOf(H, DOMAIN H, TurnColumn(c)))
         /\ Turns(A) \subseteq Turns(S)
         /\ Sorts([r \in Turns(A) |-> TurnUsageKey(r)], FieldOf(Turns(S), c),
                  HoursOf(H, DOMAIN H, TurnColumn(c)), Turns(A), DOMAIN H)
<1>. DEFINE W == Turns(S)
            V == Turns(A)
            g == FieldOf(W, c)
            q == HoursOf(H, DOMAIN H, TurnColumn(c))
            key == [r \in V |-> TurnUsageKey(r)]
            Own(k) == {r \in V : TurnUsageKey(r) = k}
<1>1. Factual(A)
  <2>1. IsFiniteSet(A)
    BY FS_Subset DEF Factual
  <2>. QED
    BY <2>1 DEF Factual, Summable
<1>2. V \subseteq W /\ IsFiniteSet(V)
  <2>1. V \subseteq W /\ V \subseteq A
    BY DEF Turns, Of
  <2>. QED
    BY <1>1, <2>1, FS_Subset DEF Factual
<1>3. DOMAIN H = {TurnUsageKey(r) : r \in V}
  BY DEF TurnUsageHourly, IsTurns, Turns
<1>4. Numbers(g) /\ DOMAIN g = W /\ Numbers(FieldOf(V, c)) /\ DOMAIN FieldOf(V, c) = V
  BY <1>1, TurnNumbers
<1>5. IsFiniteSet(DOMAIN H)
  <2>1. IsFiniteSet({key[x] : x \in V})
    BY <1>2, FiniteValues
  <2>2. {key[x] : x \in V} = {TurnUsageKey(r) : r \in V}
    OBVIOUS
  <2>. QED
    BY <1>3, <2>1, <2>2
<1>6. ASSUME NEW k \in DOMAIN H PROVE q[k] = SumOf(g, Own(k)) /\ q[k] \in Int
  <2>. DEFINE own == Own(k)
  <2>1. q[k] = SumOf(FieldOf(V, c), own)
    BY <1>1, TurnHours DEF HoursOf
  <2>2. own \in SUBSET V /\ \A r \in own : g[r] = FieldOf(V, c)[r]
    BY <1>2 DEF FieldOf
  <2>. HIDE DEF own, V, W, g, q
  <2>3. own \in SUBSET DOMAIN FieldOf(V, c) /\ own \subseteq DOMAIN g
    BY <1>2, <1>4, <2>2
  <2>4. SumOf(g, own) = SumOf(FieldOf(V, c), own)
    BY <1>4, <2>2, <2>3, SumLocal
  <2>5. SumOf(FieldOf(V, c), own) \in Int
    BY <1>4, <2>3, SumType
  <2>. QED
    BY <2>1, <2>4, <2>5 DEF own
<1>7. Numbers(q) /\ DOMAIN q = DOMAIN H
  BY <1>5, <1>6 DEF Numbers, HoursOf
<1>8. \A k : {x \in V : key[x] = k} = Own(k)
  OBVIOUS
<1>9. DOMAIN key = V /\ \A r \in V : key[r] \in DOMAIN H
  BY <1>3
<1>. HIDE DEF V, W, g, q, key, Own
<1>10. Sorts(key, g, q, V, DOMAIN H)
  BY <1>2, <1>4, <1>6, <1>7, <1>8, <1>9 DEF Sorts
<1>. QED
  BY <1>2, <1>3, <1>7, <1>10 DEF V, W, g, q, key

\* What the reports of a model's turns in a window come to.
Reported(S, w, m, t) == {r \in Hot(Turns(S), w) : r.model = m /\ r.type = t}
ReportedHours(H, w, m, t) == {k \in Cold(DOMAIN H, w) : k.model = m /\ k.type = t}
TurnOf(S, w, m, t, c) == SumOf(FieldOf(Turns(S), c), Reported(S, w, m, t))

FieldTotal(S, c) == Total(LAMBDA r : r[c], S)
HoursTotal(H, S, c) == Total(LAMBDA k : H[k][c], S)

\* Turns, of rows and hours.
LEMMA TurnsAdd ==
  ASSUME NEW R, NEW A, NEW now, Ready(R, A, now), NEW w, Rounded(w, now),
         NEW H, IsTurns(H, A), NEW m, NEW t, NEW c \in TurnFields
  PROVE  FieldTotal(Reported(R, w, m, t), c) +
         HoursTotal(H, ReportedHours(H, w, m, t), TurnColumn(c)) =
         TurnOf(R \cup A, w, m, t, c)
<1>. DEFINE S == R \cup A
            W == Turns(S)
            T == Turns(A)
            g == FieldOf(W, c)
            D == DOMAIN H
            d == TurnColumn(c)
            q == HoursOf(H, D, d)
            key == [r \in T |-> TurnUsageKey(r)]
            hot  == Reported(R, w, m, t)
            cold == Reported(A, w, m, t)
            keys == ReportedHours(H, w, m, t)
<1>1. /\ Factual(S) /\ now \in Int /\ R \cap A = {} /\ A \subseteq S
      /\ \A r \in A : r.ts \in Int /\ Past(r.ts, now)
  BY DEF Ready, Aged
<1>2. /\ D = {TurnUsageKey(r) : r \in T}
      /\ Numbers(q) /\ T \subseteq W
      /\ Sorts(key, g, q, T, D)
  <2>. HIDE DEF S
  <2>. QED
    BY <1>1, TurnSort
<1>3. Numbers(g) /\ DOMAIN g = W
  <2>. HIDE DEF S
  <2>. QED
    BY <1>1, TurnNumbers
<1>4. T \subseteq A
  BY DEF Turns, Of
<1>5. hot \subseteq W /\ hot \cap T = {} /\ cold \subseteq T /\ keys \subseteq D
  <2>1. hot \subseteq R /\ hot \subseteq W
    BY DEF Hot, Reported, Turns, Of
  <2>2. cold \subseteq T /\ keys \subseteq D
    BY DEF Hot, Cold, Reported, ReportedHours
  <2>. HIDE DEF hot, cold, keys, T, W, D
  <2>. QED
    BY <1>1, <1>4, <2>1, <2>2
<1>6. Reported(S, w, m, t) = hot \cup cold
  BY DEF Hot, Reported, Turns, Of
<1>7. \A r \in T : r \in cold <=> key[r] \in keys
  <2>. SUFFICES ASSUME NEW r \in T PROVE r \in cold <=> key[r] \in keys
    OBVIOUS
  <2>1. r.ts \in Int /\ Past(r.ts, now)
    BY <1>1, <1>4
  <2>2. w.start <= r.ts /\ r.ts < w.end <=>
           ArchiveHours(w.start, w.end).start <= TheHour(r.ts)
             /\ TheHour(r.ts) < ArchiveHours(w.start, w.end).end
    BY <1>1, <2>1, HourCold
  <2>3. TurnUsageKey(r) \in D /\ key[r] = TurnUsageKey(r)
    BY <1>2
  <2>. QED
    BY <2>2, <2>3, TurnKeyIs DEF Hot, Cold, Reported, ReportedHours
<1>8. TurnOf(S, w, m, t, c) = SumOf(g, hot \cup cold)
  BY <1>6 DEF TurnOf
<1>. HIDE DEF hot, cold, keys, g, q, d, D, key, W, T
<1>9. Total(LAMBDA r : r[c], hot) = SumOf(g, hot)
  <2>1. Numbers(FieldOf(W, c))
    BY <1>3 DEF g
  <2>2. Total(LAMBDA r : r[c], hot) = SumOf(FieldOf(W, c), hot)
    BY <1>5, <2>1, PartOfField
  <2>. QED
    BY <2>2 DEF g
<1>10. Total(LAMBDA k : H[k][d], keys) = SumOf(q, keys)
  <2>1. Numbers(HoursOf(H, D, d))
    BY <1>2 DEF q
  <2>2. Total(LAMBDA k : H[k][d], keys) = SumOf(HoursOf(H, D, d), keys)
    BY <1>5, <2>1, PartOfHours
  <2>. QED
    BY <2>2 DEF q
<1>11. Matched(key, T, D, cold, keys)
  BY <1>5, <1>7 DEF Matched
<1>12. HotAndCold(key, g, q, hot, T, D)
  BY <1>2, <1>3, <1>5 DEF HotAndCold
<1>13. SumOf(g, hot) + SumOf(q, keys) = SumOf(g, hot \cup cold)
  BY <1>11, <1>12, HotAndColdAdd
<1>. QED
  BY <1>8, <1>9, <1>10, <1>13 DEF hot, keys, d, FieldTotal, HoursTotal

LEMMA TurnUsageIs ==
  ASSUME NEW R, NEW A, NEW now, Ready(R, A, now), NEW w, Rounded(w, now),
         NEW H, IsTurns(H, A), NEW m, NEW t
  PROVE  TurnUsage(Hot(Turns(R), w), H, Cold(DOMAIN H, w), m, t) =
           [samples |-> TurnOf(R \cup A, w, m, t, "samples"),
            tokens  |-> TurnOf(R \cup A, w, m, t, "sum")]
<1>1. \A c \in TurnFields :
        FieldTotal(Reported(R, w, m, t), c) +
        HoursTotal(H, ReportedHours(H, w, m, t), TurnColumn(c)) = TurnOf(R \cup A, w, m, t, c)
  BY TurnsAdd
<1>2. FieldTotal(Reported(R, w, m, t), "samples") +
      HoursTotal(H, ReportedHours(H, w, m, t), "samples") = TurnOf(R \cup A, w, m, t, "samples")
  <2>1. "samples" \in TurnFields /\ TurnColumn("samples") = "samples"
    BY DEF TurnFields, TurnColumn
  <2>. QED
    BY <1>1, <2>1
<1>3. FieldTotal(Reported(R, w, m, t), "sum") +
      HoursTotal(H, ReportedHours(H, w, m, t), "tokens") = TurnOf(R \cup A, w, m, t, "sum")
  <2>1. "sum" \in TurnFields /\ TurnColumn("sum") = "tokens"
    BY DEF TurnFields, TurnColumn
  <2>. QED
    BY <1>1, <2>1
<1>. QED
  BY <1>2, <1>3 DEF TurnUsage, Reported, ReportedHours, FieldTotal, HoursTotal

\* What both said, of all the rows there are.
UsageOf(S, w) ==
  [m \in Models \cup {""} |-> [type \in DOMAIN CheckColumns |->
     <<[i \in 1 .. 2 |-> ResponseOf(S, w, m, CheckColumns[type][i])],
       [samples |-> TurnOf(S, w, m, type, "samples"), tokens |-> TurnOf(S, w, m, type, "sum")]>>]]

\* The comparison of turns with responses is made of all rows.
LEMMA UsageCheckIs ==
  ASSUME NEW R, NEW A, NEW now, Ready(R, A, now), NEW w, Rounded(w, now),
         NEW H, IsHourly(H, A), NEW L, IsTurns(L, A)
  PROVE  UsageCheck(Hot(ValidUsage(R), w), H, Cold({k \in DOMAIN H : k.client = "codex"}, w),
                    Hot(Turns(R), w), L, Cold(DOMAIN L, w)) = UsageOf(R \cup A, w)
<1>1. ASSUME NEW m, NEW c \in CheckedColumns
      PROVE  ResponseUsage(Hot(ValidUsage(R), w), H, Cold({k \in DOMAIN H : k.client = "codex"}, w),
               m, c) =
             ResponseOf(R \cup A, w, m, c)
  BY ResponseUsageIs
<1>2. ASSUME NEW m, NEW t
      PROVE  TurnUsage(Hot(Turns(R), w), L, Cold(DOMAIN L, w), m, t) =
             [samples |-> TurnOf(R \cup A, w, m, t, "samples"),
              tokens  |-> TurnOf(R \cup A, w, m, t, "sum")]
  BY TurnUsageIs
<1>3. \A type \in DOMAIN CheckColumns, i \in 1 .. 2 : CheckColumns[type][i] \in CheckedColumns
  BY CheckedAre
<1>. HIDE DEF CheckColumns
<1>4. \A m : \A type \in DOMAIN CheckColumns, i \in 1 .. 2 :
        ResponseUsage(Hot(ValidUsage(R), w), H, Cold({k \in DOMAIN H : k.client = "codex"}, w), m,
                      CheckColumns[type][i]) = ResponseOf(R \cup A, w, m, CheckColumns[type][i])
  BY <1>1, <1>3
<1>. DEFINE X(m, c) == ResponseUsage(Hot(ValidUsage(R), w), H,
                                     Cold({k \in DOMAIN H : k.client = "codex"}, w), m, c)
            Y(m, c) == ResponseOf(R \cup A, w, m, c)
            V(m, t) == TurnUsage(Hot(Turns(R), w), L, Cold(DOMAIN L, w), m, t)
            Z(m, t) == [samples |-> TurnOf(R \cup A, w, m, t, "samples"),
                        tokens  |-> TurnOf(R \cup A, w, m, t, "sum")]
<1>5. UsageCheck(Hot(ValidUsage(R), w), H, Cold({k \in DOMAIN H : k.client = "codex"}, w),
                 Hot(Turns(R), w), L, Cold(DOMAIN L, w)) =
        [m \in Models \cup {""} |-> [type \in DOMAIN CheckColumns |->
           <<[i \in 1 .. 2 |-> X(m, CheckColumns[type][i])], V(m, type)>>]]
  BY DEF UsageCheck
<1>6. UsageOf(R \cup A, w) =
        [m \in Models \cup {""} |-> [type \in DOMAIN CheckColumns |->
           <<[i \in 1 .. 2 |-> Y(m, CheckColumns[type][i])], Z(m, type)>>]]
  BY DEF UsageOf
<1>7. \A m, t : V(m, t) = Z(m, t)
  BY <1>2
<1>. HIDE DEF X, Y, V, Z
<1>8. \A m : \A type \in DOMAIN CheckColumns :
        [i \in 1 .. 2 |-> X(m, CheckColumns[type][i])] =
          [i \in 1 .. 2 |-> Y(m, CheckColumns[type][i])]
  BY <1>4 DEF X, Y
<1>. DEFINE P(m, t) == <<[i \in 1 .. 2 |-> X(m, CheckColumns[t][i])], V(m, t)>>
            Q(m, t) == <<[i \in 1 .. 2 |-> Y(m, CheckColumns[t][i])], Z(m, t)>>
            T == DOMAIN CheckColumns
<1>9. \A m : \A t \in T : P(m, t) = Q(m, t)
  BY <1>7, <1>8
<1>. HIDE DEF P, Q, T
<1>10. ASSUME NEW m PROVE [t \in T |-> P(m, t)] = [t \in T |-> Q(m, t)]
  <2>1. \A t \in T : P(m, t) = Q(m, t)
    BY <1>9
  <2>. QED
    BY <2>1
<1>11. [m \in Models \cup {""} |-> [t \in T |-> P(m, t)]] =
         [m \in Models \cup {""} |-> [t \in T |-> Q(m, t)]]
  BY <1>10
<1>. QED
  BY <1>5, <1>6, <1>11 DEF P, Q, T

\* A view is one of raw rows only, when nothing is archived.
LEMMA ReadyRaw ==
  ASSUME NEW R, NEW A, NEW now, Ready(R, A, now)
  PROVE  Ready(R \cup A, {}, now)
BY DEF Ready, Aged, Factual, Summable

\* What telemetry is made of, whatever is archived.
LEMMA TelemetryIs ==
  ASSUME NEW R, NEW A, NEW now, Ready(R, A, now), NEW range \in Ranges
  PROVE  Telemetry(Reads(R, A), range, now) =
           [ttft  |-> TTFTOf(Hot(Timed(R \cup A), Resolve(Zone, now, range).current)),
            usage |-> UsageOf(R \cup A, Resolve(Zone, now, range).current)]
<1>. DEFINE w == Resolve(Zone, now, range).current
            d == Reads(R, A)
            H == TtftHistogram(A)
            U == UsageHourly(A)
            L == TurnUsageHourly(A)
<1>1. Rounded(w, now)
  BY WindowsRounded DEF Ready, Aged
<1>2. d.raw = R /\ d.archived = A /\ d.hourly = U
  BY DEF Reads, Read, View
<1>3. Telemetry(d, range, now) =
        [ttft  |-> TTFT(Hot(Timed(R), w), H, Cold(DOMAIN H, w)),
         usage |-> UsageCheck(Hot(ValidUsage(R), w), U,
           Cold({k \in DOMAIN U : k.client = "codex"}, w),
                              Hot(Turns(R), w), L, Cold(DOMAIN L, w))]
  BY <1>2 DEF Telemetry, TelemetryIn, Turns
<1>4. IsHistogram(H, A) /\ IsHourly(U, A) /\ IsTurns(L, A)
  BY DEF IsHistogram, IsHourly, IsTurns
<1>. HIDE DEF w, d, H, U, L
<1>5. TTFT(Hot(Timed(R), w), H, Cold(DOMAIN H, w)) = TTFTOf(Hot(Timed(R \cup A), w))
  BY <1>1, <1>4, TTFTIs
<1>6. UsageCheck(Hot(ValidUsage(R), w), U, Cold({k \in DOMAIN U : k.client = "codex"}, w),
                 Hot(Turns(R), w), L, Cold(DOMAIN L, w)) = UsageOf(R \cup A, w)
  BY <1>1, <1>4, UsageCheckIs
<1>. QED
  BY <1>3, <1>5, <1>6 DEF w, d

\* The answer about telemetry is the same.
LEMMA TelemetryAgrees ==
  ASSUME NEW R, NEW A, NEW now, Ready(R, A, now), NEW range \in Ranges
  PROVE  Telemetry(Reads(R, A), range, now) = Telemetry(Reads(R \cup A, {}), range, now)
<1>1. Ready(R \cup A, {}, now)
  BY ReadyRaw
<1>2. (R \cup A) \cup {} = R \cup A
  OBVIOUS
<1>. DEFINE S == R \cup A
<1>3. S \cup {} = S /\ Ready(S, {}, now)
  BY <1>1
<1>. HIDE DEF S
<1>4. Telemetry(Reads(S, {}), range, now) =
           [ttft  |-> TTFTOf(Hot(Timed(S), Resolve(Zone, now, range).current)),
            usage |-> UsageOf(S, Resolve(Zone, now, range).current)]
  <2>1. Telemetry(Reads(S, {}), range, now) =
           [ttft  |-> TTFTOf(Hot(Timed(S \cup {}), Resolve(Zone, now, range).current)),
            usage |-> UsageOf(S \cup {}, Resolve(Zone, now, range).current)]
    BY <1>3, TelemetryIs
  <2>. QED
    BY <1>3, <2>1
<1>. QED
  BY <1>4, TelemetryIs DEF S

-----------------------------------------------------------------------------
(* Sessions *)

\* What a row adds to a column of its session.
SessionAmount(r, c) == IF c \in DOMAIN SessionAdds(r) THEN SessionAdds(r)[c] ELSE 0
SessionAmounts(S, c) == [r \in S |-> SessionAmount(r, c)]

\* As TotalAmounts.
LEMMA TotalSessions ==
  ASSUME NEW S, IsFiniteSet(S), NEW c
  PROVE  Total(LAMBDA r : LET adds == SessionAdds(r)
                          IN  IF c \in DOMAIN adds THEN adds[c] ELSE 0, S) =
           SumOf(SessionAmounts(S, c), S)
<1>. DEFINE Is(f) == f = [s \in SUBSET S |->
                       IF s = {} THEN 0
                       ELSE (LET adds == SessionAdds(CHOOSE x \in s : TRUE)
                             IN  IF c \in DOMAIN adds THEN adds[c] ELSE 0)
                              + f[s \ {CHOOSE x \in s : TRUE}]]
<1>1. Total(LAMBDA r : LET adds == SessionAdds(r)
                       IN  IF c \in DOMAIN adds THEN adds[c] ELSE 0, S) = (CHOOSE f : Is(f))[S]
  BY DEF Total, MapThenSumSet, MapThenFoldSet
<1>2. \A f : Is(f) <=> IsSum(f, SessionAmounts(S, c))
  <2>1. \A s \in SUBSET S : s # {} =>
          SessionAmounts(S, c)[Some(s)] = SessionAmount(CHOOSE x \in s : TRUE, c)
    BY SomeIs DEF Some, SessionAmounts
  <2>. QED
    BY <2>1 DEF IsSum, Some, SessionAmounts, SessionAmount
<1>. HIDE DEF Is
<1>3. (CHOOSE f : Is(f)) = (CHOOSE f : IsSum(f, SessionAmounts(S, c)))
  BY <1>2, Zenon
<1>. QED
  BY <1>1, <1>3, Zenon DEF SumOf, SumOver

\* Those are numbers.
LEMMA SessionNumbers ==
  ASSUME NEW S, Factual(S), NEW c
  PROVE  Numbers(SessionAmounts(S, c)) /\ DOMAIN SessionAmounts(S, c) = S
<1>1. ASSUME NEW r \in S PROVE SessionAmount(r, c) \in Int
  <2>1. CASE Valid(r)
    <3>1. SessionAdds(r) =
            [tokens |-> r.input + r.output, requests |-> 1, input |-> r.input,
             output |-> r.output, cached |-> OrZero(r.cached), write |-> OrZero(r.write),
             reasoning |-> OrZero(r.reasoning)]
      <4>1. r.table = "codex_token_usage"
        BY <2>1 DEF Valid
      <4>. QED
        BY <2>1, <4>1 DEF SessionAdds
    <3>2. SessionAmount(r, c) \in {0, 1, r.input + r.output, r.input, r.output, OrZero(r.cached),
                                   OrZero(r.write), OrZero(r.reasoning)}
      BY <3>1 DEF SessionAmount
    <3>3. /\ r.input \in Int /\ r.output \in Int /\ OrZero(r.cached) \in Int
          /\ OrZero(r.write) \in Int /\ OrZero(r.reasoning) \in Int
      BY <2>1 DEF Valid, Factual, Summable
    <3>. QED
      BY <3>2, <3>3
  <2>2. CASE ~Valid(r)
    <3>1. CASE r.table \in {"token_usage", "cost_usage"}
      <4>1. SessionAmount(r, c) \in {0, r.value}
        BY <2>2, <3>1 DEF SessionAdds, SessionAmount
      <4>2. r.value \in Int
        BY <3>1 DEF Factual, Summable
      <4>. QED
        BY <4>1, <4>2
    <3>2. CASE r.table \notin {"token_usage", "cost_usage"}
      <4>1. SessionAmount(r, c) \in {0, 1}
        BY <2>2, <3>2 DEF SessionAdds, SessionAmount
      <4>. QED
        BY <4>1
    <3>. QED
      BY <3>1, <3>2
  <2>. QED
    BY <2>1, <2>2
<1>. QED
  BY <1>1 DEF SessionAmounts, Numbers, Factual

\* What a session has of a column, raw and archived.
LEMMA SessionSumIs ==
  ASSUME NEW W, Factual(W), NEW S, S \subseteq W, NEW key, NEW c
  PROVE  SessionSum(S, key, c) = SumOf(SessionAmounts(W, c), OfSession(S, key))
<1>. DEFINE own == OfSession(S, key)
<1>1. own \subseteq W
  BY DEF OfSession
<1>2. SessionSum(S, key, c) =
        Total(LAMBDA r : LET adds == SessionAdds(r)
                         IN  IF c \in DOMAIN adds THEN adds[c] ELSE 0, own)
  BY DEF SessionSum
<1>3. Numbers(SessionAmounts(W, c)) /\ DOMAIN SessionAmounts(W, c) = W
  BY SessionNumbers
<1>. HIDE DEF own
<1>4. IsFiniteSet(own) /\ Factual(own)
  <2>1. IsFiniteSet(own)
    BY <1>1, FS_Subset DEF Factual
  <2>. QED
    BY <1>1, <2>1 DEF Factual, Summable
<1>5. Numbers(SessionAmounts(own, c)) /\ DOMAIN SessionAmounts(own, c) = own
  BY <1>4, SessionNumbers
<1>6. \A x \in own : SessionAmounts(own, c)[x] = SessionAmounts(W, c)[x]
  BY <1>1 DEF SessionAmounts
<1>7. SumOf(SessionAmounts(own, c), own) = SumOf(SessionAmounts(W, c), own)
  BY <1>1, <1>3, <1>5, <1>6, SumLocal
<1>. QED
  BY <1>2, <1>4, <1>7, TotalSessions DEF own

LEMMA SessionSumsAdd ==
  ASSUME NEW R, NEW A, Factual(R \cup A), R \cap A = {}, NEW key, NEW c
  PROVE  SessionSum(R, key, c) + SessionSum(A, key, c) =
         SumOf(SessionAmounts(R \cup A, c), OfSession(R \cup A, key))
<1>. DEFINE W == R \cup A
            s == OfSession(R, key)
            t == OfSession(A, key)
            g == SessionAmounts(W, c)
<1>1. SessionSum(R, key, c) = SumOf(g, s)
  <2>1. R \subseteq W
    OBVIOUS
  <2>. HIDE DEF W
  <2>. QED
    BY <2>1, SessionSumIs DEF W
<1>2. SessionSum(A, key, c) = SumOf(g, t)
  <2>1. A \subseteq W
    OBVIOUS
  <2>. HIDE DEF W
  <2>. QED
    BY <2>1, SessionSumIs DEF W
<1>3. Numbers(g) /\ DOMAIN g = W
  BY SessionNumbers
<1>4. OfSession(W, key) = s \cup t /\ s \cap t = {} /\ s \in SUBSET W /\ t \in SUBSET W
  BY DEF OfSession
<1>. HIDE DEF W, s, t, g
<1>5. SumOf(g, s \cup t) = SumOf(g, s) + SumOf(g, t)
  BY <1>3, <1>4, SumUnion
<1>. QED
  BY <1>1, <1>2, <1>4, <1>5 DEF g, W

\* The totals of a session.
LEMMA TotalsAgree ==
  ASSUME NEW R, NEW A, NEW now, Ready(R, A, now), NEW key
  PROVE  SessionTotals(Reads(R, A), key) = SessionTotals(Reads(R \cup A, {}), key)
<1>. DEFINE W == R \cup A
            Both(c) == SumOf(SessionAmounts(W, c), OfSession(W, key))
<1>1. ASSUME NEW c PROVE SessionSum(R, key, c) + SessionSum(A, key, c) = Both(c)
  BY SessionSumsAdd DEF Ready, Aged
<1>2. ASSUME NEW c PROVE SessionSum(W, key, c) + SessionSum({}, key, c) = Both(c)
  <2>1. Factual(W \cup {}) /\ W \cap {} = {}
    <3>1. W \cup {} = W
      OBVIOUS
    <3>. QED
      BY <3>1 DEF Ready
  <2>2. SessionSum(W, key, c) + SessionSum({}, key, c) =
          SumOf(SessionAmounts(W \cup {}, c), OfSession(W \cup {}, key))
    <3>. HIDE DEF W
    <3>. QED
      BY <2>1, SessionSumsAdd
  <2>3. W \cup {} = W
    OBVIOUS
  <2>. QED
    BY <2>2, <2>3
<1>. HIDE DEF W, Both
<1>3. \A c : SessionSum(R, key, c) + SessionSum(A, key, c) =
             SessionSum(W, key, c) + SessionSum({}, key, c)
  BY <1>1, <1>2
<1>4. Reads(R, A).raw = R /\ Reads(R, A).archived = A
      /\ Reads(W, {}).raw = W /\ Reads(W, {}).archived = {}
  BY ReadsAre
<1>. QED
  BY <1>3, <1>4 DEF SessionTotals, W

OfName(S, n) == {r \in S : r.name = n}
CountOf(S, n) == IF n \in DOMAIN CountNames(S) THEN CountNames(S)[n] ELSE 0

\* How often a session has a name.
LEMMA CountIs ==
  ASSUME NEW S, NEW n
  PROVE  CountOf(S, n) = Cardinality(OfName(S, n))
<1>0. OfName(S, n) = {r \in S : r.name = n}
  BY DEF OfName
<1>1. CASE n \in DOMAIN CountNames(S)
  BY <1>0, <1>1 DEF CountNames, CountOf
<1>2. CASE n \notin DOMAIN CountNames(S)
  <2>1. {r \in S : r.name = n} = {}
    BY <1>2 DEF CountNames
  <2>2. Cardinality({}) = 0
    BY FS_EmptySet
  <2>. QED
    BY <1>0, <1>2, <2>1, <2>2 DEF CountOf
<1>. QED
  BY <1>1, <1>2

\* Counts by name add up to those of all the rows.
LEMMA CountsAdd ==
  ASSUME NEW S, IsFiniteSet(S), NEW T, IsFiniteSet(T), S \cap T = {}
  PROVE  CountsByName(S, T) = CountNames(S \cup T)
<1>. DEFINE h == CountNames(S)
            c == CountNames(T)
            all == {r.name : r \in S \cup T}
<1>1. DOMAIN h = {r.name : r \in S} /\ DOMAIN c = {r.name : r \in T}
  BY DEF CountNames
<1>2. DOMAIN h \cup DOMAIN c = all
  BY <1>1
<1>3. ASSUME NEW n \in all
      PROVE  (IF n \in DOMAIN h THEN h[n] ELSE 0) + (IF n \in DOMAIN c THEN c[n] ELSE 0) =
             Cardinality({r \in S \cup T : r.name = n})
  <2>. DEFINE s == OfName(S, n)
              t == OfName(T, n)
              u == OfName(S \cup T, n)
              i == CountOf(S, n)
              j == CountOf(T, n)
  <2>1. IsFiniteSet(s) /\ IsFiniteSet(t)
    BY FS_Subset DEF OfName
  <2>2. u = s \cup t /\ s \cap t = {}
    BY DEF OfName
  <2>3. Cardinality({}) = 0
    BY FS_EmptySet
  <2>4. i = Cardinality(s) /\ j = Cardinality(t)
    BY CountIs
  <2>. HIDE DEF s, t, u, i, j
  <2>6. Cardinality(s \cup t) = Cardinality(s) + Cardinality(t) - Cardinality(s \cap t)
    BY <2>1, FS_Union
  <2>7. Cardinality(s) \in Nat /\ Cardinality(t) \in Nat
    BY <2>1, FS_CardinalityType
  <2>8. Cardinality(s \cup t) = Cardinality(s) + Cardinality(t)
    <3>1. Cardinality(s \cap t) = 0
      BY <2>2, <2>3
    <3>. QED
      BY <2>6, <2>7, <3>1
  <2>9. i + j = Cardinality(u)
    BY <2>2, <2>4, <2>8
  <2>. QED
    BY <2>9 DEF i, j, u, CountOf, OfName
<1>4. CountsByName(S, T) =
        [n \in DOMAIN h \cup DOMAIN c |->
           (IF n \in DOMAIN h THEN h[n] ELSE 0) + (IF n \in DOMAIN c THEN c[n] ELSE 0)]
  BY DEF CountsByName
<1>5. CountNames(S \cup T) = [n \in all |-> Cardinality({r \in S \cup T : r.name = n})]
  BY DEF CountNames
<1>. HIDE DEF h, c, all
<1>. QED
  BY <1>2, <1>3, <1>4, <1>5

LEMMA CountsNothing ==
  ASSUME NEW S, IsFiniteSet(S)
  PROVE  CountsByName(S, {}) = CountNames(S)
<1>1. IsFiniteSet({}) /\ S \cap {} = {} /\ S \cup {} = S
  BY FS_EmptySet
<1>. QED
  BY <1>1, CountsAdd

\* Tools and skills of a session.
LEMMA NamesAgree ==
  ASSUME NEW R, NEW A, NEW now, Ready(R, A, now), NEW key
  PROVE  /\ CountsByName(SessionTools(R, key), SessionTools(A, key)) =
            CountsByName(SessionTools(R \cup A, key), SessionTools({}, key))
         /\ CountsByName(SessionSkills(R, key), SessionSkills(A, key)) =
            CountsByName(SessionSkills(R \cup A, key), SessionSkills({}, key))
<1>1. IsFiniteSet(R \cup A) /\ R \cap A = {}
  BY DEF Ready, Aged, Factual
<1>2. \A S : SessionTools(S, key) \subseteq S /\ SessionSkills(S, key) \subseteq S
  BY DEF SessionTools, SessionSkills, NamedTools, In, Of
<1>3. /\ SessionTools(R \cup A, key) = SessionTools(R, key) \cup SessionTools(A, key)
      /\ SessionSkills(R \cup A, key) = SessionSkills(R, key) \cup SessionSkills(A, key)
  BY DEF SessionTools, SessionSkills, NamedTools, In, Of
<1>4. SessionTools({}, key) = {} /\ SessionSkills({}, key) = {}
  BY <1>2
<1>5. /\ IsFiniteSet(SessionTools(R, key)) /\ IsFiniteSet(SessionTools(A, key))
      /\ IsFiniteSet(SessionSkills(R, key)) /\ IsFiniteSet(SessionSkills(A, key))
      /\ IsFiniteSet(SessionTools(R \cup A, key)) /\ IsFiniteSet(SessionSkills(R \cup A, key))
  <2>1. \A S : S \subseteq R \cup A => IsFiniteSet(S)
    BY <1>1, FS_Subset
  <2>. QED
    BY <1>2, <2>1
<1>6. SessionTools(R, key) \cap SessionTools(A, key) = {}
      /\ SessionSkills(R, key) \cap SessionSkills(A, key) = {}
  BY <1>1, <1>2
<1>7. CountsByName(SessionTools(R, key), SessionTools(A, key)) =
        CountNames(SessionTools(R, key) \cup SessionTools(A, key))
  BY <1>5, <1>6, CountsAdd
<1>8. CountsByName(SessionSkills(R, key), SessionSkills(A, key)) =
        CountNames(SessionSkills(R, key) \cup SessionSkills(A, key))
  BY <1>5, <1>6, CountsAdd
<1>9. CountsByName(SessionTools(R \cup A, key), {}) = CountNames(SessionTools(R \cup A, key))
      /\ CountsByName(SessionSkills(R \cup A, key), {}) = CountNames(SessionSkills(R \cup A, key))
  BY <1>5, CountsNothing
<1>. QED
  BY <1>3, <1>4, <1>7, <1>8, <1>9

\* What else depends on all the rows alone.
LEMMA InvocationsAgree ==
  ASSUME NEW R, NEW A
  PROVE  SkillInvocations(R, A) = SkillInvocations(R \cup A, {})
<1>1. (R \cup A) \cup {} = R \cup A
  OBVIOUS
<1>. QED
  BY <1>1 DEF SkillInvocations

\* The skills a conversation invoked, and which sessions there are: the views read both.
LEMMA InvokedAgree ==
  ASSUME NEW R, NEW A, NEW id
  PROVE  InvokedSkills(Reads(R, A), id) = InvokedSkills(Reads(R \cup A, {}), id)
<1>1. SkillInvocations(R, A) = SkillInvocations(R \cup A, {})
  BY InvocationsAgree
<1>2. Reads(R, A).raw = R /\ Reads(R, A).archived = A
      /\ Reads(R \cup A, {}).raw = R \cup A /\ Reads(R \cup A, {}).archived = {}
  BY ReadsAre
<1>. QED
  BY <1>1, <1>2 DEF InvokedSkills

LEMMA KeysAgree ==
  ASSUME NEW R, NEW A, NEW clients
  PROVE  SessionKeys(Reads(R, A), clients) = SessionKeys(Reads(R \cup A, {}), clients)
<1>1. (R \cup A) \cup {} = R \cup A
  OBVIOUS
<1>2. Reads(R, A).raw = R /\ Reads(R, A).archived = A
      /\ Reads(R \cup A, {}).raw = R \cup A /\ Reads(R \cup A, {}).archived = {}
  BY ReadsAre
<1>. QED
  BY <1>1, <1>2 DEF SessionKeys

\* The other columns of a session.
LEMMA SessionSkillsAgree ==
  ASSUME NEW R, NEW A, NEW now, Ready(R, A, now), NEW key
  PROVE  /\ SkillTotal(Reads(R, A), key) = SkillTotal(Reads(R \cup A, {}), key)
         /\ SessionCost(Reads(R, A), key) = SessionCost(Reads(R \cup A, {}), key)
<1>1. SessionTotals(Reads(R, A), key) = SessionTotals(Reads(R \cup A, {}), key)
  BY TotalsAgree
<1>2. SkillInvocations(R, A) = SkillInvocations(R \cup A, {})
  BY InvocationsAgree
<1>3. \A id : ConversationCost(Reads(R, A), id) = ConversationCost(Reads(R \cup A, {}), id)
  <2>. SUFFICES ASSUME NEW id
                PROVE  ConversationCost(Reads(R, A), id) = ConversationCost(Reads(R \cup A, {}), id)
    OBVIOUS
  <2>. QED
    BY ConversationAgrees
<1>4. Reads(R, A).raw = R /\ Reads(R, A).archived = A
      /\ Reads(R \cup A, {}).raw = R \cup A /\ Reads(R \cup A, {}).archived = {}
  BY ReadsAre
<1>. HIDE DEF Reads
<1>5. SkillTotal(Reads(R, A), key) = SkillTotal(Reads(R \cup A, {}), key)
  BY <1>1, <1>2, <1>4 DEF SkillTotal
<1>6. SessionCost(Reads(R, A), key) = SessionCost(Reads(R \cup A, {}), key)
  BY <1>1, <1>3 DEF SessionCost
<1>. QED
  BY <1>5, <1>6

-----------------------------------------------------------------------------
(* Lists of sessions, and details *)
LEMMA ReadyIsDated ==
  ASSUME NEW R, NEW A, NEW now, Ready(R, A, now)
  PROVE  Dated(Reads(R, A)) /\ Dated(Reads(R \cup A, {}))
<1>1. /\ IsFiniteSet(R \cup A)
      /\ \A r \in R \cup A :
           r.ts \in Int /\ (r.table = "turn_cost" =>
                              r.received \in Int /\ r.amount \in Int /\ r.tie \in Int)
  BY DEF Ready, Aged, Priced
<1>2. IsFiniteSet(R) /\ IsFiniteSet(A) /\ IsFiniteSet({})
  BY <1>1, FS_Subset, FS_EmptySet
<1>3. Reads(R, A).raw = R /\ Reads(R, A).archived = A
      /\ Reads(R \cup A, {}).raw = R \cup A /\ Reads(R \cup A, {}).archived = {}
  BY ReadsAre
<1>4. \A r \in (R \cup A) \cup {} :
         r.ts \in Int /\ (r.table = "turn_cost" =>
                            r.received \in Int /\ r.amount \in Int /\ r.tie \in Int)
  BY <1>1
<1>5. Dated(Reads(R, A))
  BY <1>1, <1>2, <1>3 DEF Dated
<1>6. Dated(Reads(R \cup A, {}))
  BY <1>1, <1>2, <1>3, <1>4 DEF Dated
<1>. QED
  BY <1>5, <1>6

\* A list that may have all sessions has all.
LEMMA AllListed ==
  ASSUME NEW d, Dated(d), NEW client \in Clients, NEW n \in Nat,
         Ranked(SessionKeys(d, Arms(client))), Cardinality(SessionKeys(d, Arms(client))) <= n
  PROVE  DOMAIN SessionList(d, client, n) = SessionKeys(d, Arms(client))
<1>. DEFINE all == SessionKeys(d, Arms(client))
            listed == DOMAIN SessionList(d, client, n)
<1>1. Recent(d, all, listed, n)
  BY ListMissesNone
<1>2. IsFiniteSet(all)
  BY FiniteKeys
<1>3. Cardinality(all) <= n
  OBVIOUS
<1>. HIDE DEF all, listed
<1>4. listed \in SUBSET all /\ (listed = all \/ Cardinality(listed) = n)
  BY <1>1 DEF Recent
<1>5. Cardinality(listed) <= Cardinality(all)
        /\ (Cardinality(all) = Cardinality(listed) => all = listed)
  BY <1>2, <1>4, FS_Subset
<1>6. Cardinality(all) \in Nat
  BY <1>2, FS_CardinalityType
<1>7. listed = all
  BY <1>3, <1>4, <1>5, <1>6
<1>. QED
  BY <1>7 DEF listed, all

\* What is told of a session in a list.
ListRow(d, key) ==
  LET totals == SessionTotals(d, key)
  IN  [span   |-> Span(d, key), tokens |-> totals.tokens, requests |-> totals.requests,
       tools  |-> totals.tools, skills |-> SkillTotal(d, key),
       cost   |-> SessionCost(d, key)]
ToldRow(d, key) ==
  [tokens |-> SessionTotals(d, key).tokens, requests |-> SessionTotals(d, key).requests,
   tools  |-> SessionTotals(d, key).tools, skills |-> SkillTotal(d, key),
   cost   |-> SessionCost(d, key)]
Kept(row) == [f \in DOMAIN row \ {"span"} |-> row[f]]

\* A row of the list without its times.
LEMMA KeptIs ==
  ASSUME NEW d, NEW key
  PROVE  Kept(ListRow(d, key)) = ToldRow(d, key)
<1>1. \A a, b, c, e, f, g :
        LET row == [span |-> a, tokens |-> b, requests |-> c, tools |-> e, skills |-> f, cost |-> g]
        IN  Kept(row) = [tokens |-> b, requests |-> c, tools |-> e, skills |-> f, cost |-> g]
  BY DEF Kept
<1>. QED
  BY <1>1 DEF ListRow, ToldRow

LEMMA ToldList ==
  ASSUME NEW d, NEW client, NEW n, NEW a, a.of = "sessions"
  PROVE  Timeless(a, SessionList(d, client, n)) =
           [key \in DOMAIN SessionList(d, client, n) |-> ToldRow(d, key)]
<1>. DEFINE D == Top(Candidates(d, client, n), n)
<1>1. SessionList(d, client, n) = [key \in D |-> ListRow(d, key)]
  BY DEF SessionList, ListRow
<1>2. Timeless(a, SessionList(d, client, n)) =
        [key \in DOMAIN SessionList(d, client, n) |-> Kept(SessionList(d, client, n)[key])]
  BY DEF Timeless, Kept
<1>. HIDE DEF D
<1>3. Timeless(a, SessionList(d, client, n)) = [key \in D |-> Kept(ListRow(d, key))]
  BY <1>1, <1>2
<1>. QED
  BY <1>1, <1>3, KeptIs

\* The list tells the same.
LEMMA ListsAgree ==
  ASSUME NEW R, NEW A, NEW now, Ready(R, A, now), NEW client \in Clients, NEW n \in Nat,
         Ranked(SessionKeys(Reads(R, A), Arms(client))),
         Cardinality(SessionKeys(Reads(R, A), Arms(client))) <= n,
         NEW a, a.of = "sessions"
  PROVE  Timeless(a, SessionList(Reads(R, A), client, n)) =
         Timeless(a, SessionList(Reads(R \cup A, {}), client, n))
<1>. DEFINE d1 == Reads(R, A)
            d2 == Reads(R \cup A, {})
            keys == SessionKeys(d1, Arms(client))
<1>1. Dated(d1) /\ Dated(d2)
  BY ReadyIsDated
<1>2. SessionKeys(d2, Arms(client)) = keys
  BY KeysAgree
<1>3. \A key : ToldRow(d1, key) = ToldRow(d2, key)
  <2>. SUFFICES ASSUME NEW key PROVE ToldRow(d1, key) = ToldRow(d2, key)
    OBVIOUS
  <2>1. SessionTotals(d1, key) = SessionTotals(d2, key)
    BY TotalsAgree
  <2>2. SkillTotal(d1, key) = SkillTotal(d2, key) /\ SessionCost(d1, key) = SessionCost(d2, key)
    BY SessionSkillsAgree
  <2>. HIDE DEF d1, d2
  <2>. QED
    BY <2>1, <2>2 DEF ToldRow
<1>4. Ranked(keys) /\ Cardinality(keys) <= n
  OBVIOUS
<1>. HIDE DEF d1, d2
<1>5. DOMAIN SessionList(d1, client, n) = keys
  BY <1>1, <1>4, AllListed
<1>6. DOMAIN SessionList(d2, client, n) = keys
  BY <1>1, <1>2, <1>4, AllListed
<1>7. Timeless(a, SessionList(d1, client, n)) = [key \in keys |-> ToldRow(d1, key)]
  BY <1>5, ToldList
<1>8. Timeless(a, SessionList(d2, client, n)) = [key \in keys |-> ToldRow(d2, key)]
  BY <1>6, ToldList
<1>9. Timeless(a, SessionList(d1, client, n)) = Timeless(a, SessionList(d2, client, n))
  BY <1>3, <1>7, <1>8
<1>. QED
  BY <1>9 DEF d1, d2

\* What is told of the session with a key.
DetailRow(d, key, id) ==
  LET totals == SessionTotals(d, key)
  IN  [key    |-> key, span |-> Span(d, key), tokens |-> totals.tokens,
       requests |-> totals.requests,
       tools  |-> CountsByName(SessionTools(d.raw, key), SessionTools(d.archived, key)),
       skills |-> IF key.client = "codex" THEN InvokedSkills(d, id)
                  ELSE CountsByName(SessionSkills(d.raw, key), SessionSkills(d.archived, key)),
       split  |-> IF key.client = "claude" THEN <<>>
                  ELSE [c \in {"input", "output", "cached", "write", "reasoning"} |-> totals[c]],
       cost   |-> SessionCost(d, key)]

\* The details of a session without its times.
LEMMA DetailsAgree ==
  ASSUME NEW R, NEW A, NEW now, Ready(R, A, now), NEW key, NEW id
  PROVE  Kept(DetailRow(Reads(R, A), key, id)) = Kept(DetailRow(Reads(R \cup A, {}), key, id))
<1>. DEFINE d1 == Reads(R, A)
            d2 == Reads(R \cup A, {})
            Row(a, b, c, e, f, g, h, i) ==
              [key |-> a, span |-> b, tokens |-> c, requests |-> e, tools |-> f,
               skills |-> g, split |-> h, cost |-> i]
            Rest(a, c, e, f, g, h, i) ==
              [key |-> a, tokens |-> c, requests |-> e, tools |-> f,
               skills |-> g, split |-> h, cost |-> i]
<1>1. \A a, b, c, e, f, g, h, i : Kept(Row(a, b, c, e, f, g, h, i)) = Rest(a, c, e, f, g, h, i)
  BY DEF Kept
<1>2. SessionTotals(d1, key) = SessionTotals(d2, key)
  BY TotalsAgree
<1>3. SessionCost(d1, key) = SessionCost(d2, key)
  BY SessionSkillsAgree
<1>4. InvokedSkills(d1, id) = InvokedSkills(d2, id)
  BY InvokedAgree
<1>5. d1.raw = R /\ d1.archived = A /\ d2.raw = R \cup A /\ d2.archived = {}
  BY ReadsAre
<1>6. /\ CountsByName(SessionTools(R, key), SessionTools(A, key)) =
         CountsByName(SessionTools(R \cup A, key), SessionTools({}, key))
      /\ CountsByName(SessionSkills(R, key), SessionSkills(A, key)) =
         CountsByName(SessionSkills(R \cup A, key), SessionSkills({}, key))
  BY NamesAgree
<1>. HIDE DEF d1, d2
<1>. DEFINE tools(d) == CountsByName(SessionTools(d.raw, key), SessionTools(d.archived, key))
            skills(d) == IF key.client = "codex" THEN InvokedSkills(d, id)
                         ELSE CountsByName(SessionSkills(d.raw, key),
                           SessionSkills(d.archived, key))
            split(d) == IF key.client = "claude" THEN <<>>
                        ELSE [c \in {"input", "output", "cached", "write", "reasoning"} |->
                                SessionTotals(d, key)[c]]
<1>7. tools(d1) = tools(d2) /\ skills(d1) = skills(d2)
  BY <1>4, <1>5, <1>6
<1>8. split(d1) = split(d2)
  BY <1>2
<1>9. \A d : DetailRow(d, key, id) =
        Row(key, Span(d, key), SessionTotals(d, key).tokens, SessionTotals(d, key).requests,
            tools(d), skills(d), split(d), SessionCost(d, key))
  BY DEF DetailRow
<1>. HIDE DEF tools, skills, split, Row, Rest
<1>10. \A d : Kept(DetailRow(d, key, id)) =
        Rest(key, SessionTotals(d, key).tokens, SessionTotals(d, key).requests,
             tools(d), skills(d), split(d), SessionCost(d, key))
  BY <1>1, <1>9
<1>11. Kept(DetailRow(d1, key, id)) = Kept(DetailRow(d2, key, id))
  BY <1>2, <1>3, <1>7, <1>8, <1>10
<1>. QED
  BY <1>11 DEF d1, d2

FoundKeys(d, client, id) == {key \in SessionKeys(d, Arms(client)) : key.id = id}
KeyOf(found) == CHOOSE k \in found : k.client = "claude" \/ \A l \in found : l.client = "codex"

\* The detail tells the same.
LEMMA DetailAgrees ==
  ASSUME NEW R, NEW A, NEW now, Ready(R, A, now), NEW client, NEW id, NEW a, a.of = "session"
  PROVE  Timeless(a, SessionDetail(Reads(R, A), client, id)) =
         Timeless(a, SessionDetail(Reads(R \cup A, {}), client, id))
<1>. DEFINE d1 == Reads(R, A)
            d2 == Reads(R \cup A, {})
            found == FoundKeys(d1, client, id)
            key == KeyOf(found)
<1>1. FoundKeys(d2, client, id) = found
  BY KeysAgree DEF FoundKeys
<1>2. \A d : SessionDetail(d, client, id) =
               IF FoundKeys(d, client, id) = {} THEN <<>>
               ELSE DetailRow(d, KeyOf(FoundKeys(d, client, id)), id)
  BY DEF SessionDetail, FoundKeys, KeyOf, DetailRow
<1>3. Kept(DetailRow(d1, key, id)) = Kept(DetailRow(d2, key, id))
  BY DetailsAgree
<1>4. \A x : Timeless(a, x) = Kept(x)
  BY DEF Timeless, Kept
<1>. HIDE DEF d1, d2, key
<1>5. SessionDetail(d1, client, id) = IF found = {} THEN <<>> ELSE DetailRow(d1, key, id)
  BY <1>2 DEF key
<1>6. SessionDetail(d2, client, id) = IF found = {} THEN <<>> ELSE DetailRow(d2, key, id)
  BY <1>1, <1>2 DEF key
<1>. HIDE DEF found
<1>7. Timeless(a, SessionDetail(d1, client, id)) = Timeless(a, SessionDetail(d2, client, id))
  BY <1>3, <1>4, <1>5, <1>6
<1>. QED
  BY <1>7 DEF d1, d2

-----------------------------------------------------------------------------
(* All answers *)
Proper(a) ==
  /\ a.client \in Clients
  /\ a.of = "rankings" => a.days \in Int \cup {Null}
  /\ a.of \in {"snapshot", "trends", "models", "rates", "telemetry"} => a.range \in Ranges
  /\ a.of \in {"snapshot", "trends", "heatmap", "models", "rankings", "rates",
               "realtime", "prices", "telemetry", "sessions", "session"}

\* Which answer is which.
LEMMA AnswerIs ==
  ASSUME NEW a, NEW d, NEW now
  PROVE  /\ a.of = "snapshot"  => AnswerFrom(a, d, now) = Overview(d, a.client, a.range, now)
         /\ a.of = "trends"    => AnswerFrom(a, d, now) = Trends(d, a.client, a.range, now)
         /\ a.of = "heatmap"   => AnswerFrom(a, d, now) = Heatmap(d, a.client, now)
         /\ a.of = "models"    => AnswerFrom(a, d, now) = PeriodModels(d, a.client, a.range, now)
         /\ a.of = "rankings"  => AnswerFrom(a, d, now) = Rankings(d, a.client, a.days, now)
         /\ a.of = "rates"     => AnswerFrom(a, d, now) = Rates(d, a.client, a.range, now)
         /\ a.of = "realtime"  => AnswerFrom(a, d, now) = RealtimeSpeed(d.raw, a.client, now)
         /\ a.of = "prices"    => AnswerFrom(a, d, now) = SeenModels(d, a.client)
         /\ a.of = "telemetry" => AnswerFrom(a, d, now) = Telemetry(d, a.range, now)
         /\ a.of = "sessions"  => AnswerFrom(a, d, now) = SessionList(d, a.client, a.limit)
         /\ a.of = "session"   => AnswerFrom(a, d, now) = SessionDetail(d, a.client, a.session)
BY DEF AnswerFrom

\* The answers told as they are.
Outright == {"snapshot", "trends", "heatmap", "models", "rankings", "rates", "prices", "telemetry"}

\* All endpoints that tell no times of sessions, of both kinds of rows.
LEMMA AnswersAgree ==
  ASSUME NEW R, NEW A, NEW now, Ready(R, A, now), PositiveCosts(A), NEW a, Proper(a),
         a.of \in Outright
  PROVE  AnswerFrom(a, Reads(R, A), now) = AnswerFrom(a, Reads(R \cup A, {}), now)
<1>. DEFINE d1 == Reads(R, A)
            d2 == Reads(R \cup A, {})
            client == a.client
            range == a.range
            days == a.days
<1>0. /\ a.of = "rankings" => days \in Int \cup {Null}
      /\ a.of \in {"snapshot", "trends", "models", "rates", "telemetry"} => range \in Ranges
  BY DEF Proper
<1>. HIDE DEF client, range, days
<1>1. CASE a.of = "snapshot"
  <2>1. range \in Ranges
    BY <1>0, <1>1
  <2>2. Overview(d1, client, range, now) = Overview(d2, client, range, now)
    BY <2>1, OverviewAgrees
  <2>. QED
    BY <1>1, <2>2, AnswerIs DEF client, range
<1>2. CASE a.of = "trends"
  <2>1. range \in Ranges
    BY <1>0, <1>2
  <2>2. Trends(d1, client, range, now) = Trends(d2, client, range, now)
    BY <2>1, TrendsAgree
  <2>. QED
    BY <1>2, <2>2, AnswerIs DEF client, range
<1>3. CASE a.of = "heatmap"
  <2>1. Heatmap(d1, client, now) = Heatmap(d2, client, now)
    BY HeatmapAgrees
  <2>. QED
    BY <1>3, <2>1, AnswerIs DEF client
<1>4. CASE a.of = "models"
  <2>1. range \in Ranges
    BY <1>0, <1>4
  <2>2. PeriodModels(d1, client, range, now) = PeriodModels(d2, client, range, now)
    BY <2>1, PeriodModelsAgree
  <2>. QED
    BY <1>4, <2>2, AnswerIs DEF client, range
<1>5. CASE a.of = "rankings"
  <2>1. days \in Int \cup {Null}
    BY <1>0, <1>5
  <2>2. Rankings(d1, client, days, now) = Rankings(d2, client, days, now)
    BY <2>1, RankingsAgree
  <2>. QED
    BY <1>5, <2>2, AnswerIs DEF client, days
<1>6. CASE a.of = "rates"
  <2>1. range \in Ranges
    BY <1>0, <1>6
  <2>2. Rates(d1, client, range, now) = Rates(d2, client, range, now)
    BY <2>1, RatesAgree
  <2>. QED
    BY <1>6, <2>2, AnswerIs DEF client, range
<1>7. CASE a.of = "prices"
  <2>1. SeenModels(d1, client) = SeenModels(d2, client)
    BY PricesAgree
  <2>. QED
    BY <1>7, <2>1, AnswerIs DEF client
<1>8. CASE a.of = "telemetry"
  <2>1. range \in Ranges
    BY <1>0, <1>8
  <2>2. Telemetry(d1, range, now) = Telemetry(d2, range, now)
    BY <2>1, TelemetryAgrees
  <2>. QED
    BY <1>8, <2>2, AnswerIs DEF range
<1>. QED
  BY <1>1, <1>2, <1>3, <1>4, <1>5, <1>6, <1>7, <1>8 DEF Outright

-----------------------------------------------------------------------------
(* What a request is told *)

\* There are no more sessions than rows.
LEMMA SessionsCounted ==
  ASSUME NEW v, v.raw \in SomeRows, v.archived \in SomeRows, NEW clients
  PROVE  Cardinality(SessionKeys(Found(v), clients)) <= Cardinality(DOMAIN Data)
         /\ Cardinality(DOMAIN Data) \in Nat
<1>. DEFINE D == DOMAIN Data
            f == [n \in D |-> SessionKey(Data[n])]
            T == {f[n] : n \in D}
            K == SessionKeys(Found(v), clients)
<1>1. IsFiniteSet(D)
  BY DataFacts
<1>2. f \in Surjection(D, T)
  BY DEF Surjection
<1>3. IsFiniteSet(T) /\ Cardinality(T) <= Cardinality(D)
  <2>. HIDE DEF f, T, D
  <2>. QED
    BY <1>1, <1>2, FS_Surjection
<1>4. K \subseteq T
  <2>1. \A r \in Found(v).raw \cup Found(v).archived : \E n \in D : r = Data[n]
    BY ReadOf, RowsAreData
  <2>2. \A k \in K : \E r \in Found(v).raw \cup Found(v).archived : k = SessionKey(r)
    BY DEF SessionKeys, ActiveRows, In
  <2>3. \A k \in K : \E n \in D : k = f[n]
    <3>. HIDE DEF K
    <3>. QED
      BY <2>1, <2>2
  <2>. HIDE DEF K
  <2>. QED
    BY <2>3
<1>. HIDE DEF K, T, D
<1>5. Cardinality(K) <= Cardinality(T)
  BY <1>3, <1>4, FS_Subset
<1>6. IsFiniteSet(K)
  BY <1>3, <1>4, FS_Subset
<1>7. Cardinality(D) \in Nat /\ Cardinality(T) \in Nat /\ Cardinality(K) \in Nat
  BY <1>1, <1>3, <1>6, FS_CardinalityType
<1>8. Cardinality(K) <= Cardinality(D) /\ Cardinality(D) \in Nat
  BY <1>3, <1>5, <1>7
<1>. QED
  BY <1>8 DEF K, D

\* What the queries find in a view.
LEMMA FoundIs ==
  ASSUME NEW x, NEW y
  PROVE  Found([raw |-> x, archived |-> y]) = Reads(Rows(x), Rows(y))
BY DEF Found, Reads

\* Rows with different names are different rows.
LEMMA RowsApart ==
  ASSUME NEW x \in SomeRows, NEW y \in SomeRows, x \cap y = {}
  PROVE  /\ Rows(x \cup y) = Rows(x) \cup Rows(y) /\ Rows(x) \cap Rows(y) = {} /\ Rows({}) = {}
         /\ x \cup y \in SomeRows
<1>1. \A n \in DOMAIN Data : Data[n].row = n
  BY DashboardAssumption DEF DashboardAssumption
<1>2. Rows(x \cup y) = Rows(x) \cup Rows(y) /\ Rows({}) = {}
  BY DEF Rows
<1>3. Rows(x) \cap Rows(y) = {}
  BY <1>1 DEF Rows, SomeRows
<1>. QED
  BY <1>2, <1>3 DEF SomeRows

\* The rows there are have the numbers that are read.
LEMMA RowsAreFactual ==
  ASSUME NEW x \in SomeRows
  PROVE  Factual(Rows(x))
<1>1. \A n \in DOMAIN Data :
        /\ Data[n].ts \in Int /\ Data[n].row = n
        /\ Data[n].table \in {"token_usage", "cost_usage"} => Data[n].value \in Int
        /\ Data[n].table = "codex_token_usage" => Data[n].input \in Int /\ Data[n].output \in Int
  BY DashboardAssumption DEF DashboardAssumption
<1>2. \A n \in DOMAIN Data :
        /\ Data[n].table = "skill_injected" => Data[n].value \in Int
        /\ Data[n].table = "api_request" => Data[n].output \in Int /\ Data[n].duration \in Int
        /\ Data[n].table \in {"response_tbt", "turn_token_usage"} =>
             Data[n].samples \in Int /\ Data[n].sum \in Int
        /\ Data[n].table = "codex_token_usage" =>
             OrZero(Data[n].cached) \in Int /\ OrZero(Data[n].write) \in Int
               /\ OrZero(Data[n].reasoning) \in Int
  BY ColumnAssumption DEF ColumnAssumption
<1>3. IsFiniteSet(Rows(x)) /\ \A r \in Rows(x) : \E n \in DOMAIN Data : r = Data[n]
  BY RowsAreData
<1>4. Summable(Rows(x))
  <2>. SUFFICES ASSUME NEW r \in Rows(x)
       PROVE /\ r.table \in {"token_usage", "cost_usage", "skill_injected"} => r.value \in Int
             /\ r.table = "api_request" => r.output \in Int /\ r.duration \in Int
             /\ r.table \in {"response_tbt", "turn_token_usage"} =>
                  r.samples \in Int /\ r.sum \in Int
             /\ r.table = "codex_token_usage" =>
                  /\ r.input \in Int /\ r.output \in Int /\ OrZero(r.cached) \in Int
                  /\ OrZero(r.write) \in Int /\ OrZero(r.reasoning) \in Int
    BY DEF Summable
  <2>1. PICK n \in DOMAIN Data : r = Data[n]
    BY <1>3
  <2>. QED
    BY <1>1, <1>2, <2>1
<1>5. \A r \in Rows(x) : r.ts \in Int /\ r = Data[r.row]
  BY <1>1, <1>3
<1>6. \A r, s \in Rows(x) : r.row = s.row => r = s
  BY <1>5
<1>. QED
  BY <1>3, <1>4, <1>5, <1>6 DEF Factual

\* A view of the rows there are, some archived in time.
LEMMA RowsAreReady ==
  ASSUME NEW x \in SomeRows, NEW y \in SomeRows, x \cap y = {}, NEW now \in Int,
         \A n \in y : Past(Data[n].ts, now)
  PROVE  Ready(Rows(x), Rows(y), now)
<1>1. /\ Rows(x \cup y) = Rows(x) \cup Rows(y) /\ Rows(x) \cap Rows(y) = {} /\ x \cup y \in SomeRows
  BY RowsApart
<1>2. Priced(Rows(x \cup y)) /\ Factual(Rows(x \cup y))
  BY <1>1, RowsArePriced, RowsAreFactual
<1>3. \A r \in Rows(y) : Past(r.ts, now)
  BY DEF Rows
<1>4. \A r \in Rows(x) \cup Rows(y) : r.ts \in Int
  BY <1>1, <1>2 DEF Factual
<1>. QED
  BY <1>1, <1>2, <1>3, <1>4 DEF Ready, Aged

LEMMA RowsArePositive ==
  ASSUME CostsPositive, NEW y \in SomeRows
  PROVE  PositiveCosts(Rows(y))
<1>1. \A r \in Rows(y) : \E n \in DOMAIN Data : r = Data[n]
  BY RowsAreData
<1>. QED
  BY <1>1 DEF PositiveCosts, CostsPositive, IsCost

\* Whatever is asked of a view some rows y of which have become summaries (all of them past at
\* the time the request came), it is told what it would be told if they were rows still. The
\* realtime speed reads no summaries at all.
THEOREM ToldAgrees ==
  ASSUME CostsPositive, NEW x \in SomeRows, NEW y \in SomeRows, x \cap y = {}, NEW now \in Int,
         \A n \in y : Past(Data[n].ts, now), NEW a, Proper(a),
         NEW g, g.raw = x, g.archived = IF a.of = "realtime" THEN {} ELSE y
  PROVE  Told(a, g, now) = Told(a, [raw |-> x \cup y, archived |-> {}], now)
<1>. DEFINE R == Rows(x)
            A == Rows(y)
            d1 == Reads(R, A)
            d2 == Reads(R \cup A, {})
            e == [raw |-> x \cup y, archived |-> {}]
            n == Cardinality(DOMAIN Data)
            client == a.client
<1>1. Ready(R, A, now) /\ PositiveCosts(A)
  BY RowsAreReady, RowsArePositive
<1>2. Found(e) = d2
  <2>1. Found(e) = Reads(Rows(x \cup y), Rows({}))
    BY FoundIs
  <2>2. Rows(x \cup y) = R \cup A /\ Rows({}) = {}
    BY RowsApart
  <2>. QED
    BY <2>1, <2>2
<1>3. a.of # "realtime" => Found(g) = d1
  BY DEF Found, Reads
<1>4. client \in Clients
  BY DEF Proper
<1>5. CASE a.of \in Outright
  <2>1. AnswerFrom(a, d1, now) = AnswerFrom(a, d2, now)
    <3>. HIDE DEF R, A
    <3>. QED
      BY <1>1, <1>5, AnswersAgree
  <2>2. a.of \notin {"sessions", "session", "realtime"}
    BY <1>5 DEF Outright
  <2>. HIDE DEF d1, d2, e
  <2>. QED
    BY <1>2, <1>3, <2>1, <2>2 DEF Told, e
<1>6. CASE a.of = "realtime"
  <2>2. RealtimeSpeed(R, client, now) = RealtimeSpeed(R \cup A, client, now)
    <3>. HIDE DEF R, A, client
    <3>. QED
      BY <1>1, RealtimeAgrees
  <2>3. Found(g).raw = R /\ Found(e).raw = R \cup A
    BY <1>2, ReadOf, ReadsAre
  <2>4. AnswerFrom(a, Found(g), now) = RealtimeSpeed(R, client, now)
        /\ AnswerFrom(a, Found(e), now) = RealtimeSpeed(R \cup A, client, now)
    <3>. DEFINE f1 == Found(g)
                f2 == Found(e)
    <3>1. f1.raw = R /\ f2.raw = R \cup A
      BY <2>3
    <3>. HIDE DEF f1, f2
    <3>2. AnswerFrom(a, f1, now) = RealtimeSpeed(f1.raw, a.client, now)
          /\ AnswerFrom(a, f2, now) = RealtimeSpeed(f2.raw, a.client, now)
      BY <1>6, AnswerIs
    <3>. QED
      BY <3>1, <3>2 DEF f1, f2
  <2>. HIDE DEF R, A, client, e
  <2>. QED
    BY <1>6, <2>2, <2>4 DEF Told, e
<1>7. CASE a.of = "sessions"
  <2>1. /\ n \in Nat /\ Cardinality(SessionKeys(Found(g), Arms(client))) <= n
        /\ Ranked(SessionKeys(Found(g), Arms(client)))
    <3>1. g.raw \in SomeRows /\ g.archived \in SomeRows
      BY <1>7
    <3>. QED
      BY <3>1, SessionsCounted, FoundIsDated
  <2>2. Found(g) = d1
    BY <1>3, <1>7
  <2>3. Cardinality(SessionKeys(d1, Arms(client))) <= n /\ Ranked(SessionKeys(d1, Arms(client)))
    BY <2>1, <2>2
  <2>. HIDE DEF R, A, n, client
  <2>4. Timeless(a, SessionList(d1, client, n)) = Timeless(a, SessionList(d2, client, n))
    BY <1>1, <1>4, <1>7, <2>1, <2>3, ListsAgree
  <2>5. Told(a, g, now) = Timeless(a, SessionList(Found(g), client, n))
        /\ Told(a, e, now) = Timeless(a, SessionList(Found(e), client, n))
    BY <1>7 DEF Told, client, n
  <2>. HIDE DEF d1, d2, e
  <2>6. Told(a, g, now) = Told(a, e, now)
    BY <1>2, <2>2, <2>4, <2>5
  <2>. QED
    BY <2>6 DEF e
<1>8. CASE a.of = "session"
  <2>. DEFINE id == a.session
  <2>1. Found(g) = d1
    BY <1>3, <1>8
  <2>. HIDE DEF R, A, client, id
  <2>2. Timeless(a, SessionDetail(d1, client, id)) = Timeless(a, SessionDetail(d2, client, id))
    BY <1>1, <1>8, DetailAgrees
  <2>3. Told(a, g, now) = Timeless(a, SessionDetail(Found(g), client, id))
        /\ Told(a, e, now) = Timeless(a, SessionDetail(Found(e), client, id))
    BY <1>8, AnswerIs DEF Told, client, id
  <2>. HIDE DEF d1, d2, e
  <2>4. Told(a, g, now) = Told(a, e, now)
    BY <1>2, <2>1, <2>2, <2>3
  <2>. QED
    BY <2>4 DEF e
<1>9. a.of \in Outright \cup {"realtime", "sessions", "session"}
  BY DEF Proper, Outright
<1>. QED
  BY <1>5, <1>6, <1>7, <1>8, <1>9

-----------------------------------------------------------------------------
(* How old what is archived is *)

\* There has been a sweep for which t was expired.
Expired(t) == \E i \in 1 .. clock : t < ArchiveCutoff(Zone, Times[i])

\* And for which all before t was.
Due(t) == \E i \in 1 .. clock : t <= ArchiveCutoff(Zone, Times[i])

\* Whatever is archived was before a cutoff then, whatever is being archived is, and what a
\* request sees of it is long past at the time the request came.
Ages ==
  /\ \A n \in archived : Expired(Data[n].ts)
  /\ archiver # "idle" => day.end \in Int /\ Due(day.end)
  /\ \A h \in Handlers : Reading(h) => \A n \in snap[h].archived : Past(Data[n].ts, at[h])

\* Cutoffs are whole hours.
LEMMA CutoffTypes ==
  ASSUME IInv
  PROVE  /\ clock \in Nat \ {0}
         /\ \A i \in 1 .. clock : Times[i] \in Int /\ OnHour(ArchiveCutoff(Zone, Times[i]))
                                  /\ ArchiveCutoff(Zone, Times[i]) \in Int
<1>1. clock \in 1 .. Len(Times) /\ Len(Times) \in Nat /\ \A i \in 1 .. Len(Times) : Times[i] \in Int
  <2>1. Times \in Seq(Int)
    BY DashboardAssumption DEF DashboardAssumption
  <2>. QED
    BY <2>1 DEF IInv, ClockOK
<1>2. \A i \in 1 .. clock : Times[i] \in Int
  BY <1>1
<1>. QED
  BY <1>1, <1>2, CutoffOnHour, OnHourType

\* A time before a cutoff that is far enough back is past.
LEMMA ExpiredIsPast ==
  ASSUME NEW t \in Int, NEW c, OnHour(c), t < c, NEW now \in Int,
         c + HourTicks + 2 * RealtimeTicks <= now
  PROVE  Past(t, now)
<1>1. TheHour(t) \in Int /\ c \in Int /\ (c <= TheHour(t) <=> c <= t)
  BY HourBefore
<1>2. TheHour(t) < c /\ HourTicks \in Int /\ 2 * RealtimeTicks \in Int
  BY <1>1, HourTicksIs, WindowAssumption DEF WindowAssumption
<1>. QED
  BY <1>1, <1>2 DEF Past

\* A day that is archived ends at the cutoff, at the latest.
LEMMA LockAges ==
  ASSUME IInv, Lock
  PROVE  day'.end \in Int /\ Due(day'.end)
<1>. DEFINE cutoff == ArchiveCutoff(Zone, Now)
            times == {Data[n].ts : n \in raw}
<1>1. PICK d \in ExpiredDays(Zone, times, cutoff) : day' = Window(d, DayEnd(Zone, d, cutoff))
  BY DEF Lock
<1>2. clock \in 1 .. clock /\ OnHour(cutoff) /\ cutoff \in Int
  BY CutoffTypes DEF Now
<1>3. OnHour(d)
  <2>1. \A t \in times : t \in Int
    <3>1. \A n \in DOMAIN Data : Data[n].ts \in Int
      BY DashboardAssumption DEF DashboardAssumption
    <3>. QED
      BY <3>1 DEF IInv, StoreOK
  <2>. DEFINE utcDays == {(t \div HoursPerDay) * HoursPerDay : t \in {u \in times : u < cutoff}}
  <2>2. \A u \in utcDays : u \in Int
    <3>1. HoursPerDay \in Nat \ {0} /\ HoursPerDay \in Int
      BY HourConstants
    <3>2. \A t \in times : t \div HoursPerDay \in Int
      BY <2>1, <3>1, Floor
    <3>. QED
      BY <3>1, <3>2, Products
  <2>3. \A u \in utcDays : OnHour(LocalMidnight(Zone, u))
          /\ OnHour(AddDate(Zone, LocalMidnight(Zone, u), 1))
    <3>. HIDE DEF utcDays
    <3>. SUFFICES ASSUME NEW u \in utcDays
         PROVE  OnHour(LocalMidnight(Zone, u)) /\ OnHour(AddDate(Zone, LocalMidnight(Zone, u), 1))
      OBVIOUS
    <3>1. OnHour(LocalMidnight(Zone, u))
      BY <2>2, MidnightOnHour
    <3>. QED
      BY <3>1, AddDateOnHour
  <2>4. \E u \in utcDays : d = LocalMidnight(Zone, u)
          \/ d = AddDate(Zone, LocalMidnight(Zone, u), 1)
    BY <1>1 DEF ExpiredDays
  <2>. HIDE DEF utcDays
  <2>. QED
    BY <2>3, <2>4
<1>4. OnHour(AddDate(Zone, d, 1)) /\ AddDate(Zone, d, 1) \in Int
  BY <1>3, AddDateOnHour, OnHourType
<1>5. day'.end <= cutoff /\ day'.end \in Int
  BY <1>1, <1>2, <1>4 DEF Window, DayEnd
<1>. QED
  BY <1>2, <1>5 DEF Now, Due

\* While requests wait briefly, each step keeps the ages.
LEMMA NextAges ==
  ASSUME IInv, IInv', ViewsOK, AskedAt, WaitsBriefly, Ages, [Next]_vars
  PROVE  Ages'
<1>0. clock \in Nat \ {0} /\ clock' \in Nat \ {0} /\ clock <= clock'
  <2>1. clock \in Nat \ {0} /\ clock' \in Nat \ {0}
    <3>1. Times \in Seq(Int)
      BY DashboardAssumption DEF DashboardAssumption
    <3>2. DOMAIN Times = 1 .. Len(Times) /\ Len(Times) \in Nat
      BY <3>1
    <3>. QED
      BY <3>2 DEF IInv, ClockOK
  <2>2. clock' = clock \/ clock' = clock + 1
    BY DEF Next, Ask, Begin, ReadSummaries, ReadRows, Reply, QueryFails, HangUp, Flush, Tick,
           Lock, BeginDay, EndDay, storeVars, vars
  <2>. QED
    BY <2>1, <2>2
<1>1. \A t : (Expired(t) => Expired(t)') /\ (Due(t) => Due(t)')
  BY <1>0 DEF Expired, Due
<1>2. ASSUME NEW h \in Handlers, Begin(h) PROVE Ages'
  <2>1. archived' = archived /\ archiver' = archiver /\ day' = day /\ at' = at /\ clock' = clock
    BY <1>2 DEF Begin, storeVars
  <2>2. \A n \in archived : Past(Data[n].ts, at[h])
    <3>. SUFFICES ASSUME NEW n \in archived PROVE Past(Data[n].ts, at[h])
      OBVIOUS
    <3>1. Data[n].ts \in Int /\ at[h] \in Int
      <4>1. n \in DOMAIN Data
        BY DEF IInv, StoreOK
      <4>. QED
        BY <4>1, DashboardAssumption DEF DashboardAssumption, AskedAt
    <3>2. PICK i \in 1 .. clock : Data[n].ts < ArchiveCutoff(Zone, Times[i])
      BY DEF Ages, Expired, Due
    <3>3. ArchiveCutoff(Zone, Times[i]) + HourTicks + 2 * RealtimeTicks <= at[h]
      BY <1>2 DEF Begin, WaitsBriefly
    <3>. DEFINE c == ArchiveCutoff(Zone, Times[i])
                t == Data[n].ts
                now == at[h]
    <3>4. OnHour(c) /\ t \in Int /\ now \in Int /\ t < c
          /\ c + HourTicks + 2 * RealtimeTicks <= now
      BY <3>1, <3>2, <3>3, CutoffTypes
    <3>. HIDE DEF c, t, now
    <3>5. Past(t, now)
      BY <3>4, ExpiredIsPast
    <3>. QED
      BY <3>5 DEF t, now
  <2>3. \A g \in Handlers : snap'[g].archived = IF g = h THEN archived ELSE snap[g].archived
    BY <1>2 DEF Begin, ViewsOK
  <2>4. \A g \in Handlers : Reading(g)' => g = h \/ Reading(g)
    BY <1>2 DEF Begin, Reading, IInv, PoolOK
  <2>. QED
    BY <2>1, <2>2, <2>3, <2>4 DEF Ages, Expired, Due
<1>3. ASSUME NEW h \in Handlers,
             Ask(h) \/ ReadSummaries(h) \/ ReadRows(h) \/ Reply(h) \/ QueryFails(h) \/ HangUp(h)
      PROVE  Ages'
  <2>1. archived' = archived /\ archiver' = archiver /\ day' = day /\ clock' = clock
    BY <1>3 DEF Ask, ReadSummaries, ReadRows, Reply, QueryFails, HangUp, storeVars
  <2>2. \A g \in Handlers : Reading(g)' =>
          /\ Reading(g) /\ snap'[g].archived = snap[g].archived /\ at'[g] = at[g]
    BY <1>3 DEF Ask, ReadSummaries, ReadRows, Reply, QueryFails, HangUp, Leave, Reading, IInv,
                PoolOK, ViewsOK
  <2>. QED
    BY <2>1, <2>2 DEF Ages, Expired, Due
<1>4. ASSUME UNCHANGED requestVars,
             \A n \in archived' : Expired(Data[n].ts)',
             archiver' # "idle" => day'.end \in Int /\ Due(day.end)'
      PROVE  Ages'
  BY <1>4 DEF Ages, requestVars, Reading
<1>5. CASE Flush \/ Tick \/ BeginDay \/ UNCHANGED vars
  <2>1. UNCHANGED requestVars /\ archived' = archived /\ day' = day
        /\ (archiver' # "idle" => archiver # "idle")
    BY <1>5 DEF Flush, Tick, BeginDay, vars, requestVars
  <2>. QED
    BY <1>0, <1>1, <1>4, <2>1 DEF Ages
<1>6. CASE Lock
  <2>1. UNCHANGED requestVars /\ archived' = archived /\ clock' = clock
    BY <1>6 DEF Lock
  <2>2. day'.end \in Int /\ Due(day'.end)
    BY <1>6, LockAges
  <2>. QED
    BY <1>1, <1>4, <2>1, <2>2 DEF Ages, Due
<1>7. CASE EndDay
  <2>1. UNCHANGED requestVars /\ archiver' = "idle" /\ clock' = clock
        /\ archived' \subseteq archived \cup RowsOf(day)
    BY <1>7 DEF EndDay
  <2>2. \A n \in RowsOf(day) : Expired(Data[n].ts)
    <3>. SUFFICES ASSUME NEW n \in RowsOf(day) PROVE Expired(Data[n].ts)
      OBVIOUS
    <3>1. PICK i \in 1 .. clock : day.end <= ArchiveCutoff(Zone, Times[i])
      BY <1>7 DEF EndDay, Ages, Due
    <3>2. Data[n].ts < day.end /\ Data[n].ts \in Int
      <4>1. n \in DOMAIN Data
        BY DEF RowsOf, IInv, StoreOK
      <4>. QED
        BY <4>1, DashboardAssumption DEF DashboardAssumption, RowsOf
    <3>3. ArchiveCutoff(Zone, Times[i]) \in Int /\ day.end \in Int
      BY <1>7, CutoffTypes DEF EndDay, Ages
    <3>. QED
      BY <3>1, <3>2, <3>3 DEF Expired
  <2>. QED
    BY <1>1, <1>4, <2>1, <2>2 DEF Ages
<1>. QED
  BY <1>2, <1>3, <1>5, <1>6, <1>7 DEF Next

\* The requests there are.
LEMMA RequestsAreProper == \A a \in DOMAIN Asks : Proper(Asks[a])
BY DashboardAssumption DEF DashboardAssumption, Proper, Clients, Ranges

\* What a handler has read when it answers.
LEMMA OneAnswer ==
  ASSUME CostsPositive, ViewsOK, AskedAt, Ages, NEW h \in Handlers, pc[h] = "answer"
  PROVE  LET seen == snap[h].raw \cup snap[h].archived
         IN  Told(Request(h), got[h], at[h])
               = Told(Request(h), [raw |-> seen, archived |-> {}], at[h])
<1>. DEFINE x == snap[h].raw
            y == snap[h].archived
            a == Request(h)
            g == got[h]
            now == at[h]
<1>1. /\ x \in SomeRows /\ y \in SomeRows /\ x \cap y = {} /\ ask[h] \in AskedOf[h]
      /\ g.raw = x /\ g.archived = IF a.of = "realtime" THEN {} ELSE y
  BY DEF ViewsOK, Sees
<1>2. Proper(a)
  <2>1. ask[h] \in DOMAIN Asks
    BY <1>1, DataFacts
  <2>. QED
    BY <2>1, RequestsAreProper DEF Request
<1>3. now \in Int /\ \A n \in y : Past(Data[n].ts, now)
  BY DEF AskedAt, Ages, Reading
<1>. HIDE DEF x, y, a, g, now
<1>4. Told(a, g, now) = Told(a, [raw |-> x \cup y, archived |-> {}], now)
  BY <1>1, <1>2, <1>3, ToldAgrees
<1>. QED
  BY <1>4 DEF x, y, a, g, now

\* Whatever rows there are, with whatever is flushed or archived before and while a request is
\* served: every endpoint answers what it would answer if all rows it saw were raw still, times of
\* sessions aside, if Claude's costs are positive and no request waits for the connection until
\* the archiver is at the rows of its own time.
THEOREM AnswersSurviveHolds ==
  ASSUME CostsPositive
  PROVE  Spec /\ []WaitsBriefly => []AnswersSurviveArchiving
<1>1. Init => Ages
  BY DEF Init, Ages, Reading
<1>2. IInv /\ IInv' /\ ViewsOK /\ AskedAt /\ WaitsBriefly /\ Ages /\ [Next]_vars => Ages'
  BY NextAges
<1>3. ViewsOK /\ AskedAt /\ Ages => AnswersSurviveArchiving
  <2>. SUFFICES ASSUME ViewsOK, AskedAt, Ages, NEW h \in Handlers, pc[h] = "answer"
       PROVE  LET seen == snap[h].raw \cup snap[h].archived
              IN  Cardinality({Told(Request(h), v, at[h]) :
                                 v \in {got[h], [raw |-> seen, archived |-> {}]}}) = 1
    BY DEF AnswersSurviveArchiving
  <2>. DEFINE e == [raw |-> snap[h].raw \cup snap[h].archived, archived |-> {}]
              told(v) == Told(Request(h), v, at[h])
              t == told(e)
  <2>1. told(got[h]) = t
    BY OneAnswer
  <2>2. {told(v) : v \in {got[h], e}} = {t}
    <3>. HIDE DEF told, e
    <3>. QED
      BY <2>1 DEF t
  <2>3. Cardinality({t}) = 1
    BY FS_Singleton
  <2>. QED
    BY <2>2, <2>3
<1>. QED
  BY <1>1, <1>2, <1>3, ViewsHold, AskedAtHolds, PTL DEF Spec
==============================================================================
