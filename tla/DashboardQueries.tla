-------------------------- MODULE DashboardQueries --------------------------
(***************************************************************************)
(* internal/dashboard: what each endpoint computes from what it read, a    *)
(* view [raw, archived] of the rows still in the raw tables and the rows   *)
(* the summaries were made of.                                             *)
(*                                                                         *)
(* Every query has the same arms: raw rows by their exact time, summaries  *)
(* by whole hours, both for the clients asked for, added up.  A fact is a  *)
(* row, a bucket or a row of a cost view, with what its arm selects of it. *)
(* Left out: classifying models into groups, shares and quotients of the   *)
(* sums below, and how lists are sorted and cut off, but for the sessions. *)
(***************************************************************************)
EXTENDS Summaries, TimeWindows

CONSTANTS
  Models,      \* the models there are
  Zone,        \* dashboard.timezone, whole hours off UTC
  SessionRank  \* client -> session -> its place in the order of clients and names

\* archivezone refuses a zone that is not whole hours off UTC; what is drawn is whole hours too.
ASSUME HourAssumption ==
  /\ Zone \in Zones
  /\ \A t \in {Zone.first, Zone.then, HoursPerDay} : t % HourTicks = 0
  /\ \A r \in {"day", "week", "month"} : RateInterval[r] % HourTicks = 0

Arms(client) == IF client = "all" THEN {"claude", "codex"} ELSE {client}

\* Mutant: a bucket that begins where the window ends belongs to it.
HoursToTheEnd(start, end) ==
  Window(TheHour(start + HourTicks - 1), TheHour(end) + HourTicks)

\* archiveBounds: the whole hours of a window.
ArchiveHours(start, end) == Window(TheHour(start + HourTicks - 1), TheHour(end))

-----------------------------------------------------------------------------
Measures == {"in", "gross", "flow", "out", "total", "read", "creation", "denom", "written",
             "reasoning", "requests", "cost", "units", "duration"}

TypeMeasures == [input |-> {"in", "gross", "flow"}, output |-> {"out"},
                 cacheRead |-> {"read", "denom"}, cacheCreation |-> {"creation", "denom"}]

\* What the raw arms select of a row.
RawMeasures(r) ==
  CASE r.table = "token_usage" ->
         [m \in {"total"} \cup OfType(TypeMeasures, r.type) |-> r.value]
    [] r.table = "cost_usage"  -> [cost |-> r.value]
    [] r.table = "api_request" ->
         [requests |-> 1] ++
         (IF Measured(r) THEN [units |-> r.output, duration |-> r.duration] ELSE <<>>)
    [] r.table = "response_tbt" ->
         IF Measured(r) THEN [units |-> r.samples, duration |-> r.sum] ELSE <<>>
    [] r.table = "codex_token_usage" ->
         [in |-> Uncached(r), gross |-> r.input, flow |-> Positive(Uncached(r)),
          out |-> r.output, total |-> r.input + r.output, read |-> OrZero(r.cached),
          creation |-> OrZero(r.write), written |-> OrZero(r.write), denom |-> r.input,
          reasoning |-> OrZero(r.reasoning), requests |-> 1]

\* What the archive arms select of a bucket; the cost of Codex comes from the cost views.
ArchivedMeasures(client, c) ==
  [gross |-> c.input, out |-> c.output, total |-> c.tokens_total, read |-> c.cache_read,
   creation |-> c.cache_creation, requests |-> c.requests, units |-> c.speed_units,
   duration |-> c.speed_duration] ++
  IF client = "codex"
  THEN [in |-> c.input - c.cache_read - c.cache_creation, flow |-> c.throughput_input,
        denom |-> c.input, written |-> c.cache_creation, reasoning |-> c.reasoning]
  ELSE [in |-> c.input, flow |-> c.input, denom |-> c.cache_read + c.cache_creation,
        cost |-> c.cost]

\* id: tells apart what its arm does; seen: when a model was last seen there, if the fact shows that.
Fact(id, ts, client, model, source, seen, m) ==
  [id |-> id, ts |-> ts, client |-> client, model |-> model, source |-> source, seen |-> seen,
   amount |-> [a \in Measures |-> IF a \in DOMAIN m THEN m[a] ELSE 0]]

RawFact(r) ==
  Fact(<<r.row, "">>, r.ts, Client(r), r.model, "raw",
       IF r.table \in {"cost_usage", "response_tbt"} THEN {} ELSE {r.ts}, RawMeasures(r))

CostFact(c) ==
  Fact(<<c.row, c.session>>, c.ts, "codex", c.model, c.source, {},
       [cost |-> c.cost])

ArchiveFact(key, bucket, seen) ==
  Fact(<<"", "">>, key.bucket, key.client, key.model, "archive",
       IF seen = {} THEN {} ELSE {Latest(seen)}, ArchivedMeasures(key.client, bucket))

ArchiveFacts(hourly, archived) ==
  {ArchiveFact(key, hourly[key], LastSeen(archived, key)) : key \in DOMAIN hourly}

Facts(raw, archived, hourly, costs) ==
  {RawFact(r) : r \in UsageRows(raw)} \cup ArchiveFacts(hourly, archived) \cup
  {CostFact(c) : c \in costs}

Within(facts, window) ==
  LET hours == ArchiveHours(window.start, window.end)
  IN  {f \in facts : IF f.source = "archive" THEN hours.start <= f.ts /\ f.ts < hours.end
                     ELSE window.start <= f.ts /\ f.ts < window.end}

Sum(facts, m) == Total(LAMBDA f : f.amount[m], facts)

Sums(facts, measures) == [m \in measures |-> Sum(facts, m)]

\* Go's maps by model; a model without usage is not told from one that is missing.
PerModel(facts, measures) ==
  [model \in Models |-> Sums({f \in facts : f.model = model}, measures)]

\* The all-time costs of models take the rows of the cost view that have samples.  An estimate
\* without any is zero; a legacy cost without any may be below.
Costed(facts) == {f \in facts : f.source = "legacy" => f.amount["cost"] > 0}

-----------------------------------------------------------------------------
(* Costs: codex_cost.go *)

CostMetadata(costs, legacySession, locals) ==
  LET samples(source) == Total(LAMBDA c : c.samples, {c \in costs : c.source = source})
      found == {s \in {"native", "local", "legacy"} :
                  samples(s) > 0 \/ (s = "legacy" /\ legacySession > 0)}
  IN  [available |-> found # {},
       source    |-> CASE found = {} -> "unknown"
                       [] Cardinality(found) = 1 -> CHOOSE s \in found : TRUE
                       [] OTHER -> "mixed",
       turns     |-> samples("native"),
       estimate  |-> IF Total(LAMBDA c : c.samples, locals) = 0 THEN Null
                     ELSE Total(LAMBDA c : c.cost, locals)]

During(costs, window) == {c \in costs : window.start <= c.ts /\ c.ts < window.end}

LegacyCost(id) == IF id \in DOMAIN LegacySessions THEN LegacySessions[id] ELSE 0

\* queryCodexCost and attachCodexSessionRows, of a conversation.  That old rows are in it
\* is a flag of its own there.
ConversationCost(d, id) ==
  LET own(costs) == {c \in costs : c.session = id}
  IN  [total |-> Total(LAMBDA c : c.cost, own(d.costs)) + LegacyCost(id),
       meta  |-> CostMetadata(own(d.costs), LegacyCost(id), own(d.locals))]

\* queryCostMetadata: Claude's costs are the authority where there are any.
CostSource(d, client, window) ==
  LET codex    == IF "codex" \notin Arms(client) THEN CostMetadata({}, 0, {})
                  ELSE CostMetadata(During(d.costs, window), 0, During(d.locals, window))
      charged  == {r.ts : r \in Of(d.raw, "cost_usage")} \cup
                  {k.bucket : k \in {l \in DOMAIN d.hourly : l.client = "claude" /\ d.hourly[l].cost # 0}}
      observed == client = "claude" \/ \E t \in charged : window.start <= t /\ t < window.end
  IN  IF client = "codex" \/ ~observed THEN codex
      ELSE [codex EXCEPT !.available = TRUE,
                         !.source = IF codex.available THEN "mixed" ELSE "authoritative"]

-----------------------------------------------------------------------------
(* The endpoints.  d is what Read makes of a view. *)

View(raw, archived, hourly, costs) ==
  [raw    |-> raw, archived |-> archived, hourly |-> hourly, costs |-> costs,
   locals |-> LocalCosts(raw, archived), facts |-> Facts(raw, archived, hourly, costs)]

Read(v) ==
  View(v.raw, v.archived, UsageHourly(v.archived), SelectedCosts(v.raw, v.archived))

Served(d, client) == {f \in d.facts : f.client \in Arms(client)}

\* Bars of a chart, each with the facts its date labels.
Chart(facts, now, range, start, count, measures) ==
  LET dates == BarDates(Zone, start, range, count)
  IN  [i \in 1 .. count |->
         Sums({f \in facts : BarOf(Zone, now, range, f.ts) = dates[i]}, measures)]

\* BuildSnapshot
OverviewOf(d, facts, client, range, w, now) ==
      [current  |-> Sums(Within(facts, w.current),
                         {"in", "out", "total", "cost", "read", "creation", "denom", "requests"}),
       previous |-> Sums(Within(facts, w.previous), {"total", "cost", "requests"}),
       bars     |-> Chart(Within(facts, w.sparkline), now, range, w.sparkline.start, Bars[range],
                          {"total", "cost", "requests"}),
       models   |-> PerModel(Costed(facts),
                             {"in", "out", "read", "written", "reasoning", "requests", "cost"}),
       meta     |-> CostSource(d, client, w.current)]

Overview(d, client, range, now) ==
  OverviewOf(d, Served(d, client), client, range, Resolve(Zone, now, range), now)

\* BuildTrends: no end, and no rounding of the start.
Trends(d, client, range, now) ==
  LET start == Resolve(Zone, now, range).sparkline.start
      dates == BarDates(Zone, start, range, Bars[range])
      later == {f \in Served(d, client) : f.ts >= start}
  IN  [i \in 1 .. Bars[range] |->
         PerModel({f \in later : BarOf(Zone, now, range, f.ts) = dates[i]}, {"total"})]

\* BuildHeatmap
Heatmap(d, client, now) ==
  LET window == Window(HeatmapStart(Zone, now), TodayStart(Zone, now) + HoursPerDay)
  IN  [days      |-> Chart(Within(Served(d, client), window), now, "day", window.start, HeatmapDays,
                           {"total", "cost", "requests"}),
       available |-> CostSource(d, client, window).available]

\* BuildPeriodModels
PeriodModels(d, client, range, now) ==
  LET window == Resolve(Zone, now, range).current
  IN  [models |-> PerModel(Within(Served(d, client), window), {"requests", "gross", "out", "cost"}),
       meta   |-> CostSource(d, client, window)]

\* QueryToolsRanking, QuerySkillsRanking: counts by name since an instant.
Ranking(rows, hourly, client, since) ==
  LET own   == {r \in rows : Client(r) \in Arms(client) /\ r.ts >= since}
      kept  == {k \in DOMAIN hourly : k.client \in Arms(client) /\ k.bucket >= since}
  IN  [n \in {r.name : r \in own} \cup {k.name : k \in kept} |->
         Total(Uses, {r \in own : r.name = n}) +
         Total(LAMBDA k : hourly[k], {k \in kept : k.name = n})]

\* BuildRankings; no days are all days, and no row is older than instant 0.
Rankings(d, client, days, now) ==
  LET since == IF days = Null THEN 0 ELSE SinceStart(Zone, now, days)
  IN  [tools  |-> Ranking(NamedTools(d.raw), ToolHourly(d.archived), client, since),
       skills |-> Ranking(RankedSkills(d.raw), SkillHourly(d.archived), client, since)]

\* The facts of each point of a rates window, by the hours they are in.
Points(facts, window, range) ==
  [i \in 0 .. RateCount[range] - 1 |->
     {f \in facts : BucketIndex(window, range, TheHour(f.ts)) = i}]

\* Speed and throughput; a speed is known where there are samples of it.
WithSpeed(facts) == {f \in facts : f.amount["units"] > 0 /\ f.amount["duration"] > 0}

Speed(facts) == Sums(facts, {"units", "duration"})

Throughput(facts) == Sums(facts, {"flow", "out", "read", "creation"})

\* Speed by client and model.
SpeedOf(facts, client) ==
  [c \in Arms(client) |-> PerModel({f \in facts : f.client = c}, {"units", "duration"})]

\* BuildRates: speed and throughput by point; where one client is asked for, the speed of
\* the whole window and of the one before it too.
RatesOf(facts, client, range, window) ==
  LET before == Window(window.start - RateCount[range] * RateInterval[range], window.start)
      points == Points(Within(facts, window), window, range)
  IN  [speed |-> [i \in DOMAIN points |-> SpeedOf(WithSpeed(points[i]), client)],
       kpis  |-> [w \in IF client = "all" THEN {} ELSE {window, before} |->
                    Speed(WithSpeed(Within(facts, w)))],
       throughput |-> [i \in DOMAIN points |-> Throughput(points[i])]]

Rates(d, client, range, now) ==
  RatesOf(Served(d, client), client, range, RatesWindow(Zone, now, range))

\* QuerySpeedWindowPair: raw rows alone.
SpeedPair(rows, start, split, end) ==
  LET speed(from, to) == Speed({RawFact(r) : r \in {q \in rows : from <= q.ts /\ q.ts < to}})
  IN  [current |-> speed(split, end), previous |-> speed(start, split)]

\* BuildRealtimeSpeed, of one client.
RealtimeSpeed(raw, client, now) ==
  LET rows == {r \in In(raw, {"api_request", "response_tbt"}) :
                 Client(r) = client /\ Measured(r)}
  IN  SpeedPair(rows, now - 2 * RealtimeTicks, now - RealtimeTicks, now)

\* QuerySeenModels; names that stand for no model are left out.
Sightings(d, client) == {f \in Served(d, client) : f.model # "" /\ f.seen # {}}

\* BuildPricingModels merges them by model.
SeenModels(d, client) ==
  LET found == Sightings(d, client)
      of(m) == {f \in found : f.model = m}
  IN  [m \in {f.model : f \in found} |->
         [last |-> Latest(UNION {f.seen : f \in of(m)}), requests |-> Sum(of(m), "requests"),
          clients |-> {f.client : f \in of(m)}]]

-----------------------------------------------------------------------------
(* BuildCodexTelemetry *)

\* summarizeTTFT: quantiles by nearest rank, of counts by milliseconds.
TTFTSummary(count) ==
  LET samples == Total(LAMBDA t : count[t], DOMAIN count)
      upTo(t) == Total(LAMBDA u : count[u], {u \in DOMAIN count : u <= t})
      rank(percent) == Earliest({t \in DOMAIN count : 100 * upTo(t) >= percent * samples})
  IN  [samples |-> samples, sum |-> Total(LAMBDA t : t * count[t], DOMAIN count),
       quantiles |-> IF samples = 0 THEN {} ELSE {<<50, rank(50)>>, <<95, rank(95)>>}]

CheckColumns ==
  [input |-> <<"input", "requests">>, output |-> <<"output", "requests">>,
   cached_input |-> <<"cache_read", "cached_samples">>, total |-> <<"tokens_total", "requests">>,
   cache_write_input |-> <<"cache_creation", "write_samples">>,
   reasoning_output |-> <<"reasoning", "reasoning_samples">>]

Hot(rows, window) == {r \in rows : window.start <= r.ts /\ r.ts < window.end}

Cold(buckets, window) ==
  LET hours == ArchiveHours(window.start, window.end)
  IN  {k \in buckets : hours.start <= k.bucket /\ k.bucket < hours.end}

\* Times to first token by how often they were measured.
Frequencies(raw, hist, keys) ==
  [t \in {r.ttft : r \in raw} \cup {k.ttft : k \in keys} |->
     Cardinality({r \in raw : r.ttft = t}) +
     Total(LAMBDA k : hist[k], {k \in keys : k.ttft = t})]

\* By model, and of all of them.
TTFT(raw, hist, keys) ==
  LET some(ms) == TTFTSummary(Frequencies({r \in raw : r.model \in ms}, hist,
                                          {k \in keys : k.model \in ms}))
  IN  [ms \in {{m} : m \in Models \cup {""}} \cup {Models \cup {""}} |-> some(ms)]

\* What the responses of a model said of a type of tokens, and in how many of them it was.
ResponseUsage(raw, hourly, keys, model, column) ==
  Total(LAMBDA r : Amount(r, column), {r \in raw : r.model = model}) +
  Total(LAMBDA k : hourly[k][column], {k \in keys : k.model = model})

\* What their turns said of it.
TurnUsage(raw, hourly, keys, model, type) ==
  LET hot  == {r \in raw : r.model = model /\ r.type = type}
      cold == {k \in keys : k.model = model /\ k.type = type}
  IN  [samples |-> Total(LAMBDA r : r.samples, hot) + Total(LAMBDA k : hourly[k].samples, cold),
       tokens  |-> Total(LAMBDA r : r.sum, hot) + Total(LAMBDA k : hourly[k].tokens, cold)]

UsageCheck(responses, hourly, keys, turns, turnHourly, turnKeys) ==
  [m \in Models \cup {""} |-> [type \in DOMAIN CheckColumns |->
     <<[i \in 1 .. 2 |-> ResponseUsage(responses, hourly, keys, m, CheckColumns[type][i])],
       TurnUsage(turns, turnHourly, turnKeys, m, type)>>]]

TelemetryIn(d, window, hist, turns) ==
  [ttft  |-> TTFT(Hot(Timed(d.raw), window), hist, Cold(DOMAIN hist, window)),
   usage |-> UsageCheck(Hot(ValidUsage(d.raw), window), d.hourly,
                        Cold({k \in DOMAIN d.hourly : k.client = "codex"}, window),
                        Hot(Of(d.raw, "turn_token_usage"), window), turns,
                        Cold(DOMAIN turns, window))]

Telemetry(d, range, now) ==
  TelemetryIn(d, Resolve(Zone, now, range).current, TtftHistogram(d.archived),
              TurnUsageHourly(d.archived))

-----------------------------------------------------------------------------
(* Sessions: sessions.go and the session queries *)

\* The times of the arms of the list and of the detail: raw rows, and what the views of
\* invocations and turn costs have.
Activity(d, key) ==
  LET invocations == SkillInvocations(d.raw, d.archived)
      viewed      == {"turn_cost", "skill_invocation"}
  IN  {r.ts : r \in {q \in OfSession(ActiveRows(d.raw), key) : q.table \notin viewed}} \cup
      IF key.client = "claude" THEN {}
      ELSE {r.ts : r \in OfSession(NativeTurnCosts(d.raw, d.archived), key)} \cup
           {invocations[i] : i \in {j \in DOMAIN invocations : j.session = key.id}}

Span(d, key) ==
  LET times == Activity(d, key) \cup ActiveTimes(d.archived, key)
  IN  [first |-> Earliest(times), last |-> Latest(times)]

SessionTotals(d, key) ==
  [c \in SessionColumns |-> SessionSum(d.raw, key, c) + SessionSum(d.archived, key, c)]

\* The order of the list.
Ahead(last, j, k) ==
  \/ last[j] > last[k]
  \/ last[j] = last[k] /\ SessionRank[j.client][j.id] < SessionRank[k.client][k.id]

Top(last, n) ==
  {k \in DOMAIN last : Cardinality({j \in DOMAIN last : Ahead(last, j, k)}) < n}

SessionKeys(d, clients) ==
  {key \in {SessionKey(r) : r \in ActiveRows(d.raw \cup d.archived)} : key.client \in clients}

\* Mutant: the archive has no candidates of its own.
RawCandidates(d, client, limit) ==
  LET active == {k \in SessionKeys(d, Arms(client)) : Activity(d, k) # {}}
      hot    == [k \in active |-> Latest(Activity(d, k))]
  IN  [k \in Top(hot, limit) |-> hot[k]]

\* The latest sessions of the raw tables and of the archive, each with the latest time that
\* is known of it from there.
Candidates(d, client, limit) ==
  LET active  == {k \in SessionKeys(d, Arms(client)) : Activity(d, k) # {}}
      hot     == [k \in active |-> Latest(Activity(d, k))]
      kept(c) == {k \in SessionKeys(d, {c}) : ActiveTimes(d.archived, k) # {}}
      cold(c) == Top([k \in kept(c) |-> Latest(ActiveTimes(d.archived, k))], limit)
      times(k) == (IF k \in Top(hot, limit) THEN {hot[k]} ELSE {}) \cup
                  (IF k \in cold(k.client) THEN ActiveTimes(d.archived, k) ELSE {})
  IN  [k \in Top(hot, limit) \cup UNION {cold(c) : c \in Arms(client)} |-> Latest(times(k))]

SkillTotal(d, key) ==
  IF key.client = "claude" THEN SessionTotals(d, key).skills
  ELSE Cardinality({i \in DOMAIN SkillInvocations(d.raw, d.archived) : i.session = key.id})

SessionCost(d, key) ==
  IF key.client = "claude" THEN [total |-> SessionTotals(d, key).cost]
  ELSE ConversationCost(d, key.id)

\* BuildSessionList: the sessions of the list; sorting them by span.last is left out.
SessionList(d, client, limit) ==
  [key \in Top(Candidates(d, client, limit), limit) |->
     LET totals == SessionTotals(d, key)
     IN  [span   |-> Span(d, key), tokens |-> totals.tokens, requests |-> totals.requests,
          tools  |-> totals.tools, skills |-> SkillTotal(d, key),
          cost   |-> SessionCost(d, key)]]

CountsByName(hot, cold) ==
  LET h == CountNames(hot) c == CountNames(cold)
  IN  [n \in DOMAIN h \cup DOMAIN c |->
         (IF n \in DOMAIN h THEN h[n] ELSE 0) + (IF n \in DOMAIN c THEN c[n] ELSE 0)]

\* queryCodexSessionSkills
InvokedSkills(d, id) ==
  LET own == {i \in DOMAIN SkillInvocations(d.raw, d.archived) : i.session = id}
  IN  [n \in {i.name : i \in own} |->
         [all  |-> Cardinality({i \in own : i.name = n}),
          type |-> [t \in {"explicit", "implicit"} |->
                      Cardinality({i \in own : i.name = n /\ i.type = t})]]]

\* BuildSessionDetail: Claude's session of that name first, then Codex's conversation.
SessionDetail(d, client, id) ==
  LET found  == {key \in SessionKeys(d, Arms(client)) : key.id = id}
      key    == CHOOSE k \in found : k.client = "claude" \/ \A l \in found : l.client = "codex"
      totals == SessionTotals(d, key)
  IN  IF found = {} THEN <<>>
      ELSE [key    |-> key, span |-> Span(d, key), tokens |-> totals.tokens,
            requests |-> totals.requests,
            tools  |-> CountsByName(SessionTools(d.raw, key), SessionTools(d.archived, key)),
            skills |-> IF key.client = "codex" THEN InvokedSkills(d, id)
                       ELSE CountsByName(SessionSkills(d.raw, key), SessionSkills(d.archived, key)),
            split  |-> IF key.client = "claude" THEN <<>>
                       ELSE [c \in {"input", "output", "cached", "write", "reasoning"} |-> totals[c]],
            cost   |-> SessionCost(d, key)]

-----------------------------------------------------------------------------
\* What an endpoint answers when asked now.
AnswerFrom(ask, d, now) ==
  CASE ask.of = "snapshot"  -> Overview(d, ask.client, ask.range, now)
    [] ask.of = "trends"    -> Trends(d, ask.client, ask.range, now)
    [] ask.of = "heatmap"   -> Heatmap(d, ask.client, now)
    [] ask.of = "models"    -> PeriodModels(d, ask.client, ask.range, now)
    [] ask.of = "rankings"  -> Rankings(d, ask.client, ask.days, now)
    [] ask.of = "rates"     -> Rates(d, ask.client, ask.range, now)
    [] ask.of = "realtime"  -> RealtimeSpeed(d.raw, ask.client, now)
    [] ask.of = "prices"    -> SeenModels(d, ask.client)
    [] ask.of = "telemetry" -> Telemetry(d, ask.range, now)
    [] ask.of = "sessions"  -> SessionList(d, ask.client, ask.limit)
    [] ask.of = "session"   -> SessionDetail(d, ask.client, ask.session)
=============================================================================
