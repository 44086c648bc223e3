------------------------------- MODULE Ingest -------------------------------
(***************************************************************************)
(* internal/otlp and internal/pricing/engine.go: gRPC handlers turn the    *)
(* items of an Export request into rows, one after the other, while the    *)
(* pricing engine refreshes its table in a goroutine of its own.           *)
(*                                                                         *)
(* A log item is a record                                                  *)
(*   [attrName, topName, resource, attrs, time, observed, completed, valid]*)
(* completed is event.kind = response.completed; valid says whether the    *)
(* parser's patterns (invocation type, decimal amount) accept the item.    *)
(* A metric is [name, shape, resource, points], a point [value, attrs].    *)
(* Handing a row to the sink always succeeds: BufferedWriter's Append      *)
(* refuses only types it has no table for.                                 *)
(***************************************************************************)
EXTENDS TableColumns, PriceTable

CONSTANTS
  Handlers,    \* goroutines that serve Export
  Requests,    \* what may be sent, by name: [signal : {"logs", "metrics"}, items : Seq(item)]
  Sends,       \* bound: per handler, what its client sends with and without pricing
  ModelOf,     \* the model name a text value of a model attribute stands for
  Now,         \* receive time
  MaxInt64,    \* 2^63 - 1 in the code
  File,        \* the entries of source_file, parsed
  Overrides,   \* the configured overrides
  Bodies,      \* what the URL may answer with: [ok, entries, malformed], ok if it is JSON
  MaxRequests, \* bound: requests a handler serves
  MaxRefreshes \* bound: refreshes begun

ASSUME IngestAssumption ==
  /\ IsFiniteSet(Handlers) /\ Now \in Int /\ MaxInt64 \in Nat
  /\ Sends \in [{"priced", "plain"} -> [Handlers -> SUBSET DOMAIN Requests]]
  /\ MaxRequests \in Nat /\ MaxRefreshes \in Nat
  /\ DOMAIN File \subseteq Names /\ DOMAIN Overrides \subseteq Names
  /\ \A m \in DOMAIN File : File[m] \in Price
  /\ \A m \in DOMAIN Overrides : Overrides[m] \in Price
  /\ \A b \in Bodies : \A m \in DOMAIN b.entries \ b.malformed : b.entries[m] \in Price
  /\ \A v \in DOMAIN ModelOf : ModelOf[v] \in Names

VARIABLES
  pc,        \* per handler: "idle", "items" or "costing"
  req,       \* the name of the request it serves, or of its last one
  at,        \* the index of the item it is at
  held,      \* the table CostFor loaded
  sum,       \* its DispatchSummary, the counts of all names added up
  out,       \* what it handed to the sink for this request
  served,    \* the requests it has taken on
  enabled,   \* pricing.enabled and, with it, source_url are configured
  published, \* history: every table published; the last one is current
  refresh,   \* where the refresh goroutine is
  body,      \* the answer refreshOnce works on
  stats,     \* [entries, ok]: entries and lastRefreshOK, under mu
  unmatched, \* the counter per model, under mu
  stopping,  \* stopCh is closed
  since      \* history: per handler, how many tables there were when its request came

vars == <<pc, req, at, held, sum, out, served, enabled, published, refresh, body, stats,
          unmatched, stopping, since>>
engineVars  == <<published, refresh, body, stats, stopping>>
handlerVars == <<pc, req, at, held, sum, out, served, unmatched, since>>

ZeroSum == [rows |-> 0, unknown |-> 0, skipped |-> 0, errors |-> 0]
NoRequest == [signal |-> "logs", items |-> <<>>]
NoBody  == [ok |-> FALSE, entries |-> <<>>, malformed |-> {}]
table   == published[Len(published)]

Request(h) == IF req[h] = "none" THEN NoRequest ELSE Requests[req[h]]

-----------------------------------------------------------------------------
(* Parsing: from an item to a row. *)

MetricRoute ==
  Entry("claude_code.session.count", "session_count") ++
  Entry("claude_code.lines_of_code.count", "lines_of_code") ++
  Entry("claude_code.pull_request.count", "pull_request") ++
  Entry("claude_code.commit.count", "commit") ++
  Entry("claude_code.cost.usage", "cost_usage") ++ Entry("claude_code.token.usage", "token_usage") ++
  Entry("claude_code.code_edit_tool.decision", "code_edit_decision") ++
  Entry("claude_code.active_time.total", "active_time") ++
  Entry("codex.skill.injected", "skill_injected")

HistogramRoute ==
  Entry("codex.responses_api_engine_service_tbt.duration_ms", "response_tbt") ++
  Entry("codex.turn.token_usage", "turn_token_usage")

EventRoute == [name \in DOMAIN EventFields |-> name]

CodexRoute ==
  Entry("codex.skill_invocation", "skill_invocation") ++ Entry("codex.turn_cost", "turn_cost") ++
  Entry("codex.conversation_starts", "conversation_starts") ++
  Entry("codex.api_request", "codex_api_request") ++ Entry("codex.sse_event", "codex_token_usage") ++
  Entry("codex.user_prompt", "codex_user_prompt") ++
  Entry("codex.tool_decision", "codex_tool_decision") ++
  Entry("codex.tool_result", "codex_tool_result")

\* The kinds of row by the name of an event, and by the name of a metric.
EventKind  == EventRoute ++ CodexRoute
MetricKind == MetricRoute ++ HistogramRoute

CodexKinds == {CodexRoute[n] : n \in DOMAIN CodexRoute}

FieldsOf ==
  LET own == MetricFields ++ EventFields ++ CodexEventFields ++ CodexTelemetryFields
  IN  [kind \in Kinds |->
         own[kind] ++ (IF kind \in DOMAIN MetricFields THEN CommonAttrs
                       ELSE IF kind \in DOMAIN EventFields THEN EventCommonAttrs
                       ELSE CodexCommonAttrs)]

\* Attributes the parsers of events remove without keeping them.
Discarded(kind) ==
  (IF kind \in DOMAIN EventFields \cup CodexKinds THEN {"event.name"} ELSE {}) \cup
  (IF kind \in CodexKinds THEN {"event.timestamp"} ELSE {}) \cup
  (IF kind = "codex_token_usage" THEN {"event.kind"} ELSE {})

Without(attrs, keys) == [k \in DOMAIN attrs \ keys |-> attrs[k]]

\* codexEventTime; the other events are dated by time_unix_nano, whatever it is.
EventTime(kind, item) ==
  LET stamp == NewAttrMap(item.resource, item.attrs)
  IN  IF kind \notin CodexKinds \/ item.time # 0 THEN item.time
      ELSE IF item.observed # 0 THEN item.observed
      ELSE IF "event.timestamp" \in DOMAIN stamp /\ stamp["event.timestamp"].type = "digits"
           THEN stamp["event.timestamp"].n
      ELSE Now

Stamp(n) == [type |-> "int", n |-> n]

\* Mutant: the cached and the written part are each compared with the whole input.
ValidSubsets(row) ==
  LET n(f) == row[f].n
  IN  /\ Blank(row["error"])
      /\ row["input_token_count"] # Null /\ row["output_token_count"] # Null
      /\ \A f \in {"input_token_count", "output_token_count", "cached_token_count",
                   "cache_write_token_count", "reasoning_token_count"} : n(f) >= 0
      /\ n("cached_token_count") <= n("input_token_count")
      /\ n("cache_write_token_count") <= n("input_token_count")
      /\ n("reasoning_token_count") <= n("output_token_count")
      /\ n("output_token_count") <= MaxInt64 - n("input_token_count")

\* A count that is missing counts as 0 here.
ValidUsage(row) ==
  LET n(f) == row[f].n
  IN  /\ Blank(row["error"])
      /\ row["input_token_count"] # Null /\ row["output_token_count"] # Null
      /\ \A f \in {"input_token_count", "output_token_count", "cached_token_count",
                   "cache_write_token_count", "reasoning_token_count"} : n(f) >= 0
      /\ n("cached_token_count") <= n("input_token_count")
      /\ n("cache_write_token_count") <= n("input_token_count") - n("cached_token_count")
      /\ n("reasoning_token_count") <= n("output_token_count")
      /\ n("output_token_count") <= MaxInt64 - n("input_token_count")

\* What enrichCodexCost passes to CostFor.
CountsOf(row) ==
  [input |-> row["input_token_count"].n, output |-> row["output_token_count"].n,
   read |-> row["cached_token_count"].n, write |-> row["cache_write_token_count"].n,
   reasoning |-> row["reasoning_token_count"].n]

\* Mutant: a turn cost needs no turn.
IdentifiedConversation(kind, row) ==
  CASE kind \in DOMAIN MetricFields \cup DOMAIN EventFields -> ~Empty(row["user_id"])
    [] kind = "skill_invocation" ->
         ~Blank(row["conversation_id"]) /\ ~Blank(row["turn_id"]) /\ ~Blank(row["skill_name"])
    [] kind = "turn_cost"        -> ~Blank(row["conversation_id"])
    [] kind = "turn_token_usage" -> ~Empty(row["token_type"])
    [] OTHER                     -> TRUE

\* The identities a parser insists on.
Identified(kind, row) ==
  CASE kind \in DOMAIN MetricFields \cup DOMAIN EventFields -> ~Empty(row["user_id"])
    [] kind = "skill_invocation" ->
         ~Blank(row["conversation_id"]) /\ ~Blank(row["turn_id"]) /\ ~Blank(row["skill_name"])
    [] kind = "turn_cost"        -> ~Blank(row["conversation_id"]) /\ ~Blank(row["turn_id"])
    [] kind = "turn_token_usage" -> ~Empty(row["token_type"])
    [] OTHER                     -> TRUE

\* A row of the fields a parser took, with the attributes left for the JSON column.
RowOf(kind, ts, payload, fields, left) ==
  LET common == [ts |-> Stamp(ts), received_at |-> Stamp(Now),
                 attrs |-> IF DOMAIN left = {} THEN Null ELSE [type |-> "json", n |-> 0]]
      usage  == IF kind # "codex_token_usage" THEN <<>>
                ELSE [usage_valid |-> [type |-> "bool", n |-> IF ValidUsage(fields) THEN 1 ELSE 0],
                      ttft_ms     |-> IF fields["ttft_ms"].n < 0 THEN Null ELSE fields["ttft_ms"],
                      cost_usd    |-> Null]
  IN  [kind |-> kind, row |-> usage ++ common ++ payload ++ fields, left |-> left]

Parse(kind, ts, payload, own, kept) == RowOf(kind, ts, payload, Take(own, kept), Leftover(own, kept))

\* What the parser of a kind makes of attributes.
Row(kind, attrs, ts, payload) ==
  Parse(kind, ts, payload, FieldsOf[kind], Without(attrs, Discarded(kind)))

EventRow(kind, item) ==
  Row(kind, NewAttrMap(item.resource, item.attrs), EventTime(kind, item), <<>>)

MetricPayload(kind, point) ==
  LET start == [start_ts |-> Stamp(point.start)]
      count == [sample_count |-> Stamp(1)]
      value == [type |-> "int", n |-> point.n]
  IN  CASE kind = "response_tbt"     -> start ++ count ++ [sum_ms |-> value]
        [] kind = "turn_token_usage" -> start ++ count ++ [sum_tokens |-> value]
        [] OTHER                     -> start ++ [value |-> value]

MetricRow(kind, metric, point) ==
  Row(kind, NewAttrMap(metric.resource, point.attrs), point.time, MetricPayload(kind, point))

\* The number or sum of a point is "fine", "negative", "missing", "nan" (not finite), or
\* "large" when the count of a histogram has more than 63 bits.
GoodValue(kind, point) ==
  CASE kind = "response_tbt"     -> point.value \in {"fine", "negative"}
    [] kind = "turn_token_usage" -> point.value = "fine"
    [] OTHER                     -> point.value # "missing"

-----------------------------------------------------------------------------
(* What clients send, as far as the protocol says it. *)

\* The attribute first, the field of newer protocol versions otherwise.
EventName(item) == IF item.attrName # "" THEN item.attrName ELSE item.topName

Attributes(a) == \A k \in DOMAIN a : a[k] \in [type : WireTypes, n : Int]

\* The patterns of the parsers accept no item that lacks what they are about.
IsLog(item) ==
  /\ Attributes(item.resource) /\ Attributes(item.attrs)
  /\ item.time \in Int /\ item.observed \in Int
  /\ item.completed \in BOOLEAN /\ item.valid \in BOOLEAN
  /\ LET name  == EventName(item)
         sent  == DOMAIN NewAttrMap(item.resource, item.attrs)
     IN  /\ item.valid /\ name = "codex.turn_cost" => "usage.estimated_usd" \in sent
         /\ item.valid /\ name = "codex.skill_invocation" => "skill.invocation_type" \in sent
         /\ name = "codex.sse_event" =>
              EventRow("codex_token_usage", item).row["model"] \in DOMAIN ModelOf

IsPoint(point) ==
  /\ Attributes(point.attrs)
  /\ point.n \in Int /\ point.time \in Int /\ point.start \in Int

IsMetric(metric) ==
  /\ Attributes(metric.resource)
  /\ Len(metric.points) \in Nat /\ DOMAIN metric.points = 1 .. Len(metric.points)
  /\ \A i \in DOMAIN metric.points : IsPoint(metric.points[i])

IsRequest(r) ==
  /\ r.signal \in {"logs", "metrics"}
  /\ Len(r.items) \in Nat /\ DOMAIN r.items = 1 .. Len(r.items)
  /\ \A i \in DOMAIN r.items :
       IF r.signal = "logs" THEN IsLog(r.items[i]) ELSE IsMetric(r.items[i])

ASSUME RequestAssumption == \A r \in DOMAIN Requests : IsRequest(Requests[r])

-----------------------------------------------------------------------------
(* The dispatcher. *)

\* What becomes of a log record: a row of a kind, or one of the counters.
Verdict(item) ==
  LET name == EventName(item)
      kind == EventKind[name]
  IN  IF name \notin DOMAIN EventKind THEN "unknown"
      ELSE IF kind = "codex_token_usage" /\ ~item.completed THEN "skipped"
      ELSE IF ~Identified(kind, EventRow(kind, item).row) \/ ~item.valid THEN "errors"
      ELSE "rows"

\* The same for one point of a metric.
PointVerdict(metric, i) ==
  LET kind  == MetricKind[metric.name]
      point == metric.points[i]
  IN  IF metric.name \notin DOMAIN MetricKind THEN "unknown"
      ELSE IF ~GoodValue(kind, point) \/ ~Identified(kind, MetricRow(kind, metric, point).row)
           THEN "errors"
      ELSE "rows"

\* The shapes a metric may have; only a sum or a gauge has number points.
WrongShape(metric) ==
  \/ metric.name = "codex.skill.injected" /\ metric.shape # "delta sum"
  \/ metric.name \in DOMAIN HistogramRoute /\ metric.shape # "delta histogram"

NoNumbers(metric) ==
  metric.name \notin DOMAIN HistogramRoute /\ metric.shape \notin {"delta sum", "sum", "gauge"}

Count(s, counter, n) == [s EXCEPT ![counter] = @ + n]

CurrentItem(h) == Request(h).items[at[h]]

Advance(h) == at' = [at EXCEPT ![h] = @ + 1]

AtItem(h, signal) ==
  /\ pc[h] = "items" /\ Request(h).signal = signal
  /\ at[h] <= Len(Request(h).items)

\* A handler takes on an Export request.
Export(h) ==
  /\ pc[h] = "idle" /\ served[h] < MaxRequests
  /\ \E r \in Sends[IF enabled THEN "priced" ELSE "plain"][h] : req' = [req EXCEPT ![h] = r]
  /\ pc' = [pc EXCEPT ![h] = "items"]
  /\ at' = [at EXCEPT ![h] = 1]
  /\ sum' = [sum EXCEPT ![h] = ZeroSum]
  /\ out' = [out EXCEPT ![h] = <<>>]
  /\ served' = [served EXCEPT ![h] = @ + 1]
  /\ since' = [since EXCEPT ![h] = Len(published)]
  /\ UNCHANGED <<held, enabled, unmatched, engineVars>>

\* Always a success, whatever the counters say.
Reply(h) ==
  /\ pc[h] = "items" /\ at[h] > Len(Request(h).items)
  /\ pc' = [pc EXCEPT ![h] = "idle"]
  /\ UNCHANGED <<req, at, held, sum, out, served, enabled, unmatched, since, engineVars>>

\* A log record that needs no price.
DispatchEvent(h) ==
  /\ AtItem(h, "logs")
  /\ LET item    == CurrentItem(h)
         verdict == Verdict(item)
         kind    == EventKind[EventName(item)]
     IN  /\ ~(verdict = "rows" /\ kind = "codex_token_usage" /\ enabled
                /\ ValidUsage(EventRow(kind, item).row))
         /\ sum' = [sum EXCEPT ![h] = Count(@, verdict, 1)]
         /\ IF verdict = "rows"
            THEN out' = [out EXCEPT ![h] = Append(@, EventRow(kind, item))]
            ELSE UNCHANGED out
  /\ Advance(h)
  /\ UNCHANGED <<pc, req, held, served, enabled, unmatched, since, engineVars>>

\* Valid usage is priced: CostFor loads the current table.
LoadTable(h) ==
  /\ AtItem(h, "logs")
  /\ LET item == CurrentItem(h)
     IN  /\ Verdict(item) = "rows" /\ EventName(item) = "codex.sse_event"
         /\ enabled /\ ValidUsage(EventRow("codex_token_usage", item).row)
  /\ held' = [held EXCEPT ![h] = Len(published)]
  /\ pc' = [pc EXCEPT ![h] = "costing"]
  /\ UNCHANGED <<req, at, sum, out, served, enabled, unmatched, since, engineVars>>

\* Mutant: the table is loaded again for the rates of the output.
PriceFromTwoTables(h, model) ==
  [Lookup(published[held[h]], model) EXCEPT
     !.output = Lookup(table, model).output, !.reasoning = Lookup(table, model).reasoning]

\* The price CostFor finds in the table it loaded.
PriceHeld(h, model) == Lookup(published[held[h]], model)

\* The rest of CostFor, and the row goes to the sink with the cost or without.
StoreUsage(h) ==
  /\ pc[h] = "costing"
  /\ LET parsed == EventRow("codex_token_usage", CurrentItem(h))
         model  == ModelOf[parsed.row["model"]]
         cost   == Cost(PriceHeld(h, model), CountsOf(parsed.row))
         value  == IF cost = NoRate THEN Null ELSE [type |-> "double", n |-> cost]
     IN  /\ out' = [out EXCEPT ![h] = Append(@, [parsed EXCEPT !.row["cost_usd"] = value])]
         /\ unmatched' = IF cost = NoRate THEN [unmatched EXCEPT ![model] = @ + 1] ELSE unmatched
  /\ sum' = [sum EXCEPT ![h] = Count(@, "rows", 1)]
  /\ pc' = [pc EXCEPT ![h] = "items"]
  /\ Advance(h)
  /\ UNCHANGED <<req, held, served, enabled, since, engineVars>>

\* Mutant: a metric of the wrong shape is passed over without a word.
PassOverShape(h) == UNCHANGED <<sum, out>>

\* A metric of the wrong shape is one error, however many points it has.
RefuseShape(h) == sum' = [sum EXCEPT ![h] = Count(@, "errors", 1)] /\ UNCHANGED out

\* The j-th of a set of indices.
Nth(S, j) == CHOOSE i \in S : Cardinality({k \in S : k < i}) = j - 1

\* A metric with all its points.
DispatchMetric(h) ==
  /\ AtItem(h, "metrics")
  /\ LET metric == CurrentItem(h)
         kind   == MetricKind[metric.name]
         with(v) == {i \in DOMAIN metric.points : PointVerdict(metric, i) = v}
         row(j)  == MetricRow(kind, metric, metric.points[Nth(with("rows"), j)])
     IN  IF WrongShape(metric)
         THEN RefuseShape(h)
         ELSE IF NoNumbers(metric)
         THEN sum' = [sum EXCEPT ![h] = Count(@, "unknown", 1)] /\ UNCHANGED out
         ELSE /\ sum' = [sum EXCEPT ![h] =
                   [c \in DOMAIN @ |-> @[c] + Cardinality(with(c))]]
              /\ out' = [out EXCEPT ![h] =
                   @ \o [j \in 1 .. Cardinality(with("rows")) |-> row(j)]]
  /\ Advance(h)
  /\ UNCHANGED <<pc, req, held, served, enabled, unmatched, since, engineVars>>

-----------------------------------------------------------------------------
(* The pricing engine. *)

\* Mutant: the URL has the last word.
LayeredUrlLast(entries) == Merge(Merge(File, Overrides), entries)

\* file < url < overrides.
Layered(entries) == Merge(Merge(File, entries), Overrides)

\* NewEngine has read the file before anything else starts, and Start has begun the
\* first refresh; without a URL there is no goroutine.
Init ==
  /\ enabled \in BOOLEAN
  /\ pc = [h \in Handlers |-> "idle"]
  /\ req = [h \in Handlers |-> "none"]
  /\ at = [h \in Handlers |-> 1]
  /\ held = [h \in Handlers |-> 1]
  /\ sum = [h \in Handlers |-> ZeroSum]
  /\ out = [h \in Handlers |-> <<>>]
  /\ served = [h \in Handlers |-> 0]
  /\ published = <<Layered(<<>>)>>
  /\ refresh = IF enabled THEN "fetch" ELSE "ended"
  /\ body = NoBody
  /\ stats = [entries |-> Cardinality(DOMAIN Layered(<<>>)), ok |-> TRUE, refreshes |-> 1]
  /\ unmatched = [m \in Names |-> 0] /\ since = [h \in Handlers |-> 1]
  /\ stopping = FALSE

\* The URL answers with prices, or the request fails, at the latest after 30 seconds,
\* or the answer cannot be read.
Fetch ==
  /\ refresh = "fetch"
  /\ \/ \E b \in Bodies : b.ok /\ body' = b /\ refresh' = "publish"
     \/ body' = NoBody /\ refresh' = "failed"
  /\ UNCHANGED <<handlerVars, enabled, published, stats, stopping>>

\* publish stores the table first ...
StoreTable ==
  /\ refresh = "publish"
  /\ published' = Append(published, Layered(Parsed(body)))
  /\ refresh' = "publish stats"
  /\ UNCHANGED <<handlerVars, enabled, body, stats, stopping>>

\* ... and then the statistics, under the mutex.
StoreStats ==
  /\ refresh = "publish stats"
  /\ stats' = [entries |-> Cardinality(DOMAIN table), ok |-> TRUE, refreshes |-> stats.refreshes]
  /\ refresh' = "select" /\ body' = NoBody
  /\ UNCHANGED <<handlerVars, enabled, published, stopping>>

\* markRefreshFailed: the table stays.
MarkRefreshFailed ==
  /\ refresh = "failed"
  /\ stats' = [stats EXCEPT !.ok = FALSE]
  /\ refresh' = "select"
  /\ UNCHANGED <<handlerVars, enabled, published, body, stopping>>

\* The ticker; when stopCh is closed as well, select may take either.
Tick ==
  /\ refresh = "select" /\ stats.refreshes < MaxRefreshes
  /\ stats' = [stats EXCEPT !.refreshes = @ + 1]
  /\ refresh' = "fetch"
  /\ UNCHANGED <<handlerVars, enabled, published, body, stopping>>

\* Mutant: the loop looks at stopCh only before its first refresh.
LoopNeverEnds == FALSE /\ UNCHANGED vars

LoopEnds ==
  /\ refresh = "select" /\ stopping
  /\ refresh' = "ended"
  /\ UNCHANGED <<handlerVars, enabled, published, body, stats, stopping>>

\* Engine.Stop, deferred by the server: closes stopCh and waits for the loop.
Stop ==
  /\ enabled /\ ~stopping
  /\ stopping' = TRUE
  /\ UNCHANGED <<handlerVars, enabled, published, refresh, body, stats>>

Next ==
  \/ \E h \in Handlers : \/ Export(h) \/ DispatchEvent(h) \/ DispatchMetric(h)
                         \/ LoadTable(h) \/ StoreUsage(h) \/ Reply(h)
  \/ Fetch \/ StoreTable \/ StoreStats \/ MarkRefreshFailed \/ Tick \/ LoopEnds \/ Stop

Spec == Init /\ [][Next]_vars

\* The refresh goroutine runs whenever it can; a request to the URL ends because the
\* client has a timeout; select does not for ever prefer the ticker to a closed
\* stopCh.  Neither a request nor a stop need come, and no handler need go on.
Fairness ==
  /\ WF_vars(Fetch) /\ WF_vars(StoreTable) /\ WF_vars(StoreStats) /\ WF_vars(MarkRefreshFailed)
  /\ SF_vars(LoopEnds)

FairSpec == Spec /\ Fairness

-----------------------------------------------------------------------------
(* Properties *)

Usage(h)  == {i \in DOMAIN out[h] : out[h][i].kind = "codex_token_usage"}

\* The items a handler has passed, each with its points; a log record is one.
Seen(h) ==
  LET points(i) == IF Request(h).signal = "logs" THEN {1} ELSE DOMAIN Request(h).items[i].points
  IN  UNION {{i} \X points(i) : i \in 1 .. at[h] - 1}

\* Every variable has its type.
TypeOK ==
  /\ pc \in [Handlers -> {"idle", "items", "costing"}]
  /\ \A h \in Handlers : at[h] \in 1 .. Len(Request(h).items) + 1
  /\ sum \in [Handlers -> [rows : Nat, unknown : Nat, skipped : Nat, errors : Nat]]
  /\ \A h \in Handlers : held[h] \in 1 .. Len(published) /\ since[h] \in 1 .. Len(published)
  /\ \A h \in Handlers : \A i \in DOMAIN out[h] :
       out[h][i].kind \in Kinds /\ \A c \in DOMAIN out[h][i].row : out[h][i].row[c] \in Value
  /\ \A i \in DOMAIN published : published[i] \in [DOMAIN published[i] -> Price]
  /\ refresh \in {"fetch", "publish", "publish stats", "failed", "select", "ended"}
  /\ unmatched \in [Names -> Nat] /\ stopping \in BOOLEAN

\* Export answers success whatever happened, so the log line is all that tells what
\* was not kept: a summary without errors, unknown or skipped items means that every
\* item of the request, and every point of its metrics, is a row in the sink, once;
\* and the rows counted are the rows stored.
SummaryTellsAll ==
  \A h \in Handlers :
    LET lost == sum[h].unknown + sum[h].skipped + sum[h].errors
    IN  /\ sum[h].rows = Len(out[h])
        /\ lost = 0 => Len(out[h]) = Cardinality(Seen(h))
        /\ Request(h).signal = "logs" => Len(out[h]) + lost = at[h] - 1

\* Once in its table, a row has every attribute where it belongs: in the column
\* named for it, converted, or in the JSON column; never in both, and the text
\* of tool arguments and outputs nowhere.
AttributesKept ==
  \A h \in Handlers : \A i \in DOMAIN out[h] :
    LET o      == out[h][i]
        fields == FieldsOf[o.kind]
        stored == Stored(o.kind, o.row)
    IN  /\ DOMAIN fields \subseteq DOMAIN stored
        /\ \A f \in DOMAIN stored : stored[f] = Laid(o.row[f])
        /\ DOMAIN o.left \cap Keys(fields) = {}
        /\ o.kind = "codex_tool_result" => {"arguments", "output"} \cap DOMAIN o.left = {}
        /\ (stored["attrs"] = Null) = (DOMAIN o.left = {})

\* A row the appender refuses comes back with its batch for ever and blocks its
\* table.  The parsers let through none that lacks what its table insists on: what
\* is left is a number without a JSON form among the attributes no field takes.
OnlyNonFiniteRefused ==
  \A h \in Handlers : \A i \in DOMAIN out[h] :
    LET o == out[h][i]
    IN  Accepted(o.kind, o.row, o.left) \/ \E k \in DOMAIN o.left : o.left[k].type = "nan"

\* A stored cost is the cost by one table, and one that was in use at some time since
\* the request came; usage that is not valid has none.  A row without a cost has a
\* model that such a table could not price, and the counter of unmatched models
\* counts it.
CostFromOneTable ==
  \A h \in Handlers : \A i \in Usage(h) :
    LET row      == out[h][i].row
        model    == ModelOf[row["model"]]
        costs    == {Cost(Lookup(published[v], model), CountsOf(row)) :
                       v \in since[h] .. Len(published)}
        priced(r) == enabled /\ r["usage_valid"].n = 1
        missed   == {j \in Usage(h) : /\ priced(out[h][j].row) /\ out[h][j].row["cost_usd"] = Null
                                      /\ ModelOf[out[h][j].row["model"]] = model}
    IN  /\ row["cost_usd"] # Null => priced(row) /\ row["cost_usd"].n \in costs
        /\ priced(row) /\ row["cost_usd"] = Null => NoRate \in costs
        /\ unmatched[model] >= Cardinality(missed)

\* Usage that counts as valid is billed exactly once per token: the parts that are
\* billed at rates of their own never exceed the whole they are part of, and the
\* total still fits the counter.
BilledOnce ==
  LET one == [input |-> 1, output |-> 1, read |-> 1, write |-> 1, reasoning |-> 1]
  IN  \A h \in Handlers : \A i \in Usage(h) :
        LET row    == out[h][i].row
            counts == CountsOf(row)
        IN  row["usage_valid"].n = 1 =>
              /\ Cost(one, counts) = counts.input + counts.output
              /\ Cost(one, counts) <= MaxInt64

\* Every table in use has the operator's prices as they were configured and every
\* model of the local file, whatever the URL said; it is laid together from one answer
\* that could be read, never from one that could not.
PricesLayered ==
  /\ \A m \in DOMAIN Overrides : table[m] = Overrides[m]
  /\ DOMAIN File \subseteq DOMAIN table
  /\ Len(published) > 1 =>
       \E b \in Bodies : /\ b.ok
                        /\ \A m \in (DOMAIN b.entries \ b.malformed) \ DOMAIN Overrides :
                             m \in DOMAIN table /\ table[m] = b.entries[m]
  /\ refresh # "publish stats" => stats.entries = Cardinality(DOMAIN table)

\* Engine.Stop returns, also while the URL keeps it waiting.
StopReturns == stopping ~> (refresh = "ended")
=============================================================================
