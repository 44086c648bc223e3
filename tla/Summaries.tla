----------------------------- MODULE Summaries -----------------------------
(***************************************************************************)
(* internal/store/archive.go, codex_archive.go and the views of            *)
(* migrations/008: what the summary tables hold once a set of rows has     *)
(* been archived, and what the views make of raw rows and summaries.       *)
(*                                                                         *)
(* Merging day by day gives the summaries of all the rows archived; that   *)
(* is what the module Archiver checks, so here a summary is a function of  *)
(* the set of rows.  A row is a record: a name of its own in row, table,   *)
(* ts, session, model ("" for none) and the columns of its table.          *)
(***************************************************************************)
EXTENDS Integers, FiniteSets, FiniteSetsExt

CONSTANTS
  Null,           \* a numeric column without a value
  HourTicks,      \* instants to an hour
  LegacyHours,    \* archive.codex_legacy_cost_hourly: set of [bucket, model, cost]
  LegacySessions  \* archive.codex_legacy_session_cost: conversation -> cost

ASSUME SummaryAssumption ==
  /\ HourTicks \in Nat \ {0}
  /\ IsFiniteSet(LegacyHours) /\ \A l \in LegacyHours : l.bucket \in Int /\ l.cost \in Int

ClaudeTables == {"token_usage", "cost_usage", "api_request", "tool_result", "skill_activated",
                 "user_prompt"}

Of(rows, table) == {r \in rows : r.table = table}
In(rows, tables) == {r \in rows : r.table \in tables}
Client(r)       == IF r.table \in ClaudeTables THEN "claude" ELSE "codex"
TheHour(t)      == (t \div HourTicks) * HourTicks
OrZero(n)       == IF n = Null THEN 0 ELSE n
Positive(n)     == IF n < 0 THEN 0 ELSE n
Earliest(times) == CHOOSE t \in times : \A u \in times : t <= u
Latest(times)   == CHOOSE t \in times : \A u \in times : t >= u
Total(f(_), rows) == MapThenSumSet(f, rows)

\* Columns put together.
f ++ g == [c \in DOMAIN f \cup DOMAIN g |-> IF c \in DOMAIN f THEN f[c] ELSE g[c]]

\* The view codex_valid_token_usage.
Valid(r) ==
  /\ r.table = "codex_token_usage"
  /\ r.valid /\ r.input >= 0 /\ r.output >= 0
  /\ OrZero(r.cached) \in 0 .. r.input
  /\ OrZero(r.write) \in 0 .. r.input - OrZero(r.cached)
  /\ OrZero(r.reasoning) \in 0 .. r.output

ValidUsage(rows) == {r \in rows : Valid(r)}

\* What a Codex response adds to the input that no cache served.
Uncached(r) == r.input - OrZero(r.cached) - OrZero(r.write)

\* Samples the speed is computed from.
Measured(r) ==
  /\ r.model # ""
  /\ IF r.table = "api_request" THEN r.duration > 0 /\ r.output > 0
     ELSE r.samples > 0 /\ r.sum > 0

-----------------------------------------------------------------------------
(* archive.usage_hourly *)

UsageColumns == {"tokens_total", "input", "output", "cache_read", "cache_creation", "reasoning",
                 "throughput_input", "token_rows", "requests", "cost", "speed_units",
                 "speed_duration", "cached_samples", "write_samples", "reasoning_samples"}

\* The rows a bucket is made of.
UsageRows(rows) ==
  In(rows, {"token_usage", "cost_usage", "api_request", "response_tbt"}) \cup ValidUsage(rows)

TypeColumns == [input |-> {"input", "throughput_input"}, output |-> {"output"},
                cacheRead |-> {"cache_read"}, cacheCreation |-> {"cache_creation"}]

\* A type of tokens that is none of these counts in the total alone.
OfType(columns, type) == IF type \in DOMAIN columns THEN columns[type] ELSE {}

Present(n) == IF n = Null THEN 0 ELSE 1

\* What a row adds to the columns, in the arms of archiveUsageSQL and in
\* archiveCodexResponseSamplesSQL; the columns left out stay as they are.
Adds(r) ==
  CASE r.table = "token_usage" ->
         [c \in {"tokens_total"} \cup OfType(TypeColumns, r.type) |-> r.value] ++ [token_rows |-> 1]
    [] r.table = "cost_usage"  -> [cost |-> r.value]
    [] r.table = "api_request" ->
         [requests |-> 1] ++
         (IF Measured(r) THEN [speed_units |-> r.output, speed_duration |-> r.duration]
          ELSE <<>>)
    [] r.table = "codex_token_usage" ->
         [tokens_total |-> r.input + r.output, input |-> r.input, output |-> r.output,
          cache_read |-> OrZero(r.cached), cache_creation |-> OrZero(r.write),
          reasoning |-> OrZero(r.reasoning), throughput_input |-> Positive(Uncached(r)),
          token_rows |-> 1, requests |-> 1, cached_samples |-> Present(r.cached),
          write_samples |-> Present(r.write), reasoning_samples |-> Present(r.reasoning)]
    [] r.table = "response_tbt" ->
         IF Measured(r) THEN [speed_units |-> r.samples, speed_duration |-> r.sum] ELSE <<>>

Amount(r, column) == IF column \in DOMAIN Adds(r) THEN Adds(r)[column] ELSE 0

UsageKey(r) == [bucket |-> TheHour(r.ts), client |-> Client(r), model |-> r.model]

UsageHourly(rows) ==
  [key \in {UsageKey(r) : r \in UsageRows(rows)} |->
     LET own == {r \in UsageRows(rows) : UsageKey(r) = key}
     IN  [c \in UsageColumns |-> Total(LAMBDA r : Amount(r, c), own)]]

\* model_last_seen: costs and speed samples do not count.
LastSeen(rows, key) ==
  {r.ts : r \in {q \in UsageRows(rows) :
     UsageKey(q) = key /\ q.table \notin {"cost_usage", "response_tbt"}}}

-----------------------------------------------------------------------------
(* archive.tool_hourly and archive.skill_hourly *)

NamedTools(rows)  == {r \in In(rows, {"tool_result", "codex_tool_result"}) : r.name # ""}
RankedSkills(rows) ==
  {r \in In(rows, {"skill_activated", "skill_injected"}) :
     r.name # "" /\ (r.table = "skill_injected" => r.ok)}
Uses(r) == IF r.table = "skill_injected" THEN r.value ELSE 1

NameKey(r) == [bucket |-> TheHour(r.ts), client |-> Client(r), name |-> r.name]

ToolHourly(rows) ==
  [key \in {NameKey(r) : r \in NamedTools(rows)} |->
     Cardinality({r \in NamedTools(rows) : NameKey(r) = key})]

SkillHourly(rows) ==
  [key \in {NameKey(r) : r \in RankedSkills(rows)} |->
     Total(Uses, {r \in RankedSkills(rows) : NameKey(r) = key})]

-----------------------------------------------------------------------------
(* archive.sessions *)

\* The rows whose time counts as activity, valid or not.
ActiveRows(rows) ==
  {r \in In(rows, {"token_usage", "api_request", "tool_result", "skill_activated", "user_prompt",
                   "codex_token_usage", "turn_cost", "skill_invocation", "codex_tool_result",
                   "codex_user_prompt", "conversation_starts"}) : r.session # ""}

SessionKey(r) == [client |-> Client(r), id |-> r.session]

\* What a row adds to its session; the split of the tokens is Codex's, nobody reads
\* Claude's.
SessionAdds(r) ==
  CASE Valid(r) ->
         [tokens |-> r.input + r.output, requests |-> 1, input |-> r.input,
          output |-> r.output, cached |-> OrZero(r.cached), write |-> OrZero(r.write),
          reasoning |-> OrZero(r.reasoning)]
    [] r.table = "token_usage"     -> [tokens |-> r.value]
    [] r.table = "api_request"     -> [requests |-> 1]
    [] r.table = "skill_activated" -> [skills |-> 1]
    [] r.table = "cost_usage"      -> [cost |-> r.value]
    [] r.table \in {"tool_result", "codex_tool_result"} -> [tools |-> 1]
    [] OTHER -> <<>>

SessionColumns == {"tokens", "requests", "tools", "skills", "cost", "input", "output", "cached",
                   "write", "reasoning"}

OfSession(rows, key) == {r \in rows : SessionKey(r) = key}

SessionSum(rows, key, column) ==
  Total(LAMBDA r : LET adds == SessionAdds(r)
                   IN  IF column \in DOMAIN adds THEN adds[column] ELSE 0, OfSession(rows, key))

ActiveTimes(rows, key) == {r.ts : r \in OfSession(ActiveRows(rows), key)}

\* archive.session_tools, and archive.session_skills, which has Claude's alone.
SessionTools(rows, key)  == {r \in NamedTools(rows) : SessionKey(r) = key}
SessionSkills(rows, key) ==
  {r \in Of(rows, "skill_activated") : r.name # "" /\ SessionKey(r) = key}
CountNames(rows) ==
  [n \in {r.name : r \in rows} |-> Cardinality({r \in rows : r.name = n})]

-----------------------------------------------------------------------------
(* Codex costs, skills and histograms *)

\* The order of the costs of one turn, in the view and in the archive.  row_number() puts one
\* of those that tie in all three columns first, no matter which: tie is its choice.
Newer(r, s) ==
  \/ r.ts > s.ts
  \/ r.ts = s.ts /\ r.received > s.received
  \/ r.ts = s.ts /\ r.received = s.received /\ r.amount > s.amount
  \/ r.ts = s.ts /\ r.received = s.received /\ r.amount = s.amount /\ r.tie > s.tie

\* The parser lets no turn cost pass without a conversation, a turn and an amount.
SameTurn(r, s) == r.session = s.session /\ r.turn = s.turn

\* archive.codex_turn_cost, and the view codex_native_turn_costs: the newest of each turn,
\* row_number() = 1.
NewestTurns(rows) ==
  {r \in Of(rows, "turn_cost") :
     ~\E s \in Of(rows, "turn_cost") : SameTurn(r, s) /\ Newer(s, r)}

NativeTurnCosts(raw, archived) == NewestTurns(Of(raw, "turn_cost") \cup NewestTurns(archived))

\* archive.codex_local_cost_hourly.
LocalKey(r) == [bucket |-> TheHour(r.ts), session |-> r.session, model |-> r.model]

LocalCostHourly(rows) ==
  [key \in {LocalKey(r) : r \in ValidUsage(rows)} |->
     LET own == {r \in ValidUsage(rows) : LocalKey(r) = key}
     IN  [cost    |-> Total(LAMBDA r : OrZero(r.cost), own),
          samples |-> Total(LAMBDA r : Present(r.cost), own)]]

\* A row of the cost views; row is "" where it stands for a bucket.
CostRow(row, ts, session, model, cost, source, samples) ==
  [row |-> row, ts |-> ts, session |-> session, model |-> model, cost |-> cost,
   source |-> source, samples |-> samples]

\* The view codex_local_costs; without samples a cost is Null.
LocalCosts(raw, archived) ==
  LET hourly == LocalCostHourly(archived)
  IN  {CostRow(r.row, r.ts, r.session, r.model, OrZero(r.cost), "local",
               Present(r.cost)) : r \in ValidUsage(raw)} \cup
      {CostRow("", k.bucket, k.session, k.model, hourly[k].cost,
               "local", hourly[k].samples) : k \in DOMAIN hourly}

\* Mutant: an archived turn cost no longer stands in for the estimates.
NativeSessionsInRaw(raw, archived) == {r.session : r \in NewestTurns(raw)}

\* The conversations whose cost is the native one, in every window.
NativeSessions(raw, archived) == {r.session : r \in NativeTurnCosts(raw, archived)}

\* The view codex_selected_costs.
SelectedCosts(raw, archived) ==
  {CostRow(r.row, r.ts, r.session, r.model, r.amount, "native", 1) :
     r \in NativeTurnCosts(raw, archived)} \cup
  {c \in LocalCosts(raw, archived) : c.session \notin NativeSessions(raw, archived)} \cup
  {CostRow("", l.bucket, "", l.model, l.cost, "legacy",
           IF l.cost > 0 THEN 1 ELSE 0) : l \in LegacyHours}

\* archive.codex_skill_invocation and the view codex_skill_invocations: an identity, with its
\* earliest time.  The plugin that is part of it is left out, as is the source of the session
\* that is part of the key of codex_turn_usage_hourly below.
Invocation(r) == [session |-> r.session, turn |-> r.turn, name |-> r.name,
                  type |-> r.type]

SkillInvocations(raw, archived) ==
  LET rows == Of(raw \cup archived, "skill_invocation")
  IN  [i \in {Invocation(r) : r \in rows} |->
         Earliest({r.ts : r \in {q \in rows : Invocation(q) = i}})]

\* archive.codex_ttft_histogram and archive.codex_turn_usage_hourly.
Timed(rows) == {r \in ValidUsage(rows) : r.ttft # Null /\ r.ttft >= 0}

TtftKey(r) == [bucket |-> TheHour(r.ts), session |-> r.session, model |-> r.model,
               ttft |-> r.ttft]

TtftHistogram(rows) ==
  [key \in {TtftKey(r) : r \in Timed(rows)} |->
     Cardinality({r \in Timed(rows) : TtftKey(r) = key})]

TurnUsageKey(r) == [bucket |-> TheHour(r.ts), model |-> r.model, type |-> r.type]

TurnUsageHourly(rows) ==
  LET turns == Of(rows, "turn_token_usage")
  IN  [key \in {TurnUsageKey(r) : r \in turns} |->
         LET own == {r \in turns : TurnUsageKey(r) = key}
         IN  [samples |-> Total(LAMBDA r : r.samples, own),
              tokens  |-> Total(LAMBDA r : r.sum, own)]]
=============================================================================
