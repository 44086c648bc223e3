---------------------------- MODULE IngestProofs ----------------------------
(***************************************************************************)
(* For every price file, every configuration of overrides, every answer of *)
(* the URL and whatever clients send, within the protocol.                 *)
(*                                                                         *)
(* Prices.  A table is published only by refreshOnce, of an answer that    *)
(* could be read, after NewEngine's own; what the goroutine holds between  *)
(* its two steps is such an answer.  So every table is layered as it was   *)
(* configured (IInv).                                                      *)
(*                                                                         *)
(* Rows.  What is sent leads to a set of rows, Produced, and of each of    *)
(* these it is proved once that it fits its table: kind by kind the lists  *)
(* of columns agree and have a place for every field (SchemaOf), and what  *)
(* the parser takes, keeps and insists on goes there (ProducedOK).         *)
(*                                                                         *)
(* Handlers.  RowInv says of each that its rows are among these, that each *)
(* is accounted for by a table in use since its request came and by the    *)
(* counter of unmatched models, and that its summary, its rows and the     *)
(* points it has passed add up.  A handler between CostFor's load of the   *)
(* table and the row (Costing) still holds a table that was in use.  Steps *)
(* of other handlers and of the engine only add tables and raise counters, *)
(* which Accounted and Booked survive (Untouched).                         *)
(***************************************************************************)
EXTENDS Ingest, FiniteProofs, TLAPS

\* The answers that can be read, the tables made of them, and the one without.
Readable  == {b \in Bodies : b.ok}
Refreshed == {Layered(Parsed(b)) : b \in Readable}
PriceTables   == Refreshed \cup {Layered(<<>>)}

TablesOK ==
  /\ published \in Seq(PriceTables) /\ published # <<>>
  /\ Len(published) > 1 => table \in Refreshed

StatsOK ==
  /\ DOMAIN stats = {"entries", "ok", "refreshes"}
  /\ refresh # "publish stats" => stats.entries = Cardinality(DOMAIN table)

BodyOK == refresh = "publish" => body \in Readable

IInv == TablesOK /\ StatsOK /\ BodyOK

-----------------------------------------------------------------------------
(* Layers *)

\* What a table of one answer has: the overrides as they are, every model of the file, and
\* below the overrides what the answer says.
LEMMA LayersOf ==
  ASSUME NEW entries
  PROVE  LET t == Layered(entries)
         IN  /\ \A m \in DOMAIN Overrides : t[m] = Overrides[m]
             /\ DOMAIN File \subseteq DOMAIN t
             /\ \A m \in DOMAIN entries \ DOMAIN Overrides :
                  m \in DOMAIN t /\ t[m] = entries[m]
BY Zenon DEF Layered, Merge

LEMMA ParsedEntries ==
  ASSUME NEW b
  PROVE  /\ DOMAIN Parsed(b) = DOMAIN b.entries \ b.malformed
         /\ \A m \in DOMAIN b.entries \ b.malformed : Parsed(b)[m] = b.entries[m]
BY DEF Parsed

\* Where a table says nothing else, it is one of those.
LEMMA LayersHold ==
  ASSUME NEW t \in PriceTables
  PROVE  /\ \A m \in DOMAIN Overrides : t[m] = Overrides[m]
         /\ DOMAIN File \subseteq DOMAIN t
<1>1. PICK entries : t = Layered(entries)
  BY Zenon DEF PriceTables, Refreshed
<1>. QED
  BY <1>1, LayersOf, Zenon

LEMMA AnswerHolds ==
  ASSUME NEW t \in Refreshed
  PROVE  \E b \in Bodies :
           /\ b.ok
           /\ \A m \in (DOMAIN b.entries \ b.malformed) \ DOMAIN Overrides :
                m \in DOMAIN t /\ t[m] = b.entries[m]
<1>1. PICK b \in Bodies : b.ok /\ t = Layered(Parsed(b))
  BY Zenon DEF Refreshed, Readable
<1>2. \A m \in DOMAIN Parsed(b) \ DOMAIN Overrides : m \in DOMAIN t /\ t[m] = Parsed(b)[m]
  BY <1>1, LayersOf, Zenon
<1>. QED
  BY <1>1, <1>2, ParsedEntries, Zenon

\* The last element of a sequence that one is appended to.
LEMMA Appended ==
  ASSUME NEW S, NEW s \in Seq(S), NEW e \in S
  PROVE  /\ Append(s, e) \in Seq(S) /\ Append(s, e) # <<>>
         /\ Append(s, e)[Len(Append(s, e))] = e
OBVIOUS

\* The first table is the last one as long as it is alone.
LEMMA LastOf ==
  ASSUME NEW S, NEW s \in Seq(S), s # <<>>
  PROVE  s[Len(s)] \in S
OBVIOUS

-----------------------------------------------------------------------------
LEMMA InitIInv == Init => IInv
<1>. SUFFICES ASSUME Init PROVE IInv
  OBVIOUS
<1>. DEFINE first == Layered(<<>>)
<1>1. published = <<first>>
  BY DEF Init
<1>2. first \in PriceTables
  BY DEF PriceTables
<1>. HIDE DEF first
<1>3. /\ published \in Seq(PriceTables) /\ published # <<>>
      /\ Len(published) = 1 /\ published[1] = first
  BY <1>1, <1>2
<1>4. TablesOK
  BY <1>3 DEF TablesOK
<1>5. table = first
  BY <1>3 DEF table
<1>6. stats = [entries |-> Cardinality(DOMAIN first), ok |-> TRUE, refreshes |-> 1]
  BY DEF Init, first
<1>7. StatsOK
  BY <1>5, <1>6 DEF StatsOK
<1>8. BodyOK
  BY DEF Init, BodyOK
<1>. QED
  BY <1>4, <1>7, <1>8 DEF IInv

\* The one step that publishes.
LEMMA StoreTableKeeps == IInv /\ StoreTable => IInv'
<1>. SUFFICES ASSUME IInv, StoreTable PROVE IInv'
  OBVIOUS
<1>. DEFINE new == Layered(Parsed(body))
<1>1. /\ refresh = "publish" /\ refresh' = "publish stats"
      /\ published' = Append(published, new) /\ stats' = stats
  BY DEF StoreTable
<1>2. new \in Refreshed
  BY <1>1, Zenon DEF IInv, BodyOK, Refreshed
<1>3. new \in PriceTables
  BY <1>2 DEF PriceTables
<1>. HIDE DEF new
<1>4. published \in Seq(PriceTables)
  BY DEF IInv, TablesOK
<1>5. /\ published' \in Seq(PriceTables) /\ published' # <<>>
      /\ published'[Len(published')] = new
  BY <1>1, <1>3, <1>4, Appended, Zenon
<1>6. TablesOK'
  BY <1>2, <1>5, Zenon DEF TablesOK, table
<1>7. StatsOK'
  BY <1>1 DEF IInv, StatsOK
<1>8. BodyOK'
  BY <1>1 DEF BodyOK
<1>. QED
  BY <1>6, <1>7, <1>8 DEF IInv

\* The other steps of the goroutine leave the tables alone.
LEMMA LoopKeeps ==
  ASSUME IInv, Fetch \/ StoreStats \/ MarkRefreshFailed \/ Tick \/ LoopEnds \/ Stop
  PROVE  IInv'
<1>1. published' = published /\ table' = table
  BY DEF Fetch, StoreStats, MarkRefreshFailed, Tick, LoopEnds, Stop, table
<1>2. TablesOK'
  BY <1>1 DEF IInv, TablesOK
<1>3. CASE Fetch
  <2>1. StatsOK'
    BY <1>1, <1>3 DEF IInv, StatsOK, Fetch
  <2>2. BodyOK'
    BY <1>3 DEF BodyOK, Readable, Fetch
  <2>. QED
    BY <1>2, <2>1, <2>2 DEF IInv
<1>4. CASE StoreStats
  <2>1. StatsOK'
    BY <1>1, <1>4 DEF StatsOK, StoreStats
  <2>2. BodyOK'
    BY <1>4 DEF BodyOK, StoreStats
  <2>. QED
    BY <1>2, <2>1, <2>2 DEF IInv
<1>5. CASE MarkRefreshFailed
  <2>1. StatsOK'
    BY <1>1, <1>5 DEF IInv, StatsOK, MarkRefreshFailed
  <2>2. BodyOK'
    BY <1>5 DEF BodyOK, MarkRefreshFailed
  <2>. QED
    BY <1>2, <2>1, <2>2 DEF IInv
<1>6. CASE Tick
  <2>1. StatsOK'
    BY <1>1, <1>6 DEF IInv, StatsOK, Tick
  <2>2. BodyOK'
    BY <1>6 DEF BodyOK, Tick
  <2>. QED
    BY <1>2, <2>1, <2>2 DEF IInv
<1>7. CASE LoopEnds
  <2>1. StatsOK'
    BY <1>1, <1>7 DEF IInv, StatsOK, LoopEnds
  <2>2. BodyOK'
    BY <1>7 DEF BodyOK, LoopEnds
  <2>. QED
    BY <1>2, <2>1, <2>2 DEF IInv
<1>8. CASE Stop
  <2>1. StatsOK'
    BY <1>1, <1>8 DEF IInv, StatsOK, Stop
  <2>2. BodyOK'
    BY <1>8 DEF IInv, BodyOK, Stop
  <2>. QED
    BY <1>2, <2>1, <2>2 DEF IInv
<1>. QED
  BY <1>3, <1>4, <1>5, <1>6, <1>7, <1>8

LEMMA EngineUntouched == IInv /\ UNCHANGED engineVars => IInv'
BY DEF IInv, TablesOK, StatsOK, BodyOK, table, engineVars

LEMMA NextIInv == IInv /\ [Next]_vars => IInv'
<1>. SUFFICES ASSUME IInv, [Next]_vars PROVE IInv'
  OBVIOUS
<1>1. ASSUME NEW h \in Handlers,
             Export(h) \/ DispatchEvent(h) \/ DispatchMetric(h) \/ LoadTable(h)
               \/ StoreUsage(h) \/ Reply(h)
      PROVE  UNCHANGED engineVars
  BY <1>1, Zenon DEF Export, DispatchEvent, DispatchMetric, LoadTable, StoreUsage, Reply
<1>2. CASE UNCHANGED vars
  BY <1>2, EngineUntouched DEF vars, engineVars
<1>. QED
  BY <1>1, <1>2, EngineUntouched, StoreTableKeeps, LoopKeeps, Zenon DEF Next

LEMMA IInvLayered == IInv => PricesLayered
<1>. SUFFICES ASSUME IInv PROVE PricesLayered
  OBVIOUS
<1>1. table \in PriceTables
  BY LastOf, Zenon DEF IInv, TablesOK, table
<1>2. /\ \A m \in DOMAIN Overrides : table[m] = Overrides[m]
      /\ DOMAIN File \subseteq DOMAIN table
  BY <1>1, LayersHold, Zenon
<1>3. Len(published) > 1 => table \in Refreshed
  BY DEF IInv, TablesOK
<1>4. Len(published) > 1 =>
        \E b \in Bodies : /\ b.ok
                         /\ \A m \in (DOMAIN b.entries \ b.malformed) \ DOMAIN Overrides :
                              m \in DOMAIN table /\ table[m] = b.entries[m]
  BY <1>3, AnswerHolds, Zenon
<1>5. refresh # "publish stats" => stats.entries = Cardinality(DOMAIN table)
  BY DEF IInv, StatsOK
<1>. QED
  BY <1>2, <1>4, <1>5, Zenon DEF PricesLayered

\* Overrides win, models of the local file are never lost, and prices of the URL are those of
\* one answer that could be read, for every file, configuration and URL.
THEOREM PricesLayeredHolds == Spec => []PricesLayered
<1>1. Init => IInv
  BY InitIInv
<1>2. IInv /\ [Next]_vars => IInv'
  BY NextIInv
<1>3. IInv => PricesLayered
  BY IInvLayered
<1>. QED
  BY <1>1, <1>2, <1>3, PTL DEF Spec
-----------------------------------------------------------------------------
(* What usage costs *)

CountFields == {"input_token_count", "output_token_count", "cached_token_count",
                "cache_write_token_count", "reasoning_token_count"}

LEMMA PartsOfWholes ==
  \A i, o, c, w, r \in Int :
    i >= 0 /\ o >= 0 /\ c >= 0 /\ w >= 0 /\ r >= 0 /\ c <= i /\ w <= i - c /\ r <= o
      => NonNeg(i - c - w) * 1 + c * 1 + w * 1 + (NonNeg(o - r) * 1 + r * 1) = i + o
BY DEF NonNeg

\* A row that ValidUsage accepts pays for each of its tokens at one rate: were all rates 1,
\* it would cost what its input and output are together, which fits 63 bits.
THEOREM ValidUsageBilledOnce ==
  ASSUME NEW row, \A f \in CountFields : row[f].n \in Int, ValidUsage(row)
  PROVE  LET one    == [input |-> 1, output |-> 1, read |-> 1, write |-> 1, reasoning |-> 1]
             counts == CountsOf(row)
         IN  /\ Cost(one, counts) = counts.input + counts.output
             /\ Cost(one, counts) <= MaxInt64
<1>. DEFINE i == row["input_token_count"].n
            o == row["output_token_count"].n
            c == row["cached_token_count"].n
            w == row["cache_write_token_count"].n
            r == row["reasoning_token_count"].n
            one == [input |-> 1, output |-> 1, read |-> 1, write |-> 1, reasoning |-> 1]
            counts == CountsOf(row)
<1>1. i \in Int /\ o \in Int /\ c \in Int /\ w \in Int /\ r \in Int
  BY Zenon DEF CountFields
<1>2. /\ i >= 0 /\ o >= 0 /\ c >= 0 /\ w >= 0 /\ r >= 0
      /\ c <= i /\ w <= i - c /\ r <= o /\ o <= MaxInt64 - i
  BY Zenon DEF ValidUsage
<1>3. counts = [input |-> i, output |-> o, read |-> c, write |-> w, reasoning |-> r]
  BY Zenon DEF CountsOf
<1>. HIDE DEF i, o, c, w, r, counts
<1>4. NoRate # 1 /\ \A n \in Int : n # NoRate
  BY PriceTableAssumption DEF PriceTableAssumption
<1>5. LET b == CostBreakdown(one, counts)
      IN  /\ b.input = NonNeg(i - c - w) * 1 /\ b.read = c * 1 /\ b.write = w * 1
          /\ b.output = NonNeg(o - r) * 1 + r * 1
  BY <1>3, <1>4 DEF CostBreakdown, Times, FirstRate
<1>6. /\ NonNeg(i - c - w) * 1 \in Int /\ c * 1 \in Int /\ w * 1 \in Int
      /\ NonNeg(o - r) * 1 + r * 1 \in Int
  BY <1>1 DEF NonNeg
<1>7. Cost(one, counts) = NonNeg(i - c - w) * 1 + c * 1 + w * 1 + (NonNeg(o - r) * 1 + r * 1)
  BY <1>4, <1>5, <1>6 DEF Cost
<1>8. Cost(one, counts) = i + o
  BY <1>1, <1>2, <1>7, PartsOfWholes
<1>9. i + o <= MaxInt64
  BY <1>1, <1>2, IngestAssumption DEF IngestAssumption
<1>10. counts.input = i /\ counts.output = o
  BY <1>3
<1>. QED
  BY <1>8, <1>9, <1>10 DEF counts

-----------------------------------------------------------------------------
(* Mappings over mappings, and the kinds of row by what maps them *)

Columns(s) == {s[i] : i \in DOMAIN s}

MetricNames == {"session_count", "lines_of_code", "pull_request", "commit", "cost_usage",
                "token_usage", "code_edit_decision", "active_time"}
Tier1Names  == {"user_prompt", "api_request", "api_error", "tool_result", "tool_decision"}
Tier2Names  == {"api_retries_exhausted", "compaction", "permission_mode_changed",
                "mcp_server_connection", "skill_activated", "at_mention"}
CodexNames  == {"conversation_starts", "codex_api_request", "codex_token_usage",
                "codex_user_prompt", "codex_tool_decision", "codex_tool_result"}
TelemetryNames == {"skill_invocation", "turn_cost"}
CodexMetricNames == {"skill_injected", "response_tbt", "turn_token_usage"}

Known(k) == k \in MetricNames \cup Tier1Names \cup Tier2Names \cup CodexNames \cup TelemetryNames
                  \cup CodexMetricNames

LEMMA OverDomain == \A f, g : DOMAIN (f ++ g) = DOMAIN f \cup DOMAIN g
BY DEF ++
LEMMA OverLeft == \A f, g : \A k \in DOMAIN f : (f ++ g)[k] = f[k]
BY DEF ++
LEMMA OverRight == \A f, g : \A k \in DOMAIN g : k \notin DOMAIN f => (f ++ g)[k] = g[k]
BY DEF ++

LEMMA Chain3 ==
  ASSUME NEW a, NEW b, NEW c, NEW m, m = a ++ b ++ c
  PROVE  /\ \A k : k \in DOMAIN m <=> k \in DOMAIN a \/ k \in DOMAIN b \/ k \in DOMAIN c
         /\ \A k \in DOMAIN a : m[k] = a[k]
         /\ \A k \in DOMAIN b : k \notin DOMAIN a => m[k] = b[k]
         /\ \A k \in DOMAIN c : k \notin DOMAIN a /\ k \notin DOMAIN b => m[k] = c[k]
BY DEF ++

LEMMA Chain6 ==
  ASSUME NEW a, NEW b, NEW c, NEW d, NEW e, NEW f, NEW m, m = a ++ b ++ c ++ d ++ e ++ f
  PROVE  /\ \A k : k \in DOMAIN m <=> \/ k \in DOMAIN a \/ k \in DOMAIN b \/ k \in DOMAIN c
                                      \/ k \in DOMAIN d \/ k \in DOMAIN e \/ k \in DOMAIN f
         /\ \A k \in DOMAIN a : m[k] = a[k]
         /\ \A k \in DOMAIN b : k \notin DOMAIN a => m[k] = b[k]
         /\ \A k \in DOMAIN c : k \notin DOMAIN a \cup DOMAIN b => m[k] = c[k]
         /\ \A k \in DOMAIN d : k \notin DOMAIN a \cup DOMAIN b \cup DOMAIN c => m[k] = d[k]
         /\ \A k \in DOMAIN e :
              k \notin DOMAIN a \cup DOMAIN b \cup DOMAIN c \cup DOMAIN d => m[k] = e[k]
         /\ \A k \in DOMAIN f :
              k \notin DOMAIN a \cup DOMAIN b \cup DOMAIN c \cup DOMAIN d \cup DOMAIN e
                => m[k] = f[k]
BY DEF ++

LEMMA MapDomains ==
  /\ DOMAIN MapMetric = MetricNames /\ DOMAIN MapEventTier1 = Tier1Names
  /\ DOMAIN MapEventTier2 = Tier2Names /\ DOMAIN MapCodexEvent = CodexNames
  /\ DOMAIN MapCodexTelemetry = TelemetryNames /\ DOMAIN MapCodexMetric = CodexMetricNames
<1>1. DOMAIN MapMetric = MetricNames
  BY DEF MapMetric, MetricNames
<1>2. DOMAIN MapEventTier1 = Tier1Names
  BY DEF MapEventTier1, Tier1Names
<1>3. DOMAIN MapEventTier2 = Tier2Names
  BY DEF MapEventTier2, Tier2Names
<1>4. DOMAIN MapCodexEvent = CodexNames
  BY DEF MapCodexEvent, CodexNames
<1>5. DOMAIN MapCodexTelemetry = TelemetryNames
  BY DEF MapCodexTelemetry, TelemetryNames
<1>6. DOMAIN MapCodexMetric = CodexMetricNames
  BY DEF MapCodexMetric, CodexMetricNames
<1>. QED
  BY <1>1, <1>2, <1>3, <1>4, <1>5, <1>6

LEMMA NamesApart ==
  /\ \A k \in Tier1Names : k \notin MetricNames
  /\ \A k \in Tier2Names : k \notin MetricNames \cup Tier1Names
  /\ \A k \in CodexNames : k \notin MetricNames \cup Tier1Names \cup Tier2Names
  /\ \A k \in TelemetryNames : k \notin MetricNames \cup Tier1Names \cup Tier2Names \cup CodexNames
  /\ \A k \in CodexMetricNames :
       k \notin MetricNames \cup Tier1Names \cup Tier2Names \cup CodexNames \cup TelemetryNames
BY DEF MetricNames, Tier1Names, Tier2Names, CodexNames, TelemetryNames, CodexMetricNames

LEMMA MapperOf ==
  /\ \A k \in MetricNames : Mapper[k] = CommonMetricCols \o MapMetric[k] \o Attrs
  /\ \A k \in Tier1Names : Mapper[k] = CommonEventCols \o MapEventTier1[k] \o Attrs
  /\ \A k \in Tier2Names : Mapper[k] = CommonEventCols \o MapEventTier2[k] \o Attrs
  /\ \A k \in CodexNames : Mapper[k] = CommonCodexEventCols \o MapCodexEvent[k] \o <<>>
  /\ \A k \in TelemetryNames : Mapper[k] = CommonCodexEventCols \o MapCodexTelemetry[k] \o Attrs
  /\ \A k \in CodexMetricNames : Mapper[k] = <<>> \o MapCodexMetric[k] \o Attrs
  /\ \A k : k \in Kinds <=> Known(k)
<1>. DEFINE tail(prefix, maps, rest) == [k \in DOMAIN maps |-> prefix \o maps[k] \o rest]
            a == tail(CommonMetricCols, MapMetric, Attrs)
            b == tail(CommonEventCols, MapEventTier1, Attrs)
            c == tail(CommonEventCols, MapEventTier2, Attrs)
            d == tail(CommonCodexEventCols, MapCodexEvent, <<>>)
            e == tail(CommonCodexEventCols, MapCodexTelemetry, Attrs)
            f == tail(<<>>, MapCodexMetric, Attrs)
<1>1. Mapper = a ++ b ++ c ++ d ++ e ++ f
  BY DEF Mapper
<1>2. /\ DOMAIN a = MetricNames /\ DOMAIN b = Tier1Names /\ DOMAIN c = Tier2Names
      /\ DOMAIN d = CodexNames /\ DOMAIN e = TelemetryNames /\ DOMAIN f = CodexMetricNames
  BY MapDomains
<1>3. /\ \A k \in MetricNames : a[k] = CommonMetricCols \o MapMetric[k] \o Attrs
      /\ \A k \in Tier1Names : b[k] = CommonEventCols \o MapEventTier1[k] \o Attrs
      /\ \A k \in Tier2Names : c[k] = CommonEventCols \o MapEventTier2[k] \o Attrs
      /\ \A k \in CodexNames : d[k] = CommonCodexEventCols \o MapCodexEvent[k] \o <<>>
      /\ \A k \in TelemetryNames : e[k] = CommonCodexEventCols \o MapCodexTelemetry[k] \o Attrs
      /\ \A k \in CodexMetricNames : f[k] = <<>> \o MapCodexMetric[k] \o Attrs
  BY MapDomains
<1>. HIDE DEF a, b, c, d, e, f
<1>4. /\ \A k : k \in DOMAIN Mapper <=> Known(k)
      /\ \A k \in MetricNames : Mapper[k] = a[k]
      /\ \A k \in Tier1Names : Mapper[k] = b[k]
      /\ \A k \in Tier2Names : Mapper[k] = c[k]
      /\ \A k \in CodexNames : Mapper[k] = d[k]
      /\ \A k \in TelemetryNames : Mapper[k] = e[k]
      /\ \A k \in CodexMetricNames : Mapper[k] = f[k]
  BY <1>1, <1>2, Chain6, NamesApart DEF Known
<1>. QED
  BY <1>3, <1>4 DEF Kinds

-----------------------------------------------------------------------------
(* Fields, columns and what a table insists on, kind by kind *)

LEMMA FieldIn == \A n, k, t, x : x \in DOMAIN Field(n, k, t) <=> x = n
BY DEF Field, Entry
LEMMA FieldsIn == \A names, t, x : x \in DOMAIN Fields(t, names) <=> x \in names
BY DEF Fields
LEMMA OverIn == \A f, g, x : x \in DOMAIN (f ++ g) <=> x \in DOMAIN f \/ x \in DOMAIN g
BY OverDomain

LEMMA CommonIn ==
  /\ \A x : x \in DOMAIN CommonAttrs <=>
       x \in {"session_id", "user_id", "user_account_uuid", "user_account_id", "user_email",
              "organization_id", "app_version", "terminal_type"}
  /\ \A x : x \in DOMAIN EventCommonAttrs <=>
       x \in DOMAIN CommonAttrs \/ x \in {"event_sequence", "prompt_id", "workspace_host_paths"}
  /\ \A x : x \in DOMAIN CodexCommonAttrs <=>
       x \in {"auth_mode", "originator", "model", "slug", "conversation_id", "app_version",
              "terminal_type", "user_account_id", "user_email"}
BY OverIn, FieldIn, FieldsIn DEF CommonAttrs, EventCommonAttrs, CodexCommonAttrs

\* The conversions, of which "list" is the one of workspace_host_paths alone.
Scalars == {"string", "int64", "int32", "float", "bool", "length"}
Converts(fields) ==
  \A f \in DOMAIN fields :
    IF f = "workspace_host_paths" THEN fields[f].kind = "list" ELSE fields[f].kind \in Scalars

LEMMA OverConverts == \A f, g : Converts(f) /\ Converts(g) => Converts(f ++ g)
BY DEF Converts, ++
LEMMA FieldConverts ==
  \A n, k, t : n # "workspace_host_paths" /\ t \in Scalars => Converts(Field(n, k, t))
BY DEF Converts, Field, Entry
LEMMA FieldsConvert ==
  \A names, t : "workspace_host_paths" \notin names /\ t \in Scalars => Converts(Fields(t, names))
BY DEF Converts, Fields
LEMMA NothingConverts == Converts(<<>>)
BY DEF Converts
LEMMA CommonConverts ==
  Converts(CommonAttrs) /\ Converts(EventCommonAttrs) /\ Converts(CodexCommonAttrs)
<1>1. Converts(Field("workspace_host_paths", "workspace.host_paths", "list"))
  BY DEF Converts, Field, Entry
<1>2. Converts(CommonAttrs)
  BY OverConverts, FieldConverts, FieldsConvert DEF CommonAttrs, Scalars
<1>3. Converts(EventCommonAttrs)
  BY <1>1, <1>2, OverConverts, FieldConverts, FieldsConvert DEF EventCommonAttrs, Scalars
<1>4. Converts(CodexCommonAttrs)
  BY OverConverts, FieldConverts, FieldsConvert DEF CodexCommonAttrs, Scalars
<1>. QED
  BY <1>2, <1>3, <1>4

\* What a table insists on, besides the identities of Required.
Insists(k) ==
  {"ts", "received_at"} \cup
  (IF k \in MetricNames \cup {"skill_injected"} THEN {"start_ts", "value"} ELSE {}) \cup
  (IF k = "skill_invocation" THEN {"turn_id", "invocation_type"} ELSE {}) \cup
  (IF k = "turn_cost" THEN {"turn_id", "estimated_usd"} ELSE {}) \cup
  (IF k = "response_tbt" THEN {"start_ts", "sample_count", "sum_ms"} ELSE {}) \cup
  (IF k = "turn_token_usage" THEN {"start_ts", "sample_count", "sum_tokens", "token_type"} ELSE {})

\* The columns of a list are those of the table, each field has one and so has the JSON value;
\* of the columns that insist on a value there are none but the given ones.
Fits(columns, created, fields, required) ==
  /\ columns = created
  /\ DOMAIN fields \cup {"attrs"} \subseteq Columns(columns)
  /\ Columns(columns) \cap NotNull \subseteq required

LEMMA MetricFits ==
  \A k \in MetricNames :
    Fits(CommonMetricCols \o MapMetric[k] \o Attrs, CreateMetricTables[k], MetricFields[k] ++ CommonAttrs, Insists(k))
<1>. USE OverIn, FieldIn, FieldsIn, CommonIn
     DEF Fits, Columns, NotNull, Insists, MetricNames, CommonMetricCols, IdentityCols, MapMetric, Attrs, CreateMetricTables,
         MetricFields, Extension
<1>1. Fits(CommonMetricCols \o MapMetric["session_count"] \o Attrs, CreateMetricTables["session_count"],
         MetricFields["session_count"] ++ CommonAttrs, Insists("session_count"))
  OBVIOUS
<1>2. Fits(CommonMetricCols \o MapMetric["lines_of_code"] \o Attrs, CreateMetricTables["lines_of_code"],
         MetricFields["lines_of_code"] ++ CommonAttrs, Insists("lines_of_code"))
  OBVIOUS
<1>3. Fits(CommonMetricCols \o MapMetric["pull_request"] \o Attrs, CreateMetricTables["pull_request"],
         MetricFields["pull_request"] ++ CommonAttrs, Insists("pull_request"))
  OBVIOUS
<1>4. Fits(CommonMetricCols \o MapMetric["commit"] \o Attrs, CreateMetricTables["commit"],
         MetricFields["commit"] ++ CommonAttrs, Insists("commit"))
  OBVIOUS
<1>5. Fits(CommonMetricCols \o MapMetric["cost_usage"] \o Attrs, CreateMetricTables["cost_usage"],
         MetricFields["cost_usage"] ++ CommonAttrs, Insists("cost_usage"))
  OBVIOUS
<1>6. Fits(CommonMetricCols \o MapMetric["token_usage"] \o Attrs, CreateMetricTables["token_usage"],
         MetricFields["token_usage"] ++ CommonAttrs, Insists("token_usage"))
  OBVIOUS
<1>7. Fits(CommonMetricCols \o MapMetric["code_edit_decision"] \o Attrs, CreateMetricTables["code_edit_decision"],
         MetricFields["code_edit_decision"] ++ CommonAttrs, Insists("code_edit_decision"))
  OBVIOUS
<1>8. Fits(CommonMetricCols \o MapMetric["active_time"] \o Attrs, CreateMetricTables["active_time"],
         MetricFields["active_time"] ++ CommonAttrs, Insists("active_time"))
  OBVIOUS
<1>. HIDE OverIn, FieldIn, FieldsIn, CommonIn
     DEF Fits, Columns, NotNull, Insists, MetricNames, CommonMetricCols, IdentityCols, MapMetric, Attrs, CreateMetricTables,
         MetricFields, Extension
<1>. QED
  BY <1>1, <1>2, <1>3, <1>4, <1>5, <1>6, <1>7, <1>8, Zenon DEF MetricNames

LEMMA Tier1Fits ==
  \A k \in Tier1Names :
    Fits(CommonEventCols \o MapEventTier1[k] \o Attrs, CreateEventTables[k], EventFieldsTier1[k] ++ EventCommonAttrs, Insists(k))
<1>. USE OverIn, FieldIn, FieldsIn, CommonIn
     DEF Fits, Columns, NotNull, Insists, MetricNames, CommonEventCols, IdentityCols, MapEventTier1, Attrs, CreateEventTables,
         EventFieldsTier1
<1>1. Fits(CommonEventCols \o MapEventTier1["user_prompt"] \o Attrs, CreateEventTables["user_prompt"],
         EventFieldsTier1["user_prompt"] ++ EventCommonAttrs, Insists("user_prompt"))
  OBVIOUS
<1>2. Fits(CommonEventCols \o MapEventTier1["api_request"] \o Attrs, CreateEventTables["api_request"],
         EventFieldsTier1["api_request"] ++ EventCommonAttrs, Insists("api_request"))
  OBVIOUS
<1>3. Fits(CommonEventCols \o MapEventTier1["api_error"] \o Attrs, CreateEventTables["api_error"],
         EventFieldsTier1["api_error"] ++ EventCommonAttrs, Insists("api_error"))
  OBVIOUS
<1>4. Fits(CommonEventCols \o MapEventTier1["tool_result"] \o Attrs, CreateEventTables["tool_result"],
         EventFieldsTier1["tool_result"] ++ EventCommonAttrs, Insists("tool_result"))
  OBVIOUS
<1>5. Fits(CommonEventCols \o MapEventTier1["tool_decision"] \o Attrs, CreateEventTables["tool_decision"],
         EventFieldsTier1["tool_decision"] ++ EventCommonAttrs, Insists("tool_decision"))
  OBVIOUS
<1>. HIDE OverIn, FieldIn, FieldsIn, CommonIn
     DEF Fits, Columns, NotNull, Insists, MetricNames, CommonEventCols, IdentityCols, MapEventTier1, Attrs, CreateEventTables,
         EventFieldsTier1
<1>. QED
  BY <1>1, <1>2, <1>3, <1>4, <1>5, Zenon DEF Tier1Names

LEMMA Tier2Fits ==
  \A k \in Tier2Names :
    Fits(CommonEventCols \o MapEventTier2[k] \o Attrs, CreateEventTables[k], EventFieldsTier2[k] ++ EventCommonAttrs, Insists(k))
<1>. USE OverIn, FieldIn, FieldsIn, CommonIn
     DEF Fits, Columns, NotNull, Insists, MetricNames, CommonEventCols, IdentityCols, MapEventTier2, Attrs, CreateEventTables,
         EventFieldsTier2
<1>1. Fits(CommonEventCols \o MapEventTier2["api_retries_exhausted"] \o Attrs, CreateEventTables["api_retries_exhausted"],
         EventFieldsTier2["api_retries_exhausted"] ++ EventCommonAttrs, Insists("api_retries_exhausted"))
  OBVIOUS
<1>2. Fits(CommonEventCols \o MapEventTier2["compaction"] \o Attrs, CreateEventTables["compaction"],
         EventFieldsTier2["compaction"] ++ EventCommonAttrs, Insists("compaction"))
  OBVIOUS
<1>3. Fits(CommonEventCols \o MapEventTier2["permission_mode_changed"] \o Attrs, CreateEventTables["permission_mode_changed"],
         EventFieldsTier2["permission_mode_changed"] ++ EventCommonAttrs, Insists("permission_mode_changed"))
  OBVIOUS
<1>4. Fits(CommonEventCols \o MapEventTier2["mcp_server_connection"] \o Attrs, CreateEventTables["mcp_server_connection"],
         EventFieldsTier2["mcp_server_connection"] ++ EventCommonAttrs, Insists("mcp_server_connection"))
  OBVIOUS
<1>5. Fits(CommonEventCols \o MapEventTier2["skill_activated"] \o Attrs, CreateEventTables["skill_activated"],
         EventFieldsTier2["skill_activated"] ++ EventCommonAttrs, Insists("skill_activated"))
  OBVIOUS
<1>6. Fits(CommonEventCols \o MapEventTier2["at_mention"] \o Attrs, CreateEventTables["at_mention"],
         EventFieldsTier2["at_mention"] ++ EventCommonAttrs, Insists("at_mention"))
  OBVIOUS
<1>. HIDE OverIn, FieldIn, FieldsIn, CommonIn
     DEF Fits, Columns, NotNull, Insists, MetricNames, CommonEventCols, IdentityCols, MapEventTier2, Attrs, CreateEventTables,
         EventFieldsTier2
<1>. QED
  BY <1>1, <1>2, <1>3, <1>4, <1>5, <1>6, Zenon DEF Tier2Names

LEMMA CodexFits ==
  \A k \in CodexNames :
    Fits(CommonCodexEventCols \o MapCodexEvent[k] \o <<>>, CreateCodexTables[k], CodexEventFields[k] ++ CodexCommonAttrs, Insists(k))
<1>. USE OverIn, FieldIn, FieldsIn, CommonIn
     DEF Fits, Columns, NotNull, Insists, MetricNames, CommonCodexEventCols, CodexCommonAttrCols, MapCodexEvent, Attrs, CreateCodexTables,
         CodexEventFields
<1>1. Fits(CommonCodexEventCols \o MapCodexEvent["conversation_starts"] \o <<>>, CreateCodexTables["conversation_starts"],
         CodexEventFields["conversation_starts"] ++ CodexCommonAttrs, Insists("conversation_starts"))
  OBVIOUS
<1>2. Fits(CommonCodexEventCols \o MapCodexEvent["codex_api_request"] \o <<>>, CreateCodexTables["codex_api_request"],
         CodexEventFields["codex_api_request"] ++ CodexCommonAttrs, Insists("codex_api_request"))
  OBVIOUS
<1>3. Fits(CommonCodexEventCols \o MapCodexEvent["codex_token_usage"] \o <<>>, CreateCodexTables["codex_token_usage"],
         CodexEventFields["codex_token_usage"] ++ CodexCommonAttrs, Insists("codex_token_usage"))
  OBVIOUS
<1>4. Fits(CommonCodexEventCols \o MapCodexEvent["codex_user_prompt"] \o <<>>, CreateCodexTables["codex_user_prompt"],
         CodexEventFields["codex_user_prompt"] ++ CodexCommonAttrs, Insists("codex_user_prompt"))
  OBVIOUS
<1>5. Fits(CommonCodexEventCols \o MapCodexEvent["codex_tool_decision"] \o <<>>, CreateCodexTables["codex_tool_decision"],
         CodexEventFields["codex_tool_decision"] ++ CodexCommonAttrs, Insists("codex_tool_decision"))
  OBVIOUS
<1>6. Fits(CommonCodexEventCols \o MapCodexEvent["codex_tool_result"] \o <<>>, CreateCodexTables["codex_tool_result"],
         CodexEventFields["codex_tool_result"] ++ CodexCommonAttrs, Insists("codex_tool_result"))
  OBVIOUS
<1>. HIDE OverIn, FieldIn, FieldsIn, CommonIn
     DEF Fits, Columns, NotNull, Insists, MetricNames, CommonCodexEventCols, CodexCommonAttrCols, MapCodexEvent, Attrs, CreateCodexTables,
         CodexEventFields
<1>. QED
  BY <1>1, <1>2, <1>3, <1>4, <1>5, <1>6, Zenon DEF CodexNames

LEMMA TelemetryFits ==
  \A k \in TelemetryNames :
    Fits(CommonCodexEventCols \o MapCodexTelemetry[k] \o Attrs, CreateCodexTables[k], CodexTelemetryFields[k] ++ CodexCommonAttrs, Insists(k))
<1>. USE OverIn, FieldIn, FieldsIn, CommonIn
     DEF Fits, Columns, NotNull, Insists, MetricNames, CommonCodexEventCols, CodexCommonAttrCols, MapCodexTelemetry, Attrs, CreateCodexTables,
         CodexTelemetryFields
<1>1. Fits(CommonCodexEventCols \o MapCodexTelemetry["skill_invocation"] \o Attrs, CreateCodexTables["skill_invocation"],
         CodexTelemetryFields["skill_invocation"] ++ CodexCommonAttrs, Insists("skill_invocation"))
  OBVIOUS
<1>2. Fits(CommonCodexEventCols \o MapCodexTelemetry["turn_cost"] \o Attrs, CreateCodexTables["turn_cost"],
         CodexTelemetryFields["turn_cost"] ++ CodexCommonAttrs, Insists("turn_cost"))
  OBVIOUS
<1>. HIDE OverIn, FieldIn, FieldsIn, CommonIn
     DEF Fits, Columns, NotNull, Insists, MetricNames, CommonCodexEventCols, CodexCommonAttrCols, MapCodexTelemetry, Attrs, CreateCodexTables,
         CodexTelemetryFields
<1>. QED
  BY <1>1, <1>2, Zenon DEF TelemetryNames

LEMMA CodexMetricFits ==
  \A k \in CodexMetricNames :
    Fits(<<>> \o MapCodexMetric[k] \o Attrs, CreateCodexTables[k], CodexTelemetryFields[k] ++ CodexCommonAttrs, Insists(k))
<1>. USE OverIn, FieldIn, FieldsIn, CommonIn
     DEF Fits, Columns, NotNull, Insists, MetricNames, CommonCodexMetricCols, CodexCommonAttrCols, MapCodexMetric, Attrs, CreateCodexTables,
         CodexTelemetryFields
<1>1. Fits(<<>> \o MapCodexMetric["skill_injected"] \o Attrs, CreateCodexTables["skill_injected"],
         CodexTelemetryFields["skill_injected"] ++ CodexCommonAttrs, Insists("skill_injected"))
  OBVIOUS
<1>2. Fits(<<>> \o MapCodexMetric["response_tbt"] \o Attrs, CreateCodexTables["response_tbt"],
         CodexTelemetryFields["response_tbt"] ++ CodexCommonAttrs, Insists("response_tbt"))
  OBVIOUS
<1>3. Fits(<<>> \o MapCodexMetric["turn_token_usage"] \o Attrs, CreateCodexTables["turn_token_usage"],
         CodexTelemetryFields["turn_token_usage"] ++ CodexCommonAttrs, Insists("turn_token_usage"))
  OBVIOUS
<1>. HIDE OverIn, FieldIn, FieldsIn, CommonIn
     DEF Fits, Columns, NotNull, Insists, MetricNames, CommonCodexMetricCols, CodexCommonAttrCols, MapCodexMetric, Attrs, CreateCodexTables,
         CodexTelemetryFields
<1>. QED
  BY <1>1, <1>2, <1>3, Zenon DEF CodexMetricNames

LEMMA MetricConverts == \A k \in MetricNames : Converts(MetricFields[k])
<1>. USE OverConverts, FieldConverts, FieldsConvert, NothingConverts DEF MetricFields, Extension, Scalars
<1>1. Converts(MetricFields["session_count"])
  OBVIOUS
<1>2. Converts(MetricFields["lines_of_code"])
  OBVIOUS
<1>3. Converts(MetricFields["pull_request"])
  OBVIOUS
<1>4. Converts(MetricFields["commit"])
  OBVIOUS
<1>5. Converts(MetricFields["cost_usage"])
  OBVIOUS
<1>6. Converts(MetricFields["token_usage"])
  OBVIOUS
<1>7. Converts(MetricFields["code_edit_decision"])
  OBVIOUS
<1>8. Converts(MetricFields["active_time"])
  OBVIOUS
<1>. HIDE OverConverts, FieldConverts, FieldsConvert, NothingConverts DEF MetricFields, Extension, Scalars
<1>. QED
  BY <1>1, <1>2, <1>3, <1>4, <1>5, <1>6, <1>7, <1>8, Zenon DEF MetricNames

LEMMA Tier1Converts == \A k \in Tier1Names : Converts(EventFieldsTier1[k])
<1>. USE OverConverts, FieldConverts, FieldsConvert, NothingConverts DEF EventFieldsTier1, Scalars
<1>1. Converts(EventFieldsTier1["user_prompt"])
  OBVIOUS
<1>2. Converts(EventFieldsTier1["api_request"])
  OBVIOUS
<1>3. Converts(EventFieldsTier1["api_error"])
  OBVIOUS
<1>4. Converts(EventFieldsTier1["tool_result"])
  OBVIOUS
<1>5. Converts(EventFieldsTier1["tool_decision"])
  OBVIOUS
<1>. HIDE OverConverts, FieldConverts, FieldsConvert, NothingConverts DEF EventFieldsTier1, Scalars
<1>. QED
  BY <1>1, <1>2, <1>3, <1>4, <1>5, Zenon DEF Tier1Names

LEMMA Tier2Converts == \A k \in Tier2Names : Converts(EventFieldsTier2[k])
<1>. USE OverConverts, FieldConverts, FieldsConvert, NothingConverts DEF EventFieldsTier2, Scalars
<1>1. Converts(EventFieldsTier2["api_retries_exhausted"])
  OBVIOUS
<1>2. Converts(EventFieldsTier2["compaction"])
  OBVIOUS
<1>3. Converts(EventFieldsTier2["permission_mode_changed"])
  OBVIOUS
<1>4. Converts(EventFieldsTier2["mcp_server_connection"])
  OBVIOUS
<1>5. Converts(EventFieldsTier2["skill_activated"])
  OBVIOUS
<1>6. Converts(EventFieldsTier2["at_mention"])
  OBVIOUS
<1>. HIDE OverConverts, FieldConverts, FieldsConvert, NothingConverts DEF EventFieldsTier2, Scalars
<1>. QED
  BY <1>1, <1>2, <1>3, <1>4, <1>5, <1>6, Zenon DEF Tier2Names

LEMMA CodexConverts == \A k \in CodexNames : Converts(CodexEventFields[k])
<1>. USE OverConverts, FieldConverts, FieldsConvert, NothingConverts DEF CodexEventFields, Scalars
<1>1. Converts(CodexEventFields["conversation_starts"])
  OBVIOUS
<1>2. Converts(CodexEventFields["codex_api_request"])
  OBVIOUS
<1>3. Converts(CodexEventFields["codex_token_usage"])
  OBVIOUS
<1>4. Converts(CodexEventFields["codex_user_prompt"])
  OBVIOUS
<1>5. Converts(CodexEventFields["codex_tool_decision"])
  OBVIOUS
<1>6. Converts(CodexEventFields["codex_tool_result"])
  OBVIOUS
<1>. HIDE OverConverts, FieldConverts, FieldsConvert, NothingConverts DEF CodexEventFields, Scalars
<1>. QED
  BY <1>1, <1>2, <1>3, <1>4, <1>5, <1>6, Zenon DEF CodexNames

LEMMA TelemetryConverts == \A k \in TelemetryNames : Converts(CodexTelemetryFields[k])
<1>. USE OverConverts, FieldConverts, FieldsConvert, NothingConverts DEF CodexTelemetryFields, Scalars
<1>1. Converts(CodexTelemetryFields["skill_invocation"])
  OBVIOUS
<1>2. Converts(CodexTelemetryFields["turn_cost"])
  OBVIOUS
<1>. HIDE OverConverts, FieldConverts, FieldsConvert, NothingConverts DEF CodexTelemetryFields, Scalars
<1>. QED
  BY <1>1, <1>2, Zenon DEF TelemetryNames

LEMMA CodexMetricConverts == \A k \in CodexMetricNames : Converts(CodexTelemetryFields[k])
<1>. USE OverConverts, FieldConverts, FieldsConvert, NothingConverts DEF CodexTelemetryFields, Scalars
<1>1. Converts(CodexTelemetryFields["skill_injected"])
  OBVIOUS
<1>2. Converts(CodexTelemetryFields["response_tbt"])
  OBVIOUS
<1>3. Converts(CodexTelemetryFields["turn_token_usage"])
  OBVIOUS
<1>. HIDE OverConverts, FieldConverts, FieldsConvert, NothingConverts DEF CodexTelemetryFields, Scalars
<1>. QED
  BY <1>1, <1>2, <1>3, Zenon DEF CodexMetricNames

LEMMA Chain4 ==
  ASSUME NEW a, NEW b, NEW c, NEW d, NEW m, m = a ++ b ++ c ++ d
  PROVE  /\ \A k : k \in DOMAIN m <=> \/ k \in DOMAIN a \/ k \in DOMAIN b \/ k \in DOMAIN c
                                      \/ k \in DOMAIN d
         /\ \A k \in DOMAIN a : m[k] = a[k]
         /\ \A k \in DOMAIN b : k \notin DOMAIN a => m[k] = b[k]
         /\ \A k \in DOMAIN c : k \notin DOMAIN a \cup DOMAIN b => m[k] = c[k]
         /\ \A k \in DOMAIN d : k \notin DOMAIN a \cup DOMAIN b \cup DOMAIN c => m[k] = d[k]
BY DEF ++

LEMMA TablesOf ==
  /\ \A k \in MetricNames : Tables[k] = CreateMetricTables[k]
  /\ \A k \in Tier1Names \cup Tier2Names : Tables[k] = CreateEventTables[k]
  /\ \A k \in CodexNames \cup TelemetryNames \cup CodexMetricNames : Tables[k] = CreateCodexTables[k]
<1>1. DOMAIN CreateMetricTables = MetricNames
  BY DEF CreateMetricTables, MetricNames
<1>2. DOMAIN CreateEventTables = Tier1Names \cup Tier2Names
  BY DEF CreateEventTables, Tier1Names, Tier2Names
<1>3. DOMAIN CreateCodexTables = CodexNames \cup TelemetryNames \cup CodexMetricNames
  BY DEF CreateCodexTables, CodexNames, TelemetryNames, CodexMetricNames
<1>. QED
  BY <1>1, <1>2, <1>3, Chain3, NamesApart DEF Tables

LEMMA FieldDomains ==
  /\ DOMAIN MetricFields = MetricNames /\ DOMAIN EventFieldsTier1 = Tier1Names
  /\ DOMAIN EventFieldsTier2 = Tier2Names /\ DOMAIN CodexEventFields = CodexNames
  /\ DOMAIN CodexTelemetryFields = TelemetryNames \cup CodexMetricNames
<1>1. DOMAIN MetricFields = MetricNames
  BY DEF MetricFields, MetricNames
<1>2. DOMAIN EventFieldsTier1 = Tier1Names
  BY DEF EventFieldsTier1, Tier1Names
<1>3. DOMAIN EventFieldsTier2 = Tier2Names
  BY DEF EventFieldsTier2, Tier2Names
<1>4. DOMAIN CodexEventFields = CodexNames
  BY DEF CodexEventFields, CodexNames
<1>5. DOMAIN CodexTelemetryFields = TelemetryNames \cup CodexMetricNames
  BY DEF CodexTelemetryFields, TelemetryNames, CodexMetricNames
<1>. QED
  BY <1>1, <1>2, <1>3, <1>4, <1>5

LEMMA EventFieldsOf ==
  /\ \A k : k \in DOMAIN EventFields <=> k \in Tier1Names \/ k \in Tier2Names
  /\ \A k \in Tier1Names : EventFields[k] = EventFieldsTier1[k]
  /\ \A k \in Tier2Names : EventFields[k] = EventFieldsTier2[k]
BY OverIn, OverLeft, OverRight, FieldDomains, NamesApart DEF EventFields

LEMMA FieldsOfKinds ==
  /\ \A k \in MetricNames : FieldsOf[k] = MetricFields[k] ++ CommonAttrs
  /\ \A k \in Tier1Names : FieldsOf[k] = EventFieldsTier1[k] ++ EventCommonAttrs
  /\ \A k \in Tier2Names : FieldsOf[k] = EventFieldsTier2[k] ++ EventCommonAttrs
  /\ \A k \in CodexNames : FieldsOf[k] = CodexEventFields[k] ++ CodexCommonAttrs
  /\ \A k \in TelemetryNames \cup CodexMetricNames :
       FieldsOf[k] = CodexTelemetryFields[k] ++ CodexCommonAttrs
<1>. DEFINE own == MetricFields ++ EventFields ++ CodexEventFields ++ CodexTelemetryFields
<1>1. \A k \in Kinds : FieldsOf[k] = own[k] ++
         (IF k \in DOMAIN MetricFields THEN CommonAttrs
          ELSE IF k \in DOMAIN EventFields THEN EventCommonAttrs ELSE CodexCommonAttrs)
  BY DEF FieldsOf
<1>2. /\ \A k \in MetricNames : own[k] = MetricFields[k]
      /\ \A k \in Tier1Names \cup Tier2Names : own[k] = EventFields[k]
      /\ \A k \in CodexNames : own[k] = CodexEventFields[k]
      /\ \A k \in TelemetryNames \cup CodexMetricNames : own[k] = CodexTelemetryFields[k]
  BY Chain4, FieldDomains, EventFieldsOf, NamesApart
<1>. HIDE DEF own
<1>3. \A k \in Kinds :
       /\ k \in DOMAIN MetricFields => FieldsOf[k] = own[k] ++ CommonAttrs
       /\ k \notin DOMAIN MetricFields /\ k \in DOMAIN EventFields => FieldsOf[k] = own[k] ++ EventCommonAttrs
       /\ k \notin DOMAIN MetricFields /\ k \notin DOMAIN EventFields => FieldsOf[k] = own[k] ++ CodexCommonAttrs
  BY <1>1
<1>4. \A k : Known(k) => k \in Kinds
  BY MapperOf
<1>. QED
  BY <1>2, <1>3, <1>4, EventFieldsOf, FieldDomains, NamesApart DEF Known

\* The two lists of a kind agree, and what the parsers have for it goes into its columns.
SchemaOK(k) ==
  /\ Fits(Mapper[k], Tables[k], FieldsOf[k], Insists(k))
  /\ Converts(FieldsOf[k])

LEMMA SchemaOf == \A k \in Kinds : SchemaOK(k)
<1>1. \A k \in MetricNames : SchemaOK(k)
  <2>. TAKE k \in MetricNames
  <2>1. Mapper[k] = CommonMetricCols \o MapMetric[k] \o Attrs
    BY MapperOf, Zenon
  <2>2. Tables[k] = CreateMetricTables[k] /\ FieldsOf[k] = MetricFields[k] ++ CommonAttrs
    BY TablesOf, FieldsOfKinds, Zenon
  <2>. QED
    BY <2>1, <2>2, MetricFits, MetricConverts, CommonConverts, OverConverts, Zenon DEF SchemaOK
<1>2. \A k \in Tier1Names : SchemaOK(k)
  <2>. TAKE k \in Tier1Names
  <2>1. Mapper[k] = CommonEventCols \o MapEventTier1[k] \o Attrs
    BY MapperOf, Zenon
  <2>2. Tables[k] = CreateEventTables[k] /\ FieldsOf[k] = EventFieldsTier1[k] ++ EventCommonAttrs
    BY TablesOf, FieldsOfKinds, Zenon
  <2>. QED
    BY <2>1, <2>2, Tier1Fits, Tier1Converts, CommonConverts, OverConverts, Zenon DEF SchemaOK
<1>3. \A k \in Tier2Names : SchemaOK(k)
  <2>. TAKE k \in Tier2Names
  <2>1. Mapper[k] = CommonEventCols \o MapEventTier2[k] \o Attrs
    BY MapperOf, Zenon
  <2>2. Tables[k] = CreateEventTables[k] /\ FieldsOf[k] = EventFieldsTier2[k] ++ EventCommonAttrs
    BY TablesOf, FieldsOfKinds, Zenon
  <2>. QED
    BY <2>1, <2>2, Tier2Fits, Tier2Converts, CommonConverts, OverConverts, Zenon DEF SchemaOK
<1>4. \A k \in CodexNames : SchemaOK(k)
  <2>. TAKE k \in CodexNames
  <2>1. Mapper[k] = CommonCodexEventCols \o MapCodexEvent[k] \o <<>>
    BY MapperOf, Zenon
  <2>2. Tables[k] = CreateCodexTables[k] /\ FieldsOf[k] = CodexEventFields[k] ++ CodexCommonAttrs
    BY TablesOf, FieldsOfKinds, Zenon
  <2>. QED
    BY <2>1, <2>2, CodexFits, CodexConverts, CommonConverts, OverConverts, Zenon DEF SchemaOK
<1>5. \A k \in TelemetryNames : SchemaOK(k)
  <2>. TAKE k \in TelemetryNames
  <2>1. Mapper[k] = CommonCodexEventCols \o MapCodexTelemetry[k] \o Attrs
    BY MapperOf, Zenon
  <2>2. Tables[k] = CreateCodexTables[k] /\ FieldsOf[k] = CodexTelemetryFields[k] ++ CodexCommonAttrs
    BY TablesOf, FieldsOfKinds, Zenon
  <2>. QED
    BY <2>1, <2>2, TelemetryFits, TelemetryConverts, CommonConverts, OverConverts, Zenon
       DEF SchemaOK
<1>6. \A k \in CodexMetricNames : SchemaOK(k)
  <2>. TAKE k \in CodexMetricNames
  <2>1. Mapper[k] = <<>> \o MapCodexMetric[k] \o Attrs
    BY MapperOf, Zenon
  <2>2. Tables[k] = CreateCodexTables[k] /\ FieldsOf[k] = CodexTelemetryFields[k] ++ CodexCommonAttrs
    BY TablesOf, FieldsOfKinds, Zenon
  <2>. QED
    BY <2>1, <2>2, CodexMetricFits, CodexMetricConverts, CommonConverts, OverConverts, Zenon
       DEF SchemaOK
<1>. QED
  BY <1>1, <1>2, <1>3, <1>4, <1>5, <1>6, MapperOf DEF Known

\* The appender goes by position, and for every kind of row the list of the mapper and the one
\* of the migrations agree: whatever the row, each value arrives in the column of its name.
THEOREM ArrivesInItsColumn ==
  ASSUME NEW k \in Kinds, NEW row
  PROVE  /\ DOMAIN Stored(k, row) = Columns(Tables[k])
         /\ DOMAIN Position[k] = Columns(Tables[k])
         /\ \A c \in Columns(Tables[k]) : Stored(k, row)[c] = Laid(row[c])
<1>1. Mapper[k] = Tables[k]
  BY SchemaOf, Zenon DEF SchemaOK, Fits
<1>2. Position[k] = [c \in Columns(Tables[k]) |-> CHOOSE i \in DOMAIN Tables[k] : Tables[k][i] = c]
  BY DEF Position, Columns
<1>3. DOMAIN Position[k] = Columns(Tables[k])
  BY <1>2
<1>4. ASSUME NEW c \in Columns(Tables[k])
      PROVE  Tables[k][Position[k][c]] = c
  <2>1. \E i \in DOMAIN Tables[k] : Tables[k][i] = c
    BY DEF Columns
  <2>2. Position[k][c] = CHOOSE i \in DOMAIN Tables[k] : Tables[k][i] = c
    BY <1>2
  <2>. QED
    BY <2>1, <2>2
<1>5. DOMAIN Stored(k, row) = Columns(Tables[k])
  BY <1>3 DEF Stored
<1>6. ASSUME NEW c \in Columns(Tables[k])
      PROVE  Stored(k, row)[c] = Laid(row[c])
  <2>1. Stored(k, row)[c] = Laid(row[Mapper[k][Position[k][c]]])
    BY <1>3 DEF Stored
  <2>. QED
    BY <1>1, <1>4, <2>1
<1>. QED
  BY <1>3, <1>5, <1>6

-----------------------------------------------------------------------------
(* Attributes: what is sent, what a field takes of it and what is left *)

Sent == [type : WireTypes, n : Int]
Plain == [type : WireTypes \ {"list"}, n : Int]

LEMMA LowInt == \A n \in Int : Low32(n) \in Int
<1>1. 2 * Half32 \in Int /\ 2 * Half32 > 0
  BY SchemaAssumption DEF SchemaAssumption
<1>2. \A n \in Int : (n + Half32) % (2 * Half32) \in Int
  BY <1>1, SchemaAssumption DEF SchemaAssumption
<1>. QED
  BY <1>2, SchemaAssumption DEF SchemaAssumption, Low32

LEMMA TakenOf ==
  ASSUME NEW v \in Sent, NEW kind \in Scalars \cup {"list"}
  PROVE  /\ Taken(v, kind) \in Sent \cup {Null}
         /\ kind \in Scalars => Taken(v, kind) \in Plain \cup {Null}
         /\ kind \in {"string", "length"} => Taken(v, kind) \in Plain
<1>1. AsString(v) \in Plain
  BY DEF AsString, Sent, Plain, WireTypes
<1>2. CASE kind = "string"
  BY <1>1, <1>2 DEF Taken, Sent, Plain
<1>3. CASE kind = "length"
  BY <1>1, <1>3 DEF Taken, Sent, Plain, WireTypes
<1>4. CASE kind = "int32"
  BY <1>4, LowInt DEF Taken, Sent, Plain, WireTypes
<1>5. CASE kind \in {"int64", "float", "bool"}
  BY <1>5 DEF Taken, Sent, Plain, WireTypes
<1>6. CASE kind = "list"
  BY <1>6 DEF Taken, Sent, Plain, WireTypes, Scalars
<1>. QED
  BY <1>2, <1>3, <1>4, <1>5, <1>6 DEF Scalars

LEMMA TakeOf ==
  ASSUME NEW fields, Converts(fields), NEW attrs, Attributes(attrs)
  PROVE  LET t == Take(fields, attrs)
         IN  /\ DOMAIN t = DOMAIN fields
             /\ \A f \in DOMAIN fields : t[f] \in Sent \cup {Null}
             /\ \A f \in DOMAIN fields : f # "workspace_host_paths" => t[f] \in Plain \cup {Null}
<1>1. DOMAIN Take(fields, attrs) = DOMAIN fields
  BY DEF Take
<1>2. ASSUME NEW f \in DOMAIN fields
      PROVE  /\ Take(fields, attrs)[f] \in Sent \cup {Null}
             /\ f # "workspace_host_paths" => Take(fields, attrs)[f] \in Plain \cup {Null}
  <2>1. CASE fields[f].key \notin DOMAIN attrs
    <3>1. Take(fields, attrs)[f] = Null
      BY <2>1 DEF Take
    <3>. QED
      BY <3>1
  <2>2. CASE fields[f].key \in DOMAIN attrs
    <3>1. attrs[fields[f].key] \in Sent
      BY <2>2 DEF Attributes, Sent
    <3>2. Take(fields, attrs)[f] = Taken(attrs[fields[f].key], fields[f].kind)
      BY <2>2 DEF Take
    <3>3. /\ fields[f].kind \in Scalars \cup {"list"}
          /\ f # "workspace_host_paths" => fields[f].kind \in Scalars
      BY DEF Converts
    <3>. QED
      BY <3>1, <3>2, <3>3, TakenOf, Zenon
  <2>. QED
    BY <2>1, <2>2
<1>. QED
  BY <1>1, <1>2

LEMMA AttributesLeft ==
  ASSUME NEW attrs, Attributes(attrs), NEW keys
  PROVE  Attributes(Without(attrs, keys))
BY DEF Attributes, Without

LEMMA AttributesJoined ==
  ASSUME NEW r, NEW p, Attributes(r), Attributes(p)
  PROVE  Attributes(NewAttrMap(r, p))
BY DEF Attributes, NewAttrMap, ++

-----------------------------------------------------------------------------
(* The columns of a row: times and counters, payload, fields *)

\* What a row has besides the fields of its attributes.
Marks    == {"ts", "received_at", "attrs"}
Payloads == {"start_ts", "value", "sample_count", "sum_ms", "sum_tokens"}
Extras   == {"usage_valid", "ttft_ms", "cost_usd"}

\* A row by the column: its marks, what comes from a point, what only usage has, its fields.
Parts(o, kind, ts, payload, fields, left) ==
  /\ o.kind = kind /\ o.left = left
  /\ DOMAIN o = {"kind", "row", "left"}
  /\ o.row["ts"] = Stamp(ts) /\ o.row["received_at"] = Stamp(Now)
  /\ o.row["attrs"] = IF DOMAIN left = {} THEN Null ELSE [type |-> "json", n |-> 0]
  /\ Marks \cup DOMAIN payload \cup DOMAIN fields \subseteq DOMAIN o.row
  /\ \A c \in DOMAIN payload : o.row[c] = payload[c]
  /\ \A c \in DOMAIN fields : c \notin Marks \cup Payloads \cup Extras => o.row[c] = fields[c]
  /\ kind # "codex_token_usage" => \A c \in DOMAIN o.row :
       c \in Marks \/ c \in DOMAIN payload \/ (c \in DOMAIN fields /\ o.row[c] = fields[c])
  /\ kind = "codex_token_usage" =>
       /\ \A c \in DOMAIN o.row :
            \/ c \in Marks \/ c \in Extras \/ c \in DOMAIN payload
            \/ c \in DOMAIN fields /\ o.row[c] = fields[c]
       /\ o.row["usage_valid"] = [type |-> "bool", n |-> IF ValidUsage(fields) THEN 1 ELSE 0]
       /\ o.row["ttft_ms"] = IF fields["ttft_ms"].n < 0 THEN Null ELSE fields["ttft_ms"]
       /\ o.row["cost_usd"] = Null
       /\ Extras \subseteq DOMAIN o.row

LEMMA RowParts ==
  ASSUME NEW kind, NEW ts, NEW payload, DOMAIN payload \subseteq Payloads, NEW fields, NEW left
  PROVE  Parts(RowOf(kind, ts, payload, fields, left), kind, ts, payload, fields, left)
<1>. DEFINE o == RowOf(kind, ts, payload, fields, left)
            common == [ts |-> Stamp(ts), received_at |-> Stamp(Now),
                       attrs |-> IF DOMAIN left = {} THEN Null ELSE [type |-> "json", n |-> 0]]
            usage  == IF kind # "codex_token_usage" THEN <<>>
                      ELSE [usage_valid |-> [type |-> "bool", n |-> IF ValidUsage(fields) THEN 1 ELSE 0],
                            ttft_ms     |-> IF fields["ttft_ms"].n < 0 THEN Null ELSE fields["ttft_ms"],
                            cost_usd    |-> Null]
<1>1. o = [kind |-> kind, row |-> usage ++ common ++ payload ++ fields, left |-> left]
  BY DEF RowOf
<1>2. /\ DOMAIN common = Marks
      /\ common["ts"] = Stamp(ts) /\ common["received_at"] = Stamp(Now)
      /\ common["attrs"] = IF DOMAIN left = {} THEN Null ELSE [type |-> "json", n |-> 0]
  BY DEF Marks
<1>3. kind # "codex_token_usage" => DOMAIN usage = {}
  OBVIOUS
<1>4. kind = "codex_token_usage" =>
        /\ DOMAIN usage = Extras
        /\ usage["usage_valid"] = [type |-> "bool", n |-> IF ValidUsage(fields) THEN 1 ELSE 0]
        /\ usage["ttft_ms"] = IF fields["ttft_ms"].n < 0 THEN Null ELSE fields["ttft_ms"]
        /\ usage["cost_usd"] = Null
  BY DEF Extras
<1>. HIDE DEF common, usage, o
<1>. DEFINE row == usage ++ common ++ payload ++ fields
<1>5. o.row = row /\ o.kind = kind /\ o.left = left /\ DOMAIN o = {"kind", "row", "left"}
  BY <1>1
<1>6. /\ \A c : c \in DOMAIN row <=> \/ c \in DOMAIN usage \/ c \in DOMAIN common
                                     \/ c \in DOMAIN payload \/ c \in DOMAIN fields
      /\ \A c \in DOMAIN usage : row[c] = usage[c]
      /\ \A c \in DOMAIN common : c \notin DOMAIN usage => row[c] = common[c]
      /\ \A c \in DOMAIN payload : c \notin DOMAIN usage \cup DOMAIN common => row[c] = payload[c]
      /\ \A c \in DOMAIN fields :
           c \notin DOMAIN usage \cup DOMAIN common \cup DOMAIN payload => row[c] = fields[c]
  BY Chain4
<1>. HIDE DEF row
<1>7. /\ \A c \in Marks : c \notin Extras /\ c \notin Payloads
      /\ \A c \in Extras : c \notin Payloads
      /\ "ts" \in Marks /\ "received_at" \in Marks /\ "attrs" \in Marks
      /\ "usage_valid" \in Extras /\ "ttft_ms" \in Extras /\ "cost_usd" \in Extras
  BY DEF Marks, Payloads, Extras
<1>8. DOMAIN usage \subseteq Extras
  BY <1>3, <1>4
<1>9. /\ row["ts"] = Stamp(ts) /\ row["received_at"] = Stamp(Now)
      /\ row["attrs"] = IF DOMAIN left = {} THEN Null ELSE [type |-> "json", n |-> 0]
  BY <1>2, <1>6, <1>7, <1>8
<1>10. \A c \in DOMAIN payload : row[c] = payload[c]
  BY <1>2, <1>6, <1>7, <1>8
<1>11. \A c \in DOMAIN fields : c \notin Marks \cup Payloads \cup Extras => row[c] = fields[c]
  BY <1>2, <1>6, <1>7, <1>8
<1>12. kind # "codex_token_usage" => \A c \in DOMAIN row :
         c \in Marks \/ c \in DOMAIN payload \/ (c \in DOMAIN fields /\ row[c] = fields[c])
  BY <1>2, <1>3, <1>6
<1>13. kind = "codex_token_usage" =>
         /\ \A c \in DOMAIN row :
              c \in Marks \/ c \in Extras \/ c \in DOMAIN payload \/ (c \in DOMAIN fields /\ row[c] = fields[c])
         /\ row["usage_valid"] = [type |-> "bool", n |-> IF ValidUsage(fields) THEN 1 ELSE 0]
         /\ row["ttft_ms"] = IF fields["ttft_ms"].n < 0 THEN Null ELSE fields["ttft_ms"]
         /\ row["cost_usd"] = Null
         /\ Extras \subseteq DOMAIN row
  BY <1>2, <1>4, <1>6, <1>7
<1>14. Marks \cup DOMAIN payload \cup DOMAIN fields \subseteq DOMAIN row
  BY <1>2, <1>6
<1>. QED
  BY <1>14, <1>5, <1>9, <1>10, <1>11, <1>12, <1>13, Zenon DEF Parts, o

Identities(k) ==
  (IF k \in MetricNames \cup Tier1Names \cup Tier2Names THEN {"user_id"} ELSE {}) \cup
  (IF k = "skill_invocation" THEN {"turn_id", "skill_name", "invocation_type"} ELSE {}) \cup
  (IF k = "turn_cost" THEN {"turn_id", "estimated_usd"} ELSE {}) \cup
  (IF k = "turn_token_usage" THEN {"token_type"} ELSE {})

LEMMA RequiredOf ==
  ASSUME NEW k \in Kinds, NEW c \in Required(k) \cap Columns(Tables[k])
  PROVE  c \in {"ts", "received_at"} \/ c \in Insists(k) \cap Payloads \/ c \in Identities(k)
<1>1. Columns(Tables[k]) \cap NotNull \subseteq Insists(k)
  BY SchemaOf, Zenon DEF SchemaOK, Fits
<1>2. CASE c \in NotNull
  <2>1. c \in Insists(k)
    BY <1>1, <1>2
  <2>. QED
    BY <2>1 DEF Insists, Payloads, Identities
<1>3. CASE c \notin NotNull
  <2>1. \/ k \in DOMAIN (MapMetric ++ MapEventTier1 ++ MapEventTier2) /\ c = "user_id"
        \/ k = "skill_invocation" /\ c = "skill_name"
    BY <1>3 DEF Required
  <2>2. k \in DOMAIN (MapMetric ++ MapEventTier1 ++ MapEventTier2) =>
          k \in MetricNames \cup Tier1Names \cup Tier2Names
    BY OverIn, MapDomains
  <2>. QED
    BY <2>1, <2>2 DEF Identities
<1>. QED
  BY <1>2, <1>3

LEMMA SkillFields ==
  /\ {"turn_id", "skill_name", "invocation_type"} \subseteq DOMAIN FieldsOf["skill_invocation"]
  /\ FieldsOf["skill_invocation"]["invocation_type"] =
       [key |-> "skill.invocation_type", kind |-> "string"]
<1>. DEFINE a == Field("turn_id", "turn.id", "string")
            b == Field("skill_name", "skill.name", "string")
            c == Field("scope", "skill.scope", "string")
            d == Field("plugin_id", "skill.plugin_id", "string")
            e == Field("invocation_type", "skill.invocation_type", "string")
            own == a ++ b ++ c ++ d ++ e
<1>1. FieldsOf["skill_invocation"] = own ++ CodexCommonAttrs
  <2>1. CodexTelemetryFields["skill_invocation"] = own
    BY DEF CodexTelemetryFields
  <2>. HIDE DEF own
  <2>. QED
    BY <2>1, FieldsOfKinds DEF TelemetryNames
<1>2. e["invocation_type"] = [key |-> "skill.invocation_type", kind |-> "string"]
  BY DEF Field, Entry
<1>3. "turn_id" \in DOMAIN a /\ "skill_name" \in DOMAIN b /\ "invocation_type" \in DOMAIN e
  BY FieldIn
<1>4. "invocation_type" \notin DOMAIN (a ++ b ++ c ++ d)
  BY FieldIn, OverIn
<1>. DEFINE abcd == a ++ b ++ c ++ d
<1>5. own["invocation_type"] = e["invocation_type"]
  BY <1>3, <1>4, OverRight, Zenon
<1>6. "turn_id" \in DOMAIN own /\ "skill_name" \in DOMAIN own /\ "invocation_type" \in DOMAIN own
  BY <1>3, OverIn
<1>. HIDE DEF own
<1>. QED
  BY <1>1, <1>2, <1>5, <1>6, OverIn, OverLeft

LEMMA CostFields ==
  /\ {"turn_id", "estimated_usd"} \subseteq DOMAIN FieldsOf["turn_cost"]
  /\ FieldsOf["turn_cost"]["estimated_usd"] = [key |-> "usage.estimated_usd", kind |-> "string"]
<1>. DEFINE a == Fields("string", {"speed", "reasoning_effort"})
            b == Field("turn_id", "turn.id", "string")
            c == Field("estimated_usd", "usage.estimated_usd", "string")
            d == Field("interrupted", "turn.interrupted", "bool")
            abc == a ++ b ++ c
            own == abc ++ d
<1>1. FieldsOf["turn_cost"] = own ++ CodexCommonAttrs
  <2>1. CodexTelemetryFields["turn_cost"] = own
    BY DEF CodexTelemetryFields
  <2>. HIDE DEF own
  <2>. QED
    BY <2>1, FieldsOfKinds DEF TelemetryNames
<1>2. c["estimated_usd"] = [key |-> "usage.estimated_usd", kind |-> "string"]
  BY DEF Field, Entry
<1>3. "turn_id" \in DOMAIN b /\ "estimated_usd" \in DOMAIN c
  BY FieldIn
<1>4. "estimated_usd" \notin DOMAIN (a ++ b)
  BY FieldIn, FieldsIn, OverIn
<1>5. abc["estimated_usd"] = c["estimated_usd"]
  BY <1>3, <1>4, OverRight, Zenon
<1>6. "turn_id" \in DOMAIN abc /\ "estimated_usd" \in DOMAIN abc
  BY <1>3, OverIn
<1>. HIDE DEF abc
<1>7. /\ own["estimated_usd"] = c["estimated_usd"]
      /\ "turn_id" \in DOMAIN own /\ "estimated_usd" \in DOMAIN own
  BY <1>5, <1>6, OverIn, OverLeft
<1>. HIDE DEF own
<1>. QED
  BY <1>1, <1>2, <1>7, OverIn, OverLeft

LEMMA IdentitiesTaken == \A k \in Kinds : Identities(k) \subseteq DOMAIN FieldsOf[k]
<1>1. \A k \in MetricNames \cup Tier1Names \cup Tier2Names : "user_id" \in DOMAIN FieldsOf[k]
  BY FieldsOfKinds, OverIn, CommonIn
<1>2. "token_type" \in DOMAIN FieldsOf["turn_token_usage"]
  <2>1. "token_type" \in DOMAIN CodexTelemetryFields["turn_token_usage"]
    BY FieldsIn DEF CodexTelemetryFields
  <2>2. FieldsOf["turn_token_usage"] = CodexTelemetryFields["turn_token_usage"] ++ CodexCommonAttrs
    BY FieldsOfKinds DEF CodexMetricNames
  <2>. QED
    BY <2>1, <2>2, OverIn, Zenon
<1>. QED
  BY <1>1, <1>2, SkillFields, CostFields DEF Identities

LEMMA UsageFields ==
  CountFields \cup {"error", "ttft_ms", "model"} \subseteq DOMAIN FieldsOf["codex_token_usage"]
<1>1. CountFields \cup {"error", "ttft_ms"} \subseteq DOMAIN CodexEventFields["codex_token_usage"]
  BY FieldIn, FieldsIn, OverIn DEF CodexEventFields, CountFields
<1>2. FieldsOf["codex_token_usage"] = CodexEventFields["codex_token_usage"] ++ CodexCommonAttrs
  BY FieldsOfKinds DEF CodexNames
<1>. QED
  BY <1>1, <1>2, OverIn, CommonIn

LEMMA ResultKeys == {"arguments", "output"} \subseteq Keys(FieldsOf["codex_tool_result"])
<1>. DEFINE a == Fields("string", {"tool_name", "call_id", "mcp_server", "mcp_server_origin"}) ++
                 Fields("int64", {"duration_ms"}) ++ Fields("bool", {"success", "output_truncated"})
            b == Field("arguments_length", "arguments", "length")
            c == Field("output_length", "output", "length")
            ab == a ++ b
            own == ab ++ c
<1>1. FieldsOf["codex_tool_result"] = own ++ CodexCommonAttrs
  <2>1. CodexEventFields["codex_tool_result"] = own
    BY DEF CodexEventFields
  <2>. HIDE DEF own
  <2>. QED
    BY <2>1, FieldsOfKinds DEF CodexNames
<1>2. b["arguments_length"].key = "arguments" /\ c["output_length"].key = "output"
  BY DEF Field, Entry
<1>3. "arguments_length" \in DOMAIN b /\ "output_length" \in DOMAIN c
  BY FieldIn
<1>4. "arguments_length" \notin DOMAIN a /\ "output_length" \notin DOMAIN a
  BY FieldsIn, OverIn
<1>. HIDE DEF a
<1>5. "arguments_length" \in DOMAIN ab /\ ab["arguments_length"] = b["arguments_length"]
  BY <1>3, <1>4, OverIn, OverRight
<1>6. "output_length" \notin DOMAIN ab
  BY <1>4, OverIn, FieldIn
<1>. HIDE DEF ab
<1>7. /\ "arguments_length" \in DOMAIN own /\ own["arguments_length"] = b["arguments_length"]
      /\ "output_length" \in DOMAIN own /\ own["output_length"] = c["output_length"]
  BY <1>3, <1>5, <1>6, OverIn, OverLeft, OverRight
<1>. HIDE DEF own, b, c
<1>. DEFINE all == own ++ CodexCommonAttrs
<1>8. /\ "arguments_length" \in DOMAIN all /\ all["arguments_length"] = own["arguments_length"]
      /\ "output_length" \in DOMAIN all /\ all["output_length"] = own["output_length"]
  BY <1>7, OverIn, OverLeft, Zenon
<1>. HIDE DEF all
<1>9. FieldsOf["codex_tool_result"] = all
  BY <1>1 DEF all
<1>. QED
  BY <1>2, <1>7, <1>8, <1>9 DEF Keys

-----------------------------------------------------------------------------
(* A row that its table takes, with every attribute where it belongs *)

\* What a table and the reader of a request may rely on, for a row of any kind.
Sound(o) ==
  /\ o.kind \in Kinds /\ DOMAIN o = {"kind", "row", "left"}
  /\ \A c \in DOMAIN o.row : o.row[c] \in Value
  /\ DOMAIN o.left \cap Keys(FieldsOf[o.kind]) = {}
  /\ o.row["attrs"] = IF DOMAIN o.left = {} THEN Null ELSE [type |-> "json", n |-> 0]
  /\ \A c \in Required(o.kind) \cap Columns(Tables[o.kind]) : o.row[c] \in Plain

LEMMA ValuesAre ==
  /\ Sent \subseteq Value /\ Plain \subseteq Value /\ Null \in Value
  /\ [type |-> "json", n |-> 0] \in Value
  /\ \A n \in Int : Stamp(n) \in Plain
  /\ [type |-> "bool", n |-> 1] \in Value /\ [type |-> "bool", n |-> 0] \in Value
BY DEF Sent, Plain, Value, Null, Stamp, WireTypes

LEMMA RowSound ==
  ASSUME NEW k \in Kinds, NEW attrs, Attributes(attrs), NEW ts \in Int,
         NEW payload, DOMAIN payload \subseteq Payloads, \A c \in DOMAIN payload : payload[c] \in Plain,
         Insists(k) \cap Payloads \subseteq DOMAIN payload,
         NEW o, o = Row(k, attrs, ts, payload),
         \A c \in Identities(k) : o.row[c] # Null
  PROVE  Sound(o)
<1>. DEFINE kept   == Without(attrs, Discarded(k))
            fields == FieldsOf[k]
            taken  == Take(fields, kept)
            left   == Leftover(fields, kept)
<1>1. o = RowOf(k, ts, payload, taken, left)
  BY Zenon DEF Row, Parse
<1>2. Attributes(kept)
  BY AttributesLeft, Zenon
<1>3. Converts(fields)
  BY SchemaOf, Zenon DEF SchemaOK
<1>. HIDE DEF kept, fields
<1>4. /\ DOMAIN taken = DOMAIN fields
      /\ \A f \in DOMAIN fields : taken[f] \in Sent \cup {Null}
      /\ \A f \in DOMAIN fields : f # "workspace_host_paths" => taken[f] \in Plain \cup {Null}
  BY <1>2, <1>3, TakeOf, Zenon
<1>5. DOMAIN left \cap Keys(fields) = {}
  BY DEF Leftover
<1>. HIDE DEF taken, left
<1>16. Parts(o, k, ts, payload, taken, left)
  BY <1>1, RowParts, Zenon
<1>6. /\ o.kind = k /\ o.left = left
      /\ DOMAIN o = {"kind", "row", "left"}
      /\ o.row["ts"] = Stamp(ts) /\ o.row["received_at"] = Stamp(Now)
      /\ o.row["attrs"] = IF DOMAIN left = {} THEN Null ELSE [type |-> "json", n |-> 0]
      /\ \A c \in DOMAIN payload : o.row[c] = payload[c]
      /\ \A c \in DOMAIN taken : c \notin Marks \cup Payloads \cup Extras => o.row[c] = taken[c]
  BY <1>16, Zenon DEF Parts
<1>7. k # "codex_token_usage" => \A c \in DOMAIN o.row :
        c \in Marks \/ c \in DOMAIN payload \/ (c \in DOMAIN taken /\ o.row[c] = taken[c])
  BY <1>16, Zenon DEF Parts
<1>8. k = "codex_token_usage" =>
        /\ \A c \in DOMAIN o.row :
             c \in Marks \/ c \in Extras \/ c \in DOMAIN payload \/ (c \in DOMAIN taken /\ o.row[c] = taken[c])
        /\ o.row["usage_valid"] = [type |-> "bool", n |-> IF ValidUsage(taken) THEN 1 ELSE 0]
        /\ o.row["ttft_ms"] = IF taken["ttft_ms"].n < 0 THEN Null ELSE taken["ttft_ms"]
        /\ o.row["cost_usd"] = Null
  BY <1>16, Zenon DEF Parts
<1>9. Now \in Int
  BY IngestAssumption DEF IngestAssumption
<1>10. \A c \in Marks : o.row[c] \in Value
  BY <1>6, <1>9, ValuesAre DEF Marks
<1>11. \A c \in DOMAIN payload : o.row[c] \in Plain
  BY <1>6
<1>12. \A c \in DOMAIN taken : taken[c] \in Value
  BY <1>4, ValuesAre
<1>13. k = "codex_token_usage" => \A c \in Extras : o.row[c] \in Value
  <2>. SUFFICES ASSUME k = "codex_token_usage" PROVE \A c \in Extras : o.row[c] \in Value
    OBVIOUS
  <2>1. "ttft_ms" \in DOMAIN taken
    BY <1>4, UsageFields DEF fields
  <2>2. o.row["ttft_ms"] \in Value
    BY <1>8, <1>12, <2>1, ValuesAre
  <2>3. o.row["usage_valid"] \in Value /\ o.row["cost_usd"] \in Value
    BY <1>8, ValuesAre
  <2>. QED
    BY <2>2, <2>3 DEF Extras
<1>14. \A c \in DOMAIN o.row : o.row[c] \in Value
  BY <1>7, <1>8, <1>10, <1>11, <1>12, <1>13, ValuesAre
<1>15. ASSUME NEW c \in Required(k) \cap Columns(Tables[k]) PROVE o.row[c] \in Plain
  <2>1. CASE c \in {"ts", "received_at"}
    BY <1>6, <1>9, <2>1, ValuesAre
  <2>2. CASE c \in Insists(k) \cap Payloads
    BY <1>11, <2>2
  <2>3. CASE c \in Identities(k)
    <3>1. c \in DOMAIN fields /\ o.row[c] # Null
      BY <2>3, IdentitiesTaken DEF fields
    <3>2. c \notin Marks \cup Payloads \cup Extras /\ c # "workspace_host_paths"
      BY <2>3 DEF Identities, Marks, Payloads, Extras
    <3>3. o.row[c] = taken[c] /\ taken[c] \in Plain \cup {Null}
      BY <1>4, <1>6, <3>1, <3>2
    <3>. QED
      BY <3>1, <3>3
  <2>. QED
    BY <2>1, <2>2, <2>3, RequiredOf
<1>. QED
  BY <1>5, <1>6, <1>14, <1>15 DEF Sound, fields

\* A field a parser takes from an attribute that was sent is there.
LEMMA SentIsTaken ==
  ASSUME NEW k \in Kinds, NEW attrs, Attributes(attrs), NEW ts,
         NEW o, o = Row(k, attrs, ts, <<>>),
         NEW f \in DOMAIN FieldsOf[k], f \notin Marks \cup Payloads \cup Extras,
         FieldsOf[k][f].kind = "string", FieldsOf[k][f].key \in DOMAIN attrs \ Discarded(k)
  PROVE  o.row[f] # Null
<1>. DEFINE kept   == Without(attrs, Discarded(k))
            fields == FieldsOf[k]
            taken  == Take(fields, kept)
            left   == Leftover(fields, kept)
<1>1. o = RowOf(k, ts, <<>>, taken, left)
  BY Zenon DEF Row, Parse
<1>2. fields[f].key \in DOMAIN kept /\ kept[fields[f].key] \in Sent
  BY DEF Attributes, Without, Sent
<1>3. taken[f] = Taken(kept[fields[f].key], "string") /\ DOMAIN taken = DOMAIN fields
  BY <1>2 DEF Take
<1>. HIDE DEF kept, taken, left
<1>4. taken[f] \in Plain
  BY <1>2, <1>3, TakenOf DEF Scalars
<1>5. DOMAIN <<>> \subseteq Payloads
  OBVIOUS
<1>6. Parts(o, k, ts, <<>>, taken, left)
  BY <1>1, <1>5, RowParts, Zenon
<1>7. o.row[f] = taken[f]
  BY <1>3, <1>6, Zenon DEF Parts
<1>. QED
  BY <1>4, <1>7 DEF Plain, Null, WireTypes

-----------------------------------------------------------------------------
(* The kinds of row that a name may lead to *)

LEMMA OverPair ==
  \A f, g : \A x \in DOMAIN (f ++ g) : \/ x \in DOMAIN f /\ (f ++ g)[x] = f[x]
                                       \/ x \in DOMAIN g /\ (f ++ g)[x] = g[x]
BY DEF ++

\* The kinds a Codex event may have, each by one name.
CodexPair(name, k) ==
  /\ k \in CodexNames \cup TelemetryNames
  /\ k = "turn_cost" <=> name = "codex.turn_cost"
  /\ k = "skill_invocation" <=> name = "codex.skill_invocation"
  /\ k = "codex_token_usage" <=> name = "codex.sse_event"

Routed(f) == \A x \in DOMAIN f : CodexPair(x, f[x])
LEMMA OverRouted == \A f, g : Routed(f) /\ Routed(g) => Routed(f ++ g)
BY OverPair DEF Routed
LEMMA EntryRouted == \A k, v : CodexPair(k, v) => Routed(Entry(k, v))
BY DEF Routed, Entry

LEMMA CodexRoutes == Routed(CodexRoute)
BY OverRouted, EntryRouted DEF CodexRoute, CodexPair, CodexNames, TelemetryNames

LEMMA EventKinds ==
  ASSUME NEW name \in DOMAIN EventKind, NEW k, k = EventKind[name]
  PROVE  /\ k \in Tier1Names \cup Tier2Names \cup CodexNames \cup TelemetryNames
         /\ k = "turn_cost" => name = "codex.turn_cost"
         /\ k = "skill_invocation" => name = "codex.skill_invocation"
         /\ k = "codex_token_usage" <=> name = "codex.sse_event"
<1>1. CASE name \in DOMAIN EventRoute /\ EventKind[name] = EventRoute[name]
  <2>1. k = name /\ k \in Tier1Names \cup Tier2Names
    BY <1>1, EventFieldsOf DEF EventRoute
  <2>. QED
    BY <2>1 DEF Tier1Names, Tier2Names
<1>2. CASE name \in DOMAIN CodexRoute /\ EventKind[name] = CodexRoute[name]
  <2>1. CodexPair(name, k)
    BY <1>2, CodexRoutes, Zenon DEF Routed
  <2>. QED
    BY <2>1 DEF CodexPair
<1>3. \/ name \in DOMAIN EventRoute /\ EventKind[name] = EventRoute[name]
      \/ name \in DOMAIN CodexRoute /\ EventKind[name] = CodexRoute[name]
  BY OverPair DEF EventKind
<1>. QED
  BY <1>1, <1>2, <1>3

Into(f, S) == \A x \in DOMAIN f : f[x] \in S
LEMMA OverInto == \A f, g, S : Into(f, S) /\ Into(g, S) => Into(f ++ g, S)
BY OverPair DEF Into
LEMMA EntryInto == \A k, v, S : v \in S => Into(Entry(k, v), S)
BY DEF Into, Entry

LEMMA MetricKinds ==
  \A name \in DOMAIN MetricKind : MetricKind[name] \in MetricNames \cup CodexMetricNames
<1>. DEFINE S == MetricNames \cup CodexMetricNames
<1>1. /\ "session_count" \in S /\ "lines_of_code" \in S /\ "pull_request" \in S /\ "commit" \in S
      /\ "cost_usage" \in S /\ "token_usage" \in S /\ "code_edit_decision" \in S
      /\ "active_time" \in S /\ "skill_injected" \in S /\ "response_tbt" \in S
      /\ "turn_token_usage" \in S
  BY DEF MetricNames, CodexMetricNames
<1>. HIDE DEF S
<1>2. Into(MetricRoute, S)
  BY <1>1, OverInto, EntryInto DEF MetricRoute
<1>3. Into(HistogramRoute, S)
  BY <1>1, OverInto, EntryInto DEF HistogramRoute
<1>4. Into(MetricKind, S)
  BY <1>2, <1>3, OverInto, Zenon DEF MetricKind
<1>. QED
  BY <1>4 DEF Into, S

-----------------------------------------------------------------------------
(* What the parsers make of log records and of points *)

LEMMA IdentifiedHas ==
  ASSUME NEW k \in Kinds, NEW row, Identified(k, row)
  PROVE  /\ k \in MetricNames \cup Tier1Names \cup Tier2Names => row["user_id"] # Null
         /\ k = "skill_invocation" => row["turn_id"] # Null /\ row["skill_name"] # Null
         /\ k = "turn_cost" => row["turn_id"] # Null
         /\ k = "turn_token_usage" => row["token_type"] # Null
<1>1. CASE k \in DOMAIN MetricFields \cup DOMAIN EventFields
  <2>1. k \in MetricNames \cup Tier1Names \cup Tier2Names
    BY <1>1, FieldDomains, EventFieldsOf
  <2>2. k \notin {"skill_invocation", "turn_cost", "turn_token_usage"}
    BY <2>1 DEF MetricNames, Tier1Names, Tier2Names
  <2>3. ~Empty(row["user_id"])
    BY <1>1, <2>2, Zenon DEF Identified
  <2>. QED
    BY <2>2, <2>3 DEF Empty
<1>2. CASE k \notin DOMAIN MetricFields \cup DOMAIN EventFields
  <2>1. k \notin MetricNames \cup Tier1Names \cup Tier2Names
    BY <1>2, FieldDomains, EventFieldsOf
  <2>2. k = "skill_invocation" => row["turn_id"] # Null /\ row["skill_name"] # Null
    BY <1>2 DEF Identified, Blank, Empty
  <2>3. k = "turn_cost" => row["turn_id"] # Null
    BY <1>2 DEF Identified, Blank, Empty
  <2>4. k = "turn_token_usage" => row["token_type"] # Null
    BY <1>2 DEF Identified, Empty
  <2>. QED
    BY <2>1, <2>2, <2>3, <2>4
<1>. QED
  BY <1>1, <1>2

LEMMA EventTimeOf ==
  ASSUME NEW kind, NEW item, IsLog(item)
  PROVE  EventTime(kind, item) \in Int
<1>. DEFINE stamp == NewAttrMap(item.resource, item.attrs)
<1>1. Attributes(stamp) /\ item.time \in Int /\ item.observed \in Int
  BY AttributesJoined DEF IsLog
<1>2. Now \in Int
  BY IngestAssumption DEF IngestAssumption
<1>. HIDE DEF stamp
<1>3. "event.timestamp" \in DOMAIN stamp => stamp["event.timestamp"].n \in Int
  BY <1>1 DEF Attributes
<1>4. EventTime(kind, item) =
        IF kind \notin CodexKinds \/ item.time # 0 THEN item.time
        ELSE IF item.observed # 0 THEN item.observed
        ELSE IF "event.timestamp" \in DOMAIN stamp /\ stamp["event.timestamp"].type = "digits"
             THEN stamp["event.timestamp"].n
        ELSE Now
  BY DEF EventTime, stamp
<1>. QED
  BY <1>1, <1>2, <1>3, <1>4

LEMMA NothingInsisted ==
  \A k \in Tier1Names \cup Tier2Names \cup CodexNames \cup TelemetryNames :
    Insists(k) \cap Payloads = {}
BY DEF Tier1Names, Tier2Names, CodexNames, TelemetryNames, MetricNames, Insists, Payloads

LEMMA EventSound ==
  ASSUME NEW item, IsLog(item), Verdict(item) = "rows",
         NEW k, k = EventKind[EventName(item)]
  PROVE  /\ EventName(item) \in DOMAIN EventKind
         /\ k \in Kinds /\ Sound(EventRow(k, item))
<1>. DEFINE name  == EventName(item)
            attrs == NewAttrMap(item.resource, item.attrs)
            ts    == EventTime(k, item)
            o     == EventRow(k, item)
<1>1. name \in DOMAIN EventKind /\ Identified(k, o.row) /\ item.valid
  BY DEF Verdict
<1>2. /\ k \in Tier1Names \cup Tier2Names \cup CodexNames \cup TelemetryNames
      /\ k = "turn_cost" => name = "codex.turn_cost"
      /\ k = "skill_invocation" => name = "codex.skill_invocation"
  BY <1>1, EventKinds, Zenon
<1>3. k \in Kinds
  BY <1>2, MapperOf DEF Known
<1>4. Attributes(attrs)
  BY AttributesJoined DEF IsLog
<1>5. /\ name = "codex.turn_cost" => "usage.estimated_usd" \in DOMAIN attrs
      /\ name = "codex.skill_invocation" => "skill.invocation_type" \in DOMAIN attrs
  BY <1>1 DEF IsLog
<1>6. ts \in Int
  BY EventTimeOf
<1>7. o = Row(k, attrs, ts, <<>>)
  BY DEF EventRow
<1>. HIDE DEF attrs, ts, o, name
<1>8. "usage.estimated_usd" \notin Discarded(k) /\ "skill.invocation_type" \notin Discarded(k)
  BY DEF Discarded
<1>9. k = "turn_cost" => o.row["estimated_usd"] # Null
  <2>. SUFFICES ASSUME k = "turn_cost" PROVE o.row["estimated_usd"] # Null
    OBVIOUS
  <2>1. /\ "estimated_usd" \in DOMAIN FieldsOf[k] /\ FieldsOf[k]["estimated_usd"].kind = "string"
        /\ FieldsOf[k]["estimated_usd"].key \in DOMAIN attrs \ Discarded(k)
    BY <1>2, <1>5, <1>8, CostFields
  <2>2. "estimated_usd" \notin Marks \cup Payloads \cup Extras
    BY DEF Marks, Payloads, Extras
  <2>. QED
    BY <1>3, <1>4, <1>7, <2>1, <2>2, SentIsTaken, Zenon
<1>10. k = "skill_invocation" => o.row["invocation_type"] # Null
  <2>. SUFFICES ASSUME k = "skill_invocation" PROVE o.row["invocation_type"] # Null
    OBVIOUS
  <2>1. /\ "invocation_type" \in DOMAIN FieldsOf[k] /\ FieldsOf[k]["invocation_type"].kind = "string"
        /\ FieldsOf[k]["invocation_type"].key \in DOMAIN attrs \ Discarded(k)
    BY <1>2, <1>5, <1>8, SkillFields
  <2>2. "invocation_type" \notin Marks \cup Payloads \cup Extras
    BY DEF Marks, Payloads, Extras
  <2>. QED
    BY <1>3, <1>4, <1>7, <2>1, <2>2, SentIsTaken, Zenon
<1>11. \A c \in Identities(k) : o.row[c] # Null
  BY <1>1, <1>3, <1>9, <1>10, IdentifiedHas DEF Identities
<1>12. /\ DOMAIN <<>> \subseteq Payloads /\ \A c \in DOMAIN <<>> : <<>>[c] \in Plain
       /\ Insists(k) \cap Payloads \subseteq DOMAIN <<>>
  BY <1>2, NothingInsisted
<1>13. Sound(o)
  BY <1>3, <1>4, <1>6, <1>7, <1>11, <1>12, RowSound, Zenon
<1>. QED
  BY <1>1, <1>3, <1>13 DEF o, name

LEMMA PayloadOf ==
  ASSUME NEW k \in MetricNames \cup CodexMetricNames, NEW point, IsPoint(point),
         NEW p, p = MetricPayload(k, point)
  PROVE  /\ DOMAIN p \subseteq Payloads /\ \A c \in DOMAIN p : p[c] \in Plain
         /\ Insists(k) \cap Payloads \subseteq DOMAIN p
<1>. DEFINE start == [start_ts |-> Stamp(point.start)]
            count == [sample_count |-> Stamp(1)]
            value == [type |-> "int", n |-> point.n]
<1>1. /\ value \in Plain /\ Stamp(point.start) \in Plain /\ Stamp(1) \in Plain
  BY ValuesAre DEF IsPoint, Plain, WireTypes
<1>2. /\ DOMAIN start = {"start_ts"} /\ start["start_ts"] \in Plain
      /\ DOMAIN count = {"sample_count"} /\ count["sample_count"] \in Plain
  BY <1>1
<1>. DEFINE a == [sum_ms |-> value]
            b == [sum_tokens |-> value]
            d == [value |-> value]
<1>3. /\ DOMAIN a = {"sum_ms"} /\ a["sum_ms"] \in Plain
      /\ DOMAIN b = {"sum_tokens"} /\ b["sum_tokens"] \in Plain
      /\ DOMAIN d = {"value"} /\ d["value"] \in Plain
  BY <1>1
<1>4. /\ k = "response_tbt" => p = start ++ count ++ a
      /\ k = "turn_token_usage" => p = start ++ count ++ b
      /\ k # "response_tbt" /\ k # "turn_token_usage" => p = start ++ d
  BY DEF MetricPayload
<1>. HIDE DEF start, count, a, b, d
<1>5. CASE k = "response_tbt"
  <2>1. /\ \A c : c \in DOMAIN p <=> c \in {"start_ts", "sample_count", "sum_ms"}
        /\ \A c \in DOMAIN p : p[c] \in Plain
    BY <1>2, <1>3, <1>4, <1>5, OverIn, OverPair
  <2>2. Insists(k) \cap Payloads \subseteq {"start_ts", "sample_count", "sum_ms"}
    BY <1>5 DEF Insists, Payloads, MetricNames
  <2>. QED
    BY <2>1, <2>2 DEF Payloads
<1>6. CASE k = "turn_token_usage"
  <2>1. /\ \A c : c \in DOMAIN p <=> c \in {"start_ts", "sample_count", "sum_tokens"}
        /\ \A c \in DOMAIN p : p[c] \in Plain
    BY <1>2, <1>3, <1>4, <1>6, OverIn, OverPair
  <2>2. Insists(k) \cap Payloads \subseteq {"start_ts", "sample_count", "sum_tokens"}
    BY <1>6 DEF Insists, Payloads, MetricNames
  <2>. QED
    BY <2>1, <2>2 DEF Payloads
<1>7. CASE k # "response_tbt" /\ k # "turn_token_usage"
  <2>1. /\ \A c : c \in DOMAIN p <=> c \in {"start_ts", "value"}
        /\ \A c \in DOMAIN p : p[c] \in Plain
    BY <1>2, <1>3, <1>4, <1>7, OverIn, OverPair
  <2>2. Insists(k) \cap Payloads \subseteq {"start_ts", "value"}
    BY <1>7 DEF Insists, Payloads, MetricNames, CodexMetricNames
  <2>. QED
    BY <2>1, <2>2 DEF Payloads
<1>. QED
  BY <1>5, <1>6, <1>7

LEMMA PointSound ==
  ASSUME NEW metric, IsMetric(metric), NEW i \in DOMAIN metric.points,
         PointVerdict(metric, i) = "rows", NEW k, k = MetricKind[metric.name]
  PROVE  /\ k \in Kinds /\ k # "codex_token_usage"
         /\ Sound(MetricRow(k, metric, metric.points[i]))
<1>. DEFINE point == metric.points[i]
            attrs == NewAttrMap(metric.resource, point.attrs)
            p     == MetricPayload(k, point)
            o     == MetricRow(k, metric, point)
<1>1. metric.name \in DOMAIN MetricKind /\ Identified(k, o.row)
  BY DEF PointVerdict
<1>2. k \in MetricNames \cup CodexMetricNames
  BY <1>1, MetricKinds
<1>3. k \in Kinds /\ k # "codex_token_usage"
  <2>1. k \in Kinds
    BY <1>2, MapperOf DEF Known
  <2>. QED
    BY <1>2, <2>1 DEF MetricNames, CodexMetricNames
<1>4. IsPoint(point) /\ Attributes(metric.resource)
  BY DEF IsMetric
<1>5. Attributes(attrs) /\ point.time \in Int
  BY <1>4, AttributesJoined DEF IsPoint
<1>6. /\ DOMAIN p \subseteq Payloads /\ \A c \in DOMAIN p : p[c] \in Plain
      /\ Insists(k) \cap Payloads \subseteq DOMAIN p
  BY <1>2, <1>4, PayloadOf, Zenon
<1>7. o = Row(k, attrs, point.time, p)
  BY DEF MetricRow
<1>. HIDE DEF point, attrs, p, o
<1>8. \A c \in Identities(k) : o.row[c] # Null
  <2>1. k # "skill_invocation" /\ k # "turn_cost"
    BY <1>2 DEF MetricNames, CodexMetricNames
  <2>. QED
    BY <1>1, <1>3, <2>1, IdentifiedHas DEF Identities
<1>9. Sound(o)
  BY <1>3, <1>5, <1>6, <1>7, <1>8, RowSound, Zenon
<1>. QED
  BY <1>3, <1>9 DEF o, point

-----------------------------------------------------------------------------
(* The rows that may come of what is sent *)

\* What is sent, and every row that may come of it.
Logs == UNION {{Requests[r].items[i] : i \in DOMAIN Requests[r].items} :
                 r \in {q \in DOMAIN Requests : Requests[q].signal = "logs"}}
Samples == UNION {{Requests[r].items[i] : i \in DOMAIN Requests[r].items} :
                    r \in {q \in DOMAIN Requests : Requests[q].signal = "metrics"}}

KeptLogs == {item \in Logs : Verdict(item) = "rows"}
Billed == {item \in KeptLogs : /\ EventName(item) = "codex.sse_event"
                               /\ ValidUsage(EventRow("codex_token_usage", item).row)}
Costs == {Null} \cup [type : {"double"}, n : Int]

Costed(o, cost) == [o EXCEPT !.row["cost_usd"] = cost]

EventRows  == {EventRow(EventKind[EventName(item)], item) : item \in KeptLogs}
PricedRows == {Costed(EventRow("codex_token_usage", q[1]), q[2]) : q \in Billed \X Costs}
PointRows  ==
  UNION {{MetricRow(MetricKind[m.name], m, m.points[i]) :
            i \in {j \in DOMAIN m.points : PointVerdict(m, j) = "rows"}} : m \in Samples}
Produced == EventRows \cup PricedRows \cup PointRows

LEMMA WhatIsSent ==
  /\ \A item \in Logs : IsLog(item)
  /\ \A metric \in Samples : IsMetric(metric)
<1>1. ASSUME NEW item \in Logs PROVE IsLog(item)
  <2>1. PICK r \in DOMAIN Requests : /\ Requests[r].signal = "logs"
                                     /\ \E i \in DOMAIN Requests[r].items : item = Requests[r].items[i]
    BY Zenon DEF Logs
  <2>. QED
    BY <2>1, RequestAssumption DEF RequestAssumption, IsRequest
<1>2. ASSUME NEW metric \in Samples PROVE IsMetric(metric)
  <2>1. PICK r \in DOMAIN Requests : /\ Requests[r].signal = "metrics"
                                     /\ \E i \in DOMAIN Requests[r].items : metric = Requests[r].items[i]
    BY Zenon DEF Samples
  <2>. QED
    BY <2>1, RequestAssumption DEF RequestAssumption, IsRequest
<1>. QED
  BY <1>1, <1>2

\* What the engine and the reader of a usage row rely on.
UsageColumns ==
  CountFields \cup {"error", "model", "usage_valid", "cost_usd", "attrs", "ts", "received_at"}
UsageRow(o) ==
  /\ o.row["usage_valid"].n = IF ValidUsage(o.row) THEN 1 ELSE 0
  /\ \A f \in CountFields : o.row[f].n \in Int
  /\ ModelOf[o.row["model"]] \in Names
  /\ UsageColumns \subseteq DOMAIN o.row
  /\ o.row["cost_usd"] # Null => o.row["usage_valid"].n = 1

LEMMA UsageOf ==
  ASSUME NEW item \in KeptLogs, EventName(item) = "codex.sse_event",
         NEW o, o = EventRow("codex_token_usage", item)
  PROVE  /\ o.kind = "codex_token_usage" /\ Sound(o) /\ UsageRow(o)
         /\ o.row["cost_usd"] = Null
         /\ EventKind[EventName(item)] = "codex_token_usage"
<1>. DEFINE k      == "codex_token_usage"
            kept   == Without(NewAttrMap(item.resource, item.attrs), Discarded(k))
            fields == FieldsOf[k]
            taken  == Take(fields, kept)
            left   == Leftover(fields, kept)
            ts     == EventTime(k, item)
<1>1. item \in Logs /\ Verdict(item) = "rows"
  BY DEF KeptLogs
<1>2. IsLog(item)
  BY <1>1, WhatIsSent
<1>3. EventKind[EventName(item)] = k /\ Sound(o)
  <2>1. EventName(item) \in DOMAIN EventKind
    BY <1>1, <1>2, EventSound, Zenon
  <2>2. EventKind[EventName(item)] = k
    BY <2>1, EventKinds
  <2>. QED
    BY <1>1, <1>2, <2>2, EventSound
<1>4. o = RowOf(k, ts, <<>>, taken, left)
  BY Zenon DEF EventRow, Row, Parse
<1>5. DOMAIN taken = DOMAIN fields
  BY DEF Take
<1>6. CountFields \cup {"error", "ttft_ms", "model"} \subseteq DOMAIN taken
  BY <1>5, UsageFields DEF fields
<1>. HIDE DEF taken, left, ts, fields, kept
<1>7. Parts(o, k, ts, <<>>, taken, left)
  <2>1. DOMAIN <<>> \subseteq Payloads
    OBVIOUS
  <2>. QED
    BY <1>4, <2>1, RowParts, Zenon
<1>8. /\ o.kind = k
      /\ \A c \in DOMAIN taken : c \notin Marks \cup Payloads \cup Extras => o.row[c] = taken[c]
      /\ \A c \in DOMAIN <<>> : o.row[c] = <<>>[c]
  BY <1>7, Zenon DEF Parts
<1>9. /\ o.row["usage_valid"] = [type |-> "bool", n |-> IF ValidUsage(taken) THEN 1 ELSE 0]
      /\ o.row["cost_usd"] = Null /\ Extras \subseteq DOMAIN o.row
      /\ Marks \cup DOMAIN taken \subseteq DOMAIN o.row
  BY <1>7, Zenon DEF Parts
<1>10. \A c \in CountFields \cup {"error"} : c \notin Marks \cup Payloads \cup Extras
  BY DEF CountFields, Marks, Payloads, Extras
<1>11. \A c \in CountFields \cup {"error"} : o.row[c] = taken[c]
  BY <1>6, <1>8, <1>10
<1>12. ValidUsage(o.row) <=> ValidUsage(taken)
  BY <1>11, Zenon DEF ValidUsage, CountFields
<1>13. \A c \in CountFields : o.row[c] \in Sent \cup {Null}
  <2>1. Attributes(kept) /\ Converts(fields)
    <3>1. Attributes(item.resource) /\ Attributes(item.attrs)
      BY <1>2 DEF IsLog
    <3>2. k \in Kinds
      BY MapperOf DEF Known, CodexNames
    <3>. QED
      BY <3>1, <3>2, AttributesJoined, AttributesLeft, SchemaOf, Zenon DEF SchemaOK, kept, fields
  <2>2. \A f \in DOMAIN fields : taken[f] \in Sent \cup {Null}
    BY <2>1, TakeOf, Zenon DEF taken
  <2>. QED
    BY <1>5, <1>6, <1>11, <2>2
<1>14. \A c \in CountFields : o.row[c].n \in Int
  BY <1>13 DEF Sent, Null
<1>15. ModelOf[o.row["model"]] \in Names
  <2>1. o.row["model"] \in DOMAIN ModelOf
    BY <1>2, Zenon DEF IsLog
  <2>. QED
    BY <2>1, IngestAssumption DEF IngestAssumption
<1>16. o.row["usage_valid"].n = IF ValidUsage(o.row) THEN 1 ELSE 0
  BY <1>9, <1>12
<1>17. UsageColumns \subseteq DOMAIN o.row
  BY <1>6, <1>9 DEF UsageColumns, Extras, Marks
<1>. QED
  BY <1>3, <1>8, <1>9, <1>14, <1>15, <1>16, <1>17 DEF UsageRow

\* A cost changes nothing else in a row.
LEMMA CostedOf ==
  ASSUME NEW o, DOMAIN o = {"kind", "row", "left"}, "cost_usd" \in DOMAIN o.row,
         NEW cost, NEW p, p = Costed(o, cost)
  PROVE  /\ p.kind = o.kind /\ p.left = o.left /\ DOMAIN p = {"kind", "row", "left"}
         /\ DOMAIN p.row = DOMAIN o.row /\ p.row["cost_usd"] = cost
         /\ \A c \in DOMAIN o.row : c # "cost_usd" => p.row[c] = o.row[c]
BY DEF Costed

RowOK(o) == Sound(o) /\ (o.kind = "codex_token_usage" => UsageRow(o))

LEMMA EventRowOK ==
  ASSUME NEW item \in KeptLogs, NEW o, o = EventRow(EventKind[EventName(item)], item)
  PROVE  /\ RowOK(o) /\ o.kind = EventKind[EventName(item)]
         /\ o.kind = "codex_token_usage" => o.row["cost_usd"] = Null
<1>. DEFINE k == EventKind[EventName(item)]
<1>1. item \in Logs /\ Verdict(item) = "rows" /\ IsLog(item)
  BY WhatIsSent DEF KeptLogs
<1>2. EventName(item) \in DOMAIN EventKind /\ Sound(o)
  BY <1>1, EventSound, Zenon
<1>3. o.kind = k
  <2>1. o = RowOf(k, EventTime(k, item), <<>>,
              Take(FieldsOf[k], Without(NewAttrMap(item.resource, item.attrs), Discarded(k))),
              Leftover(FieldsOf[k], Without(NewAttrMap(item.resource, item.attrs), Discarded(k))))
    BY Zenon DEF EventRow, Row, Parse
  <2>. QED
    BY <2>1 DEF RowOf
<1>. HIDE DEF k
<1>4. k = "codex_token_usage" => UsageRow(o) /\ o.row["cost_usd"] = Null
  <2>. SUFFICES ASSUME k = "codex_token_usage" PROVE UsageRow(o) /\ o.row["cost_usd"] = Null
    OBVIOUS
  <2>1. EventName(item) = "codex.sse_event"
    BY <1>2, EventKinds, Zenon DEF k
  <2>. QED
    BY <2>1, UsageOf, Zenon DEF k
<1>. QED
  BY <1>2, <1>3, <1>4 DEF RowOK, k

LEMMA PricedRowOK ==
  ASSUME NEW item \in Billed, NEW cost \in Costs,
         NEW o, o = EventRow("codex_token_usage", item), NEW p, p = Costed(o, cost)
  PROVE  /\ RowOK(p) /\ p.kind = "codex_token_usage"
         /\ p.row["cost_usd"] = cost /\ p.row["usage_valid"].n = 1
         /\ p.row["model"] = o.row["model"] /\ CountsOf(p.row) = CountsOf(o.row)
         /\ ModelOf[p.row["model"]] \in Names
<1>1. item \in KeptLogs /\ EventName(item) = "codex.sse_event" /\ ValidUsage(o.row)
  BY DEF Billed
<1>2. o.kind = "codex_token_usage" /\ Sound(o) /\ UsageRow(o)
  BY <1>1, UsageOf, Zenon
<1>3. /\ DOMAIN o = {"kind", "row", "left"} /\ UsageColumns \subseteq DOMAIN o.row
      /\ "cost_usd" \in DOMAIN o.row
  BY <1>2 DEF Sound, UsageRow, UsageColumns
<1>4. /\ p.kind = o.kind /\ p.left = o.left /\ DOMAIN p = {"kind", "row", "left"}
      /\ DOMAIN p.row = DOMAIN o.row /\ p.row["cost_usd"] = cost
      /\ \A c \in DOMAIN o.row : c # "cost_usd" => p.row[c] = o.row[c]
  BY <1>3, CostedOf
<1>5. \A c \in UsageColumns : c # "cost_usd" => p.row[c] = o.row[c]
  BY <1>3, <1>4
<1>6. /\ \A c \in CountFields \cup {"error", "model", "usage_valid", "attrs"} : p.row[c] = o.row[c]
  BY <1>5 DEF UsageColumns, CountFields
<1>7. ValidUsage(p.row) <=> ValidUsage(o.row)
  BY <1>6, Zenon DEF ValidUsage, CountFields
<1>8. CountsOf(p.row) = CountsOf(o.row)
  BY <1>6, Zenon DEF CountsOf, CountFields
<1>9. p.row["usage_valid"] = o.row["usage_valid"] /\ p.row["model"] = o.row["model"]
      /\ p.row["attrs"] = o.row["attrs"]
  BY <1>6
<1>10. p.row["usage_valid"].n = 1
  BY <1>1, <1>2, <1>9 DEF UsageRow
<1>11. UsageRow(p)
  BY <1>1, <1>2, <1>3, <1>4, <1>6, <1>7, <1>9, <1>10 DEF UsageRow
<1>12. Sound(p)
  <2>1. cost \in Value
    BY ValuesAre DEF Costs, Value, WireTypes
  <2>2. \A c \in DOMAIN p.row : p.row[c] \in Value
    BY <1>2, <1>4, <2>1 DEF Sound
  <2>3. \A c \in Required(p.kind) \cap Columns(Tables[p.kind]) : p.row[c] \in Plain
    <3>. TAKE c \in Required(p.kind) \cap Columns(Tables[p.kind])
    <3>1. p.kind \in Kinds /\ o.row[c] \in Plain
      BY <1>2, <1>4 DEF Sound
    <3>2. c \in {"ts", "received_at"}
      <4>1. Insists(p.kind) \cap Payloads = {} /\ Identities(p.kind) = {}
        BY <1>2, <1>4 DEF Insists, Payloads, Identities, MetricNames, Tier1Names, Tier2Names
      <4>. QED
        BY <3>1, <4>1, RequiredOf
    <3>. QED
      BY <1>5, <3>1, <3>2 DEF UsageColumns
  <2>. QED
    BY <1>2, <1>4, <1>9, <2>2, <2>3 DEF Sound
<1>13. ModelOf[p.row["model"]] \in Names
  BY <1>11 DEF UsageRow
<1>. QED
  BY <1>2, <1>4, <1>8, <1>9, <1>10, <1>11, <1>12, <1>13 DEF RowOK

LEMMA PointRowOK ==
  ASSUME NEW metric \in Samples, NEW i \in DOMAIN metric.points,
         PointVerdict(metric, i) = "rows",
         NEW o, o = MetricRow(MetricKind[metric.name], metric, metric.points[i])
  PROVE  RowOK(o) /\ o.kind # "codex_token_usage"
<1>. DEFINE k == MetricKind[metric.name]
<1>1. Sound(o) /\ k # "codex_token_usage"
  BY WhatIsSent, PointSound, Zenon
<1>2. o.kind = k
  <2>. DEFINE point == metric.points[i]
              kept == Without(NewAttrMap(metric.resource, point.attrs), Discarded(k))
  <2>1. o = RowOf(k, point.time, MetricPayload(k, point), Take(FieldsOf[k], kept), Leftover(FieldsOf[k], kept))
    BY Zenon DEF MetricRow, Row, Parse
  <2>. QED
    BY <2>1 DEF RowOf
<1>. QED
  BY <1>1, <1>2 DEF RowOK

LEMMA ProducedOK == \A o \in Produced : RowOK(o)
<1>1. \A o \in EventRows : RowOK(o)
  BY EventRowOK, Zenon DEF EventRows
<1>2. ASSUME NEW o \in PricedRows PROVE RowOK(o)
  <2>1. PICK q \in Billed \X Costs : o = Costed(EventRow("codex_token_usage", q[1]), q[2])
    BY Zenon DEF PricedRows
  <2>2. q[1] \in Billed /\ q[2] \in Costs
    OBVIOUS
  <2>. QED
    BY <2>1, <2>2, PricedRowOK, Zenon
<1>3. ASSUME NEW o \in PointRows PROVE RowOK(o)
  <2>1. PICK m \in Samples :
          o \in {MetricRow(MetricKind[m.name], m, m.points[i]) :
                   i \in {j \in DOMAIN m.points : PointVerdict(m, j) = "rows"}}
    BY Zenon DEF PointRows
  <2>2. PICK i \in DOMAIN m.points : /\ PointVerdict(m, i) = "rows"
                                     /\ o = MetricRow(MetricKind[m.name], m, m.points[i])
    BY <2>1, Zenon
  <2>. QED
    BY <2>2, PointRowOK, Zenon
<1>. QED
  BY <1>1, <1>2, <1>3 DEF Produced

LEMMA LaidPlain == \A v \in Plain : Laid(v) = v /\ v # Null
BY DEF Plain, Laid, Null, WireTypes

\* What AttributesKept says of one row.
LEMMA SoundKept ==
  ASSUME NEW o, Sound(o)
  PROVE  LET fields == FieldsOf[o.kind]
             stored == Stored(o.kind, o.row)
         IN  /\ DOMAIN fields \subseteq DOMAIN stored
             /\ \A f \in DOMAIN stored : stored[f] = Laid(o.row[f])
             /\ DOMAIN o.left \cap Keys(fields) = {}
             /\ o.kind = "codex_tool_result" => {"arguments", "output"} \cap DOMAIN o.left = {}
             /\ (stored["attrs"] = Null) = (DOMAIN o.left = {})
<1>. DEFINE k == o.kind
            stored == Stored(k, o.row)
<1>1. k \in Kinds
  BY DEF Sound
<1>2. /\ DOMAIN stored = Columns(Tables[k])
      /\ \A c \in Columns(Tables[k]) : stored[c] = Laid(o.row[c])
  BY <1>1, ArrivesInItsColumn, Zenon
<1>3. DOMAIN FieldsOf[k] \cup {"attrs"} \subseteq Columns(Tables[k])
  <2>1. Fits(Mapper[k], Tables[k], FieldsOf[k], Insists(k))
    BY <1>1, SchemaOf DEF SchemaOK
  <2>. QED
    BY <2>1 DEF Fits
<1>4. DOMAIN o.left \cap Keys(FieldsOf[k]) = {}
  BY DEF Sound
<1>5. k = "codex_tool_result" => {"arguments", "output"} \cap DOMAIN o.left = {}
  BY <1>4, ResultKeys
<1>. HIDE DEF stored
<1>6. stored["attrs"] = Laid(o.row["attrs"])
  BY <1>2, <1>3
<1>7. o.row["attrs"] = IF DOMAIN o.left = {} THEN Null ELSE [type |-> "json", n |-> 0]
  BY DEF Sound
<1>8. Laid(Null) = Null /\ Laid([type |-> "json", n |-> 0]) # Null
  BY DEF Laid, Null
<1>9. (stored["attrs"] = Null) <=> (DOMAIN o.left = {})
  BY <1>6, <1>7, <1>8
<1>10. (stored["attrs"] = Null) = (DOMAIN o.left = {})
  BY <1>9, Zenon
<1>. QED
  BY <1>2, <1>3, <1>4, <1>5, <1>10, Zenon DEF stored, k

\* What OnlyNonFiniteRefused says of one row.
LEMMA SoundAccepted ==
  ASSUME NEW o, Sound(o)
  PROVE  Accepted(o.kind, o.row, o.left) \/ \E k \in DOMAIN o.left : o.left[k].type = "nan"
<1>. DEFINE k == o.kind
<1>1. k \in Kinds
  BY DEF Sound
<1>2. Fits(Mapper[k], Tables[k], FieldsOf[k], Insists(k))
  BY <1>1, SchemaOf DEF SchemaOK
<1>3. Len(Mapper[k]) = Len(Tables[k])
  BY <1>2 DEF Fits
<1>4. \A c \in Required(k) \cap DOMAIN Position[k] : Stored(k, o.row)[c] # Null
  <2>. TAKE c \in Required(k) \cap DOMAIN Position[k]
  <2>1. c \in Required(k) \cap Columns(Tables[k])
    BY <1>1, ArrivesInItsColumn
  <2>2. Stored(k, o.row)[c] = Laid(o.row[c])
    BY <1>1, <2>1, ArrivesInItsColumn
  <2>3. o.row[c] \in Plain
    BY <2>1 DEF Sound
  <2>. QED
    BY <2>2, <2>3, LaidPlain
<1>5. CASE Marshals(o.left)
  BY <1>3, <1>4, <1>5 DEF Accepted
<1>6. CASE ~Marshals(o.left)
  BY <1>6 DEF Marshals
<1>. QED
  BY <1>5, <1>6

-----------------------------------------------------------------------------
(* Points of a metric and prices *)

LEMMA NthExists ==
  ASSUME NEW S, IsFiniteSet(S), S \subseteq Int, NEW j \in 1 .. Cardinality(S)
  PROVE  \E i \in S : Cardinality({k \in S : k < i}) = j - 1
<1>. DEFINE Found(T) == \A n \in 1 .. Cardinality(T) :
                          \E i \in T : Cardinality({k \in T : k < i}) = n - 1
            Bad == {c \in Nat : \E T \in SUBSET S : ~Found(T) /\ Cardinality(T) = c}
<1>1. \A T \in SUBSET S : IsFiniteSet(T) /\ Cardinality(T) \in Nat
  BY FS_Subset, FS_CardinalityType, Zenon
<1>2. CASE Bad = {}
  <2>1. Found(S)
    BY <1>1, <1>2
  <2>. QED
    BY <2>1
<1>3. CASE Bad # {}
  <2>. HIDE DEF Found
  <2>1. PICK c \in Bad : \A d \in Bad : c <= d
    <3>1. Bad \subseteq Nat
      OBVIOUS
    <3>. QED
      BY <1>3, <3>1, LeastOf, Zenon
  <2>2. PICK T \in SUBSET S : ~Found(T) /\ Cardinality(T) = c
    OBVIOUS
  <2>3. \A U \in SUBSET S : Cardinality(U) < c => Found(U)
    <3>. SUFFICES ASSUME NEW U \in SUBSET S, Cardinality(U) < c, ~Found(U) PROVE FALSE
      OBVIOUS
    <3>1. Cardinality(U) \in Bad
      BY <1>1
    <3>2. c <= Cardinality(U) /\ c \in Nat /\ Cardinality(U) \in Nat
      BY <1>1, <2>1, <3>1
    <3>. QED
      BY <3>2
  <2>. HIDE DEF Bad
  <2>4. T # {}
    <3>. SUFFICES ASSUME T = {} PROVE FALSE
      OBVIOUS
    <3>1. Cardinality(T) = 0
      BY FS_EmptySet
    <3>. QED
      BY <2>2, <3>1 DEF Found
  <2>. DEFINE m == Max(T)
              U == T \ {m}
  <2>5. m \in T /\ \A x \in T : m >= x
    BY <1>1, <2>4, MaxOf, Zenon
  <2>. HIDE DEF m
  <2>6. IsFiniteSet(T) /\ Cardinality(U) = Cardinality(T) - 1 /\ IsFiniteSet(U)
    BY <1>1, <2>5, FS_RemoveElement
  <2>7. Cardinality(T) \in Nat /\ Cardinality(U) \in Nat
    BY <1>1
  <2>8. Found(U)
    BY <2>2, <2>3, <2>6, <2>7
  <2>9. ASSUME NEW n \in 1 .. Cardinality(T)
        PROVE  \E i \in T : Cardinality({k \in T : k < i}) = n - 1
    <3>1. CASE n = Cardinality(T)
      <4>1. \A k \in T : k < m <=> k # m
        <5>1. m \in Int /\ \A k \in T : k \in Int /\ m >= k
          BY <2>5
        <5>. QED
          BY <5>1
      <4>2. {k \in T : k < m} = U
        BY <4>1
      <4>. QED
        BY <2>5, <2>6, <3>1, <4>2
    <3>2. CASE n # Cardinality(T)
      <4>1. n \in 1 .. Cardinality(U)
        BY <2>6, <2>7, <3>2
      <4>2. PICK i \in U : Cardinality({k \in U : k < i}) = n - 1
        BY <2>8, <4>1 DEF Found
      <4>3. {k \in T : k < i} = {k \in U : k < i}
        BY <2>5
      <4>. QED
        BY <4>2, <4>3
    <3>. QED
      BY <3>1, <3>2
  <2>. QED
    BY <2>2, <2>9 DEF Found
<1>. QED
  BY <1>2, <1>3

LEMMA NthOf ==
  ASSUME NEW S, IsFiniteSet(S), S \subseteq Int, NEW j \in 1 .. Cardinality(S)
  PROVE  Nth(S, j) \in S
BY NthExists DEF Nth

Verdicts == {"rows", "unknown", "skipped", "errors"}

\* Every point of a metric has one of the verdicts; when none is lost, all are rows.
LEMMA PointsCounted ==
  ASSUME NEW metric, IsMetric(metric), NEW P, P = DOMAIN metric.points,
         NEW W, \A v \in Verdicts : W[v] = {i \in P : PointVerdict(metric, i) = v}
  PROVE  /\ \A v \in Verdicts : IsFiniteSet(W[v]) /\ Cardinality(W[v]) \in Nat /\ W[v] \subseteq P
         /\ IsFiniteSet(P) /\ Cardinality(P) = Len(metric.points) /\ P \subseteq Int
         /\ Cardinality(W["unknown"]) + Cardinality(W["skipped"]) + Cardinality(W["errors"]) = 0
              => Cardinality(W["rows"]) = Cardinality(P)
<1>1. Len(metric.points) \in Nat /\ P = 1 .. Len(metric.points)
  BY DEF IsMetric
<1>2. IsFiniteSet(P) /\ Cardinality(P) = Len(metric.points) /\ P \subseteq Int
  <2>1. /\ IsFiniteSet(1 .. Len(metric.points))
        /\ Cardinality(1 .. Len(metric.points)) = IF 1 > Len(metric.points) THEN 0 ELSE Len(metric.points) - 1 + 1
    BY <1>1, FS_Interval
  <2>2. Cardinality(1 .. Len(metric.points)) = Len(metric.points)
    BY <1>1, <2>1
  <2>. QED
    BY <1>1, <2>1, <2>2
<1>3. \A v \in Verdicts : W[v] \subseteq P
  OBVIOUS
<1>4. \A v \in Verdicts : IsFiniteSet(W[v]) /\ Cardinality(W[v]) \in Nat
  BY <1>2, <1>3, FS_Subset, FS_CardinalityType, Zenon
<1>5. ASSUME Cardinality(W["unknown"]) + Cardinality(W["skipped"]) + Cardinality(W["errors"]) = 0
      PROVE  Cardinality(W["rows"]) = Cardinality(P)
  <2>1. "unknown" \in Verdicts /\ "skipped" \in Verdicts /\ "errors" \in Verdicts /\ "rows" \in Verdicts
    BY DEF Verdicts
  <2>2. Cardinality(W["unknown"]) = 0 /\ Cardinality(W["errors"]) = 0
    <3>1. \A a, b, c \in Nat : a + b + c = 0 => a = 0 /\ c = 0
      OBVIOUS
    <3>2. /\ Cardinality(W["unknown"]) \in Nat /\ Cardinality(W["skipped"]) \in Nat
          /\ Cardinality(W["errors"]) \in Nat
      BY <1>4, <2>1, Zenon
    <3>. QED
      BY <1>5, <3>1, <3>2, Zenon
  <2>3. W["unknown"] = {} /\ W["errors"] = {}
    BY <1>4, <2>1, <2>2, FS_EmptySet, Zenon
  <2>4. \A i \in P : PointVerdict(metric, i) \in {"unknown", "errors", "rows"}
    BY DEF PointVerdict
  <2>5. W["rows"] = P
    BY <2>1, <2>3, <2>4
  <2>. QED
    BY <2>5
<1>. QED
  BY <1>2, <1>3, <1>4, <1>5

LEMMA LookupPrice ==
  ASSUME NEW t, \A m \in DOMAIN t : t[m] \in Price, NEW model \in Names
  PROVE  Lookup(t, model) \in Price
BY DEF Lookup, Knows, Unpriced, Price, Rate

LEMMA TimesOf == \A n \in Int, r \in Rate : Times(n, r) \in Int \cup {NoRate}
BY DEF Times, Rate

LEMMA CostOf ==
  ASSUME NEW p \in Price, NEW c,
         c.input \in Int /\ c.output \in Int /\ c.read \in Int /\ c.write \in Int /\ c.reasoning \in Int
  PROVE  Cost(p, c) \in Int \cup {NoRate}
<1>. DEFINE b == CostBreakdown(p, c)
<1>1. /\ p.input \in Rate /\ p.output \in Rate /\ p.read \in Rate /\ p.write \in Rate
      /\ p.reasoning \in Rate
  BY DEF Price
<1>2. FirstRate(p.read, p.input) \in Rate /\ FirstRate(p.write, p.input) \in Rate
  BY <1>1 DEF FirstRate
<1>3. NonNeg(c.input - c.read - c.write) \in Int /\ NonNeg(c.output - c.reasoning) \in Int
  BY DEF NonNeg
<1>4. b.input \in Int \cup {NoRate}
  BY <1>1, <1>3, TimesOf DEF CostBreakdown
<1>5. b.read \in Int \cup {NoRate} /\ b.write \in Int \cup {NoRate}
  BY <1>2, TimesOf DEF CostBreakdown
<1>6. b.output \in Int \cup {NoRate}
  <2>1. CASE p.output = NoRate
    BY <2>1 DEF CostBreakdown
  <2>2. CASE p.output # NoRate /\ p.reasoning = NoRate
    <3>1. b.output = c.output * p.output
      BY <2>2 DEF CostBreakdown
    <3>. QED
      BY <1>1, <2>2, <3>1 DEF Rate
  <2>3. CASE p.output # NoRate /\ p.reasoning # NoRate
    <3>1. b.output = NonNeg(c.output - c.reasoning) * p.output + c.reasoning * p.reasoning
      BY <2>3 DEF CostBreakdown
    <3>2. p.output \in Int /\ p.reasoning \in Int
      BY <1>1, <2>3 DEF Rate
    <3>. QED
      BY <1>3, <3>1, <3>2
  <2>. QED
    BY <2>1, <2>2, <2>3
<1>. HIDE DEF b
<1>7. Cost(p, c) = IF NoRate \in {b.input, b.read, b.write, b.output} THEN NoRate
                   ELSE b.input + b.read + b.write + b.output
  BY Zenon DEF Cost, b
<1>. QED
  BY <1>4, <1>5, <1>6, <1>7

LEMMA TablePrices ==
  ASSUME NEW t \in PriceTables
  PROVE  t \in [DOMAIN t -> Price]
<1>1. /\ \A m \in DOMAIN File : File[m] \in Price
      /\ \A m \in DOMAIN Overrides : Overrides[m] \in Price
      /\ \A b \in Bodies : \A m \in DOMAIN b.entries \ b.malformed : b.entries[m] \in Price
  BY IngestAssumption DEF IngestAssumption
<1>2. \E e : t = Layered(e) /\ \A m \in DOMAIN e : e[m] \in Price
  <2>1. CASE t = Layered(<<>>)
    <3>1. \A m \in DOMAIN <<>> : <<>>[m] \in Price
      OBVIOUS
    <3>. QED
      BY <2>1, <3>1, Zenon
  <2>2. CASE t \in Refreshed
    <3>1. PICK b \in Bodies : t = Layered(Parsed(b))
      BY <2>2, Zenon DEF Refreshed, Readable
    <3>2. \A m \in DOMAIN Parsed(b) : Parsed(b)[m] \in Price
      BY <1>1, ParsedEntries
    <3>. QED
      BY <3>1, <3>2, Zenon
  <2>. QED
    BY <2>1, <2>2 DEF PriceTables
<1>3. PICK e : t = Layered(e) /\ \A m \in DOMAIN e : e[m] \in Price
  BY <1>2
<1>4. \A a, b : (\A m \in DOMAIN a : a[m] \in Price) /\ (\A m \in DOMAIN b : b[m] \in Price)
                  => /\ \A m \in DOMAIN Merge(a, b) : Merge(a, b)[m] \in Price
                     /\ Merge(a, b) \in [DOMAIN Merge(a, b) -> Price]
  BY DEF Merge
<1>. QED
  BY <1>1, <1>3, <1>4, Zenon DEF Layered

-----------------------------------------------------------------------------
(* Costs, missed prices, sequences and counters *)

\* The costs a usage row may have by the tables from the lo-th on.
CostsBy(o, lo, tables) ==
  {Cost(Lookup(tables[v], ModelOf[o.row["model"]]), CountsOf(o.row)) : v \in lo .. Len(tables)}

Priced(o, on) == on /\ o.row["usage_valid"].n = 1

Accounted(o, lo, tables, on) ==
  o.kind = "codex_token_usage" =>
    /\ o.row["cost_usd"] # Null => Priced(o, on) /\ o.row["cost_usd"].n \in CostsBy(o, lo, tables)
    /\ Priced(o, on) /\ o.row["cost_usd"] = Null => NoRate \in CostsBy(o, lo, tables)

Missed(o, m, on) ==
  /\ o.kind = "codex_token_usage" /\ Priced(o, on)
  /\ o.row["cost_usd"] = Null /\ ModelOf[o.row["model"]] = m

MissedBy(s, m, on) == {j \in DOMAIN s : Missed(s[j], m, on)}

\* More tables, more costs.
LEMMA AccountedStill ==
  ASSUME NEW o, NEW lo \in Nat \ {0}, NEW old, NEW new, NEW on,
         Len(old) \in Nat, Len(new) \in Nat, Len(old) <= Len(new),
         \A v \in 1 .. Len(old) : new[v] = old[v],
         Accounted(o, lo, old, on)
  PROVE  Accounted(o, lo, new, on)
<1>1. CostsBy(o, lo, old) \subseteq CostsBy(o, lo, new)
  <2>. SUFFICES ASSUME NEW v \in lo .. Len(old)
                PROVE  Cost(Lookup(old[v], ModelOf[o.row["model"]]), CountsOf(o.row)) \in CostsBy(o, lo, new)
    BY Zenon DEF CostsBy
  <2>1. v \in lo .. Len(new) /\ new[v] = old[v]
    OBVIOUS
  <2>. QED
    BY <2>1, Zenon DEF CostsBy
<1>. QED
  BY <1>1, Zenon DEF Accounted

LEMMA SequenceLength ==
  ASSUME NEW S, NEW s \in Seq(S)
  PROVE  Len(s) \in Nat /\ DOMAIN s = 1 .. Len(s) /\ \A i \in DOMAIN s : s[i] \in S
OBVIOUS

LEMMA AppendOf ==
  ASSUME NEW S, NEW s \in Seq(S), NEW e \in S, NEW t, t = Append(s, e)
  PROVE  /\ t \in Seq(S) /\ Len(t) = Len(s) + 1 /\ DOMAIN t = 1 .. Len(s) + 1
         /\ t[Len(s) + 1] = e /\ \A i \in 1 .. Len(s) : t[i] = s[i]
OBVIOUS

LEMMA ConcatOf ==
  ASSUME NEW S, NEW s \in Seq(S), NEW n \in Nat, NEW f, f \in [1 .. n -> S], NEW t, t = s \o f
  PROVE  /\ t \in Seq(S) /\ Len(t) = Len(s) + n
         /\ \A i \in 1 .. Len(s) : t[i] = s[i]
         /\ \A i \in DOMAIN t : i \notin 1 .. Len(s) => \E j \in 1 .. n : t[i] = f[j]
<1>1. f \in Seq(S) /\ Len(f) = n
  OBVIOUS
<1>2. t \in Seq(S) /\ Len(t) = Len(s) + n /\ \A i \in 1 .. Len(s) : t[i] = s[i]
  <2>1. t \in Seq(S)
    <3>1. \A a, b \in Seq(S) : a \o b \in Seq(S)
      OBVIOUS
    <3>. QED
      BY <1>1, <3>1, Zenon
  <2>2. Len(t) = Len(s) + n
    <3>1. \A a, b \in Seq(S) : Len(a \o b) = Len(a) + Len(b)
      OBVIOUS
    <3>. QED
      BY <1>1, <3>1, Zenon
  <2>3. \A i \in 1 .. Len(s) : t[i] = s[i]
    BY <1>1
  <2>. QED
    BY <2>1, <2>2, <2>3
<1>3. ASSUME NEW i \in DOMAIN t, i \notin 1 .. Len(s)
      PROVE  \E j \in 1 .. n : t[i] = f[j]
  <2>1. i - Len(s) \in 1 .. n /\ t[i] = f[i - Len(s)]
    BY <1>1, <1>2, <1>3
  <2>. QED
    BY <2>1
<1>. QED
  BY <1>2, <1>3

LEMMA MissedFinite ==
  ASSUME NEW S, NEW s \in Seq(S), NEW m, NEW on
  PROVE  IsFiniteSet(MissedBy(s, m, on)) /\ Cardinality(MissedBy(s, m, on)) \in Nat
<1>1. MissedBy(s, m, on) \subseteq 1 .. Len(s) /\ Len(s) \in Nat
  BY DEF MissedBy
<1>2. IsFiniteSet(1 .. Len(s))
  BY <1>1, FS_Interval
<1>. QED
  BY <1>1, <1>2, FS_Subset, FS_CardinalityType

OneMore(t, s, e, m, on) ==
  Cardinality(MissedBy(t, m, on)) =
    IF Missed(e, m, on) THEN Cardinality(MissedBy(s, m, on)) + 1 ELSE Cardinality(MissedBy(s, m, on))

\* One more row is missed by at most one model.
LEMMA MissedAppended ==
  ASSUME NEW S, NEW s \in Seq(S), NEW e \in S, NEW t, t = Append(s, e), NEW m, NEW on
  PROVE  OneMore(t, s, e, m, on)
<1>1. /\ Len(s) \in Nat /\ DOMAIN s = 1 .. Len(s) /\ DOMAIN t = 1 .. Len(s) + 1
      /\ t[Len(s) + 1] = e /\ \A i \in 1 .. Len(s) : t[i] = s[i]
  <2>1. Len(s) \in Nat /\ DOMAIN s = 1 .. Len(s)
    OBVIOUS
  <2>. QED
    BY <2>1
<1>2. IsFiniteSet(MissedBy(s, m, on)) /\ Cardinality(MissedBy(s, m, on)) \in Nat
  BY MissedFinite
<1>3. CASE Missed(e, m, on)
  <2>1. MissedBy(t, m, on) = MissedBy(s, m, on) \cup {Len(s) + 1}
    BY <1>1, <1>3 DEF MissedBy
  <2>2. Len(s) + 1 \notin MissedBy(s, m, on)
    BY <1>1 DEF MissedBy
  <2>. QED
    BY <1>2, <1>3, <2>1, <2>2, FS_AddElement DEF OneMore
<1>4. CASE ~Missed(e, m, on)
  <2>1. MissedBy(t, m, on) = MissedBy(s, m, on)
    BY <1>1, <1>4 DEF MissedBy
  <2>. QED
    BY <1>2, <1>4, <2>1 DEF OneMore
<1>. QED
  BY <1>3, <1>4

Sums == [rows : Nat, unknown : Nat, skipped : Nat, errors : Nat]
Lost(s) == s.unknown + s.skipped + s.errors

LEMMA CountOf ==
  ASSUME NEW s \in Sums, NEW c \in Verdicts, NEW t, t = Count(s, c, 1)
  PROVE  /\ t \in Sums
         /\ t.rows = s.rows + (IF c = "rows" THEN 1 ELSE 0)
         /\ Lost(t) = Lost(s) + (IF c = "rows" THEN 0 ELSE 1)
<1>1. CASE c = "rows"
  <2>1. t = [s EXCEPT !.rows = @ + 1]
    BY <1>1 DEF Count
  <2>. QED
    BY <1>1, <2>1 DEF Sums, Lost
<1>2. CASE c = "unknown"
  <2>1. t = [s EXCEPT !.unknown = @ + 1]
    BY <1>2 DEF Count
  <2>. QED
    BY <1>2, <2>1 DEF Sums, Lost
<1>3. CASE c = "skipped"
  <2>1. t = [s EXCEPT !.skipped = @ + 1]
    BY <1>3 DEF Count
  <2>. QED
    BY <1>3, <2>1 DEF Sums, Lost
<1>4. CASE c = "errors"
  <2>1. t = [s EXCEPT !.errors = @ + 1]
    BY <1>4 DEF Count
  <2>. QED
    BY <1>4, <2>1 DEF Sums, Lost
<1>. QED
  BY <1>1, <1>2, <1>3, <1>4 DEF Verdicts

LEMMA AddedOf ==
  ASSUME NEW s \in Sums, NEW n, \A c \in Verdicts : n[c] \in Nat,
         NEW t, t = [c \in DOMAIN s |-> s[c] + n[c]]
  PROVE  /\ t \in Sums /\ t.rows = s.rows + n["rows"]
         /\ Lost(t) = Lost(s) + (n["unknown"] + n["skipped"] + n["errors"])
<1>1. DOMAIN s = Verdicts
  BY DEF Sums, Verdicts
<1>2. /\ s.rows \in Nat /\ s.unknown \in Nat /\ s.skipped \in Nat /\ s.errors \in Nat
  BY DEF Sums
<1>3. /\ n["rows"] \in Nat /\ n["unknown"] \in Nat /\ n["skipped"] \in Nat /\ n["errors"] \in Nat
  BY DEF Verdicts
<1>4. /\ t.rows = s.rows + n["rows"] /\ t.unknown = s.unknown + n["unknown"]
      /\ t.skipped = s.skipped + n["skipped"] /\ t.errors = s.errors + n["errors"]
  BY <1>1 DEF Verdicts
<1>5. t = [rows |-> t.rows, unknown |-> t.unknown, skipped |-> t.skipped, errors |-> t.errors]
  BY <1>1 DEF Verdicts
<1>6. t \in Sums
  BY <1>2, <1>3, <1>4, <1>5 DEF Sums
<1>. QED
  BY <1>2, <1>3, <1>4, <1>6 DEF Lost

-----------------------------------------------------------------------------
(* The inductive invariant *)

PointsOf(h, i) ==
  IF Request(h).signal = "logs" THEN {1} ELSE DOMAIN Request(h).items[i].points

\* What a handler is at and what it has made so far.
Typed(h) ==
  /\ req[h] \in DOMAIN Requests \cup {"none"}
  /\ at[h] \in 1 .. Len(Request(h).items) + 1
  /\ held[h] \in 1 .. Len(published) /\ since[h] \in 1 .. Len(published)
  /\ out[h] \in Seq(Produced)

\* Usage that waits for its price was found worth one, and the table it is priced by is in use
\* since the request came.
Costing(h) ==
  pc[h] = "costing" =>
    /\ Request(h).signal = "logs" /\ at[h] <= Len(Request(h).items)
    /\ CurrentItem(h) \in Billed /\ enabled /\ since[h] <= held[h]

\* Each row is accounted for by the tables, and each without a price by the counters.
Booked(h) ==
  /\ \A i \in DOMAIN out[h] : Accounted(out[h][i], since[h], published, enabled)
  /\ \A m \in Names : Cardinality(MissedBy(out[h], m, enabled)) <= unmatched[m]

\* The summary, the rows and the items passed.
Told(h) ==
  /\ sum[h].rows = Len(out[h]) /\ IsFiniteSet(Seen(h))
  /\ Lost(sum[h]) = 0 => Len(out[h]) = Cardinality(Seen(h))
  /\ Request(h).signal = "logs" => /\ Len(out[h]) + Lost(sum[h]) = at[h] - 1
                                   /\ Cardinality(Seen(h)) = at[h] - 1

HandlerOK(h) == Typed(h) /\ Costing(h) /\ Booked(h) /\ Told(h)

Shape ==
  /\ pc \in [Handlers -> {"idle", "items", "costing"}] /\ sum \in [Handlers -> Sums]
  /\ DOMAIN req = Handlers /\ DOMAIN at = Handlers /\ DOMAIN held = Handlers
  /\ DOMAIN out = Handlers /\ DOMAIN since = Handlers
  /\ unmatched \in [Names -> Nat] /\ stopping \in BOOLEAN
  /\ refresh \in {"fetch", "publish", "publish stats", "failed", "select", "ended"}

RowInv == IInv /\ Shape /\ \A h \in Handlers : HandlerOK(h)

-----------------------------------------------------------------------------
LEMMA RequestOf ==
  ASSUME NEW h, req[h] \in DOMAIN Requests \cup {"none"}
  PROVE  /\ Request(h).signal \in {"logs", "metrics"}
         /\ Len(Request(h).items) \in Nat /\ DOMAIN Request(h).items = 1 .. Len(Request(h).items)
         /\ \A i \in 1 .. Len(Request(h).items) :
              /\ Request(h).signal = "logs" => Request(h).items[i] \in Logs
              /\ Request(h).signal = "metrics" => Request(h).items[i] \in Samples
<1>1. CASE req[h] = "none"
  <2>1. Request(h) = [signal |-> "logs", items |-> <<>>]
    BY <1>1 DEF Request, NoRequest
  <2>. QED
    BY <2>1
<1>2. CASE req[h] # "none"
  <2>1. req[h] \in DOMAIN Requests /\ Request(h) = Requests[req[h]]
    BY <1>2 DEF Request
  <2>2. /\ Request(h).signal \in {"logs", "metrics"}
        /\ Len(Request(h).items) \in Nat /\ DOMAIN Request(h).items = 1 .. Len(Request(h).items)
    BY <2>1, RequestAssumption, Zenon DEF RequestAssumption, IsRequest
  <2>3. ASSUME NEW i \in DOMAIN Request(h).items
        PROVE  /\ Request(h).signal = "logs" => Request(h).items[i] \in Logs
               /\ Request(h).signal = "metrics" => Request(h).items[i] \in Samples
    <3>1. \A r \in DOMAIN Requests : \A j \in DOMAIN Requests[r].items :
            /\ Requests[r].signal = "logs" => Requests[r].items[j] \in Logs
            /\ Requests[r].signal = "metrics" => Requests[r].items[j] \in Samples
      BY DEF Logs, Samples
    <3>. QED
      BY <2>1, <3>1
  <2>. QED
    BY <2>2, <2>3
<1>. QED
  BY <1>1, <1>2

LEMMA PointsFinite ==
  ASSUME NEW h, req[h] \in DOMAIN Requests \cup {"none"}, NEW i \in 1 .. Len(Request(h).items)
  PROVE  IsFiniteSet(PointsOf(h, i)) /\ Cardinality(PointsOf(h, i)) \in Nat
<1>1. CASE Request(h).signal = "logs"
  <2>1. PointsOf(h, i) = {1}
    BY <1>1 DEF PointsOf
  <2>2. IsFiniteSet({1}) /\ Cardinality({1}) = 1
    BY FS_Singleton, Zenon
  <2>. QED
    BY <2>1, <2>2
<1>2. CASE Request(h).signal # "logs"
  <2>1. Request(h).items[i] \in Samples /\ PointsOf(h, i) = DOMAIN Request(h).items[i].points
    BY <1>2, RequestOf DEF PointsOf
  <2>2. IsMetric(Request(h).items[i])
    BY <2>1, WhatIsSent, Zenon
  <2>3. /\ Len(Request(h).items[i].points) \in Nat
        /\ PointsOf(h, i) = 1 .. Len(Request(h).items[i].points)
    BY <2>1, <2>2 DEF IsMetric
  <2>4. \A n \in Nat : IsFiniteSet(1 .. n)
    BY FS_Interval
  <2>5. IsFiniteSet(PointsOf(h, i))
    BY <2>3, <2>4, Zenon
  <2>. QED
    BY <2>5, FS_CardinalityType, Zenon
<1>. QED
  BY <1>1, <1>2

LEMMA LinedUp ==
  ASSUME NEW a, NEW P, IsFiniteSet(P)
  PROVE  IsFiniteSet({a} \X P) /\ Cardinality({a} \X P) = Cardinality(P)
<1>. DEFINE f == [p \in P |-> <<a, p>>]
<1>1. f \in Bijection(P, {a} \X P)
  <2>1. f \in [P -> {a} \X P]
    OBVIOUS
  <2>2. \A x, y \in P : f[x] = f[y] => x = y
    <3>1. \A x \in P : f[x][2] = x
      OBVIOUS
    <3>. QED
      BY <3>1, Zenon
  <2>3. \A q \in {a} \X P : \E x \in P : f[x] = q
    OBVIOUS
  <2>. HIDE DEF f
  <2>. QED
    BY <2>1, <2>2, <2>3, Zenon DEF Bijection, Injection, Surjection, IsInjective
<1>. QED
  BY <1>1, FS_Bijection DEF ExistsBijection

\* Passing one more item adds its points.
LEMMA SeenGrows ==
  ASSUME NEW h, Typed(h), IsFiniteSet(Seen(h)), at[h] <= Len(Request(h).items),
         req'[h] = req[h], at'[h] = at[h] + 1
  PROVE  /\ IsFiniteSet(Seen(h)') /\ Cardinality(Seen(h)) \in Nat
         /\ Cardinality(PointsOf(h, at[h])) \in Nat
         /\ Cardinality(Seen(h)') = Cardinality(Seen(h)) + Cardinality(PointsOf(h, at[h]))
<1>. DEFINE a == at[h]
            P == PointsOf(h, a)
            old == Seen(h)
            new == Seen(h)'
<1>1. a \in Nat \ {0} /\ a \in 1 .. Len(Request(h).items)
  BY RequestOf DEF Typed
<1>2. IsFiniteSet(P) /\ Cardinality(P) \in Nat
  BY <1>1, PointsFinite, Zenon DEF Typed
<1>3. old = UNION {{i} \X PointsOf(h, i) : i \in 1 .. a - 1}
  BY Zenon DEF Seen, PointsOf
<1>4. new = UNION {{i} \X PointsOf(h, i) : i \in 1 .. (a + 1) - 1}
  <2>1. Request(h)' = Request(h)
    BY DEF Request
  <2>. QED
    BY <2>1, Zenon DEF Seen, PointsOf
<1>5. (1 .. (a + 1) - 1) = (1 .. a - 1) \cup {a} /\ a \notin 1 .. a - 1
  BY <1>1
<1>. HIDE DEF P, a
<1>6. new = old \cup ({a} \X P)
  <2>1. \A q : q \in new <=> \E i \in 1 .. (a + 1) - 1 : q \in {i} \X PointsOf(h, i)
    BY <1>4, Zenon
  <2>2. \A q : q \in old <=> \E i \in 1 .. a - 1 : q \in {i} \X PointsOf(h, i)
    BY <1>3, Zenon
  <2>. HIDE DEF old, new
  <2>3. \A q : q \in new <=> q \in old \/ q \in {a} \X P
    BY <1>5, <2>1, <2>2 DEF P
  <2>. QED
    BY <2>3
<1>7. old \cap ({a} \X P) = {}
  <2>. SUFFICES ASSUME NEW q \in old, q \in {a} \X P PROVE FALSE
    OBVIOUS
  <2>1. PICK i \in 1 .. a - 1 : q \in {i} \X PointsOf(h, i)
    BY <1>3, Zenon
  <2>2. q[1] = i /\ q[1] = a
    BY <2>1
  <2>. QED
    BY <1>5, <2>1, <2>2
<1>8. IsFiniteSet({a} \X P) /\ Cardinality({a} \X P) = Cardinality(P)
  BY <1>2, LinedUp, Zenon
<1>. HIDE DEF old, new
<1>9. IsFiniteSet(old) /\ Cardinality(old) \in Nat
  BY FS_CardinalityType, Zenon DEF old
<1>10. /\ IsFiniteSet(new)
       /\ Cardinality(new) = Cardinality(old) + Cardinality({a} \X P) - Cardinality(old \cap ({a} \X P))
  BY <1>6, <1>8, <1>9, FS_Union, Zenon
<1>11. Cardinality(old \cap ({a} \X P)) = 0
  BY <1>7, FS_EmptySet, Zenon
<1>12. Cardinality(new) = Cardinality(old) + Cardinality(P)
  BY <1>2, <1>8, <1>9, <1>10, <1>11
<1>. QED
  BY <1>2, <1>9, <1>10, <1>12 DEF a, P, old, new

\* A handler that does nothing keeps what it has, while tables and counters grow.
LEMMA Untouched ==
  ASSUME NEW h, HandlerOK(h), published \in Seq(PriceTables), published' \in Seq(PriceTables),
         Len(published) <= Len(published'),
         \A v \in 1 .. Len(published) : published'[v] = published[v],
         pc'[h] = pc[h], req'[h] = req[h], at'[h] = at[h], held'[h] = held[h],
         sum'[h] = sum[h], out'[h] = out[h], since'[h] = since[h], enabled' = enabled,
         unmatched \in [Names -> Nat], unmatched' \in [Names -> Nat],
         \A m \in Names : unmatched[m] <= unmatched'[m]
  PROVE  HandlerOK(h)'
<1>1. Request(h)' = Request(h) /\ Seen(h)' = Seen(h)
  <2>1. Request(h)' = Request(h)
    BY DEF Request
  <2>. QED
    BY <2>1, Zenon DEF Seen
<1>2. Len(published) \in Nat /\ Len(published') \in Nat
  OBVIOUS
<1>3. Typed(h)'
  BY <1>1, <1>2 DEF HandlerOK, Typed
<1>4. Costing(h)'
  BY <1>1 DEF HandlerOK, Costing, CurrentItem
<1>5. Told(h)'
  BY <1>1 DEF HandlerOK, Told
<1>6. since[h] \in Nat \ {0}
  BY <1>2 DEF HandlerOK, Typed
<1>7. \A i \in DOMAIN out[h] : Accounted(out[h][i], since[h], published', enabled)
  BY <1>2, <1>6, AccountedStill, Zenon DEF HandlerOK, Booked
<1>8. \A m \in Names : Cardinality(MissedBy(out[h], m, enabled)) <= unmatched'[m]
  <2>. TAKE m \in Names
  <2>1. Cardinality(MissedBy(out[h], m, enabled)) \in Nat
    BY MissedFinite, Zenon DEF HandlerOK, Typed
  <2>2. Cardinality(MissedBy(out[h], m, enabled)) <= unmatched[m]
    BY DEF HandlerOK, Booked
  <2>3. unmatched[m] \in Nat /\ unmatched'[m] \in Nat /\ unmatched[m] <= unmatched'[m]
    OBVIOUS
  <2>. QED
    BY <2>1, <2>2, <2>3
<1>9. Booked(h)'
  BY <1>7, <1>8 DEF Booked
<1>. QED
  BY <1>3, <1>4, <1>5, <1>9 DEF HandlerOK

\* What a handler has, and the tables, are as they were.
Still(g) ==
  /\ pc'[g] = pc[g] /\ req'[g] = req[g] /\ at'[g] = at[g] /\ held'[g] = held[g]
  /\ sum'[g] = sum[g] /\ out'[g] = out[g] /\ since'[g] = since[g]

\* The counters of unmatched models only grow.
Counting == /\ unmatched' \in [Names -> Nat]
            /\ \A m \in Names : unmatched[m] <= unmatched'[m]

LEMMA NoCounting == unmatched \in [Names -> Nat] /\ unmatched' = unmatched => Counting
BY DEF Counting

LEMMA TablesAre == RowInv => published \in Seq(PriceTables) /\ Len(published) \in Nat \ {0}
<1>. SUFFICES ASSUME RowInv PROVE published \in Seq(PriceTables) /\ Len(published) \in Nat \ {0}
  OBVIOUS
<1>1. published \in Seq(PriceTables) /\ published # <<>>
  BY DEF RowInv, IInv, TablesOK
<1>. QED
  BY <1>1

\* A step of one handler leaves the others as they were.
LEMMA OthersKeep ==
  ASSUME RowInv, NEW h \in Handlers, published' = published, enabled' = enabled, Counting,
         \A g \in Handlers \ {h} : Still(g), HandlerOK(h)'
  PROVE  \A g \in Handlers : HandlerOK(g)'
<1>1. published \in Seq(PriceTables) /\ Len(published) \in Nat
  BY TablesAre
<1>2. Len(published) <= Len(published')
  BY <1>1
<1>3. ASSUME NEW g \in Handlers \ {h} PROVE HandlerOK(g)'
  <2>1. HandlerOK(g) /\ Still(g) /\ unmatched \in [Names -> Nat]
    BY DEF RowInv, Shape
  <2>. QED
    BY <1>1, <1>2, <2>1, Untouched, Zenon DEF Still, Counting
<1>4. ASSUME NEW g \in Handlers, g # h PROVE HandlerOK(g)'
  BY <1>3, <1>4
<1>. QED
  BY <1>4, Zenon

\* A step of the engine leaves the handlers as they were.
LEMMA EngineKeeps ==
  ASSUME RowInv, published' \in Seq(PriceTables), Len(published) <= Len(published'),
         \A v \in 1 .. Len(published) : published'[v] = published[v],
         enabled' = enabled, UNCHANGED handlerVars
  PROVE  \A g \in Handlers : HandlerOK(g)'
<1>. TAKE g \in Handlers
<1>1. published \in Seq(PriceTables)
  BY TablesAre
<1>2. unmatched \in [Names -> Nat] /\ unmatched' = unmatched /\ HandlerOK(g)
  BY DEF RowInv, Shape, handlerVars
<1>3. \A m \in Names : unmatched[m] <= unmatched'[m]
  BY <1>2
<1>4. Still(g)
  BY DEF handlerVars, Still
<1>. QED
  BY <1>1, <1>2, <1>3, <1>4, Untouched, Zenon DEF Still

\* One more row is accounted for.
LEMMA BookedAppended ==
  ASSUME NEW h, out[h] \in Seq(Produced), Booked(h), NEW e \in Produced,
         out'[h] = Append(out[h], e), since'[h] = since[h], published' = published,
         enabled' = enabled, Accounted(e, since[h], published, enabled),
         unmatched \in [Names -> Nat], unmatched' \in [Names -> Nat],
         \A m \in Names :
           /\ Missed(e, m, enabled) => unmatched[m] + 1 <= unmatched'[m]
           /\ ~Missed(e, m, enabled) => unmatched[m] <= unmatched'[m]
  PROVE  Booked(h)'
<1>. DEFINE s == out[h]
            t == out'[h]
<1>1. s \in Seq(Produced) /\ t = Append(s, e)
  OBVIOUS
<1>. HIDE DEF s, t
<1>2. /\ DOMAIN t = 1 .. Len(s) + 1 /\ t[Len(s) + 1] = e /\ \A i \in 1 .. Len(s) : t[i] = s[i]
      /\ Len(s) \in Nat /\ DOMAIN s = 1 .. Len(s)
  <2>1. /\ DOMAIN t = 1 .. Len(s) + 1 /\ t[Len(s) + 1] = e /\ \A i \in 1 .. Len(s) : t[i] = s[i]
    BY <1>1, AppendOf
  <2>2. Len(s) \in Nat /\ DOMAIN s = 1 .. Len(s)
    <3>1. \A q \in Seq(Produced) : Len(q) \in Nat /\ DOMAIN q = 1 .. Len(q)
      OBVIOUS
    <3>. QED
      BY <1>1, <3>1, Zenon
  <2>. QED
    BY <2>1, <2>2
<1>3. ASSUME NEW i \in DOMAIN t PROVE Accounted(t[i], since[h], published, enabled)
  <2>1. i = Len(s) + 1 \/ i \in DOMAIN s
    BY <1>2
  <2>2. ASSUME i \in DOMAIN s PROVE Accounted(t[i], since[h], published, enabled)
    <3>1. t[i] = s[i]
      BY <1>2, <2>2
    <3>. QED
      BY <2>2, <3>1, Zenon DEF Booked, s
  <2>. QED
    BY <1>2, <2>1, <2>2, Zenon
<1>4. ASSUME NEW m \in Names PROVE Cardinality(MissedBy(t, m, enabled)) <= unmatched'[m]
  <2>. DEFINE was == Cardinality(MissedBy(s, m, enabled))
              is  == Cardinality(MissedBy(t, m, enabled))
  <2>1. /\ Missed(e, m, enabled) => is = was + 1
        /\ ~Missed(e, m, enabled) => is = was
    <3>1. OneMore(t, s, e, m, enabled)
      BY <1>1, MissedAppended, Zenon
    <3>. QED
      BY <3>1, Zenon DEF OneMore, was, is
  <2>2. was \in Nat
    BY <1>1, MissedFinite, Zenon
  <2>3. was <= unmatched[m]
    BY DEF Booked, s
  <2>4. /\ unmatched[m] \in Nat /\ unmatched'[m] \in Nat
        /\ Missed(e, m, enabled) => unmatched[m] + 1 <= unmatched'[m]
        /\ ~Missed(e, m, enabled) => unmatched[m] <= unmatched'[m]
    OBVIOUS
  <2>. HIDE DEF was, is
  <2>5. is <= unmatched'[m]
    <3>1. CASE Missed(e, m, enabled)
      BY <2>1, <2>2, <2>3, <2>4, <3>1
    <3>2. CASE ~Missed(e, m, enabled)
      BY <2>1, <2>2, <2>3, <2>4, <3>2
    <3>. QED
      BY <3>1, <3>2
  <2>. QED
    BY <2>5 DEF is
<1>. QED
  BY <1>3, <1>4, Zenon DEF Booked, t

\* One more log record is told of.
LEMMA ToldLog ==
  ASSUME NEW h, Typed(h), Told(h), Request(h).signal = "logs", at[h] <= Len(Request(h).items),
         req'[h] = req[h], at'[h] = at[h] + 1, NEW v \in Verdicts,
         sum[h] \in Sums, sum'[h] = Count(sum[h], v, 1),
         v = "rows" => Len(out'[h]) = Len(out[h]) + 1, v # "rows" => Len(out'[h]) = Len(out[h])
  PROVE  Told(h)'
<1>. DEFINE n == Len(out[h])
            n1 == Len(out'[h])
            c == Cardinality(Seen(h))
            c1 == Cardinality(Seen(h)')
            s == sum[h]
            s1 == sum'[h]
            a == at[h]
            r == IF v = "rows" THEN 1 ELSE 0
<1>1. n \in Nat /\ a \in Nat
  <2>1. out[h] \in Seq(Produced) /\ at[h] \in 1 .. Len(Request(h).items) + 1
        /\ Len(Request(h).items) \in Nat
    BY RequestOf, Zenon DEF Typed
  <2>. QED
    BY <2>1
<1>2. Cardinality(PointsOf(h, a)) = 1
  <2>1. PointsOf(h, a) = {1}
    BY DEF PointsOf
  <2>. QED
    BY <2>1, FS_Singleton, Zenon
<1>3. IsFiniteSet(Seen(h)') /\ c \in Nat /\ c1 = c + Cardinality(PointsOf(h, a))
  BY SeenGrows, Zenon DEF Told
<1>4. s1.rows = s.rows + r /\ Lost(s1) = Lost(s) + (IF v = "rows" THEN 0 ELSE 1)
  BY CountOf
<1>5. Lost(s) \in Nat
  BY DEF Sums, Lost
<1>6. s.rows = n /\ n + Lost(s) = a - 1 /\ c = a - 1
  BY Zenon DEF Told
<1>7. n1 = n + r /\ r \in Nat /\ a + 1 = at'[h] /\ Request(h)' = Request(h)
  <2>1. /\ v = "rows" => n1 = n + 1 /\ r = 1
        /\ v # "rows" => n1 = n /\ r = 0
    OBVIOUS
  <2>2. a + 1 = at'[h] /\ Request(h)' = Request(h)
    BY DEF Request
  <2>. HIDE DEF n1, n, r, a
  <2>. QED
    BY <1>1, <2>1, <2>2
<1>. HIDE DEF n, n1, c, c1, s, s1, a
<1>8. s1.rows = n1 /\ n1 + Lost(s1) = (a + 1) - 1 /\ c1 = (a + 1) - 1
  BY <1>1, <1>2, <1>3, <1>4, <1>5, <1>6, <1>7
<1>9. Lost(s1) = 0 => n1 = c1
  <2>1. Lost(s1) \in Nat /\ n1 \in Nat
    BY <1>1, <1>4, <1>5, <1>7
  <2>. QED
    BY <1>8, <2>1, <1>1
<1>10. n1 = Len(out[h])' /\ s1 = sum[h]' /\ c1 = Cardinality(Seen(h))' /\ a + 1 = at[h]' /\ Lost(s1) = Lost(sum[h])'
  BY <1>7 DEF n1, s1, c1, a, Lost
<1>. HIDE DEF r
<1>11. (Lost(sum[h]) = 0 => Len(out[h]) = Cardinality(Seen(h)))'
  BY <1>9, <1>10
<1>12. (Len(out[h]) + Lost(sum[h]) = at[h] - 1 /\ Cardinality(Seen(h)) = at[h] - 1)'
  BY <1>8, <1>10
<1>13. (sum[h].rows = Len(out[h]))'
  BY <1>8, <1>10
<1>. QED
  BY <1>3, <1>11, <1>12, <1>13, Zenon DEF Told

-----------------------------------------------------------------------------
(* Steps of a handler *)

\* What a handler starts its next request with.
LEMMA ExportKeeps ==
  ASSUME RowInv, NEW h \in Handlers, Export(h)
  PROVE  Shape' /\ \A g \in Handlers : HandlerOK(g)'
<1>1. PICK r \in Sends[IF enabled THEN "priced" ELSE "plain"][h] : req' = [req EXCEPT ![h] = r]
  BY DEF Export
<1>2. r \in DOMAIN Requests
  <2>1. Sends \in [{"priced", "plain"} -> [Handlers -> SUBSET DOMAIN Requests]]
    BY IngestAssumption DEF IngestAssumption
  <2>. QED
    BY <1>1, <2>1
<1>3. Shape
  BY DEF RowInv
<1>4. /\ pc'[h] = "items" /\ req'[h] = r /\ at'[h] = 1 /\ held'[h] = held[h] /\ sum'[h] = ZeroSum
      /\ out'[h] = <<>> /\ since'[h] = Len(published)
      /\ published' = published /\ enabled' = enabled /\ unmatched' = unmatched
  BY <1>1, <1>3 DEF Export, Shape, engineVars
<1>5. \A g \in Handlers \ {h} : Still(g)
  BY <1>1, <1>3 DEF Export, Shape, Still
<1>6. ZeroSum \in Sums
  BY DEF ZeroSum, Sums
<1>7. Shape'
  BY <1>1, <1>3, <1>6 DEF Export, Shape, engineVars
<1>8. Len(Request(h)'.items) \in Nat
  <2>1. IsRequest(Requests[r]) /\ NoRequest.items = <<>>
    BY <1>2, RequestAssumption DEF RequestAssumption, NoRequest
  <2>2. Len(<<>>) \in Nat
    OBVIOUS
  <2>3. Request(h)' = Requests[r] \/ Request(h)' = NoRequest
    BY <1>4 DEF Request
  <2>. QED
    BY <2>1, <2>2, <2>3 DEF IsRequest
<1>9. Typed(h)'
  <2>1. Len(published) \in Nat \ {0} /\ held[h] \in 1 .. Len(published)
    BY TablesAre DEF RowInv, HandlerOK, Typed
  <2>2. <<>> \in Seq(Produced) /\ 1 \in 1 .. Len(Request(h)'.items) + 1
    BY <1>8
  <2>. QED
    BY <1>2, <1>4, <2>1, <2>2 DEF Typed
<1>10. Costing(h)'
  BY <1>4 DEF Costing
<1>11. Booked(h)'
  <2>1. \A m : MissedBy(<<>>, m, enabled) = {}
    BY DEF MissedBy
  <2>2. \A m \in Names : Cardinality(MissedBy(<<>>, m, enabled)) = 0 /\ 0 <= unmatched[m]
    <3>1. \A m \in Names : unmatched[m] \in Nat
      BY <1>3 DEF Shape
    <3>2. Cardinality({}) = 0
      BY FS_EmptySet, Zenon
    <3>3. \A m \in Names : 0 <= unmatched[m]
      BY <3>1
    <3>. QED
      BY <2>1, <3>2, <3>3, Zenon
  <2>3. DOMAIN <<>> = {}
    OBVIOUS
  <2>. QED
    BY <1>4, <2>2, <2>3 DEF Booked
<1>12. Told(h)'
  <2>1. Seen(h)' = {}
    <3>1. 1 .. 1 - 1 = {}
      OBVIOUS
    <3>. QED
      BY <1>4, <3>1 DEF Seen
  <2>2. IsFiniteSet({}) /\ Cardinality({}) = 0
    BY FS_EmptySet, Zenon
  <2>3. ZeroSum.rows = 0 /\ Lost(ZeroSum) = 0 /\ Len(<<>>) = 0
    BY DEF ZeroSum, Lost
  <2>4. (Lost(sum[h]))' = 0
    BY <1>4, <2>3 DEF Lost
  <2>. QED
    BY <1>4, <2>1, <2>2, <2>3, <2>4 DEF Told
<1>13. HandlerOK(h)'
  BY <1>9, <1>10, <1>11, <1>12 DEF HandlerOK
<1>14. Counting
  BY <1>3, <1>4, NoCounting DEF Shape, Counting
<1>. QED
  BY <1>4, <1>5, <1>7, <1>13, <1>14, OthersKeep, Zenon

\* A handler that replies is where the last item left it.
LEMMA ReplyKeeps ==
  ASSUME RowInv, NEW h \in Handlers, Reply(h)
  PROVE  Shape' /\ \A g \in Handlers : HandlerOK(g)'
<1>3. Shape /\ HandlerOK(h)
  BY DEF RowInv
<1>4. /\ pc'[h] = "idle" /\ req' = req /\ at' = at /\ held' = held /\ sum' = sum
      /\ out' = out /\ since' = since
      /\ published' = published /\ enabled' = enabled /\ unmatched' = unmatched
  BY <1>3 DEF Reply, Shape, engineVars
<1>5. \A g \in Handlers \ {h} : Still(g)
  BY <1>3, <1>4 DEF Reply, Shape, Still
<1>6. Shape'
  BY <1>3, <1>4 DEF Reply, Shape, engineVars
<1>7. Request(h)' = Request(h) /\ Seen(h)' = Seen(h)
  BY <1>4 DEF Request, Seen
<1>8. Typed(h)' /\ Costing(h)' /\ Booked(h)' /\ Told(h)'
  BY <1>3, <1>4, <1>7 DEF HandlerOK, Typed, Costing, Booked, Told
<1>9. Counting
  BY <1>3, <1>4, NoCounting DEF Shape
<1>. QED
  BY <1>4, <1>5, <1>6, <1>8, <1>9, OthersKeep, Zenon DEF HandlerOK

\* The item a handler is at is one that was sent.
LEMMA ItemSent ==
  ASSUME NEW h, Typed(h), at[h] <= Len(Request(h).items)
  PROVE  /\ Request(h).signal = "logs" => CurrentItem(h) \in Logs
         /\ Request(h).signal = "metrics" => CurrentItem(h) \in Samples
         /\ at[h] \in Nat /\ at[h] + 1 \in 1 .. Len(Request(h).items) + 1
<1>1. at[h] \in 1 .. Len(Request(h).items) /\ Len(Request(h).items) \in Nat
  BY RequestOf DEF Typed
<1>2. at[h] \in Nat /\ at[h] + 1 \in 1 .. Len(Request(h).items) + 1
  BY <1>1
<1>. QED
  BY <1>1, <1>2, RequestOf, Zenon DEF Typed, CurrentItem

LEMMA VerdictOf == \A item : Verdict(item) \in Verdicts
BY DEF Verdict, Verdicts

\* A log record is done with.
LEMMA LogPassed ==
  ASSUME RowInv, NEW h \in Handlers,
         Request(h).signal = "logs", at[h] <= Len(Request(h).items),
         pc'[h] = "items", req'[h] = req[h], at'[h] = at[h] + 1, held'[h] = held[h],
         since'[h] = since[h], published' = published, NEW v \in Verdicts,
         sum'[h] = Count(sum[h], v, 1), out'[h] \in Seq(Produced),
         v = "rows" => Len(out'[h]) = Len(out[h]) + 1, v # "rows" => Len(out'[h]) = Len(out[h]),
         Booked(h)'
  PROVE  HandlerOK(h)'
<1>1. HandlerOK(h) /\ Typed(h) /\ Told(h) /\ sum[h] \in Sums
  BY DEF RowInv, HandlerOK, Shape
<1>2. at[h] + 1 \in 1 .. Len(Request(h).items) + 1
  BY <1>1, ItemSent
<1>3. Request(h)' = Request(h)
  BY DEF Request
<1>4. Typed(h)'
  BY <1>1, <1>2, <1>3 DEF Typed
<1>5. Costing(h)'
  BY DEF Costing
<1>7. Told(h)'
  BY <1>1, ToldLog
<1>. QED
  BY <1>4, <1>5, <1>7 DEF HandlerOK

LEMMA DispatchEventKeeps ==
  ASSUME RowInv, NEW h \in Handlers, DispatchEvent(h)
  PROVE  Shape' /\ \A g \in Handlers : HandlerOK(g)'
<1>. DEFINE item == CurrentItem(h)
            v    == Verdict(item)
            kind == EventKind[EventName(item)]
            e    == EventRow(kind, item)
<1>1. Shape /\ HandlerOK(h) /\ Typed(h)
  BY DEF RowInv, HandlerOK
<1>2. /\ pc[h] = "items" /\ Request(h).signal = "logs" /\ at[h] <= Len(Request(h).items)
      /\ ~(v = "rows" /\ kind = "codex_token_usage" /\ enabled /\ ValidUsage(e.row))
      /\ sum' = [sum EXCEPT ![h] = Count(@, v, 1)]
      /\ v = "rows" => out' = [out EXCEPT ![h] = Append(@, e)]
      /\ v # "rows" => out' = out
      /\ at' = [at EXCEPT ![h] = @ + 1]
      /\ pc' = pc /\ req' = req /\ held' = held /\ unmatched' = unmatched /\ since' = since
      /\ published' = published /\ enabled' = enabled /\ refresh' = refresh /\ stopping' = stopping
  BY Zenon DEF DispatchEvent, AtItem, Advance, engineVars
<1>3. v \in Verdicts
  BY VerdictOf
<1>4. item \in Logs /\ at[h] + 1 \in 1 .. Len(Request(h).items) + 1
  BY <1>1, <1>2, ItemSent
<1>. HIDE DEF item, v, kind, e
<1>5. /\ sum'[h] = Count(sum[h], v, 1) /\ at'[h] = at[h] + 1
      /\ v = "rows" => out'[h] = Append(out[h], e)
      /\ v # "rows" => out'[h] = out[h]
      /\ DOMAIN at' = Handlers /\ DOMAIN out' = Handlers
  BY <1>1, <1>2 DEF Shape
<1>6. \A g \in Handlers \ {h} : Still(g)
  BY <1>1, <1>2 DEF Shape, Still
<1>7. Shape'
  <2>1. sum[h] \in Sums
    BY <1>1 DEF Shape
  <2>2. Count(sum[h], v, 1) \in Sums
    BY <1>3, <2>1, CountOf
  <2>. QED
    BY <1>1, <1>2, <1>5, <2>2 DEF Shape
<1>8. ASSUME v = "rows" PROVE HandlerOK(h)'
  <2>1. item \in KeptLogs
    BY <1>4, <1>8 DEF KeptLogs, v
  <2>2. e \in Produced
    BY <2>1, Zenon DEF Produced, EventRows, e, kind
  <2>3. /\ e.kind = "codex_token_usage" => UsageRow(e) /\ e.row["cost_usd"] = Null
        /\ e.kind = kind
    BY <2>1, EventRowOK, Zenon DEF RowOK, e, kind
  <2>4. ~(e.kind = "codex_token_usage" /\ Priced(e, enabled))
    BY <1>2, <1>8, <2>3 DEF Priced, UsageRow
  <2>5. Accounted(e, since[h], published, enabled) /\ \A m : ~Missed(e, m, enabled)
    BY <2>3, <2>4, Zenon DEF Accounted, Missed
  <2>6. out[h] \in Seq(Produced) /\ out'[h] = Append(out[h], e)
    BY <1>1, <1>5, <1>8 DEF Typed
  <2>7. out'[h] \in Seq(Produced) /\ Len(out'[h]) = Len(out[h]) + 1
    BY <2>2, <2>6, AppendOf
  <2>8. Booked(h)'
    <3>1. \A m \in Names : /\ ~Missed(e, m, enabled)
                           /\ unmatched[m] <= unmatched'[m]
      <4>1. \A m \in Names : unmatched[m] \in Nat /\ unmatched'[m] = unmatched[m]
        BY <1>1, <1>2 DEF Shape
      <4>2. \A m \in Names : unmatched[m] <= unmatched'[m]
        BY <4>1
      <4>. QED
        BY <4>2, <2>5, Zenon
    <3>2. Booked(h) /\ unmatched \in [Names -> Nat] /\ unmatched' \in [Names -> Nat]
      BY <1>1, <1>2 DEF HandlerOK, Shape
    <3>. QED
      BY <1>2, <2>2, <2>5, <2>6, <3>1, <3>2, BookedAppended, Zenon
  <2>. QED
    BY <1>1, <1>2, <1>3, <1>5, <1>8, <2>7, <2>8, LogPassed, Zenon
<1>9. ASSUME v # "rows" PROVE HandlerOK(h)'
  <2>1. out'[h] = out[h]
    BY <1>5, <1>9
  <2>2. Booked(h)'
    BY <1>1, <1>2, <2>1 DEF HandlerOK, Booked
  <2>3. out'[h] \in Seq(Produced) /\ Len(out'[h]) = Len(out[h])
    BY <1>1, <2>1 DEF Typed
  <2>. QED
    BY <1>1, <1>2, <1>3, <1>5, <1>9, <2>2, <2>3, LogPassed, Zenon
<1>10. Counting
  BY <1>1, <1>2, NoCounting DEF Shape
<1>. QED
  BY <1>2, <1>6, <1>7, <1>8, <1>9, <1>10, OthersKeep, Zenon

LEMMA LoadTableKeeps ==
  ASSUME RowInv, NEW h \in Handlers, LoadTable(h)
  PROVE  Shape' /\ \A g \in Handlers : HandlerOK(g)'
<1>1. Shape /\ HandlerOK(h)
  BY DEF RowInv
<1>2. /\ Request(h).signal = "logs" /\ at[h] <= Len(Request(h).items)
      /\ Verdict(CurrentItem(h)) = "rows" /\ EventName(CurrentItem(h)) = "codex.sse_event"
      /\ enabled /\ ValidUsage(EventRow("codex_token_usage", CurrentItem(h)).row)
      /\ held' = [held EXCEPT ![h] = Len(published)] /\ pc' = [pc EXCEPT ![h] = "costing"]
      /\ req' = req /\ at' = at /\ sum' = sum /\ out' = out /\ since' = since
      /\ published' = published /\ enabled' = enabled /\ unmatched' = unmatched
      /\ refresh' = refresh /\ stopping' = stopping
  BY Zenon DEF LoadTable, AtItem, engineVars
<1>3. pc'[h] = "costing" /\ held'[h] = Len(published)
  BY <1>1, <1>2 DEF Shape
<1>4. \A g \in Handlers \ {h} : Still(g)
  BY <1>1, <1>2 DEF Shape, Still
<1>5. Shape'
  BY <1>1, <1>2 DEF Shape
<1>6. Request(h)' = Request(h) /\ Seen(h)' = Seen(h) /\ CurrentItem(h)' = CurrentItem(h)
  BY <1>2 DEF Request, Seen, CurrentItem
<1>7. Len(published) \in Nat \ {0}
  BY TablesAre
<1>8. Typed(h)'
  BY <1>1, <1>2, <1>3, <1>6, <1>7 DEF HandlerOK, Typed
<1>9. CurrentItem(h) \in Billed
  <2>1. CurrentItem(h) \in Logs
    BY <1>1, <1>2, ItemSent DEF HandlerOK
  <2>. QED
    BY <1>2, <2>1, Zenon DEF Billed, KeptLogs
<1>10. Costing(h)'
  <2>1. since[h] <= Len(published)
    BY <1>1 DEF HandlerOK, Typed
  <2>. QED
    BY <1>2, <1>3, <1>6, <1>9, <2>1 DEF Costing
<1>11. Booked(h)' /\ Told(h)'
  BY <1>1, <1>2, <1>6 DEF HandlerOK, Booked, Told
<1>12. Counting
  BY <1>1, <1>2, NoCounting DEF Shape
<1>. QED
  BY <1>2, <1>4, <1>5, <1>8, <1>10, <1>11, <1>12, OthersKeep, Zenon DEF HandlerOK

\* A row with the cost that its table gives.
PricedFrom(e, lo, model, cost) ==
  /\ e \in Produced /\ Accounted(e, lo, published, enabled) /\ model \in Names
  /\ \A m : Missed(e, m, enabled) <=> cost = NoRate /\ m = model

\* The cost a usage row gets is by the table its handler holds.
LEMMA CostedByHeld ==
  ASSUME NEW item \in Billed, NEW t \in Nat, NEW lo \in Nat, lo <= t, t \in 1 .. Len(published),
         published \in Seq(PriceTables), enabled,
         NEW parsed, parsed = EventRow("codex_token_usage", item),
         NEW cost, cost = Cost(Lookup(published[t], ModelOf[parsed.row["model"]]), CountsOf(parsed.row)),
         NEW value, cost = NoRate => value = Null,
         cost # NoRate => value = [type |-> "double", n |-> cost],
         NEW e, e = Costed(parsed, value)
  PROVE  PricedFrom(e, lo, ModelOf[parsed.row["model"]], cost)
<1>. DEFINE model == ModelOf[parsed.row["model"]]
<1>1. item \in KeptLogs /\ EventName(item) = "codex.sse_event"
  BY DEF Billed
<1>2. UsageRow(parsed)
  BY <1>1, UsageOf, Zenon
<1>3. /\ CountsOf(parsed.row).input \in Int /\ CountsOf(parsed.row).output \in Int
      /\ CountsOf(parsed.row).read \in Int /\ CountsOf(parsed.row).write \in Int
      /\ CountsOf(parsed.row).reasoning \in Int /\ model \in Names
  BY <1>2 DEF UsageRow, CountFields, CountsOf
<1>4. cost \in Int \cup {NoRate}
  <2>1. published[t] \in PriceTables
    OBVIOUS
  <2>2. published[t] \in [DOMAIN published[t] -> Price]
    BY <2>1, TablePrices
  <2>3. \A m \in DOMAIN published[t] : published[t][m] \in Price
    BY <2>2
  <2>4. Lookup(published[t], model) \in Price
    BY <1>3, <2>3, LookupPrice
  <2>. HIDE DEF model
  <2>. QED
    BY <1>3, <2>4, CostOf DEF model
<1>5. value \in Costs /\ (value = Null <=> cost = NoRate) /\ (cost # NoRate => value.n = cost)
  BY <1>4 DEF Costs, Null
<1>6. e \in PricedRows
  <2>1. <<item, value>> \in Billed \X Costs
    BY <1>5
  <2>2. e = Costed(EventRow("codex_token_usage", <<item, value>>[1]), <<item, value>>[2])
    OBVIOUS
  <2>. QED
    BY <2>1, <2>2, Zenon DEF PricedRows
<1>7. /\ e.kind = "codex_token_usage" /\ e.row["cost_usd"] = value /\ e.row["usage_valid"].n = 1
      /\ e.row["model"] = parsed.row["model"] /\ CountsOf(e.row) = CountsOf(parsed.row)
  <2>. HIDE DEF model
  <2>. QED
    BY <1>5, PricedRowOK
<1>8. cost \in CostsBy(e, lo, published)
  <2>1. t \in lo .. Len(published)
    OBVIOUS
  <2>2. cost = Cost(Lookup(published[t], ModelOf[e.row["model"]]), CountsOf(e.row))
    BY <1>7
  <2>. QED
    BY <2>1, <2>2, Zenon DEF CostsBy
<1>9. Accounted(e, lo, published, enabled)
  BY <1>5, <1>7, <1>8, Zenon DEF Accounted, Priced
<1>10. \A m : Missed(e, m, enabled) <=> cost = NoRate /\ m = model
  BY <1>5, <1>7 DEF Missed, Priced
<1>. QED
  BY <1>3, <1>6, <1>9, <1>10, Zenon DEF Produced, PricedFrom

LEMMA StoreUsageKeeps ==
  ASSUME RowInv, NEW h \in Handlers, StoreUsage(h)
  PROVE  Shape' /\ \A g \in Handlers : HandlerOK(g)'
<1>. DEFINE item   == CurrentItem(h)
            parsed == EventRow("codex_token_usage", item)
            model  == ModelOf[parsed.row["model"]]
            cost   == Cost(PriceHeld(h, model), CountsOf(parsed.row))
            value  == IF cost = NoRate THEN Null ELSE [type |-> "double", n |-> cost]
            e      == Costed(parsed, value)
<1>1. Shape /\ HandlerOK(h) /\ Typed(h)
  BY DEF RowInv, HandlerOK
<1>2. /\ pc[h] = "costing" /\ out' = [out EXCEPT ![h] = Append(@, e)]
      /\ cost = NoRate => unmatched' = [unmatched EXCEPT ![model] = @ + 1]
      /\ cost # NoRate => unmatched' = unmatched
      /\ sum' = [sum EXCEPT ![h] = Count(@, "rows", 1)]
      /\ pc' = [pc EXCEPT ![h] = "items"] /\ at' = [at EXCEPT ![h] = @ + 1]
      /\ req' = req /\ held' = held /\ since' = since
      /\ published' = published /\ enabled' = enabled /\ refresh' = refresh /\ stopping' = stopping
  BY Zenon DEF StoreUsage, Costed, Advance, engineVars
<1>3. /\ Request(h).signal = "logs" /\ at[h] <= Len(Request(h).items)
      /\ item \in Billed /\ enabled /\ since[h] <= held[h]
  BY <1>1, <1>2 DEF HandlerOK, Costing
<1>4. /\ published \in Seq(PriceTables)
      /\ held[h] \in 1 .. Len(published) /\ held[h] \in Nat /\ since[h] \in Nat
  BY <1>1, TablesAre DEF Typed
<1>5. cost = Cost(Lookup(published[held[h]], model), CountsOf(parsed.row))
  BY DEF PriceHeld
<1>6. /\ e \in Produced /\ Accounted(e, since[h], published, enabled) /\ model \in Names
      /\ \A m : Missed(e, m, enabled) <=> cost = NoRate /\ m = model
  <2>. HIDE DEF cost
  <2>1. /\ cost = NoRate => value = Null
        /\ cost # NoRate => value = [type |-> "double", n |-> cost]
    OBVIOUS
  <2>. HIDE DEF item, value, e, parsed
  <2>2. e = Costed(parsed, value) /\ parsed = EventRow("codex_token_usage", item)
    BY DEF e, parsed
  <2>3. PricedFrom(e, since[h], ModelOf[parsed.row["model"]], cost)
    BY <1>3, <1>4, <1>5, <2>1, <2>2, CostedByHeld, Zenon
  <2>. QED
    BY <2>3, Zenon DEF PricedFrom
<1>. HIDE DEF item, parsed, model, cost, value, e
<1>7. /\ sum'[h] = Count(sum[h], "rows", 1) /\ at'[h] = at[h] + 1 /\ pc'[h] = "items"
      /\ out'[h] = Append(out[h], e) /\ DOMAIN at' = Handlers /\ DOMAIN out' = Handlers
  BY <1>1, <1>2 DEF Shape
<1>8. \A g \in Handlers \ {h} : Still(g)
  BY <1>1, <1>2 DEF Shape, Still
<1>9. /\ unmatched \in [Names -> Nat] /\ unmatched' \in [Names -> Nat]
      /\ \A m \in Names : unmatched[m] <= unmatched'[m]
      /\ \A m \in Names : Missed(e, m, enabled) => unmatched[m] + 1 <= unmatched'[m]
  <2>. DEFINE u == unmatched
              u1 == unmatched'
  <2>1. u \in [Names -> Nat] /\ model \in Names
    BY <1>1, <1>6 DEF Shape
  <2>2. /\ cost = NoRate => u1 = [u EXCEPT ![model] = @ + 1]
        /\ cost # NoRate => u1 = u
    BY <1>2
  <2>. HIDE DEF u, u1
  <2>3. /\ u1 \in [Names -> Nat] /\ \A m \in Names : u[m] <= u1[m]
        /\ cost = NoRate => u[model] + 1 <= u1[model]
    BY <2>1, <2>2
  <2>. USE DEF u, u1
  <2>4. \A m \in Names : Missed(e, m, enabled) => cost = NoRate /\ m = model
    BY <1>6
  <2>5. \A m \in Names : Missed(e, m, enabled) => u[m] + 1 <= u1[m]
    BY <2>3, <2>4, Zenon
  <2>. QED
    BY <2>1, <2>3, <2>5, Zenon
<1>10. Shape'
  <2>1. sum[h] \in Sums
    BY <1>1 DEF Shape
  <2>2. Count(sum[h], "rows", 1) \in Sums
    BY <2>1, CountOf DEF Verdicts
  <2>. QED
    BY <1>1, <1>2, <1>7, <1>9, <2>2 DEF Shape
<1>11. out[h] \in Seq(Produced) /\ Booked(h)
  BY <1>1 DEF HandlerOK, Typed
<1>12. out'[h] \in Seq(Produced) /\ Len(out'[h]) = Len(out[h]) + 1
  BY <1>6, <1>7, <1>11, AppendOf
<1>13. Booked(h)'
  BY <1>2, <1>6, <1>7, <1>9, <1>11, BookedAppended, Zenon
<1>14. HandlerOK(h)'
  <2>1. "rows" \in Verdicts
    BY DEF Verdicts
  <2>. QED
    BY <1>1, <1>2, <1>3, <1>7, <1>12, <1>13, <2>1, LogPassed, Zenon
<1>15. Counting
  BY <1>9 DEF Counting
<1>. QED
  BY <1>2, <1>8, <1>10, <1>14, <1>15, OthersKeep, Zenon

\* Rows that are no usage change no account.
LEMMA BookedAdded ==
  ASSUME NEW h, out[h] \in Seq(Produced), Booked(h), NEW t \in Seq(Produced), out'[h] = t,
         Len(out[h]) <= Len(t), \A i \in 1 .. Len(out[h]) : t[i] = out[h][i],
         \A i \in DOMAIN t : i \notin 1 .. Len(out[h]) => t[i].kind # "codex_token_usage",
         since'[h] = since[h], published' = published, enabled' = enabled, unmatched' = unmatched
  PROVE  Booked(h)'
<1>. DEFINE s == out[h]
<1>1. /\ Len(s) \in Nat /\ Len(t) \in Nat /\ Len(s) <= Len(t)
      /\ DOMAIN s = 1 .. Len(s) /\ DOMAIN t = 1 .. Len(t)
  OBVIOUS
<1>2. \A i \in DOMAIN s : i \in DOMAIN t /\ t[i] = s[i]
  BY <1>1
<1>3. \A i \in DOMAIN t : i \notin DOMAIN s => t[i].kind # "codex_token_usage"
  BY <1>1
<1>4. Booked(h)' <=>
        /\ \A i \in DOMAIN t : Accounted(t[i], since[h], published, enabled)
        /\ \A m \in Names : Cardinality(MissedBy(t, m, enabled)) <= unmatched[m]
  BY Zenon DEF Booked
<1>5. /\ \A i \in DOMAIN s : Accounted(s[i], since[h], published, enabled)
      /\ \A m \in Names : Cardinality(MissedBy(s, m, enabled)) <= unmatched[m]
  BY Zenon DEF Booked
<1>. HIDE DEF s
<1>6. ASSUME NEW i \in DOMAIN t PROVE Accounted(t[i], since[h], published, enabled)
  <2>1. CASE i \in DOMAIN s
    BY <1>2, <1>5, <2>1, Zenon
  <2>2. CASE i \notin DOMAIN s
    BY <1>3, <2>2, Zenon DEF Accounted
  <2>. QED
    BY <2>1, <2>2
<1>7. \A m : MissedBy(t, m, enabled) = MissedBy(s, m, enabled)
  <2>. TAKE m
  <2>1. \A j : j \in MissedBy(t, m, enabled) <=> j \in MissedBy(s, m, enabled)
    <3>. TAKE j
    <3>1. j \in MissedBy(t, m, enabled) <=> j \in DOMAIN t /\ Missed(t[j], m, enabled)
      BY Zenon DEF MissedBy
    <3>2. j \in MissedBy(s, m, enabled) <=> j \in DOMAIN s /\ Missed(s[j], m, enabled)
      BY Zenon DEF MissedBy
    <3>3. j \in DOMAIN t /\ Missed(t[j], m, enabled) => j \in DOMAIN s
      BY <1>3, Zenon DEF Missed
    <3>. QED
      BY <1>2, <3>1, <3>2, <3>3, Zenon
  <2>2. MissedBy(t, m, enabled) \subseteq DOMAIN t /\ MissedBy(s, m, enabled) \subseteq DOMAIN s
    BY DEF MissedBy
  <2>. QED
    BY <2>1
<1>. QED
  BY <1>4, <1>5, <1>6, <1>7, Zenon

\* A metric is done with.
LEMMA MetricPassed ==
  ASSUME RowInv, NEW h \in Handlers,
         Request(h).signal = "metrics", at[h] <= Len(Request(h).items),
         pc'[h] = "items", req'[h] = req[h], at'[h] = at[h] + 1, held'[h] = held[h],
         since'[h] = since[h], published' = published, out'[h] \in Seq(Produced),
         sum'[h] \in Sums, sum'[h].rows = Len(out'[h]),
         Lost(sum'[h]) = 0 =>
           Lost(sum[h]) = 0 /\ Len(out'[h]) = Len(out[h]) + Cardinality(PointsOf(h, at[h])),
         Booked(h)'
  PROVE  HandlerOK(h)'
<1>1. HandlerOK(h) /\ Typed(h) /\ Told(h)
  BY DEF RowInv, HandlerOK
<1>2. at[h] + 1 \in 1 .. Len(Request(h).items) + 1
  BY <1>1, ItemSent
<1>3. Request(h)' = Request(h)
  BY DEF Request
<1>4. Typed(h)'
  BY <1>1, <1>2, <1>3 DEF Typed
<1>5. Costing(h)'
  BY DEF Costing
<1>6. Told(h)'
  <2>1. /\ IsFiniteSet(Seen(h)')
        /\ Cardinality(Seen(h)') = Cardinality(Seen(h)) + Cardinality(PointsOf(h, at[h]))
    BY <1>1, SeenGrows, Zenon DEF Told
  <2>2. Lost(sum'[h]) = 0 => Len(out'[h]) = Cardinality(Seen(h)')
    <3>1. Lost(sum[h]) = 0 => Len(out[h]) = Cardinality(Seen(h))
      BY <1>1, Zenon DEF Told
    <3>. QED
      BY <2>1, <3>1, Zenon
  <2>3. Lost(sum[h])' = Lost(sum'[h]) /\ Request(h)'.signal = "metrics"
    BY <1>3 DEF Lost
  <2>. QED
    BY <2>1, <2>2, <2>3, Zenon DEF Told
<1>. QED
  BY <1>1, <1>4, <1>5, <1>6 DEF HandlerOK

LEMMA PointProduced ==
  ASSUME NEW metric \in Samples, NEW i \in DOMAIN metric.points, PointVerdict(metric, i) = "rows"
  PROVE  MetricRow(MetricKind[metric.name], metric, metric.points[i]) \in Produced
<1>1. MetricRow(MetricKind[metric.name], metric, metric.points[i]) \in
        {MetricRow(MetricKind[metric.name], metric, metric.points[k]) :
           k \in {j \in DOMAIN metric.points : PointVerdict(metric, j) = "rows"}}
  BY Zenon
<1>. QED
  BY <1>1, Zenon DEF Produced, PointRows

\* A sequence of rows with n more that are no usage.
Longer(t, s, n) ==
  /\ t \in Seq(Produced) /\ Len(t) = Len(s) + n
  /\ \A i \in 1 .. Len(s) : t[i] = s[i]
  /\ \A i \in DOMAIN t : i \notin 1 .. Len(s) => t[i].kind # "codex_token_usage"

LEMMA RowsJoined ==
  ASSUME NEW s \in Seq(Produced), NEW n \in Nat, NEW f, f \in [1 .. n -> Produced],
         \A j \in 1 .. n : f[j].kind # "codex_token_usage"
  PROVE  Longer(s \o f, s, n)
<1>. DEFINE t == s \o f
<1>1. /\ t \in Seq(Produced) /\ Len(t) = Len(s) + n
      /\ \A i \in 1 .. Len(s) : t[i] = s[i]
      /\ \A i \in DOMAIN t : i \notin 1 .. Len(s) => \E j \in 1 .. n : t[i] = f[j]
  BY ConcatOf
<1>. HIDE DEF t
<1>2. \A i \in DOMAIN t : i \notin 1 .. Len(s) => t[i].kind # "codex_token_usage"
  BY <1>1, Zenon
<1>3. Longer(t, s, n)
  BY <1>1, <1>2, Zenon DEF Longer
<1>. QED
  BY <1>3 DEF t

\* What a metric whose points are all told of leaves in the summary and in the sink.
PointsTold(h, s, t) ==
  /\ t \in Seq(Produced) /\ Len(out[h]) <= Len(t)
  /\ \A i \in 1 .. Len(out[h]) : t[i] = out[h][i]
  /\ \A i \in DOMAIN t : i \notin 1 .. Len(out[h]) => t[i].kind # "codex_token_usage"
  /\ s \in Sums /\ s.rows = Len(t)
  /\ Lost(s) = 0 => Lost(sum[h]) = 0 /\ Len(t) = Len(out[h]) + Cardinality(PointsOf(h, at[h]))

\* The summary with counts added, and the rows of the points of one verdict.
AddedTo(total, n) == [c \in DOMAIN total |-> total[c] + n[c]]
RowsOf(metric, S, n) ==
  [j \in 1 .. n |-> MetricRow(MetricKind[metric.name], metric, metric.points[Nth(S, j)])]

\* A metric whose points are looked at one by one.
LEMMA PointsAdded ==
  ASSUME RowInv, NEW h \in Handlers,
         Request(h).signal = "metrics", at[h] <= Len(Request(h).items),
         NEW W, \A v \in Verdicts : W[v] = {i \in DOMAIN CurrentItem(h).points :
                                              PointVerdict(CurrentItem(h), i) = v},
         NEW n, \A v \in Verdicts : n[v] = Cardinality(W[v])
  PROVE  PointsTold(h, AddedTo(sum[h], n), out[h] \o RowsOf(CurrentItem(h), W["rows"], n["rows"]))
<1>. DEFINE metric == CurrentItem(h)
            s == AddedTo(sum[h], n)
            f == RowsOf(metric, W["rows"], n["rows"])
            t == out[h] \o f
<1>0. /\ s = [c \in DOMAIN sum[h] |-> sum[h][c] + n[c]]
      /\ f = [j \in 1 .. n["rows"] |->
                MetricRow(MetricKind[metric.name], metric, metric.points[Nth(W["rows"], j)])]
      /\ \A v \in Verdicts : W[v] = {i \in DOMAIN metric.points : PointVerdict(metric, i) = v}
      /\ PointsOf(h, at[h]) = DOMAIN metric.points
  BY DEF AddedTo, RowsOf, PointsOf, CurrentItem
<1>16. metric = CurrentItem(h)
  OBVIOUS
<1>. HIDE DEF metric, s, f
<1>1. /\ HandlerOK(h) /\ Typed(h) /\ Told(h) /\ sum[h] \in Sums /\ sum[h].rows = Len(out[h])
      /\ out[h] \in Seq(Produced)
  BY DEF RowInv, HandlerOK, Shape, Typed, Told
<1>2. metric \in Samples /\ IsMetric(metric)
  BY <1>1, <1>16, ItemSent, WhatIsSent
<1>3. PointsOf(h, at[h]) = DOMAIN metric.points
  BY <1>0
<1>4. /\ \A v \in Verdicts : IsFiniteSet(W[v]) /\ Cardinality(W[v]) \in Nat /\ W[v] \subseteq DOMAIN metric.points
      /\ DOMAIN metric.points \subseteq Int
      /\ Cardinality(W["unknown"]) + Cardinality(W["skipped"]) + Cardinality(W["errors"]) = 0
           => Cardinality(W["rows"]) = Cardinality(DOMAIN metric.points)
  BY <1>2, PointsCounted DEF metric
<1>5. \A v \in Verdicts : n[v] \in Nat
  BY <1>4
<1>6. "rows" \in Verdicts /\ "unknown" \in Verdicts /\ "skipped" \in Verdicts /\ "errors" \in Verdicts
  BY DEF Verdicts
<1>7. /\ s \in Sums /\ s.rows = sum[h].rows + n["rows"]
      /\ Lost(s) = Lost(sum[h]) + (n["unknown"] + n["skipped"] + n["errors"])
  BY <1>0, <1>1, <1>5, AddedOf
<1>8. ASSUME NEW j \in 1 .. n["rows"]
      PROVE  f[j] \in Produced /\ f[j].kind # "codex_token_usage"
  <2>1. Nth(W["rows"], j) \in W["rows"]
    <3>1. IsFiniteSet(W["rows"]) /\ W["rows"] \subseteq Int /\ n["rows"] = Cardinality(W["rows"])
      BY <1>4, <1>6
    <3>. QED
      BY <3>1, NthOf
  <2>. DEFINE i == Nth(W["rows"], j)
  <2>2. i \in DOMAIN metric.points /\ PointVerdict(metric, i) = "rows"
    BY <1>0, <1>6, <2>1
  <2>3. f[j] = MetricRow(MetricKind[metric.name], metric, metric.points[i])
    BY <1>0
  <2>. HIDE DEF i
  <2>4. f[j].kind # "codex_token_usage"
    BY <1>2, <2>2, <2>3, PointRowOK
  <2>5. f[j] \in Produced
    BY <1>2, <2>2, <2>3, PointProduced
  <2>. QED
    BY <2>4, <2>5
<1>9. n["rows"] \in Nat /\ f \in [1 .. n["rows"] -> Produced]
  <2>1. DOMAIN f = 1 .. n["rows"] /\ f = [j \in DOMAIN f |-> f[j]]
    BY <1>0
  <2>. QED
    BY <1>5, <1>6, <1>8, <2>1
<1>10. /\ t \in Seq(Produced) /\ Len(t) = Len(out[h]) + n["rows"]
       /\ \A i \in 1 .. Len(out[h]) : t[i] = out[h][i]
       /\ \A i \in DOMAIN t : i \notin 1 .. Len(out[h]) => t[i].kind # "codex_token_usage"
  <2>1. Longer(out[h] \o f, out[h], n["rows"])
    <3>1. n["rows"] \in Nat /\ f \in [1 .. n["rows"] -> Produced] /\ out[h] \in Seq(Produced)
      BY <1>1, <1>9
    <3>. QED
      BY <1>8, <3>1, RowsJoined, Zenon
  <2>. QED
    BY <2>1 DEF Longer
<1>. HIDE DEF t
<1>12. Len(out[h]) \in Nat
  BY <1>1
<1>13. Len(out[h]) <= Len(t) /\ s.rows = Len(t)
  BY <1>1, <1>7, <1>9, <1>10, <1>12
<1>14. Lost(s) = 0 => Lost(sum[h]) = 0 /\ Len(t) = Len(out[h]) + Cardinality(PointsOf(h, at[h]))
  <2>. DEFINE u == n["unknown"]
              k == n["skipped"]
              e == n["errors"]
              L == Lost(sum[h])
  <2>1. u \in Nat /\ k \in Nat /\ e \in Nat /\ L \in Nat
    BY <1>1, <1>5, <1>6 DEF Sums, Lost
  <2>2. Lost(s) = L + (u + k + e)
    BY <1>7
  <2>3. u = Cardinality(W["unknown"]) /\ k = Cardinality(W["skipped"]) /\ e = Cardinality(W["errors"])
        /\ n["rows"] = Cardinality(W["rows"])
    BY <1>6
  <2>. HIDE DEF u, k, e, L
  <2>4. Lost(s) = 0 => L = 0 /\ u + k + e = 0
    BY <2>1, <2>2
  <2>5. u + k + e = 0 => n["rows"] = Cardinality(PointsOf(h, at[h]))
    BY <1>3, <1>4, <2>3, Zenon
  <2>. QED
    BY <1>10, <2>4, <2>5 DEF L
<1>15. PointsTold(h, s, t)
  BY <1>7, <1>10, <1>13, <1>14, Zenon DEF PointsTold
<1>. QED
  BY <1>15 DEF t, s, f, metric

LEMMA DispatchMetricKeeps ==
  ASSUME RowInv, NEW h \in Handlers, DispatchMetric(h)
  PROVE  Shape' /\ \A g \in Handlers : HandlerOK(g)'
<1>. DEFINE metric  == CurrentItem(h)
            with(v) == {i \in DOMAIN metric.points : PointVerdict(metric, i) = v}
            W == [v \in Verdicts |-> with(v)]
            n == [v \in Verdicts |-> Cardinality(with(v))]
            s == [c \in DOMAIN sum[h] |-> sum[h][c] + n[c]]
            f == [j \in 1 .. n["rows"] |->
                    MetricRow(MetricKind[metric.name], metric, metric.points[Nth(W["rows"], j)])]
<1>1. Shape /\ HandlerOK(h) /\ Typed(h) /\ Told(h) /\ Booked(h) /\ sum[h] \in Sums
      /\ out[h] \in Seq(Produced)
  BY DEF RowInv, HandlerOK, Shape, Typed
<1>2. /\ pc[h] = "items" /\ Request(h).signal = "metrics" /\ at[h] <= Len(Request(h).items)
      /\ at' = [at EXCEPT ![h] = @ + 1]
      /\ pc' = pc /\ req' = req /\ held' = held /\ unmatched' = unmatched /\ since' = since
      /\ published' = published /\ enabled' = enabled /\ refresh' = refresh /\ stopping' = stopping
  BY Zenon DEF DispatchMetric, AtItem, Advance, engineVars
<1>3. /\ pc'[h] = "items" /\ req'[h] = req[h] /\ at'[h] = at[h] + 1 /\ held'[h] = held[h]
      /\ since'[h] = since[h] /\ DOMAIN at' = Handlers
  BY <1>1, <1>2 DEF Shape
<1>4. \/ \E c \in {"errors", "unknown"} :
           sum' = [sum EXCEPT ![h] = Count(@, c, 1)] /\ out' = out
      \/ /\ sum' = [sum EXCEPT ![h] = [c \in DOMAIN @ |-> @[c] + Cardinality(with(c))]]
         /\ out' = [out EXCEPT ![h] = @ \o [j \in 1 .. Cardinality(with("rows")) |->
                      MetricRow(MetricKind[metric.name], metric, metric.points[Nth(with("rows"), j)])]]
  BY Zenon DEF DispatchMetric, RefuseShape
<1>5. ASSUME NEW c \in {"errors", "unknown"},
             sum' = [sum EXCEPT ![h] = Count(@, c, 1)], out' = out
      PROVE  Shape' /\ HandlerOK(h)' /\ \A g \in Handlers \ {h} : Still(g)
  <2>1. c \in Verdicts /\ c # "rows"
    BY DEF Verdicts
  <2>2. Count(sum[h], c, 1) \in Sums /\ Count(sum[h], c, 1).rows = sum[h].rows
        /\ Lost(Count(sum[h], c, 1)) = Lost(sum[h]) + 1
    <3>1. Count(sum[h], c, 1).rows = sum[h].rows + 0 /\ Count(sum[h], c, 1) \in Sums
          /\ Lost(Count(sum[h], c, 1)) = Lost(sum[h]) + 1
      BY <1>1, <2>1, CountOf
    <3>2. sum[h].rows + 0 = sum[h].rows
      BY <1>1 DEF Sums
    <3>. QED
      BY <3>1, <3>2
  <2>3. sum'[h] = Count(sum[h], c, 1) /\ out'[h] = out[h] /\ DOMAIN out' = Handlers
    BY <1>1, <1>5 DEF Shape
  <2>4. Shape'
    BY <1>1, <1>2, <1>3, <1>5, <2>2, <2>3 DEF Shape
  <2>5. \A g \in Handlers \ {h} : Still(g)
    BY <1>1, <1>2, <1>5 DEF Shape, Still
  <2>6. Booked(h)'
    BY <1>1, <1>2, <2>3 DEF Booked
  <2>7. Lost(sum'[h]) # 0
    <3>1. Lost(sum[h]) \in Nat
      BY <1>1 DEF Sums, Lost
    <3>. QED
      BY <2>2, <2>3, <3>1
  <2>8. sum'[h] \in Sums /\ out'[h] \in Seq(Produced) /\ sum'[h].rows = Len(out'[h])
    BY <1>1, <2>2, <2>3 DEF Told
  <2>9. HandlerOK(h)'
    BY <1>2, <1>3, <2>6, <2>7, <2>8, MetricPassed, Zenon
  <2>. QED
    BY <2>4, <2>5, <2>9
<1>6. ASSUME sum' = [sum EXCEPT ![h] = [c \in DOMAIN @ |-> @[c] + Cardinality(with(c))]],
             out' = [out EXCEPT ![h] = @ \o [j \in 1 .. Cardinality(with("rows")) |->
                       MetricRow(MetricKind[metric.name], metric, metric.points[Nth(with("rows"), j)])]]
      PROVE  Shape' /\ HandlerOK(h)' /\ \A g \in Handlers \ {h} : Still(g)
  <2>1. DOMAIN sum[h] = Verdicts /\ "rows" \in Verdicts
    BY <1>1 DEF Sums, Verdicts
  <2>2. s = [c \in DOMAIN sum[h] |-> sum[h][c] + Cardinality(with(c))]
    <3>1. \A c \in DOMAIN sum[h] : n[c] = Cardinality(with(c))
      BY <2>1
    <3>. HIDE DEF n
    <3>. QED
      BY <3>1
  <2>3. n["rows"] = Cardinality(with("rows")) /\ W["rows"] = with("rows")
    BY <2>1
  <2>4. sum'[h] = s
    BY <1>1, <1>6, <2>2 DEF Shape
  <2>5. out'[h] = out[h] \o f
    BY <1>1, <1>6, <2>3 DEF Shape
  <2>. DEFINE t == out[h] \o f
  <2>6. PointsTold(h, s, out[h] \o f)
    <3>1. /\ \A v \in Verdicts : W[v] = {i \in DOMAIN metric.points : PointVerdict(metric, i) = v}
          /\ \A v \in Verdicts : n[v] = Cardinality(W[v])
      OBVIOUS
    <3>2. s = AddedTo(sum[h], n) /\ f = RowsOf(metric, W["rows"], n["rows"])
      BY DEF AddedTo, RowsOf
    <3>. HIDE DEF W, n, s, f
    <3>3. PointsTold(h, AddedTo(sum[h], n), out[h] \o RowsOf(metric, W["rows"], n["rows"]))
      BY <1>2, <3>1, PointsAdded, Zenon
    <3>. QED
      BY <3>2, <3>3
  <2>12. /\ t \in Seq(Produced) /\ Len(out[h]) <= Len(t)
         /\ \A i \in 1 .. Len(out[h]) : t[i] = out[h][i]
         /\ \A i \in DOMAIN t : i \notin 1 .. Len(out[h]) => t[i].kind # "codex_token_usage"
         /\ s \in Sums /\ s.rows = Len(t)
         /\ Lost(s) = 0 => Lost(sum[h]) = 0 /\ Len(t) = Len(out[h]) + Cardinality(PointsOf(h, at[h]))
    BY <2>6, Zenon DEF PointsTold
  <2>. HIDE DEF t, s, f
  <2>7. out'[h] = t /\ DOMAIN out' = Handlers
    BY <1>1, <1>6, <2>5 DEF t, Shape
  <2>8. Shape'
    <3>1. sum' = [sum EXCEPT ![h] = s]
      BY <1>6, <2>2
    <3>. QED
      BY <1>1, <1>2, <1>3, <2>12, <2>7, <3>1 DEF Shape
  <2>9. \A g \in Handlers \ {h} : Still(g)
    BY <1>1, <1>2, <1>6 DEF Shape, Still
  <2>10. Booked(h)'
    BY <1>1, <1>2, <1>3, <2>12, <2>7, BookedAdded, Zenon
  <2>11. HandlerOK(h)'
    BY <1>2, <1>3, <2>4, <2>12, <2>7, <2>10, MetricPassed, Zenon
  <2>. QED
    BY <2>8, <2>9, <2>11
<1>7. Counting
  BY <1>1, <1>2, NoCounting DEF Shape
<1>8. Shape' /\ HandlerOK(h)' /\ \A g \in Handlers \ {h} : Still(g)
  BY <1>4, <1>5, <1>6, Zenon
<1>. QED
  BY <1>2, <1>7, <1>8, OthersKeep, Zenon

\* The engine adds a table, or none.
LEMMA EngineRows ==
  ASSUME RowInv,
         Fetch \/ StoreTable \/ StoreStats \/ MarkRefreshFailed \/ Tick \/ LoopEnds \/ Stop
  PROVE  Shape' /\ \A g \in Handlers : HandlerOK(g)'
<1>1. Shape /\ IInv /\ published \in Seq(PriceTables)
  BY TablesAre DEF RowInv
<1>2. UNCHANGED handlerVars /\ enabled' = enabled
  BY Zenon DEF Fetch, StoreTable, StoreStats, MarkRefreshFailed, Tick, LoopEnds, Stop
<1>3. /\ refresh' \in {"fetch", "publish", "publish stats", "failed", "select", "ended"}
      /\ stopping' \in BOOLEAN
  BY <1>1 DEF Shape, Fetch, StoreTable, StoreStats, MarkRefreshFailed, Tick, LoopEnds, Stop
<1>4. Shape'
  BY <1>1, <1>2, <1>3 DEF Shape, handlerVars
<1>5. /\ published' \in Seq(PriceTables) /\ Len(published) <= Len(published')
      /\ \A v \in 1 .. Len(published) : published'[v] = published[v]
  <2>1. CASE StoreTable
    <3>. DEFINE new == Layered(Parsed(body))
    <3>1. new \in PriceTables
      BY <1>1, <2>1, Zenon DEF IInv, BodyOK, Refreshed, PriceTables, StoreTable
    <3>2. published' = Append(published, new)
      BY <2>1 DEF StoreTable
    <3>. HIDE DEF new
    <3>. QED
      BY <1>1, <3>1, <3>2
  <2>2. CASE published' = published
    BY <1>1, <2>2
  <2>. QED
    BY <2>1, <2>2 DEF Fetch, StoreStats, MarkRefreshFailed, Tick, LoopEnds, Stop
<1>. QED
  BY <1>2, <1>4, <1>5, EngineKeeps, Zenon

-----------------------------------------------------------------------------
(* The invariant holds *)

LEMMA InitRows == Init => RowInv
<1>. SUFFICES ASSUME Init PROVE RowInv
  OBVIOUS
<1>1. IInv
  BY InitIInv
<1>2. Shape
  <2>1. ZeroSum \in Sums
    BY DEF ZeroSum, Sums
  <2>. QED
    BY <2>1 DEF Init, Shape
<1>3. Len(published) = 1
  BY DEF Init
<1>4. ASSUME NEW h \in Handlers PROVE HandlerOK(h)
  <2>1. /\ pc[h] = "idle" /\ req[h] = "none" /\ at[h] = 1 /\ held[h] = 1 /\ since[h] = 1
        /\ sum[h] = ZeroSum /\ out[h] = <<>> /\ \A m \in Names : unmatched[m] = 0
    BY DEF Init
  <2>2. Request(h) = NoRequest /\ Len(NoRequest.items) = 0
    BY <2>1 DEF Request, NoRequest
  <2>3. Typed(h)
    BY <1>3, <2>1, <2>2 DEF Typed
  <2>4. Costing(h)
    BY <2>1 DEF Costing
  <2>5. Booked(h)
    <3>1. \A m : MissedBy(<<>>, m, enabled) = {}
      BY DEF MissedBy
    <3>2. Cardinality({}) = 0
      BY FS_EmptySet, Zenon
    <3>3. \A m \in Names : 0 <= unmatched[m]
      BY <2>1
    <3>4. \A m \in Names : Cardinality(MissedBy(<<>>, m, enabled)) <= unmatched[m]
      BY <3>1, <3>2, <3>3, Zenon
    <3>5. DOMAIN <<>> = {}
      OBVIOUS
    <3>. QED
      BY <2>1, <3>4, <3>5 DEF Booked
  <2>6. Told(h)
    <3>1. Seen(h) = {}
      <4>1. 1 .. 1 - 1 = {}
        OBVIOUS
      <4>. QED
        BY <2>1, <4>1 DEF Seen
    <3>2. IsFiniteSet({}) /\ Cardinality({}) = 0
      BY FS_EmptySet, Zenon
    <3>3. ZeroSum.rows = 0 /\ Lost(ZeroSum) = 0 /\ Len(<<>>) = 0
      BY DEF ZeroSum, Lost
    <3>. QED
      BY <2>1, <3>1, <3>2, <3>3 DEF Told
  <2>. QED
    BY <2>3, <2>4, <2>5, <2>6 DEF HandlerOK
<1>. QED
  BY <1>1, <1>2, <1>4 DEF RowInv

LEMMA NextRows == RowInv /\ [Next]_vars => RowInv'
<1>. SUFFICES ASSUME RowInv, [Next]_vars PROVE RowInv'
  OBVIOUS
<1>1. IInv'
  BY NextIInv, Zenon DEF RowInv
<1>2. ASSUME NEW h \in Handlers,
             Export(h) \/ DispatchEvent(h) \/ DispatchMetric(h) \/ LoadTable(h)
               \/ StoreUsage(h) \/ Reply(h)
      PROVE  Shape' /\ \A g \in Handlers : HandlerOK(g)'
  BY <1>2, ExportKeeps, DispatchEventKeeps, DispatchMetricKeeps, LoadTableKeeps,
     StoreUsageKeeps, ReplyKeeps, Zenon
<1>3. ASSUME Fetch \/ StoreTable \/ StoreStats \/ MarkRefreshFailed \/ Tick \/ LoopEnds \/ Stop
      PROVE  Shape' /\ \A g \in Handlers : HandlerOK(g)'
  BY <1>3, EngineRows, Zenon
<1>4. ASSUME UNCHANGED vars
      PROVE  Shape' /\ \A g \in Handlers : HandlerOK(g)'
  <2>1. Shape'
    BY <1>4 DEF RowInv, Shape, vars
  <2>2. /\ published' \in Seq(PriceTables) /\ Len(published) <= Len(published')
        /\ \A v \in 1 .. Len(published) : published'[v] = published[v]
    BY <1>4, TablesAre DEF vars
  <2>3. enabled' = enabled /\ UNCHANGED handlerVars
    BY <1>4 DEF vars, handlerVars
  <2>. QED
    BY <2>1, <2>2, <2>3, EngineKeeps, Zenon
<1>5. Shape' /\ \A g \in Handlers : HandlerOK(g)'
  BY <1>2, <1>3, <1>4, Zenon DEF Next
<1>. QED
  BY <1>1, <1>5 DEF RowInv

LEMMA RowsSpec == Spec => []RowInv
BY InitRows, NextRows, PTL DEF Spec

-----------------------------------------------------------------------------
(* What it says of the rows *)

LEMMA RowsOK ==
  ASSUME RowInv, NEW h \in Handlers, NEW i \in DOMAIN out[h]
  PROVE  /\ Sound(out[h][i])
         /\ out[h][i].kind = "codex_token_usage" => UsageRow(out[h][i])
<1>1. out[h][i] \in Produced
  <2>1. out[h] \in Seq(Produced)
    BY DEF RowInv, HandlerOK, Typed
  <2>. QED
    BY <2>1
<1>. QED
  BY <1>1, ProducedOK, Zenon DEF RowOK

LEMMA RowInvTypes == RowInv => TypeOK
<1>. SUFFICES ASSUME RowInv PROVE TypeOK
  OBVIOUS
<1>1. Shape
  BY DEF RowInv
<1>2. /\ \A h \in Handlers : at[h] \in 1 .. Len(Request(h).items) + 1
      /\ \A h \in Handlers : held[h] \in 1 .. Len(published) /\ since[h] \in 1 .. Len(published)
  BY DEF RowInv, HandlerOK, Typed
<1>3. \A h \in Handlers : \A i \in DOMAIN out[h] :
        out[h][i].kind \in Kinds /\ \A c \in DOMAIN out[h][i].row : out[h][i].row[c] \in Value
  BY RowsOK DEF Sound
<1>4. \A i \in DOMAIN published : published[i] \in [DOMAIN published[i] -> Price]
  <2>. TAKE i \in DOMAIN published
  <2>1. published[i] \in PriceTables
    BY TablesAre
  <2>. QED
    BY <2>1, TablePrices
<1>. QED
  BY <1>1, <1>2, <1>3, <1>4 DEF TypeOK, Shape, Sums

LEMMA RowInvTells == RowInv => SummaryTellsAll
<1>. SUFFICES ASSUME RowInv, NEW h \in Handlers
              PROVE  /\ sum[h].rows = Len(out[h])
                     /\ Lost(sum[h]) = 0 => Len(out[h]) = Cardinality(Seen(h))
                     /\ Request(h).signal = "logs" => Len(out[h]) + Lost(sum[h]) = at[h] - 1
  BY Zenon DEF SummaryTellsAll, Lost
<1>. QED
  BY DEF RowInv, HandlerOK, Told

LEMMA RowInvKept == RowInv => AttributesKept
<1>. SUFFICES ASSUME RowInv, NEW h \in Handlers, NEW i \in DOMAIN out[h]
              PROVE  LET o      == out[h][i]
                         fields == FieldsOf[o.kind]
                         stored == Stored(o.kind, o.row)
                     IN  /\ DOMAIN fields \subseteq DOMAIN stored
                         /\ \A f \in DOMAIN stored : stored[f] = Laid(o.row[f])
                         /\ DOMAIN o.left \cap Keys(fields) = {}
                         /\ o.kind = "codex_tool_result" => {"arguments", "output"} \cap DOMAIN o.left = {}
                         /\ (stored["attrs"] = Null) = (DOMAIN o.left = {})
  BY Zenon DEF AttributesKept
<1>. QED
  BY RowsOK, SoundKept, Zenon

LEMMA RowInvAccepted == RowInv => OnlyNonFiniteRefused
<1>. SUFFICES ASSUME RowInv, NEW h \in Handlers, NEW i \in DOMAIN out[h]
              PROVE  LET o == out[h][i]
                     IN  Accepted(o.kind, o.row, o.left) \/ \E k \in DOMAIN o.left : o.left[k].type = "nan"
  BY Zenon DEF OnlyNonFiniteRefused
<1>. QED
  BY RowsOK, SoundAccepted, Zenon

LEMMA RowInvBilled == RowInv => BilledOnce
<1>. SUFFICES ASSUME RowInv, NEW h \in Handlers, NEW i \in Usage(h), out[h][i].row["usage_valid"].n = 1
              PROVE  LET one == [input |-> 1, output |-> 1, read |-> 1, write |-> 1, reasoning |-> 1]
                         counts == CountsOf(out[h][i].row)
                     IN  /\ Cost(one, counts) = counts.input + counts.output
                         /\ Cost(one, counts) <= MaxInt64
  BY Zenon DEF BilledOnce
<1>1. UsageRow(out[h][i])
  BY RowsOK DEF Usage
<1>2. ValidUsage(out[h][i].row) /\ \A f \in CountFields : out[h][i].row[f].n \in Int
  BY <1>1 DEF UsageRow
<1>. QED
  BY <1>2, ValidUsageBilledOnce, Zenon

LEMMA RowInvCost == RowInv => CostFromOneTable
<1>. SUFFICES ASSUME RowInv, NEW h \in Handlers, NEW i \in Usage(h)
              PROVE  LET row      == out[h][i].row
                         model    == ModelOf[row["model"]]
                         costs    == {Cost(Lookup(published[v], model), CountsOf(row)) :
                                        v \in since[h] .. Len(published)}
                         priced(r) == enabled /\ r["usage_valid"].n = 1
                         missed   == {j \in Usage(h) :
                                        /\ priced(out[h][j].row) /\ out[h][j].row["cost_usd"] = Null
                                        /\ ModelOf[out[h][j].row["model"]] = model}
                     IN  /\ row["cost_usd"] # Null => priced(row) /\ row["cost_usd"].n \in costs
                         /\ priced(row) /\ row["cost_usd"] = Null => NoRate \in costs
                         /\ unmatched[model] >= Cardinality(missed)
  BY Zenon DEF CostFromOneTable
<1>. DEFINE o     == out[h][i]
            model == ModelOf[o.row["model"]]
            missed == {j \in Usage(h) :
                         /\ enabled /\ out[h][j].row["usage_valid"].n = 1
                         /\ out[h][j].row["cost_usd"] = Null
                         /\ ModelOf[out[h][j].row["model"]] = model}
<1>1. i \in DOMAIN out[h] /\ o.kind = "codex_token_usage"
  BY DEF Usage
<1>2. UsageRow(o) /\ model \in Names
  BY <1>1, RowsOK DEF UsageRow
<1>3. Accounted(o, since[h], published, enabled) /\ Cardinality(MissedBy(out[h], model, enabled)) <= unmatched[model]
  BY <1>1, <1>2 DEF RowInv, HandlerOK, Booked
<1>4. missed = MissedBy(out[h], model, enabled)
  BY DEF Usage, MissedBy, Missed, Priced
<1>5. unmatched[model] >= Cardinality(missed)
  <2>1. Cardinality(missed) <= unmatched[model]
    BY <1>3, <1>4
  <2>. QED
    BY <2>1
<1>6. CostsBy(o, since[h], published) =
        {Cost(Lookup(published[v], model), CountsOf(o.row)) : v \in since[h] .. Len(published)}
  BY Zenon DEF CostsBy
<1>. QED
  BY <1>1, <1>3, <1>5, <1>6, Zenon DEF Accounted, Priced

\* Every row has a kind with a table and a value in every column, counters stay natural,
\* and each handler is at an item of its request or past the last.
THEOREM IngestTypes == Spec => []TypeOK
BY RowsSpec, RowInvTypes, PTL

\* Whatever is sent, in whatever order the handlers go on: a summary that admits no loss
\* means a row for every log record and for every point, and the rows counted are stored.
THEOREM SummaryTellsAllHolds == Spec => []SummaryTellsAll
BY RowsSpec, RowInvTells, PTL

\* Whatever attributes are sent: each is in the column named for it, converted, or in the
\* JSON column, never in both, and tool arguments and outputs are in neither.
THEOREM AttributesKeptHolds == Spec => []AttributesKept
BY RowsSpec, RowInvKept, PTL

\* No row that a parser lets through lacks what its table insists on: the appender can
\* refuse it for a number without a JSON form alone, whatever is sent.
THEOREM OnlyNonFiniteRefusedHolds == Spec => []OnlyNonFiniteRefused
BY RowsSpec, RowInvAccepted, PTL

\* However the engine publishes tables while handlers price usage: a stored cost is the
\* cost by one table in use since the request came, and one that is missing is counted.
THEOREM CostFromOneTableHolds == Spec => []CostFromOneTable
BY RowsSpec, RowInvCost, PTL

\* Every usage row that is stored as valid pays for each token at exactly one rate, and its
\* total fits 63 bits.
THEOREM BilledOnceHolds == Spec => []BilledOnce
BY RowsSpec, RowInvBilled, PTL
=============================================================================
