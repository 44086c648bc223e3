------------------------------ MODULE MCIngest ------------------------------
(***************************************************************************)
(* A small instance of Ingest: requests that between them have every kind  *)
(* of row, five models, a URL with three answers.                          *)
(***************************************************************************)
EXTENDS Ingest

MCNames      == {"", "gpt", "openai/gpt-2026-01-01", "local", "own", "half"}
MCNormalized == [n \in MCNames |-> IF n = "openai/gpt-2026-01-01" THEN "gpt" ELSE n]

Rates(i, o) == [Unpriced EXCEPT !.input = i, !.output = o]

MCFile      == "local" :> Rates(1, 2) @@ "gpt" :> Rates(1, 1) @@ "own" :> Rates(9, 9)
MCOverrides == "own" :> [Rates(3, 3) EXCEPT !.reasoning = 0]
MCBodies    ==
  {[ok |-> TRUE, malformed |-> {"local"},
    entries |-> "gpt" :> [Rates(2, 3) EXCEPT !.read = 1] @@ "local" :> Rates(-7, 7) @@
                "own" :> Rates(8, 8)],
   [ok |-> TRUE, malformed |-> {}, entries |-> "half" :> [Unpriced EXCEPT !.input = 5]],
   [ok |-> FALSE, malformed |-> {}, entries |-> <<>>]}

-----------------------------------------------------------------------------
Int64(n) == [type |-> "int", n |-> n]
Text(n)  == [type |-> "text", n |-> n]
Double(n) == [type |-> "double", n |-> n]

\* Text values that name a model.
MCModelOf == (Null :> "") @@ (Text(0) :> "") @@ (Text(1) :> "openai/gpt-2026-01-01") @@
             (Text(2) :> "local") @@ (Text(3) :> "half") @@ (Text(4) :> "own")

Log(name, attrs) ==
  [attrName |-> name, topName |-> "", resource |-> <<>>, attrs |-> attrs, time |-> 0,
   observed |-> 4, completed |-> TRUE, valid |-> TRUE]

\* Every attribute a kind of row has a field for, each with a value of its own.
Filled(fields, position) ==
  [k \in Keys(fields) |->
     LET f == CHOOSE f \in DOMAIN fields : fields[f].key = k
     IN  CASE fields[f].kind = "list" -> [type |-> "list", n |-> position[f]]
           [] fields[f].kind = "bool" -> [type |-> "bool", n |-> 1]
           [] OTHER                   -> [type |-> "digits", n |-> position[f]]]

Full(kind) == Filled(FieldsOf[kind], Position[kind])

Extra == "extra" :> Text(7) @@ "event.name" :> Text(1) @@ "event.timestamp" :> [type |-> "digits", n |-> 3]

FullLog(name) == Log(name, Full((EventRoute @@ CodexRoute)[name]) @@ Extra)

LogRequest(items) == [signal |-> "logs", items |-> items]

ClaudeLogs(names) == [i \in DOMAIN names |-> FullLog(names[i])]

Claude1 == LogRequest(ClaudeLogs(<<"user_prompt", "api_request", "api_error", "tool_result",
                                   "tool_decision", "api_retries_exhausted">>))
Claude2 == LogRequest(ClaudeLogs(<<"compaction", "permission_mode_changed", "mcp_server_connection",
                                   "skill_activated", "at_mention">>))
Codex   == LogRequest(ClaudeLogs(<<"codex.skill_invocation", "codex.turn_cost",
             "codex.conversation_starts", "codex.api_request", "codex.user_prompt",
             "codex.tool_decision", "codex.tool_result">>))

\* Items that are not kept, or only just: no user, no turn, a blank identity, a type no
\* conversion takes, an attribute from the resource, a number JSON does not have.
Odd == LogRequest(
  <<Log("user_prompt", "user.id" :> Text(0)),
    [Log("", "user.id" :> Text(2)) EXCEPT !.topName = "compaction"],
    Log("codex.turn_cost", "conversation.id" :> Text(1) @@ "usage.estimated_usd" :> Text(1)),
    Log("codex.skill_invocation", "conversation.id" :> Text(1) @@ "turn.id" :> Text(-1) @@
                                  "skill.name" :> Text(1) @@ "skill.invocation_type" :> Text(1)),
    [Log("at_mention", "success" :> [type |-> "word", n |-> 1]) EXCEPT
       !.resource = "user.id" :> Text(3)],
    [FullLog("codex.turn_cost") EXCEPT !.valid = FALSE],
    Log("api_request", "user.id" :> Int64(0) @@ "cost_usd" :> [type |-> "nan", n |-> 0] @@
                       "duration_ms" :> [type |-> "bytes", n |-> 0] @@
                       "workspace.host_paths" :> [type |-> "list", n |-> 0]),
    [Log("codex.user_prompt", "prompt_length" :> Int64(-20) @@ "event.timestamp" :> Text(5))
       EXCEPT !.observed = 0],
    [Log("codex.sse_event", <<>>) EXCEPT !.completed = FALSE],
    Log("codex.websocket_event", <<>>), Log("", <<>>)>>)

NoJson == LogRequest(<<Log("tool_decision", "user.id" :> Text(1) @@ "load" :> [type |-> "nan", n |-> 0])>>)

UsageLog(model, whole, answer, rest) ==
  Log("codex.sse_event",
      "model" :> Text(model) @@ "input_token_count" :> Int64(whole) @@
      "output_token_count" :> Int64(answer) @@ rest)
Parts(read, write, reasoning) ==
  "cached_token_count" :> Int64(read) @@ "cache_write_token_count" :> Int64(write) @@
  "reasoning_token_count" :> Int64(reasoning)

\* Usage that can be priced, perhaps, and usage that is not valid: overlapping parts, too
\* large, failed, without an output count; at the end a time to first token below 0.
Valid   == LogRequest(<<UsageLog(1, 3, 2, Parts(1, 1, 1)), UsageLog(3, 1, 1, <<>>),
                        UsageLog(4, 2, 2, Parts(2, 0, 2))>>)
Overlap == LogRequest(<<UsageLog(1, 3, 2, Parts(2, 2, 0)), UsageLog(2, 1, 1, <<>>)>>)
Invalid == LogRequest(<<UsageLog(2, 4, 4, <<>>), UsageLog(1, 2, 1, "error.message" :> Text(5)),
                        Log("codex.sse_event", "input_token_count" :> Int64(1)),
                        UsageLog(1, 1, 1, Parts(0, 0, 2)), UsageLog(1, 1, 1, Parts(-1, 0, 0)),
                        UsageLog(0, 1, 1, "ttft_ms" :> Int64(-5))>>)

Point(value, attrs) == [value |-> value, n |-> 2, time |-> 6, start |-> 5, attrs |-> attrs]
Metric(name, shape, points) == [name |-> name, shape |-> shape, resource |-> <<>>, points |-> points]
FullMetric(name, shape) ==
  Metric(name, shape, <<Point("fine", Full((MetricRoute @@ HistogramRoute)[name]) @@ Extra)>>)

FullMetrics(names, shapes) == [i \in DOMAIN names |-> FullMetric(names[i], shapes[i])]

Metrics1 == [signal |-> "metrics", items |-> FullMetrics(
  <<"claude_code.session.count", "claude_code.lines_of_code.count", "claude_code.pull_request.count",
    "claude_code.commit.count", "claude_code.cost.usage", "claude_code.token.usage",
    "claude_code.code_edit_tool.decision", "claude_code.active_time.total", "codex.skill.injected",
    "codex.turn.token_usage">>,
  <<"sum", "gauge", "sum", "sum", "sum", "sum", "sum", "sum", "delta sum", "delta histogram">>)]

Metrics2 == [signal |-> "metrics", items |->
  <<Metric("codex.skill.injected", "sum", <<Point("fine", <<>>)>>),
    Metric("codex.turn.token_usage", "delta histogram",
           <<Point("fine", <<>>), Point("negative", "token_type" :> Text(1))>>),
    Metric("codex.responses_api_engine_service_tbt.duration_ms", "delta histogram",
           <<Point("negative", <<>>), Point("nan", <<>>), Point("fine", "slug" :> Text(1))>>),
    Metric("claude_code.commit.count", "histogram", <<Point("fine", <<>>)>>),
    Metric("claude_code.commit.count", "sum",
           <<Point("missing", "user.id" :> Text(1)), Point("nan", "user.id" :> Text(1)),
             Point("fine", <<>>)>>),
    Metric("claude_code.unheard_of", "sum", <<Point("fine", <<>>), Point("fine", <<>>)>>)>>]

MCRequests ==
  [claude1 |-> Claude1, claude2 |-> Claude2, codex |-> Codex, odd |-> Odd, nojson |-> NoJson,
   valid |-> Valid, overlap |-> Overlap, invalid |-> Invalid, metrics1 |-> Metrics1, metrics2 |-> Metrics2]

\* Only usage has to do with the pricing engine: everything else is sent to a server
\* without one.
CONSTANTS h1, h2
MCSends ==
  [priced |-> h1 :> {"valid"} @@ h2 :> {"overlap"},
   plain  |-> h1 :> {"claude1", "claude2", "metrics1", "metrics2", "valid"} @@
              h2 :> {"codex", "odd", "nojson", "invalid"}]
=============================================================================
