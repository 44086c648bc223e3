----------------------------- MODULE RowSchemas -----------------------------
(***************************************************************************)
(* What becomes of the attributes of one OTLP item: the parsers of         *)
(* internal/otlp take them into the fields of a row, what is left over     *)
(* becomes one JSON value, and the mappers of internal/store lay the row   *)
(* out for DuckDB's appender, which goes by position.                      *)
(*                                                                         *)
(* A value is a record [type, n]: n is the number it carries, the length   *)
(* of a text (-1 when it is all blanks) or of a list, or an identity where *)
(* none of these matters.                                                  *)
(***************************************************************************)
EXTENDS Integers, FiniteSets, Sequences

CONSTANTS
  Half32   \* 2^31 in the code: takeInt32 keeps the low 32 bits

ASSUME SchemaAssumption == Half32 \in Nat \ {0}

\* "digits" and "word" are strings, the first of which parses as a number and the
\* second as a Boolean; "bytes" stands for the types no conversion accepts.
WireTypes == {"text", "digits", "word", "int", "double", "nan", "bool", "list", "bytes"}
Value     == [type : WireTypes \cup {"null", "json"}, n : Int]
Null      == [type |-> "null", n |-> 0]

\* A mapping of one key, and two mappings together: f has the last word.
Entry(key, value) == [k \in {key} |-> value]
f ++ g == [k \in DOMAIN f \cup DOMAIN g |-> IF k \in DOMAIN f THEN f[k] ELSE g[k]]

-----------------------------------------------------------------------------
(* common.go *)

\* newAttrMap: attributes of the item override those of its resource.
NewAttrMap(resource, point) == point ++ resource

\* int32(n): two's complement.
Low32(n) == ((n + Half32) % (2 * Half32)) - Half32

IntTypes   == {"int", "double", "nan", "digits", "bool"}
FloatTypes == {"int", "double", "nan", "digits"}
BoolTypes  == {"bool", "word"}

\* asString: a number or a Boolean is written out, anything else becomes "".
AsString(v) ==
  CASE v.type \in {"text", "digits", "word"} -> v
    [] v.type \in {"int", "double", "nan"}   -> [type |-> "digits", n |-> v.n]
    [] v.type = "bool"                       -> [type |-> "word", n |-> v.n]
    [] OTHER                                 -> [type |-> "text", n |-> 0]

Empty(v) == v = Null \/ v = [type |-> "text", n |-> 0]
Blank(v) == Empty(v) \/ v = [type |-> "text", n |-> -1]

\* The takeX functions: what a value becomes in a field of the given kind.
Taken(v, kind) ==
  CASE kind = "string" -> AsString(v)
    [] kind = "int64"  -> IF v.type \in IntTypes THEN [type |-> "int", n |-> v.n] ELSE Null
    [] kind = "int32"  -> IF v.type \in IntTypes THEN [type |-> "int", n |-> Low32(v.n)] ELSE Null
    [] kind = "float"  -> IF v.type \in FloatTypes THEN [type |-> "double", n |-> v.n] ELSE Null
    [] kind = "bool"   -> IF v.type \in BoolTypes THEN [type |-> "bool", n |-> v.n] ELSE Null
    [] kind = "list"   -> IF v.type = "list" THEN v ELSE Null
    [] kind = "length" -> [type |-> "int", n |-> AsString(v).n]

\* A parser's fields: each is filled from one attribute, with one conversion.
Fields(kind, names)      == [f \in names |-> [key |-> f, kind |-> kind]]
Field(name, key, kind)   == Entry(name, [key |-> key, kind |-> kind])

Keys(fields) == {fields[f].key : f \in DOMAIN fields}

\* What a parser makes of the attributes: a value or Null for every field.
Take(fields, attrs) ==
  [f \in DOMAIN fields |->
     IF fields[f].key \in DOMAIN attrs THEN Taken(attrs[fields[f].key], fields[f].kind) ELSE Null]

\* leftover: an attribute a field was filled from is gone, converted or not.
Leftover(fields, attrs) == [k \in DOMAIN attrs \ Keys(fields) |-> attrs[k]]

\* attrsValue, json.Marshal: a number that is not finite has no JSON form.
Marshals(left) == \A k \in DOMAIN left : left[k].type # "nan"

-----------------------------------------------------------------------------
(* Fields shared by the parsers of a family. *)

CommonAttrs ==
  Field("session_id", "session.id", "string") ++ Field("user_id", "user.id", "string") ++
  Field("user_account_uuid", "user.account_uuid", "string") ++
  Field("user_account_id", "user.account_id", "string") ++
  Field("user_email", "user.email", "string") ++
  Field("organization_id", "organization.id", "string") ++
  Field("app_version", "app.version", "string") ++
  Field("terminal_type", "terminal.type", "string")

EventCommonAttrs ==
  CommonAttrs ++ Field("event_sequence", "event.sequence", "int64") ++
  Field("prompt_id", "prompt.id", "string") ++
  Field("workspace_host_paths", "workspace.host_paths", "list")

CodexCommonAttrs ==
  Fields("string", {"auth_mode", "originator", "model", "slug"}) ++
  Field("conversation_id", "conversation.id", "string") ++
  Field("app_version", "app.version", "string") ++
  Field("terminal_type", "terminal.type", "string") ++
  Field("user_account_id", "user.account_id", "string") ++
  Field("user_email", "user.email", "string")

Extension ==
  Field("agent_name", "agent.name", "string") ++ Field("skill_name", "skill.name", "string") ++
  Field("plugin_name", "plugin.name", "string") ++
  Field("marketplace_name", "marketplace.name", "string")

-----------------------------------------------------------------------------
(* metrics.go, events.go, codex_events.go and codex_telemetry.go *)

MetricFields ==
  LET usage == Fields("string", {"model", "query_source", "speed", "effort"}) ++ Extension
  IN  [session_count      |-> Fields("string", {"start_type"}),
       lines_of_code      |-> Fields("string", {"type"}),
       pull_request       |-> <<>>,
       commit             |-> <<>>,
       cost_usage         |-> usage,
       token_usage        |-> usage ++ Fields("string", {"type"}),
       code_edit_decision |-> Fields("string", {"tool_name", "decision", "source", "language"}),
       active_time        |-> Fields("string", {"type"})]

EventFieldsTier1 ==
  [user_prompt |-> Fields("int32", {"prompt_length"}) ++
                   Fields("string", {"prompt", "command_name", "command_source"}),
   api_request |-> Fields("string", {"model", "request_id", "speed", "query_source", "effort"}) ++
                   Fields("float", {"cost_usd"}) ++
                   Fields("int64", {"duration_ms", "input_tokens", "output_tokens",
                                    "cache_read_tokens", "cache_creation_tokens"}),
   api_error   |-> Fields("string", {"model", "error", "request_id", "speed", "query_source",
                                     "effort"}) ++
                   Fields("int32", {"status_code", "attempt"}) ++ Fields("int64", {"duration_ms"}),
   tool_result |-> Fields("string", {"tool_name", "tool_use_id", "error_type", "error",
                                     "decision_type", "decision_source", "mcp_server_scope",
                                     "tool_parameters", "tool_input"}) ++
                   Fields("bool", {"success"}) ++
                   Fields("int64", {"duration_ms", "tool_input_size_bytes",
                                    "tool_result_size_bytes"}),
   tool_decision |-> Fields("string", {"tool_name", "tool_use_id", "decision", "source"})]

EventFieldsTier2 ==
  [api_retries_exhausted |->
     Fields("string", {"model", "error", "speed"}) ++
     Fields("int32", {"status_code", "total_attempts"}) ++
     Fields("int64", {"total_retry_duration_ms"}),
   compaction  |-> Fields("string", {"trigger"}) ++ Fields("bool", {"success"}) ++
                   Fields("int64", {"duration_ms", "pre_tokens"}),
   permission_mode_changed |-> Fields("string", {"from_mode", "to_mode", "trigger"}),
   mcp_server_connection |->
     Fields("string", {"status", "transport_type", "server_scope", "error_code", "server_name",
                       "error"}) ++ Fields("int64", {"duration_ms"}),
   skill_activated |->
     Fields("string", {"invocation_trigger"}) ++ Field("skill_name", "skill.name", "string") ++
     Field("skill_source", "skill.source", "string") ++
     Field("plugin_name", "plugin.name", "string") ++
     Field("marketplace_name", "marketplace.name", "string"),
   at_mention  |-> Fields("string", {"mention_type"}) ++ Fields("bool", {"success"})]

EventFields == EventFieldsTier1 ++ EventFieldsTier2

CodexEventFields ==
  [conversation_starts |->
     Fields("string", {"provider_name", "reasoning_effort", "reasoning_summary",
                       "approval_policy", "sandbox_policy", "mcp_servers"}) ++
     Fields("int64", {"context_window", "auto_compact_token_limit"}),
   codex_api_request |->
     Fields("int64", {"duration_ms", "attempt"}) ++ Fields("string", {"endpoint"}) ++
     Field("status_code", "http.response.status_code", "int32") ++
     Field("error", "error.message", "string"),
   codex_token_usage |->
     Fields("int64", {"input_token_count", "output_token_count", "cached_token_count",
                      "reasoning_token_count", "tool_token_count", "duration_ms", "ttft_ms",
                      "cache_write_token_count"}) ++
     Fields("string", {"service_tier", "model_reasoning_effort"}) ++
     Field("error", "error.message", "string"),
   codex_user_prompt |-> Fields("int32", {"prompt_length"}) ++ Fields("string", {"prompt"}),
   codex_tool_decision |-> Fields("string", {"tool_name", "call_id", "decision", "source"}),
   codex_tool_result |->
     Fields("string", {"tool_name", "call_id", "mcp_server", "mcp_server_origin"}) ++
     Fields("int64", {"duration_ms"}) ++ Fields("bool", {"success", "output_truncated"}) ++
     Field("arguments_length", "arguments", "length") ++ Field("output_length", "output", "length")]

CodexTelemetryFields ==
  [skill_invocation |->
     Field("turn_id", "turn.id", "string") ++ Field("skill_name", "skill.name", "string") ++
     Field("scope", "skill.scope", "string") ++ Field("plugin_id", "skill.plugin_id", "string") ++
     Field("invocation_type", "skill.invocation_type", "string"),
   turn_cost |->
     Fields("string", {"speed", "reasoning_effort"}) ++ Field("turn_id", "turn.id", "string") ++
     Field("estimated_usd", "usage.estimated_usd", "string") ++
     Field("interrupted", "turn.interrupted", "bool"),
   turn_token_usage |-> Fields("string", {"token_type", "session_source"}),
   response_tbt     |-> Fields("string", {"session_source"}),
   skill_injected   |-> Fields("string", {"skill", "status", "invoke_type", "session_source"})]
=============================================================================
