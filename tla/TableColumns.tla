---------------------------- MODULE TableColumns ----------------------------
(***************************************************************************)
(* The order in which the mappers of internal/store hand a row's fields to *)
(* DuckDB's appender, and the columns the migrations gave each table.  The *)
(* appender goes by position: nothing but these two lists agreeing makes a *)
(* value arrive in its column.                                             *)
(*                                                                         *)
(* A kind of row is named after its Go type, and a table after its kind:   *)
(* tableNameFor and allTables pair them one to one.                        *)
(***************************************************************************)
EXTENDS RowSchemas

-----------------------------------------------------------------------------
(* mappers.go, codex_mappers.go and codex_telemetry_mappers.go *)

IdentityCols == <<"session_id", "user_id", "user_account_uuid", "user_account_id", "user_email",
                  "organization_id", "app_version", "terminal_type">>

CommonMetricCols == <<"ts", "start_ts", "received_at", "value">> \o IdentityCols

CommonEventCols ==
  <<"ts", "received_at", "event_sequence", "prompt_id", "workspace_host_paths">> \o IdentityCols

CodexCommonAttrCols == <<"conversation_id", "app_version", "auth_mode", "originator",
                         "terminal_type", "model", "slug", "user_account_id", "user_email">>

CommonCodexEventCols == <<"ts", "received_at">> \o CodexCommonAttrCols

CommonCodexMetricCols(payload) ==
  <<"ts", "start_ts", "received_at">> \o payload \o CodexCommonAttrCols

Attrs == <<"attrs">>

MapMetric ==
  LET usage == <<"model", "query_source", "speed", "effort", "agent_name", "skill_name",
                 "plugin_name", "marketplace_name">>
  IN  [session_count      |-> <<"start_type">>,
       lines_of_code      |-> <<"type">>,
       pull_request       |-> <<>>,
       commit             |-> <<>>,
       cost_usage         |-> usage,
       token_usage        |-> <<"type">> \o usage,
       code_edit_decision |-> <<"tool_name", "decision", "source", "language">>,
       active_time        |-> <<"type">>]

MapEventTier1 ==
  [user_prompt   |-> <<"prompt_length", "prompt", "command_name", "command_source">>,
   api_request   |-> <<"model", "cost_usd", "duration_ms", "input_tokens", "output_tokens",
                       "cache_read_tokens", "cache_creation_tokens", "request_id", "speed",
                       "query_source", "effort">>,
   api_error     |-> <<"model", "error", "status_code", "duration_ms", "attempt", "request_id",
                       "speed", "query_source", "effort">>,
   tool_result   |-> <<"tool_name", "tool_use_id", "success", "duration_ms", "error_type", "error",
                       "decision_type", "decision_source", "tool_input_size_bytes",
                       "tool_result_size_bytes", "mcp_server_scope", "tool_parameters",
                       "tool_input">>,
   tool_decision |-> <<"tool_name", "tool_use_id", "decision", "source">>]

MapEventTier2 ==
  [api_retries_exhausted   |-> <<"model", "error", "status_code", "total_attempts",
                                 "total_retry_duration_ms", "speed">>,
   compaction              |-> <<"trigger", "success", "duration_ms", "pre_tokens">>,
   permission_mode_changed |-> <<"from_mode", "to_mode", "trigger">>,
   mcp_server_connection   |-> <<"status", "transport_type", "server_scope", "duration_ms",
                                 "error_code", "server_name", "error">>,
   skill_activated         |-> <<"skill_name", "invocation_trigger", "skill_source",
                                 "plugin_name", "marketplace_name">>,
   at_mention              |-> <<"mention_type", "success">>]

\* Here attrs is not always last: columns of later migrations follow it.
MapCodexEvent ==
  [conversation_starts |-> <<"provider_name", "reasoning_effort", "reasoning_summary",
                             "context_window", "auto_compact_token_limit", "approval_policy",
                             "sandbox_policy", "mcp_servers", "attrs">>,
   codex_api_request   |-> <<"duration_ms", "status_code", "error", "attempt", "endpoint", "attrs">>,
   codex_token_usage   |-> <<"input_token_count", "output_token_count", "cached_token_count",
                             "reasoning_token_count", "tool_token_count", "service_tier",
                             "model_reasoning_effort", "duration_ms", "attrs", "cost_usd",
                             "ttft_ms", "cache_write_token_count", "error", "usage_valid">>,
   codex_user_prompt   |-> <<"prompt_length", "prompt", "attrs">>,
   codex_tool_decision |-> <<"tool_name", "call_id", "decision", "source", "attrs">>,
   codex_tool_result   |-> <<"tool_name", "call_id", "duration_ms", "success", "mcp_server",
                             "mcp_server_origin", "arguments_length", "output_length", "attrs",
                             "output_truncated">>]

MapCodexTelemetry ==
  [skill_invocation |-> <<"turn_id", "skill_name", "scope", "plugin_id", "invocation_type">>,
   turn_cost        |-> <<"turn_id", "estimated_usd", "interrupted", "speed", "reasoning_effort">>]

MapCodexMetric ==
  [skill_injected   |-> CommonCodexMetricCols(<<"value">>) \o
                        <<"skill", "status", "invoke_type", "session_source">>,
   response_tbt     |-> CommonCodexMetricCols(<<"sample_count", "sum_ms">>) \o <<"session_source">>,
   turn_token_usage |-> CommonCodexMetricCols(<<"sample_count", "sum_tokens">>) \o
                        <<"token_type", "session_source">>]

\* Mutant: attrs is always laid out last.
MapperAttrsLast ==
  LET tail(prefix, maps) == [k \in DOMAIN maps |->
        prefix \o SelectSeq(maps[k], LAMBDA f : f # "attrs") \o Attrs]
  IN  tail(CommonMetricCols, MapMetric) ++ tail(CommonEventCols, MapEventTier1) ++
      tail(CommonEventCols, MapEventTier2) ++ tail(CommonCodexEventCols, MapCodexEvent) ++
      tail(CommonCodexEventCols, MapCodexTelemetry) ++ tail(<<>>, MapCodexMetric)

\* The fields of a row of each kind in the order of AppendRow's arguments.
Mapper ==
  LET tail(prefix, maps, rest) == [k \in DOMAIN maps |-> prefix \o maps[k] \o rest]
  IN  tail(CommonMetricCols, MapMetric, Attrs) ++ tail(CommonEventCols, MapEventTier1, Attrs) ++
      tail(CommonEventCols, MapEventTier2, Attrs) ++ tail(CommonCodexEventCols, MapCodexEvent, <<>>) ++
      tail(CommonCodexEventCols, MapCodexTelemetry, Attrs) ++ tail(<<>>, MapCodexMetric, Attrs)

-----------------------------------------------------------------------------
(* The migrations, in the order they were applied. *)

CreateMetricTables ==
  LET who   == <<"ts", "start_ts", "received_at", "value", "session_id", "user_id",
                 "user_account_uuid", "user_account_id", "user_email", "organization_id",
                 "app_version", "terminal_type">>
      usage == <<"model", "query_source", "speed", "effort", "agent_name", "skill_name",
                 "plugin_name", "marketplace_name", "attrs">>
  IN  [session_count      |-> who \o <<"start_type", "attrs">>,
       lines_of_code      |-> who \o <<"type", "attrs">>,
       pull_request       |-> who \o <<"attrs">>,
       commit             |-> who \o <<"attrs">>,
       cost_usage         |-> who \o usage,
       token_usage        |-> who \o <<"type">> \o usage,
       code_edit_decision |-> who \o <<"tool_name", "decision", "source", "language", "attrs">>,
       active_time        |-> who \o <<"type", "attrs">>]

CreateEventTables ==
  LET who == <<"ts", "received_at", "event_sequence", "prompt_id", "workspace_host_paths",
               "session_id", "user_id", "user_account_uuid", "user_account_id", "user_email",
               "organization_id", "app_version", "terminal_type">>
  IN  [user_prompt   |-> who \o <<"prompt_length", "prompt", "command_name", "command_source",
                                  "attrs">>,
       api_request   |-> who \o <<"model", "cost_usd", "duration_ms", "input_tokens",
                                  "output_tokens", "cache_read_tokens", "cache_creation_tokens",
                                  "request_id", "speed", "query_source", "effort", "attrs">>,
       api_error     |-> who \o <<"model", "error", "status_code", "duration_ms", "attempt",
                                  "request_id", "speed", "query_source", "effort", "attrs">>,
       tool_result   |-> who \o <<"tool_name", "tool_use_id", "success", "duration_ms",
                                  "error_type", "error", "decision_type", "decision_source",
                                  "tool_input_size_bytes", "tool_result_size_bytes",
                                  "mcp_server_scope", "tool_parameters", "tool_input", "attrs">>,
       tool_decision |-> who \o <<"tool_name", "tool_use_id", "decision", "source", "attrs">>,
       api_retries_exhausted   |-> who \o <<"model", "error", "status_code", "total_attempts",
                                            "total_retry_duration_ms", "speed", "attrs">>,
       compaction              |-> who \o <<"trigger", "success", "duration_ms", "pre_tokens",
                                            "attrs">>,
       permission_mode_changed |-> who \o <<"from_mode", "to_mode", "trigger", "attrs">>,
       mcp_server_connection   |-> who \o <<"status", "transport_type", "server_scope",
                                            "duration_ms", "error_code", "server_name", "error",
                                            "attrs">>,
       skill_activated         |-> who \o <<"skill_name", "invocation_trigger", "skill_source",
                                            "plugin_name", "marketplace_name", "attrs">>,
       at_mention              |-> who \o <<"mention_type", "success", "attrs">>]

CreateCodexTables ==
  LET who     == <<"conversation_id", "app_version", "auth_mode", "originator", "terminal_type",
                   "model", "slug", "user_account_id", "user_email">>
      event   == <<"ts", "received_at">> \o who
      metric  == <<"ts", "start_ts", "received_at">>
      added04 == <<"cost_usd">>
      added08 == <<"ttft_ms", "cache_write_token_count", "error", "usage_valid">>
  IN  [conversation_starts |-> event \o <<"provider_name", "reasoning_effort", "reasoning_summary",
                                          "context_window", "auto_compact_token_limit",
                                          "approval_policy", "sandbox_policy", "mcp_servers",
                                          "attrs">>,
       codex_api_request   |-> event \o <<"duration_ms", "status_code", "error", "attempt",
                                          "endpoint", "attrs">>,
       codex_token_usage   |-> event \o <<"input_token_count", "output_token_count",
                                          "cached_token_count", "reasoning_token_count",
                                          "tool_token_count", "service_tier",
                                          "model_reasoning_effort", "duration_ms", "attrs">>
                                 \o added04 \o added08,
       codex_user_prompt   |-> event \o <<"prompt_length", "prompt", "attrs">>,
       codex_tool_decision |-> event \o <<"tool_name", "call_id", "decision", "source", "attrs">>,
       codex_tool_result   |-> event \o <<"tool_name", "call_id", "duration_ms", "success",
                                          "mcp_server", "mcp_server_origin", "arguments_length",
                                          "output_length", "attrs">> \o <<"output_truncated">>,
       skill_invocation    |-> event \o <<"turn_id", "skill_name", "scope", "plugin_id",
                                          "invocation_type", "attrs">>,
       turn_cost           |-> event \o <<"turn_id", "estimated_usd", "interrupted", "speed",
                                          "reasoning_effort", "attrs">>,
       skill_injected      |-> metric \o <<"value">> \o who \o
                               <<"skill", "status", "invoke_type", "session_source", "attrs">>,
       response_tbt        |-> metric \o <<"sample_count", "sum_ms">> \o who \o
                               <<"session_source", "attrs">>,
       turn_token_usage    |-> metric \o <<"sample_count", "sum_tokens">> \o who \o
                               <<"token_type", "session_source", "attrs">>]

Tables == CreateMetricTables ++ CreateEventTables ++ CreateCodexTables

Kinds == DOMAIN Mapper

\* Columns declared NOT NULL, in the tables that have them.
NotNull == {"ts", "start_ts", "received_at", "value", "sample_count", "sum_ms", "sum_tokens",
            "turn_id", "estimated_usd", "invocation_type", "token_type"}
Required(kind) ==
  NotNull \cup (IF kind \in DOMAIN (MapMetric ++ MapEventTier1 ++ MapEventTier2) THEN {"user_id"} ELSE {})
          \cup (IF kind = "skill_invocation" THEN {"skill_name"} ELSE {})

-----------------------------------------------------------------------------
Position == [kind \in Kinds |->
  [c \in {Tables[kind][i] : i \in DOMAIN Tables[kind]} |->
     CHOOSE i \in DOMAIN Tables[kind] : Tables[kind][i] = c]]

\* The null helpers; an empty list is NULL as well.
Laid(v) == IF v.type = "list" /\ v.n = 0 THEN Null ELSE v

\* AppendRow: the i-th argument goes to the i-th column.  row is a function of the
\* field names; the result is one of the column names.
Stored(kind, row) ==
  [c \in DOMAIN Position[kind] |-> Laid(row[Mapper[kind][Position[kind][c]]])]

\* What AppendBatch gets through: leftover attributes that have a JSON form, as many
\* arguments as there are columns, none of them missing where the table insists.
Accepted(kind, row, left) ==
  /\ Marshals(left)
  /\ Len(Mapper[kind]) = Len(Tables[kind])
  /\ \A c \in Required(kind) \cap DOMAIN Position[kind] : Stored(kind, row)[c] # Null
=============================================================================
