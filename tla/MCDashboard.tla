---------------------------- MODULE MCDashboard ----------------------------
(***************************************************************************)
(* An instance of Dashboard for TLC: two hours to a day and two instants   *)
(* to an hour, weeks of two dates and months of four, two dates of         *)
(* retention.  Date 11 of UTC+1, in the middle of a month, and date 12     *)
(* see rows of the dates 8 to 12.                                          *)
(***************************************************************************)
EXTENDS Dashboard, TLC

MCZone   == [first |-> 2, then |-> 2, at |-> 0]
MCTimes  == <<43, 47>>
MCBars   == [day |-> 4, week |-> 3, month |-> 2]
MCRateInterval == [day |-> 2, week |-> 2, month |-> 4]
MCRateCount    == [day |-> 3, week |-> 4, month |-> 4]

-----------------------------------------------------------------------------
At(table, ts, session, model) ==
  [table |-> table, ts |-> ts, session |-> session, model |-> model]

Usage(ts, session, model, type, value) ==
  [type |-> type, value |-> value] @@ At("token_usage", ts, session, model)
Cost(ts, session, model, value) == [value |-> value] @@ At("cost_usage", ts, session, model)
Call(ts, session, model, output, duration) ==
  [output |-> output, duration |-> duration] @@ At("api_request", ts, session, model)
Named(table, ts, session, name) == [name |-> name] @@ At(table, ts, session, "")
Response(ts, session, model, valid, in, cached, write, outgoing, cost, ttft) ==
  [valid |-> valid, input |-> in, cached |-> cached, write |-> write, output |-> outgoing,
   reasoning |-> outgoing \div 2, cost |-> cost, ttft |-> ttft] @@
  At("codex_token_usage", ts, session, model)
TurnCost(ts, session, received, amount) ==
  [turn |-> "turn", received |-> received, amount |-> amount, tie |-> 1] @@
  At("turn_cost", ts, session, "m")
Invoked(ts, session) ==
  [turn |-> "turn", type |-> "explicit"] @@ Named("skill_invocation", ts, session, "skill")

\* Claude has the session a, and b with no more than a prompt and a late request; Codex has
\* the conversation c, whose one turn reports its cost three times, the last two reports in a
\* tie, and e, which has estimates.
\* The conversation of c is still going on when its first day is archived.
Old ==
  [aIn   |-> Usage(31, "a", "m", "input", 5),
   aRead |-> Usage(33, "a", "m", "cacheRead", 3),
   aCost |-> Cost(31, "a", "m", 4),
   aCall |-> Call(32, "a", "m", 6, 2),
   aTool |-> Named("tool_result", 32, "a", "tool"),
   aUse  |-> Named("skill_activated", 30, "a", "skill"),
   cOne  |-> Response(31, "c", "m", TRUE, 9, 2, 1, 4, 3, 7),
   cBad  |-> Response(32, "c", "m", FALSE, 9, 2, 1, 4, 3, 7),
   cTurn |-> [type |-> "input", samples |-> 1, sum |-> 8] @@ At("turn_token_usage", 31, "c", "m"),
   cTbt  |-> [samples |-> 2, sum |-> 5] @@ At("response_tbt", 33, "c", "m"),
   cUse  |-> Invoked(32, "c"),
   cSkill |-> [ok |-> TRUE, value |-> 2] @@ Named("skill_injected", 33, "c", "skill"),
   cCost |-> TurnCost(33, "c", 1, 10)]

Late ==
  [cLate |-> TurnCost(33, "c", 2, 12),
   cTwin |-> [tie |-> 2] @@ TurnCost(33, "c", 2, 12),
   cTool |-> Named("codex_tool_result", 34, "c", ""),
   eOne  |-> Response(36, "e", "n", TRUE, 6, Null, Null, 2, 2, 9),
   bAsk  |-> At("user_prompt", 35, "b", "")]

New ==
  [aOut  |-> Usage(41, "a", "n", "output", 2),
   aOther |-> Usage(41, "a", "n", "unheard", 3),
   bCall |-> Call(42, "b", "m", 4, 1),
   cTwo  |-> Response(42, "c", "n", TRUE, 4, 1, Null, 2, 5, 7),
   cDone |-> [samples |-> 3, sum |-> 2] @@ At("response_tbt", 42, "c", "m"),
   cOnce |-> Invoked(40, "c")]

MCData    == LET rows == Old @@ Late @@ New
             IN  [n \in DOMAIN rows |-> [row |-> n] @@ rows[n]]
MCBatches == <<DOMAIN Old, DOMAIN Late, DOMAIN New>>

MCLegacyHours    == {[bucket |-> 30, model |-> "m", cost |-> 6]}
MCLegacySessions == [c |-> 1]
MCSessionRank    == [claude |-> [a |-> 1, b |-> 2], codex |-> [c |-> 3, e |-> 4]]

-----------------------------------------------------------------------------
MCAsks ==
  [today    |-> [of |-> "snapshot", client |-> "all", range |-> "day"],
   thisWeek |-> [of |-> "snapshot", client |-> "codex", range |-> "week"],
   month    |-> [of |-> "snapshot", client |-> "claude", range |-> "month"],
   trends   |-> [of |-> "trends", client |-> "all", range |-> "day"],
   heatmap  |-> [of |-> "heatmap", client |-> "all"],
   models   |-> [of |-> "models", client |-> "all", range |-> "month"],
   rankings |-> [of |-> "rankings", client |-> "all", days |-> 3],
   rates    |-> [of |-> "rates", client |-> "claude", range |-> "week"],
   allRates |-> [of |-> "rates", client |-> "all", range |-> "day"],
   codexRates |-> [of |-> "rates", client |-> "codex", range |-> "month"],
   realtime |-> [of |-> "realtime", client |-> "codex"],
   prices   |-> [of |-> "prices", client |-> "all"],
   telemetry |-> [of |-> "telemetry", client |-> "codex", range |-> "month"],
   sessions |-> [of |-> "sessions", client |-> "all", limit |-> 2],
   detail   |-> [of |-> "session", client |-> "all", session |-> "c"]]

\* One handler is asked everything, another gets in its way.
MCAskedOf == [h1 |-> DOMAIN MCAsks, h2 |-> {"realtime"}]

-----------------------------------------------------------------------------
\* The costs and times of this instance are such as CostsPositive and WaitsBriefly ask for, the
\* latter whichever of its times a request comes at and the clock shows.
ASSUME InstanceAssumption ==
  /\ CostsPositive
  /\ \A i, j \in DOMAIN Times :
       ArchiveCutoff(Zone, Times[i]) + HourTicks + 2 * RealtimeTicks <= Times[j]
=============================================================================
