----------------------------- MODULE Dashboard -----------------------------
(***************************************************************************)
(* internal/dashboard: the handlers that answer GET requests, over one     *)
(* database with the writer and the archiver.                              *)
(*                                                                         *)
(* The pool of database/sql has one connection.  A handler waits for it,   *)
(* begins a transaction, reads summaries and raw rows through it and gives *)
(* it back.  The archiver needs the same connection for its transaction,   *)
(* and store.DB's writeMu around it; the writer's appenders have one of    *)
(* their own, and need writeMu alone.                                      *)
(* Left out: parameters that are refused with 400, and the realtime speed  *)
(* of both clients, which asks the database nothing.                       *)
(***************************************************************************)
EXTENDS DashboardQueries, Sequences

CONSTANTS
  Data,      \* the rows there are, by name
  Handlers,  \* goroutines of the HTTP server
  Asks,      \* requests by name: [of, client, range, days, limit, session], what applies
  AskedOf,   \* bound: handler -> names of the requests it gets
  Batches,   \* bound: the rows the writer flushes together, one batch after the other
  Times      \* bound: what the clock shows, in order

ASSUME DashboardAssumption ==
  /\ IsFiniteSet(DOMAIN Data)
  /\ \A n \in DOMAIN Data : /\ n # "" /\ Data[n].row = n
                            /\ Data[n].model \in Models \cup {""} /\ Data[n].ts \in Int
                            /\ Data[n].table = "turn_cost" =>
                                 Data[n].received \in Int /\ Data[n].amount \in Int /\
                                 Data[n].tie \in Int
                            /\ Data[n].table = "codex_token_usage" =>
                                 /\ OrZero(Data[n].cost) \in Int
                                 /\ Data[n].input \in Int /\ Data[n].output \in Int
                            /\ Data[n].table \in {"token_usage", "cost_usage"} =>
                                 Data[n].value \in Int
  /\ \A a \in DOMAIN Asks : /\ Asks[a].client \in {"all", "claude", "codex"}
                            /\ Asks[a].of = "sessions" => Asks[a].limit \in Nat
                            /\ Asks[a].of = "rankings" => Asks[a].days \in Int \cup {Null}
                            /\ Asks[a].of \in {"snapshot", "trends", "models", "rates", "telemetry"}
                                 => Asks[a].range \in {"day", "week", "month"}
                            /\ Asks[a].of \in
                                 {"snapshot", "trends", "heatmap", "models", "rankings", "rates",
                                  "realtime", "prices", "telemetry", "sessions", "session"}
  /\ \A m, n \in {i \in DOMAIN Data : Data[i].session # ""} :
       LET j == SessionKey(Data[m]) k == SessionKey(Data[n])
       IN  /\ SessionRank[j.client][j.id] \in Int
           /\ SessionRank[j.client][j.id] = SessionRank[k.client][k.id] => j = k
  /\ AskedOf \in [Handlers -> SUBSET DOMAIN Asks]
  /\ {"none", "archiver"} \cap Handlers = {}
  /\ Batches \in Seq(SUBSET DOMAIN Data)
  /\ \A i, j \in DOMAIN Batches : i # j => Batches[i] \cap Batches[j] = {}
  /\ Times \in Seq(Int) /\ Times # <<>>

\* row_number() numbers the reports of a turn one after the other, also those that tie.
ASSUME TieAssumption ==
  \A m, n \in {i \in DOMAIN Data : Data[i].table = "turn_cost"} :
    m # n /\ SameTurn(Data[m], Data[n]) => Newer(Data[m], Data[n]) \/ Newer(Data[n], Data[m])

\* The numbers in the columns that are added up or compared.
ASSUME ColumnAssumption ==
  \A n \in DOMAIN Data :
    /\ Data[n].table = "api_request" => Data[n].output \in Int /\ Data[n].duration \in Int
    /\ Data[n].table \in {"response_tbt", "turn_token_usage"} =>
         Data[n].samples \in Int /\ Data[n].sum \in Int
    /\ Data[n].table = "skill_injected" => Data[n].value \in Int
    /\ Data[n].table = "codex_token_usage" =>
         /\ \A c \in {Data[n].cached, Data[n].write, Data[n].reasoning} : OrZero(c) \in Int
         /\ Data[n].ttft \in Int \cup {Null}

VARIABLES
  clock,    \* the index of the time in Times
  flushed,  \* how many batches are in
  raw,      \* rows of the raw tables, committed
  archived, \* rows the summaries were made of, committed
  archiver, \* "idle", "locked" (has writeMu) or "tx"
  day,      \* the day it is at, as a window
  conn,     \* who has the connection of the pool: "none", "archiver" or a handler
  pc,       \* per handler: "idle", "waiting", "summaries", "rows" or "answer"
  ask,      \* the request it serves
  at,       \* the time windowAt was given
  snap,     \* what its transaction sees
  got       \* what it has read

vars == <<clock, flushed, raw, archived, archiver, day, conn, pc, ask, at, snap, got>>
storeVars   == <<clock, flushed, raw, archived, archiver, day>>
requestVars == <<pc, ask, at, snap, got>>

Now     == Times[clock]
NoDay   == Window(0, 0)
Nothing == [raw |-> {}, archived |-> {}]
Request(h) == Asks[ask[h]]

Rows(names)   == {Data[n] : n \in names}
\* What the queries find in a view of names.
Found(v)      == Read([raw |-> Rows(v.raw), archived |-> Rows(v.archived)])

Init ==
  /\ clock = 1 /\ flushed = 0
  /\ raw = {} /\ archived = {}
  /\ archiver = "idle" /\ day = NoDay
  /\ conn = "none"
  /\ pc = [h \in Handlers |-> "idle"]
  /\ ask = [h \in Handlers |-> "none"]
  /\ at = [h \in Handlers |-> 0]
  /\ snap = [h \in Handlers |-> Nothing]
  /\ got = [h \in Handlers |-> Nothing]

-----------------------------------------------------------------------------
(* A request *)

\* ServeHTTP: the windows are computed before the database is asked.
Ask(h) ==
  /\ pc[h] = "idle"
  /\ \E a \in AskedOf[h] : ask' = [ask EXCEPT ![h] = a]
  /\ at' = [at EXCEPT ![h] = Now]
  /\ pc' = [pc EXCEPT ![h] = "waiting"]
  /\ UNCHANGED <<storeVars, conn, snap, got>>

\* BeginTx, or the one statement of BuildRealtimeSpeed.
Begin(h) ==
  /\ pc[h] = "waiting" /\ conn = "none"
  /\ conn' = h
  /\ snap' = [snap EXCEPT ![h] = [raw |-> raw, archived |-> archived]]
  /\ pc' = [pc EXCEPT ![h] = IF Request(h).of = "realtime" THEN "rows" ELSE "summaries"]
  /\ UNCHANGED <<storeVars, ask, at, got>>

\* Mutant: the queries go to the pool, and not to the transaction.
FreeConnection(h) == conn = "none"

\* The queries run on the connection of their transaction.
OwnConnection(h) == conn = h

\* The queries of the archive schema.
ReadSummaries(h) ==
  /\ pc[h] = "summaries" /\ OwnConnection(h)
  /\ got' = [got EXCEPT ![h].archived = snap[h].archived]
  /\ pc' = [pc EXCEPT ![h] = "rows"]
  /\ UNCHANGED <<storeVars, conn, ask, at, snap>>

ReadRows(h) ==
  /\ pc[h] = "rows" /\ OwnConnection(h)
  /\ got' = [got EXCEPT ![h].raw = snap[h].raw]
  /\ pc' = [pc EXCEPT ![h] = "answer"]
  /\ UNCHANGED <<storeVars, conn, ask, at, snap>>

Leave(h) ==
  /\ pc' = [pc EXCEPT ![h] = "idle"]
  /\ ask' = [ask EXCEPT ![h] = "none"]
  /\ at' = [at EXCEPT ![h] = 0]
  /\ snap' = [snap EXCEPT ![h] = Nothing]
  /\ got' = [got EXCEPT ![h] = Nothing]

\* Commit, and the answer.
Reply(h) == pc[h] = "answer" /\ conn' = "none" /\ Leave(h) /\ UNCHANGED storeVars

\* Mutant: no Rollback.
FailsInTransaction(h) ==
  /\ pc[h] \in {"summaries", "rows"} /\ conn = h
  /\ Leave(h)
  /\ UNCHANGED <<storeVars, conn>>

\* A statement fails, or the client hangs up in the middle: Rollback, and 500.
QueryFails(h) ==
  /\ pc[h] \in {"summaries", "rows"} /\ conn = h
  /\ conn' = "none" /\ Leave(h)
  /\ UNCHANGED storeVars

\* The client hangs up before there was a connection.
HangUp(h) == pc[h] = "waiting" /\ Leave(h) /\ UNCHANGED <<storeVars, conn>>

-----------------------------------------------------------------------------
(* The writer and the archiver, as far as they matter here *)

\* AppendBatch of every table that had rows, under writeMu.
Flush ==
  /\ archiver = "idle" /\ flushed < Len(Batches)
  /\ raw' = raw \cup Batches[flushed + 1]
  /\ flushed' = flushed + 1
  /\ UNCHANGED <<clock, archived, archiver, day, conn, requestVars>>

Tick == clock < Len(Times) /\ clock' = clock + 1
        /\ UNCHANGED <<flushed, raw, archived, archiver, day, conn, requestVars>>

RowsOf(w) == {n \in raw : w.start <= Data[n].ts /\ Data[n].ts < w.end}

\* archiveDay: writeMu first, then the connection.  Days without rows are left out, and so is
\* the order of the days, which late rows and days that fail disturb.
Lock ==
  LET cutoff == ArchiveCutoff(Zone, Now)
  IN  /\ archiver = "idle"
      /\ \E d \in ExpiredDays(Zone, {Data[n].ts : n \in raw}, cutoff) :
           day' = Window(d, DayEnd(Zone, d, cutoff))
      /\ RowsOf(day') # {}
      /\ archiver' = "locked"
      /\ UNCHANGED <<clock, flushed, raw, archived, conn, requestVars>>

BeginDay ==
  /\ archiver = "locked" /\ conn = "none"
  /\ conn' = "archiver" /\ archiver' = "tx"
  /\ UNCHANGED <<clock, flushed, raw, archived, day, requestVars>>

\* The day's rows become summaries, or nothing does: a statement may fail.
EndDay ==
  /\ archiver = "tx"
  /\ \/ raw' = raw \ RowsOf(day) /\ archived' = archived \cup RowsOf(day)
     \/ UNCHANGED <<raw, archived>>
  /\ archiver' = "idle" /\ conn' = "none" /\ day' = NoDay
  /\ UNCHANGED <<clock, flushed, requestVars>>

-----------------------------------------------------------------------------
Next ==
  \/ \E h \in Handlers : Ask(h) \/ Begin(h) \/ ReadSummaries(h) \/ ReadRows(h) \/ Reply(h)
                           \/ QueryFails(h) \/ HangUp(h)
  \/ Flush \/ Tick \/ Lock \/ BeginDay \/ EndDay

Spec == Init /\ [][Next]_vars

\* Whoever has the connection goes on, and whoever waits for it gets it in the end:
\* database/sql picks a waiter at random when one is given back.
Fairness ==
  /\ \A h \in Handlers : /\ SF_vars(Begin(h))
                         /\ WF_vars(ReadSummaries(h)) /\ WF_vars(ReadRows(h)) /\ WF_vars(Reply(h))
  /\ WF_vars(EndDay)

FairSpec == Spec /\ Fairness

-----------------------------------------------------------------------------
(* Properties *)

Reading(h) == pc[h] \in {"summaries", "rows", "answer"}

\* Types; a row is raw or archived, and the connection is with whoever has a transaction: no
\* way out of one, by an answer, a failure or a committed day, leaves it behind.
TypeOK ==
  /\ clock \in DOMAIN Times /\ flushed \in 0 .. Len(Batches)
  /\ raw \subseteq DOMAIN Data /\ archived \subseteq DOMAIN Data \ raw
  /\ archiver \in {"idle", "locked", "tx"}
  /\ pc \in [Handlers -> {"idle", "waiting", "summaries", "rows", "answer"}]
  /\ \A h \in Handlers : (conn = h) <=> Reading(h)
  /\ (conn = "archiver") <=> (archiver = "tx")

\* The rows of sessions without their times.
Timeless(a, answer) ==
  LET kept(row) == [f \in DOMAIN row \ {"span"} |-> row[f]]
  IN  CASE a.of = "sessions" -> [key \in DOMAIN answer |-> kept(answer[key])]
        [] a.of = "session"  -> kept(answer)
        [] OTHER -> answer

\* What has been answered, but for the times of sessions: the views keep the newest report of
\* a turn's cost and the first of a skill's use, the summaries the times of all of them.
\* Which sessions a list is cut down to depends on those, so all are listed.
Told(a, v, now) ==
  Timeless(a, IF a.of = "sessions" THEN SessionList(Found(v), a.client, Cardinality(DOMAIN Data))
              ELSE AnswerFrom(a, Found(v), now))

\* No cost Claude reports is zero or less: the summaries do not tell such costs from none.
CostsPositive == \A n \in DOMAIN Data : Data[n].table = "cost_usage" => Data[n].value > 0

\* No request waits for the connection until a sweep's cutoff is close to the time it came at:
\* that is RetentionDays later, give or take an hour.
WaitsBriefly ==
  \A h \in Handlers : pc[h] = "waiting" =>
    \A i \in 1 .. clock : ArchiveCutoff(Zone, Times[i]) + HourTicks + 2 * RealtimeTicks <= at[h]

\* Archiving changes no answer: each equals the one that would be given if every row it saw
\* were still a raw row, whatever days are archived before, between and after its queries.
\* Windows may cut through no hour that has been archived, and no row may be read twice or
\* not at all because its day is committed in between.
AnswersSurviveArchiving ==
  \A h \in Handlers : pc[h] = "answer" =>
    LET seen == snap[h].raw \cup snap[h].archived
    IN  Cardinality({Told(Request(h), v, at[h]) :
                       v \in {got[h], [raw |-> seen, archived |-> {}]}}) = 1

CostOf(rows, reports, id) ==
  (IF reports # {} THEN Total(LAMBDA r : r.amount, reports)
   ELSE Total(LAMBDA r : OrZero(r.cost), ValidUsage(rows))) + LegacyCost(id)

\* A conversation costs what its turns reported, each the newest time, from the first report
\* on and wherever it is by now, or else the sum of the estimates of its valid responses:
\* never both.  What an earlier version left of it comes on top.
CostFromOneSource ==
  \A h \in Handlers : pc[h] = "answer" /\ Request(h).of = "sessions" =>
    LET own(id) == {r \in Rows(snap[h].raw \cup snap[h].archived) : r.session = id}
        rightly(list) == \A key \in {k \in DOMAIN list : k.client = "codex"} :
                           list[key].cost.total = CostOf(own(key.id), NewestTurns(own(key.id)), key.id)
    IN  rightly(SessionList(Found(got[h]), Request(h).client, Request(h).limit))

Recent(d, all, listed, limit) ==
  /\ listed \subseteq all
  /\ listed = all \/ Cardinality(listed) = limit
  /\ \A k \in listed, j \in all \ listed : Span(d, k).last >= Span(d, j).last

\* A list of the latest sessions has as many as it may have and there are, and misses none
\* whose detail would show a later time than a listed one's, though it is put together of
\* the latest of the raw tables and of either client's summaries.
RecentSessionsFound ==
  \A h \in Handlers : pc[h] = "answer" /\ Request(h).of = "sessions" =>
    LET found(d, client, limit) ==
          Recent(d, SessionKeys(d, Arms(client)), DOMAIN SessionList(d, client, limit), limit)
    IN  found(Found(got[h]), Request(h).client, Request(h).limit)

Tiled(answer, drawn) ==
  \A m \in {"total", "cost", "requests"} :
    /\ Total(LAMBDA i : answer.bars[i][m], DOMAIN answer.bars) = Sum(drawn, m)
    /\ answer.bars[Len(answer.bars)][m] >= answer.current[m]

\* The bars of the overview share out what its sparkline window has: labels are dates of the
\* configured zone, windows are instants, and no row falls between two labels or into two.
\* The last bar has what the number beside it has, at least.
BarsTile ==
  \A h \in Handlers : pc[h] = "answer" /\ Request(h).of = "snapshot" =>
    LET tiled(d, client, range) ==
          Tiled(Overview(d, client, range, at[h]),
                Within(Served(d, client), Resolve(Zone, at[h], range).sparkline))
    IN  tiled(Found(got[h]), Request(h).client, Request(h).range)

\* Every request is answered, if only with an error: nobody who has the one connection waits
\* for a second one, and the archiver takes the write lock and the connection in an order in
\* which no one waits for it the other way round.
AnswersArrive == \A h \in Handlers : pc[h] = "waiting" ~> pc[h] = "idle"
=============================================================================
