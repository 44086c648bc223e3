# Verification of agents-otel-monitor

A TLA+ model of the telemetry monitor in this repository: a Go process that
receives OpenTelemetry metrics and events of coding agents over gRPC, keeps them
in a DuckDB file, folds old rows into summaries, and serves a dashboard. The
modules here model the code's control: what each goroutine may do, in which
order, and what happens when a step fails; and, where answers depend on it, what
is computed: rows from requests, prices, summaries, windows and charts. TLC checks them on small instances,
TLAPS proves the most important facts for every instance. `PROJECT.json` maps
every definition to the lines it stands for.

Run a configuration with `tlc -config ArchiverSafety.cfg MCArchiver`, check a
proof with `tlapm ArchiverProofs.tla`.

## 1. The system

| component | where | state it keeps | operations | hard part |
|---|---|---|---|---|
| OTLP server and dispatcher | `internal/otlp` | none beyond the gRPC server | `Export`, parsing, routing, graceful or forced stop | always answers success; handlers may outlive the stop |
| pricing engine | `internal/pricing` | price table (atomic pointer), unmatched counter | `CostFor`, daily refresh over HTTP | refresh against use, failures |
| buffered writer | `internal/store/writer.go`, `buffer.go`, `appender.go` | a queue and a DuckDB appender per table, counters, `writeMu` | `AppendMetric`/`AppendEvent`, tick, flush, `Stop` | flushes from any thread, retry of failed batches, limit, shutdown |
| archiver | `internal/store/archive.go`, `codex_archive.go`, `archivezone` | raw and summary tables, timer | catch-up, daily sweep, one transaction per local day, `Stop` | late rows, crashes, calendars |
| migrations | `internal/store/migrate.go`, `migrations/` | `schema_migrations` | apply pending scripts | no transaction around a script |
| dashboard | `internal/dashboard` | none (reads) | a builder per endpoint, one read transaction each | rows and summaries must add up |
| process | `cmd/server` | components in start order | start, take over a running instance, shut down | drain against a five-second deadline |
| updater | `internal/updater` | the executable on disk | query, download, verify, rename | failure at any step |
| desktop panel | `desktop/` | last answer per scope | refresh on a timer or on show | overlapping requests |
| web frontend | `frontend/` | last answer per view | fetch and draw | – |

How they interact. A gRPC handler parses a request and calls the writer for each
row. The writer only takes the queue's own lock, unless the queue has reached
`batch_size`; then this handler flushes it under `db.writeMu`. A ticker flushes
all tables every five seconds. The archiver takes the same `writeMu` for each
day it archives, so no flush runs between its aggregation and its `DELETE`. The
dashboard reads on the pool's single connection, in one transaction per answer;
the archiver needs that connection too, the writer's appenders have one of their own.
The price table is an atomic pointer that the refresh goroutine replaces while
handlers estimate costs with it.
Shutdown goes: gRPC, stats server, archiver, writer, database.

What makes each part correct:

- dispatcher and mappers: an item is a row, an error, unknown or skipped, once; an
  attribute ends in its column or in the JSON column; no row is let through that its
  table refuses; tokens are billed once;
- pricing: a cost is by one table that was in use, overrides win, a failed refresh
  changes nothing, `Stop` returns;
- writer: no accepted row is lost without being counted, rows of a table stay in
  order, the counters add up, the queue is bounded, a graceful stop leaves nothing
  behind, and nobody waits for ever;
- archiver: a row's values are in one place exactly, raw or summarised, whatever
  fails; the merges of late data give what all the data would have given; nothing
  leaves before its retention is over and everything expired leaves eventually;
- migrations: a recorded migration is complete, and what the documents call
  re-runnable may be interrupted anywhere;
- dashboard: an answer does not change because rows were archived meanwhile, a
  conversation has one source of cost, lists and charts miss nothing, and every request
  is answered;
- process: at most one instance has the file; what a takeover may lose is bounded;
- updater: the installed file is the old one or the verified new one;
- panels: what is shown under a scope is the latest answer asked for that scope.

`PROJECT.json` lists the hazards, each at its line, with the properties that
watch it, or the reason why none does.

## 2. The modules

```
TableBuffer -- BufferedWriter -- MCBufferedWriter        ArchiveCalendar -- Archiver -- MCArchiver
                     |   \                                                     |
                     |    RowSink (abstract, by INSTANCE)    FiniteProofs -- ArchiverProofs
                     |
             BufferedWriterProofs -- FiniteProofs

Migrations -- ServerLifecycle -- MCServerLifecycle
                     |
            ServerLifecycleProofs

RowSchemas -- TableColumns --+
                             Ingest -- MCIngest, IngestProofs (with FiniteProofs)
              PriceTable ----+

ArchiveCalendar -- TimeWindows --+
                                 DashboardQueries -- Dashboard -- MCDashboard, DashboardProofs
                     Summaries --+                                  (with FiniteProofs)
                                                                         |
                                                            SummaryProofs -- AnswerProofs
```

The modules of one line are checked together. They meet where the code does: what
`Ingest` hands to its sink is what `BufferedWriter` accepts, a `Flush` of the writer
brings rows into `Archiver` and `Dashboard`, and that a day becomes summaries in
one step in `Dashboard`, in any order of days, is what `Archiver` shows of its transactions.

### TableBuffer, BufferedWriter

`TableBuffer` has the methods of the Go type as operators from a buffer to a
buffer: each method holds `b.mu` for its whole body. A row is the number of the
`Append` call that brought it, so order and duplication are visible and the
payload is not.

`BufferedWriter` has one step per critical section.

| action | code |
|---|---|
| `Accept` | `append`: `buf.Append`, and the decision to flush on the size it returned |
| `Lock`, `Pop`, `AppendBatch`, `Commit`, `Retry` | `flushOne`: `writeMu.Lock`, `PopAll`, `AppendBatch`, the bookkeeping of success or failure with the deferred unlock |
| `AppenderClosed`, `RowRefused`, `FlushSucceeds`, `FlushFails` | the outcomes of `AppendBatch` |
| `Tick`, `TickerExit` | the two cases of `tickLoop`'s `select` |
| `GracefulStop`, `ForcedStop` | `otlp.Server.Shutdown` with and without its timeout, and a failed `Serve` |
| `CloseStop`, `FinalFlush`, `CloseAppender`, `CloseMidBatch`, `NilAppenders` | `writer.Stop` |
| `ArchiverLock`, `ArchiverUnlock` | the archiver as the writer sees it |

The appender is modelled from its use in `appender.go`: rows taken by `AppendRow`
stay in it (`staged`) until a `Flush` or `Close` puts them into the table
(`stored`); a `Flush` that fails may have kept or discarded them.

`closeAppenders` takes no lock. After a forced stop it may close an appender
between two flushes of a handler (`CloseAppender`) or in the middle of its batch
(`CloseMidBatch`): any number of the batch's first rows goes into the table with
the close, and the batch fails as a whole and returns to its queue. The Go appender
is not safe for such a concurrent use; a call that is torn itself is not modelled.

`RowSink` is what the dispatcher may rely on: rows of a table are written in
`Append` order and without gaps other than dropped rows, each at least once, and
nothing written or dropped is taken back. `ImplementsRowSink` says that the writer
refines it.

### ArchiveCalendar, Archiver

`ArchiveCalendar` is the pure part: local dates and midnights (`GoDate` is
`time.Date` with its two offset look-ups, gaps included), the cutoff, the next
run, and the days listed for rows of given times. Instants are hours, since
`archivezone` refuses every other zone; a zone has one transition.

`Archiver` has one action per step of the goroutine: `Start` and `TimerFires`
(both `BeginSweep`: cutoff and list of days, read without the lock), and for each
day `BeginDay` (lock and `BeginTx`), `Aggregate`, `Delete`, `Commit` or `Abort`,
then `RecordState` and the next timer. `Ingest` is a flush of the writer, excluded
while `writeMu` is held; `Cancel` and `LoopEnds` are `Stop`; `Crash` loses what is
not committed. `archiveDayBounds` cannot fail here: whole-hour zones make every
bound a whole hour, and a day always ends after it begins.

The fourteen `INSERT ... ON CONFLICT` statements merge in three ways, and the
model has a kind of row for each: `usage` rows add to a summary's columns, a
`turn` cost replaces an older one by `(ts, received_at, amount)`, a `skill` use
keeps its first time. All extend the span in which their conversation was active.

### Migrations, ServerLifecycle

`Migrations` has the eight scripts as sequences of statements, a statement being
what a second execution of it does: a plain `CREATE` or `ADD COLUMN` fails, the
guarded forms do not, and the three `UPDATE`s of version 8 that fill, clean and
mark the token columns of old rows depend on what was done before. The old rows
are treated alike, so one stands for all.

`ServerLifecycle` is the host: several processes with one configuration share a port
and a file. `pc` is where `runServer` is; a process that ends, however, gives back
what it holds (`Release`).

| action | code |
|---|---|
| `Probe`, `Locate` | `alreadyListening` with `-skip-if-running`; `findListenerPIDs` and its errors (on Windows always an error) |
| `SendTerm`, `WaitOver`, `Escalate`, `GiveUp` | `stopExistingInstance` with its two waits; `SignalTerm` is the receiver, which dies at once where `signal.NotifyContext` is not in force |
| `Open`, `Migrate`, `StartWriter`, `Listen`, `Arm` | `runServer` from `NewEngine` to the `select`, with the error path of each; `Migrate` is one `db.Exec` of `RunMigrations` |
| `Accept`, `Flush` | a handler's row, the writer's ticker |
| `Drain`, `GrpcStopped`, `StopArchiver`, `StopWriter`, `CloseDb`, `StopPricing` | the shutdown, `GracefulStop` closing the listener first, the deferred calls last |
| `ServeFails` | the other case of the `select` |
| `Crash`, `Stop`, `Dies` | a crash or `kill -9` anywhere, Ctrl-C, the end of a killed process |

The buffers are one bit here (some accepted row is not in the file); what happens
inside the writer's `Stop` is `BufferedWriter`'s subject.

### RowSchemas, TableColumns, PriceTable, Ingest

A row type is a function from its fields to the attribute and the conversion that fill
it (`RowSchemas`), a table the sequence of values its mapper hands to the appender
against the sequence of its columns, in the order the eight migrations left them
(`TableColumns`). An attribute value is a type on the wire and a small number; what a
conversion does with a type is kept (`Taken`: numbers as text, integers narrowed to 32
bits by `Low32`, values of other types dropped), text itself is not. `PriceTable` is
`pricing.go`: tables, their merge, look-up by the name and then by the normalised name,
and the cost of one usage row. A rate that is missing is not 0.

| action of `Ingest` | code |
|---|---|
| `Export`, `Reply` | the two services' `Export`; the summary is logged, the answer is always a success |
| `DispatchEvent` | one round of `DispatchLogs`: name, parser, mapper's input, counter |
| `DispatchMetric` | one metric of `DispatchMetrics` with all its points, or its refusal (`RefuseShape`) |
| `LoadTable`, `StoreUsage` | `enrichCodexCost`: `CostFor` loads the table, estimates with it and counts models it cannot price, then the row is appended |
| `Fetch`, `StoreTable`, `StoreStats`, `MarkRefreshFailed` | `refreshOnce`: the table is published before the statistics |
| `Tick`, `LoopEnds`, `Stop` | `refreshLoop`'s `select`, `Engine.Stop` |

### Summaries, TimeWindows, DashboardQueries, Dashboard

`Summaries` is what the summary tables hold once a set of rows has been archived, one
operator per statement of `archive.go` and `codex_archive.go`, and what the views of
migration 8 make of raw rows and summaries together. `Archiver` shows that merging day
by day in any order is the same as merging at once, so a set is enough here.
`TimeWindows` is `timewin.go`. `DashboardQueries` has an operator per endpoint. They
are functions of a view `[raw, archived]`: every query has an arm over raw rows by exact
time and an arm over summaries by whole hours (`ArchiveHours`), with what each of them
selects (`RawMeasures`, `ArchivedMeasures`), and adds them up.

`Dashboard` runs them. The pool of `database/sql` has one connection (`conn`).

| action | code |
|---|---|
| `Ask` | a handler parses its parameters and takes the time |
| `Begin`, `ReadSummaries`, `ReadRows`, `Reply` | `withDashboardSnapshot` around a builder: `BeginTx`, the queries of the archive schema and of the raw tables on the transaction's connection, `Commit` and the answer |
| `QueryFails`, `HangUp` | a failed statement or a cancelled context: `Rollback`; a client that leaves while the handler waits for the connection |
| `Flush`, `Tick` | the writer's batches, the clock |
| `Lock`, `BeginDay`, `EndDay` | `archiveDay`: `writeMu`, the connection, and all of the day or nothing |

With one connection a day cannot be committed while a handler reads; the snapshot is what
keeps the writer's rows, which come by a connection of their own, out of an answer half
computed.

## 3. The runs

| run | states | question |
|---|---|---|
| `writer_safety` | 790 000 | two handlers, ticker, archiver and shutdown in every order, with a row that can never be mapped and one DuckDB failure |
| `writer_liveness` | 29 000 | do rows settle, do handlers and `Stop` return |
| `writer_poison_row` | violation | a refused row against the comment of `AppendBatch` |
| `writer_append_after_stop` | violation | a late handler against the comment of `Stop` |
| `archiver_safety` | 740 000 | six late and repeated rows over two days, in two zones, with a failing statement and a crash or a stop |
| `archiver_liveness` | 22 000 | do expired rows leave, does `Stop` return |
| `lifecycle_safety` | 1 450 000 | three processes start, take over, migrate a new or an old file, serve and stop in every order, with two crashes and a failing step |
| `lifecycle_liveness` | 10 000 | does every start end, does some instance serve in the end, though one that is told to stop may hang |
| `lifecycle_kill` | violation | the README's account of when `SIGKILL` is sent |
| `ingest` | 45 500 | two handlers with requests of every kind of row and of defect, a refresh that succeeds, fails or is stopped between any two of their steps |
| `dashboard` | 33 200 | every endpoint is asked before, between and after the archiving of days, with late rows, failing statements and days, and another handler that wants the connection |
| `archiver_azores` | violation | 24-hour days, 30 days of retention, a midnight that the change of clocks skips |

**Writer.** Two handlers are the fewest that can race each other and the ticker
for one table; two tables make `flushAll` a loop and let one table be poisoned
while the other must go on. Batch size 2 and limit 3 make a returned batch meet a
full queue; four rows per table (`MaxRows`) fill it again. `MaxCopies` = 2 tells
"once" from "more than once". `MaxErrors` only saturates a counter. The liveness
run has two rows per table and the limit at the batch size.

- `Accounting`: the counters and the limit.
- `RowsAccountedFor`: a row is queued, being written, written or counted as dropped,
  and written once where nothing failed.
- `FailedBatchKept`, `ImplementsRowSink`: a batch that failed goes back whole and in
  front; rows reach their table in order.
- `BacklogBound`: past `batch_size - 1` every further row has a handler of its
  own on the way to flush it; the limit is out of reach until something fails.
- `DrainedAtStop`: the order of the shutdown.
- `RowsSettle`, `ThreadsReturn`: nobody waits for ever.

Two comments disagree with the code. `appender.go:46` says the rows behind a
refused row are still appended; the batch ends there, returns to the queue and
fails again at the same row for as long as the process lives, and the rows before
it are staged once more at each retry. `writer.go:80` says `Append` fails after
`Stop`; it accepts the row, which is then lost.

**Archiver.** Days have four hours and retention is one day in the safety and
liveness instances (`HoursPerDay`, `RetentionDays`): what matters is how
midnights, cutoffs and transitions interleave, and a shorter day has the same
cases with fewer instants. One zone is west of UTC and its clocks go forward on
the first retained day; the other is east of it and they go back. The six rows
are a usage row, three costs of one turn (two at the same time, the oldest with
the highest rank) and two reports of one skill use, on two days. The clock runs
from 15 to 18 in the safety run, across a cutoff, and to 36 in the liveness run,
which `ExpiredRowsLeave` needs to see several sweeps after a failure. `MaxFaults`
and `MaxCrashes` are one each.

- `CountedOnce`: an additive row is raw or counted once.
- `SummariesServe`: raw rows and
  summaries together give what all rows ever received would give, which is how the
  dashboard's views read them.
- `RetentionKept`, `SweepComplete`: not too early, and no day left out.
- `ExpiredRowsLeave`, `StopReturns`.

`SweepComplete` is checked in zones whose midnights exist. It does not hold in all:
`archiver_azores` is the code's own calendar in a zone whose clocks go from UTC-1
to UTC at local midnight (Atlantic/Azores). `time.Date` answers 23:00 of the day
before for that midnight, the listed days end at 23:00 UTC, and the rows of the last
UTC hour are never archived by any sweep. The comment at `archive.go:249` claims
the opposite. The safety and liveness instances leave that zone out on purpose.

**Processes.** Three: an instance, one that takes over from it, and a third, with
`-skip-if-running`, that comes in between. A process runs once; a restart is the next
process on the same file. `MaxCrashes` = 2 lets a second crash hit the repair of
the first; a signal from outside counts as one too. `MaxFaults` = 1 failing step. The
file is new or was left by version 7 with rows in it, which is what `008` migrates.
`o` and `a` start alike, so the safety run is symmetric in them.

- `ListenerOwnsFile`, `TakeoverFindsFileFree`: who listens has the file, and a
  takeover that goes on finds the file given up by those it signalled, which is what
  the comment at `restart.go:23` waits for processes for.
- `MigrationUndisturbed`: a takeover never kills a migrating process. Before version 6
  this matters: the plain scripts cannot be run twice, and a file whose migration
  was cut in one of them cannot be opened by any later start.
- `RecordedComplete`, `UpgradeRepeatable`: a recorded version is complete, old rows
  included; from version 6 on an interrupted upgrade can be repeated anywhere, which
  is what `docs/models.md:695` claims of `008`.
- `ExitDrained`: a process that returns has written what it accepted, unless handlers
  outlived its gRPC server or the last flush failed.
- `StartReturns`, `ServedInTheEnd`: under crash-free conditions, and with an old
  instance that hangs in its shutdown.

The README of the program says (`README.md:137`) that `SIGKILL` follows when the port is
not released in time. The code waits for the process: an instance that released the port
at once and is draining for longer than five seconds is killed (`lifecycle_kill`).

**Ingest.** One request per handler (`MaxRequests`), since a request shares nothing with
the next one but the price table and the counter of unmatched models. The ten requests
have every kind of row with every attribute set to a value of its own (so a value in the
wrong column shows), and the defects a parser can meet: identities that are missing, empty
or blank, values of types no conversion takes, attributes of the resource, numbers that are
not finite, shapes a metric may not have, points without a value, usage with overlapping,
negative or too large parts. `Half32` and `MaxInt64` are 8 and 7. Only usage has to do with
prices, so only usage is sent while the pricing engine runs: one handler sends it with models
that are known by name, by normalised name, half or not at all, the other sends the
overlapping one. The URL has two good answers, one with an entry that does not parse, and may
fail; two refreshes (`MaxRefreshes`) let a table be replaced while it is held.

- `SummaryTellsAll`: the log line with the summary is all that tells of lost items, as
  `Export` always succeeds; one without errors, unknown or skipped means every item is a row.
- `AttributesKept`: parser, row type, mapper and the columns of thirty tables agree.
- `OnlyNonFiniteRefused`: a row the appender refuses blocks its table
  (`SubsequentRowsAppended`); the parsers let none through but one with a NaN
  among the attributes that become JSON.
- `CostFromOneTable`, `PricesLayered`: a cost is by one table in use since the request came;
  overrides win over the URL and the URL over the file, whatever fails.
- `BilledOnce`: parts billed at rates of their own never exceed the whole.
- `StopReturns`: also while the URL keeps the engine waiting.

**Dashboard.** A day has two hours and an hour two instants, so windows can begin and end
inside an hour; weeks have two dates, months four, retention is two. The zone is one hour east of
UTC: half a day here, so a date of UTC is not the local one. The clock shows date 11, in
the middle of a month, and date 12. Twenty-four rows of the dates 8 to 12, of every table the
queries read, come in three batches, the second of which is late: rows of days that may have
been archived. They are two Claude sessions and two Codex conversations, one with costs
reported by its turn, three times, the last two in the same instant with the same amount, and one
with estimates only, tokens of a type no column knows, and
what an earlier version left archived. One handler is asked fifteen different requests, each endpoint at least once and
most for both clients; the other asks for the realtime speed and gets in the way.

- `AnswersSurviveArchiving`: the answer equals the one over the same rows had none
  been archived: the two arms of every query agree, and windows cut through no archived hour.
- `CostFromOneSource`, `RecentSessionsFound`, `BarsTile`: against references that have all rows.
- `AnswersArrive`: nobody waits for a second connection.

Where archiving does change what is shown, the properties leave it out and the code is as
follows. A session's first and last activity come from all reports of a turn's cost and all uses of a
skill once archived, from the newest and the first before. A Claude cost row of exactly 0 makes the
cost of a combined view "observed" while it is raw, and not after (`cost_usd<>0` in the
archive arm; `heatmap.go:102` says observed zeros stay available); the instance has
positive costs only. A Claude model with tokens and no cost rows has an available cost
of 0 once archived. Rows with an empty model name are listed under it while they are raw. The
list's count of tool calls includes unnamed tools, the detail's does not. Of reports of a turn that
tie in all three columns of `ORDER BY`, `row_number()` puts any first. The field `tie` stands for that
choice, which `Newer` makes the same way in the view and in the archive's statement; DuckDB need not,
and such reports, which have the same time and amount, may still differ in the model.

**Deadlock** is checked in the writer's runs and in `dashboard`. `ingest` says
`CHECK_DEADLOCK FALSE`, as its requests run out and its engine may be stopped. The archiver's runs say
`CHECK_DEADLOCK FALSE`: at the end of the bounded clock, with every row ingested
and no crash left, its timer never fires again. So do the lifecycle's: all
processes may have ended.

**Fairness.** `sync.Mutex` hands itself to a waiter of more than a millisecond, so
`Lock` is strongly fair; `select` chooses among ready cases at random, so is
`TickerExit`; `archiver.Stop` cancels before it waits, so is `CloseStop`. All
other fair steps are those of runnable goroutines, weakly. In the archiver time
passes and the goroutine runs; `Prompt` lets the clock stand still while a sweep
is under way, since without it a sweep could take until the clock's bound. Rows
need not arrive, and nothing need be stopped, in either module. Of the processes,
one that starts runs on and its deadlines pass, and a killed one disappears; one that was
told to stop need not go on, since a handler, a flush or a fetch may hang. The refresh
goroutine of the pricing engine runs on and its HTTP client has a timeout; its `select` takes
a closed `stopCh` in the end (`LoopEnds`, strongly fair). A dashboard handler that has the
connection goes on, a day's transaction ends, and `database/sql` hands a connection that is
given back to one of those that wait, at random: `Begin` is strongly fair. Clients need not ask.

## 4. The proofs

All are checked by `tlapm`, for every value of the constants that satisfies the
named assumptions of the modules (`BufferAssumption`, `WriterAssumption`,
`CalendarAssumption`, `ArchiverAssumption`, `LifecycleAssumption`, `PriceTableAssumption`,
`RequestAssumption`, `IngestAssumption`, `SummaryAssumption`, `WindowAssumption`,
`HourAssumption`, `DashboardAssumption`, `TieAssumption`, `ColumnAssumption`); TLC evaluates them on the
instances. What the assumptions say of the code: a buffer keeps at least one error
(`newTableBuffer`), the file that a start finds is that of a version of the program, `None`
is not a value a summary has, requests are such as the parsers' patterns let through,
prices are natural numbers, `ORDER BY MAX(ts) DESC, client, session_id` is a total order:
sessions that are different have different ranks, `row_number()` orders any two reports of a turn, and there are finitely many rows, whose numbers
are integers: costs are floats in the code, which add up but for rounding. Zones, days and the
intervals of the rates are whole hours, as `archivezone` insists. Four
theorems have hypotheses of their own, named below.

`FiniteProofs` has what several of them need of finite sets: a set of naturals that is not
empty has a least element, a finite set of integers a greatest, and what `Min` and `Max` of the
community modules return. The provers cannot instantiate an induction theorem, but a
statement about all naturals, or about all subsets of a finite set, can be refuted at its
least counterexample (`LeastOf`, `MinimalBad`), which is first-order. That is also how it treats sums.
`MapThenSumSet` is a `CHOOSE` of a recursive function on the subsets; there is one (`SumExists`),
and by least counterexamples it does not matter which element comes first (`SumAdds`), what they are
called (`SumRenamed`) or how they are sorted before they are added (`SumSorted`). The sums
of the modules are made of LAMBDAs, each of which a lemma turns into such a sum (`TotalAmounts`).

- `BufferedWriterProofs`
  - The lemmas about `TableBuffer`: what `Enqueue`, `PopAll` and `Pushback` do to the size, the
    drops and the counters of a buffer, and which rows they keep.
  - `TypeCorrect`: `TypeOK` is inductive by itself.
  - `SingleWriterHolds`: `SingleWriter` is inductive with the types. The thread
    inside `flushOne` is the holder, and only the holder has a batch.
  - `BooksBalance`: `Accounting`. The invariant
    is `Books(tb)` for each table, together with `SingleWriter`: without it two
    batches could be in flight, of which `InFlight` could only name one.
  - `FailedBatchReturns`: `FailedBatchKept`, an action property. A batch was a queue before it was
    popped, so it fits the hard limit (`BatchFits`), and `Pushback` drops from the other end.
  - `BacklogBounded`: `BacklogBound`. It is inductive table by table (`Backlog`) once the
    handlers on their way are counted as a finite set: the append that
    reaches `BatchSize` adds one to them, and a `Pop` takes one and empties the queue.
  - `DrainedWhenStopped`: `DrainedAtStop`. The invariant says who can still be about after
    a graceful stop (`Places`) and how far `Stop`'s last flush has come (`Emptied`: the tables
    before the one it is at have no rows unless a flush of theirs failed).
  - `RowsKept`: `RowsAccountedFor`. Row numbers are what makes the argument: `TableInv(tb)` says
    that what was appended is divided among queue, batch, table and drops, that queue and
    batch are increasing and the batch comes before the queue, and what the appender has
    staged. Each step is first read as a step of every table (`TableSteps`:
    appended, popped, refused, interrupted, committed, returned, closed, or quiet), and the invariant is
    then shown for one table's data alone.
  - `WriterImplementsSink`: `ImplementsRowSink`, the refinement. Under the mapping
    of `BufferedWriter` (`accepted` is the counter of appended rows, `written` the rows with a
    copy in the table, `lost` the drops) `Init` gives `Sink!Init`, and each step, given the
    invariant before and after, is `Append`, `Write`, `Drop` of the sink for the one table that
    moves, or leaves all three as they are.
- `ArchiverProofs`
  - `RowsCountedOnce`: `CountedOnce` for any rows, zone and schedule of failures.
    By itself it is not inductive: `Commit` publishes what the transaction holds.
    The invariant `TxInv` adds what that is at each point: the committed tables
    after `BeginDay`; after `Aggregate` the same, with each row of the day counted
    once more; after `Delete` the raw tables without the rows of the day. It is
    preserved because `Ingest` needs `writeMu`.
  - `DayIsolated`: while a day is being aggregated, the transaction's raw tables are
    the committed ones.
  - `SummariesServeHolds`: `SummariesServe`. The summaries are a function of the
    rows archived so far (`Serves`), and merging those of a day into them gives those
    of both: newest, first and widest of a union are those of the parts. That is why
    late rows, days in any order and repeated sweeps do no harm.
  - `ArchiverTypes`: `TypeOK`.
  - `RetentionKeptHolds`: `RetentionKept`, under `ShiftsSmall`: no zone changes its clocks by more
    than half a day. `archiveCutoff` looks at the offset again after it has gone back, and one
    more date is enough for such a shift.
  - `SweepCompleteHolds`: `SweepComplete`, if every zone is `Regular`: no local
    midnight is skipped or repeated, and its offsets are on one side of UTC. Every expired
    row is in the local day that the date of its instant, or the one before, begins. The zone of
    `archiver_azores` has a midnight that is skipped, and the run shows the violation; the
    zones of the passing runs satisfy both hypotheses.
- `ServerLifecycleProofs`
  - `LifecycleInvariant`: the place of each process tells who has the file and who may
    listen (`Holders`, `Listens`). The targets of a takeover, and what it killed, have
    listened (`Found`, `Hit`), and what has listened never migrates again; its
    targets are over when it opens the file (`Cleared`), which needs that a
    process without a takeover has none (`Alone`).
  - `ListenerOwnsFileHolds`, `TakeoverHolds`, `MigrationUndisturbedHolds` follow, for
    any number of processes.
  - `RecordedCompleteHolds`, `UpgradeRepeatableHolds`: from `MigrateInv`, which says that the
    versions recorded are the first `k`, that the statements of each are done, and that the
    process that migrates has done those before the one it is at, in this run or in an earlier
    one (`Progress`). Only the holder of the file migrates, so no other undoes that. From
    version 6 on, a look at the statements left shows that none fails when repeated.
  - `ExitDrainedHolds`: `ExitDrained`, from `RowsInv`: only what has listened accepts rows,
    and past `writer.Stop` there are some left only for a reason that is recorded.
  - `LifecycleTypes`: `TypeOK`.
- `IngestProofs`
  - `PricesLayeredHolds`: `PricesLayered` for every file, set of overrides and URL. The
    invariant says that every published table was made of the file alone or of an answer that
    could be read, and that the refresh goroutine holds such an answer when it publishes.
  - `ValidUsageBilledOnce`: `ValidUsage` alone makes every token of a row be billed at one
    rate, for all counts.
  - `ArrivesInItsColumn`: kind by kind, the list of the mapper and the columns of the migrations
    agree and no column is named twice, so each value is stored under its name.
  - `AttributesKeptHolds`, `OnlyNonFiniteRefusedHolds`, `BilledOnceHolds`: all that requests can
    lead to is a set of rows (`Produced`), and each of them is shown to be right once and for all
    (`ProducedOK`): what its parser takes is a field, what it leaves is in the JSON column, and
    what its table insists on is there. The invariant is then only that rows are of that set.
  - `CostFromOneTableHolds`, `SummaryTellsAllHolds`, `IngestTypes`: from `RowInv`, which says of
    each handler that its rows are priced by a table published since its request came or counted
    as unmatched (`Booked`), that between `CostFor`'s load and the row it holds such a table
    (`Costing`), and that rows, counters and the items it has passed add up (`Told`). The
    price refresh and other handlers only add tables and raise counters, which keeps them true.
  - The invariants of `RowSchemas` and `TableColumns` are about functions put together of others:
    they write `Entry` and `++` for what TLC's `:>` and `@@` would do, which the provers do not know.
- `DashboardProofs`
  - `ConnectionGivenBack`: `TypeOK` of `Dashboard`, which says that a row is raw or
    archived and who has the connection. By itself it is not inductive: a batch could bring a
    row back that has been archived. The invariant adds that what is stored came in a batch
    that has been flushed (`Arrived`), and batches are disjoint by `DashboardAssumption`.
  - `AnswerOfOneMoment`: what an answer is made of is what was stored at one moment.
    The invariant `ViewsOK` says how much of its snapshot each handler has read; a row cannot be
    in the raw part and in the archived part of it, whatever is archived meanwhile.
  - `RecentSessionsHold`: `RecentSessionsFound`, for any rows and any limit. The first `n`
    of a total order are `n` or all (`TopIs`), and with later times for others a session only
    moves back (`TopGrows`). The lists that are merged, the raw tables' and that of the archive of
    each client, know no time later than the last of a session, and one of them knows
    that (`SomeListKnows`). So a session that is among the first `n` by its last time is in the list
    that knows it, and what is merged has it in its place (`MergedTop`).
  - `CostFromOneSourceHolds`: `CostFromOneSource`, for any rows. The newest of the newest reports are
    the newest (`NativeAreNewest`), so the view selects the reports of a conversation and
    nothing else, or its estimates and nothing else (`CostRows`); the hours of its archived responses
    add up to what the responses came with (`HoursAddUp`).
  - `OneReportPerTurn`: the view of reported costs has exactly one report of every reported turn, ties
    included, whichever are archived: there is a newest one in a finite set, and `TieAssumption` leaves
    no second.
  - `BarsTileHolds`: `BarsTile`, for any rows, time, lengths of days, weeks and months and number
    of bars, under two hypotheses: the zone is `Steady`, its clocks are not changed, and
    `NothingNegative` holds of values, costs and estimates. The first is what `timewin.go:211` says of the supported zones; section 5
    says what happens without it. The second is for the last bar alone, which
    has rows of the end of the date that the current window has not; no code checks that
    Claude's values are not negative. The windows begin and end where bars do
    (`WindowsAre`), each instant of the sparkline has the date of exactly one bar (`BarsShare`), archived
    hours that a window has lie in it (`WithinIs`), and facts sorted by bar add up to all of them
    (`ChartTiles`). The instance satisfies both hypotheses.
  - `Summaries` writes `++`, and `RawMeasures` a set of columns, for the same reason as `RowSchemas`.
- `SummaryProofs` and `AnswerProofs`: archiving changes no answer.
  - A view some rows of which have become summaries is compared with the one in which they are
    raw. An archived row is `Past`: its hour was over, by the two realtime windows, when the
    request came. Windows begin and end on whole hours or at the time of the request (`Rounded`),
    so an hour that is past is in a window if and only if all its rows are (`HourInWindow`).
    That takes whole-hour offsets and `archiveCutoff`'s local midnights (`CutoffOnHour`).
  - A table of numbers is sorted into another by a key if each of the other's entries is the
    sum of those that have its key (`Sorts`); then parts that match have the same sum
    (`SumMatched`), and what is sorted side by side, in part or under other names is sorted.
  - `FactsMerge`: hours sort raw facts, for each of the measures, and the cost view selects the same
    sources over rows and hours. Facts that agree in this sense (`FactsAgree`)
    agree in every part a request takes of them (by client, model, window, bar, day, point) and in its sums.
  - `ToldAgrees`: one lemma for each endpoint makes of that the equality of its answers: `OverviewAgrees`,
    `TrendsAgree`, `HeatmapAgrees`, `PeriodModelsAgree`, `RankingsAgree`, `RatesAgree`, `RealtimeAgrees`,
    `PricesAgree`, `TelemetryAgrees`, `ListsAgree` and `DetailAgrees`. Rankings, counts by name, the columns of
    the usage check and the totals of a session are sums of their own, which hours or sessions
    sort the same way. The times to the first token need a histogram: archived measurements are
    counted by value, so any rank is found in either (`TTFTIs`). The realtime speed reads no
    summaries, and need not: a row that is past is before its window.
  - `AnswersSurviveHolds`: `AnswersSurviveArchiving`. The invariant `Ages` says that whatever is archived was
    before the cutoff of a sweep the clock has come to, that the day being archived ends at one, and
    that what a request sees of the archive is past. By itself that is not true: a
    request computes its windows when it comes and begins when it gets the connection, and a
    sweep in between might archive rows of the time it came at. So there are two hypotheses.
    `WaitsBriefly` says that no request waits that long, which is 30 days less an hour
    (`archive.go:20`). `CostsPositive` says that Claude reports no cost of zero or less,
    which the cost source of a combined view shows (section 3, `codex_cost.go:63`). `MCDashboard`
    assumes both of the instance, `WaitsBriefly` for all its times, so TLC evaluates them.
    The theorem is about what `Told` compares: not the first and last times of sessions, nor which
    ones a list is cut down to by them.

Only model-checked: all liveness (`RowsSettle`, `ThreadsReturn`,
`ExpiredRowsLeave`, `StopReturns` twice, `StartReturns`,
`ServedInTheEnd`, `AnswersArrive`), which the prover cannot treat. The runs that expect
a violation have nothing to prove. No module that is proved about declares a RECURSIVE operator.

## 5. What is not modelled

- Text: JSON, formatting, patterns of names and numbers (an item says whether the parser's
  patterns accept it), logging and layout. DuckDB, gRPC, HTTP and Go's `time` package are modelled
  from how the code uses them.
- The raw capture, the stats page, static files, the classifier of models into families, the
  price catalogue's search and the charts: functions without state, or output only.
- Shares, averages and rankings computed from the sums of an answer, refused parameters.
- Realtime speed of both clients, which asks the database nothing.
- The updater, the desktop panel, the web frontend and the scripts. The updater is one
  process in a straight line that no other part waits for; the panels are clients of the
  endpoints.
- Charts in zones whose clocks change. `TimeWindows` takes any zone, but `BarsTile` is
  checked without a transition: the daily chart begins thirteen times 24 hours before today, which
  across a spring-forward is 23:00 of the date before, so its last bar may be yesterday's.
  `timewin.go:211` says the supported zones have none, `docs/models.md:595` only asks
  for whole hours.

## 6. Plan

The writer, the archiver, the migrations, the processes, ingestion with pricing and the dashboard
are modelled, and every safety property that a run checks is proved. What is
left, the most important first:

1. `UpdaterInstall`: the steps from download to rename, a failure or a signal at each.
2. `DesktopRefresh`: overlapping refreshes and the cache per scope.
