--------------------------- MODULE BufferedWriter ---------------------------
(***************************************************************************)
(* The production otlp.Sink (internal/store/writer.go, appender.go): one   *)
(* TableBuffer and one DuckDB appender per table, filled by concurrent     *)
(* gRPC handlers and flushed by whichever thread finds a batch due -- a    *)
(* handler whose Append reached BatchSize, the ticker, or Stop.            *)
(*                                                                         *)
(* A step of this module is one critical section of the code: a handler's  *)
(* buf.Append (under b.mu) is separate from the flushOne it may then call, *)
(* and flushOne itself is four steps (lock writeMu, PopAll, AppendBatch,   *)
(* the bookkeeping that ends with the deferred unlock), because handlers   *)
(* go on appending between them.                                           *)
(***************************************************************************)
EXTENDS TableBuffer, FiniteSets

CONSTANTS
  Handlers,     \* goroutines serving Export RPCs
  NTables,      \* len(allTables)
  BatchSize,    \* ingest.batch_size
  Poison,       \* rows <<table, n>> whose mapper or AppendRow always fails
  MaxRows,      \* bound: rows accepted per table
  MaxFaults,    \* bound: DuckDB flush or close failures
  MaxCopies     \* bound: copies of a row in a table saturate here

Ticker   == "ticker"     \* the tickLoop goroutine
Stopper  == "stopper"    \* the main goroutine, from shutdown to writer.Stop
Archiver == "archiver"   \* holds the same writeMu while it archives a day
Free     == "free"

Tables  == 1 .. NTables  \* in allTables order, which is flushAll's
RowIds  == 1 .. MaxRows
Threads == Handlers \cup {Ticker, Stopper}

ASSUME WriterAssumption ==
  /\ IsFiniteSet(Handlers) /\ Handlers # {}
  /\ Handlers \cap {Ticker, Stopper, Archiver, Free} = {}
  /\ NTables \in Nat \ {0}
  /\ BatchSize \in Nat \ {0}
  /\ HardLimit >= BatchSize          \* config.validate
  /\ Poison \subseteq Tables \X RowIds
  /\ MaxRows \in Nat /\ MaxFaults \in Nat /\ MaxCopies \in Nat \ {0}

VARIABLES
  buffer,    \* w.buffers
  writeMu,   \* db.writeMu: its holder or Free
  batch,     \* rows: the local of the flushOne that holds writeMu
  pc, tab,   \* where each thread is, and the table of its flushOne
  grpc,      \* "serving"; then "drained" (GracefulStop) or "forced" (Stop)
  live,      \* per table: its appender is not closed
  nilled,    \* w.appenders = nil
  staged,    \* copies of each row held inside the DuckDB appender
  stored,    \* copies of each row visible in the DuckDB table
  faults,    \* DuckDB failures so far
  dropped,   \* history: rows thrown away at the hard limit
  reported   \* history: drops PopAll has handed to the overflow warning

vars == <<buffer, writeMu, batch, pc, tab, grpc, live, nilled,
          staged, stored, faults, dropped, reported>>

duckdb  == <<live, nilled, staged, stored, faults>>
history == <<dropped, reported>>

Capped(n) == IF n > MaxCopies THEN MaxCopies ELSE n

\* The copies in f once those of g and one more of every row in rows are added.
PlusCopies(f, g, rows) ==
  [n \in RowIds |-> Capped(f[n] + g[n] + (IF n \in rows THEN 1 ELSE 0))]

NoCopies == [n \in RowIds |-> 0]

Init ==
  /\ buffer = [tb \in Tables |-> NewTableBuffer]
  /\ writeMu = Free /\ batch = << >>
  /\ pc = [t \in Threads |-> IF t = Stopper THEN "serving" ELSE "idle"]
  /\ tab = [t \in Threads |-> 1]
  /\ grpc = "serving"
  /\ live = [tb \in Tables |-> TRUE] /\ nilled = FALSE
  /\ staged = [tb \in Tables |-> NoCopies]
  /\ stored = [tb \in Tables |-> NoCopies]
  /\ faults = 0
  /\ dropped = [tb \in Tables |-> {}]
  /\ reported = [tb \in Tables |-> 0]

-----------------------------------------------------------------------------
(* The handlers: BufferedWriter.append. *)

Goto(t, label) == pc' = [pc EXCEPT ![t] = label]

\* Mutant: the batch is due one row late.
DueLate(size) == size > BatchSize

\* Append returns the size it leaves, and the caller flushes at BatchSize.
Due(size) == size >= BatchSize

\* buf.Append(row), and the decision to flush taken on the size it returned.
Accept(h, tb) ==
  /\ grpc # "drained"
  /\ pc[h] = "idle"
  /\ buffer[tb].appended < MaxRows
  /\ LET b == Enqueue(buffer[tb], buffer[tb].appended + 1) IN
       /\ buffer' = [buffer EXCEPT ![tb] = b]
       /\ dropped' = [dropped EXCEPT ![tb] = @ \cup Evicted(buffer[tb])]
       /\ \/ /\ ~Due(PendingLen(b))
             /\ UNCHANGED <<pc, tab>>
          \/ /\ Due(PendingLen(b))
             /\ Goto(h, "lock")
             /\ tab' = [tab EXCEPT ![h] = tb]
  /\ UNCHANGED <<writeMu, batch, grpc, duckdb, reported>>

-----------------------------------------------------------------------------
(* flushOne, by a handler or as one round of flushAll's loop. *)

\* Mutant: no mutual exclusion.
LockIgnoringHolder(t) ==
  /\ pc[t] = "lock"
  /\ writeMu' = t
  /\ Goto(t, "pop")
  /\ UNCHANGED <<buffer, batch, tab, grpc, duckdb, history>>

Lock(t) ==
  /\ pc[t] = "lock"
  /\ writeMu = Free
  /\ writeMu' = t
  /\ Goto(t, "pop")
  /\ UNCHANGED <<buffer, batch, tab, grpc, duckdb, history>>

\* What follows flushOne: a handler's append returns, flushAll goes on to the
\* next table or ends the tick, respectively Stop's last flush.
Caller(t) == CASE t = Ticker -> "idle" [] t = Stopper -> "close" [] OTHER -> "idle"

\* Mutant: flushAll's loop runs one table too far.
ReturnPastLast(t) ==
  /\ writeMu' = Free
  /\ \/ /\ t \notin Handlers /\ tab[t] <= NTables
        /\ Goto(t, "lock")
        /\ tab' = [tab EXCEPT ![t] = @ + 1]
     \/ /\ t \in Handlers
        /\ Goto(t, Caller(t))
        /\ tab' = [tab EXCEPT ![t] = 1]

Return(t) ==
  /\ writeMu' = Free
  /\ \/ /\ t \notin Handlers /\ tab[t] < NTables
        /\ Goto(t, "lock")
        /\ tab' = [tab EXCEPT ![t] = @ + 1]
     \/ /\ t \in Handlers \/ tab[t] = NTables
        /\ Goto(t, Caller(t))
        /\ tab' = [tab EXCEPT ![t] = 1]

Pop(t) ==
  /\ pc[t] = "pop"
  /\ UNCHANGED <<grpc, duckdb, dropped>>
  /\ \/ /\ nilled                                   \* app == nil
        /\ Return(t)
        /\ UNCHANGED <<buffer, batch, reported>>
     \/ /\ ~nilled
        /\ LET b == buffer[tab[t]] IN
             /\ buffer' = [buffer EXCEPT ![tab[t]] = PopAll(b)]
             /\ reported' = [reported EXCEPT ![tab[t]] = @ + b.drops]
             /\ batch' = b.rows
             /\ \/ b.rows = << >> /\ Return(t)
                \/ /\ b.rows # << >>
                   /\ Goto(t, "write")
                   /\ UNCHANGED <<writeMu, tab>>

-----------------------------------------------------------------------------
(* AppendBatch.  No other flushOne touches the appender, so the row loop   *)
(* and the final Flush are one step with the outcomes below.  The one call *)
(* that can fall between two rows, closeAppenders', is CloseMidBatch.      *)

Bad(tb, rows) == {i \in DOMAIN rows : <<tb, rows[i]>> \in Poison}

\* The rows AppendRow took before the first one it, or the mapper, refused.
Prefix(tb, rows) ==
  {rows[i] : i \in {j \in DOMAIN rows : \A k \in Bad(tb, rows) : j < k}}

Writing(t) == pc[t] = "write" /\ UNCHANGED <<buffer, writeMu, batch, tab, grpc, history>>

\* Stop closed the appender of a thread that outlived the gRPC server.
AppenderClosed(t) ==
  /\ Writing(t)
  /\ ~live[tab[t]]
  /\ Goto(t, "retry")
  /\ UNCHANGED duckdb

\* A refused row ends AppendBatch; the rows before it stay in the appender.
RowRefused(t) ==
  LET tb == tab[t] IN
  /\ Writing(t)
  /\ live[tb]
  /\ Bad(tb, batch) # {}
  /\ Goto(t, "retry")
  /\ staged' = [staged EXCEPT ![tb] = PlusCopies(@, NoCopies, Prefix(tb, batch))]
  /\ UNCHANGED <<live, nilled, stored, faults>>

FlushSucceeds(t) ==
  LET tb == tab[t] IN
  /\ Writing(t)
  /\ live[tb]
  /\ Bad(tb, batch) = {}
  /\ Goto(t, "commit")
  /\ stored' = [stored EXCEPT ![tb] = PlusCopies(@, staged[tb], SeqElems(batch))]
  /\ staged' = [staged EXCEPT ![tb] = NoCopies]
  /\ UNCHANGED <<live, nilled, faults>>

\* Flush returned an error: DuckDB discarded the appended rows or kept them.
FlushFails(t) ==
  LET tb == tab[t] IN
  /\ Writing(t)
  /\ live[tb]
  /\ Bad(tb, batch) = {}
  /\ faults < MaxFaults
  /\ faults' = faults + 1
  /\ Goto(t, "retry")
  /\ \E kept \in {NoCopies, PlusCopies(staged[tb], NoCopies, SeqElems(batch))} :
       staged' = [staged EXCEPT ![tb] = kept]
  /\ UNCHANGED <<live, nilled, stored>>

AppendBatch(t) ==
  AppenderClosed(t) \/ RowRefused(t) \/ FlushSucceeds(t) \/ FlushFails(t)

\* Mutant: the unlock is missed.
CommitForgetsUnlock(t) ==
  /\ pc[t] = "commit"
  /\ buffer' = [buffer EXCEPT ![tab[t]] = AddFlushed(@, Len(batch))]
  /\ batch' = << >>
  /\ Goto(t, Caller(t))
  /\ UNCHANGED <<writeMu, tab, grpc, duckdb, history>>

\* The batch is in the table.
Commit(t) ==
  /\ pc[t] = "commit"
  /\ buffer' = [buffer EXCEPT ![tab[t]] = AddFlushed(@, Len(batch))]
  /\ batch' = << >>
  /\ Return(t)
  /\ UNCHANGED <<grpc, duckdb, history>>

\* Mutant: the failed batch is not pushed back.
DiscardBatch(t) ==
  /\ pc[t] = "retry"
  /\ buffer' = [buffer EXCEPT ![tab[t]] = AddFlushError(@)]
  /\ batch' = << >>
  /\ Return(t)
  /\ UNCHANGED <<grpc, duckdb, history>>

\* AppendBatch failed: the whole batch goes back.
Retry(t) ==
  /\ pc[t] = "retry"
  /\ buffer' = [buffer EXCEPT ![tab[t]] = Pushback(AddFlushError(@), batch)]
  /\ dropped' = [dropped EXCEPT ![tab[t]] = @ \cup CutOff(buffer[tab[t]], batch)]
  /\ batch' = << >>
  /\ Return(t)
  /\ UNCHANGED <<grpc, duckdb, reported>>

FlushStep(t) == Pop(t) \/ AppendBatch(t) \/ Commit(t) \/ Retry(t)

-----------------------------------------------------------------------------
(* tickLoop.  With both channels ready select may take either, so a tick   *)
(* may still be served after stop is closed.                               *)

StopClosed == pc[Stopper] \notin {"serving", "draining"}

\* Mutant: a tick flushes only if some batch is full.
TickOnlyFullBatches ==
  /\ \E tb \in Tables : PendingLen(buffer[tb]) >= BatchSize
  /\ pc[Ticker] = "idle"
  /\ Goto(Ticker, "lock")
  /\ UNCHANGED <<buffer, writeMu, batch, tab, grpc, duckdb, history>>

Tick ==
  /\ pc[Ticker] = "idle"
  /\ Goto(Ticker, "lock")
  /\ UNCHANGED <<buffer, writeMu, batch, tab, grpc, duckdb, history>>

TickerExit ==
  /\ pc[Ticker] = "idle"
  /\ StopClosed
  /\ Goto(Ticker, "exited")
  /\ UNCHANGED <<buffer, writeMu, batch, tab, grpc, duckdb, history>>

-----------------------------------------------------------------------------
(* Shutdown (otlp.Server.Shutdown, then BufferedWriter.Stop). *)

\* GracefulStop returned: every handler has, and no RPC is accepted any more.
GracefulStop ==
  /\ pc[Stopper] = "serving"
  /\ \A h \in Handlers : pc[h] = "idle"
  /\ grpc' = "drained"
  /\ Goto(Stopper, "draining")
  /\ UNCHANGED <<buffer, writeMu, batch, tab, duckdb, history>>

\* It timed out, or Serve failed: handlers may outlive the rest of shutdown.
ForcedStop ==
  /\ pc[Stopper] = "serving"
  /\ grpc' = "forced"
  /\ Goto(Stopper, "draining")
  /\ UNCHANGED <<buffer, writeMu, batch, tab, duckdb, history>>

\* close(w.stop), once archiver.Stop has returned.
CloseStop ==
  /\ pc[Stopper] = "draining"
  /\ writeMu # Archiver
  /\ Goto(Stopper, "wait")
  /\ UNCHANGED <<buffer, writeMu, batch, tab, grpc, duckdb, history>>

\* Mutant: Stop does not flush.
NoFinalFlush ==
  /\ pc[Stopper] = "wait"
  /\ pc[Ticker] = "exited"
  /\ Goto(Stopper, "close")
  /\ UNCHANGED <<buffer, writeMu, batch, tab, grpc, duckdb, history>>

\* w.wg.Wait() returned; Stop's own flushAll begins.
FinalFlush ==
  /\ pc[Stopper] = "wait"
  /\ pc[Ticker] = "exited"
  /\ Goto(Stopper, "lock")
  /\ UNCHANGED <<buffer, writeMu, batch, tab, grpc, duckdb, history>>

\* closeAppenders takes no lock.  Closing flushes what the appender still
\* holds, or fails and loses it.
CloseAppender(tb) ==
  /\ pc[Stopper] = "close"
  /\ live[tb]
  /\ live' = [live EXCEPT ![tb] = FALSE]
  /\ staged' = [staged EXCEPT ![tb] = NoCopies]
  /\ \/ /\ stored' = [stored EXCEPT ![tb] = PlusCopies(@, staged[tb], {})]
        /\ UNCHANGED faults
     \/ /\ faults < MaxFaults
        /\ faults' = faults + 1
        /\ UNCHANGED stored
  /\ UNCHANGED <<buffer, writeMu, batch, pc, tab, grpc, nilled, history>>

\* The first rows of a batch, none of them refused: what AppendBatch may have
\* handed to the appender at any moment.
Beginnings(tb, rows) ==
  {{rows[i] : i \in 1 .. k} :
     k \in {j \in 0 .. Len(rows) : \A bad \in Bad(tb, rows) : j < bad}}

\* After a forced stop it can close an appender in the middle of a batch.  The
\* rows already in go with the close; the handler's next AppendRow, or its Flush,
\* then fails, and nothing else of its flushOne can come in between.
CloseMidBatch(t) ==
  LET tb == tab[t] IN
  /\ pc[Stopper] = "close"
  /\ Writing(t)
  /\ live[tb]
  /\ live' = [live EXCEPT ![tb] = FALSE]
  /\ staged' = [staged EXCEPT ![tb] = NoCopies]
  /\ \/ /\ \E rows \in Beginnings(tb, batch) :
             stored' = [stored EXCEPT ![tb] = PlusCopies(@, staged[tb], rows)]
        /\ UNCHANGED faults
     \/ /\ faults < MaxFaults
        /\ faults' = faults + 1
        /\ UNCHANGED stored
  /\ Goto(t, "retry")
  /\ UNCHANGED nilled

NilAppenders ==
  /\ pc[Stopper] = "close"
  /\ \A tb \in Tables : ~live[tb]
  /\ nilled' = TRUE
  /\ Goto(Stopper, "stopped")
  /\ UNCHANGED <<buffer, writeMu, batch, tab, grpc, live, staged, stored,
                 faults, history>>

-----------------------------------------------------------------------------
(* The archiver, seen from here: it holds writeMu for one day's transaction. *)

ArchiverLock ==
  /\ ~StopClosed
  /\ writeMu = Free
  /\ writeMu' = Archiver
  /\ UNCHANGED <<buffer, batch, pc, tab, grpc, duckdb, history>>

ArchiverUnlock ==
  /\ writeMu = Archiver
  /\ writeMu' = Free
  /\ UNCHANGED <<buffer, batch, pc, tab, grpc, duckdb, history>>

\* The process has nothing left to do.
Exit ==
  /\ pc[Stopper] = "stopped"
  /\ \A h \in Handlers : pc[h] = "idle"
  /\ UNCHANGED vars

Next ==
  \/ \E h \in Handlers, tb \in Tables : Accept(h, tb)
  \/ \E t \in Threads : Lock(t)
  \/ \E t \in Threads : FlushStep(t)
  \/ Tick
  \/ TickerExit
  \/ GracefulStop
  \/ ForcedStop
  \/ CloseStop
  \/ FinalFlush
  \/ \E tb \in Tables : CloseAppender(tb)
  \/ \E t \in Threads : CloseMidBatch(t)
  \/ NilAppenders
  \/ ArchiverLock
  \/ ArchiverUnlock
  \/ Exit

Spec == Init /\ [][Next]_vars

(* sync.Mutex hands the lock to a waiter that has waited 1 ms, so a thread *)
(* that keeps asking gets it: strong fairness of Lock.  select chooses     *)
(* among ready cases at random: strong fairness of TickerExit.             *)
(* archiver.Stop cancels the archiver's context before it waits, so the    *)
(* archiver cannot keep taking writeMu: strong fairness of CloseStop.  All *)
(* other steps are those of runnable goroutines.  Nothing forces a row to  *)
(* arrive or the process to be stopped.                                    *)
Fairness ==
  /\ \A t \in Threads : SF_vars(Lock(t)) /\ WF_vars(FlushStep(t))
  /\ WF_vars(Tick) /\ SF_vars(TickerExit)
  /\ SF_vars(CloseStop) /\ WF_vars(FinalFlush)
  /\ \A tb \in Tables : WF_vars(CloseAppender(tb))
  /\ WF_vars(NilAppenders) /\ WF_vars(ArchiverUnlock)

FairSpec == Spec /\ Fairness

-----------------------------------------------------------------------------
(* Properties *)

Labels == {"idle", "lock", "pop", "write", "commit", "retry", "exited",
           "serving", "draining", "wait", "close", "stopped"}

\* Every variable has its type; a buffer is a sequence of row numbers and counters.
TypeOK ==
  /\ buffer \in [Tables -> TableBuffers]
  /\ writeMu \in Threads \cup {Archiver, Free}
  /\ batch \in Seq(Nat)
  /\ pc \in [Threads -> Labels]
  /\ tab \in [Threads -> Tables]
  /\ grpc \in {"serving", "drained", "forced"}
  /\ live \in [Tables -> BOOLEAN]
  /\ nilled \in BOOLEAN
  /\ staged \in [Tables -> [RowIds -> Nat]]
  /\ stored \in [Tables -> [RowIds -> Nat]]
  /\ faults \in Nat
  /\ dropped \in [Tables -> SUBSET Nat]
  /\ reported \in [Tables -> Nat]

InFlush(t)  == pc[t] \in {"pop", "write", "commit", "retry"}
HasBatch(t) == pc[t] \in {"write", "commit", "retry"}

\* writeMu's holder is the one thread inside flushOne, the only one to touch a
\* batch or an appender there ("DuckDB sees at most one writer at a time").
SingleWriter ==
  /\ \A t \in Threads : InFlush(t) <=> writeMu = t
  /\ batch # << >> <=> \E t \in Threads : HasBatch(t)

\* The batch detached from table tb and not yet accounted for.
InFlight(tb) ==
  IF \E t \in Threads : HasBatch(t) /\ tab[t] = tb THEN batch ELSE << >>

\* Rows of tb in memory, oldest first.
Pending(tb) == InFlight(tb) \o buffer[tb].rows

\* The counters /internal/stats shows add up at every instant: what was appended is
\* flushed, dropped, queued, or in the batch being written.  Each drop is in the next
\* PopAll's report or in an earlier one, once.  And no queue outgrows the hard limit,
\* though a failed batch returns to a queue that filled up in the meantime.
Accounting ==
  \A tb \in Tables :
    LET b == buffer[tb]
    IN  /\ b.appended = b.flushed + b.dropped + PendingLen(b) + Len(InFlight(tb))
        /\ b.dropped = reported[tb] + b.drops
        /\ HardLimit > 0 => PendingLen(b) <= HardLimit

\* The batch being written of tb; a retry means its flush has failed.
BeingWritten(tb) == IF \E t \in Threads : pc[t] = "write" /\ tab[t] = tb THEN SeqElems(batch) ELSE {}
Failed(tb) == buffer[tb].errors > 0 \/ \E t \in Threads : pc[t] = "retry" /\ tab[t] = tb

\* No accepted row is lost in silence: it is in memory, in its table, or counted as
\* dropped, whatever DuckDB refused and whoever was flushing.  A table whose flushes have
\* not failed holds each row it settled exactly once, and no row it dropped or still has
\* to write.
RowsAccountedFor ==
  \A tb \in Tables : \A n \in 1 .. buffer[tb].appended :
    /\ n \in SeqElems(Pending(tb)) \/ stored[tb][n] > 0 \/ n \in dropped[tb]
    /\ ~Failed(tb) =>
         stored[tb][n] =
           IF n \in SeqElems(buffer[tb].rows) \cup dropped[tb] \cup BeingWritten(tb)
           THEN 0 ELSE 1

\* Handlers whose flush of tb is due but has not popped yet.
Flushers(tb) == {h \in Handlers : pc[h] \in {"lock", "pop"} /\ tab[h] = tb}

\* Until a flush fails, the eager flush bounds the backlog: past BatchSize - 1
\* rows every further row has a handler of its own waiting to flush them, so the
\* hard limit is out of reach of fewer handlers than the gap between the two.
BacklogBound ==
  \A tb \in Tables :
    (buffer[tb].errors = 0 /\ ~nilled) =>
      PendingLen(buffer[tb]) <= BatchSize - 1 + Cardinality(Flushers(tb))

\* A graceful stop closes the appenders with nobody left to use them, and writes out
\* everything: rows are left behind in memory only in a table whose flush failed.
DrainedAtStop ==
  grpc = "drained" =>
    /\ pc[Stopper] \in {"close", "stopped"} =>
         /\ writeMu = Free
         /\ pc[Ticker] = "exited"
         /\ \A h \in Handlers : pc[h] = "idle"
    /\ pc[Stopper] = "stopped" =>
         \A tb \in Tables : buffer[tb].errors = 0 => buffer[tb].rows = << >>

\* A batch that failed to be written is never itself the victim of the limit
\* when it returns: the newer rows are.
FailedBatchKept ==
  [][\A t \in Threads :
       (pc[t] = "retry" /\ pc'[t] # "retry") =>
         SeqElems(batch) \subseteq SeqElems(buffer'[tab[t]].rows)]_vars

\* The writer implements the sink: rows reach each table in Append order, without
\* gaps other than the rows counted as dropped, under every interleaving and fault.
Sink == INSTANCE RowSink WITH
  accepted <- [tb \in Tables |-> buffer[tb].appended],
  written  <- [tb \in Tables |-> {n \in RowIds : stored[tb][n] > 0}],
  lost     <- dropped

ImplementsRowSink == Sink!Spec

-----------------------------------------------------------------------------
(* Liveness *)

Healthy(tb) == \A n \in RowIds : <<tb, n>> \notin Poison

\* While the writer lives, a row of a table without poison rows ends up stored or
\* dropped, whatever happens to the flushes of the other tables.
RowsSettle ==
  \A tb \in Tables : Healthy(tb) =>
    \A n \in RowIds :
      (buffer[tb].appended >= n) ~>
        (stored[tb][n] > 0 \/ n \in dropped[tb] \/ StopClosed)

\* No Export handler is held up in flushOne for ever, and writer.Stop returns, though
\* ticks and late handlers compete for the lock.
ThreadsReturn ==
  /\ \A h \in Handlers : (pc[h] # "idle") ~> (pc[h] = "idle")
  /\ (pc[Stopper] = "draining") ~> (pc[Stopper] = "stopped")

-----------------------------------------------------------------------------
(* What comments of the code say and the code does not do. *)

\* "the row is logged-and-skipped by the caller but subsequent rows in the
\* batch still get appended" (appender.go): an AppendBatch on an open appender
\* that ends in an error has taken every row of the batch that is not poison.
SubsequentRowsAppended ==
  [][\A t \in Threads :
       (pc[t] = "write" /\ pc'[t] = "retry" /\ live'[tab[t]] /\ faults' = faults) =>
         \A i \in DOMAIN batch :
           <<tab[t], batch[i]>> \in Poison \/ staged'[tab[t]][batch[i]] > 0]_vars

\* "Subsequent Append calls return an error" (writer.go, Stop): nothing is
\* accepted once Stop has returned.
NoAppendAfterStop ==
  [][pc[Stopper] = "stopped" =>
       \A tb \in Tables : buffer'[tb].appended = buffer[tb].appended]_vars
=============================================================================
