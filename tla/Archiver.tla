------------------------------ MODULE Archiver ------------------------------
(***************************************************************************)
(* internal/store/archive.go and codex_archive.go: expired raw rows are    *)
(* folded into summary tables and deleted, one local day per transaction,  *)
(* while the writer goes on inserting rows of any age.                     *)
(*                                                                         *)
(* A raw row is a member of Rows with a kind, a time, a key and, for a     *)
(* turn cost, a rank.  Three kinds stand for the three ways the summary    *)
(* statements merge: "usage" rows add to every column of a summary (tokens,*)
(* cost, tool calls, histograms), a "turn" cost replaces an older one of   *)
(* the same turn, a "skill" use keeps the first time of its key.  All      *)
(* three extend the span in which their conversation was active.           *)
(***************************************************************************)
EXTENDS ArchiveCalendar, FiniteSets, FiniteSetsExt

CONSTANTS
  Rows,        \* the rows that may ever be ingested, one per INSERT
  Kind, Time,  \* functions on Rows: "usage" | "turn" | "skill", and ts
  Key,         \* the turn or skill a row is about, in its conversation
  Rank,        \* received_at, then the amount: orders turn costs of equal ts
  Conv,        \* the conversation of a row
  None,        \* no such summary row
  ZoneSet,     \* the zones dashboard.timezone may name
  StartAt, MaxNow,   \* bound: the clock runs from StartAt to MaxNow
  MaxFaults,   \* bound: statements that fail
  MaxCrashes,  \* bound: crashes and requested stops
  Prompt       \* TRUE if the clock stands still while a sweep runs or is due

ASSUME ArchiverAssumption ==
  /\ IsFiniteSet(Rows)
  /\ Kind \in [Rows -> {"usage", "turn", "skill"}]
  /\ Time \in [Rows -> Int] /\ Rank \in [Rows -> Nat]
  /\ DOMAIN Key = Rows /\ DOMAIN Conv = Rows
  /\ ZoneSet \subseteq Zones
  /\ StartAt \in Int /\ MaxNow \in Int
  /\ MaxFaults \in Nat /\ MaxCrashes \in Nat /\ Prompt \in BOOLEAN
  /\ None \notin Rows \cup Int \cup [first : Int, last : Int]

Keys  == {Key[r] : r \in Rows}
Convs == {Conv[r] : r \in Rows}

VARIABLES
  zone,      \* dashboard.timezone, fixed
  now,       \* the wall clock
  raw,       \* rows in the raw tables, committed
  cold,      \* the summary tables, committed
  tx,        \* [raw, cold] as the day's open transaction sees them
  pc,        \* where the archiver goroutine is
  cutoff,    \* of the sweep under way
  days,      \* days of the sweep still to do; the first is the current one
  wake,      \* when the timer fires
  cancelled, \* the context is cancelled
  state,     \* maintenance_state.last_cutoff_ts
  faults, crashes,
  ingested,  \* history: every row ever inserted
  listed     \* history: the expired rows when expiredDays ran

vars == <<zone, now, raw, cold, tx, pc, cutoff, days, wake, cancelled, state,
          faults, crashes, ingested, listed>>

\* counted is how often a usage row has been added into the additive columns.
EmptyCold == [counted |-> [r \in Rows |-> 0],
              turn    |-> [k \in Keys |-> None],
              skill   |-> [k \in Keys |-> None],
              active  |-> [c \in Convs |-> None]]

NoTx == [raw |-> {}, cold |-> EmptyCold]

Init ==
  /\ zone \in ZoneSet
  /\ now = StartAt
  /\ raw = {} /\ ingested = {} /\ listed = {}
  /\ cold = EmptyCold
  /\ tx = NoTx
  /\ pc = "off"
  /\ cutoff = StartAt /\ wake = StartAt
  /\ days = {}
  /\ cancelled = FALSE
  /\ state = None
  /\ faults = 0 /\ crashes = 0

-----------------------------------------------------------------------------
(* The summary statements, on the rows of the interval [start, end).       *)

InDay(rows, start, end) == {r \in rows : start <= Time[r] /\ Time[r] < end}
OfKind(rows, kind)      == {r \in rows : Kind[r] = kind}

\* The order in which turn costs replace each other.
Newer(r, s) == Time[r] > Time[s] \/ (Time[r] = Time[s] /\ Rank[r] > Rank[s])

\* QUALIFY row_number() = 1: one of the newest of a nonempty set.
Newest(rows) == CHOOSE r \in rows : \A s \in rows : ~Newer(s, r)

\* Mutant: a missing span makes the result unknown.
NullSpan(a, b) ==
  IF a = None /\ b = None THEN None
  ELSE IF a = None \/ b = None THEN [first |-> None, last |-> None]
  ELSE [first |-> Min({a.first, b.first}), last |-> Max({a.last, b.last})]

\* What LEAST and GREATEST leave of two spans, either of which may be missing.
Span(a, b) ==
  IF a = None THEN b ELSE IF b = None THEN a
  ELSE [first |-> Min({a.first, b.first}), last |-> Max({a.last, b.last})]

SpanOf(rows) ==
  IF rows = {} THEN None
  ELSE [first |-> Min({Time[r] : r \in rows}), last |-> Max({Time[r] : r \in rows})]

\* Mutant: a summary row that exists already is replaced.
ReplaceUsage(c, rows) ==
  [c EXCEPT !.counted = [r \in Rows |-> IF r \in OfKind(rows, "usage") THEN 1 ELSE 0]]

\* ON CONFLICT: column + excluded.column.
AddUsage(c, rows) ==
  [c EXCEPT !.counted = [r \in Rows |-> @[r] + IF r \in OfKind(rows, "usage") THEN 1 ELSE 0]]

\* Mutant: the day archived last wins.
LastTurnWins(c, rows) ==
  LET turns(k) == {r \in OfKind(rows, "turn") : Key[r] = k}
  IN  [c EXCEPT !.turn = [k \in Keys |-> IF turns(k) = {} THEN @[k] ELSE Newest(turns(k))]]

\* ON CONFLICT ... WHERE excluded is newer.
MergeTurns(c, rows) ==
  LET turns(k) == {r \in OfKind(rows, "turn") : Key[r] = k}
  IN  [c EXCEPT !.turn = [k \in Keys |->
         IF turns(k) = {} THEN @[k]
         ELSE IF @[k] = None \/ Newer(Newest(turns(k)), @[k]) THEN Newest(turns(k))
         ELSE @[k]]]

\* MIN(ts), and LEAST(ts, excluded.ts) on conflict.
MergeSkills(c, rows) ==
  LET times(k) == {Time[r] : r \in {s \in OfKind(rows, "skill") : Key[s] = k}}
  IN  [c EXCEPT !.skill = [k \in Keys |->
         IF times(k) = {} THEN @[k]
         ELSE IF @[k] = None THEN Min(times(k)) ELSE Min(times(k) \cup {@[k]})]]

MergeActive(c, rows) ==
  [c EXCEPT !.active = [k \in Convs |-> Span(@[k], SpanOf({r \in rows : Conv[r] = k}))]]

\* archiveAggregationStatements, in order.
Aggregated(c, rows) == AddUsage(MergeActive(MergeSkills(MergeTurns(c, rows), rows), rows), rows)

-----------------------------------------------------------------------------
(* The process around the archiver. *)

\* archiveDay and recordState hold the writer's lock throughout.
HoldsWriteMu == pc \in {"aggregate", "delete", "commit"}

\* A flush of the writer's buffers; rows may be late by any amount.
Ingest(r) ==
  /\ ~HoldsWriteMu
  /\ r \notin ingested
  /\ raw' = raw \cup {r}
  /\ ingested' = ingested \cup {r}
  /\ UNCHANGED <<zone, now, cold, tx, pc, cutoff, days, wake, cancelled, state,
                 faults, crashes, listed>>

ClockAdvances ==
  /\ now < MaxNow
  /\ Prompt => pc = "sleep" /\ now < wake
  /\ now' = now + 1
  /\ UNCHANGED <<zone, raw, cold, tx, pc, cutoff, days, wake, cancelled, state,
                 faults, crashes, ingested, listed>>

\* Stop: the context is cancelled; the goroutine notices at its next check.
Cancel ==
  /\ crashes < MaxCrashes
  /\ pc # "off" /\ ~cancelled
  /\ cancelled' = TRUE
  /\ crashes' = crashes + 1
  /\ UNCHANGED <<zone, now, raw, cold, tx, pc, cutoff, days, wake, state, faults,
                 ingested, listed>>

\* What was not committed is gone.
Crash ==
  /\ crashes < MaxCrashes
  /\ pc # "off"
  /\ crashes' = crashes + 1
  /\ pc' = "off"
  /\ cancelled' = FALSE
  /\ days' = {} /\ listed' = {}
  /\ tx' = NoTx
  /\ UNCHANGED <<zone, now, raw, cold, cutoff, wake, state, faults, ingested>>

-----------------------------------------------------------------------------
(* The goroutine: Start, runLoop and RunOnce. *)

\* RunOnce up to the list of days, which is read without the writer's lock.
BeginSweep ==
  LET c == ArchiveCutoff(zone, now)
      d == ExpiredDays(zone, {Time[r] : r \in raw}, c)
  IN  /\ cutoff' = c
      /\ days' = d
      /\ listed' = {r \in raw : Time[r] < c}
      /\ pc' = IF d = {} THEN "record" ELSE "day"
      /\ UNCHANGED <<zone, now, raw, cold, tx, wake, cancelled, state, faults,
                     crashes, ingested>>

Start == pc = "off" /\ BeginSweep

TimerFires == pc = "sleep" /\ ~cancelled /\ now >= wake /\ BeginSweep

\* <-ctx.Done() in runLoop, and the end of a cancelled sweep.
LoopEnds ==
  /\ pc = "sleep" /\ cancelled
  /\ pc' = "off"
  /\ cancelled' = FALSE
  /\ UNCHANGED <<zone, now, raw, cold, tx, cutoff, days, wake, state, faults,
                 crashes, ingested, listed>>

\* runLoop computes the next run from the time the sweep ended.
Sleep ==
  /\ pc' = "sleep"
  /\ wake' = NextArchiveRun(zone, now)
  /\ days' = {} /\ listed' = {}

Day    == Min(days)
DayRows(rows) == InDay(rows, Day, DayEnd(zone, Day, cutoff))

\* writeMu.Lock and BeginTx.
BeginDay ==
  /\ pc = "day" /\ ~cancelled
  /\ tx' = [raw |-> raw, cold |-> cold]
  /\ pc' = "aggregate"
  /\ UNCHANGED <<zone, now, raw, cold, cutoff, days, wake, cancelled, state,
                 faults, crashes, ingested, listed>>

\* The 14 INSERT ... ON CONFLICT statements.
Aggregate ==
  /\ pc = "aggregate" /\ ~cancelled
  /\ tx' = [tx EXCEPT !.cold = Aggregated(@, DayRows(tx.raw))]
  /\ pc' = "delete"
  /\ UNCHANGED <<zone, now, raw, cold, cutoff, days, wake, cancelled, state,
                 faults, crashes, ingested, listed>>

\* The DELETE over the raw tables.
Delete ==
  /\ pc = "delete" /\ ~cancelled
  /\ tx' = [tx EXCEPT !.raw = @ \ DayRows(@)]
  /\ pc' = "commit"
  /\ UNCHANGED <<zone, now, raw, cold, cutoff, days, wake, cancelled, state,
                 faults, crashes, ingested, listed>>

Commit ==
  /\ pc = "commit" /\ ~cancelled
  /\ raw' = tx.raw
  /\ cold' = tx.cold
  /\ days' = days \ {Day}
  /\ pc' = IF days' = {} THEN "record" ELSE "day"
  /\ tx' = NoTx
  /\ UNCHANGED <<zone, now, cutoff, wake, cancelled, state, faults, crashes,
                 ingested, listed>>

\* Mutant: a cancelled context goes unnoticed within a sweep.
AbortOnErrorOnly ==
  /\ pc \in {"day", "aggregate", "delete", "commit"}
  /\ faults < MaxFaults /\ faults' = faults + 1
  /\ Sleep
  /\ tx' = NoTx
  /\ UNCHANGED <<zone, now, raw, cold, cutoff, cancelled, state, crashes, ingested>>

\* A cancelled context or a failed statement: rollback, and the sweep ends.
Abort ==
  /\ pc \in {"day", "aggregate", "delete", "commit"}
  /\ \/ cancelled /\ UNCHANGED faults
     \/ ~cancelled /\ faults < MaxFaults /\ faults' = faults + 1
  /\ Sleep
  /\ tx' = NoTx
  /\ UNCHANGED <<zone, now, raw, cold, cutoff, cancelled, state, crashes, ingested>>

\* recordState; an error there is only logged, and so is the checkpoint's.
RecordState ==
  /\ pc = "record"
  /\ \/ ~cancelled /\ state' = cutoff
     \/ cancelled /\ UNCHANGED state
     \/ ~cancelled /\ faults < MaxFaults /\ UNCHANGED state
  /\ Sleep
  /\ UNCHANGED <<zone, now, raw, cold, tx, cutoff, cancelled, faults, crashes,
                 ingested>>

Next ==
  \/ \E r \in Rows : Ingest(r)
  \/ ClockAdvances
  \/ Cancel
  \/ Crash
  \/ Start
  \/ TimerFires
  \/ LoopEnds
  \/ BeginDay
  \/ Aggregate
  \/ Delete
  \/ Commit
  \/ Abort
  \/ RecordState

Spec == Init /\ [][Next]_vars

(* The goroutine runs whenever it can, and time passes.  Rows need not     *)
(* arrive, nor the process stop.                                           *)
Fairness ==
  /\ WF_vars(ClockAdvances)
  /\ WF_vars(Start) /\ WF_vars(TimerFires) /\ WF_vars(LoopEnds)
  /\ WF_vars(BeginDay) /\ WF_vars(Aggregate) /\ WF_vars(Delete) /\ WF_vars(Commit)
  /\ WF_vars(Abort /\ cancelled) /\ WF_vars(RecordState)

FairSpec == Spec /\ Fairness

-----------------------------------------------------------------------------
(* Properties *)

ColdTables == [counted : [Rows -> Nat],
               turn    : [Keys -> Rows \cup {None}],
               skill   : [Keys -> Int \cup {None}],
               active  : [Convs -> [first : Int, last : Int] \cup {None}]]

\* Every variable has its type.
TypeOK ==
  /\ zone \in Zones
  /\ now \in Int /\ cutoff \in Int /\ wake \in Int
  /\ raw \subseteq Rows /\ ingested \subseteq Rows /\ listed \subseteq Rows
  /\ cold \in ColdTables
  /\ tx \in [raw : SUBSET Rows, cold : ColdTables]
  /\ pc \in {"off", "sleep", "day", "aggregate", "delete", "commit", "record"}
  /\ days \subseteq Int
  /\ cancelled \in BOOLEAN
  /\ state \in Int \cup {None}
  /\ faults \in Nat /\ crashes \in Nat

\* A row's values are in exactly one place: still raw, or added once into the
\* summaries, whichever day failed, was interrupted or received late rows.
CountedOnce ==
  \A r \in OfKind(Rows, "usage") :
    cold.counted[r] = IF r \in ingested \ raw THEN 1 ELSE 0

\* Raw rows and summaries together answer as all rows ever received would, in whatever
\* order their days were archived: with the newest cost of a turn, the first time a
\* skill use was seen, and the span in which a conversation was active.
SummariesServe ==
  /\ \A k \in Keys :
       LET turns      == {r \in OfKind(ingested, "turn") : Key[r] = k}
           served     == (turns \cap raw) \cup ({cold.turn[k]} \ {None})
           uses(rows) == {Time[r] : r \in {s \in OfKind(rows, "skill") : Key[s] = k}}
       IN  /\ turns # {} => /\ served # {} /\ served \subseteq turns
                            /\ ~Newer(Newest(turns), Newest(served))
           /\ uses(ingested) # {} =>
                Min(uses(ingested)) = Min(uses(raw) \cup ({cold.skill[k]} \ {None}))
  /\ \A c \in Convs :
       LET of(rows) == {r \in rows : Conv[r] = c}
       IN  Span(cold.active[c], SpanOf(of(raw))) = SpanOf(of(ingested))

\* A row leaves the raw tables only when it is older than RetentionDays full
\* days, also on the days after a change of the clocks.
RetentionKept ==
  [][\A r \in raw \ raw' : now - Time[r] > RetentionDays * HoursPerDay]_vars

\* A sweep that ends well leaves no row behind that was expired and there when
\* it began: the listed days cover every row older than the cutoff.
SweepComplete ==
  pc = "record" => raw \cap listed = {}

\* An expired row is archived, late rows included: by the next sweep that does not
\* fail, for which the clock must have days left to run (models.md: next round).
ExpiredRowsLeave ==
  \A r \in Rows :
    (r \in raw /\ now + (MaxFaults + 2) * HoursPerDay <= MaxNow
      /\ Time[r] < now - (RetentionDays + 1) * HoursPerDay) ~> (r \notin raw)

\* archiver.Stop returns.
StopReturns == cancelled ~> (pc = "off")
=============================================================================
