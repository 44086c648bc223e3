----------------------------- MODULE Migrations -----------------------------
(***************************************************************************)
(* The schema scripts (internal/store/migrations) and how RunMigrations    *)
(* applies them (internal/store/migrate.go): statement by statement, each  *)
(* in a transaction of its own, the version's row last.  An interruption   *)
(* leaves any prefix of a script behind.                                   *)
(*                                                                         *)
(* A statement is one of                                                   *)
(*   create  plain CREATE TABLE or ADD COLUMN: fails if it was done before *)
(*   ensure  IF NOT EXISTS, OR REPLACE, ON CONFLICT DO NOTHING, SET        *)
(*   fill    UPDATE of the old token rows that are not marked, from attrs  *)
(*   clean   UPDATE that takes the negative values among the filled out    *)
(*   mark    UPDATE that decides usage_valid of the rows without it        *)
(* The token rows of before version 8 are treated alike, so one stands for *)
(* them.                                                                   *)
(***************************************************************************)
EXTENDS Naturals, Sequences, FiniteSetsExt

Create(n) == [i \in 1 .. n |-> "create"]
Ensure(n) == [i \in 1 .. n |-> "ensure"]

\* Mutant: one of the columns of 008 is added without IF NOT EXISTS.
PlainTelemetry ==
  Ensure(4) \o Create(1) \o <<"fill", "clean", "ensure", "ensure", "mark">> \o Ensure(20)

\* 008: new columns, the backfill of old rows, new tables, copies, views.
Telemetry ==
  Ensure(5) \o <<"fill", "clean", "ensure", "ensure", "mark">> \o Ensure(20)

\* 001 to 007, by the statements splitStatements finds in them.
MetricTables     == Create(8)
EventTables      == Create(11)
CodexEventTables == Create(6)
TokenUsageCost   == Create(1)
SkillMetrics     == Create(1)
ResponseTbt      == Create(1)
ArchiveTables    == Ensure(10)

Scripts == <<MetricTables, EventTables, CodexEventTables, TokenUsageCost,
             SkillMetrics, ResponseTbt, ArchiveTables, Telemetry>>

Versions == 1 .. 8

\* done[v]: how far script v has ever got, that is which prefix of its effects
\* the catalog has.
Databases == [done : [Versions -> Nat], recorded : SUBSET Versions,
              usage : {"old", "filled", "clean"}, marked : BOOLEAN]

\* The file as the versions up to v leave it.
DatabaseAt(v) == [done |-> [w \in Versions |-> IF w <= v THEN Len(Scripts[w]) ELSE 0],
                  recorded |-> 1 .. v,
                  usage |-> IF v = 8 THEN "clean" ELSE "old", marked |-> v = 8]

\* The versions a start still has to apply, in order (LoadMigrations sorts).
Pending(db) == Versions \ db.recorded

Fails(db, v, i) == Scripts[v][i] = "create" /\ i <= db.done[v]

Exec(db, v, i) ==
  LET op == Scripts[v][i]
  IN  [db EXCEPT !.done[v] = Max({@, i}),
                 !.usage   = IF op = "fill" /\ ~db.marked THEN "filled"
                             ELSE IF op = "clean" /\ @ = "filled" THEN "clean" ELSE @,
                 !.marked  = @ \/ op = "mark"]

\* INSERT INTO schema_migrations.
Record(db, v) == [db EXCEPT !.recorded = @ \cup {v}]
=============================================================================
