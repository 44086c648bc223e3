--------------------------- MODULE ArchiverProofs ---------------------------
(***************************************************************************)
(* For every set of rows, zone, clock and schedule of failures: the        *)
(* archiver loses no row and counts none twice, its summaries serve as the *)
(* rows would, and a sweep takes the rows it should and no other.          *)
(*                                                                         *)
(* The argument.  Between BeginDay and Commit the raw tables do not change,*)
(* because the writer's lock keeps Ingest out; so the rows the aggregation *)
(* added to the transaction's summaries are the rows its DELETE removes,   *)
(* and Commit moves exactly those from one side of the books to the other. *)
(* The summaries of the rows archived so far, merged with those of a day,  *)
(* are the summaries of both together, because newest, first and widest    *)
(* are the same in any order.  The rest is about the calendar: a cutoff is *)
(* RetentionDays full days old, and the listed days cover what expired.    *)
(***************************************************************************)
EXTENDS Archiver, FiniteProofs, TLAPS

PCs == {"off", "sleep", "day", "aggregate", "delete", "commit", "record"}

\* A set of summary tables, of which the books only read the additive columns.
IsCold(c) ==
  /\ c = [counted |-> c.counted, turn |-> c.turn, skill |-> c.skill, active |-> c.active]
  /\ c.counted \in [Rows -> Nat]

TablesInv ==
  /\ pc \in PCs
  /\ raw \subseteq ingested
  /\ ingested \subseteq Rows
  /\ IsCold(cold)

\* c holds what the committed summaries hold, and the current day once more.
HoldsDay(c) ==
  /\ IsCold(c)
  /\ \A r \in OfKind(Rows, "usage") :
       c.counted[r] = cold.counted[r] + IF r \in DayRows(raw) THEN 1 ELSE 0

TxInv ==
  /\ pc = "aggregate" => tx = [raw |-> raw, cold |-> cold]
  /\ pc = "delete"    => /\ tx = [raw |-> raw, cold |-> tx.cold]
                         /\ HoldsDay(tx.cold)
  /\ pc = "commit"    => /\ tx = [raw |-> raw \ DayRows(raw), cold |-> tx.cold]
                         /\ HoldsDay(tx.cold)

IInv == TablesInv /\ TxInv /\ CountedOnce

-----------------------------------------------------------------------------
(* The aggregation. *)

\* Only rows of the given rows are rows of the day.
LEMMA DayRowsAreRows == \A S : DayRows(S) \subseteq S
BY DEF DayRows, InDay

\* Replacing one table leaves the others alone.
LEMMA ReplacedTable ==
  ASSUME NEW c, IsCold(c), NEW f
  PROVE  /\ [c EXCEPT !.turn = f] = [counted |-> c.counted, turn |-> f,
                                     skill |-> c.skill, active |-> c.active]
         /\ [c EXCEPT !.skill = f] = [counted |-> c.counted, turn |-> c.turn,
                                      skill |-> f, active |-> c.active]
         /\ [c EXCEPT !.active = f] = [counted |-> c.counted, turn |-> c.turn,
                                       skill |-> c.skill, active |-> f]
         /\ [c EXCEPT !.counted = f] = [counted |-> f, turn |-> c.turn,
                                        skill |-> c.skill, active |-> c.active]
BY DEF IsCold

\* Merging turn costs leaves the additive columns alone.
LEMMA MergeTurnsCounts ==
  ASSUME NEW c, IsCold(c), NEW S
  PROVE  IsCold(MergeTurns(c, S)) /\ MergeTurns(c, S).counted = c.counted
<1> DEFINE turns(k) == {r \in OfKind(S, "turn") : Key[r] = k}
           f == [k \in Keys |->
         IF turns(k) = {} THEN c.turn[k]
         ELSE IF c.turn[k] = None \/ Newer(Newest(turns(k)), c.turn[k]) THEN Newest(turns(k))
         ELSE c.turn[k]]
<1>1. MergeTurns(c, S) = [c EXCEPT !.turn = f]
  BY DEF MergeTurns
<1> HIDE DEF f
<1> QED BY <1>1, ReplacedTable DEF IsCold

\* Merging skill uses leaves the additive columns alone.
LEMMA MergeSkillsCounts ==
  ASSUME NEW c, IsCold(c), NEW S
  PROVE  IsCold(MergeSkills(c, S)) /\ MergeSkills(c, S).counted = c.counted
<1> DEFINE times(k) == {Time[r] : r \in {s \in OfKind(S, "skill") : Key[s] = k}}
           f == [k \in Keys |->
         IF times(k) = {} THEN c.skill[k]
         ELSE IF c.skill[k] = None THEN Min(times(k)) ELSE Min(times(k) \cup {c.skill[k]})]
<1>1. MergeSkills(c, S) = [c EXCEPT !.skill = f]
  BY DEF MergeSkills
<1> HIDE DEF f
<1> QED BY <1>1, ReplacedTable DEF IsCold

\* Merging activity leaves the additive columns alone.
LEMMA MergeActiveCounts ==
  ASSUME NEW c, IsCold(c), NEW S
  PROVE  IsCold(MergeActive(c, S)) /\ MergeActive(c, S).counted = c.counted
<1> DEFINE f == [k \in Convs |-> Span(c.active[k], SpanOf({r \in S : Conv[r] = k}))]
<1>1. MergeActive(c, S) = [c EXCEPT !.active = f]
  BY DEF MergeActive
<1> HIDE DEF f
<1> QED BY <1>1, ReplacedTable DEF IsCold

\* Adding usage adds one to the rows of the set, and nothing to others.
LEMMA AddUsageCounts ==
  ASSUME NEW c, IsCold(c), NEW S
  PROVE  /\ IsCold(AddUsage(c, S))
         /\ \A r \in OfKind(Rows, "usage") :
              AddUsage(c, S).counted[r] = c.counted[r] + IF r \in S THEN 1 ELSE 0
<1> DEFINE t == [r \in Rows |-> c.counted[r] + IF r \in OfKind(S, "usage") THEN 1 ELSE 0]
<1>1. AddUsage(c, S) = [c EXCEPT !.counted = t]
  BY DEF AddUsage
<1>2. t \in [Rows -> Nat]
  BY DEF IsCold
<1>3. ASSUME NEW r \in OfKind(Rows, "usage")
      PROVE  t[r] = c.counted[r] + IF r \in S THEN 1 ELSE 0
  BY DEF OfKind
<1> HIDE DEF t
<1>4. AddUsage(c, S) = [counted |-> t, turn |-> c.turn, skill |-> c.skill, active |-> c.active]
  BY <1>1, ReplacedTable
<1> QED BY <1>2, <1>3, <1>4 DEF IsCold

\* The aggregation adds one to each usage row of the set, and nothing to others.
LEMMA AggregatedCounts ==
  ASSUME NEW c, IsCold(c), NEW S
  PROVE  /\ IsCold(Aggregated(c, S))
         /\ \A r \in OfKind(Rows, "usage") :
              Aggregated(c, S).counted[r] = c.counted[r] + IF r \in S THEN 1 ELSE 0
<1> DEFINE c1 == MergeTurns(c, S)
           c2 == MergeSkills(c1, S)
           c3 == MergeActive(c2, S)
<1>1. IsCold(c1) /\ c1.counted = c.counted
  BY MergeTurnsCounts
<1> HIDE DEF c1
<1>2. IsCold(c2) /\ c2.counted = c.counted
  BY <1>1, MergeSkillsCounts
<1> HIDE DEF c2
<1>3. IsCold(c3) /\ c3.counted = c.counted
  BY <1>2, MergeActiveCounts
<1> HIDE DEF c3
<1>4. Aggregated(c, S) = AddUsage(c3, S)
  BY DEF Aggregated, c1, c2, c3
<1> QED BY <1>3, <1>4, AddUsageCounts

-----------------------------------------------------------------------------
(* The books. *)

\* The books are right at the start.
LEMMA BooksInit == Init => IInv
<1> SUFFICES ASSUME Init PROVE IInv
  OBVIOUS
<1>1. EmptyCold.counted \in [Rows -> Nat]
  BY DEF EmptyCold
<1>2. IsCold(EmptyCold)
  BY <1>1 DEF IsCold, EmptyCold
<1>3. TablesInv
  BY <1>2 DEF Init, TablesInv, PCs
<1>4. TxInv
  BY DEF Init, TxInv
<1>5. CountedOnce
  BY DEF Init, CountedOnce, EmptyCold, OfKind
<1> QED BY <1>3, <1>4, <1>5 DEF IInv

\* A step that touches neither the tables nor an open transaction.
LEMMA BooksUnmoved ==
  ASSUME IInv, UNCHANGED <<raw, cold, ingested>>, pc' \in PCs,
         \/ pc' \notin {"aggregate", "delete", "commit"}
         \/ UNCHANGED <<pc, tx, zone, cutoff, days>>
  PROVE  IInv'
<1>1. TablesInv'
  BY DEF IInv, TablesInv, IsCold
<1>2. CountedOnce'
  BY DEF IInv, CountedOnce
<1>3. TxInv'
  <2>1. CASE pc' \notin {"aggregate", "delete", "commit"}
    BY <2>1 DEF TxInv
  <2>2. CASE UNCHANGED <<pc, tx, zone, cutoff, days>>
    BY <2>2 DEF IInv, TxInv, HoldsDay, IsCold, DayRows, Day
  <2> QED BY <2>1, <2>2
<1> QED BY <1>1, <1>2, <1>3 DEF IInv

\* An insert finds no transaction open.
LEMMA BooksIngest ==
  ASSUME IInv, NEW r \in Rows, Ingest(r)
  PROVE  IInv'
<1>1. TablesInv'
  BY DEF IInv, TablesInv, Ingest, IsCold
<1>2. TxInv'
  BY DEF Ingest, TxInv, HoldsWriteMu
<1>3. CountedOnce'
  BY DEF IInv, TablesInv, CountedOnce, Ingest, OfKind
<1> QED BY <1>1, <1>2, <1>3 DEF IInv

\* The transaction starts from the committed tables.
LEMMA BooksBeginDay ==
  ASSUME IInv, BeginDay
  PROVE  IInv'
<1>1. TablesInv'
  BY DEF IInv, TablesInv, BeginDay, IsCold, PCs
<1>2. TxInv'
  BY DEF BeginDay, TxInv
<1>3. CountedOnce'
  BY DEF IInv, CountedOnce, BeginDay
<1> QED BY <1>1, <1>2, <1>3 DEF IInv

\* The aggregation counts the rows of the day in the transaction.
LEMMA BooksAggregate ==
  ASSUME IInv, Aggregate
  PROVE  IInv'
<1>1. TablesInv'
  BY DEF IInv, TablesInv, Aggregate, IsCold, PCs
<1>2. CountedOnce'
  BY DEF IInv, CountedOnce, Aggregate
<1>3. tx = [raw |-> raw, cold |-> cold] /\ IsCold(cold)
  BY DEF IInv, TxInv, TablesInv, Aggregate
<1>4. tx' = [raw |-> raw, cold |-> Aggregated(cold, DayRows(raw))]
  BY <1>3 DEF Aggregate
<1>5. DayRows(raw)' = DayRows(raw)
  BY DEF Aggregate, DayRows, Day
<1>6. HoldsDay(Aggregated(cold, DayRows(raw)))
  BY <1>3, AggregatedCounts DEF HoldsDay
<1>7. HoldsDay(tx.cold)'
  BY <1>4, <1>5, <1>6 DEF HoldsDay, IsCold, Aggregate
<1>8. pc' = "delete" /\ raw' = raw
  BY DEF Aggregate
<1>9. tx' = [raw |-> raw', cold |-> tx'.cold]
  BY <1>4, <1>8
<1>10. TxInv'
  BY <1>7, <1>8, <1>9 DEF TxInv
<1> QED BY <1>1, <1>2, <1>10 DEF IInv

\* The DELETE removes the rows that were counted.
LEMMA BooksDelete ==
  ASSUME IInv, Delete
  PROVE  IInv'
<1>1. TablesInv'
  BY DEF IInv, TablesInv, Delete, IsCold, PCs
<1>2. CountedOnce'
  BY DEF IInv, CountedOnce, Delete
<1>3. tx = [raw |-> raw, cold |-> tx.cold] /\ HoldsDay(tx.cold)
  BY DEF IInv, TxInv, Delete
<1>4. tx' = [raw |-> raw \ DayRows(raw), cold |-> tx.cold]
  BY <1>3 DEF Delete
<1>5. DayRows(raw)' = DayRows(raw)
  BY DEF Delete, DayRows, Day
<1>6. HoldsDay(tx.cold)'
  BY <1>3, <1>4, <1>5 DEF HoldsDay, IsCold, Delete
<1>7. TxInv'
  BY <1>4, <1>5, <1>6 DEF TxInv, Delete
<1> QED BY <1>1, <1>2, <1>7 DEF IInv

\* The commit moves the day's rows from the raw tables into the summaries.
LEMMA BooksCommit ==
  ASSUME IInv, Commit
  PROVE  IInv'
<1>1. raw' = raw \ DayRows(raw) /\ HoldsDay(cold') /\ ingested' = ingested
  BY DEF IInv, TxInv, Commit
<1>2. TablesInv'
  BY <1>1 DEF IInv, TablesInv, HoldsDay, IsCold, Commit, PCs
<1>3. TxInv'
  BY DEF Commit, TxInv
<1>4. CountedOnce'
  <2> SUFFICES ASSUME NEW r \in OfKind(Rows, "usage")
               PROVE  cold'.counted[r] = IF r \in ingested' \ raw' THEN 1 ELSE 0
    BY DEF CountedOnce
  <2>1. cold.counted[r] = IF r \in ingested \ raw THEN 1 ELSE 0
    BY DEF IInv, CountedOnce
  <2>2. cold'.counted[r] = cold.counted[r] + IF r \in DayRows(raw) THEN 1 ELSE 0
    BY <1>1 DEF HoldsDay
  <2>3. DayRows(raw) \subseteq raw /\ raw \subseteq ingested
    BY DayRowsAreRows DEF IInv, TablesInv
  <2> QED BY <1>1, <2>1, <2>2, <2>3
<1> QED BY <1>2, <1>3, <1>4 DEF IInv

\* Every step keeps the books.
LEMMA BooksStep == IInv /\ [Next]_vars => IInv'
<1> SUFFICES ASSUME IInv, [Next]_vars PROVE IInv'
  OBVIOUS
<1>1. pc \in PCs
  BY DEF IInv, TablesInv
<1>2. CASE \E r \in Rows : Ingest(r)
  BY <1>2, BooksIngest
<1>3. CASE ClockAdvances
  BY <1>1, <1>3, BooksUnmoved DEF ClockAdvances
<1>4. CASE Cancel
  BY <1>1, <1>4, BooksUnmoved DEF Cancel
<1>5. CASE Crash
  BY <1>5, BooksUnmoved DEF Crash, PCs
<1>6. CASE Start
  BY <1>6, BooksUnmoved DEF Start, BeginSweep, PCs
<1>7. CASE TimerFires
  BY <1>7, BooksUnmoved DEF TimerFires, BeginSweep, PCs
<1>8. CASE LoopEnds
  BY <1>8, BooksUnmoved DEF LoopEnds, PCs
<1>9. CASE BeginDay
  BY <1>9, BooksBeginDay
<1>10. CASE Aggregate
  BY <1>10, BooksAggregate
<1>11. CASE Delete
  BY <1>11, BooksDelete
<1>12. CASE Commit
  BY <1>12, BooksCommit
<1>13. CASE Abort
  BY <1>13, BooksUnmoved DEF Abort, Sleep, PCs
<1>14. CASE RecordState
  BY <1>14, BooksUnmoved DEF RecordState, Sleep, PCs
<1>15. CASE UNCHANGED vars
  BY <1>1, <1>15, BooksUnmoved DEF vars
<1> QED BY <1>2, <1>3, <1>4, <1>5, <1>6, <1>7, <1>8, <1>9, <1>10, <1>11, <1>12,
           <1>13, <1>14, <1>15 DEF Next

\* Whatever fails, is interrupted or comes late, a row's values are in exactly
\* one place: archiveDay aggregates and deletes the same rows, or neither.
THEOREM RowsCountedOnce == Spec => []CountedOnce
<1>1. IInv => CountedOnce
  BY DEF IInv
<1> QED BY <1>1, BooksInit, BooksStep, PTL DEF Spec

\* While the summaries of a day are built, the raw tables the transaction reads
\* are the committed ones: no flush comes between the aggregation and the DELETE.
THEOREM DayIsolated == Spec => [](pc = "aggregate" => tx = [raw |-> raw, cold |-> cold])
<1>1. IInv => (pc = "aggregate" => tx = [raw |-> raw, cold |-> cold])
  BY DEF IInv, TxInv
<1> QED BY <1>1, BooksInit, BooksStep, PTL DEF Spec

-----------------------------------------------------------------------------
(* The summaries as functions of the rows archived. *)

Turns(S, k) == {r \in OfKind(S, "turn") : Key[r] = k}
Uses(S, k)  == {Time[r] : r \in {s \in OfKind(S, "skill") : Key[s] = k}}
Own(S, c)   == {r \in S : Conv[r] = c}

TurnsServe(turn, S) ==
  \A k \in Keys : IF Turns(S, k) = {} THEN turn[k] = None
                  ELSE turn[k] \in Turns(S, k) /\ \A r \in Turns(S, k) : ~Newer(r, turn[k])
SkillsServe(skill, S) ==
  \A k \in Keys : IF Uses(S, k) = {} THEN skill[k] = None
                  ELSE skill[k] \in Uses(S, k) /\ \A t \in Uses(S, k) : skill[k] <= t
ActiveServe(active, S) ==
  \A c \in Convs : active[c] = SpanOf(Own(S, c))

\* The summaries are those of the rows S, whatever they were merged from.
Serves(c, S) ==
  /\ c \in ColdTables
  /\ TurnsServe(c.turn, S) /\ SkillsServe(c.skill, S) /\ ActiveServe(c.active, S)

LEMMA RowTypes ==
  /\ Time \in [Rows -> Int] /\ Rank \in [Rows -> Nat] /\ IsFiniteSet(Rows)
  /\ None \notin Rows /\ None \notin Int /\ None \notin [first : Int, last : Int]
BY ArchiverAssumption

\* Newer is a strict order, and rows that it does not tell apart are alike.
LEMMA NewerOrder ==
  /\ \A r, s \in Rows : ~Newer(r, s) \/ ~Newer(s, r)
  /\ \A r, s, t \in Rows : ~Newer(r, s) /\ ~Newer(s, t) => ~Newer(r, t)
<1>1. \A r \in Rows : Time[r] \in Int /\ Rank[r] \in Int
  BY RowTypes
<1>. QED
  BY <1>1 DEF Newer

LEMMA NewestOf ==
  ASSUME NEW S, S \subseteq Rows, S # {}
  PROVE  Newest(S) \in S /\ \A r \in S : ~Newer(r, Newest(S))
<1>. DEFINE R == {q \in S \X S : ~Newer(q[1], q[2])}
<1>1. \A x, y \in S : <<x, y>> \in R <=> ~Newer(x, y)
  OBVIOUS
<1>. HIDE DEF R
<1>2. \A x, y \in S : <<x, y>> \in R \/ <<y, x>> \in R
  BY <1>1, NewerOrder
<1>3. \A x, y, z \in S : <<x, y>> \in R /\ <<y, z>> \in R => <<x, z>> \in R
  BY <1>1, NewerOrder
<1>4. IsFiniteSet(S)
  <2>1. S \in SUBSET Rows
    OBVIOUS
  <2>. QED
    BY <2>1, RowTypes, FS_Subset
<1>5. PICK m \in S : \A x \in S : <<x, m>> \in R
  BY <1>2, <1>3, <1>4, GreatestOfFinite
<1>6. \A x \in S : ~Newer(x, m)
  BY <1>1, <1>5
<1>. QED
  BY <1>6 DEF Newest

\* The rows of a set of rows that satisfy something, and their times.
LEMMA SomeRows ==
  ASSUME NEW S, S \subseteq Rows
  PROVE  /\ IsFiniteSet(S)
         /\ IsFiniteSet({Time[r] : r \in S})
         /\ {Time[r] : r \in S} \subseteq Int
<1>1. S \in SUBSET Rows
  OBVIOUS
<1>2. IsFiniteSet(S)
  BY <1>1, RowTypes, FS_Subset
<1>3. S \subseteq DOMAIN Time
  BY RowTypes
<1>4. {Time[r] : r \in S} \subseteq Int
  BY RowTypes
<1>. QED
  BY <1>2, <1>3, <1>4, FiniteValues

LEMMA OwnKinds ==
  ASSUME NEW S, S \subseteq Rows, NEW k
  PROVE  /\ Turns(S, k) \subseteq Rows /\ Own(S, k) \subseteq Rows
         /\ IsFiniteSet(Uses(S, k)) /\ Uses(S, k) \subseteq Int
<1>1. Turns(S, k) \subseteq Rows /\ Own(S, k) \subseteq Rows
  BY DEF Turns, Own, OfKind
<1>2. {s \in OfKind(S, "skill") : Key[s] = k} \subseteq Rows
  BY DEF OfKind
<1>. QED
  BY <1>1, <1>2, SomeRows DEF Uses

\* C is what A and B hold together.
Joins(C, A, B) == C = A \cup B

LEMMA Joined ==
  ASSUME NEW A, NEW B, NEW C, Joins(C, A, B), NEW k
  PROVE  /\ Turns(C, k) = Turns(A, k) \cup Turns(B, k)
         /\ Uses(C, k) = Uses(A, k) \cup Uses(B, k)
         /\ Own(C, k) = Own(A, k) \cup Own(B, k)
BY DEF Joins, Turns, Uses, Own, OfKind

\* A turn keeps its newest cost, in whatever order its costs are archived.
LEMMA TurnsMerged ==
  ASSUME NEW A, NEW B, NEW C, Joins(C, A, B), A \subseteq Rows, B \subseteq Rows,
         NEW c \in ColdTables, TurnsServe(c.turn, A)
  PROVE  /\ MergeTurns(c, B) \in ColdTables
         /\ TurnsServe(MergeTurns(c, B).turn, C)
         /\ MergeTurns(c, B).counted = c.counted /\ MergeTurns(c, B).skill = c.skill
         /\ MergeTurns(c, B).active = c.active
<1>. DEFINE v(k) == IF Turns(B, k) = {} THEN c.turn[k]
                    ELSE IF c.turn[k] = None \/ Newer(Newest(Turns(B, k)), c.turn[k])
                         THEN Newest(Turns(B, k))
                    ELSE c.turn[k]
            f == [k \in Keys |-> v(k)]
<1>1. MergeTurns(c, B) = [c EXCEPT !.turn = f]
  BY DEF MergeTurns, Turns
<1>2. ASSUME NEW k \in Keys
      PROVE  IF Turns(C, k) = {} THEN v(k) = None
             ELSE v(k) \in Turns(C, k) /\ \A r \in Turns(C, k) : ~Newer(r, v(k))
  <2>. DEFINE TA == Turns(A, k)
              TB == Turns(B, k)
              old == c.turn[k]
              new == Newest(TB)
  <2>1. Turns(C, k) = TA \cup TB /\ TA \subseteq Rows /\ TB \subseteq Rows
    BY Joined, OwnKinds
  <2>2. IF TA = {} THEN old = None ELSE old \in TA /\ \A r \in TA : ~Newer(r, old)
    BY DEF TurnsServe
  <2>3. TB # {} => new \in TB /\ \A r \in TB : ~Newer(r, new)
    BY <2>1, NewestOf
  <2>4. v(k) = IF TB = {} THEN old ELSE IF old = None \/ Newer(new, old) THEN new ELSE old
    OBVIOUS
  <2>. HIDE DEF v, TA, TB, old, new
  <2>5. None \notin Rows
    BY RowTypes
  <2>6. CASE TB = {}
    BY <2>1, <2>2, <2>4, <2>6
  <2>7. CASE TB # {} /\ TA = {}
    BY <2>1, <2>2, <2>3, <2>4, <2>7
  <2>8. CASE TB # {} /\ TA # {}
    <3>1. old # None /\ old \in Rows /\ new \in Rows
      BY <2>1, <2>2, <2>3, <2>5, <2>8
    <3>2. CASE Newer(new, old)
      <4>1. \A r \in TA : ~Newer(r, new)
        BY <2>1, <2>2, <2>8, <3>1, <3>2, NewerOrder
      <4>. QED
        BY <2>1, <2>3, <2>4, <2>8, <3>1, <3>2, <4>1
    <3>3. CASE ~Newer(new, old)
      <4>1. \A r \in TB : ~Newer(r, old)
        BY <2>1, <2>3, <2>8, <3>1, <3>3, NewerOrder
      <4>. QED
        BY <2>1, <2>2, <2>4, <2>8, <3>1, <3>3, <4>1
    <3>. QED
      BY <3>2, <3>3
  <2>. QED
    BY <2>1, <2>6, <2>7, <2>8
<1>3. \A k \in Keys : v(k) \in Rows \cup {None}
  <2>. SUFFICES ASSUME NEW k \in Keys PROVE v(k) \in Rows \cup {None}
    OBVIOUS
  <2>1. Turns(C, k) \subseteq Rows
    BY OwnKinds DEF Joins
  <2>. QED
    BY <1>2, <2>1
<1>. HIDE DEF v
<1>4. f \in [Keys -> Rows \cup {None}] /\ \A k \in Keys : f[k] = v(k)
  BY <1>3
<1>. HIDE DEF f
<1>5. /\ MergeTurns(c, B) \in ColdTables /\ MergeTurns(c, B).turn = f
      /\ MergeTurns(c, B).counted = c.counted /\ MergeTurns(c, B).skill = c.skill
      /\ MergeTurns(c, B).active = c.active
  BY <1>1, <1>4 DEF ColdTables
<1>6. TurnsServe(f, C)
  BY <1>2, <1>4 DEF TurnsServe
<1>. QED
  BY <1>5, <1>6

\* A skill use keeps the first time it was seen.
LEMMA SkillsMerged ==
  ASSUME NEW A, NEW B, NEW C, Joins(C, A, B), A \subseteq Rows, B \subseteq Rows,
         NEW c \in ColdTables, SkillsServe(c.skill, A)
  PROVE  /\ MergeSkills(c, B) \in ColdTables
         /\ SkillsServe(MergeSkills(c, B).skill, C)
         /\ MergeSkills(c, B).counted = c.counted /\ MergeSkills(c, B).turn = c.turn
         /\ MergeSkills(c, B).active = c.active
<1>. DEFINE v(k) == IF Uses(B, k) = {} THEN c.skill[k]
                    ELSE IF c.skill[k] = None THEN Min(Uses(B, k))
                    ELSE Min(Uses(B, k) \cup {c.skill[k]})
            f == [k \in Keys |-> v(k)]
<1>1. MergeSkills(c, B) = [c EXCEPT !.skill = f]
  BY DEF MergeSkills, Uses
<1>2. ASSUME NEW k \in Keys
      PROVE  IF Uses(C, k) = {} THEN v(k) = None
             ELSE v(k) \in Uses(C, k) /\ \A t \in Uses(C, k) : v(k) <= t
  <2>. DEFINE UA == Uses(A, k)
              UB == Uses(B, k)
              old == c.skill[k]
  <2>1. /\ Uses(C, k) = UA \cup UB /\ UA \subseteq Int /\ UB \subseteq Int
        /\ IsFiniteSet(UB)
    <3>1. Uses(C, k) = UA \cup UB
      BY Joined
    <3>2. UA \subseteq Int
      BY OwnKinds
    <3>3. UB \subseteq Int /\ IsFiniteSet(UB)
      BY OwnKinds
    <3>. QED
      BY <3>1, <3>2, <3>3
  <2>2. IF UA = {} THEN old = None ELSE old \in UA /\ \A t \in UA : old <= t
    BY DEF SkillsServe
  <2>3. v(k) = IF UB = {} THEN old ELSE IF old = None THEN Min(UB) ELSE Min(UB \cup {old})
    OBVIOUS
  <2>. HIDE DEF v, UA, UB, old
  <2>4. None \notin Int
    BY RowTypes
  <2>5. UB # {} => Min(UB) \in UB /\ \A t \in UB : Min(UB) <= t
    BY <2>1, MinOf
  <2>6. CASE UB = {}
    BY <2>1, <2>2, <2>3, <2>6
  <2>7. CASE UB # {} /\ UA = {}
    BY <2>1, <2>2, <2>3, <2>5, <2>7
  <2>8. CASE UB # {} /\ UA # {}
    <3>1. old # None /\ old \in Int
      BY <2>1, <2>2, <2>4, <2>8
    <3>2. IsFiniteSet(UB \cup {old})
      BY <2>1, FS_AddElement
    <3>3. /\ Min(UB \cup {old}) \in UB \cup {old}
          /\ \A t \in UB \cup {old} : Min(UB \cup {old}) <= t
      BY <2>1, <3>1, <3>2, MinOf
    <3>4. v(k) = Min(UB \cup {old})
      BY <2>3, <2>8, <3>1
    <3>5. \A t \in UA : v(k) <= t
      <4>1. v(k) <= old /\ v(k) \in Int
        BY <2>1, <3>1, <3>3, <3>4
      <4>. QED
        BY <2>1, <2>2, <2>8, <3>1, <4>1
    <3>. QED
      BY <2>1, <2>2, <2>8, <3>3, <3>4, <3>5
  <2>. QED
    BY <2>1, <2>6, <2>7, <2>8
<1>3. \A k \in Keys : v(k) \in Int \cup {None}
  <2>. SUFFICES ASSUME NEW k \in Keys PROVE v(k) \in Int \cup {None}
    OBVIOUS
  <2>1. Uses(C, k) \subseteq Int
    BY OwnKinds DEF Joins
  <2>. QED
    BY <1>2, <2>1
<1>. HIDE DEF v
<1>4. f \in [Keys -> Int \cup {None}] /\ \A k \in Keys : f[k] = v(k)
  BY <1>3
<1>. HIDE DEF f
<1>5. /\ MergeSkills(c, B) \in ColdTables /\ MergeSkills(c, B).skill = f
      /\ MergeSkills(c, B).counted = c.counted /\ MergeSkills(c, B).turn = c.turn
      /\ MergeSkills(c, B).active = c.active
  BY <1>1, <1>4 DEF ColdTables
<1>6. SkillsServe(f, C)
  BY <1>2, <1>4 DEF SkillsServe
<1>. QED
  BY <1>5, <1>6

\* The span of a set of rows.
LEMMA SpanBounds ==
  ASSUME NEW S, S \subseteq Rows, S # {}
  PROVE  /\ SpanOf(S) \in [first : Int, last : Int] /\ SpanOf(S) # None
         /\ \A r \in S : SpanOf(S).first <= Time[r] /\ Time[r] <= SpanOf(S).last
         /\ \E r \in S : Time[r] = SpanOf(S).first
         /\ \E r \in S : Time[r] = SpanOf(S).last
<1>. DEFINE T == {Time[r] : r \in S}
<1>1. IsFiniteSet(T) /\ T \subseteq Int /\ T # {}
  BY SomeRows
<1>2. Min(T) \in T /\ \A t \in T : Min(T) <= t
  BY <1>1, MinOf
<1>3. Max(T) \in T /\ \A t \in T : Max(T) >= t
  BY <1>1, MaxOf
<1>4. SpanOf(S) = [first |-> Min(T), last |-> Max(T)]
  BY DEF SpanOf
<1>5. SpanOf(S) \in [first : Int, last : Int] /\ SpanOf(S).first = Min(T) /\ SpanOf(S).last = Max(T)
  BY <1>1, <1>2, <1>3, <1>4
<1>6. \A r \in S : Time[r] \in T /\ Time[r] \in Int
  BY RowTypes
<1>7. \A t \in T : \E r \in S : Time[r] = t
  OBVIOUS
<1>. HIDE DEF T
<1>8. \A r \in S : Min(T) <= Time[r] /\ Time[r] <= Max(T)
  <2>1. \A r \in S : Min(T) <= Time[r] /\ Max(T) >= Time[r]
    BY <1>2, <1>3, <1>6
  <2>2. Max(T) \in Int
    BY <1>1, <1>3
  <2>. QED
    BY <1>6, <2>1, <2>2
<1>. QED
  BY <1>2, <1>3, <1>5, <1>7, <1>8, RowTypes

\* Spans join like the rows they are of.
LEMMA SpanUnion ==
  ASSUME NEW A, NEW B, NEW C, Joins(C, A, B), A \subseteq Rows, B \subseteq Rows
  PROVE  Span(SpanOf(A), SpanOf(B)) = SpanOf(C)
<1>1. SpanOf({}) = None
  BY DEF SpanOf
<1>2. CASE A = {}
  BY <1>1, <1>2 DEF Span, Joins
<1>3. CASE A # {} /\ B = {}
  <2>1. SpanOf(A) # None /\ C = A
    BY <1>3, SpanBounds DEF Joins
  <2>. QED
    BY <1>1, <1>3, <2>1 DEF Span
<1>4. CASE A # {} /\ B # {}
  <2>. DEFINE a == SpanOf(A)
              b == SpanOf(B)
              u == SpanOf(C)
  <2>1. /\ a \in [first : Int, last : Int] /\ a # None
        /\ \A r \in A : a.first <= Time[r] /\ Time[r] <= a.last
        /\ (\E r \in A : Time[r] = a.first) /\ (\E r \in A : Time[r] = a.last)
    BY <1>4, SpanBounds
  <2>2. /\ b \in [first : Int, last : Int] /\ b # None
        /\ \A r \in B : b.first <= Time[r] /\ Time[r] <= b.last
        /\ (\E r \in B : Time[r] = b.first) /\ (\E r \in B : Time[r] = b.last)
    BY <1>4, SpanBounds
  <2>3. /\ u \in [first : Int, last : Int]
        /\ \A r \in C : u.first <= Time[r] /\ Time[r] <= u.last
        /\ (\E r \in C : Time[r] = u.first) /\ (\E r \in C : Time[r] = u.last)
    <3>1. C \subseteq Rows /\ C # {}
      BY <1>4 DEF Joins
    <3>. QED
      BY <3>1, SpanBounds
  <2>4. Span(a, b) = [first |-> Min({a.first, b.first}), last |-> Max({a.last, b.last})]
    BY <2>1, <2>2 DEF Span
  <2>. HIDE DEF a, b, u
  <2>5. \A x, y \in Int : /\ IsFiniteSet({x, y}) /\ {x, y} # {} /\ {x, y} \subseteq Int
    <3>. SUFFICES ASSUME NEW x \in Int, NEW y \in Int PROVE IsFiniteSet({x, y})
      OBVIOUS
    <3>1. IsFiniteSet({x} \cup {y})
      BY FS_Singleton, FS_AddElement
    <3>2. {x} \cup {y} = {x, y}
      OBVIOUS
    <3>. QED
      BY <3>1, <3>2
  <2>6. /\ a.first \in Int /\ b.first \in Int /\ a.last \in Int /\ b.last \in Int
        /\ u.first \in Int /\ u.last \in Int
    BY <2>1, <2>2, <2>3
  <2>7. /\ Min({a.first, b.first}) \in {a.first, b.first}
        /\ \A x \in {a.first, b.first} : Min({a.first, b.first}) <= x
    BY <2>5, <2>6, MinOf
  <2>8. /\ Max({a.last, b.last}) \in {a.last, b.last}
        /\ \A x \in {a.last, b.last} : Max({a.last, b.last}) >= x
    BY <2>5, <2>6, MaxOf
  <2>9. u.first <= a.first /\ u.first <= b.first /\ (a.first <= u.first \/ b.first <= u.first)
    BY <2>1, <2>2, <2>3 DEF Joins
  <2>10. a.last <= u.last /\ b.last <= u.last /\ (u.last <= a.last \/ u.last <= b.last)
    BY <2>1, <2>2, <2>3 DEF Joins
  <2>11. u.first = Min({a.first, b.first}) /\ u.last = Max({a.last, b.last})
    BY <2>6, <2>7, <2>8, <2>9, <2>10
  <2>12. u = [first |-> u.first, last |-> u.last]
    BY <2>3
  <2>. QED
    BY <2>4, <2>11, <2>12 DEF a, b, u
<1>. QED
  BY <1>2, <1>3, <1>4

\* A conversation is active from the first to the last of its rows.
LEMMA ActiveMerged ==
  ASSUME NEW A, NEW B, NEW C, Joins(C, A, B), A \subseteq Rows, B \subseteq Rows,
         NEW c \in ColdTables, ActiveServe(c.active, A)
  PROVE  /\ MergeActive(c, B) \in ColdTables
         /\ ActiveServe(MergeActive(c, B).active, C)
         /\ MergeActive(c, B).counted = c.counted /\ MergeActive(c, B).turn = c.turn
         /\ MergeActive(c, B).skill = c.skill
<1>. DEFINE f == [k \in Convs |-> Span(c.active[k], SpanOf(Own(B, k)))]
<1>1. MergeActive(c, B) = [c EXCEPT !.active = f]
  BY DEF MergeActive, Own
<1>2. \A k \in Convs : f[k] = SpanOf(Own(C, k))
  <2>. SUFFICES ASSUME NEW k \in Convs PROVE f[k] = SpanOf(Own(C, k))
    OBVIOUS
  <2>1. f[k] = Span(SpanOf(Own(A, k)), SpanOf(Own(B, k)))
    BY DEF ActiveServe
  <2>2. Own(A, k) \subseteq Rows /\ Own(B, k) \subseteq Rows
    BY OwnKinds
  <2>. QED
    <3>1. Joins(Own(C, k), Own(A, k), Own(B, k))
      BY Joined DEF Joins
    <3>. QED
      BY <2>1, <2>2, <3>1, SpanUnion
<1>3. f = [k \in Convs |-> f[k]]
  OBVIOUS
<1>. HIDE DEF f
<1>4. f \in [Convs -> [first : Int, last : Int] \cup {None}]
  <2>1. \A k \in Convs : SpanOf(Own(C, k)) \in [first : Int, last : Int] \cup {None}
    <3>. SUFFICES ASSUME NEW k \in Convs
                  PROVE  SpanOf(Own(C, k)) \in [first : Int, last : Int] \cup {None}
      OBVIOUS
    <3>1. Own(C, k) \subseteq Rows
      BY DEF Own, Joins
    <3>2. CASE Own(C, k) = {}
      BY <3>2 DEF SpanOf
    <3>. QED
      BY <3>1, <3>2, SpanBounds
  <2>. QED
    BY <1>2, <1>3, <2>1
<1>5. /\ MergeActive(c, B) \in ColdTables /\ MergeActive(c, B).active = f
      /\ MergeActive(c, B).counted = c.counted /\ MergeActive(c, B).turn = c.turn
      /\ MergeActive(c, B).skill = c.skill
  BY <1>1, <1>4 DEF ColdTables
<1>. QED
  BY <1>2, <1>5 DEF ActiveServe

\* The statements together: the summaries of A become those of A and B.
LEMMA AggregatedServes ==
  ASSUME NEW A, NEW B, NEW C, Joins(C, A, B), A \subseteq Rows, B \subseteq Rows, NEW c, Serves(c, A)
  PROVE  Serves(Aggregated(c, B), C)
<1>. DEFINE c1 == MergeTurns(c, B)
            c2 == MergeSkills(c1, B)
            c3 == MergeActive(c2, B)
            t == [r \in Rows |-> c3.counted[r] + IF r \in OfKind(B, "usage") THEN 1 ELSE 0]
<1>0. /\ c \in ColdTables /\ TurnsServe(c.turn, A) /\ SkillsServe(c.skill, A)
      /\ ActiveServe(c.active, A)
  BY DEF Serves
<1>1. /\ c1 \in ColdTables /\ TurnsServe(c1.turn, C)
      /\ c1.skill = c.skill /\ c1.active = c.active
  BY <1>0, TurnsMerged
<1>2. Aggregated(c, B) = [c3 EXCEPT !.counted = t]
  BY DEF Aggregated, AddUsage
<1>. HIDE DEF c1
<1>7. SkillsServe(c1.skill, A)
  BY <1>0, <1>1
<1>3. /\ c2 \in ColdTables /\ c2.turn = c1.turn /\ c2.active = c1.active
      /\ SkillsServe(c2.skill, C)
  BY <1>1, <1>7, SkillsMerged
<1>. HIDE DEF c2
<1>8. ActiveServe(c2.active, A)
  BY <1>0, <1>1, <1>3
<1>4. /\ c3 \in ColdTables /\ c3.turn = c2.turn /\ c3.skill = c2.skill
      /\ ActiveServe(c3.active, C)
  BY <1>3, <1>8, ActiveMerged
<1>. HIDE DEF c3
<1>5. t \in [Rows -> Nat]
  BY <1>4 DEF ColdTables
<1>. HIDE DEF t
<1>6. LET e == [c3 EXCEPT !.counted = t]
      IN  e \in ColdTables /\ e.turn = c3.turn /\ e.skill = c3.skill /\ e.active = c3.active
  BY <1>4, <1>5 DEF ColdTables
<1>. QED
  BY <1>1, <1>2, <1>3, <1>4, <1>6 DEF Serves

-----------------------------------------------------------------------------
(* The summaries under the steps of the program. *)

Archived == ingested \ raw

\* The summaries serve for the rows that left the raw tables, and an open
\* transaction is where its day's statements take it.
Served ==
  /\ Serves(cold, Archived)
  /\ pc \notin {"aggregate", "delete", "commit"} => tx = NoTx
  /\ pc = "aggregate" => tx = [raw |-> raw, cold |-> cold]
  /\ pc = "delete" => tx = [raw |-> raw, cold |-> Aggregated(cold, DayRows(raw))]
  /\ pc = "commit" =>
       tx = [raw |-> raw \ DayRows(raw), cold |-> Aggregated(cold, DayRows(raw))]

\* No rows, no summaries.
LEMMA EmptyServes == Serves(EmptyCold, {}) /\ NoTx \in [raw : SUBSET Rows, cold : ColdTables]
<1>1. EmptyCold \in ColdTables
  BY DEF EmptyCold, ColdTables
<1>2. \A k : Turns({}, k) = {} /\ Uses({}, k) = {} /\ Own({}, k) = {}
  BY DEF Turns, Uses, Own, OfKind
<1>3. \A k \in Keys : EmptyCold.turn[k] = None /\ EmptyCold.skill[k] = None
  BY DEF EmptyCold
<1>4. \A c \in Convs : EmptyCold.active[c] = None
  BY DEF EmptyCold
<1>5. SpanOf({}) = None
  BY DEF SpanOf
<1>. QED
  BY <1>1, <1>2, <1>3, <1>4, <1>5 DEF Serves, TurnsServe, SkillsServe, ActiveServe, NoTx

LEMMA ServedInit == Init => Served
BY EmptyServes DEF Init, Served, Archived

\* A step that touches neither the tables nor an open transaction.
LEMMA ServedUnmoved ==
  ASSUME Served, UNCHANGED <<raw, cold, ingested>>,
         \/ /\ pc' \notin {"aggregate", "delete", "commit"}
            /\ \/ tx' = NoTx
               \/ tx' = tx /\ pc \notin {"aggregate", "delete", "commit"}
         \/ UNCHANGED <<pc, tx, zone, cutoff, days>>
  PROVE  Served'
<1>1. Archived' = Archived
  BY DEF Archived
<1>2. CASE UNCHANGED <<pc, tx, zone, cutoff, days>>
  <2>1. DayRows(raw)' = DayRows(raw)
    BY <1>2 DEF DayRows, Day
  <2>. QED
    BY <1>1, <1>2, <2>1 DEF Served
<1>3. CASE pc' \notin {"aggregate", "delete", "commit"}
  <2>1. tx' = NoTx \/ UNCHANGED <<pc, tx, zone, cutoff, days>>
    BY DEF Served
  <2>. QED
    BY <1>1, <1>2, <1>3, <2>1 DEF Served
<1>. QED
  BY <1>2, <1>3

LEMMA ServedMoves ==
  ASSUME IInv, Served, BeginDay \/ Aggregate \/ Delete
  PROVE  Served'
<1>1. UNCHANGED <<raw, cold, ingested, zone, cutoff, days>>
  BY DEF BeginDay, Aggregate, Delete
<1>2. Archived' = Archived /\ DayRows(raw)' = DayRows(raw)
  BY <1>1 DEF Archived, DayRows, Day
<1>3. CASE BeginDay
  BY <1>1, <1>2, <1>3 DEF BeginDay, Served
<1>4. CASE Aggregate
  <2>1. tx' = [raw |-> raw, cold |-> Aggregated(cold, DayRows(raw))] /\ pc' = "delete"
    BY <1>4 DEF Aggregate, Served
  <2>. QED
    BY <1>1, <1>2, <2>1 DEF Served
<1>5. CASE Delete
  <2>1. /\ tx' = [raw |-> raw \ DayRows(raw), cold |-> Aggregated(cold, DayRows(raw))]
        /\ pc' = "commit"
    BY <1>5 DEF Delete, Served
  <2>. QED
    BY <1>1, <1>2, <2>1 DEF Served
<1>. QED
  BY <1>3, <1>4, <1>5

LEMMA ServedCommit ==
  ASSUME IInv, Served, Commit
  PROVE  Served'
<1>1. /\ raw' = raw \ DayRows(raw) /\ cold' = Aggregated(cold, DayRows(raw))
      /\ ingested' = ingested /\ tx' = NoTx /\ pc' \in {"record", "day"}
  BY DEF Served, Commit
<1>2. raw \subseteq ingested /\ ingested \subseteq Rows /\ DayRows(raw) \subseteq raw
  BY DayRowsAreRows DEF IInv, TablesInv
<1>3. Joins(Archived', Archived, DayRows(raw))
  BY <1>1, <1>2 DEF Joins, Archived
<1>4. Archived \subseteq Rows /\ DayRows(raw) \subseteq Rows
  BY <1>2 DEF Archived
<1>5. Serves(cold', Archived')
  BY <1>1, <1>3, <1>4, AggregatedServes DEF Served
<1>. QED
  BY <1>1, <1>5 DEF Served

LEMMA ServedNext == IInv /\ Served /\ [Next]_vars => Served'
<1>. SUFFICES ASSUME IInv, Served, [Next]_vars PROVE Served'
  OBVIOUS
<1>1. ASSUME NEW r \in Rows, Ingest(r) PROVE Served'
  <2>1. Archived' = Archived /\ UNCHANGED <<cold, tx, pc>>
    BY <1>1 DEF Ingest, Archived, IInv, TablesInv
  <2>2. pc \notin {"aggregate", "delete", "commit"}
    BY <1>1 DEF Ingest, HoldsWriteMu
  <2>. QED
    BY <2>1, <2>2 DEF Served
<1>2. CASE ClockAdvances \/ Cancel \/ UNCHANGED vars
  BY <1>2, ServedUnmoved DEF ClockAdvances, Cancel, vars
<1>3. CASE Crash
  BY <1>3, ServedUnmoved DEF Crash
<1>8. CASE LoopEnds
  BY <1>8, ServedUnmoved DEF LoopEnds
<1>4. CASE Start \/ TimerFires
  BY <1>4, ServedUnmoved DEF Start, TimerFires, BeginSweep
<1>5. CASE Abort
  BY <1>5, ServedUnmoved DEF Abort, Sleep
<1>9. CASE RecordState
  BY <1>9, ServedUnmoved DEF RecordState, Sleep
<1>6. CASE BeginDay \/ Aggregate \/ Delete
  BY <1>6, ServedMoves
<1>7. CASE Commit
  BY <1>7, ServedCommit
<1>. QED
  BY <1>1, <1>2, <1>3, <1>4, <1>5, <1>6, <1>7, <1>8, <1>9 DEF Next

LEMMA ServedHolds == Spec => [](IInv /\ Served)
<1>1. Init => IInv /\ Served
  BY BooksInit, ServedInit
<1>2. (IInv /\ Served) /\ [Next]_vars => (IInv /\ Served)'
  BY BooksStep, ServedNext
<1>. QED
  BY <1>1, <1>2, PTL DEF Spec

\* Raw rows and summaries answer as all the rows ever received would, whatever
\* the order in which days were archived: the ON CONFLICT clauses of the
\* aggregation keep the newest turn cost, the first skill use and the whole span.
THEOREM SummariesServeHolds == Spec => []SummariesServe
<1>1. IInv /\ Served => SummariesServe
  <2>. SUFFICES ASSUME IInv, Served PROVE SummariesServe
    OBVIOUS
  <2>1. raw \subseteq Rows /\ ingested \subseteq Rows /\ Archived \subseteq Rows
    BY DEF IInv, TablesInv, Archived
  <2>2. Joins(ingested, raw, Archived) /\ Joins(ingested, Archived, raw)
    BY DEF IInv, TablesInv, Archived, Joins
  <2>3. TurnsServe(cold.turn, Archived) /\ SkillsServe(cold.skill, Archived)
        /\ ActiveServe(cold.active, Archived)
    BY DEF Served, Serves
  <2>4. ASSUME NEW k \in Keys, Turns(ingested, k) # {},
               NEW served, served = (Turns(ingested, k) \cap raw) \cup ({cold.turn[k]} \ {None})
        PROVE  /\ served # {} /\ served \subseteq Turns(ingested, k)
               /\ ~Newer(Newest(Turns(ingested, k)), Newest(served))
    <3>. DEFINE I == Turns(ingested, k)
                R == Turns(raw, k)
                A == Turns(Archived, k)
                old == cold.turn[k]
    <3>1. I = R \cup A /\ I \subseteq Rows
      BY <2>1, <2>2, Joined, OwnKinds DEF Joins
    <3>2. I \cap raw = R
      BY DEF Turns, OfKind, IInv, TablesInv
    <3>3. IF A = {} THEN old = None ELSE old \in A /\ \A r \in A : ~Newer(r, old)
      BY <2>3 DEF TurnsServe
    <3>4. Newest(I) \in I
      BY <2>4, <3>1, NewestOf
    <3>5. served = R \cup ({old} \ {None}) /\ I # {}
      BY <2>4, <3>2
    <3>. HIDE DEF I, R, A, old
    <3>6. None \notin Rows
      BY RowTypes
    <3>7. served # {} /\ served \subseteq I
      BY <3>1, <3>3, <3>5, <3>6
    <3>8. Newest(served) \in served /\ \A r \in served : ~Newer(r, Newest(served))
      BY <3>1, <3>7, NewestOf
    <3>9. PICK s \in served : ~Newer(Newest(I), s)
      <4>1. CASE Newest(I) \in R
        <5>1. ~Newer(Newest(I), Newest(I))
          BY <3>1, <3>4, NewerOrder
        <5>. QED
          BY <3>5, <4>1, <5>1
      <4>2. CASE Newest(I) \in A
        BY <3>1, <3>3, <3>5, <3>6, <4>2
      <4>. QED
        BY <3>1, <3>4, <4>1, <4>2
    <3>10. ~Newer(Newest(I), Newest(served))
      BY <3>1, <3>4, <3>7, <3>8, <3>9, NewerOrder
    <3>. QED
      BY <3>7, <3>10 DEF I
  <2>5. ASSUME NEW k \in Keys, Uses(ingested, k) # {}
        PROVE  Min(Uses(ingested, k)) = Min(Uses(raw, k) \cup ({cold.skill[k]} \ {None}))
    <3>. DEFINE I == Uses(ingested, k)
                R == Uses(raw, k)
                A == Uses(Archived, k)
                old == cold.skill[k]
                M == R \cup ({old} \ {None})
    <3>1. I = R \cup A
      BY <2>2, Joined
    <3>2. IsFiniteSet(I) /\ I \subseteq Int
      BY <2>1, OwnKinds
    <3>3. IF A = {} THEN old = None ELSE old \in A /\ \A t \in A : old <= t
      BY <2>3 DEF SkillsServe
    <3>4. I # {}
      BY <2>5
    <3>. HIDE DEF I, R, A, old
    <3>5. None \notin Int
      BY RowTypes
    <3>6. M # {} /\ M \in SUBSET I /\ (A # {} => old \in M)
      BY <3>1, <3>2, <3>3, <3>4, <3>5
    <3>7. IsFiniteSet(M) /\ M \subseteq Int
      BY <3>2, <3>6, FS_Subset
    <3>8. Min(I) \in I /\ \A t \in I : Min(I) <= t
      BY <3>2, <3>4, MinOf
    <3>9. R \subseteq M
      OBVIOUS
    <3>. HIDE DEF M
    <3>10. Min(M) \in M /\ \A t \in M : Min(M) <= t
      BY <3>6, <3>7, MinOf
    <3>11. \A t \in I : Min(M) <= t
      <4>. SUFFICES ASSUME NEW t \in I PROVE Min(M) <= t
        OBVIOUS
      <4>1. CASE t \in R
        BY <3>9, <3>10, <4>1
      <4>2. CASE t \in A
        <5>1. Min(M) <= old /\ old <= t /\ old \in Int /\ Min(M) \in Int /\ t \in Int
          BY <3>2, <3>3, <3>6, <3>7, <3>10, <4>2
        <5>. QED
          BY <5>1
      <4>. QED
        BY <3>1, <4>1, <4>2
    <3>12. Min(I) = Min(M)
      <4>1. Min(I) <= Min(M) /\ Min(M) <= Min(I) /\ Min(I) \in Int /\ Min(M) \in Int
        BY <3>2, <3>6, <3>7, <3>8, <3>10, <3>11
      <4>. QED
        BY <4>1
    <3>. QED
      BY <3>12 DEF I, M, R, old
  <2>6. ASSUME NEW c \in Convs
        PROVE  Span(cold.active[c], SpanOf(Own(raw, c))) = SpanOf(Own(ingested, c))
    <3>1. cold.active[c] = SpanOf(Own(Archived, c))
      BY <2>3 DEF ActiveServe
    <3>2. Joins(Own(ingested, c), Own(Archived, c), Own(raw, c))
      BY <2>2, Joined DEF Joins
    <3>3. Own(Archived, c) \subseteq Rows /\ Own(raw, c) \subseteq Rows
      BY <2>1, OwnKinds
    <3>. QED
      BY <3>1, <3>2, <3>3, SpanUnion
  <2>. QED
    BY <2>4, <2>5, <2>6 DEF SummariesServe, Turns, Uses, Own
<1>. QED
  BY <1>1, ServedHolds, PTL

-----------------------------------------------------------------------------
(* The calendar. *)

\* time.Date is the wall clock read as UTC less one of the zone's two offsets.
LEMMA GoDateOffset ==
  ASSUME NEW z \in Zones, NEW d \in Int, NEW h \in Int
  PROVE  \E o \in {z.first, z.then} : GoDate(z, d, h) = (d * HoursPerDay + h) - o
<1>. DEFINE wall  == d * HoursPerDay + h
            guess == wall - OffsetAt(z, wall)
<1>1. OffsetAt(z, wall) \in {z.first, z.then} /\ OffsetAt(z, guess) \in {z.first, z.then}
  BY DEF OffsetAt
<1>2. GoDate(z, d, h) = wall - OffsetAt(z, wall) \/ GoDate(z, d, h) = wall - OffsetAt(z, guess)
  BY DEF GoDate
<1>3. \E o \in {z.first, z.then} : GoDate(z, d, h) = wall - o
  <2>1. CASE GoDate(z, d, h) = wall - OffsetAt(z, wall)
    BY <1>1, <2>1
  <2>2. CASE GoDate(z, d, h) = wall - OffsetAt(z, guess)
    BY <1>1, <2>2
  <2>. QED
    BY <1>2, <2>1, <2>2
<1>. QED
  BY <1>3

\* Whole hours in, whole hours out.
LEMMA CalendarTypes ==
  ASSUME NEW z \in Zones
  PROVE  /\ z.first \in Int /\ z.then \in Int /\ z.at \in Int
         /\ \A t \in Int : /\ OffsetAt(z, t) \in Int /\ OffsetAt(z, t) \in {z.first, z.then}
                           /\ LocalDate(z, t) \in Int /\ LocalHour(z, t) \in 0 .. HoursPerDay - 1
                           /\ LocalDate(z, t) * HoursPerDay + LocalHour(z, t) = t + OffsetAt(z, t)
                           /\ LocalMidnight(z, t) \in Int
                           /\ ArchiveCutoff(z, t) \in Int /\ NextArchiveRun(z, t) \in Int
         /\ \A t, n \in Int : AddDate(z, t, n) \in Int
<1>1. z.first \in Int /\ z.then \in Int /\ z.at \in Int
  BY DEF Zones
<1>2. HoursPerDay \in Nat \ {0} /\ HoursPerDay \in Int /\ RetentionDays \in Int /\ RunHour \in Int
  BY CalendarAssumption
<1>3. \A t \in Int : OffsetAt(z, t) \in Int /\ OffsetAt(z, t) \in {z.first, z.then}
  BY <1>1 DEF OffsetAt
<1>4. \A w \in Int : /\ w \div HoursPerDay \in Int /\ w % HoursPerDay \in 0 .. HoursPerDay - 1
                     /\ (w \div HoursPerDay) * HoursPerDay + (w % HoursPerDay) = w
  BY <1>2
<1>5. \A t \in Int : /\ LocalDate(z, t) \in Int /\ LocalHour(z, t) \in 0 .. HoursPerDay - 1
                     /\ LocalDate(z, t) * HoursPerDay + LocalHour(z, t) = t + OffsetAt(z, t)
  BY <1>3, <1>4 DEF LocalDate, LocalHour
<1>6. \A d, h \in Int : GoDate(z, d, h) \in Int
  <2>. SUFFICES ASSUME NEW d \in Int, NEW h \in Int PROVE GoDate(z, d, h) \in Int
    OBVIOUS
  <2>1. PICK o \in {z.first, z.then} : GoDate(z, d, h) = (d * HoursPerDay + h) - o
    BY GoDateOffset
  <2>2. d * HoursPerDay \in Int
    BY <1>2
  <2>. QED
    BY <1>1, <2>1, <2>2
<1>7. \A t, n \in Int : AddDate(z, t, n) \in Int
  <2>. SUFFICES ASSUME NEW t \in Int, NEW n \in Int PROVE AddDate(z, t, n) \in Int
    OBVIOUS
  <2>1. LocalDate(z, t) + n \in Int /\ LocalHour(z, t) \in Int
    BY <1>2, <1>5
  <2>. QED
    BY <1>6, <2>1 DEF AddDate
<1>8. \A t \in Int : LocalMidnight(z, t) \in Int
  BY <1>5, <1>6 DEF LocalMidnight
<1>9. -RetentionDays \in Int /\ -RetentionDays - 1 \in Int
  BY <1>2
<1>10. \A t \in Int : ArchiveCutoff(z, t) \in Int
  BY <1>7, <1>8, <1>9 DEF ArchiveCutoff
<1>11. \A t \in Int : NextArchiveRun(z, t) \in Int
  <2>. SUFFICES ASSUME NEW t \in Int PROVE NextArchiveRun(z, t) \in Int
    OBVIOUS
  <2>1. GoDate(z, LocalDate(z, t), RunHour) \in Int
    BY <1>2, <1>5, <1>6
  <2>2. AddDate(z, GoDate(z, LocalDate(z, t), RunHour), 1) \in Int
    BY <1>7, <2>1
  <2>. QED
    BY <2>1, <2>2 DEF NextArchiveRun
<1>. QED
  BY <1>1, <1>3, <1>5, <1>7, <1>8, <1>10, <1>11

LEMMA ExpiredDaysTypes ==
  ASSUME NEW z \in Zones, NEW times, times \subseteq Int, NEW c \in Int
  PROVE  ExpiredDays(z, times, c) \subseteq Int
<1>1. \A t \in times : (t \div HoursPerDay) * HoursPerDay \in Int
  BY CalendarAssumption
<1>2. \A u \in Int : LocalMidnight(z, u) \in Int /\ AddDate(z, LocalMidnight(z, u), 1) \in Int
  BY CalendarTypes
<1>. QED
  BY <1>1, <1>2 DEF ExpiredDays

\* The clock, the zone and the sweep.
ClockInv ==
  /\ zone \in ZoneSet
  /\ now \in Int /\ cutoff \in Int /\ wake \in Int
  /\ listed \subseteq ingested /\ days \subseteq Int
  /\ cancelled \in BOOLEAN /\ state \in Int \cup {None}
  /\ faults \in Nat /\ crashes \in Nat

LEMMA ClockInvInit == Init => ClockInv
<1>. SUFFICES ASSUME Init PROVE ClockInv
  OBVIOUS
<1>1. StartAt \in Int
  BY ArchiverAssumption
<1>2. zone \in ZoneSet /\ now \in Int /\ cutoff \in Int /\ wake \in Int
  BY <1>1 DEF Init
<1>3. listed \subseteq ingested /\ days \subseteq Int /\ cancelled \in BOOLEAN
  BY DEF Init
<1>4. state \in Int \cup {None} /\ faults \in Nat /\ crashes \in Nat
  BY DEF Init
<1>. QED
  BY <1>2, <1>3, <1>4 DEF ClockInv

LEMMA ClockInvNext == IInv /\ ClockInv /\ [Next]_vars => ClockInv'
<1>. SUFFICES ASSUME IInv, ClockInv, [Next]_vars PROVE ClockInv'
  OBVIOUS
<1>1. zone \in Zones /\ raw \subseteq ingested /\ ingested \subseteq Rows
  BY ArchiverAssumption DEF ClockInv, IInv, TablesInv
<1>2. ASSUME NEW r \in Rows, Ingest(r) PROVE ClockInv'
  BY <1>2 DEF Ingest, ClockInv
<1>3. CASE ClockAdvances
  BY <1>3 DEF ClockAdvances, ClockInv
<1>8. CASE Cancel
  BY <1>8 DEF Cancel, ClockInv
<1>9. CASE Crash
  <2>1. /\ crashes' = crashes + 1 /\ days' = {} /\ listed' = {} /\ cancelled' = FALSE
        /\ UNCHANGED <<zone, now, cutoff, wake, state, faults>>
    BY <1>9 DEF Crash
  <2>2. crashes' \in Nat
    BY <2>1 DEF ClockInv
  <2>3. listed' \subseteq ingested' /\ days' \subseteq Int /\ cancelled' \in BOOLEAN
    BY <2>1
  <2>. QED
    BY <2>1, <2>2, <2>3 DEF ClockInv
<1>10. CASE LoopEnds
  BY <1>10 DEF LoopEnds, ClockInv
<1>4. CASE BeginDay \/ Aggregate \/ Delete \/ Commit
  BY <1>4 DEF BeginDay, Aggregate, Delete, Commit, ClockInv
<1>5. CASE BeginSweep
  <2>1. ArchiveCutoff(zone, now) \in Int
    BY <1>1, CalendarTypes DEF ClockInv
  <2>2. {Time[r] : r \in raw} \subseteq Int
    BY <1>1, RowTypes
  <2>3. ExpiredDays(zone, {Time[r] : r \in raw}, ArchiveCutoff(zone, now)) \subseteq Int
    BY <1>1, <2>1, <2>2, ExpiredDaysTypes
  <2>. QED
    BY <1>1, <1>5, <2>1, <2>3 DEF BeginSweep, ClockInv
<1>6. CASE Abort \/ RecordState
  <2>1. NextArchiveRun(zone, now) \in Int
    BY <1>1, CalendarTypes DEF ClockInv
  <2>. QED
    BY <1>6, <2>1 DEF Abort, RecordState, Sleep, ClockInv
<1>7. CASE UNCHANGED vars
  BY <1>7 DEF vars, ClockInv
<1>. QED
  BY <1>2, <1>3, <1>4, <1>5, <1>6, <1>7, <1>8, <1>9, <1>10 DEF Next, Start, TimerFires

LEMMA ClockHolds == Spec => [](IInv /\ Served /\ ClockInv)
<1>1. Init => IInv /\ Served /\ ClockInv
  BY BooksInit, ServedInit, ClockInvInit
<1>2. (IInv /\ Served /\ ClockInv) /\ [Next]_vars => (IInv /\ Served /\ ClockInv)'
  BY BooksStep, ServedNext, ClockInvNext
<1>. QED
  BY <1>1, <1>2, PTL DEF Spec

\* Every variable of the archiver has its type, the open transaction's tables
\* included.
THEOREM ArchiverTypes == Spec => []TypeOK
<1>1. IInv /\ Served /\ ClockInv => TypeOK
  <2>. SUFFICES ASSUME IInv, Served, ClockInv PROVE TypeOK
    OBVIOUS
  <2>1. /\ raw \subseteq Rows /\ ingested \subseteq Rows /\ raw \subseteq ingested
        /\ pc \in {"off", "sleep", "day", "aggregate", "delete", "commit", "record"}
    BY DEF IInv, TablesInv, PCs
  <2>2. cold \in ColdTables
    BY DEF Served, Serves
  <2>3. Aggregated(cold, DayRows(raw)) \in ColdTables
    <3>2. PICK C : Joins(C, Archived, DayRows(raw))
      BY DEF Joins
    <3>3. Archived \subseteq Rows /\ DayRows(raw) \subseteq Rows
      BY <2>1, DayRowsAreRows DEF Archived
    <3>. QED
      BY <3>2, <3>3, AggregatedServes DEF Served, Serves
  <2>4. DayRows(raw) \subseteq raw
    BY DayRowsAreRows
  <2>5. tx \in [raw : SUBSET Rows, cold : ColdTables]
    BY <2>1, <2>2, <2>3, <2>4, EmptyServes DEF Served
  <2>6. zone \in Zones /\ listed \subseteq Rows
    BY <2>1, ArchiverAssumption DEF ClockInv
  <2>. QED
    BY <2>1, <2>2, <2>5, <2>6 DEF ClockInv, TypeOK
<1>. QED
  BY <1>1, ClockHolds, PTL

\* No change of the clocks by more than half a day.
ShiftsSmall ==
  \A z \in ZoneSet : /\ 2 * (z.then - z.first) <= HoursPerDay
                     /\ 2 * (z.first - z.then) <= HoursPerDay

\* n dates on, by the clock on the wall.
LEMMA AddDateOffset ==
  ASSUME NEW z \in Zones, NEW t \in Int, NEW n \in Int
  PROVE  \E o \in {z.first, z.then} : AddDate(z, t, n) = ((t + OffsetAt(z, t)) + n * HoursPerDay) - o
<1>1. LocalDate(z, t) \in Int /\ LocalHour(z, t) \in Int /\ HoursPerDay \in Int
  BY CalendarTypes, CalendarAssumption
<1>2. PICK o \in {z.first, z.then} :
        AddDate(z, t, n) = ((LocalDate(z, t) + n) * HoursPerDay + LocalHour(z, t)) - o
  <2>1. LocalDate(z, t) + n \in Int
    BY <1>1
  <2>. QED
    BY <1>1, <2>1, GoDateOffset DEF AddDate
<1>3. (LocalDate(z, t) + n) * HoursPerDay + LocalHour(z, t)
        = (LocalDate(z, t) * HoursPerDay + LocalHour(z, t)) + n * HoursPerDay
  <2>1. \A d, h, k \in Int : (d + n) * k + h = (d * k + h) + n * k
    OBVIOUS
  <2>. QED
    BY <1>1, <2>1
<1>4. LocalDate(z, t) * HoursPerDay + LocalHour(z, t) = t + OffsetAt(z, t)
  BY CalendarTypes
<1>. QED
  BY <1>2, <1>3, <1>4

\* What a sweep archives is RetentionDays full days old: the second branch of
\* archiveCutoff makes up for a day that was shorter.
LEMMA CutoffOld ==
  ASSUME NEW z \in ZoneSet, ShiftsSmall, NEW t \in Int
  PROVE  ArchiveCutoff(z, t) <= t - RetentionDays * HoursPerDay
<1>. DEFINE H == HoursPerDay
            R == RetentionDays
            m == LocalMidnight(z, t)
            c == AddDate(z, m, -R)
            e == AddDate(z, m, -R - 1)
            d == LocalDate(z, t) * H
<1>1. z \in Zones /\ z.first \in Int /\ z.then \in Int /\ H \in Int /\ R \in Int
  BY ArchiverAssumption, CalendarAssumption, CalendarTypes
<1>2. 2 * (z.then - z.first) <= H /\ 2 * (z.first - z.then) <= H
  BY DEF ShiftsSmall
<1>3. /\ OffsetAt(z, t) \in {z.first, z.then} /\ m \in Int /\ OffsetAt(z, m) \in {z.first, z.then}
      /\ LocalDate(z, t) \in Int /\ LocalHour(z, t) \in 0 .. H - 1
      /\ d + LocalHour(z, t) = t + OffsetAt(z, t)
  BY <1>1, CalendarTypes
<1>4. PICK o1 \in {z.first, z.then} : m = (d + 0) - o1
  <2>1. \E o \in {z.first, z.then} : GoDate(z, LocalDate(z, t), 0) = (LocalDate(z, t) * HoursPerDay + 0) - o
    BY <1>1, <1>3, GoDateOffset
  <2>. QED
    BY <2>1 DEF LocalMidnight
<1>5. PICK o2 \in {z.first, z.then} : e = ((m + OffsetAt(z, m)) + (-R - 1) * H) - o2
  <2>1. -R - 1 \in Int
    BY <1>1
  <2>. QED
    BY <1>1, <1>3, <2>1, AddDateOffset
<1>6. (-R - 1) * H = -(R * H) - H /\ R * H \in Int
  BY <1>1
<1>7. ArchiveCutoff(z, t) = IF c > t - R * H THEN e ELSE c
  BY DEF ArchiveCutoff
<1>8. c \in Int /\ d \in Int
  <2>1. -R \in Int
    BY <1>1
  <2>2. \A u, n \in Int : AddDate(z, u, n) \in Int
    BY <1>1, CalendarTypes
  <2>3. c \in Int
    BY <1>3, <2>1, <2>2
  <2>4. d \in Int
    BY <1>1, <1>3
  <2>. QED
    BY <2>3, <2>4
<1>. DEFINE p == R * H
            q == (-R - 1) * H
<1>. HIDE DEF H, R, m, c, e, d, p, q
<1>9. q = -p - H /\ p \in Int
  BY <1>6 DEF p, q
<1>10. e = ((m + OffsetAt(z, m)) + q) - o2
  BY <1>5 DEF q
<1>11. e <= t - p
  BY <1>1, <1>2, <1>3, <1>4, <1>8, <1>9, <1>10
<1>12. ArchiveCutoff(z, t) = IF c > t - p THEN e ELSE c
  BY <1>7 DEF p
<1>13. ArchiveCutoff(z, t) <= t - p
  BY <1>8, <1>9, <1>11, <1>12
<1>. QED
  BY <1>13 DEF p, H, R

\* No local midnight is skipped or repeated, and the offset does not change from
\* one side of UTC to the other.
Regular(z) ==
  /\ \A n \in Int : /\ ~(z.at + z.first <= n * HoursPerDay /\ n * HoursPerDay < z.at + z.then)
                    /\ ~(z.at + z.then <= n * HoursPerDay /\ n * HoursPerDay < z.at + z.first)
  /\ \A n \in Int : ~(z.first < n * HoursPerDay /\ n * HoursPerDay < z.then)

\* The local midnight of a date, and what the clock on the wall shows.
Midnight(z, d) == GoDate(z, d, 0)
Wall(z, t)     == t + OffsetAt(z, t)

LEMMA MidnightOnTheWall ==
  ASSUME NEW z \in Zones, Regular(z), NEW d \in Int
  PROVE  Midnight(z, d) \in Int /\ Wall(z, Midnight(z, d)) = d * HoursPerDay
<1>. DEFINE p == d * HoursPerDay
            a == z.at
            f == z.first
            n == z.then
<1>1. a \in Int /\ f \in Int /\ n \in Int /\ p \in Int
  BY CalendarTypes, CalendarAssumption
<1>2. ~(a + f <= p /\ p < a + n) /\ ~(a + n <= p /\ p < a + f)
  BY DEF Regular
<1>3. \A t : OffsetAt(z, t) = IF t < a THEN f ELSE n
  BY DEF OffsetAt
<1>4. p + 0 = p
  BY <1>1
<1>5. Midnight(z, d) = IF (p - OffsetAt(z, p) < a) = (p < a) THEN p - OffsetAt(z, p)
                       ELSE p - OffsetAt(z, p - OffsetAt(z, p))
  BY <1>4 DEF Midnight, GoDate
<1>. HIDE DEF p, a, f, n
<1>. DEFINE m == Midnight(z, d)
<1>6. CASE p < a
  <2>1. OffsetAt(z, p) = f
    BY <1>3, <1>6
  <2>2. CASE p - f < a
    <3>1. m = p - f /\ OffsetAt(z, p - f) = f
      BY <1>3, <1>5, <1>6, <2>1, <2>2
    <3>. QED
      BY <1>1, <3>1 DEF Wall, p
  <2>3. CASE ~(p - f < a)
    <3>1. m = p - n
      BY <1>3, <1>5, <1>6, <2>1, <2>3
    <3>2. ~(p - n < a)
      BY <1>1, <1>2, <2>3
    <3>3. OffsetAt(z, p - n) = n
      BY <1>3, <3>2
    <3>. QED
      BY <1>1, <3>1, <3>3 DEF Wall, p
  <2>. QED
    BY <2>2, <2>3
<1>7. CASE ~(p < a)
  <2>1. OffsetAt(z, p) = n
    BY <1>3, <1>7
  <2>2. CASE ~(p - n < a)
    <3>1. m = p - n /\ OffsetAt(z, p - n) = n
      BY <1>3, <1>5, <1>7, <2>1, <2>2
    <3>. QED
      BY <1>1, <3>1 DEF Wall, p
  <2>3. CASE p - n < a
    <3>1. m = p - f
      BY <1>3, <1>5, <1>7, <2>1, <2>3
    <3>2. p - f < a
      BY <1>1, <1>2, <2>3
    <3>3. OffsetAt(z, p - f) = f
      BY <1>3, <3>2
    <3>. QED
      BY <1>1, <3>1, <3>3 DEF Wall, p
  <2>. QED
    BY <2>2, <2>3
<1>. QED
  BY <1>6, <1>7

\* An instant is after the midnight of a date if the wall clock is.
LEMMA MidnightBefore ==
  ASSUME NEW z \in Zones, Regular(z), NEW d \in Int, NEW t \in Int
  PROVE  Midnight(z, d) <= t <=> d * HoursPerDay <= Wall(z, t)
<1>. DEFINE p == d * HoursPerDay
            a == z.at
            f == z.first
            n == z.then
            m == Midnight(z, d)
<1>1. a \in Int /\ f \in Int /\ n \in Int /\ p \in Int
  BY CalendarTypes, CalendarAssumption
<1>2. ~(a + f <= p /\ p < a + n) /\ ~(a + n <= p /\ p < a + f)
  BY DEF Regular
<1>3. \A x : Wall(z, x) = IF x < a THEN x + f ELSE x + n
  BY DEF OffsetAt, Wall
<1>4. m \in Int /\ p = IF m < a THEN m + f ELSE m + n
  BY <1>3, MidnightOnTheWall
<1>. HIDE DEF p, a, f, n, m
<1>5. Wall(z, t) = IF t < a THEN t + f ELSE t + n
  BY <1>3
<1>. DEFINE w == Wall(z, t)
<1>. HIDE DEF w
<1>6. m <= t <=> p <= w
  BY <1>1, <1>2, <1>4, <1>5 DEF w
<1>. QED
  BY <1>6 DEF p, m, w

\* The next date begins one AddDate later.
LEMMA NextMidnight ==
  ASSUME NEW z \in Zones, Regular(z), NEW d \in Int
  PROVE  AddDate(z, Midnight(z, d), 1) = Midnight(z, d + 1)
<1>. DEFINE m == Midnight(z, d)
<1>1. m \in Int /\ m + OffsetAt(z, m) = d * HoursPerDay
  BY MidnightOnTheWall DEF Wall
<1>2. (d * HoursPerDay) \div HoursPerDay = d /\ (d * HoursPerDay) % HoursPerDay = 0
  <2>1. \A h \in Nat \ {0} : (d * h) \div h = d /\ (d * h) % h = 0
    OBVIOUS
  <2>. QED
    BY <2>1, CalendarAssumption
<1>3. LocalDate(z, m) = d /\ LocalHour(z, m) = 0
  BY <1>1, <1>2 DEF LocalDate, LocalHour
<1>. QED
  BY <1>3 DEF AddDate, Midnight

\* A date has hardly less hours than a UTC date.
LEMMA TwoMidnights ==
  ASSUME NEW z \in Zones, Regular(z), NEW d \in Int, NEW k \in Int,
         k * HoursPerDay < Midnight(z, d + 1)
  PROVE  (k + 1) * HoursPerDay <= Midnight(z, d + 2)
<1>. DEFINE H == HoursPerDay
            m1 == Midnight(z, d + 1)
            m2 == Midnight(z, d + 2)
            o1 == OffsetAt(z, m1)
            o2 == OffsetAt(z, m2)
            p == (d + 1) * H
            u == k * H
            j == (d + 1) - k
<1>1. d + 1 \in Int /\ d + 2 \in Int /\ j \in Int /\ H \in Int /\ H > 0
  BY CalendarAssumption
<1>2. m1 \in Int /\ m2 \in Int /\ m1 + o1 = p /\ m2 + o2 = (d + 2) * H
  BY <1>1, MidnightOnTheWall DEF Wall
<1>3. (d + 2) * H = p + H /\ (k + 1) * H = u + H /\ j * H = p - u /\ p \in Int /\ u \in Int
  BY <1>1
<1>4. /\ z.first \in Int /\ z.then \in Int /\ z.at \in Int
      /\ o1 = IF m1 < z.at THEN z.first ELSE z.then
      /\ o2 = IF m2 < z.at THEN z.first ELSE z.then
  BY CalendarTypes DEF OffsetAt
<1>5. ~(z.first < j * H /\ j * H < z.then)
  BY <1>1 DEF Regular
<1>6. m1 <= m2
  <2>1. p <= Wall(z, m2)
    BY <1>1, <1>2, <1>3 DEF Wall
  <2>. QED
    BY <1>1, <1>2, <2>1, MidnightBefore
<1>. HIDE DEF H, m1, m2, o1, o2, p, u, j
<1>7. u < m1
  BY DEF u, m1, H
<1>. DEFINE w == j * H
            x == (d + 2) * H
            y == (k + 1) * H
<1>8. w = p - u /\ x = p + H /\ y = u + H
  BY <1>3
<1>9. m2 + o2 = x /\ ~(z.first < w /\ w < z.then)
  BY <1>2, <1>5
<1>. HIDE DEF w, x, y
<1>10. y <= m2
  BY <1>1, <1>2, <1>3, <1>4, <1>6, <1>7, <1>8, <1>9
<1>. QED
  BY <1>10 DEF y, m2, H

\* The listed days cover every expired time: of a UTC date with such a time, the
\* local date in which it begins and the next one do.
LEMMA DaysCover ==
  ASSUME NEW z \in Zones, Regular(z), NEW times, times \subseteq Int, NEW c \in Int,
         NEW t \in times, t < c
  PROVE  \E d \in ExpiredDays(z, times, c) : d <= t /\ t < DayEnd(z, d, c)
<1>. DEFINE k == t \div HoursPerDay
            u == k * HoursPerDay
            d == LocalDate(z, u)
            start(v) == {LocalMidnight(z, v), AddDate(z, LocalMidnight(z, v), 1)}
            utc == {(s \div HoursPerDay) * HoursPerDay : s \in {v \in times : v < c}}
<1>1. k \in Int /\ u \in Int /\ u <= t /\ t < u + HoursPerDay /\ t \in Int
  <2>1. \A h \in Nat \ {0}, s \in Int : /\ s \div h \in Int /\ (s \div h) * h \in Int
                                        /\ (s \div h) * h <= s /\ s < (s \div h) * h + h
    OBVIOUS
  <2>. QED
    BY <2>1, CalendarAssumption
<1>2. u \in utc
  OBVIOUS
<1>3. d \in Int /\ LocalHour(z, u) \in 0 .. HoursPerDay - 1
      /\ d * HoursPerDay + LocalHour(z, u) = Wall(z, u)
  BY <1>1, CalendarTypes DEF Wall
<1>4. LocalMidnight(z, u) = Midnight(z, d) /\ AddDate(z, LocalMidnight(z, u), 1) = Midnight(z, d + 1)
  BY <1>3, NextMidnight DEF LocalMidnight, Midnight
<1>5. \A e \in {Midnight(z, d), Midnight(z, d + 1)} : e < c => e \in ExpiredDays(z, times, c)
  <2>1. ExpiredDays(z, times, c) = {e \in UNION {start(v) : v \in utc} : e < c}
    BY DEF ExpiredDays
  <2>2. start(u) \in {start(v) : v \in utc}
    BY <1>2
  <2>3. start(u) = {Midnight(z, d), Midnight(z, d + 1)}
    BY <1>4
  <2>. HIDE DEF start, utc
  <2>. QED
    BY <2>1, <2>2, <2>3
<1>6. d + 1 \in Int /\ d + 2 \in Int /\ HoursPerDay \in Nat \ {0}
  BY <1>3, CalendarAssumption
<1>7. Midnight(z, d) \in Int /\ Midnight(z, d + 1) \in Int /\ Midnight(z, d + 2) \in Int
  BY <1>3, <1>6, MidnightOnTheWall
<1>8. Midnight(z, d) <= u
  <2>1. d * HoursPerDay <= Wall(z, u)
    <3>1. d * HoursPerDay \in Int
      BY <1>3, <1>6
    <3>. QED
      BY <1>3, <3>1, <1>6
  <2>. QED
    BY <1>1, <1>3, <2>1, MidnightBefore
<1>9. u < Midnight(z, d + 1)
  <2>1. ~((d + 1) * HoursPerDay <= Wall(z, u))
    <3>1. (d + 1) * HoursPerDay = d * HoursPerDay + HoursPerDay /\ d * HoursPerDay \in Int
      BY <1>3, <1>6
    <3>. QED
      BY <1>3, <3>1, <1>6
  <2>2. ~(Midnight(z, d + 1) <= u)
    BY <1>1, <1>6, <2>1, MidnightBefore
  <2>. QED
    BY <1>1, <1>7, <2>2
<1>10. u + HoursPerDay <= Midnight(z, d + 2)
  <2>1. (k + 1) * HoursPerDay <= Midnight(z, d + 2)
    BY <1>1, <1>3, <1>9, TwoMidnights
  <2>2. (k + 1) * HoursPerDay = u + HoursPerDay
    BY <1>1, <1>6
  <2>. QED
    BY <2>1, <2>2
<1>11. \A e : DayEnd(z, e, c) = IF AddDate(z, e, 1) > c THEN c ELSE AddDate(z, e, 1)
  BY DEF DayEnd
<1>12. AddDate(z, Midnight(z, d), 1) = Midnight(z, d + 1)
       /\ AddDate(z, Midnight(z, d + 1), 1) = Midnight(z, d + 2)
  <2>1. AddDate(z, Midnight(z, d + 1), 1) = Midnight(z, (d + 1) + 1) /\ (d + 1) + 1 = d + 2
    BY <1>3, <1>6, NextMidnight
  <2>. QED
    BY <1>3, <2>1, NextMidnight
<1>. HIDE DEF k, u, d
<1>13. CASE t < Midnight(z, d + 1)
  <2>1. Midnight(z, d) <= t /\ Midnight(z, d) < c
    BY <1>1, <1>7, <1>8
  <2>2. t < DayEnd(z, Midnight(z, d), c)
    BY <1>11, <1>12, <1>13
  <2>. QED
    BY <1>5, <2>1, <2>2
<1>14. CASE ~(t < Midnight(z, d + 1))
  <2>1. Midnight(z, d + 1) <= t /\ Midnight(z, d + 1) < c
    BY <1>1, <1>7, <1>14
  <2>2. t < Midnight(z, d + 2)
    BY <1>1, <1>6, <1>7, <1>10
  <2>3. t < DayEnd(z, Midnight(z, d + 1), c)
    BY <1>11, <1>12, <2>2
  <2>. QED
    BY <1>5, <2>1, <2>3
<1>. QED
  BY <1>13, <1>14

\* Finitely many times make finitely many days.
LEMMA DaysFinite ==
  ASSUME NEW z, NEW times, IsFiniteSet(times), NEW c
  PROVE  IsFiniteSet(ExpiredDays(z, times, c))
<1>. DEFINE old == {v \in times : v < c}
            f == [t \in old |-> LocalMidnight(z, (t \div HoursPerDay) * HoursPerDay)]
            g == [t \in old |-> AddDate(z, LocalMidnight(z, (t \div HoursPerDay) * HoursPerDay), 1)]
            E == ExpiredDays(z, times, c)
<1>1. IsFiniteSet(old)
  <2>1. old \in SUBSET times
    OBVIOUS
  <2>. QED
    BY <2>1, FS_Subset
<1>2. IsFiniteSet({f[t] : t \in old}) /\ IsFiniteSet({g[t] : t \in old})
  BY <1>1, FiniteValues
<1>3. IsFiniteSet({f[t] : t \in old} \cup {g[t] : t \in old})
  BY <1>2, FS_Union
<1>4. E \subseteq {f[t] : t \in old} \cup {g[t] : t \in old}
  BY DEF ExpiredDays
<1>5. E \in SUBSET ({f[t] : t \in old} \cup {g[t] : t \in old})
  BY <1>4
<1>. HIDE DEF f, g, old, E
<1>. QED
  BY <1>3, <1>5, FS_Subset DEF E

-----------------------------------------------------------------------------
(* What a sweep takes out of the raw tables. *)

\* A day of the sweep has begun and is not committed, or is next.
Sweeping == {"day", "aggregate", "delete", "commit"}

\* A sweep under way has days to do, and its cutoff is RetentionDays full days ago.
SweepInv ==
  /\ IsFiniteSet(days)
  /\ pc \in Sweeping => days # {} /\ cutoff <= now - RetentionDays * HoursPerDay

LEMMA DayEndBefore ==
  ASSUME NEW z \in Zones, NEW d \in Int, NEW c \in Int
  PROVE  DayEnd(z, d, c) <= c /\ DayEnd(z, d, c) \in Int
<1>1. AddDate(z, d, 1) \in Int
  BY CalendarTypes
<1>2. DayEnd(z, d, c) = IF AddDate(z, d, 1) > c THEN c ELSE AddDate(z, d, 1)
  BY DEF DayEnd
<1>. QED
  BY <1>1, <1>2

\* A sweep begins with finitely many days and an old cutoff.
LEMMA SweepBegins ==
  ASSUME ShiftsSmall, IInv, ClockInv, BeginSweep
  PROVE  SweepInv'
<1>1. raw \subseteq Rows /\ zone \in ZoneSet /\ now \in Int /\ now' = now
  BY DEF IInv, TablesInv, ClockInv, BeginSweep
<1>2. cutoff' = ArchiveCutoff(zone, now) /\ pc' = IF days' = {} THEN "record" ELSE "day"
  BY DEF BeginSweep
<1>3. days' = ExpiredDays(zone, {Time[r] : r \in raw}, cutoff')
  BY DEF BeginSweep
<1>4. IsFiniteSet({Time[r] : r \in raw})
  BY <1>1, SomeRows
<1>5. IsFiniteSet(days')
  BY <1>3, <1>4, DaysFinite
<1>6. ArchiveCutoff(zone, now) <= now - RetentionDays * HoursPerDay
  BY <1>1, CutoffOld
<1>7. pc' \in Sweeping => days' # {}
  BY <1>2 DEF Sweeping
<1>8. cutoff' <= now' - RetentionDays * HoursPerDay
  BY <1>1, <1>2, <1>6
<1>. QED
  BY <1>5, <1>7, <1>8 DEF SweepInv

LEMMA SweepInvNext ==
  ASSUME ShiftsSmall, IInv, ClockInv, SweepInv, [Next]_vars
  PROVE  SweepInv'
<1>1. ASSUME NEW r \in Rows, Ingest(r) PROVE SweepInv'
  BY <1>1 DEF Ingest, SweepInv
<1>2. CASE ClockAdvances
  <2>1. UNCHANGED <<days, pc, cutoff>> /\ now' = now + 1 /\ now \in Int /\ cutoff \in Int
    BY <1>2 DEF ClockAdvances, ClockInv
  <2>. DEFINE p == RetentionDays * HoursPerDay
  <2>2. p \in Int
    BY CalendarAssumption
  <2>3. \A c, n \in Int : c <= n - p => c <= (n + 1) - p
    <3>. HIDE DEF p
    <3>. QED
      BY <2>2
  <2>. HIDE DEF p
  <2>4. cutoff <= now - p => cutoff' <= now' - p
    BY <2>1, <2>3
  <2>. QED
    BY <2>1, <2>4 DEF SweepInv, p
<1>3. CASE Cancel
  BY <1>3 DEF Cancel, SweepInv
<1>4. CASE Crash
  BY <1>4, FS_EmptySet DEF Crash, SweepInv, Sweeping
<1>5. CASE BeginSweep
  BY <1>5, SweepBegins
<1>6. CASE LoopEnds
  BY <1>6 DEF LoopEnds, SweepInv, Sweeping
<1>7. CASE BeginDay
  BY <1>7 DEF BeginDay, SweepInv, Sweeping
<1>8. CASE Aggregate
  BY <1>8 DEF Aggregate, SweepInv, Sweeping
<1>9. CASE Delete
  BY <1>9 DEF Delete, SweepInv, Sweeping
<1>10. CASE Commit
  <2>1. /\ days' = days \ {Day} /\ UNCHANGED <<cutoff, now>> /\ pc \in Sweeping
        /\ pc' = IF days' = {} THEN "record" ELSE "day"
    BY <1>10 DEF Commit, Sweeping
  <2>2. IsFiniteSet(days \ {Day})
    BY FS_RemoveElement DEF SweepInv
  <2>. QED
    BY <2>1, <2>2 DEF SweepInv, Sweeping
<1>11. CASE Abort
  BY <1>11, FS_EmptySet DEF Abort, Sleep, SweepInv, Sweeping
<1>12. CASE RecordState
  BY <1>12, FS_EmptySet DEF RecordState, Sleep, SweepInv, Sweeping
<1>13. CASE UNCHANGED vars
  BY <1>13 DEF vars, SweepInv
<1>. QED
  BY <1>1, <1>2, <1>3, <1>4, <1>5, <1>6, <1>7, <1>8, <1>9, <1>10, <1>11, <1>12, <1>13
     DEF Next, Start, TimerFires

\* Of the day in hand: it is one of the days, and it ends by the cutoff.
LEMMA DayInHand ==
  ASSUME IInv, ClockInv, SweepInv, pc \in Sweeping
  PROVE  /\ Day \in days /\ Day \in Int
         /\ \A r \in DayRows(raw) : r \in raw /\ Time[r] < cutoff
<1>1. IsFiniteSet(days) /\ days # {} /\ days \subseteq Int /\ cutoff \in Int /\ zone \in Zones
  BY ArchiverAssumption DEF SweepInv, ClockInv
<1>2. Day \in days /\ Day \in Int
  BY <1>1, MinOf DEF Day
<1>3. DayEnd(zone, Day, cutoff) <= cutoff /\ DayEnd(zone, Day, cutoff) \in Int
  BY <1>1, <1>2, DayEndBefore
<1>4. \A r \in DayRows(raw) : r \in raw /\ Time[r] < DayEnd(zone, Day, cutoff)
  BY DEF DayRows, InDay
<1>5. \A r \in raw : Time[r] \in Int
  BY RowTypes DEF IInv, TablesInv
<1>6. \A r \in DayRows(raw) : Time[r] < cutoff
  <2>1. \A x, y, c \in Int : x < y /\ y <= c => x < c
    OBVIOUS
  <2>. QED
    BY <1>1, <1>3, <1>4, <1>5, <2>1
<1>. QED
  BY <1>2, <1>4, <1>6

\* A row leaves the raw tables only when it is older than RetentionDays full days,
\* also after a change of the clocks: archiveCutoff takes one more day when the
\* days since were short, and archiveDay deletes nothing from the cutoff on.
THEOREM RetentionKeptHolds == ASSUME ShiftsSmall PROVE Spec => RetentionKept
<1>. DEFINE Old == \A r \in raw \ raw' : now - Time[r] > RetentionDays * HoursPerDay
<1>1. Init => SweepInv
  BY FS_EmptySet DEF Init, SweepInv, Sweeping
<1>2. (IInv /\ Served /\ ClockInv) /\ SweepInv /\ [Next]_vars => SweepInv'
  BY SweepInvNext
<1>3. ASSUME IInv, Served, ClockInv, SweepInv, [Next]_vars PROVE [Old]_vars
  <2>1. CASE UNCHANGED vars
    BY <2>1
  <2>2. ASSUME NEW r \in Rows, Ingest(r) PROVE Old
    BY <2>2 DEF Ingest
  <2>3. CASE Commit
    <3>1. pc \in Sweeping /\ raw' = raw \ DayRows(raw)
      BY <1>3, <2>3 DEF Commit, Sweeping, Served
    <3>2. \A r \in raw \ raw' : r \in raw /\ Time[r] < cutoff
      BY <1>3, <3>1, DayInHand
    <3>3. cutoff <= now - RetentionDays * HoursPerDay /\ cutoff \in Int /\ now \in Int
      BY <1>3, <3>1 DEF SweepInv, ClockInv
    <3>4. \A r \in raw : Time[r] \in Int
      BY <1>3, RowTypes DEF IInv, TablesInv
    <3>. DEFINE p == RetentionDays * HoursPerDay
    <3>5. p \in Int
      BY CalendarAssumption
    <3>6. cutoff <= now - p
      BY <3>3
    <3>. HIDE DEF p
    <3>7. \A r \in raw \ raw' : now - Time[r] > p
      BY <3>2, <3>3, <3>4, <3>5, <3>6
    <3>. QED
      BY <3>7 DEF p
  <2>4. CASE \/ ClockAdvances \/ Cancel \/ Crash \/ BeginSweep \/ LoopEnds \/ BeginDay
             \/ Aggregate \/ Delete \/ Abort \/ RecordState
    <3>1. UNCHANGED raw
      BY <2>4 DEF ClockAdvances, Cancel, Crash, BeginSweep, LoopEnds, BeginDay,
                  Aggregate, Delete, Abort, RecordState
    <3>. QED
      BY <3>1
  <2>. QED
    BY <1>3, <2>1, <2>2, <2>3, <2>4 DEF Next, Start, TimerFires
<1>. QED
  BY <1>1, <1>2, <1>3, ClockHolds, PTL DEF Spec, RetentionKept

\* Of the rows that had expired when the sweep began, those still there are in
\* one of the days to come.
CoverInv ==
  /\ pc \in Sweeping =>
       \A r \in raw \cap listed :
         \E d \in days : d <= Time[r] /\ Time[r] < DayEnd(zone, d, cutoff)
  /\ pc = "record" => raw \cap listed = {}

\* The listed days cover the expired rows.
LEMMA SweepCovers ==
  ASSUME \A z \in ZoneSet : Regular(z), IInv, ClockInv, BeginSweep
  PROVE  CoverInv'
<1>. DEFINE times == {Time[r] : r \in raw}
            c == ArchiveCutoff(zone, now)
<1>1. /\ raw' = raw /\ zone' = zone /\ cutoff' = c /\ days' = ExpiredDays(zone, times, c)
      /\ listed' = {r \in raw : Time[r] < c} /\ pc' = IF days' = {} THEN "record" ELSE "day"
  BY DEF BeginSweep
<1>2. zone \in ZoneSet /\ zone \in Zones /\ now \in Int /\ raw \subseteq Rows
  BY ArchiverAssumption DEF ClockInv, IInv, TablesInv
<1>3. c \in Int /\ times \subseteq Int
  BY <1>2, CalendarTypes, SomeRows
<1>4. ASSUME NEW r \in raw' \cap listed'
      PROVE  \E d \in days' : d <= Time[r] /\ Time[r] < DayEnd(zone', d, cutoff')
  <2>1. Regular(zone) /\ Time[r] \in times /\ Time[r] < c
    BY <1>1, <1>2, <1>4
  <2>. HIDE DEF times, c
  <2>2. \E d \in ExpiredDays(zone, times, c) : d <= Time[r] /\ Time[r] < DayEnd(zone, d, c)
    BY <1>2, <1>3, <2>1, DaysCover
  <2>. QED
    BY <1>1, <2>2
<1>5. pc' = "record" => days' = {}
  BY <1>1
<1>. QED
  BY <1>4, <1>5 DEF CoverInv

\* A commit takes the rows of its day and leaves those of the other days.
LEMMA CommitCovers ==
  ASSUME Served, CoverInv, Commit
  PROVE  CoverInv'
<1>1. /\ pc \in Sweeping /\ raw' = raw \ DayRows(raw) /\ days' = days \ {Day}
      /\ pc' = (IF days' = {} THEN "record" ELSE "day") /\ UNCHANGED <<zone, cutoff, listed>>
  BY DEF Commit, Sweeping, Served
<1>2. ASSUME NEW r \in raw' \cap listed'
      PROVE  \E d \in days' : d <= Time[r] /\ Time[r] < DayEnd(zone', d, cutoff')
  <2>1. r \in raw \cap listed /\ r \notin DayRows(raw)
    BY <1>1
  <2>2. PICK d \in days : d <= Time[r] /\ Time[r] < DayEnd(zone, d, cutoff)
    BY <1>1, <2>1 DEF CoverInv
  <2>3. d # Day
    BY <2>1, <2>2 DEF DayRows, InDay
  <2>. QED
    BY <1>1, <2>2, <2>3
<1>. QED
  BY <1>1, <1>2 DEF CoverInv

LEMMA CoverInvNext ==
  ASSUME \A z \in ZoneSet : Regular(z), IInv, Served, ClockInv, CoverInv, [Next]_vars
  PROVE  CoverInv'
<1>1. ASSUME NEW r \in Rows, Ingest(r) PROVE CoverInv'
  <2>1. /\ UNCHANGED <<pc, days, zone, cutoff, listed>> /\ raw' = raw \cup {r}
        /\ r \notin listed
    BY <1>1 DEF Ingest, ClockInv
  <2>2. raw' \cap listed' = raw \cap listed
    BY <2>1
  <2>. QED
    BY <2>1, <2>2 DEF CoverInv
<1>2. CASE ClockAdvances \/ Cancel \/ UNCHANGED vars
  <2>1. UNCHANGED <<pc, days, zone, cutoff, listed, raw>>
    BY <1>2 DEF ClockAdvances, Cancel, vars
  <2>. QED
    BY <2>1 DEF CoverInv
<1>3. CASE Crash \/ LoopEnds \/ Abort \/ RecordState
  <2>1. pc' \in {"off", "sleep"}
    BY <1>3 DEF Crash, LoopEnds, Abort, RecordState, Sleep
  <2>. QED
    BY <2>1 DEF CoverInv, Sweeping
<1>4. CASE BeginSweep
  BY <1>4, SweepCovers
<1>5. CASE BeginDay \/ Aggregate \/ Delete
  <2>1. /\ UNCHANGED <<days, zone, cutoff, listed, raw>>
        /\ pc \in Sweeping /\ pc' \in Sweeping
    BY <1>5 DEF BeginDay, Aggregate, Delete, Sweeping
  <2>2. pc' # "record"
    BY <2>1 DEF Sweeping
  <2>. QED
    BY <2>1, <2>2 DEF CoverInv
<1>6. CASE Commit
  BY <1>6, CommitCovers
<1>. QED
  BY <1>1, <1>2, <1>3, <1>4, <1>5, <1>6 DEF Next, Start, TimerFires

\* A sweep that ends well has archived every row that was expired when it began:
\* expiredDays lists, for the UTC date of each, the one or two local days that
\* share hours with it, in every zone where each date has its midnight once.
THEOREM SweepCompleteHolds ==
  ASSUME \A z \in ZoneSet : Regular(z) PROVE Spec => []SweepComplete
<1>1. Init => CoverInv
  BY DEF Init, CoverInv, Sweeping
<1>2. (IInv /\ Served /\ ClockInv) /\ CoverInv /\ [Next]_vars => CoverInv'
  BY CoverInvNext
<1>3. CoverInv => SweepComplete
  BY DEF CoverInv, SweepComplete
<1>. QED
  BY <1>1, <1>2, <1>3, ClockHolds, PTL DEF Spec
=============================================================================
