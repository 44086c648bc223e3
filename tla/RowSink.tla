------------------------------ MODULE RowSink ------------------------------
(***************************************************************************)
(* What otlp.Sink promises the dispatcher, abstractly.  Append never       *)
(* blocks on the database and never refuses a row.  Each table's rows are  *)
(* written in the order of their Append calls, each at least once; the     *)
(* rows thrown away for want of room are one older row, when a row         *)
(* arrives, or the newest ones, when a write has failed; and neither a     *)
(* written nor a dropped row is ever taken back.                           *)
(*                                                                         *)
(* A dropped row may still be written: a write that failed half-way can    *)
(* leave it with the database, which completes it with a later one.        *)
(***************************************************************************)
EXTENDS Naturals

CONSTANTS Tables

VARIABLES
  accepted,   \* per table, the number of rows appended so far: rows 1 .. accepted
  written,    \* per table, the rows its table in the database holds
  lost        \* per table, the rows dropped

vars == <<accepted, written, lost>>

Init ==
  /\ accepted = [tb \in Tables |-> 0]
  /\ written = [tb \in Tables |-> {}]
  /\ lost = [tb \in Tables |-> {}]

\* One more row; at the limit it pushes out an older one.
Append(tb) ==
  /\ accepted' = [accepted EXCEPT ![tb] = @ + 1]
  /\ \E victims \in {{}} \cup {{n} : n \in 1 .. accepted[tb]} :
       lost' = [lost EXCEPT ![tb] = @ \cup victims]
  /\ UNCHANGED written

\* Everything up to row k that was not dropped is written, and with it any
\* dropped rows the database still had.
Write(tb) ==
  /\ \E k \in 0 .. accepted[tb], late \in SUBSET lost[tb] :
       written' = [written EXCEPT ![tb] = @ \cup ((1 .. k) \ lost[tb]) \cup late]
  /\ UNCHANGED <<accepted, lost>>

\* The newest rows give way to a batch that could not be written.
DropNewest(tb) ==
  /\ \E k \in 0 .. accepted[tb] :
       lost' = [lost EXCEPT ![tb] = @ \cup ((k + 1) .. accepted[tb])]
  /\ UNCHANGED <<accepted, written>>

Next == \E tb \in Tables : Append(tb) \/ Write(tb) \/ DropNewest(tb)

Spec == Init /\ [][Next]_vars
=============================================================================
