---------------------------- MODULE TableBuffer ----------------------------
(***************************************************************************)
(* One table's in-memory FIFO with size-bounded backpressure               *)
(* (internal/store/buffer.go).  Every method of the Go type holds b.mu for *)
(* its whole body, so a method is one operator from a buffer to a buffer,  *)
(* and a caller's step applies it atomically.                              *)
(*                                                                         *)
(* A row is the number of the Append call that brought it: row n is the    *)
(* n-th row this table accepted.  Its payload is abstracted.               *)
(***************************************************************************)
EXTENDS Naturals, Sequences

CONSTANTS
  HardLimit,    \* ingest.buffer_hard_limit; 0 means no limit
  MaxErrors     \* bound: FlushErrors saturates here

ASSUME BufferAssumption == /\ HardLimit \in Nat
                           /\ MaxErrors \in Nat \ {0}

(* rows is the FIFO, drops is dropsSinceFlush, the rest is BufferMetrics. *)
TableBuffers == [rows : Seq(Nat), drops : Nat,
                 appended : Nat, flushed : Nat, dropped : Nat, errors : Nat]

NewTableBuffer == [rows |-> << >>, drops |-> 0,
                   appended |-> 0, flushed |-> 0, dropped |-> 0, errors |-> 0]

SeqElems(s) == {s[i] : i \in DOMAIN s}

-----------------------------------------------------------------------------
(* Append: at the limit the oldest row makes room for the new one. *)

AtLimit(b) == HardLimit > 0 /\ Len(b.rows) >= HardLimit

\* The rows an Append throws away.
Evicted(b) == IF AtLimit(b) THEN {Head(b.rows)} ELSE {}

Enqueue(b, row) ==
  IF AtLimit(b)
  THEN [b EXCEPT !.rows = Append(Tail(b.rows), row), !.appended = @ + 1,
                 !.drops = @ + 1, !.dropped = @ + 1]
  ELSE [b EXCEPT !.rows = Append(b.rows, row), !.appended = @ + 1]

-----------------------------------------------------------------------------
(* PopAll: the caller receives b.rows and b.drops; both start over. *)

PopAll(b) == [b EXCEPT !.rows = << >>, !.drops = 0]

-----------------------------------------------------------------------------
(* Pushback: a failed batch returns to the head; what exceeds the limit is *)
(* cut from the tail, where the newest rows are.                           *)

Merged(b, batch) == batch \o b.rows

Excess(b, batch) ==
  IF HardLimit > 0 /\ Len(Merged(b, batch)) > HardLimit
  THEN Len(Merged(b, batch)) - HardLimit ELSE 0

\* Mutant: the oldest rows, those of the failed batch, are cut instead.
KeepNewest(b, batch) ==
  SubSeq(Merged(b, batch), Excess(b, batch) + 1, Len(Merged(b, batch)))

KeptOf(b, batch) == SubSeq(Merged(b, batch), 1, Len(Merged(b, batch)) - Excess(b, batch))

\* The rows a Pushback throws away.
CutOff(b, batch) == SeqElems(Merged(b, batch)) \ SeqElems(KeptOf(b, batch))

\* Mutants: the batch goes to the tail; the cut is not counted.
PushbackAtTail(b, batch) == [b EXCEPT !.rows = b.rows \o batch]

PushbackUncounted(b, batch) == [b EXCEPT !.rows = KeptOf(b, batch)]

Pushback(b, batch) ==
  IF batch = << >> THEN b
  ELSE [b EXCEPT !.rows = KeptOf(b, batch),
                 !.drops = @ + Excess(b, batch),
                 !.dropped = @ + Excess(b, batch)]

-----------------------------------------------------------------------------
AddFlushed(b, n) == [b EXCEPT !.flushed = @ + n]

AddFlushError(b) == [b EXCEPT !.errors = IF @ < MaxErrors THEN @ + 1 ELSE @]

PendingLen(b) == Len(b.rows)
=============================================================================
