------------------------ MODULE BufferedWriterProofs ------------------------
(***************************************************************************)
(* The buffered writer, for any number of handlers, tables and rows.       *)
(*                                                                         *)
(* First what each operation of a TableBuffer returns, for every buffer    *)
(* and every limit.  Then the writer: its locks, and what the rows of a    *)
(* table are doing.  Last the order of the rows, and that BufferedWriter   *)
(* implements RowSink: a step of the writer is first read as a step of     *)
(* each table (TableSteps), and the invariant is then about one table's    *)
(* data alone.                                                             *)
(***************************************************************************)
EXTENDS BufferedWriter, FiniteProofs, SequenceTheorems, FiniteSetTheorems, TLAPS

\* Len under a name of its own: the arithmetic steps need no fact about
\* sequences, and the provers are lost among those facts when they see Len.
Size(s) == Len(s)

LEMMA SizeOfEmpty == Size(<< >>) = 0
BY DEF Size

LEMMA SizeType == ASSUME NEW S, NEW s \in Seq(S) PROVE Size(s) \in Nat
BY DEF Size

\* A new buffer is a buffer.
LEMMA NewTableBufferType == NewTableBuffer \in TableBuffers
<1>. << >> \in Seq(Nat)
  OBVIOUS
<1>. QED
  BY DEF NewTableBuffer, TableBuffers

\* The fields of a buffer.
LEMMA BufferFields ==
  ASSUME NEW b \in TableBuffers
  PROVE  /\ b.rows \in Seq(Nat) /\ Len(b.rows) \in Nat /\ Size(b.rows) \in Nat
         /\ b.drops \in Nat /\ b.appended \in Nat /\ b.flushed \in Nat
         /\ b.dropped \in Nat /\ b.errors \in Nat
BY DEF TableBuffers, Size

-----------------------------------------------------------------------------
\* The books of a buffer of z rows, d drops ever and s drops since the report,
\* after one append that evicts a row and after one that does not.
LEMMA AppendArithmetic ==
  \A z, d, s \in Nat : /\ (d + 1) + s = (s + 1) + d
                       /\ d + s = s + d
                       /\ z + (d + 1) = z + 1 + d
OBVIOUS

\* Append (buffer.go): one more row is counted as appended, one is evicted and
\* counted twice (Dropped, dropsSinceFlush) exactly when the buffer was at its
\* limit, and the limit holds after it if it held before.
LEMMA EnqueueEffect ==
  ASSUME NEW b \in TableBuffers, NEW row \in Nat
  PROVE  /\ Enqueue(b, row) \in TableBuffers
         /\ Enqueue(b, row).appended = b.appended + 1
         /\ Enqueue(b, row).flushed = b.flushed
         /\ Enqueue(b, row).errors = b.errors
         /\ Enqueue(b, row).dropped + b.drops = Enqueue(b, row).drops + b.dropped
         /\ Size(Enqueue(b, row).rows) + Enqueue(b, row).dropped
              = Size(b.rows) + 1 + b.dropped
         /\ (HardLimit > 0 /\ Size(b.rows) <= HardLimit) =>
              Size(Enqueue(b, row).rows) <= HardLimit
         /\ Evicted(b) \subseteq Nat
<1>. USE BufferAssumption
<1>0. /\ b.rows \in Seq(Nat) /\ Len(b.rows) \in Nat
      /\ b.drops \in Nat /\ b.appended \in Nat /\ b.dropped \in Nat
      /\ b.drops + 1 \in Nat /\ b.appended + 1 \in Nat /\ b.dropped + 1 \in Nat
  BY BufferFields
<1>1. CASE AtLimit(b)
  <2>1. b.rows # << >>
    BY <1>0, <1>1 DEF AtLimit
  <2>2. /\ Tail(b.rows) \in Seq(Nat)
        /\ Len(Tail(b.rows)) = Len(b.rows) - 1
        /\ Head(b.rows) \in Nat
    BY <1>0, <2>1
  <2>3. /\ Append(Tail(b.rows), row) \in Seq(Nat)
        /\ Len(Append(Tail(b.rows), row)) = Len(b.rows)
    BY <1>0, <2>2
  <2>4. Enqueue(b, row) = [b EXCEPT !.rows = Append(Tail(b.rows), row),
                                    !.appended = b.appended + 1,
                                    !.drops = b.drops + 1,
                                    !.dropped = b.dropped + 1]
    BY <1>1 DEF Enqueue
  <2>5. Enqueue(b, row) \in TableBuffers
    BY <1>0, <2>3, <2>4 DEF TableBuffers
  <2>6. /\ Len(Enqueue(b, row).rows) = Len(b.rows)
        /\ Enqueue(b, row).appended = b.appended + 1
        /\ Enqueue(b, row).flushed = b.flushed
        /\ Enqueue(b, row).errors = b.errors
        /\ Enqueue(b, row).dropped = b.dropped + 1
        /\ Enqueue(b, row).drops = b.drops + 1
    BY <2>3, <2>4 DEF TableBuffers
  <2>7. Evicted(b) \subseteq Nat
    BY <1>1, <2>2 DEF Evicted
  <2>8. /\ Enqueue(b, row).dropped + b.drops = Enqueue(b, row).drops + b.dropped
        /\ Len(Enqueue(b, row).rows) + Enqueue(b, row).dropped
             = Len(b.rows) + 1 + b.dropped
    <3>1. /\ b.dropped \in Nat /\ b.drops \in Nat /\ Len(b.rows) \in Nat
      BY <1>0
    <3>2. /\ (b.dropped + 1) + b.drops = (b.drops + 1) + b.dropped
          /\ Len(b.rows) + (b.dropped + 1) = Len(b.rows) + 1 + b.dropped
      BY <3>1, AppendArithmetic, Zenon
    <3>. QED
      BY <2>6, <3>2, Zenon
  <2>9. (HardLimit > 0 /\ Len(b.rows) <= HardLimit) => Len(Enqueue(b, row).rows) <= HardLimit
    BY <2>6, Zenon
  <2>. QED
    BY <2>5, <2>6, <2>7, <2>8, <2>9, Zenon DEF Size
<1>2. CASE ~AtLimit(b)
  <2>1. /\ Append(b.rows, row) \in Seq(Nat)
        /\ Len(Append(b.rows, row)) = Len(b.rows) + 1
    BY <1>0
  <2>2. Enqueue(b, row) = [b EXCEPT !.rows = Append(b.rows, row),
                                    !.appended = b.appended + 1]
    BY <1>2 DEF Enqueue
  <2>3. Enqueue(b, row) \in TableBuffers
    BY <1>0, <2>1, <2>2 DEF TableBuffers
  <2>4. /\ Len(Enqueue(b, row).rows) = Len(b.rows) + 1
        /\ Enqueue(b, row).appended = b.appended + 1
        /\ Enqueue(b, row).flushed = b.flushed
        /\ Enqueue(b, row).errors = b.errors
        /\ Enqueue(b, row).dropped = b.dropped
        /\ Enqueue(b, row).drops = b.drops
    BY <2>1, <2>2 DEF TableBuffers
  <2>5. Evicted(b) \subseteq Nat
    BY <1>2 DEF Evicted
  <2>6. b.dropped + b.drops = b.drops + b.dropped
    BY <1>0, AppendArithmetic, Zenon
  <2>7. (HardLimit > 0 /\ Len(b.rows) <= HardLimit) => Len(b.rows) + 1 <= HardLimit
    BY <1>0, <1>2 DEF AtLimit
  <2>. QED
    BY <2>3, <2>4, <2>5, <2>6, <2>7, Zenon DEF Size
<1>. QED
  BY <1>1, <1>2

\* Append lengthens the queue by at most one.
LEMMA EnqueueLength ==
  ASSUME NEW b \in TableBuffers, NEW row \in Nat
  PROVE  Size(Enqueue(b, row).rows) <= Size(b.rows) + 1
<1>1. b.rows \in Seq(Nat) /\ Len(b.rows) \in Nat
  BY BufferFields
<1>2. CASE AtLimit(b)
  <2>1. b.rows # << >>
    BY <1>1, <1>2, BufferAssumption DEF AtLimit
  <2>2. Tail(b.rows) \in Seq(Nat) /\ Len(Tail(b.rows)) = Len(b.rows) - 1
    BY <1>1, <2>1
  <2>3. Enqueue(b, row).rows = Append(Tail(b.rows), row)
    BY <1>2 DEF Enqueue, TableBuffers
  <2>4. Len(Append(Tail(b.rows), row)) = Len(b.rows)
    BY <1>1, <2>2
  <2>5. Len(b.rows) <= Len(b.rows) + 1
    BY <1>1
  <2>. QED
    BY <2>3, <2>4, <2>5, Zenon DEF Size
<1>3. CASE ~AtLimit(b)
  <2>1. Enqueue(b, row).rows = Append(b.rows, row)
    BY <1>3 DEF Enqueue, TableBuffers
  <2>2. Len(Append(b.rows, row)) = Len(b.rows) + 1 /\ Len(b.rows) + 1 <= Len(b.rows) + 1
    BY <1>1
  <2>. QED
    BY <2>1, <2>2, Zenon DEF Size
<1>. QED
  BY <1>2, <1>3

-----------------------------------------------------------------------------
\* PopAll empties the queue and the drop report and leaves the metrics.
LEMMA PopAllEffect ==
  ASSUME NEW b \in TableBuffers
  PROVE  /\ PopAll(b) \in TableBuffers
         /\ PopAll(b).rows = << >> /\ PopAll(b).drops = 0
         /\ PopAll(b).appended = b.appended
         /\ PopAll(b).flushed = b.flushed
         /\ PopAll(b).dropped = b.dropped
         /\ PopAll(b).errors = b.errors
<1>. << >> \in Seq(Nat)
  OBVIOUS
<1>. QED
  BY DEF PopAll, TableBuffers

-----------------------------------------------------------------------------
\* The merged queue and what the limit keeps of it.
LEMMA MergedType ==
  ASSUME NEW b \in TableBuffers, NEW popped \in Seq(Nat)
  PROVE  /\ Merged(b, popped) \in Seq(Nat)
         /\ Len(Merged(b, popped)) = Len(popped) + Len(b.rows)
         /\ Excess(b, popped) \in 0 .. Len(Merged(b, popped))
         /\ KeptOf(b, popped) \in Seq(Nat)
         /\ Len(KeptOf(b, popped)) = Len(popped) + Len(b.rows) - Excess(b, popped)
         /\ HardLimit > 0 => Len(KeptOf(b, popped)) <= HardLimit
         /\ CutOff(b, popped) \subseteq Nat
<1>. USE BufferAssumption
<1>1. /\ Merged(b, popped) \in Seq(Nat)
      /\ Len(Merged(b, popped)) = Len(popped) + Len(b.rows)
  BY DEF Merged, TableBuffers
<1>2. Len(Merged(b, popped)) \in Nat
  BY <1>1
<1>3. Excess(b, popped) \in 0 .. Len(Merged(b, popped))
  BY <1>2 DEF Excess
<1>4. /\ Len(Merged(b, popped)) - Excess(b, popped) \in 0 .. Len(Merged(b, popped))
      /\ HardLimit > 0 => Len(Merged(b, popped)) - Excess(b, popped) <= HardLimit
  BY <1>2, <1>3 DEF Excess
<1>5. /\ KeptOf(b, popped) \in Seq(Nat)
      /\ Len(KeptOf(b, popped)) = Len(Merged(b, popped)) - Excess(b, popped)
  BY <1>1, <1>4 DEF KeptOf
<1>6. CutOff(b, popped) \subseteq Nat
  BY <1>1 DEF CutOff, SeqElems
<1>. QED
  BY <1>1, <1>3, <1>4, <1>5, <1>6

\* What is cut from the queue is added to the two counters.
LEMMA CutRows == \A n, m, x, d \in Nat : (n + m - x) + (d + x) = m + n + d
OBVIOUS

LEMMA SumIsNat == \A n, x \in Nat : n + x \in Nat
OBVIOUS

LEMMA CutDrops == \A x, d, s \in Nat : (d + x) + s = (s + x) + d
OBVIOUS

\* Pushback (buffer.go): every row of the batch and of the queue is kept or
\* counted as dropped, and the limit holds afterwards.
LEMMA PushbackEffect ==
  ASSUME NEW b \in TableBuffers, NEW popped \in Seq(Nat), popped # << >>
  PROVE  /\ Pushback(b, popped) \in TableBuffers
         /\ Pushback(b, popped).appended = b.appended
         /\ Pushback(b, popped).flushed = b.flushed
         /\ Pushback(b, popped).errors = b.errors
         /\ Pushback(b, popped).rows = KeptOf(b, popped)
         /\ Pushback(b, popped).dropped + b.drops = Pushback(b, popped).drops + b.dropped
         /\ Size(Pushback(b, popped).rows) + Pushback(b, popped).dropped
              = Size(b.rows) + Size(popped) + b.dropped
         /\ HardLimit > 0 => Size(Pushback(b, popped).rows) <= HardLimit
<1>1. /\ Excess(b, popped) \in Nat
      /\ KeptOf(b, popped) \in Seq(Nat)
      /\ Len(KeptOf(b, popped)) = Len(popped) + Len(b.rows) - Excess(b, popped)
      /\ HardLimit > 0 => Len(KeptOf(b, popped)) <= HardLimit
  BY MergedType
<1>2. /\ Len(popped) \in Nat /\ Len(b.rows) \in Nat
      /\ b.drops \in Nat /\ b.dropped \in Nat
      /\ b.drops + Excess(b, popped) \in Nat /\ b.dropped + Excess(b, popped) \in Nat
  <2>1. b.drops \in Nat /\ b.dropped \in Nat /\ Len(b.rows) \in Nat
    BY BufferFields
  <2>2. Len(popped) \in Nat
    OBVIOUS
  <2>3. Excess(b, popped) \in Nat
    BY <1>1, Zenon
  <2>4. b.drops + Excess(b, popped) \in Nat /\ b.dropped + Excess(b, popped) \in Nat
    BY <2>1, <2>3, SumIsNat, Zenon
  <2>. QED
    BY <2>1, <2>2, <2>4, Zenon
<1>3. Pushback(b, popped) = [b EXCEPT !.rows = KeptOf(b, popped),
                                     !.drops = b.drops + Excess(b, popped),
                                     !.dropped = b.dropped + Excess(b, popped)]
  BY DEF Pushback
<1>4. Pushback(b, popped) \in TableBuffers
  BY <1>1, <1>2, <1>3 DEF TableBuffers
<1>5. /\ Pushback(b, popped).rows = KeptOf(b, popped)
      /\ Pushback(b, popped).drops = b.drops + Excess(b, popped)
      /\ Pushback(b, popped).dropped = b.dropped + Excess(b, popped)
      /\ Pushback(b, popped).appended = b.appended
      /\ Pushback(b, popped).flushed = b.flushed
      /\ Pushback(b, popped).errors = b.errors
  BY <1>3 DEF TableBuffers
<1>6. /\ Pushback(b, popped).dropped + b.drops = Pushback(b, popped).drops + b.dropped
      /\ Len(Pushback(b, popped).rows) + Pushback(b, popped).dropped
           = Len(b.rows) + Len(popped) + b.dropped
  <2>1. /\ Excess(b, popped) \in Nat
        /\ Len(KeptOf(b, popped)) = Len(popped) + Len(b.rows) - Excess(b, popped)
    BY <1>1
  <2>2. /\ Len(popped) \in Nat /\ Len(b.rows) \in Nat
        /\ b.drops \in Nat /\ b.dropped \in Nat
    BY <1>2
  <2>3. /\ Pushback(b, popped).drops = b.drops + Excess(b, popped)
        /\ Pushback(b, popped).dropped = b.dropped + Excess(b, popped)
        /\ Len(Pushback(b, popped).rows) = Len(KeptOf(b, popped))
    BY <1>5
  <2>4. (Len(popped) + Len(b.rows) - Excess(b, popped)) + (b.dropped + Excess(b, popped))
             = Len(b.rows) + Len(popped) + b.dropped
    <3>1. /\ Excess(b, popped) \in Nat /\ b.dropped \in Nat
          /\ Len(popped) \in Nat /\ Len(b.rows) \in Nat
      BY <2>1, <2>2
    <3>2. \A x, d \in Nat : (Len(popped) + Len(b.rows) - x) + (d + x)
                             = Len(b.rows) + Len(popped) + d
      BY <3>1, CutRows, Zenon
    <3>. QED
      BY <3>1, <3>2, Zenon
  <2>5. (b.dropped + Excess(b, popped)) + b.drops = (b.drops + Excess(b, popped)) + b.dropped
    BY <2>1, <2>2, CutDrops, Zenon
  <2>. QED
    BY <2>1, <2>3, <2>4, <2>5, Zenon
<1>7. HardLimit > 0 => Len(Pushback(b, popped).rows) <= HardLimit
  BY <1>1, <1>5, Zenon
<1>. QED
  BY <1>4, <1>5, <1>6, <1>7, Zenon DEF Size

-----------------------------------------------------------------------------
\* The flushed counter is the only field AddFlushed changes.
LEMMA AddFlushedEffect ==
  ASSUME NEW b \in TableBuffers, NEW n \in Nat
  PROVE  /\ AddFlushed(b, n) \in TableBuffers
         /\ AddFlushed(b, n) = [b EXCEPT !.flushed = b.flushed + n]
<1>. b.flushed + n \in Nat
  BY BufferFields
<1>. QED
  BY DEF AddFlushed, TableBuffers

\* A counter that stops at its bound never falls, and leaves 0 if it may.
LEMMA AtLeastAfterStep ==
  \A e, m : e \in Nat => (IF e < m THEN e + 1 ELSE e) >= e
OBVIOUS

LEMMA PositiveAfterStep ==
  \A e, m \in Nat : m > 0 => (IF e < m THEN e + 1 ELSE e) > 0
OBVIOUS

\* A flush error is counted, up to the bound, and nothing else changes.
LEMMA AddFlushErrorEffect ==
  ASSUME NEW b \in TableBuffers
  PROVE  /\ AddFlushError(b) \in TableBuffers
         /\ AddFlushError(b) = [b EXCEPT !.errors = AddFlushError(b).errors]
         /\ AddFlushError(b).errors >= b.errors
         /\ MaxErrors > 0 => AddFlushError(b).errors > 0
<1>1. b.errors \in Nat /\ b.errors + 1 \in Nat
  BY BufferFields
<1>2. AddFlushError(b).errors = IF b.errors < MaxErrors THEN b.errors + 1 ELSE b.errors
  BY DEF AddFlushError, TableBuffers
<1>3. AddFlushError(b) = [b EXCEPT !.errors = AddFlushError(b).errors]
  BY <1>2 DEF AddFlushError
<1>4. AddFlushError(b).errors \in Nat
  BY <1>1, <1>2
<1>5. AddFlushError(b) \in TableBuffers
  BY <1>3, <1>4 DEF TableBuffers
<1>6. AddFlushError(b).errors >= b.errors
  BY <1>1, <1>2, AtLeastAfterStep
<1>7. MaxErrors > 0 => AddFlushError(b).errors > 0
  BY <1>1, <1>2, BufferAssumption, PositiveAfterStep
<1>. QED
  BY <1>3, <1>5, <1>6, <1>7, Zenon

-----------------------------------------------------------------------------
(* The order of the rows: a queue's row numbers increase from head to tail. *)

Increasing(s) == \A i, j \in DOMAIN s : i < j => s[i] < s[j]

\* The positions and the elements of a queue.
LEMMA ElemsOf ==
  ASSUME NEW s \in Seq(Nat)
  PROVE  /\ DOMAIN s = 1 .. Len(s) /\ Len(s) \in Nat
         /\ \A i \in 1 .. Len(s) : s[i] \in Nat
         /\ SeqElems(s) = {s[i] : i \in 1 .. Len(s)}
         /\ SeqElems(s) \subseteq Nat
         /\ s # << >> <=> SeqElems(s) # {}
<1>1. DOMAIN s = 1 .. Len(s) /\ Len(s) \in Nat /\ \A i \in 1 .. Len(s) : s[i] \in Nat
  BY LenProperties, ElementOfSeq
<1>2. SeqElems(s) = {s[i] : i \in 1 .. Len(s)} /\ SeqElems(s) \subseteq Nat
  BY <1>1 DEF SeqElems
<1>3. s # << >> => SeqElems(s) # {}
  <2>1. s # << >> => 1 \in 1 .. Len(s)
    BY <1>1, EmptySeq
  <2>. QED
    BY <1>2, <2>1
<1>4. s = << >> => SeqElems(s) = {}
  BY DEF SeqElems
<1>. QED
  BY <1>1, <1>2, <1>3, <1>4

\* A number above all others goes to the end of an increasing sequence.
LEMMA AppendOrder ==
  ASSUME NEW s \in Seq(Nat), NEW x \in Nat
  PROVE  /\ SeqElems(Append(s, x)) = SeqElems(s) \cup {x}
         /\ (Increasing(s) /\ \A n \in SeqElems(s) : n < x) => Increasing(Append(s, x))
<1>. DEFINE a == Append(s, x)
<1>1. /\ a \in Seq(Nat) /\ Len(a) = Len(s) + 1
      /\ \A i \in 1 .. Len(s) : a[i] = s[i]
      /\ a[Len(s) + 1] = x
  BY AppendProperties
<1>2. DOMAIN a = 1 .. Len(s) + 1 /\ DOMAIN s = 1 .. Len(s) /\ Len(s) \in Nat
  BY <1>1, ElemsOf
<1>. HIDE DEF a
<1>3. \A i \in DOMAIN a : \/ i \in DOMAIN s /\ a[i] = s[i]
                          \/ i = Len(s) + 1 /\ a[i] = x
  BY <1>1, <1>2
<1>4. \A i \in DOMAIN s : i \in DOMAIN a /\ a[i] = s[i] /\ i < Len(s) + 1
  BY <1>1, <1>2
<1>5. Len(s) + 1 \in DOMAIN a
  BY <1>2
<1>6. SeqElems(a) = SeqElems(s) \cup {x}
  BY <1>1, <1>3, <1>4, <1>5, Zenon DEF SeqElems
<1>7. ASSUME Increasing(s), \A n \in SeqElems(s) : n < x PROVE Increasing(a)
  <2>. SUFFICES ASSUME NEW i \in DOMAIN a, NEW j \in DOMAIN a, i < j PROVE a[i] < a[j]
    BY DEF Increasing
  <2>1. i \in DOMAIN s /\ i \in Nat /\ j \in Nat
    BY <1>2
  <2>2. CASE j \in DOMAIN s
    BY <1>4, <1>7, <2>1, <2>2 DEF Increasing
  <2>3. CASE j = Len(s) + 1
    <3>1. s[i] \in SeqElems(s)
      BY <2>1 DEF SeqElems
    <3>. QED
      BY <1>1, <1>4, <1>7, <2>1, <2>3, <3>1
  <2>. QED
    BY <1>3, <2>2, <2>3
<1>. QED
  BY <1>6, <1>7 DEF a

\* The tail of an increasing sequence has lost its head, and nothing else.
LEMMA TailOrder ==
  ASSUME NEW s \in Seq(Nat), s # << >>, Increasing(s)
  PROVE  /\ Tail(s) \in Seq(Nat)
         /\ Increasing(Tail(s))
         /\ Head(s) \in SeqElems(s)
         /\ SeqElems(Tail(s)) = SeqElems(s) \ {Head(s)}
<1>. DEFINE a == Tail(s)
<1>1. /\ a \in Seq(Nat) /\ Len(a) = Len(s) - 1
      /\ \A i \in 1 .. Len(a) : a[i] = s[i + 1]
  BY HeadTailProperties
<1>2. /\ DOMAIN a = 1 .. Len(s) - 1 /\ DOMAIN s = 1 .. Len(s) /\ Len(s) \in Nat \ {0}
      /\ Head(s) = s[1]
  BY <1>1, ElemsOf, EmptySeq
<1>3. \A i \in DOMAIN s : s[i] \in Nat
  BY ElemsOf, <1>2
<1>. HIDE DEF a
<1>4. \A i \in DOMAIN a : i + 1 \in DOMAIN s /\ a[i] = s[i + 1] /\ i \in Nat
  BY <1>1, <1>2
<1>5. Increasing(a)
  <2>. SUFFICES ASSUME NEW i \in DOMAIN a, NEW j \in DOMAIN a, i < j PROVE a[i] < a[j]
    BY DEF Increasing
  <2>1. i + 1 < j + 1 /\ i + 1 \in DOMAIN s /\ j + 1 \in DOMAIN s
    BY <1>4
  <2>2. s[i + 1] < s[j + 1]
    BY <2>1 DEF Increasing
  <2>. QED
    BY <1>4, <2>2
<1>6. Head(s) \in SeqElems(s)
  BY <1>2 DEF SeqElems
<1>7. \A i \in DOMAIN a : a[i] \in SeqElems(s) /\ a[i] # Head(s)
  <2>. SUFFICES ASSUME NEW i \in DOMAIN a PROVE a[i] \in SeqElems(s) /\ a[i] # Head(s)
    OBVIOUS
  <2>1. i + 1 \in DOMAIN s /\ a[i] = s[i + 1] /\ 1 < i + 1 /\ 1 \in DOMAIN s
    BY <1>2, <1>4
  <2>2. s[1] < s[i + 1] /\ s[1] \in Nat /\ s[i + 1] \in Nat
    BY <1>3, <2>1 DEF Increasing
  <2>. QED
    BY <1>2, <2>1, <2>2 DEF SeqElems
<1>8. \A i \in DOMAIN s : s[i] # Head(s) => \E j \in DOMAIN a : a[j] = s[i]
  <2>. SUFFICES ASSUME NEW i \in DOMAIN s, s[i] # Head(s) PROVE \E j \in DOMAIN a : a[j] = s[i]
    OBVIOUS
  <2>1. i # 1
    BY <1>2
  <2>2. i - 1 \in DOMAIN a /\ (i - 1) + 1 = i
    BY <1>2, <2>1
  <2>. QED
    BY <1>4, <2>2
<1>9. SeqElems(a) = SeqElems(s) \ {Head(s)}
  <2>1. \A x \in SeqElems(a) : x \in SeqElems(s) \ {Head(s)}
    BY <1>7 DEF SeqElems
  <2>2. \A x \in SeqElems(s) : x # Head(s) => x \in SeqElems(a)
    <3>. SUFFICES ASSUME NEW x \in SeqElems(s), x # Head(s) PROVE x \in SeqElems(a)
      OBVIOUS
    <3>1. PICK i \in DOMAIN s : x = s[i]
      BY DEF SeqElems
    <3>2. PICK j \in DOMAIN a : a[j] = s[i]
      BY <1>8, <3>1
    <3>. QED
      BY <3>1, <3>2 DEF SeqElems
  <2>. QED
    BY <2>1, <2>2
<1>. QED
  BY <1>1, <1>5, <1>6, <1>9 DEF a

\* Two increasing sequences, the first below the second, make one.
LEMMA ConcatOrder ==
  ASSUME NEW s \in Seq(Nat), NEW u \in Seq(Nat)
  PROVE  /\ s \o u \in Seq(Nat)
         /\ SeqElems(s \o u) = SeqElems(s) \cup SeqElems(u)
         /\ (Increasing(s) /\ Increasing(u) /\ \A m \in SeqElems(s), n \in SeqElems(u) : m < n)
              => Increasing(s \o u)
<1>. DEFINE a == s \o u
<1>1. /\ a \in Seq(Nat) /\ Len(a) = Len(s) + Len(u)
      /\ \A i \in 1 .. Len(s) + Len(u) : a[i] = IF i <= Len(s) THEN s[i] ELSE u[i - Len(s)]
  BY ConcatProperties
<1>2. /\ DOMAIN a = 1 .. Len(s) + Len(u) /\ DOMAIN s = 1 .. Len(s) /\ DOMAIN u = 1 .. Len(u)
      /\ Len(s) \in Nat /\ Len(u) \in Nat
  BY <1>1, ElemsOf
<1>. HIDE DEF a
<1>3. \A i \in DOMAIN a : \/ i \in DOMAIN s /\ a[i] = s[i]
                          \/ i > Len(s) /\ i - Len(s) \in DOMAIN u /\ a[i] = u[i - Len(s)]
  <2>. SUFFICES ASSUME NEW i \in DOMAIN a
                PROVE  \/ i \in DOMAIN s /\ a[i] = s[i]
                       \/ i > Len(s) /\ i - Len(s) \in DOMAIN u /\ a[i] = u[i - Len(s)]
    OBVIOUS
  <2>1. CASE i <= Len(s)
    BY <1>1, <1>2, <2>1
  <2>2. CASE i > Len(s)
    BY <1>1, <1>2, <2>2
  <2>. QED
    BY <1>2, <2>1, <2>2
<1>4. \A i \in DOMAIN s : i \in DOMAIN a /\ a[i] = s[i]
  BY <1>1, <1>2
<1>5. \A i \in DOMAIN u : \E k \in DOMAIN a : a[k] = u[i]
  <2>. SUFFICES ASSUME NEW i \in DOMAIN u PROVE \E k \in DOMAIN a : a[k] = u[i]
    OBVIOUS
  <2>1. /\ i + Len(s) \in DOMAIN a /\ ~(i + Len(s) <= Len(s)) /\ (i + Len(s)) - Len(s) = i
    BY <1>2
  <2>2. a[i + Len(s)] = u[i]
    BY <1>1, <1>2, <2>1
  <2>. QED
    BY <2>1, <2>2
<1>6. SeqElems(a) = SeqElems(s) \cup SeqElems(u)
  <2>1. \A i \in DOMAIN a : a[i] \in SeqElems(s) \cup SeqElems(u)
    BY <1>3, Zenon DEF SeqElems
  <2>2. \A i \in DOMAIN s : s[i] \in SeqElems(a)
    BY <1>4, Zenon DEF SeqElems
  <2>3. \A i \in DOMAIN u : u[i] \in SeqElems(a)
    BY <1>5, Zenon DEF SeqElems
  <2>. QED
    BY <2>1, <2>2, <2>3, Zenon DEF SeqElems
<1>7. ASSUME Increasing(s), Increasing(u), \A m \in SeqElems(s), n \in SeqElems(u) : m < n
      PROVE  Increasing(a)
  <2>. SUFFICES ASSUME NEW i \in DOMAIN a, NEW j \in DOMAIN a, i < j PROVE a[i] < a[j]
    BY DEF Increasing
  <2>1. CASE j \in DOMAIN s /\ a[j] = s[j]
    <3>1. i \in DOMAIN s
      BY <1>2, <2>1
    <3>. QED
      BY <1>4, <1>7, <2>1, <3>1 DEF Increasing
  <2>2. CASE j > Len(s) /\ j - Len(s) \in DOMAIN u /\ a[j] = u[j - Len(s)]
    <3>1. CASE i \in DOMAIN s /\ a[i] = s[i]
      <4>1. a[i] \in SeqElems(s) /\ a[j] \in SeqElems(u)
        BY <2>2, <3>1 DEF SeqElems
      <4>. QED
        BY <1>7, <4>1
    <3>2. CASE i > Len(s) /\ i - Len(s) \in DOMAIN u /\ a[i] = u[i - Len(s)]
      <4>1. i - Len(s) < j - Len(s)
        BY <1>2
      <4>. QED
        BY <1>7, <2>2, <3>2, <4>1 DEF Increasing
    <3>. QED
      BY <1>3, <3>1, <3>2
  <2>. QED
    BY <1>3, <2>1, <2>2
<1>. QED
  BY <1>1, <1>6, <1>7 DEF a

\* What a prefix of an increasing sequence leaves out is above what it keeps.
LEMMA PrefixOrder ==
  ASSUME NEW s \in Seq(Nat), Increasing(s), NEW n \in 0 .. Len(s)
  PROVE  /\ SubSeq(s, 1, n) \in Seq(Nat)
         /\ Increasing(SubSeq(s, 1, n))
         /\ SeqElems(SubSeq(s, 1, n)) \subseteq SeqElems(s)
         /\ \A x \in SeqElems(s) \ SeqElems(SubSeq(s, 1, n)), y \in SeqElems(SubSeq(s, 1, n)) : y < x
<1>. DEFINE a == SubSeq(s, 1, n)
<1>1. DOMAIN s = 1 .. Len(s) /\ Len(s) \in Nat /\ \A i \in 1 .. Len(s) : s[i] \in Nat
  BY ElemsOf
<1>2. /\ a \in Seq(Nat) /\ Len(a) = n
      /\ \A i \in 1 .. n : a[i] = s[i]
  <2>1. \A i \in 1 .. n : s[i] \in Nat
    BY <1>1
  <2>2. /\ a \in Seq(Nat) /\ Len(a) = IF 1 <= n THEN n - 1 + 1 ELSE 0
        /\ \A i \in 1 .. n - 1 + 1 : a[i] = s[1 + i - 1]
    BY <1>1, <2>1, SubSeqProperties
  <2>. QED
    BY <1>1, <2>2
<1>3. DOMAIN a = 1 .. n
  BY <1>2, ElemsOf
<1>. HIDE DEF a
<1>4. \A i \in DOMAIN a : i \in DOMAIN s /\ a[i] = s[i]
  BY <1>1, <1>2, <1>3
<1>5. Increasing(a)
  BY <1>4 DEF Increasing
<1>6. SeqElems(a) \subseteq SeqElems(s)
  BY <1>4 DEF SeqElems
<1>7. ASSUME NEW x \in SeqElems(s) \ SeqElems(a), NEW y \in SeqElems(a) PROVE y < x
  <2>1. PICK i \in DOMAIN s : x = s[i]
    BY DEF SeqElems
  <2>2. PICK j \in DOMAIN a : y = a[j]
    BY DEF SeqElems
  <2>3. i \notin DOMAIN a
    BY <1>4, <2>1 DEF SeqElems
  <2>4. j < i
    BY <1>1, <1>3, <2>3
  <2>. QED
    BY <1>4, <2>1, <2>2, <2>4 DEF Increasing
<1>. QED
  BY <1>2, <1>5, <1>6, <1>7 DEF a

\* An increasing sequence that is not empty has a greatest element, its last.
LEMMA LastOrder ==
  ASSUME NEW s \in Seq(Nat), s # << >>, Increasing(s)
  PROVE  \E k \in SeqElems(s) : \A n \in SeqElems(s) : n <= k
<1>1. /\ DOMAIN s = 1 .. Len(s) /\ Len(s) \in Nat /\ \A i \in 1 .. Len(s) : s[i] \in Nat
      /\ Len(s) \in 1 .. Len(s)
  BY ElemsOf, EmptySeq
<1>2. \A i \in DOMAIN s : i = Len(s) \/ i < Len(s)
  BY <1>1
<1>3. \A i \in DOMAIN s : s[i] <= s[Len(s)]
  BY <1>1, <1>2 DEF Increasing
<1>. QED
  BY <1>1, <1>3 DEF SeqElems

-----------------------------------------------------------------------------
\* Append keeps the queue in the order of the calls, and the row it throws away
\* is one of the queue's.
LEMMA EnqueueOrder ==
  ASSUME NEW b \in TableBuffers, Increasing(b.rows), SeqElems(b.rows) \subseteq 1 .. b.appended
  PROVE  LET c == Enqueue(b, b.appended + 1)
         IN  /\ Increasing(c.rows)
             /\ SeqElems(c.rows) = (SeqElems(b.rows) \ Evicted(b)) \cup {b.appended + 1}
             /\ Evicted(b) = {} \/ \E n \in SeqElems(b.rows) : Evicted(b) = {n}
<1>. DEFINE x == b.appended + 1
            c == Enqueue(b, x)
<1>1. b.rows \in Seq(Nat) /\ b.appended \in Nat /\ x \in Nat
  BY BufferFields
<1>2. \A n \in SeqElems(b.rows) : n < x
  BY <1>1
<1>. HIDE DEF x
<1>3. CASE AtLimit(b)
  <2>1. b.rows # << >>
    <3>1. HardLimit > 0 /\ Len(b.rows) >= HardLimit /\ HardLimit \in Nat
      BY <1>3, BufferAssumption DEF AtLimit
    <3>2. Len(<< >>) = 0
      OBVIOUS
    <3>. QED
      BY <3>1, <3>2
  <2>2. /\ Tail(b.rows) \in Seq(Nat)
        /\ Increasing(Tail(b.rows))
        /\ Head(b.rows) \in SeqElems(b.rows)
        /\ SeqElems(Tail(b.rows)) = SeqElems(b.rows) \ {Head(b.rows)}
    BY <1>1, <2>1, TailOrder
  <2>3. c.rows = Append(Tail(b.rows), x)
    BY <1>3 DEF Enqueue, TableBuffers
  <2>4. Evicted(b) = {Head(b.rows)}
    BY <1>3 DEF Evicted
  <2>5. /\ SeqElems(c.rows) = SeqElems(Tail(b.rows)) \cup {x}
        /\ Increasing(c.rows)
    <3>1. \A n \in SeqElems(Tail(b.rows)) : n < x
      BY <1>2, <2>2
    <3>2. /\ SeqElems(Append(Tail(b.rows), x)) = SeqElems(Tail(b.rows)) \cup {x}
          /\ Increasing(Append(Tail(b.rows), x))
      BY <1>1, <2>2, <3>1, AppendOrder
    <3>. QED
      BY <2>3, <3>2, Zenon
  <2>. QED
    BY <2>2, <2>4, <2>5 DEF x
<1>4. CASE ~AtLimit(b)
  <2>1. c.rows = Append(b.rows, x)
    BY <1>4 DEF Enqueue, TableBuffers
  <2>2. Evicted(b) = {}
    BY <1>4 DEF Evicted
  <2>3. /\ SeqElems(c.rows) = SeqElems(b.rows) \cup {x}
        /\ Increasing(c.rows)
    BY <1>1, <1>2, <2>1, AppendOrder
  <2>. QED
    BY <2>2, <2>3 DEF x
<1>. QED
  BY <1>3, <1>4

\* A batch that fits the limit is a prefix of what Pushback keeps.
LEMMA KeptPrefix ==
  ASSUME NEW b \in TableBuffers, NEW popped \in Seq(Nat),
         HardLimit > 0 => Len(popped) <= HardLimit
  PROVE  /\ Len(Merged(b, popped)) - Excess(b, popped) \in 0 .. Len(Merged(b, popped))
         /\ SeqElems(popped) \subseteq SeqElems(KeptOf(b, popped))
<1>. DEFINE all == Merged(b, popped)
            kept == KeptOf(b, popped)
            n == Len(all) - Excess(b, popped)
<1>1. b.rows \in Seq(Nat)
  BY BufferFields
<1>2. all \in Seq(Nat)
  BY MergedType
<1>3. /\ Len(all) = Len(popped) + Len(b.rows) /\ Excess(b, popped) \in 0 .. Len(all)
  BY MergedType
<1>4. Len(all) \in Nat /\ Len(popped) \in Nat /\ Len(b.rows) \in Nat
  BY <1>1, <1>2, LenProperties
<1>5. n \in 0 .. Len(all) /\ Len(popped) <= n
  <2>. HIDE DEF all
  <2>1. n \in 0 .. Len(all)
    BY <1>3, <1>4
  <2>2. CASE Excess(b, popped) = 0
    BY <1>3, <1>4, <2>2
  <2>3. CASE HardLimit > 0 /\ Excess(b, popped) = Len(all) - HardLimit
    <3>1. Len(popped) <= HardLimit /\ HardLimit \in Nat
      BY <2>3, BufferAssumption
    <3>2. n = HardLimit
      BY <1>4, <2>3, <3>1
    <3>. QED
      BY <2>1, <3>1, <3>2
  <2>4. Excess(b, popped) = 0 \/ (HardLimit > 0 /\ Excess(b, popped) = Len(all) - HardLimit)
    BY DEF Excess, all
  <2>. QED
    BY <2>1, <2>2, <2>3, <2>4
<1>6. kept = SubSeq(all, 1, n)
  BY DEF KeptOf
<1>. HIDE DEF n, all
<1>7. kept \in Seq(Nat)
  BY MergedType
<1>8. SeqElems(popped) \subseteq SeqElems(kept)
  <2>. SUFFICES ASSUME NEW i \in DOMAIN popped PROVE popped[i] \in SeqElems(kept)
    BY DEF SeqElems
  <2>1. i \in 1 .. Len(popped) /\ DOMAIN popped = 1 .. Len(popped)
    BY ElemsOf
  <2>2. i \in 1 .. n /\ i <= Len(popped) /\ i \in 1 .. Len(popped) + Len(b.rows)
    BY <1>4, <1>5, <2>1
  <2>3. all[i] = popped[i]
    BY <1>1, <2>2, ConcatProperties DEF Merged, all
  <2>4. \A j \in 1 .. n : all[j] \in Nat
    <3>1. \A j \in 1 .. Len(all) : all[j] \in Nat
      BY <1>2, ElemsOf
    <3>. QED
      BY <1>4, <1>5, <3>1
  <2>5. kept[i] = all[i] /\ DOMAIN kept = 1 .. n
    <3>1. /\ Len(kept) = IF 1 <= n THEN n - 1 + 1 ELSE 0
          /\ \A j \in 1 .. n - 1 + 1 : kept[j] = all[1 + j - 1]
      BY <1>4, <1>5, <1>6, <2>4, SubSeqProperties
    <3>2. DOMAIN kept = 1 .. Len(kept)
      BY <1>7, ElemsOf
    <3>. QED
      BY <1>4, <1>5, <2>2, <3>1, <3>2
  <2>. QED
    BY <2>2, <2>3, <2>5 DEF SeqElems
<1>. QED
  BY <1>5, <1>8 DEF n, all

\* Pushback keeps the order and cuts the newest rows of the two.
LEMMA PushbackOrder ==
  ASSUME NEW b \in TableBuffers, NEW popped \in Seq(Nat),
         Increasing(popped), Increasing(b.rows),
         \A m \in SeqElems(popped), n \in SeqElems(b.rows) : m < n,
         HardLimit > 0 => Len(popped) <= HardLimit
  PROVE  /\ Increasing(KeptOf(b, popped))
         /\ SeqElems(KeptOf(b, popped)) \cup CutOff(b, popped) = SeqElems(popped) \cup SeqElems(b.rows)
         /\ SeqElems(KeptOf(b, popped)) \cap CutOff(b, popped) = {}
         /\ \A n \in SeqElems(KeptOf(b, popped)), m \in CutOff(b, popped) : n < m
<1>. DEFINE all == Merged(b, popped)
            kept == KeptOf(b, popped)
            n == Len(all) - Excess(b, popped)
<1>1. b.rows \in Seq(Nat)
  BY BufferFields
<1>2. /\ all \in Seq(Nat) /\ Increasing(all)
      /\ SeqElems(all) = SeqElems(popped) \cup SeqElems(b.rows)
  BY <1>1, ConcatOrder DEF Merged
<1>3. n \in 0 .. Len(all)
  BY KeptPrefix
<1>4. kept = SubSeq(all, 1, n)
  BY DEF KeptOf
<1>. HIDE DEF n, all
<1>5. /\ Increasing(kept)
      /\ SeqElems(kept) \subseteq SeqElems(all)
      /\ \A x \in SeqElems(all) \ SeqElems(kept), y \in SeqElems(kept) : y < x
  BY <1>2, <1>3, <1>4, PrefixOrder
<1>6. CutOff(b, popped) = SeqElems(all) \ SeqElems(kept)
  BY DEF CutOff, all
<1>. QED
  BY <1>2, <1>5, <1>6
-----------------------------------------------------------------------------
(* The writer. *)

(* The types. *)

\* The threads are distinct from each other and from the other lock holders.
LEMMA ThreadFacts ==
  /\ Ticker \in Threads /\ Stopper \in Threads
  /\ Ticker \notin Handlers /\ Stopper \notin Handlers
  /\ Handlers \subseteq Threads
  /\ Archiver \notin Threads /\ Free \notin Threads /\ Archiver # Free
  /\ Ticker # Stopper
  /\ 1 \in Tables
BY WriterAssumption DEF Threads, Ticker, Stopper, Archiver, Free, Tables

\* PlusCopies counts copies.
LEMMA PlusCopiesType ==
  ASSUME NEW f \in [RowIds -> Nat], NEW g \in [RowIds -> Nat], NEW rows
  PROVE  PlusCopies(f, g, rows) \in [RowIds -> Nat]
BY WriterAssumption DEF PlusCopies, Capped

LEMMA NoCopiesType == NoCopies \in [RowIds -> Nat]
BY DEF NoCopies

\* The end of a flushOne leaves the threads where threads can be.
LEMMA ReturnType ==
  ASSUME TypeOK, NEW t \in Threads, Return(t)
  PROVE  /\ writeMu' = Free
         /\ pc' \in [Threads -> Labels]
         /\ tab' \in [Threads -> Tables]
<1>. USE ThreadFacts
<1>1. CASE /\ Goto(t, "lock")
           /\ tab[t] < NTables
           /\ tab' = [tab EXCEPT ![t] = @ + 1]
  <2>1. tab[t] \in 1 .. NTables /\ NTables \in Nat
    BY WriterAssumption DEF TypeOK, Tables
  <2>2. tab[t] + 1 \in Tables
    BY <1>1, <2>1 DEF Tables
  <2>. QED
    BY <1>1, <2>2 DEF Return, Goto, TypeOK, Labels
<1>2. CASE Goto(t, Caller(t)) /\ tab' = [tab EXCEPT ![t] = 1]
  BY <1>2 DEF Return, Goto, Caller, TypeOK, Labels
<1>. QED
  BY <1>1, <1>2 DEF Return

LEMMA TypeInit == Init => TypeOK
<1>. USE ThreadFacts, NoCopiesType, NewTableBufferType
<1>. SUFFICES ASSUME Init PROVE TypeOK
  OBVIOUS
<1>1. << >> \in Seq(Nat)
  OBVIOUS
<1>2. buffer \in [Tables -> TableBuffers] /\ batch \in Seq(Nat)
  BY <1>1 DEF Init
<1>3. /\ staged \in [Tables -> [RowIds -> Nat]]
      /\ stored \in [Tables -> [RowIds -> Nat]]
  BY DEF Init
<1>4. pc \in [Threads -> Labels] /\ tab \in [Threads -> Tables]
  BY DEF Init, Labels
<1>. QED
  BY <1>2, <1>3, <1>4 DEF Init, TypeOK

LEMMA TypeAccept ==
  ASSUME TypeOK, NEW h \in Handlers, NEW tb \in Tables, Accept(h, tb)
  PROVE  TypeOK'
<1>. DEFINE b == Enqueue(buffer[tb], buffer[tb].appended + 1)
<1>1. /\ buffer[tb] \in TableBuffers
      /\ buffer[tb].appended \in Nat
  BY BufferFields DEF TypeOK
<1>2. b \in TableBuffers /\ Evicted(buffer[tb]) \subseteq Nat
  BY <1>1, EnqueueEffect
<1>3. buffer' \in [Tables -> TableBuffers]
  BY <1>2 DEF Accept, TypeOK
<1>4. dropped' \in [Tables -> SUBSET Nat]
  BY <1>2 DEF Accept, TypeOK
<1>5. pc' \in [Threads -> Labels] /\ tab' \in [Threads -> Tables]
  BY ThreadFacts DEF Accept, Goto, TypeOK, Labels
<1>. QED
  BY <1>3, <1>4, <1>5 DEF Accept, TypeOK, duckdb, history

LEMMA TypePop ==
  ASSUME TypeOK, NEW t \in Threads, Pop(t)
  PROVE  TypeOK'
<1>. DEFINE b == buffer[tab[t]]
<1>1. tab[t] \in Tables /\ b \in TableBuffers
  BY DEF TypeOK
<1>2. CASE nilled
  BY <1>2, ReturnType DEF Pop, TypeOK, duckdb
<1>3. CASE ~nilled
  <2>1. PopAll(b) \in TableBuffers
    BY <1>1, PopAllEffect
  <2>2. b.rows \in Seq(Nat) /\ b.drops \in Nat
    BY <1>1, BufferFields
  <2>3. buffer' \in [Tables -> TableBuffers] /\ batch' \in Seq(Nat)
    <3>1. /\ buffer' = [buffer EXCEPT ![tab[t]] = PopAll(b)]
          /\ batch' = b.rows
      BY <1>3 DEF Pop
    <3>. QED
      BY <1>1, <2>1, <2>2, <3>1 DEF TypeOK
  <2>4. reported' \in [Tables -> Nat]
    <3>1. reported[tab[t]] + b.drops \in Nat
      BY <1>1, <2>2 DEF TypeOK
    <3>. QED
      BY <1>3, <3>1 DEF Pop, TypeOK
  <2>5. /\ writeMu' \in Threads \cup {Archiver, Free}
        /\ pc' \in [Threads -> Labels]
        /\ tab' \in [Threads -> Tables]
    BY <1>3, ReturnType DEF Pop, TypeOK, Goto, Labels
  <2>. QED
    BY <1>3, <2>3, <2>4, <2>5 DEF Pop, TypeOK, duckdb
<1>. QED
  BY <1>2, <1>3

LEMMA TypeAppendBatch ==
  ASSUME TypeOK, NEW t \in Threads, AppendBatch(t)
  PROVE  TypeOK'
<1>. USE NoCopiesType, PlusCopiesType
<1>1. tab[t] \in Tables
  BY DEF TypeOK
<1>2. /\ pc' \in [Threads -> Labels]
      /\ UNCHANGED <<buffer, writeMu, batch, tab, grpc, dropped, reported, live, nilled>>
  BY DEF AppendBatch, AppenderClosed, RowRefused, FlushSucceeds, FlushFails,
         Writing, Goto, TypeOK, Labels, duckdb, history
<1>3. CASE AppenderClosed(t)
  BY <1>2, <1>3 DEF AppenderClosed, TypeOK, duckdb
<1>4. CASE RowRefused(t)
  <2>1. PlusCopies(staged[tab[t]], NoCopies, Prefix(tab[t], batch)) \in [RowIds -> Nat]
    BY <1>1 DEF TypeOK
  <2>. QED
    BY <1>2, <1>4, <2>1 DEF RowRefused, TypeOK
<1>5. CASE FlushSucceeds(t)
  <2>1. PlusCopies(stored[tab[t]], staged[tab[t]], SeqElems(batch)) \in [RowIds -> Nat]
    BY <1>1 DEF TypeOK
  <2>. QED
    BY <1>2, <1>5, <2>1 DEF FlushSucceeds, TypeOK
<1>6. CASE FlushFails(t)
  <2>1. PlusCopies(staged[tab[t]], NoCopies, SeqElems(batch)) \in [RowIds -> Nat]
    BY <1>1 DEF TypeOK
  <2>2. staged' \in [Tables -> [RowIds -> Nat]]
    BY <1>6, <2>1 DEF FlushFails, TypeOK
  <2>. QED
    BY <1>2, <1>6, <2>2 DEF FlushFails, TypeOK
<1>. QED
  BY <1>3, <1>4, <1>5, <1>6 DEF AppendBatch

LEMMA TypeCommit ==
  ASSUME TypeOK, NEW t \in Threads, Commit(t)
  PROVE  TypeOK'
<1>1. tab[t] \in Tables /\ buffer[tab[t]] \in TableBuffers
  BY DEF TypeOK
<1>2. Len(batch) \in Nat /\ << >> \in Seq(Nat)
  BY DEF TypeOK
<1>3. AddFlushed(buffer[tab[t]], Len(batch)) \in TableBuffers
  BY <1>1, <1>2, AddFlushedEffect
<1>4. buffer' \in [Tables -> TableBuffers] /\ batch' \in Seq(Nat)
  BY <1>2, <1>3 DEF Commit, TypeOK
<1>. QED
  BY <1>4, ReturnType DEF Commit, TypeOK, duckdb, history

LEMMA TypeRetry ==
  ASSUME TypeOK, NEW t \in Threads, Retry(t)
  PROVE  TypeOK'
<1>. DEFINE b == AddFlushError(buffer[tab[t]])
<1>1. /\ tab[t] \in Tables /\ buffer[tab[t]] \in TableBuffers
      /\ batch \in Seq(Nat)
  BY DEF TypeOK
<1>2. b \in TableBuffers
  BY <1>1, AddFlushErrorEffect
<1>3. Pushback(b, batch) \in TableBuffers
  BY <1>1, <1>2, PushbackEffect DEF Pushback
<1>4. CutOff(buffer[tab[t]], batch) \subseteq Nat
  BY <1>1, MergedType
<1>5. << >> \in Seq(Nat)
  OBVIOUS
<1>6. buffer' \in [Tables -> TableBuffers] /\ batch' \in Seq(Nat)
  BY <1>3, <1>5 DEF Retry, TypeOK
<1>7. dropped' \in [Tables -> SUBSET Nat]
  BY <1>1, <1>4 DEF Retry, TypeOK
<1>. QED
  BY <1>6, <1>7, ReturnType DEF Retry, TypeOK, duckdb, history

LEMMA TypeCloseAppender ==
  ASSUME TypeOK, NEW tb \in Tables, CloseAppender(tb)
  PROVE  TypeOK'
<1>1. PlusCopies(stored[tb], staged[tb], {}) \in [RowIds -> Nat]
  BY PlusCopiesType DEF TypeOK
<1>2. staged' \in [Tables -> [RowIds -> Nat]]
  BY NoCopiesType DEF CloseAppender, TypeOK
<1>3. stored' \in [Tables -> [RowIds -> Nat]]
  BY <1>1 DEF CloseAppender, TypeOK
<1>4. live' \in [Tables -> BOOLEAN] /\ faults' \in Nat
  BY DEF CloseAppender, TypeOK
<1>. QED
  BY <1>2, <1>3, <1>4 DEF CloseAppender, TypeOK, history

\* Closing an appender in the middle of a batch moves the batch's thread to its
\* failure, and changes DuckDB's side.
LEMMA MidBatchMoves ==
  ASSUME TypeOK, NEW t \in Threads, CloseMidBatch(t)
  PROVE  /\ pc[Stopper] = "close" /\ pc'[Stopper] = "close" /\ t # Stopper
         /\ pc[t] = "write" /\ pc'[t] = "retry"
         /\ \A s \in Threads \ {t} : pc'[s] = pc[s]
         /\ pc' \in [Threads -> Labels]
         /\ UNCHANGED <<buffer, writeMu, batch, tab, grpc, nilled, dropped, reported>>
<1>1. /\ pc[Stopper] = "close" /\ pc[t] = "write" /\ Goto(t, "retry")
      /\ UNCHANGED <<buffer, writeMu, batch, tab, grpc, nilled, dropped, reported>>
  BY DEF CloseMidBatch, Writing, history
<1>2. t # Stopper /\ Stopper \in Threads
  BY <1>1, ThreadFacts
<1>. QED
  BY <1>1, <1>2 DEF Goto, TypeOK, Labels

LEMMA TypeCloseMidBatch ==
  ASSUME TypeOK, NEW t \in Threads, CloseMidBatch(t)
  PROVE  TypeOK'
<1>1. tab[t] \in Tables
  BY DEF TypeOK
<1>2. \A rows : PlusCopies(stored[tab[t]], staged[tab[t]], rows) \in [RowIds -> Nat]
  BY <1>1, PlusCopiesType DEF TypeOK
<1>3. staged' \in [Tables -> [RowIds -> Nat]]
  BY NoCopiesType DEF CloseMidBatch, TypeOK
<1>4. stored' \in [Tables -> [RowIds -> Nat]]
  <2>1. CASE UNCHANGED stored
    BY <2>1 DEF TypeOK
  <2>2. CASE \E rows \in Beginnings(tab[t], batch) :
               stored' = [stored EXCEPT ![tab[t]] = PlusCopies(stored[tab[t]], staged[tab[t]], rows)]
    <3>1. PICK rows : stored' = [stored EXCEPT ![tab[t]] = PlusCopies(stored[tab[t]], staged[tab[t]], rows)]
      BY <2>2
    <3>2. PlusCopies(stored[tab[t]], staged[tab[t]], rows) \in [RowIds -> Nat]
      BY <1>2
    <3>. QED
      BY <3>1, <3>2 DEF TypeOK
  <2>. QED
    BY <2>1, <2>2 DEF CloseMidBatch
<1>5. live' \in [Tables -> BOOLEAN] /\ faults' \in Nat
  BY DEF CloseMidBatch, TypeOK
<1>. QED
  BY <1>3, <1>4, <1>5, MidBatchMoves DEF TypeOK

\* The steps that only move a thread, the lock, the server or the appenders' fate.
Moves ==
  \/ \E t \in Threads : Lock(t)
  \/ Tick \/ TickerExit \/ GracefulStop \/ ForcedStop \/ CloseStop \/ FinalFlush
  \/ NilAppenders \/ ArchiverLock \/ ArchiverUnlock \/ Exit

LEMMA TypeMoves == TypeOK /\ Moves => TypeOK'
BY ThreadFacts DEF Moves, TypeOK, Lock, Tick, TickerExit, GracefulStop, ForcedStop,
   CloseStop, FinalFlush, NilAppenders, ArchiverLock, ArchiverUnlock, Exit,
   Goto, Labels, duckdb, history, vars

LEMMA TypeStep == TypeOK /\ [Next]_vars => TypeOK'
<1>. SUFFICES ASSUME TypeOK, [Next]_vars PROVE TypeOK'
  OBVIOUS
<1>1. CASE UNCHANGED vars
  BY <1>1 DEF TypeOK, vars
<1>2. CASE Next
  BY <1>2, TypeAccept, TypePop, TypeAppendBatch, TypeCommit, TypeRetry,
     TypeCloseAppender, TypeCloseMidBatch, TypeMoves DEF Next, FlushStep, Moves
<1>. QED
  BY <1>1, <1>2

\* Every reachable state of the writer is well typed.
THEOREM TypeCorrect == Spec => []TypeOK
BY TypeInit, TypeStep, PTL DEF Spec

-----------------------------------------------------------------------------
(* One writer at a time. *)

Holding == \A t \in Threads : InFlush(t) <=> writeMu = t
Batched == batch # << >> <=> \E t \in Threads : HasBatch(t)

\* Whoever has a batch is the one thread in flushOne.
LEMMA OneBatch ==
  ASSUME Holding, NEW t \in Threads, InFlush(t), NEW s \in Threads, InFlush(s)
  PROVE  s = t
BY DEF Holding

\* The deferred unlock: the lock is free and nobody is in flushOne.
LEMMA ReturnHolding ==
  ASSUME TypeOK, Holding, NEW t \in Threads, InFlush(t), Return(t)
  PROVE  /\ Holding'
         /\ \A s \in Threads : ~InFlush(s)' /\ ~HasBatch(s)'
<1>1. pc'[t] \in {"lock", "idle", "close"} /\ \A s \in Threads \ {t} : pc'[s] = pc[s]
  BY DEF Return, Goto, Caller, TypeOK
<1>2. \A s \in Threads : ~InFlush(s)' /\ ~HasBatch(s)'
  BY <1>1, OneBatch DEF InFlush, HasBatch
<1>. QED
  BY <1>2, ThreadFacts DEF Holding, Return

LEMMA WriterInit == Init => SingleWriter
BY ThreadFacts DEF Init, SingleWriter, InFlush, HasBatch

\* A step that moves one thread between places outside flushOne.
LEMMA MoveOutside ==
  ASSUME TypeOK, SingleWriter, NEW t \in Threads, NEW label, Goto(t, label),
         ~InFlush(t), label \notin {"pop", "write", "commit", "retry"},
         UNCHANGED batch, writeMu' = writeMu
  PROVE  /\ SingleWriter'
         /\ \A s \in Threads : HasBatch(s)' <=> HasBatch(s)
<1>1. \A s \in Threads : (InFlush(s)' <=> InFlush(s)) /\ (HasBatch(s)' <=> HasBatch(s))
  BY DEF Goto, TypeOK, InFlush, HasBatch
<1>. QED
  BY <1>1 DEF SingleWriter

LEMMA WriterAccept ==
  ASSUME TypeOK, SingleWriter, NEW h \in Handlers, NEW tb \in Tables, Accept(h, tb)
  PROVE  SingleWriter' /\ \A s \in Threads : HasBatch(s)' <=> HasBatch(s)
<1>1. h \in Threads /\ ~InFlush(h) /\ writeMu' = writeMu /\ UNCHANGED batch
  BY ThreadFacts DEF Accept, InFlush
<1>2. CASE Goto(h, "lock")
  BY <1>1, <1>2, MoveOutside
<1>3. CASE UNCHANGED pc
  BY <1>1, <1>3 DEF SingleWriter, InFlush, HasBatch
<1>. QED
  BY <1>2, <1>3 DEF Accept

LEMMA WriterLock ==
  ASSUME TypeOK, SingleWriter, NEW t \in Threads, Lock(t)
  PROVE  SingleWriter' /\ \A s \in Threads : HasBatch(s)' <=> HasBatch(s)
<1>1. \A s \in Threads : ~InFlush(s)
  BY ThreadFacts DEF Lock, SingleWriter
<1>2. pc'[t] = "pop" /\ \A s \in Threads \ {t} : pc'[s] = pc[s]
  BY DEF Lock, Goto, TypeOK
<1>3. \A s \in Threads : ~HasBatch(s) /\ ~HasBatch(s)'
  BY <1>1, <1>2 DEF InFlush, HasBatch
<1>4. \A s \in Threads : InFlush(s)' <=> s = t
  BY <1>1, <1>2 DEF InFlush
<1>. QED
  BY <1>3, <1>4 DEF Lock, SingleWriter

LEMMA WriterPop ==
  ASSUME TypeOK, SingleWriter, NEW t \in Threads, Pop(t)
  PROVE  /\ SingleWriter'
         /\ \A s \in Threads : ~HasBatch(s)
         /\ \A s \in Threads : HasBatch(s)' => s = t /\ ~nilled /\ tab'[t] = tab[t]
<1>1. InFlush(t) /\ Holding /\ Batched
  BY DEF Pop, InFlush, SingleWriter, Holding, Batched
<1>2. \A s \in Threads : ~HasBatch(s)
  <2>. SUFFICES ASSUME NEW s \in Threads, HasBatch(s) PROVE FALSE
    OBVIOUS
  <2>1. s = t
    BY <1>1, OneBatch DEF HasBatch, InFlush
  <2>. QED
    BY <2>1 DEF Pop, HasBatch
<1>3. batch = << >>
  BY <1>1, <1>2 DEF Batched
<1>4. CASE Return(t)
  <2>1. Holding' /\ \A s \in Threads : ~HasBatch(s)'
    BY <1>1, <1>4, ReturnHolding
  <2>2. batch' = << >>
    <3>1. Goto(t, "write") => FALSE
      BY <1>4 DEF Return, Goto, Caller, TypeOK
    <3>. QED
      BY <1>3, <3>1 DEF Pop
  <2>. QED
    BY <1>2, <2>1, <2>2 DEF SingleWriter, Holding
<1>5. CASE ~Return(t)
  <2>1. /\ ~nilled /\ batch' # << >> /\ Goto(t, "write") /\ UNCHANGED <<writeMu, tab>>
    BY <1>5 DEF Pop
  <2>2. pc'[t] = "write" /\ \A s \in Threads \ {t} : pc'[s] = pc[s]
    BY <2>1 DEF Goto, TypeOK
  <2>3. \A s \in Threads : (InFlush(s)' <=> InFlush(s)) /\ (HasBatch(s)' <=> s = t)
    BY <1>1, <1>2, <2>2 DEF InFlush, HasBatch
  <2>. QED
    BY <1>2, <2>1, <2>3 DEF SingleWriter
<1>. QED
  BY <1>4, <1>5

LEMMA WriterAppendBatch ==
  ASSUME TypeOK, SingleWriter, NEW t \in Threads, AppendBatch(t)
  PROVE  SingleWriter' /\ \A s \in Threads : HasBatch(s)' <=> HasBatch(s)
<1>1. /\ pc[t] = "write" /\ UNCHANGED <<writeMu, batch>>
      /\ Goto(t, "retry") \/ Goto(t, "commit")
  BY DEF AppendBatch, AppenderClosed, RowRefused, FlushSucceeds, FlushFails, Writing
<1>2. pc'[t] \in {"retry", "commit"} /\ \A s \in Threads \ {t} : pc'[s] = pc[s]
  BY <1>1 DEF Goto, TypeOK
<1>3. \A s \in Threads : (InFlush(s)' <=> InFlush(s)) /\ (HasBatch(s)' <=> HasBatch(s))
  BY <1>1, <1>2 DEF InFlush, HasBatch
<1>. QED
  BY <1>1, <1>3 DEF SingleWriter

LEMMA WriterCloseMidBatch ==
  ASSUME TypeOK, SingleWriter, NEW t \in Threads, CloseMidBatch(t)
  PROVE  SingleWriter' /\ \A s \in Threads : HasBatch(s)' <=> HasBatch(s)
<1>1. \A s \in Threads : (InFlush(s)' <=> InFlush(s)) /\ (HasBatch(s)' <=> HasBatch(s))
  BY MidBatchMoves DEF InFlush, HasBatch
<1>. QED
  BY <1>1, MidBatchMoves DEF SingleWriter

LEMMA WriterSettle ==
  ASSUME TypeOK, SingleWriter, NEW t \in Threads, Commit(t) \/ Retry(t)
  PROVE  SingleWriter' /\ HasBatch(t) /\ \A s \in Threads : ~HasBatch(s)'
<1>1. InFlush(t) /\ HasBatch(t) /\ Holding
  BY DEF Commit, Retry, InFlush, HasBatch, SingleWriter, Holding
<1>2. Holding' /\ \A s \in Threads : ~HasBatch(s)'
  BY <1>1, ReturnHolding DEF Commit, Retry
<1>. QED
  BY <1>1, <1>2 DEF Commit, Retry, SingleWriter, Holding

LEMMA WriterMoves ==
  ASSUME TypeOK, SingleWriter, Moves
  PROVE  SingleWriter' /\ \A s \in Threads : HasBatch(s)' <=> HasBatch(s)
<1>. USE ThreadFacts
<1>1. CASE \E t \in Threads : Lock(t)
  BY <1>1, WriterLock
<1>2. CASE Tick \/ TickerExit
  <2>1. /\ ~InFlush(Ticker) /\ writeMu' = writeMu /\ UNCHANGED batch
        /\ Goto(Ticker, "lock") \/ Goto(Ticker, "exited")
    BY <1>2 DEF Tick, TickerExit, InFlush
  <2>. QED
    BY <2>1, MoveOutside
<1>3. CASE GracefulStop \/ ForcedStop \/ CloseStop \/ FinalFlush \/ NilAppenders
  <2>1. /\ ~InFlush(Stopper) /\ writeMu' = writeMu /\ UNCHANGED batch
        /\ \E label \in {"draining", "wait", "lock", "stopped"} : Goto(Stopper, label)
    BY <1>3 DEF GracefulStop, ForcedStop, CloseStop, FinalFlush, NilAppenders, InFlush
  <2>. QED
    BY <2>1, MoveOutside
<1>4. CASE ArchiverLock \/ ArchiverUnlock
  BY <1>4 DEF ArchiverLock, ArchiverUnlock, SingleWriter, InFlush, HasBatch
<1>5. CASE Exit
  BY <1>5 DEF Exit, vars, SingleWriter, InFlush, HasBatch
<1>. QED
  BY <1>1, <1>2, <1>3, <1>4, <1>5 DEF Moves

LEMMA WriterStep == TypeOK /\ SingleWriter /\ [Next]_vars => SingleWriter'
<1>. SUFFICES ASSUME TypeOK, SingleWriter, [Next]_vars PROVE SingleWriter'
  OBVIOUS
<1>1. CASE UNCHANGED vars
  BY <1>1 DEF vars, SingleWriter, InFlush, HasBatch
<1>2. ASSUME NEW tb \in Tables, CloseAppender(tb) PROVE SingleWriter'
  BY <1>2 DEF CloseAppender, SingleWriter, InFlush, HasBatch
<1>. QED
  BY <1>1, <1>2, WriterAccept, WriterPop, WriterAppendBatch, WriterSettle,
     WriterCloseMidBatch, WriterMoves
     DEF Next, FlushStep, Moves

\* At any time at most one thread is inside flushOne, and it holds writeMu.
THEOREM SingleWriterHolds == Spec => []SingleWriter
BY TypeInit, TypeStep, WriterInit, WriterStep, PTL DEF Spec

-----------------------------------------------------------------------------
(* The books: the counters, the drop reports and the limit of one table. *)

Books(tb) ==
  /\ buffer[tb].appended = buffer[tb].flushed + buffer[tb].dropped
                             + Size(buffer[tb].rows) + Size(InFlight(tb))
  /\ buffer[tb].dropped = reported[tb] + buffer[tb].drops
  /\ HardLimit > 0 => Size(buffer[tb].rows) <= HardLimit

LEMMA BooksAreInvariants ==
  (\A tb \in Tables : Books(tb)) <=> Accounting
BY DEF Books, Accounting, PendingLen, Size

\* What is in flight for a table, once it is known who has the batch.
LEMMA NothingInFlight ==
  ASSUME \A s \in Threads : ~HasBatch(s), NEW tb \in Tables
  PROVE  Size(InFlight(tb)) = 0
BY SizeOfEmpty DEF InFlight

LEMMA InFlightOfHolder ==
  ASSUME SingleWriter, NEW t \in Threads, HasBatch(t), NEW tb \in Tables
  PROVE  InFlight(tb) = IF tb = tab[t] THEN batch ELSE << >>
<1>1. \A s \in Threads : HasBatch(s) => s = t
  BY OneBatch DEF SingleWriter, Holding, HasBatch, InFlight, InFlush
<1>. QED
  BY <1>1 DEF InFlight

LEMMA InFlightUnchanged ==
  ASSUME UNCHANGED batch,
         \A s \in Threads : HasBatch(s)' <=> HasBatch(s),
         \A s \in Threads : HasBatch(s) => tab'[s] = tab[s],
         NEW tb \in Tables
  PROVE  InFlight(tb)' = InFlight(tb)
BY DEF InFlight

\* The numbers the books are kept in.
LEMMA BookTypes ==
  ASSUME TypeOK, NEW tb \in Tables
  PROVE  /\ buffer[tb] \in TableBuffers
         /\ Size(buffer[tb].rows) \in Nat /\ Size(InFlight(tb)) \in Nat /\ Size(batch) \in Nat
         /\ buffer[tb].appended \in Nat /\ buffer[tb].flushed \in Nat
         /\ buffer[tb].dropped \in Nat /\ buffer[tb].drops \in Nat
         /\ reported[tb] \in Nat
<1>1. buffer[tb] \in TableBuffers /\ reported[tb] \in Nat /\ batch \in Seq(Nat)
  BY DEF TypeOK
<1>2. Size(batch) \in Nat
  BY <1>1, SizeType
<1>3. Size(InFlight(tb)) \in Nat
  BY <1>2, SizeOfEmpty DEF InFlight
<1>. QED
  BY <1>1, <1>2, <1>3, BufferFields

LEMMA BooksInit == Init => \A tb \in Tables : Books(tb)
<1>. SUFFICES ASSUME Init, NEW tb \in Tables PROVE Books(tb)
  OBVIOUS
<1>1. \A s \in Threads : ~HasBatch(s)
  BY DEF Init, HasBatch
<1>2. Size(InFlight(tb)) = 0
  BY <1>1, NothingInFlight
<1>3. /\ buffer[tb].appended = 0 /\ buffer[tb].flushed = 0 /\ buffer[tb].dropped = 0
      /\ buffer[tb].drops = 0 /\ reported[tb] = 0 /\ Size(buffer[tb].rows) = 0
  BY SizeOfEmpty DEF Init, NewTableBuffer
<1>. QED
  BY <1>2, <1>3, BufferAssumption DEF Books

LEMMA BooksUnchanged ==
  ASSUME NEW tb \in Tables, Books(tb), buffer'[tb] = buffer[tb], reported'[tb] = reported[tb],
         InFlight(tb)' = InFlight(tb)
  PROVE  Books(tb)'
BY DEF Books

LEMMA BooksAccept ==
  ASSUME TypeOK, SingleWriter, NEW tb \in Tables, Books(tb),
         NEW h \in Handlers, NEW at \in Tables, Accept(h, at)
  PROVE  Books(tb)'
<1>. DEFINE b == buffer[tb]
            c == Enqueue(b, b.appended + 1)
<1>1. InFlight(tb)' = InFlight(tb)
  <2>1. /\ UNCHANGED batch
        /\ \A s \in Threads : HasBatch(s)' <=> HasBatch(s)
    BY WriterAccept DEF Accept
  <2>2. \A s \in Threads : HasBatch(s) => tab'[s] = tab[s]
    BY DEF Accept, HasBatch, TypeOK
  <2>. QED
    BY <2>1, <2>2, InFlightUnchanged
<1>2. reported' = reported
  BY DEF Accept
<1>3. CASE tb # at
  <2>1. buffer'[tb] = buffer[tb]
    BY <1>3 DEF Accept, TypeOK
  <2>. QED
    BY <1>1, <1>2, <2>1, BooksUnchanged
<1>4. CASE tb = at
  <2>1. buffer'[tb] = c
    BY <1>4 DEF Accept, TypeOK
  <2>2. b \in TableBuffers /\ b.appended + 1 \in Nat
    BY BookTypes
  <2>3. /\ c.appended = b.appended + 1
        /\ c.flushed = b.flushed
        /\ c.dropped + b.drops = c.drops + b.dropped
        /\ Size(c.rows) + c.dropped = Size(b.rows) + 1 + b.dropped
        /\ (HardLimit > 0 /\ Size(b.rows) <= HardLimit) => Size(c.rows) <= HardLimit
    BY <2>2, EnqueueEffect
  <2>4. c \in TableBuffers
    BY <2>2, EnqueueEffect
  <2>5. Size(c.rows) \in Nat /\ c.dropped \in Nat /\ c.drops \in Nat
    BY <2>4, BufferFields
  <2>6. /\ c.appended = c.flushed + c.dropped + Size(c.rows) + Size(InFlight(tb))
        /\ c.dropped = reported[tb] + c.drops
        /\ HardLimit > 0 => Size(c.rows) <= HardLimit
    <3>. HIDE DEF b, c
    <3>1. /\ b.appended = b.flushed + b.dropped + Size(b.rows) + Size(InFlight(tb))
          /\ b.dropped = reported[tb] + b.drops
          /\ HardLimit > 0 => Size(b.rows) <= HardLimit
      BY DEF Books, b
    <3>2. /\ b.appended \in Nat /\ b.flushed \in Nat /\ b.dropped \in Nat /\ b.drops \in Nat
          /\ Size(b.rows) \in Nat /\ Size(InFlight(tb)) \in Nat /\ reported[tb] \in Nat
      BY BookTypes DEF b
    <3>3. c.appended = c.flushed + c.dropped + Size(c.rows) + Size(InFlight(tb))
      BY <2>3, <2>5, <3>1, <3>2
    <3>4. c.dropped = reported[tb] + c.drops
      <4>1. /\ c.dropped + b.drops = c.drops + b.dropped
            /\ b.dropped = reported[tb] + b.drops
        BY <2>3, <3>1
      <4>2. /\ c.dropped \in Nat /\ c.drops \in Nat
            /\ b.drops \in Nat /\ reported[tb] \in Nat
        BY <2>5, <3>2
      <4>. QED
        BY <4>1, <4>2
    <3>. QED
      BY <2>3, <3>1, <3>3, <3>4
  <2>. QED
    BY <1>1, <1>2, <2>1, <2>6 DEF Books
<1>. QED
  BY <1>3, <1>4

LEMMA BooksPop ==
  ASSUME TypeOK, SingleWriter, NEW tb \in Tables, Books(tb),
         NEW t \in Threads, Pop(t)
  PROVE  Books(tb)'
<1>. DEFINE b == buffer[tb]
            c == PopAll(b)
<1>1. /\ \A s \in Threads : ~HasBatch(s)
      /\ \A s \in Threads : HasBatch(s)' => s = t /\ ~nilled /\ tab'[t] = tab[t]
      /\ SingleWriter'
  BY WriterPop
<1>2. Size(InFlight(tb)) = 0
  BY <1>1, NothingInFlight
<1>3. CASE nilled
  <2>1. Size(InFlight(tb)') = 0
    BY <1>1, <1>3, SizeOfEmpty DEF InFlight
  <2>2. buffer' = buffer /\ reported' = reported
    BY <1>3 DEF Pop
  <2>. QED
    BY <1>2, <2>1, <2>2 DEF Books
<1>4. CASE ~nilled /\ tb # tab[t]
  <2>1. Size(InFlight(tb)') = 0
    BY <1>1, <1>4, SizeOfEmpty DEF InFlight
  <2>2. buffer'[tb] = buffer[tb] /\ reported'[tb] = reported[tb]
    BY <1>4 DEF Pop, TypeOK
  <2>. QED
    BY <1>2, <2>1, <2>2 DEF Books
<1>5. CASE ~nilled /\ tb = tab[t]
  <2>1. /\ buffer'[tb] = c /\ reported'[tb] = reported[tb] + b.drops
        /\ batch' = b.rows
    BY <1>5 DEF Pop, TypeOK
  <2>2. Size(InFlight(tb)') = Size(b.rows)
    <3>1. CASE b.rows = << >>
      BY <2>1, <3>1 DEF InFlight
    <3>2. CASE b.rows # << >>
      <4>1. \E s \in Threads : HasBatch(s)'
        BY <1>1, <2>1, <3>2 DEF SingleWriter
      <4>. QED
        BY <1>1, <1>5, <2>1, <4>1 DEF InFlight
    <3>. QED
      BY <3>1, <3>2
  <2>3. b \in TableBuffers
    BY BookTypes
  <2>4. /\ c.appended = b.appended /\ c.flushed = b.flushed /\ c.dropped = b.dropped
        /\ c.drops = 0 /\ Size(c.rows) = 0
    BY <2>3, PopAllEffect, SizeOfEmpty
  <2>5. /\ c.appended = c.flushed + c.dropped + Size(c.rows) + Size(InFlight(tb)')
        /\ c.dropped = reported'[tb] + c.drops
        /\ HardLimit > 0 => Size(c.rows) <= HardLimit
    <3>. HIDE DEF b, c
    <3>1. /\ b.appended = b.flushed + b.dropped + Size(b.rows) + Size(InFlight(tb))
          /\ b.dropped = reported[tb] + b.drops
      BY DEF Books, b
    <3>2. /\ b.appended \in Nat /\ b.flushed \in Nat /\ b.dropped \in Nat /\ b.drops \in Nat
          /\ Size(b.rows) \in Nat /\ reported[tb] \in Nat
      BY BookTypes DEF b
    <3>3. reported'[tb] = reported[tb] + b.drops
      BY <2>1
    <3>. QED
      BY <1>2, <2>2, <2>4, <3>1, <3>2, <3>3, BufferAssumption
  <2>. QED
    BY <2>1, <2>5 DEF Books
<1>. QED
  BY <1>3, <1>4, <1>5

LEMMA BooksAppendBatch ==
  ASSUME TypeOK, SingleWriter, NEW tb \in Tables, Books(tb),
         NEW t \in Threads, AppendBatch(t)
  PROVE  Books(tb)'
<1>1. UNCHANGED <<buffer, batch, tab, reported>>
  BY DEF AppendBatch, AppenderClosed, RowRefused, FlushSucceeds, FlushFails, Writing, history
<1>2. InFlight(tb)' = InFlight(tb)
  BY <1>1, WriterAppendBatch, InFlightUnchanged
<1>. QED
  BY <1>1, <1>2, BooksUnchanged

LEMMA BooksCommit ==
  ASSUME TypeOK, SingleWriter, NEW tb \in Tables, Books(tb),
         NEW t \in Threads, Commit(t)
  PROVE  Books(tb)'
<1>. DEFINE b == buffer[tb]
            c == AddFlushed(b, Size(batch))
<1>1. HasBatch(t) /\ \A s \in Threads : ~HasBatch(s)'
  BY WriterSettle
<1>2. InFlight(tb) = IF tb = tab[t] THEN batch ELSE << >>
  BY <1>1, InFlightOfHolder
<1>3. Size(InFlight(tb)') = 0
  BY <1>1, SizeOfEmpty DEF InFlight
<1>4. reported' = reported
  BY DEF Commit, history
<1>5. CASE tb # tab[t]
  <2>1. buffer'[tb] = buffer[tb] /\ Size(InFlight(tb)) = 0
    BY <1>2, <1>5, SizeOfEmpty DEF Commit, TypeOK
  <2>. QED
    BY <1>3, <1>4, <2>1 DEF Books
<1>6. CASE tb = tab[t]
  <2>1. buffer'[tb] = c
    BY <1>6 DEF Commit, TypeOK, Size
  <2>2. b \in TableBuffers /\ Size(batch) \in Nat
    BY BookTypes
  <2>3. c = [b EXCEPT !.flushed = b.flushed + Size(batch)]
    BY <2>2, AddFlushedEffect
  <2>4. /\ c.appended = b.appended /\ c.flushed = b.flushed + Size(batch)
        /\ c.dropped = b.dropped /\ c.drops = b.drops /\ c.rows = b.rows
    BY <2>2, <2>3 DEF TableBuffers
  <2>5. /\ c.appended = c.flushed + c.dropped + Size(c.rows) + Size(InFlight(tb)')
        /\ c.dropped = reported'[tb] + c.drops
        /\ HardLimit > 0 => Size(c.rows) <= HardLimit
    <3>. HIDE DEF b, c
    <3>1. /\ b.appended = b.flushed + b.dropped + Size(b.rows) + Size(batch)
          /\ b.dropped = reported[tb] + b.drops
          /\ HardLimit > 0 => Size(b.rows) <= HardLimit
      BY <1>2, <1>6 DEF Books, b
    <3>2. /\ b.appended \in Nat /\ b.flushed \in Nat /\ b.dropped \in Nat /\ b.drops \in Nat
          /\ Size(b.rows) \in Nat /\ Size(batch) \in Nat /\ reported[tb] \in Nat
      BY BookTypes DEF b
    <3>3. Size(c.rows) = Size(b.rows) /\ reported'[tb] = reported[tb]
      BY <1>4, <2>4
    <3>. QED
      BY <1>3, <2>4, <3>1, <3>2, <3>3
  <2>. QED
    BY <2>1, <2>5 DEF Books
<1>. QED
  BY <1>5, <1>6

LEMMA BooksRetry ==
  ASSUME TypeOK, SingleWriter, NEW tb \in Tables, Books(tb),
         NEW t \in Threads, Retry(t)
  PROVE  Books(tb)'
<1>. DEFINE b == buffer[tb]
            e == AddFlushError(b)
            c == Pushback(e, batch)
<1>1. HasBatch(t) /\ \A s \in Threads : ~HasBatch(s)'
  BY WriterSettle
<1>2. InFlight(tb) = IF tb = tab[t] THEN batch ELSE << >>
  BY <1>1, InFlightOfHolder
<1>3. Size(InFlight(tb)') = 0
  BY <1>1, SizeOfEmpty DEF InFlight
<1>4. reported' = reported
  BY DEF Retry
<1>5. CASE tb # tab[t]
  <2>1. buffer'[tb] = buffer[tb] /\ Size(InFlight(tb)) = 0
    BY <1>2, <1>5, SizeOfEmpty DEF Retry, TypeOK
  <2>. QED
    BY <1>3, <1>4, <2>1 DEF Books
<1>6. CASE tb = tab[t]
  <2>1. buffer'[tb] = c
    BY <1>6 DEF Retry, TypeOK
  <2>2. b \in TableBuffers /\ batch \in Seq(Nat) /\ batch # << >>
    BY <1>1, BookTypes DEF TypeOK, SingleWriter
  <2>3. e \in TableBuffers /\ e = [b EXCEPT !.errors = e.errors]
    BY <2>2, AddFlushErrorEffect
  <2>4. /\ e.appended = b.appended /\ e.flushed = b.flushed /\ e.dropped = b.dropped
        /\ e.drops = b.drops /\ e.rows = b.rows
    <3>. HIDE DEF e
    <3>. QED
      BY <2>2, <2>3 DEF TableBuffers
  <2>5. /\ c \in TableBuffers
        /\ c.appended = e.appended /\ c.flushed = e.flushed
        /\ c.dropped + e.drops = c.drops + e.dropped
        /\ Size(c.rows) + c.dropped = Size(e.rows) + Size(batch) + e.dropped
        /\ HardLimit > 0 => Size(c.rows) <= HardLimit
    <3>. HIDE DEF e
    <3>. QED
      BY <2>2, <2>3, PushbackEffect
  <2>6. Size(c.rows) \in Nat /\ c.dropped \in Nat /\ c.drops \in Nat
    BY <2>5, BufferFields
  <2>7. /\ c.appended = c.flushed + c.dropped + Size(c.rows) + Size(InFlight(tb)')
        /\ c.dropped = reported'[tb] + c.drops
        /\ HardLimit > 0 => Size(c.rows) <= HardLimit
    <3>. HIDE DEF b, e, c
    <3>1. /\ b.appended = b.flushed + b.dropped + Size(b.rows) + Size(batch)
          /\ b.dropped = reported[tb] + b.drops
      BY <1>2, <1>6 DEF Books, b
    <3>2. /\ b.appended \in Nat /\ b.flushed \in Nat /\ b.dropped \in Nat /\ b.drops \in Nat
          /\ Size(b.rows) \in Nat /\ Size(batch) \in Nat /\ reported[tb] \in Nat
      BY BookTypes DEF b
    <3>3. /\ c.appended = b.appended /\ c.flushed = b.flushed
          /\ c.dropped + b.drops = c.drops + b.dropped
          /\ Size(c.rows) + c.dropped = Size(b.rows) + Size(batch) + b.dropped
          /\ HardLimit > 0 => Size(c.rows) <= HardLimit
          /\ reported'[tb] = reported[tb]
      BY <1>4, <2>4, <2>5
    <3>4. c.appended = c.flushed + c.dropped + Size(c.rows) + Size(InFlight(tb)')
      BY <1>3, <2>6, <3>1, <3>2, <3>3
    <3>5. c.dropped = reported'[tb] + c.drops
      BY <2>6, <3>1, <3>2, <3>3
    <3>. QED
      BY <3>3, <3>4, <3>5
  <2>. QED
    BY <2>1, <2>7 DEF Books
<1>. QED
  BY <1>5, <1>6

LEMMA BooksMoves ==
  ASSUME TypeOK, SingleWriter, NEW tb \in Tables, Books(tb), Moves
  PROVE  Books(tb)'
<1>1. UNCHANGED <<buffer, batch, reported>>
  BY DEF Moves, Lock, Tick, TickerExit, GracefulStop, ForcedStop, CloseStop, FinalFlush,
     NilAppenders, ArchiverLock, ArchiverUnlock, Exit, history, vars
<1>2. UNCHANGED tab
  BY DEF Moves, Lock, Tick, TickerExit, GracefulStop, ForcedStop, CloseStop, FinalFlush,
     NilAppenders, ArchiverLock, ArchiverUnlock, Exit, vars
<1>3. InFlight(tb)' = InFlight(tb)
  BY <1>1, <1>2, WriterMoves, InFlightUnchanged
<1>. QED
  BY <1>1, <1>3, BooksUnchanged

LEMMA BooksStep ==
  ASSUME TypeOK, SingleWriter, NEW tb \in Tables, Books(tb), [Next]_vars
  PROVE  Books(tb)'
<1>1. CASE UNCHANGED vars
  BY <1>1 DEF vars, Books, InFlight, HasBatch
<1>2. ASSUME NEW at \in Tables, CloseAppender(at) PROVE Books(tb)'
  BY <1>2 DEF CloseAppender, history, Books, InFlight, HasBatch
<1>3. ASSUME NEW t \in Threads, CloseMidBatch(t) PROVE Books(tb)'
  <2>1. UNCHANGED <<buffer, batch, tab, reported>>
    BY <1>3, MidBatchMoves
  <2>2. InFlight(tb)' = InFlight(tb)
    BY <1>3, <2>1, WriterCloseMidBatch, InFlightUnchanged
  <2>. QED
    BY <2>1, <2>2, BooksUnchanged
<1>. QED
  BY <1>1, <1>2, <1>3, BooksAccept, BooksPop, BooksAppendBatch, BooksCommit, BooksRetry,
     BooksMoves DEF Next, FlushStep, Moves

WriterInv == TypeOK /\ SingleWriter /\ \A tb \in Tables : Books(tb)

LEMMA WriterInvInductive ==
  /\ Init => WriterInv
  /\ WriterInv /\ [Next]_vars => WriterInv'
<1>1. Init => WriterInv
  BY TypeInit, WriterInit, BooksInit DEF WriterInv
<1>2. WriterInv /\ [Next]_vars => WriterInv'
  <2>. SUFFICES ASSUME WriterInv, [Next]_vars PROVE WriterInv'
    OBVIOUS
  <2>1. TypeOK' /\ SingleWriter'
    BY TypeStep, WriterStep DEF WriterInv
  <2>2. Tables' = Tables /\ \A tb \in Tables : Books(tb)'
    BY BooksStep DEF WriterInv, Tables
  <2>. QED
    BY <2>1, <2>2 DEF WriterInv
<1>. QED
  BY <1>1, <1>2

\* The writer's books balance at every instant: appended = flushed + dropped +
\* queued + in flight for each table, every drop is reported once, and no queue
\* outgrows the limit.
THEOREM BooksBalance == Spec => []Accounting
<1>1. WriterInv => Accounting
  BY BooksAreInvariants DEF WriterInv
<1>. QED
  BY <1>1, WriterInvInductive, PTL DEF Spec

-----------------------------------------------------------------------------
(* A failed batch comes back whole. *)

\* What flushOne detached fits the limit: it was a queue a moment ago.
BatchFits == HardLimit > 0 => Size(batch) <= HardLimit

LEMMA FitsStep ==
  ASSUME WriterInv, BatchFits, [Next]_vars
  PROVE  BatchFits'
<1>. USE BufferAssumption DEF BatchFits
<1>1. CASE batch' = batch
  BY <1>1
<1>2. CASE batch' = << >>
  BY <1>2, SizeOfEmpty
<1>3. ASSUME NEW t \in Threads, Pop(t), ~nilled PROVE BatchFits'
  <2>1. batch' = buffer[tab[t]].rows /\ tab[t] \in Tables
    BY <1>3 DEF Pop, WriterInv, TypeOK
  <2>. QED
    BY <2>1 DEF WriterInv, Books
<1>4. batch' = batch \/ batch' = << >> \/ \E t \in Threads : Pop(t) /\ ~nilled
  BY DEF Next, FlushStep, Accept, Lock, Pop, AppendBatch, AppenderClosed, RowRefused,
     FlushSucceeds, FlushFails, Writing, Commit, Retry, Tick, TickerExit, GracefulStop,
     ForcedStop, CloseStop, FinalFlush, CloseAppender, CloseMidBatch, NilAppenders,
     ArchiverLock, ArchiverUnlock, Exit, vars
<1>. QED
  BY <1>1, <1>2, <1>3, <1>4

LEMMA RetryKeepsBatch ==
  ASSUME TypeOK, BatchFits, NEW t \in Threads, Retry(t)
  PROVE  SeqElems(batch) \subseteq SeqElems(buffer'[tab[t]].rows)
<1>. DEFINE e == AddFlushError(buffer[tab[t]])
<1>1. tab[t] \in Tables /\ buffer[tab[t]] \in TableBuffers /\ batch \in Seq(Nat)
  BY DEF TypeOK
<1>2. e \in TableBuffers
  BY <1>1, AddFlushErrorEffect
<1>3. buffer'[tab[t]] = Pushback(e, batch)
  BY <1>1 DEF Retry, TypeOK
<1>. HIDE DEF e
<1>4. CASE batch = << >>
  BY <1>4 DEF SeqElems
<1>5. CASE batch # << >>
  <2>1. Pushback(e, batch).rows = KeptOf(e, batch)
    BY <1>1, <1>2, <1>5, PushbackEffect
  <2>2. HardLimit > 0 => Len(batch) <= HardLimit
    BY DEF BatchFits, Size
  <2>. QED
    BY <1>1, <1>2, <1>3, <2>1, <2>2, KeptPrefix
<1>. QED
  BY <1>4, <1>5

\* Only its own Retry moves a thread on from "retry".
LEMMA RetryLeaves ==
  ASSUME TypeOK, NEW t \in Threads, pc[t] = "retry", pc'[t] # "retry", [Next]_vars
  PROVE  Retry(t)
<1>. USE ThreadFacts
<1>1. ASSUME NEW s \in Threads, NEW label, Goto(s, label), pc[s] # "retry" PROVE FALSE
  BY <1>1 DEF Goto, TypeOK
<1>2. ASSUME NEW h \in Handlers, NEW tb \in Tables, Accept(h, tb) PROVE FALSE
  BY <1>1, <1>2 DEF Accept
<1>3. ASSUME NEW s \in Threads, Lock(s) PROVE FALSE
  BY <1>1, <1>3 DEF Lock
<1>4. ASSUME NEW s \in Threads, Return(s), pc[s] # "retry" PROVE FALSE
  BY <1>1, <1>4 DEF Return
<1>5. ASSUME NEW s \in Threads, Pop(s) PROVE FALSE
  BY <1>1, <1>4, <1>5 DEF Pop
<1>6. ASSUME NEW s \in Threads, AppendBatch(s) PROVE FALSE
  BY <1>1, <1>6 DEF AppendBatch, AppenderClosed, RowRefused, FlushSucceeds, FlushFails, Writing
<1>7. ASSUME NEW s \in Threads, Commit(s) PROVE FALSE
  BY <1>4, <1>7 DEF Commit
<1>8. ASSUME NEW s \in Threads, Retry(s) PROVE Retry(t)
  BY <1>8 DEF Retry, Return, Goto, TypeOK
<1>9. ASSUME Tick \/ TickerExit \/ GracefulStop \/ ForcedStop \/ CloseStop \/ FinalFlush
             \/ NilAppenders
      PROVE  FALSE
  BY <1>1, <1>9 DEF Tick, TickerExit, GracefulStop, ForcedStop, CloseStop, FinalFlush, NilAppenders
<1>10. ASSUME \/ \E tb \in Tables : CloseAppender(tb)
              \/ ArchiverLock \/ ArchiverUnlock \/ Exit \/ UNCHANGED vars
       PROVE  FALSE
  BY <1>10 DEF CloseAppender, ArchiverLock, ArchiverUnlock, Exit, vars
<1>11. ASSUME NEW s \in Threads, CloseMidBatch(s) PROVE FALSE
  BY <1>11, MidBatchMoves
<1>. QED
  BY <1>2, <1>3, <1>5, <1>6, <1>7, <1>8, <1>9, <1>10, <1>11 DEF Next, FlushStep

FitsInv == WriterInv /\ BatchFits

LEMMA FitsInductive ==
  /\ Init => FitsInv
  /\ FitsInv /\ [Next]_vars => FitsInv'
<1>1. Init => FitsInv
  BY WriterInvInductive, SizeOfEmpty, BufferAssumption DEF FitsInv, BatchFits, Init
<1>2. FitsInv /\ [Next]_vars => FitsInv'
  BY WriterInvInductive, FitsStep DEF FitsInv
<1>. QED
  BY <1>1, <1>2

LEMMA BatchAlwaysFits == Spec => []FitsInv
BY FitsInductive, PTL DEF Spec

\* A batch that could not be written is back in its table's queue, whole, when its
\* flushOne ends: the limit takes newer rows.
THEOREM FailedBatchReturns == Spec => FailedBatchKept
<1>. DEFINE Step == \A t \in Threads : (pc[t] = "retry" /\ pc'[t] # "retry") =>
                      SeqElems(batch) \subseteq SeqElems(buffer'[tab[t]].rows)
<1>1. FitsInv /\ [Next]_vars => [Step]_vars
  BY RetryLeaves, RetryKeepsBatch DEF FitsInv, WriterInv
<1>2. FailedBatchKept <=> [][Step]_vars
  BY DEF FailedBatchKept
<1>. QED
  BY <1>1, <1>2, BatchAlwaysFits, PTL DEF Spec

-----------------------------------------------------------------------------
(* The eager flush. *)

Backlog(tb) ==
  (buffer[tb].errors = 0 /\ ~nilled) =>
    Size(buffer[tb].rows) <= BatchSize - 1 + Cardinality(Flushers(tb))

LEMMA BacklogIsInvariant == (\A tb \in Tables : Backlog(tb)) <=> BacklogBound
BY DEF Backlog, BacklogBound, PendingLen, Size

LEMMA FlushersType ==
  ASSUME NEW tb
  PROVE  IsFiniteSet(Flushers(tb)) /\ Cardinality(Flushers(tb)) \in Nat
<1>1. Flushers(tb) \in SUBSET Handlers
  BY DEF Flushers
<1>2. IsFiniteSet(Flushers(tb))
  BY <1>1, FS_Subset, WriterAssumption
<1>. QED
  BY <1>2, FS_CardinalityType

\* A step that neither lengthens the queue nor takes a handler from its flush.
LEMMA BacklogKept ==
  ASSUME NEW tb \in Tables, Backlog(tb),
         buffer'[tb].rows = buffer[tb].rows, buffer'[tb].errors = buffer[tb].errors,
         nilled => nilled',
         Flushers(tb)' = Flushers(tb)
  PROVE  Backlog(tb)'
BY DEF Backlog

\* Which handlers a step of another thread, or of a handler that flushes another
\* table, leaves in Flushers.
LEMMA FlushersKept ==
  ASSUME TypeOK, NEW tb \in Tables, NEW t \in Threads,
         \A s \in Threads \ {t} : pc'[s] = pc[s] /\ tab'[s] = tab[s],
         t \in Handlers => /\ ~(pc[t] \in {"lock", "pop"} /\ tab[t] = tb)
                           /\ ~(pc'[t] \in {"lock", "pop"} /\ tab'[t] = tb)
  PROVE  Flushers(tb)' = Flushers(tb)
BY ThreadFacts DEF Flushers

\* Where a handler's flushOne ends, and what it leaves alone.
LEMMA ReturnMoves ==
  ASSUME TypeOK, NEW t \in Threads, Return(t)
  PROVE  /\ \A s \in Threads \ {t} : pc'[s] = pc[s] /\ tab'[s] = tab[s]
         /\ t \in Handlers => pc'[t] = "idle"
BY ThreadFacts DEF Return, Goto, Caller, TypeOK

LEMMA BacklogAccept ==
  ASSUME TypeOK, NEW tb \in Tables, Backlog(tb),
         NEW h \in Handlers, NEW at \in Tables, Accept(h, at)
  PROVE  Backlog(tb)'
<1>. DEFINE b == buffer[tb]
            c == Enqueue(b, b.appended + 1)
<1>1. /\ h \in Threads /\ pc[h] = "idle" /\ UNCHANGED nilled
      /\ \A s \in Threads \ {h} : pc'[s] = pc[s] /\ tab'[s] = tab[s]
      /\ pc' = pc \/ (pc'[h] = "lock" /\ tab'[h] = at)
  BY ThreadFacts DEF Accept, Goto, TypeOK, duckdb
<1>2. CASE tb # at
  <2>1. buffer'[tb] = buffer[tb]
    BY <1>2 DEF Accept, TypeOK
  <2>2. Flushers(tb)' = Flushers(tb)
    BY <1>1, <1>2, FlushersKept
  <2>. QED
    BY <1>1, <2>1, <2>2, BacklogKept
<1>3. CASE tb = at
  <2>1. buffer'[tb] = c
    BY <1>3 DEF Accept, TypeOK
  <2>2. b \in TableBuffers /\ b.appended + 1 \in Nat
    BY BookTypes
  <2>3. c \in TableBuffers /\ c.errors = b.errors
    BY <2>2, EnqueueEffect
  <2>4. Size(c.rows) \in Nat /\ Size(b.rows) \in Nat /\ Size(c.rows) <= Size(b.rows) + 1
    BY <2>2, <2>3, BufferFields, EnqueueLength
  <2>5. CASE ~Due(PendingLen(c))
    <3>1. Size(c.rows) < BatchSize
      BY <2>4, <2>5, WriterAssumption DEF Due, PendingLen, Size
    <3>2. Cardinality(Flushers(tb)') \in Nat
      <4>1. Flushers(tb)' \in SUBSET Handlers
        BY DEF Flushers
      <4>. QED
        BY <4>1, FS_Subset, FS_CardinalityType, WriterAssumption
    <3>3. Size(c.rows) <= BatchSize - 1 + Cardinality(Flushers(tb)')
      BY <2>4, <3>1, <3>2, WriterAssumption
    <3>. QED
      BY <2>1, <3>3 DEF Backlog
  <2>6. CASE Due(PendingLen(c))
    <3>1. pc'[h] = "lock" /\ tab'[h] = tb
      BY <1>3, <2>6 DEF Accept, Goto, TypeOK, Threads
    <3>2. h \notin Flushers(tb) /\ Flushers(tb)' = Flushers(tb) \cup {h}
      BY <1>1, <3>1, ThreadFacts DEF Flushers
    <3>3. /\ Cardinality(Flushers(tb)') = Cardinality(Flushers(tb)) + 1
          /\ Cardinality(Flushers(tb)) \in Nat
      BY <3>2, FlushersType, FS_AddElement
    <3>4. CASE b.errors = 0 /\ ~nilled
      <4>. HIDE DEF b, c
      <4>1. Size(b.rows) <= BatchSize - 1 + Cardinality(Flushers(tb))
        BY <3>4 DEF Backlog, b
      <4>2. BatchSize \in Nat
        BY WriterAssumption
      <4>3. Size(c.rows) <= BatchSize - 1 + Cardinality(Flushers(tb)')
        BY <2>4, <3>3, <4>1, <4>2
      <4>. QED
        BY <2>1, <4>3 DEF Backlog
    <3>5. CASE ~(b.errors = 0 /\ ~nilled)
      BY <1>1, <2>1, <2>3, <3>5 DEF Backlog
    <3>. QED
      BY <3>4, <3>5
  <2>. QED
    BY <2>5, <2>6
<1>. QED
  BY <1>2, <1>3

LEMMA BacklogPop ==
  ASSUME TypeOK, NEW tb \in Tables, Backlog(tb), NEW t \in Threads, Pop(t)
  PROVE  Backlog(tb)'
<1>1. CASE nilled
  BY <1>1 DEF Pop, Backlog, duckdb
<1>2. CASE ~nilled /\ tb = tab[t]
  <2>1. buffer'[tb].rows = << >>
    <3>1. buffer'[tb] = PopAll(buffer[tb]) /\ buffer[tb] \in TableBuffers
      BY <1>2 DEF Pop, TypeOK
    <3>. QED
      BY <3>1, PopAllEffect
  <2>2. Cardinality(Flushers(tb)') \in Nat
    <3>1. Flushers(tb)' \in SUBSET Handlers
      BY DEF Flushers
    <3>. QED
      BY <3>1, FS_Subset, FS_CardinalityType, WriterAssumption
  <2>3. 0 <= BatchSize - 1 + Cardinality(Flushers(tb)')
    BY <2>2, WriterAssumption
  <2>. QED
    BY <2>1, <2>3, SizeOfEmpty DEF Backlog
<1>3. CASE ~nilled /\ tb # tab[t]
  <2>1. buffer'[tb] = buffer[tb] /\ UNCHANGED nilled
    BY <1>3 DEF Pop, TypeOK, duckdb
  <2>2. Return(t) \/ (Goto(t, "write") /\ UNCHANGED tab)
    BY DEF Pop
  <2>3. /\ \A s \in Threads \ {t} : pc'[s] = pc[s] /\ tab'[s] = tab[s]
        /\ t \in Handlers => pc'[t] \in {"idle", "write"}
    BY <2>2, ReturnMoves DEF Goto, TypeOK
  <2>4. Flushers(tb)' = Flushers(tb)
    BY <1>3, <2>3, FlushersKept
  <2>. QED
    BY <2>1, <2>4, BacklogKept
<1>. QED
  BY <1>1, <1>2, <1>3

\* A failed flush is counted, whatever Pushback does with its batch.
LEMMA RetryErrors ==
  ASSUME TypeOK, NEW t \in Threads, Retry(t)
  PROVE  buffer'[tab[t]].errors # 0
<1>. DEFINE b == buffer[tab[t]]
            e == AddFlushError(b)
<1>1. tab[t] \in Tables /\ b \in TableBuffers /\ batch \in Seq(Nat)
  BY DEF TypeOK
<1>2. e \in TableBuffers /\ e.errors > 0
  BY <1>1, AddFlushErrorEffect, BufferAssumption
<1>3. buffer'[tab[t]] = Pushback(e, batch)
  BY <1>1 DEF Retry, TypeOK
<1>. HIDE DEF e
<1>4. Pushback(e, batch).errors = e.errors
  BY <1>1, <1>2, PushbackEffect DEF Pushback
<1>5. e.errors # 0
  BY <1>2
<1>. QED
  BY <1>3, <1>4, <1>5

LEMMA BacklogSettle ==
  ASSUME TypeOK, NEW tb \in Tables, Backlog(tb), NEW t \in Threads,
         AppendBatch(t) \/ Commit(t) \/ Retry(t)
  PROVE  Backlog(tb)'
<1>1. /\ pc[t] \in {"write", "commit", "retry"}
      /\ nilled => nilled'
      /\ Return(t) \/ (UNCHANGED tab /\ (Goto(t, "retry") \/ Goto(t, "commit")))
  BY DEF AppendBatch, AppenderClosed, RowRefused, FlushSucceeds, FlushFails, Writing,
         Commit, Retry, duckdb
<1>2. /\ \A s \in Threads \ {t} : pc'[s] = pc[s] /\ tab'[s] = tab[s]
      /\ t \in Handlers => pc'[t] \in {"idle", "retry", "commit"}
  BY <1>1, ReturnMoves DEF Goto, TypeOK
<1>3. Flushers(tb)' = Flushers(tb)
  BY <1>1, <1>2, FlushersKept
<1>4. tab[t] \in Tables /\ buffer[tb] \in TableBuffers /\ Len(batch) \in Nat
  BY DEF TypeOK
<1>5. CASE AppendBatch(t) \/ tb # tab[t]
  <2>1. buffer'[tb] = buffer[tb]
    BY <1>4, <1>5 DEF AppendBatch, AppenderClosed, RowRefused, FlushSucceeds, FlushFails, Writing,
       Commit, Retry, TypeOK
  <2>. QED
    BY <1>1, <1>3, <2>1, BacklogKept
<1>6. CASE Commit(t) /\ tb = tab[t]
  <2>1. /\ buffer'[tb].rows = buffer[tb].rows
        /\ buffer'[tb].errors = buffer[tb].errors
    BY <1>4, <1>6 DEF Commit, AddFlushed, TypeOK, TableBuffers
  <2>. QED
    BY <1>1, <1>3, <2>1, BacklogKept
<1>7. CASE Retry(t) /\ tb = tab[t]
  BY <1>4, <1>7, RetryErrors DEF Backlog, TypeOK
<1>. QED
  BY <1>5, <1>6, <1>7

LEMMA BacklogMoves ==
  ASSUME TypeOK, NEW tb \in Tables, Backlog(tb), Moves \/ \E at \in Tables : CloseAppender(at)
  PROVE  Backlog(tb)'
<1>. USE ThreadFacts
<1>1. UNCHANGED buffer /\ UNCHANGED tab /\ (nilled => nilled')
  BY DEF Moves, Lock, Tick, TickerExit, GracefulStop, ForcedStop, CloseStop, FinalFlush,
     NilAppenders, ArchiverLock, ArchiverUnlock, Exit, CloseAppender, history, duckdb, vars
<1>2. \A h \in Handlers : pc'[h] = pc[h] \/ (pc[h] = "lock" /\ pc'[h] = "pop")
  BY DEF Moves, Lock, Tick, TickerExit, GracefulStop, ForcedStop, CloseStop, FinalFlush,
     NilAppenders, ArchiverLock, ArchiverUnlock, Exit, CloseAppender, Goto, TypeOK, vars
<1>3. Flushers(tb)' = Flushers(tb)
  BY <1>1, <1>2 DEF Flushers
<1>. QED
  BY <1>1, <1>3, BacklogKept

LEMMA BacklogStep ==
  ASSUME TypeOK, NEW tb \in Tables, Backlog(tb), [Next]_vars
  PROVE  Backlog(tb)'
<1>1. CASE UNCHANGED vars
  BY <1>1, BacklogKept DEF vars, Flushers
<1>2. ASSUME NEW t \in Threads, CloseMidBatch(t) PROVE Backlog(tb)'
  <2>1. Flushers(tb)' = Flushers(tb)
    BY <1>2, MidBatchMoves, FlushersKept
  <2>. QED
    BY <1>2, <2>1, MidBatchMoves, BacklogKept
<1>. QED
  BY <1>1, <1>2, BacklogAccept, BacklogPop, BacklogSettle, BacklogMoves DEF Next, FlushStep, Moves

\* Until a flush of a table fails, its queue is at most BatchSize - 1 rows longer
\* than the number of handlers on their way to flush it.
THEOREM BacklogBounded == Spec => []BacklogBound
<1>. DEFINE Inv == TypeOK /\ \A tb \in Tables : Backlog(tb)
<1>1. Init => Inv
  <2>. SUFFICES ASSUME Init, NEW tb \in Tables PROVE Backlog(tb)
    BY TypeInit
  <2>1. Size(buffer[tb].rows) = 0
    BY SizeOfEmpty DEF Init, NewTableBuffer
  <2>2. 0 <= BatchSize - 1 + Cardinality(Flushers(tb))
    BY FlushersType, WriterAssumption
  <2>. QED
    BY <2>1, <2>2 DEF Backlog
<1>2. Inv /\ [Next]_vars => Inv'
  <2>. SUFFICES ASSUME Inv, [Next]_vars PROVE Inv'
    OBVIOUS
  <2>1. Tables' = Tables /\ \A tb \in Tables : Backlog(tb)'
    BY BacklogStep DEF Tables
  <2>. QED
    BY <2>1, TypeStep
<1>3. Inv => BacklogBound
  BY BacklogIsInvariant
<1>. QED
  BY <1>1, <1>2, <1>3, PTL DEF Spec

-----------------------------------------------------------------------------
(* The stop. *)

\* Where the threads are, once shutdown has begun.
Places ==
  /\ nilled <=> pc[Stopper] = "stopped"
  /\ pc[Stopper] \in {"serving", "draining", "wait"} => tab[Stopper] = 1
  /\ pc[Stopper] \notin {"serving", "draining", "wait"} => pc[Ticker] = "exited"
  /\ StopClosed => writeMu # Archiver
  /\ grpc = "drained" => pc[Stopper] # "serving" /\ \A h \in Handlers : pc[h] = "idle"

\* What a flushOne of t does to the places.
LEMMA FlushPlaces ==
  ASSUME TypeOK, NEW t \in Threads, Lock(t) \/ FlushStep(t)
  PROVE  /\ \A s \in Threads \ {t} : pc'[s] = pc[s] /\ tab'[s] = tab[s]
         /\ pc[t] \in {"lock", "pop", "write", "commit", "retry"}
         /\ pc'[t] \in {"lock", "pop", "write", "commit", "retry", Caller(t)}
         /\ UNCHANGED <<grpc, nilled>>
         /\ writeMu' \in {writeMu, t, Free}
<1>. USE ThreadFacts
<1>1. ASSUME Return(t)
      PROVE  /\ \A s \in Threads \ {t} : pc'[s] = pc[s] /\ tab'[s] = tab[s]
             /\ pc'[t] \in {"lock", Caller(t)} /\ writeMu' = Free
  BY <1>1 DEF Return, Goto, TypeOK
<1>2. ASSUME NEW label, Goto(t, label)
      PROVE  pc'[t] = label /\ \A s \in Threads \ {t} : pc'[s] = pc[s]
  BY <1>2 DEF Goto, TypeOK
<1>3. CASE Lock(t)
  BY <1>2, <1>3 DEF Lock, duckdb
<1>4. CASE Pop(t)
  BY <1>1, <1>2, <1>4 DEF Pop, duckdb
<1>5. CASE AppendBatch(t)
  BY <1>2, <1>5 DEF AppendBatch, AppenderClosed, RowRefused, FlushSucceeds, FlushFails, Writing, duckdb
<1>6. CASE Commit(t) \/ Retry(t)
  BY <1>1, <1>6 DEF Commit, Retry, duckdb
<1>. QED
  BY <1>3, <1>4, <1>5, <1>6 DEF FlushStep

LEMMA PlacesInit == Init => Places
BY ThreadFacts DEF Init, Places, StopClosed

LEMMA PlacesStep ==
  ASSUME TypeOK, Places, [Next]_vars
  PROVE  Places'
<1>. USE ThreadFacts DEF Places, StopClosed
<1>1. ASSUME NEW h \in Handlers, NEW tb \in Tables, Accept(h, tb) PROVE Places'
  <2>1. /\ \A s \in Threads \ {h} : pc'[s] = pc[s] /\ tab'[s] = tab[s]
        /\ grpc # "drained" /\ UNCHANGED <<grpc, nilled, writeMu>>
    BY <1>1 DEF Accept, Goto, TypeOK, duckdb
  <2>2. h # Stopper /\ h # Ticker /\ Stopper \in Threads /\ Ticker \in Threads
    OBVIOUS
  <2>. QED
    BY <2>1, <2>2
<1>2. ASSUME NEW t \in Threads, Lock(t) \/ FlushStep(t) PROVE Places'
  <2>1. /\ \A s \in Threads \ {t} : pc'[s] = pc[s] /\ tab'[s] = tab[s]
        /\ pc[t] \in {"lock", "pop", "write", "commit", "retry"}
        /\ pc'[t] \in {"lock", "pop", "write", "commit", "retry", Caller(t)}
        /\ UNCHANGED <<grpc, nilled>>
        /\ writeMu' \in {writeMu, t, Free}
    BY <1>2, FlushPlaces
  <2>2. CASE t = Stopper
    BY <2>1, <2>2 DEF Caller
  <2>3. CASE t # Stopper
    BY <2>1, <2>3 DEF Caller
  <2>. QED
    BY <2>2, <2>3
<1>3. ASSUME Tick \/ TickerExit PROVE Places'
  BY <1>3 DEF Tick, TickerExit, Goto, TypeOK, duckdb
<1>4. ASSUME GracefulStop \/ ForcedStop \/ CloseStop \/ FinalFlush PROVE Places'
  <2>1. /\ \A s \in Threads \ {Stopper} : pc'[s] = pc[s]
        /\ UNCHANGED <<tab, nilled, writeMu>>
    BY <1>4 DEF GracefulStop, ForcedStop, CloseStop, FinalFlush, Goto, TypeOK, duckdb
  <2>2. CASE GracefulStop
    BY <2>1, <2>2 DEF GracefulStop, Goto, TypeOK
  <2>3. CASE ForcedStop
    BY <2>1, <2>3 DEF ForcedStop, Goto, TypeOK
  <2>4. CASE CloseStop
    BY <2>1, <2>4 DEF CloseStop, Goto, TypeOK
  <2>5. CASE FinalFlush
    BY <2>1, <2>5 DEF FinalFlush, Goto, TypeOK
  <2>. QED
    BY <1>4, <2>2, <2>3, <2>4, <2>5
<1>5. ASSUME NilAppenders PROVE Places'
  BY <1>5 DEF NilAppenders, Goto, TypeOK
<1>6. ASSUME ArchiverLock \/ ArchiverUnlock PROVE Places'
  BY <1>6 DEF ArchiverLock, ArchiverUnlock, duckdb
<1>7. ASSUME Exit \/ UNCHANGED vars PROVE Places'
  BY <1>7 DEF Exit, vars
<1>8. ASSUME NEW tb \in Tables, CloseAppender(tb) PROVE Places'
  BY <1>8 DEF CloseAppender
<1>9. ASSUME NEW t \in Threads, CloseMidBatch(t) PROVE Places'
  <2>1. /\ pc[Stopper] = "close" /\ pc'[Stopper] = "close"
        /\ pc[t] = "write" /\ \A s \in Threads \ {t} : pc'[s] = pc[s]
        /\ UNCHANGED <<tab, grpc, nilled, writeMu>>
    BY <1>9, MidBatchMoves
  <2>2. t # Ticker /\ (grpc = "drained" => t \notin Handlers)
    BY <2>1
  <2>. QED
    BY <2>1, <2>2
<1>. QED
  BY <1>1, <1>2, <1>3, <1>4, <1>5, <1>6, <1>7, <1>8, <1>9 DEF Next

\* The tables before the k-th hold nothing that no flush has failed to write.
EmptiedBelow(k) ==
  \A tb \in Tables : tb < k => (buffer[tb].errors = 0 => buffer[tb].rows = << >>)

\* How far Stop's flushAll has come.
Emptied ==
  grpc = "drained" =>
    /\ pc[Stopper] \in {"lock", "pop"} => EmptiedBelow(tab[Stopper])
    /\ pc[Stopper] \in {"write", "commit", "retry"} => EmptiedBelow(tab[Stopper] + 1)
    /\ pc[Stopper] \in {"close", "stopped"} => EmptiedBelow(NTables + 1)

\* A flushOne of Stop's that leaves its table, and those before it, emptied.
LEMMA ReturnEmptied ==
  ASSUME TypeOK, Return(Stopper),
         \A tb \in Tables : tb < tab[Stopper] + 1 =>
           (buffer'[tb].errors = 0 => buffer'[tb].rows = << >>)
  PROVE  Emptied'
<1>1. tab[Stopper] \in 1 .. NTables /\ NTables \in Nat /\ Stopper \in Threads /\ Stopper \notin Handlers
  BY ThreadFacts, WriterAssumption DEF TypeOK, Tables
<1>2. CASE pc'[Stopper] = "lock" /\ tab'[Stopper] = tab[Stopper] + 1
  BY <1>2 DEF Emptied, EmptiedBelow, Tables
<1>3. CASE pc'[Stopper] = "close" /\ tab[Stopper] = NTables
  BY <1>3 DEF Emptied, EmptiedBelow, Tables
<1>4. \/ pc'[Stopper] = "lock" /\ tab'[Stopper] = tab[Stopper] + 1
      \/ pc'[Stopper] = "close" /\ tab[Stopper] = NTables
  BY <1>1, ThreadFacts DEF Return, Goto, Caller, TypeOK
<1>. QED
  BY <1>2, <1>3, <1>4

LEMMA EmptiedFlush ==
  ASSUME TypeOK, Places, Emptied, grpc = "drained", FlushStep(Stopper)
  PROVE  Emptied'
<1>. DEFINE k == tab[Stopper]
<1>1. /\ Stopper \in Threads /\ k \in Tables /\ buffer[k] \in TableBuffers
      /\ k \in Nat /\ Tables \subseteq Nat
  BY ThreadFacts DEF TypeOK, Tables
<1>2. \A m, n \in Nat : n < m + 1 <=> n < m \/ n = m
  OBVIOUS
<1>3. CASE Pop(Stopper)
  <2>1. pc[Stopper] = "pop" /\ ~nilled
    BY <1>3 DEF Pop, Places
  <2>2. EmptiedBelow(k)
    BY <2>1 DEF Emptied
  <2>3. buffer' = [buffer EXCEPT ![k] = PopAll(buffer[k])] /\ PopAll(buffer[k]).rows = << >>
    BY <1>1, <1>3, <2>1, PopAllEffect DEF Pop
  <2>4. \A tb \in Tables : tb < k + 1 => (buffer'[tb].errors = 0 => buffer'[tb].rows = << >>)
    BY <1>1, <1>2, <2>2, <2>3 DEF EmptiedBelow, TypeOK
  <2>5. CASE Return(Stopper)
    BY <2>4, <2>5, ReturnEmptied
  <2>6. CASE Goto(Stopper, "write") /\ UNCHANGED tab
    BY <1>1, <2>4, <2>6 DEF Emptied, EmptiedBelow, Goto, TypeOK, Tables
  <2>. QED
    BY <1>3, <2>1, <2>5, <2>6 DEF Pop
<1>4. CASE AppendBatch(Stopper)
  <2>1. /\ pc[Stopper] = "write" /\ UNCHANGED <<buffer, tab>>
        /\ Goto(Stopper, "retry") \/ Goto(Stopper, "commit")
    BY <1>4 DEF AppendBatch, AppenderClosed, RowRefused, FlushSucceeds, FlushFails, Writing
  <2>2. pc'[Stopper] \in {"retry", "commit"}
    BY <1>1, <2>1 DEF Goto, TypeOK
  <2>. QED
    BY <2>1, <2>2 DEF Emptied, EmptiedBelow, Tables
<1>5. CASE Commit(Stopper)
  <2>1. EmptiedBelow(k + 1) /\ Return(Stopper)
    BY <1>5 DEF Emptied, Commit
  <2>2. /\ \A tb \in Tables : buffer'[tb].rows = buffer[tb].rows
        /\ \A tb \in Tables : buffer'[tb].errors = buffer[tb].errors
    BY <1>1, <1>5 DEF Commit, AddFlushed, TypeOK, TableBuffers
  <2>. QED
    BY <2>1, <2>2, ReturnEmptied DEF EmptiedBelow
<1>6. CASE Retry(Stopper)
  <2>1. EmptiedBelow(k + 1) /\ Return(Stopper)
    BY <1>6 DEF Emptied, Retry
  <2>2. \A tb \in Tables : tb # k => buffer'[tb] = buffer[tb]
    BY <1>1, <1>6 DEF Retry, TypeOK
  <2>3. buffer'[k].errors # 0
    BY <1>1, <1>6, RetryErrors
  <2>4. \A tb \in Tables : tb < k + 1 => (buffer'[tb].errors = 0 => buffer'[tb].rows = << >>)
    BY <2>1, <2>2, <2>3 DEF EmptiedBelow
  <2>. QED
    BY <2>1, <2>4, ReturnEmptied
<1>. QED
  BY <1>3, <1>4, <1>5, <1>6 DEF FlushStep

\* Steps that change no queue, and move Stop's thread from one place to a place
\* from which as many tables are known to be empty, or fewer.
LEMMA EmptiedMove ==
  ASSUME Emptied, UNCHANGED <<buffer, tab>>,
         grpc' = "drained" =>
           \/ grpc = "drained" /\ pc'[Stopper] = pc[Stopper]
           \/ pc'[Stopper] \in {"serving", "draining", "wait"}
           \/ grpc = "drained" /\ pc[Stopper] \in {"close", "stopped"} /\ pc'[Stopper] = "stopped"
           \/ grpc = "drained" /\ pc[Stopper] = "lock" /\ pc'[Stopper] = "pop"
  PROVE  Emptied'
BY DEF Emptied, EmptiedBelow, Tables

LEMMA EmptiedStep ==
  ASSUME TypeOK, Places, Emptied, [Next]_vars
  PROVE  Emptied'
<1>. USE ThreadFacts
<1>1. ASSUME NEW h \in Handlers, NEW tb \in Tables, Accept(h, tb) PROVE Emptied'
  BY <1>1 DEF Accept, Emptied
<1>2. ASSUME NEW t \in Threads, Lock(t) PROVE Emptied'
  <2>1. /\ UNCHANGED <<buffer, tab, grpc>> /\ pc[t] = "lock" /\ pc'[t] = "pop"
        /\ \A s \in Threads \ {t} : pc'[s] = pc[s]
    BY <1>2 DEF Lock, Goto, TypeOK
  <2>2. pc'[Stopper] = pc[Stopper] \/ (pc[Stopper] = "lock" /\ pc'[Stopper] = "pop")
    BY <2>1
  <2>. QED
    BY <2>1, <2>2, EmptiedMove
<1>3. ASSUME NEW t \in Threads, FlushStep(t) PROVE Emptied'
  <2>1. /\ \A s \in Threads \ {t} : pc'[s] = pc[s] /\ tab'[s] = tab[s]
        /\ pc[t] \in {"lock", "pop", "write", "commit", "retry"}
        /\ UNCHANGED grpc
    BY <1>3, FlushPlaces
  <2>2. CASE t = Stopper /\ grpc = "drained"
    BY <1>3, <2>2, EmptiedFlush
  <2>3. CASE grpc # "drained"
    BY <2>1, <2>3 DEF Emptied
  <2>4. CASE t # Stopper /\ grpc = "drained"
    <3>1. t = Ticker
      BY <2>1, <2>4 DEF Places, Threads
    <3>2. pc[Stopper] \in {"serving", "draining", "wait"} /\ pc'[Stopper] = pc[Stopper]
      BY <2>1, <3>1 DEF Places
    <3>. QED
      BY <3>2 DEF Emptied
  <2>. QED
    BY <2>2, <2>3, <2>4
<1>4. ASSUME Tick \/ TickerExit PROVE Emptied'
  <2>1. UNCHANGED <<buffer, tab, grpc>> /\ pc'[Stopper] = pc[Stopper]
    BY <1>4 DEF Tick, TickerExit, Goto, TypeOK
  <2>. QED
    BY <2>1, EmptiedMove
<1>5. ASSUME GracefulStop \/ ForcedStop \/ CloseStop PROVE Emptied'
  <2>1. UNCHANGED <<buffer, tab>> /\ pc'[Stopper] \in {"draining", "wait"}
    BY <1>5 DEF GracefulStop, ForcedStop, CloseStop, Goto, TypeOK
  <2>. QED
    BY <2>1, EmptiedMove
<1>6. ASSUME FinalFlush PROVE Emptied'
  <2>1. pc'[Stopper] = "lock" /\ tab'[Stopper] = 1
    BY <1>6 DEF FinalFlush, Goto, Places, TypeOK
  <2>. QED
    BY <2>1 DEF Emptied, EmptiedBelow, Tables
<1>7. ASSUME NilAppenders PROVE Emptied'
  <2>1. /\ UNCHANGED <<buffer, tab, grpc>>
        /\ pc[Stopper] = "close" /\ pc'[Stopper] = "stopped"
    BY <1>7 DEF NilAppenders, Goto, TypeOK
  <2>. QED
    BY <2>1, EmptiedMove
<1>8. ASSUME ArchiverLock \/ ArchiverUnlock \/ Exit \/ UNCHANGED vars
             \/ \E tb \in Tables : CloseAppender(tb)
      PROVE  Emptied'
  <2>1. UNCHANGED <<buffer, tab, grpc, pc>>
    BY <1>8 DEF ArchiverLock, ArchiverUnlock, Exit, CloseAppender, vars
  <2>. QED
    BY <2>1, EmptiedMove
<1>9. ASSUME NEW t \in Threads, CloseMidBatch(t) PROVE Emptied'
  <2>1. UNCHANGED <<buffer, tab, grpc>> /\ pc'[Stopper] = pc[Stopper]
    BY <1>9, MidBatchMoves
  <2>. QED
    BY <2>1, EmptiedMove
<1>. QED
  BY <1>1, <1>2, <1>3, <1>4, <1>5, <1>6, <1>7, <1>8, <1>9 DEF Next

\* A graceful stop closes the appenders when nobody is left to use them, and leaves
\* rows behind only in a table whose flush failed.
THEOREM DrainedWhenStopped == Spec => []DrainedAtStop
<1>. DEFINE Inv == TypeOK /\ SingleWriter /\ Places /\ Emptied
<1>1. Init => Inv
  <2>1. Init => Emptied
    BY ThreadFacts DEF Init, Emptied
  <2>. QED
    BY <2>1, TypeInit, WriterInit, PlacesInit
<1>2. Inv /\ [Next]_vars => Inv'
  BY TypeStep, WriterStep, PlacesStep, EmptiedStep
<1>3. Inv => DrainedAtStop
  <2>. SUFFICES ASSUME Inv, grpc = "drained", pc[Stopper] \in {"close", "stopped"}
                PROVE  /\ writeMu = Free
                       /\ pc[Ticker] = "exited"
                       /\ \A h \in Handlers : pc[h] = "idle"
                       /\ pc[Stopper] = "stopped" =>
                            \A tb \in Tables : buffer[tb].errors = 0 => buffer[tb].rows = << >>
    BY DEF DrainedAtStop
  <2>1. pc[Ticker] = "exited" /\ \A h \in Handlers : pc[h] = "idle"
    BY DEF Places
  <2>2. \A t \in Threads : ~InFlush(t)
    BY <2>1 DEF InFlush, Threads
  <2>3. writeMu = Free
    <3>1. StopClosed
      BY DEF StopClosed
    <3>. QED
      BY <2>2, <3>1 DEF SingleWriter, TypeOK, Places
  <2>4. \A tb \in Tables : buffer[tb].errors = 0 => buffer[tb].rows = << >>
    <3>1. \A tb \in Tables : tb < NTables + 1
      BY WriterAssumption DEF Tables
    <3>. QED
      BY <3>1 DEF Emptied, EmptiedBelow
  <2>. QED
    BY <2>1, <2>3, <2>4
<1>. QED
  BY <1>1, <1>2, <1>3, PTL DEF Spec
-----------------------------------------------------------------------------
(* The order of the rows, and RowSink. *)

In(tb)  == SeqElems(buffer[tb].rows)
Out(tb) == SeqElems(InFlight(tb))

\* A thread is at label in a flushOne of table tb.
At(tb, label) == \E t \in Threads : pc[t] = label /\ tab[t] = tb

\* The rows in memory are in the order of their Append calls, none of them was
\* dropped, and what is neither in memory nor dropped is older than them all.
Ordered(tb) ==
  /\ buffer[tb].appended <= MaxRows
  /\ Increasing(buffer[tb].rows) /\ Increasing(InFlight(tb))
  /\ \A m \in Out(tb), n \in In(tb) : m < n
  /\ In(tb) \cup Out(tb) \cup dropped[tb] \subseteq 1 .. buffer[tb].appended
  /\ dropped[tb] \cap (In(tb) \cup Out(tb)) = {}
  /\ \A n \in (1 .. buffer[tb].appended) \ (In(tb) \cup Out(tb) \cup dropped[tb]) :
       \A m \in In(tb) \cup Out(tb) : n < m

\* What has left memory undropped is in the table.
Held(tb) ==
  /\ \A n \in (1 .. buffer[tb].appended) \ (In(tb) \cup Out(tb) \cup dropped[tb]) : stored[tb][n] > 0
  /\ At(tb, "commit") => \A n \in Out(tb) : stored[tb][n] > 0

\* The rows in memory of which the appender holds a copy are the oldest ones.
Staging(tb) ==
  /\ \A n \in RowIds : staged[tb][n] > 0 \/ stored[tb][n] > 0 => n <= buffer[tb].appended
  /\ \A n \in RowIds, m \in In(tb) \cup Out(tb) : staged[tb][n] > 0 /\ m < n => staged[tb][m] > 0
  /\ InFlight(tb) # << >> => \A n \in In(tb) : staged[tb][n] = 0

\* The rows that are not in the table, unless something failed.
Unwritten(tb) == In(tb) \cup dropped[tb] \cup (IF At(tb, "write") THEN Out(tb) ELSE {})

\* Until a flush fails the appender holds nothing between flushes, and the table
\* holds each row once from its flush on.
Clean(tb) ==
  (buffer[tb].errors = 0 /\ ~At(tb, "retry")) =>
    \A n \in RowIds :
      /\ staged[tb][n] = 0
      /\ n <= buffer[tb].appended => stored[tb][n] = IF n \in Unwritten(tb) THEN 0 ELSE 1

TableInv(tb) == Ordered(tb) /\ Held(tb) /\ Staging(tb) /\ Clean(tb)
AllTables == \A tb \in Tables : TableInv(tb)

-----------------------------------------------------------------------------
(* The steps of the writer, seen from one table. *)

QueueSame(tb) ==
  /\ buffer'[tb].rows = buffer[tb].rows /\ buffer'[tb].appended = buffer[tb].appended
  /\ buffer'[tb].errors = buffer[tb].errors
  /\ dropped'[tb] = dropped[tb]

FlushSame(tb) ==
  /\ InFlight(tb)' = InFlight(tb)
  /\ \A label \in {"write", "commit", "retry"} : At(tb, label)' <=> At(tb, label)

DataSame(tb) == staged'[tb] = staged[tb] /\ stored'[tb] = stored[tb]

NoFlush(tb) == InFlight(tb) = << >> /\ \A label \in {"write", "commit", "retry"} : ~At(tb, label)

Quiet(tb) == QueueSame(tb) /\ FlushSame(tb) /\ DataSame(tb)

Accepted(tb) ==
  /\ buffer[tb].appended < MaxRows
  /\ buffer'[tb] = Enqueue(buffer[tb], buffer[tb].appended + 1)
  /\ dropped'[tb] = dropped[tb] \cup Evicted(buffer[tb])
  /\ FlushSame(tb) /\ DataSame(tb)

Popped(tb) ==
  /\ NoFlush(tb)
  /\ buffer'[tb].rows = << >> /\ buffer'[tb].appended = buffer[tb].appended
  /\ buffer'[tb].errors = buffer[tb].errors
  /\ dropped'[tb] = dropped[tb]
  /\ InFlight(tb)' = buffer[tb].rows
  /\ ~At(tb, "commit")' /\ ~At(tb, "retry")' /\ (InFlight(tb)' # << >> => At(tb, "write")')
  /\ DataSame(tb)

\* AppendBatch: the batch is in the table, or its flush has failed.
Wrote(tb) ==
  /\ InFlight(tb) # << >> /\ At(tb, "write") /\ ~At(tb, "commit") /\ ~At(tb, "retry")
  /\ InFlight(tb)' = InFlight(tb)
  /\ ~At(tb, "write")' /\ ~At(tb, "retry")'
  /\ stored'[tb] = PlusCopies(stored[tb], staged[tb], Out(tb))
  /\ staged'[tb] = NoCopies
  /\ QueueSame(tb)

Broke(tb) ==
  /\ InFlight(tb) # << >> /\ At(tb, "write") /\ ~At(tb, "commit") /\ ~At(tb, "retry")
  /\ InFlight(tb)' = InFlight(tb)
  /\ ~At(tb, "write")' /\ ~At(tb, "commit")' /\ At(tb, "retry")'
  /\ stored'[tb] = stored[tb]
  /\ staged'[tb] \in {staged[tb], NoCopies,
                      PlusCopies(staged[tb], NoCopies, Prefix(tb, InFlight(tb))),
                      PlusCopies(staged[tb], NoCopies, Out(tb))}
  /\ QueueSame(tb)

Committed(tb) ==
  /\ At(tb, "commit") /\ ~At(tb, "write") /\ ~At(tb, "retry")
  /\ NoFlush(tb)'
  /\ QueueSame(tb) /\ DataSame(tb)

Returned(tb) ==
  LET e == AddFlushError(buffer[tb]) IN
  /\ At(tb, "retry") /\ InFlight(tb) # << >>
  /\ NoFlush(tb)'
  /\ buffer'[tb] = Pushback(e, InFlight(tb))
  /\ dropped'[tb] = dropped[tb] \cup CutOff(buffer[tb], InFlight(tb))
  /\ DataSame(tb)

Closed(tb) ==
  /\ QueueSame(tb) /\ FlushSame(tb)
  /\ staged'[tb] = NoCopies
  /\ stored'[tb] \in {stored[tb], PlusCopies(stored[tb], staged[tb], {})}

\* A close in the middle of a batch.
Interrupted(tb) ==
  /\ InFlight(tb) # << >> /\ InFlight(tb)' = InFlight(tb)
  /\ ~At(tb, "write")' /\ ~At(tb, "commit")' /\ At(tb, "retry")'
  /\ staged'[tb] = NoCopies
  /\ \/ stored'[tb] = stored[tb]
     \/ \E rows \in Beginnings(tb, InFlight(tb)) :
          stored'[tb] = PlusCopies(stored[tb], staged[tb], rows)
  /\ QueueSame(tb)

Active(tb) == Accepted(tb) \/ Popped(tb) \/ Wrote(tb) \/ Broke(tb) \/ Committed(tb)
                \/ Returned(tb) \/ Closed(tb) \/ Interrupted(tb)

\* A step of the writer is a step of one table at most.
OthersQuiet == \E at \in Tables : /\ Active(at) \/ Quiet(at)
                                  /\ \A tb \in Tables \ {at} : Quiet(tb)

\* Who may be at a table: nobody, or the one thread that has the batch.
LEMMA AtHolder ==
  ASSUME SingleWriter, NEW t \in Threads, HasBatch(t), NEW tb \in Tables,
         NEW label \in {"write", "commit", "retry"}
  PROVE  At(tb, label) <=> (pc[t] = label /\ tab[t] = tb)
<1>1. \A s \in Threads : HasBatch(s) => s = t
  BY OneBatch DEF SingleWriter, Holding, HasBatch, InFlush
<1>. QED
  BY <1>1 DEF At, HasBatch

LEMMA AtNobody ==
  ASSUME \A s \in Threads : ~HasBatch(s), NEW tb \in Tables
  PROVE  NoFlush(tb)
BY DEF NoFlush, At, HasBatch, InFlight

\* A step that moves nobody with a batch leaves every table's flush as it is.
LEMMA FlushKept ==
  ASSUME UNCHANGED batch,
         \A s \in Threads : HasBatch(s) \/ HasBatch(s)' => pc'[s] = pc[s] /\ tab'[s] = tab[s],
         NEW tb \in Tables
  PROVE  FlushSame(tb)
BY DEF FlushSame, InFlight, At, HasBatch

LEMMA AcceptSteps ==
  ASSUME TypeOK, SingleWriter, NEW h \in Handlers, NEW at \in Tables, Accept(h, at)
  PROVE  Accepted(at) /\ \A tb \in Tables \ {at} : Quiet(tb)
<1>1. \A s \in Threads : HasBatch(s) \/ HasBatch(s)' => pc'[s] = pc[s] /\ tab'[s] = tab[s]
  BY ThreadFacts DEF Accept, Goto, TypeOK, HasBatch
<1>2. UNCHANGED batch /\ \A tb \in Tables : DataSame(tb)
  BY DEF Accept, duckdb, DataSame
<1>3. \A tb \in Tables : FlushSame(tb)
  BY <1>1, <1>2, FlushKept
<1>4. /\ buffer[at].appended < MaxRows
      /\ buffer'[at] = Enqueue(buffer[at], buffer[at].appended + 1)
      /\ dropped'[at] = dropped[at] \cup Evicted(buffer[at])
      /\ \A tb \in Tables \ {at} : buffer'[tb] = buffer[tb] /\ dropped'[tb] = dropped[tb]
  BY DEF Accept, TypeOK
<1>. QED
  BY <1>2, <1>3, <1>4 DEF Accepted, Quiet, QueueSame

LEMMA PopSteps ==
  ASSUME TypeOK, SingleWriter, NEW t \in Threads, Pop(t),
         NEW at \in Tables, at = tab[t]
  PROVE  /\ Popped(at) \/ Quiet(at)
         /\ \A tb \in Tables \ {at} : Quiet(tb)
<1>1. /\ SingleWriter'
      /\ \A s \in Threads : ~HasBatch(s)
      /\ \A s \in Threads : HasBatch(s)' => s = t /\ ~nilled /\ tab'[t] = tab[t]
  BY WriterPop
<1>2. \A tb \in Tables : NoFlush(tb) /\ DataSame(tb) /\ dropped' = dropped
  BY <1>1, AtNobody DEF Pop, duckdb, DataSame
<1>3. at \in Tables /\ buffer[at] \in TableBuffers
  BY DEF TypeOK
<1>4. CASE nilled
  <2>1. \A s \in Threads : ~HasBatch(s)'
    BY <1>1, <1>4
  <2>2. \A tb \in Tables : NoFlush(tb)'
    BY <2>1, AtNobody DEF NoFlush, At, HasBatch, InFlight
  <2>. QED
    BY <1>2, <1>4, <2>2 DEF Pop, Quiet, QueueSame, FlushSame, NoFlush
<1>5. CASE ~nilled
  <2>1. /\ buffer' = [buffer EXCEPT ![at] = PopAll(buffer[at])]
        /\ batch' = buffer[at].rows
    BY <1>5 DEF Pop
  <2>2. /\ buffer'[at].rows = << >> /\ buffer'[at].appended = buffer[at].appended
        /\ buffer'[at].errors = buffer[at].errors
    BY <1>3, <2>1, PopAllEffect DEF TypeOK
  <2>3. \A tb \in Tables \ {at} : buffer'[tb] = buffer[tb]
    BY <1>3, <2>1 DEF TypeOK
  <2>4. \A s \in Threads : HasBatch(s)' => tab'[s] = at
    BY <1>1
  <2>5. \A tb \in Tables \ {at} : NoFlush(tb)'
    BY <2>4 DEF NoFlush, At, HasBatch, InFlight
  <2>6. (batch' # << >> => (pc'[t] = "write" /\ tab'[t] = at))
    BY <1>5 DEF Pop, Goto, TypeOK
  <2>7. batch' # << >> <=> \E s \in Threads : HasBatch(s)'
    BY <1>1 DEF SingleWriter
  <2>8. /\ InFlight(at)' = buffer[at].rows
        /\ ~At(at, "commit")' /\ ~At(at, "retry")' /\ (InFlight(at)' # << >> => At(at, "write")')
    <3>1. CASE batch' = << >>
      BY <2>1, <2>7, <3>1 DEF InFlight, At, HasBatch
    <3>2. CASE batch' # << >>
      <4>1. HasBatch(t)' /\ pc'[t] = "write" /\ tab'[t] = at
        BY <2>6, <3>2 DEF HasBatch
      <4>2. \A s \in Threads : HasBatch(s)' => s = t
        BY <1>1
      <4>. QED
        BY <2>1, <4>1, <4>2 DEF InFlight, At, HasBatch
    <3>. QED
      BY <3>1, <3>2
  <2>9. Popped(at)
    BY <1>2, <1>3, <2>2, <2>8 DEF Popped
  <2>10. \A tb \in Tables \ {at} : Quiet(tb)
    BY <1>2, <2>3, <2>5 DEF Quiet, QueueSame, FlushSame, NoFlush
  <2>. QED
    BY <2>9, <2>10
<1>. QED
  BY <1>4, <1>5

LEMMA AppendBatchSteps ==
  ASSUME TypeOK, SingleWriter, NEW t \in Threads, AppendBatch(t),
         NEW at \in Tables, at = tab[t]
  PROVE  /\ Wrote(at) \/ Broke(at)
         /\ \A tb \in Tables \ {at} : Quiet(tb)
<1>1. /\ SingleWriter' /\ HasBatch(t) /\ HasBatch(t)'
  <2>1. pc[t] = "write"
    BY DEF AppendBatch, AppenderClosed, RowRefused, FlushSucceeds, FlushFails, Writing
  <2>. QED
    BY <2>1, WriterAppendBatch DEF HasBatch
<1>2. /\ pc[t] = "write" /\ UNCHANGED <<buffer, batch, tab, dropped>>
      /\ at \in Tables /\ tab'[t] = at
      /\ Goto(t, "retry") \/ Goto(t, "commit")
  BY DEF AppendBatch, AppenderClosed, RowRefused, FlushSucceeds, FlushFails, Writing, history, TypeOK
<1>3. \A tb \in Tables : QueueSame(tb)
  BY <1>2 DEF QueueSame
<1>4. \A tb \in Tables, label \in {"write", "commit", "retry"} :
        At(tb, label) <=> (label = "write" /\ tb = at)
  BY <1>1, <1>2, AtHolder
<1>5. \A tb \in Tables, label \in {"write", "commit", "retry"} :
        At(tb, label)' <=> (pc'[t] = label /\ tb = at)
  <2>1. \A s \in Threads : HasBatch(s)' => s = t
    BY <1>1 DEF SingleWriter, HasBatch, InFlush
  <2>. QED
    BY <1>2, <2>1 DEF At, HasBatch
<1>6. InFlight(at) = batch /\ InFlight(at)' = batch /\ batch # << >>
  BY <1>1, <1>2 DEF InFlight, SingleWriter
<1>7. \A tb \in Tables \ {at} : InFlight(tb) = << >> /\ InFlight(tb)' = << >>
  <2>1. \A s \in Threads : (HasBatch(s) => s = t) /\ (HasBatch(s)' => s = t)
    BY <1>1 DEF SingleWriter, HasBatch, InFlush
  <2>. QED
    BY <1>2, <2>1 DEF InFlight
<1>8. \A tb \in Tables \ {at} : FlushSame(tb)
  BY <1>4, <1>5, <1>7 DEF FlushSame
<1>9. CASE FlushSucceeds(t)
  <2>1. /\ stored' = [stored EXCEPT ![at] = PlusCopies(stored[at], staged[at], SeqElems(batch))]
        /\ staged' = [staged EXCEPT ![at] = NoCopies]
        /\ pc'[t] = "commit"
    BY <1>9 DEF FlushSucceeds, Goto, TypeOK
  <2>2. \A tb \in Tables \ {at} : DataSame(tb)
    BY <1>2, <2>1 DEF DataSame, TypeOK
  <2>3. Wrote(at)
    BY <1>2, <1>3, <1>4, <1>5, <1>6, <2>1 DEF Wrote, Out, TypeOK
  <2>. QED
    BY <1>3, <1>8, <2>2, <2>3 DEF Quiet
<1>10. CASE AppenderClosed(t) \/ RowRefused(t) \/ FlushFails(t)
  <2>1. stored' = stored /\ pc'[t] = "retry"
    BY <1>10 DEF AppenderClosed, RowRefused, FlushFails, Goto, TypeOK, duckdb
  <2>2. \/ staged' = staged
        \/ staged' = [staged EXCEPT ![at] = PlusCopies(staged[at], NoCopies, Prefix(at, batch))]
        \/ staged' = [staged EXCEPT ![at] = NoCopies]
        \/ staged' = [staged EXCEPT ![at] = PlusCopies(staged[at], NoCopies, SeqElems(batch))]
    BY <1>10 DEF AppenderClosed, RowRefused, FlushFails, duckdb
  <2>3. \A tb \in Tables \ {at} : DataSame(tb)
    BY <1>2, <2>1, <2>2 DEF DataSame, TypeOK
  <2>4. staged'[at] \in {staged[at], NoCopies,
                         PlusCopies(staged[at], NoCopies, Prefix(at, batch)),
                         PlusCopies(staged[at], NoCopies, SeqElems(batch))}
    BY <1>2, <2>2 DEF TypeOK
  <2>5. Broke(at)
    BY <1>2, <1>3, <1>4, <1>5, <1>6, <2>1, <2>4 DEF Broke, Out
  <2>. QED
    BY <1>3, <1>8, <2>3, <2>5 DEF Quiet
<1>. QED
  BY <1>9, <1>10 DEF AppendBatch

LEMMA SettleSteps ==
  ASSUME TypeOK, SingleWriter, NEW t \in Threads, Commit(t) \/ Retry(t),
         NEW at \in Tables, at = tab[t]
  PROVE  /\ Committed(at) \/ Returned(at)
         /\ \A tb \in Tables \ {at} : Quiet(tb)
<1>. DEFINE b == buffer[at]
<1>1. SingleWriter' /\ HasBatch(t) /\ \A s \in Threads : ~HasBatch(s)'
  BY WriterSettle
<1>2. \A tb \in Tables : NoFlush(tb)' /\ DataSame(tb)
  BY <1>1 DEF NoFlush, At, HasBatch, InFlight, Commit, Retry, duckdb, DataSame
<1>3. at \in Tables /\ b \in TableBuffers /\ batch \in Seq(Nat)
  BY DEF TypeOK
<1>4. \A tb \in Tables, label \in {"write", "commit", "retry"} :
        At(tb, label) <=> (pc[t] = label /\ tb = at)
  BY <1>1, AtHolder
<1>5. /\ InFlight(at) = batch /\ batch # << >>
      /\ \A tb \in Tables \ {at} : InFlight(tb) = << >>
  BY <1>1, <1>3, InFlightOfHolder DEF SingleWriter
<1>6. \A tb \in Tables \ {at} : buffer'[tb] = buffer[tb] /\ dropped'[tb] = dropped[tb]
  BY DEF Commit, Retry, history, TypeOK
<1>7. \A tb \in Tables \ {at} : Quiet(tb)
  BY <1>2, <1>4, <1>5, <1>6 DEF Quiet, QueueSame, FlushSame, NoFlush
<1>8. CASE Commit(t)
  <2>1. buffer'[at] = AddFlushed(b, Len(batch)) /\ dropped' = dropped /\ pc[t] = "commit"
    BY <1>3, <1>8 DEF Commit, history, TypeOK
  <2>2. QueueSame(at)
    BY <1>3, <2>1 DEF QueueSame, AddFlushed, TableBuffers
  <2>. QED
    BY <1>2, <1>3, <1>4, <1>7, <2>1, <2>2 DEF Committed
<1>9. CASE Retry(t)
  <2>1. /\ buffer'[at] = Pushback(AddFlushError(b), batch)
        /\ dropped'[at] = dropped[at] \cup CutOff(b, batch)
        /\ pc[t] = "retry"
    BY <1>3, <1>9 DEF Retry, TypeOK
  <2>. QED
    BY <1>2, <1>3, <1>4, <1>5, <1>7, <2>1 DEF Returned
<1>. QED
  BY <1>8, <1>9

LEMMA CloseSteps ==
  ASSUME TypeOK, NEW at \in Tables, CloseAppender(at)
  PROVE  Closed(at) /\ \A tb \in Tables \ {at} : Quiet(tb)
<1>1. UNCHANGED <<buffer, batch, pc, tab, dropped>>
  BY DEF CloseAppender, history
<1>2. \A tb \in Tables : QueueSame(tb) /\ FlushSame(tb)
  BY <1>1 DEF QueueSame, FlushSame, InFlight, At, HasBatch
<1>3. /\ staged'[at] = NoCopies
      /\ stored'[at] \in {stored[at], PlusCopies(stored[at], staged[at], {})}
      /\ \A tb \in Tables \ {at} : DataSame(tb)
  BY DEF CloseAppender, DataSame, TypeOK
<1>. QED
  BY <1>2, <1>3 DEF Closed, Quiet

LEMMA CloseMidBatchSteps ==
  ASSUME TypeOK, SingleWriter, NEW t \in Threads, CloseMidBatch(t),
         NEW at \in Tables, at = tab[t]
  PROVE  /\ Interrupted(at)
         /\ \A tb \in Tables \ {at} : Quiet(tb)
<1>1. /\ SingleWriter' /\ HasBatch(t) /\ HasBatch(t)'
      /\ pc[t] = "write" /\ pc'[t] = "retry"
      /\ UNCHANGED <<buffer, batch, tab, dropped>>
  BY WriterCloseMidBatch, MidBatchMoves DEF HasBatch
<1>2. \A s \in Threads : (HasBatch(s) => s = t) /\ (HasBatch(s)' => s = t)
  BY <1>1 DEF SingleWriter, HasBatch, InFlush
<1>3. /\ InFlight(at) = batch /\ InFlight(at)' = batch /\ batch # << >>
      /\ \A tb \in Tables \ {at} : InFlight(tb) = << >> /\ InFlight(tb)' = << >>
  BY <1>1, <1>2 DEF InFlight, SingleWriter
<1>4. \A tb \in Tables, label \in {"write", "commit", "retry"} :
        /\ At(tb, label) <=> (label = "write" /\ tb = at)
        /\ At(tb, label)' <=> (label = "retry" /\ tb = at)
  BY <1>1, <1>2 DEF At, HasBatch
<1>5. \A tb \in Tables : QueueSame(tb)
  BY <1>1 DEF QueueSame
<1>6. /\ \A tb \in Tables \ {at} : DataSame(tb)
      /\ staged'[at] = NoCopies
      /\ \/ stored'[at] = stored[at]
         \/ \E rows \in Beginnings(at, batch) :
              stored'[at] = PlusCopies(stored[at], staged[at], rows)
  BY DEF CloseMidBatch, DataSame, TypeOK
<1>7. \A tb \in Tables \ {at} : Quiet(tb)
  BY <1>3, <1>4, <1>5, <1>6 DEF Quiet, FlushSame
<1>8. Interrupted(at)
  BY <1>3, <1>4, <1>5, <1>6 DEF Interrupted
<1>. QED
  BY <1>7, <1>8

LEMMA MoveSteps ==
  ASSUME TypeOK, SingleWriter, Moves \/ UNCHANGED vars, NEW tb \in Tables
  PROVE  Quiet(tb)
<1>1. UNCHANGED <<buffer, batch, tab, staged, stored, dropped>>
  BY DEF Moves, Lock, Tick, TickerExit, GracefulStop, ForcedStop, CloseStop, FinalFlush,
     NilAppenders, ArchiverLock, ArchiverUnlock, Exit, history, duckdb, vars
<1>2. \A s \in Threads : HasBatch(s) \/ HasBatch(s)' => pc'[s] = pc[s]
  BY ThreadFacts DEF Moves, Lock, Tick, TickerExit, GracefulStop, ForcedStop, CloseStop, FinalFlush,
     NilAppenders, ArchiverLock, ArchiverUnlock, Exit, Goto, HasBatch, TypeOK, vars
<1>3. FlushSame(tb)
  BY <1>1, <1>2, FlushKept
<1>. QED
  BY <1>1, <1>3 DEF Quiet, QueueSame, DataSame

LEMMA TableSteps ==
  ASSUME TypeOK, SingleWriter, [Next]_vars
  PROVE  OthersQuiet
<1>. USE DEF OthersQuiet, Active
<1>1. 1 \in Tables
  BY ThreadFacts
<1>2. ASSUME NEW h \in Handlers, NEW at \in Tables, Accept(h, at) PROVE OthersQuiet
  BY <1>2, AcceptSteps
<1>3. ASSUME NEW t \in Threads, Pop(t) PROVE OthersQuiet
  BY <1>3, PopSteps DEF TypeOK
<1>4. ASSUME NEW t \in Threads, AppendBatch(t) PROVE OthersQuiet
  BY <1>4, AppendBatchSteps DEF TypeOK
<1>5. ASSUME NEW t \in Threads, Commit(t) \/ Retry(t) PROVE OthersQuiet
  BY <1>5, SettleSteps DEF TypeOK
<1>6. ASSUME NEW at \in Tables, CloseAppender(at) PROVE OthersQuiet
  BY <1>6, CloseSteps
<1>7. ASSUME Moves \/ UNCHANGED vars PROVE OthersQuiet
  BY <1>1, <1>7, MoveSteps
<1>8. ASSUME NEW t \in Threads, CloseMidBatch(t) PROVE OthersQuiet
  BY <1>8, CloseMidBatchSteps DEF TypeOK
<1>. QED
  BY <1>2, <1>3, <1>4, <1>5, <1>6, <1>7, <1>8 DEF Next, FlushStep, Moves

-----------------------------------------------------------------------------
(* What each step of a table does to the order of its rows. *)

\* The queue and the batch of a table are sequences of row numbers.
LEMMA RowTypes ==
  ASSUME TypeOK, NEW tb \in Tables
  PROVE  /\ buffer[tb] \in TableBuffers
         /\ buffer[tb].rows \in Seq(Nat) /\ InFlight(tb) \in Seq(Nat)
         /\ buffer[tb].appended \in Nat /\ buffer[tb].errors \in Nat
         /\ In(tb) \subseteq Nat /\ Out(tb) \subseteq Nat
         /\ staged[tb] \in [RowIds -> Nat] /\ stored[tb] \in [RowIds -> Nat]
<1>1. /\ buffer[tb] \in TableBuffers /\ batch \in Seq(Nat) /\ << >> \in Seq(Nat)
      /\ staged[tb] \in [RowIds -> Nat] /\ stored[tb] \in [RowIds -> Nat]
  BY DEF TypeOK
<1>2. buffer[tb].rows \in Seq(Nat) /\ InFlight(tb) \in Seq(Nat)
  BY <1>1, BufferFields DEF InFlight
<1>3. buffer[tb].appended \in Nat /\ buffer[tb].errors \in Nat
  BY <1>1, BufferFields
<1>. QED
  BY <1>1, <1>2, <1>3, ElemsOf DEF In, Out

LEMMA EmptyOrder == Increasing(<< >>) /\ SeqElems(<< >>) = {}
BY DEF Increasing, SeqElems

LEMMA OrderedSame ==
  ASSUME NEW tb, Ordered(tb), QueueSame(tb), InFlight(tb)' = InFlight(tb)
  PROVE  Ordered(tb)'
<1>1. In(tb)' = In(tb) /\ Out(tb)' = Out(tb)
  BY DEF QueueSame, In, Out
<1>. QED
  BY <1>1 DEF Ordered, QueueSame

\* What an Append leaves.
LEMMA AcceptedRows ==
  ASSUME TypeOK, NEW tb \in Tables, Ordered(tb), Accepted(tb)
  PROVE  LET x == buffer[tb].appended + 1
             gone == Evicted(buffer[tb])
         IN  /\ x \in RowIds /\ buffer'[tb].appended = x
             /\ \A n \in 1 .. buffer[tb].appended : n < x /\ n \in 1 .. x
             /\ \A n \in 1 .. x : n = x \/ n \in 1 .. buffer[tb].appended
             /\ x \in 1 .. x /\ x \notin 1 .. buffer[tb].appended
             /\ gone = {} \/ \E n \in In(tb) : gone = {n}
             /\ gone \subseteq In(tb)
             /\ In(tb)' = (In(tb) \ gone) \cup {x}
             /\ Out(tb)' = Out(tb) /\ InFlight(tb)' = InFlight(tb)
             /\ In(tb) \cap Out(tb) = {}
             /\ dropped'[tb] = dropped[tb] \cup gone
             /\ Increasing(buffer'[tb].rows)
             /\ buffer'[tb].errors = buffer[tb].errors
<1>. DEFINE b == buffer[tb]
            x == b.appended + 1
            c == Enqueue(b, x)
<1>1. b \in TableBuffers /\ b.appended \in Nat /\ x \in Nat
  BY RowTypes
<1>2. Increasing(b.rows) /\ SeqElems(b.rows) \subseteq 1 .. b.appended
  BY DEF Ordered, In
<1>3. /\ Increasing(c.rows)
      /\ SeqElems(c.rows) = (In(tb) \ Evicted(b)) \cup {x}
      /\ Evicted(b) = {} \/ \E n \in In(tb) : Evicted(b) = {n}
  BY <1>1, <1>2, EnqueueOrder DEF In
<1>4. c.appended = x /\ c.errors = b.errors
  BY <1>1, EnqueueEffect
<1>5. /\ buffer'[tb].rows = c.rows /\ buffer'[tb].appended = x
      /\ buffer'[tb].errors = b.errors
      /\ dropped'[tb] = dropped[tb] \cup Evicted(b)
      /\ InFlight(tb)' = InFlight(tb) /\ Out(tb)' = Out(tb)
      /\ b.appended < MaxRows
  BY <1>4 DEF Accepted, FlushSame, Out
<1>6. In(tb)' = (In(tb) \ Evicted(b)) \cup {x}
  BY <1>3, <1>5 DEF In
<1>. HIDE DEF c
<1>7. /\ x \in RowIds
      /\ \A n \in 1 .. b.appended : n < x /\ n \in 1 .. x
      /\ \A n \in 1 .. x : n = x \/ n \in 1 .. b.appended
      /\ x \in 1 .. x /\ x \notin 1 .. b.appended
  BY <1>1, <1>5, WriterAssumption DEF RowIds
<1>8. In(tb) \cap Out(tb) = {}
  <2>1. In(tb) \subseteq Nat
    BY RowTypes
  <2>2. \A n \in Nat : ~(n < n)
    OBVIOUS
  <2>. QED
    BY <2>1, <2>2 DEF Ordered
<1>9. Evicted(b) \subseteq In(tb)
  BY <1>3
<1>. QED
  BY <1>3, <1>5, <1>6, <1>7, <1>8, <1>9

LEMMA OrderedAccepted ==
  ASSUME TypeOK, NEW tb \in Tables, Ordered(tb), Accepted(tb)
  PROVE  Ordered(tb)'
<1>. DEFINE a == buffer[tb].appended
            x == a + 1
            gone == Evicted(buffer[tb])
<1>1. /\ x \in RowIds /\ buffer'[tb].appended = x
      /\ \A n \in 1 .. a : n < x /\ n \in 1 .. x
      /\ \A n \in 1 .. x : n = x \/ n \in 1 .. a
      /\ x \in 1 .. x /\ x \notin 1 .. a
      /\ gone \subseteq In(tb)
      /\ In(tb)' = (In(tb) \ gone) \cup {x}
      /\ Out(tb)' = Out(tb) /\ InFlight(tb)' = InFlight(tb)
      /\ In(tb) \cap Out(tb) = {}
      /\ dropped'[tb] = dropped[tb] \cup gone
      /\ Increasing(buffer'[tb].rows)
  BY AcceptedRows
<1>. HIDE DEF x, gone
<1>2. /\ In(tb) \cup Out(tb) \cup dropped[tb] \subseteq 1 .. a
      /\ dropped[tb] \cap (In(tb) \cup Out(tb)) = {}
      /\ \A m \in Out(tb), n \in In(tb) : m < n
      /\ \A n \in (1 .. a) \ (In(tb) \cup Out(tb) \cup dropped[tb]) :
            \A m \in In(tb) \cup Out(tb) : n < m
      /\ Increasing(InFlight(tb))
  BY DEF Ordered
<1>. HIDE DEF a
<1>3. x <= MaxRows
  BY <1>1, WriterAssumption DEF RowIds
<1>4. \A m \in Out(tb)', n \in In(tb)' : m < n
  BY <1>1, <1>2
<1>5. In(tb)' \cup Out(tb)' \cup dropped'[tb] \subseteq 1 .. x
  BY <1>1, <1>2
<1>6. dropped'[tb] \cap (In(tb)' \cup Out(tb)') = {}
  BY <1>1, <1>2
<1>7. \A n \in (1 .. x) \ (In(tb)' \cup Out(tb)' \cup dropped'[tb]) :
         \A m \in In(tb)' \cup Out(tb)' : n < m
  <2>. SUFFICES ASSUME NEW n \in (1 .. x) \ (In(tb)' \cup Out(tb)' \cup dropped'[tb]),
                       NEW m \in In(tb)' \cup Out(tb)'
                PROVE  n < m
    OBVIOUS
  <2>1. n \in (1 .. a) \ (In(tb) \cup Out(tb) \cup dropped[tb])
    BY <1>1
  <2>2. CASE m = x
    BY <1>1, <2>1, <2>2
  <2>3. CASE m \in In(tb) \cup Out(tb)
    BY <1>2, <2>1, <2>3
  <2>. QED
    BY <1>1, <2>2, <2>3
<1>. QED
  BY <1>1, <1>2, <1>3, <1>4, <1>5, <1>6, <1>7 DEF Ordered

LEMMA OrderedPopped ==
  ASSUME TypeOK, NEW tb \in Tables, Ordered(tb), Popped(tb)
  PROVE  Ordered(tb)'
<1>1. In(tb)' = {} /\ Out(tb)' = In(tb) /\ Out(tb) = {}
  BY EmptyOrder DEF Popped, NoFlush, In, Out
<1>2. /\ Increasing(buffer'[tb].rows) /\ Increasing(InFlight(tb)')
  BY EmptyOrder DEF Popped, Ordered
<1>. QED
  BY <1>1, <1>2 DEF Ordered, Popped

LEMMA OrderedCommitted ==
  ASSUME TypeOK, NEW tb \in Tables, Ordered(tb), Committed(tb)
  PROVE  Ordered(tb)'
<1>1. In(tb)' = In(tb) /\ Out(tb)' = {} /\ InFlight(tb)' = << >>
  BY EmptyOrder DEF Committed, QueueSame, NoFlush, In, Out
<1>. QED
  BY <1>1, EmptyOrder DEF Ordered, Committed, QueueSame

\* What a Pushback of the batch in flight leaves.
LEMMA ReturnedRows ==
  ASSUME FitsInv, NEW tb \in Tables, Ordered(tb), Returned(tb)
  PROVE  LET cut == CutOff(buffer[tb], InFlight(tb))
         IN  /\ Increasing(buffer'[tb].rows)
             /\ In(tb)' \cup cut = In(tb) \cup Out(tb)
             /\ In(tb)' \cap cut = {}
             /\ \A n \in In(tb)', m \in cut : n < m
             /\ Out(tb) \subseteq In(tb)'
             /\ InFlight(tb)' = << >> /\ Out(tb)' = {}
             /\ buffer'[tb].appended = buffer[tb].appended
             /\ buffer'[tb].errors # 0
             /\ dropped'[tb] = dropped[tb] \cup cut
<1>. DEFINE b == buffer[tb]
            q == InFlight(tb)
            e == AddFlushError(b)
<1>1. TypeOK /\ b \in TableBuffers /\ q \in Seq(Nat)
  BY RowTypes DEF FitsInv, WriterInv
<1>2. e \in TableBuffers /\ e = [b EXCEPT !.errors = e.errors] /\ e.errors > 0
  BY <1>1, AddFlushErrorEffect, BufferAssumption
<1>3. buffer'[tb] = Pushback(e, q) /\ q # << >>
  BY DEF Returned
<1>. HIDE DEF e
<1>4. e.rows = b.rows /\ e.appended = b.appended
  BY <1>1, <1>2 DEF TableBuffers
<1>5. CutOff(e, q) = CutOff(b, q)
  BY <1>4 DEF CutOff, Merged, KeptOf, Excess
<1>6. HardLimit > 0 => Len(q) <= HardLimit
  <2>1. HardLimit > 0 => Size(batch) <= HardLimit
    BY DEF FitsInv, BatchFits
  <2>2. q = batch
    BY <1>3 DEF InFlight
  <2>. QED
    BY <2>1, <2>2 DEF Size
<1>7. /\ Pushback(e, q).rows = KeptOf(e, q)
      /\ Pushback(e, q).appended = e.appended
      /\ Pushback(e, q).errors = e.errors
  BY <1>1, <1>2, <1>3, PushbackEffect
<1>8. /\ Increasing(q) /\ Increasing(e.rows)
      /\ \A m \in SeqElems(q), n \in SeqElems(e.rows) : m < n
  BY <1>4 DEF Ordered, In, Out
<1>9. /\ Increasing(KeptOf(e, q))
      /\ SeqElems(KeptOf(e, q)) \cup CutOff(e, q) = SeqElems(q) \cup SeqElems(e.rows)
      /\ SeqElems(KeptOf(e, q)) \cap CutOff(e, q) = {}
      /\ \A n \in SeqElems(KeptOf(e, q)), m \in CutOff(e, q) : n < m
  BY <1>1, <1>2, <1>6, <1>8, PushbackOrder
<1>10. SeqElems(q) \subseteq SeqElems(KeptOf(e, q))
  BY <1>1, <1>2, <1>6, KeptPrefix
<1>11. In(tb)' = SeqElems(KeptOf(e, q)) /\ In(tb) = SeqElems(e.rows) /\ Out(tb) = SeqElems(q)
  BY <1>3, <1>4, <1>7 DEF In, Out
<1>12. InFlight(tb)' = << >> /\ Out(tb)' = {} /\ dropped'[tb] = dropped[tb] \cup CutOff(b, q)
  BY EmptyOrder DEF Returned, NoFlush, Out
<1>13. /\ Increasing(buffer'[tb].rows)
       /\ buffer'[tb].appended = b.appended
       /\ buffer'[tb].errors # 0
  BY <1>2, <1>3, <1>4, <1>7, <1>9
<1>. QED
  BY <1>5, <1>9, <1>10, <1>11, <1>12, <1>13

LEMMA OrderedReturned ==
  ASSUME FitsInv, NEW tb \in Tables, Ordered(tb), Returned(tb)
  PROVE  Ordered(tb)'
<1>. DEFINE cut == CutOff(buffer[tb], InFlight(tb))
<1>1. /\ Increasing(buffer'[tb].rows)
      /\ In(tb)' \cup cut = In(tb) \cup Out(tb)
      /\ In(tb)' \cap cut = {}
      /\ InFlight(tb)' = << >> /\ Out(tb)' = {}
      /\ buffer'[tb].appended = buffer[tb].appended
      /\ dropped'[tb] = dropped[tb] \cup cut
  BY ReturnedRows
<1>. HIDE DEF cut
<1>2. Increasing(InFlight(tb)')
  BY <1>1, EmptyOrder
<1>. QED
  BY <1>1, <1>2 DEF Ordered

LEMMA OrderedStep ==
  ASSUME FitsInv, NEW tb \in Tables, Ordered(tb), Active(tb) \/ Quiet(tb)
  PROVE  Ordered(tb)'
<1>1. TypeOK
  BY DEF FitsInv, WriterInv
<1>2. CASE Quiet(tb) \/ Wrote(tb) \/ Broke(tb) \/ Closed(tb) \/ Interrupted(tb)
  BY <1>2, OrderedSame DEF Quiet, Wrote, Broke, Closed, Interrupted, FlushSame
<1>. QED
  BY <1>1, <1>2, OrderedAccepted, OrderedPopped, OrderedCommitted, OrderedReturned DEF Active

-----------------------------------------------------------------------------
(* Where the copies of a row are. *)

\* PlusCopies, row by row: a row has a copy in the sum if it had one in either
\* count or is one of the rows added, and a first copy is one copy.
LEMMA CopiesEffect ==
  ASSUME NEW f \in [RowIds -> Nat], NEW g \in [RowIds -> Nat], NEW rows, NEW n \in RowIds
  PROVE  LET k == PlusCopies(f, g, rows)[n]
         IN  /\ k > 0 <=> (f[n] > 0 \/ g[n] > 0 \/ n \in rows)
             /\ (f[n] = 0 /\ g[n] = 0 /\ n \in rows) => k = 1
             /\ (f[n] = 0 \/ f[n] = 1) /\ g[n] = 0 /\ n \notin rows => k = f[n]
<1>. DEFINE a == IF n \in rows THEN 1 ELSE 0
<1>1. f[n] \in Nat /\ g[n] \in Nat /\ a \in Nat /\ MaxCopies \in Nat /\ MaxCopies > 0
  BY WriterAssumption
<1>2. PlusCopies(f, g, rows)[n] = IF f[n] + g[n] + a > MaxCopies THEN MaxCopies ELSE f[n] + g[n] + a
  BY DEF PlusCopies, Capped
<1>3. (n \in rows <=> a > 0) /\ (n \in rows <=> a = 1) /\ (n \notin rows <=> a = 0)
  OBVIOUS
<1>. HIDE DEF a
<1>. QED
  BY <1>1, <1>2, <1>3

LEMMA NoCopiesEffect == NoCopies \in [RowIds -> Nat] /\ \A n \in RowIds : NoCopies[n] = 0
BY DEF NoCopies

\* The row numbers in play are RowIds.
LEMMA RowsInPlay ==
  ASSUME TypeOK, NEW tb \in Tables, Ordered(tb)
  PROVE  /\ In(tb) \cup Out(tb) \cup dropped[tb] \subseteq RowIds
         /\ 1 .. buffer[tb].appended \subseteq RowIds
         /\ \A n \in 1 .. buffer[tb].appended : n <= buffer[tb].appended
         /\ \A n \in RowIds : n <= buffer[tb].appended <=> n \in 1 .. buffer[tb].appended
<1>1. buffer[tb].appended \in Nat /\ MaxRows \in Nat
  BY RowTypes, WriterAssumption
<1>. QED
  BY <1>1 DEF Ordered, RowIds

\* The beginnings of a batch are sets of its oldest rows.
LEMMA BeginningOldest ==
  ASSUME NEW q \in Seq(Nat), NEW tb, NEW rows \in Beginnings(tb, q)
  PROVE  /\ rows \subseteq SeqElems(q)
         /\ Increasing(q) => \A n \in rows, m \in SeqElems(q) : m < n => m \in rows
<1>1. DOMAIN q = 1 .. Len(q) /\ Len(q) \in Nat /\ \A i \in 1 .. Len(q) : q[i] \in Nat
  BY ElemsOf
<1>2. PICK k \in 0 .. Len(q) : rows = {q[i] : i \in 1 .. k}
  BY DEF Beginnings
<1>3. 1 .. k \subseteq DOMAIN q
  BY <1>1, <1>2
<1>4. rows \subseteq SeqElems(q)
  BY <1>2, <1>3 DEF SeqElems
<1>5. ASSUME Increasing(q), NEW n \in rows, NEW m \in SeqElems(q), m < n PROVE m \in rows
  <2>1. PICK j \in 1 .. k : q[j] = n
    BY <1>2
  <2>2. PICK i \in DOMAIN q : q[i] = m
    BY DEF SeqElems
  <2>3. i \in Nat /\ j \in Nat /\ j \in DOMAIN q /\ m \in Nat /\ n \in Nat
    BY <1>1, <1>3, <2>1, <2>2
  <2>4. ~(j < i) /\ i # j
    BY <1>5, <2>1, <2>2, <2>3 DEF Increasing
  <2>5. i \in 1 .. k
    BY <1>1, <2>1, <2>2, <2>3, <2>4
  <2>. QED
    BY <1>2, <2>2, <2>5
<1>. QED
  BY <1>4, <1>5

\* What is stored after AppendBatch's flush or the appender's close.
LEMMA StoredAfter ==
  ASSUME TypeOK, NEW tb \in Tables, Wrote(tb) \/ Closed(tb) \/ Interrupted(tb), NEW n \in RowIds
  PROVE  /\ stored[tb][n] > 0 => stored'[tb][n] > 0
         /\ stored'[tb][n] > 0 => stored[tb][n] > 0 \/ staged[tb][n] > 0 \/ n \in Out(tb)
         /\ Wrote(tb) /\ n \in Out(tb) => stored'[tb][n] > 0
         /\ staged'[tb][n] = 0
<1>1. staged[tb] \in [RowIds -> Nat] /\ stored[tb] \in [RowIds -> Nat]
  BY RowTypes
<1>2. CASE Wrote(tb)
  <2>1. /\ stored'[tb] = PlusCopies(stored[tb], staged[tb], Out(tb))
        /\ staged'[tb] = NoCopies
    BY <1>2 DEF Wrote
  <2>2. stored'[tb][n] > 0 <=> (stored[tb][n] > 0 \/ staged[tb][n] > 0 \/ n \in Out(tb))
    BY <1>1, <2>1, CopiesEffect
  <2>. QED
    BY <2>1, <2>2, NoCopiesEffect
<1>3. CASE Closed(tb) /\ ~Wrote(tb)
  <2>1. /\ stored'[tb] \in {stored[tb], PlusCopies(stored[tb], staged[tb], {})}
        /\ staged'[tb] = NoCopies
    BY <1>3 DEF Closed
  <2>2. PlusCopies(stored[tb], staged[tb], {})[n] > 0 <=> (stored[tb][n] > 0 \/ staged[tb][n] > 0)
    BY <1>1, CopiesEffect
  <2>. QED
    BY <1>3, <2>1, <2>2, NoCopiesEffect
<1>4. CASE Interrupted(tb) /\ ~Wrote(tb)
  <2>1. PICK rows : /\ rows \subseteq Out(tb)
                    /\ \/ stored'[tb] = stored[tb]
                       \/ stored'[tb] = PlusCopies(stored[tb], staged[tb], rows)
    <3>1. InFlight(tb) \in Seq(Nat) /\ {} \subseteq Out(tb)
      BY RowTypes
    <3>. QED
      BY <1>4, <3>1, BeginningOldest DEF Interrupted, Out
  <2>2. PlusCopies(stored[tb], staged[tb], rows)[n] > 0
          <=> (stored[tb][n] > 0 \/ staged[tb][n] > 0 \/ n \in rows)
    BY <1>1, CopiesEffect
  <2>3. staged'[tb] = NoCopies
    BY <1>4 DEF Interrupted
  <2>. QED
    BY <1>4, <2>1, <2>2, <2>3, NoCopiesEffect
<1>. QED
  BY <1>2, <1>3, <1>4

LEMMA HeldStep ==
  ASSUME FitsInv, NEW tb \in Tables, Ordered(tb), Held(tb), Active(tb) \/ Quiet(tb)
  PROVE  Held(tb)'
<1>. TypeOK
  BY DEF FitsInv, WriterInv
<1>0. In(tb) \cup Out(tb) \cup dropped[tb] \subseteq RowIds /\ 1 .. buffer[tb].appended \subseteq RowIds
  BY RowsInPlay
<1>1. CASE Quiet(tb) \/ Broke(tb)
  <2>1. In(tb)' = In(tb) /\ Out(tb)' = Out(tb) /\ QueueSame(tb) /\ stored'[tb] = stored[tb]
    BY <1>1 DEF Quiet, Broke, FlushSame, QueueSame, DataSame, In, Out
  <2>2. At(tb, "commit")' => At(tb, "commit")
    BY <1>1 DEF Quiet, Broke, FlushSame
  <2>. QED
    BY <2>1, <2>2 DEF Held, QueueSame
<1>2. CASE Wrote(tb) \/ Closed(tb) \/ Interrupted(tb)
  <2>1. In(tb)' = In(tb) /\ Out(tb)' = Out(tb) /\ QueueSame(tb)
    BY <1>2 DEF Wrote, Closed, Interrupted, FlushSame, QueueSame, In, Out
  <2>2. \A n \in RowIds : /\ stored[tb][n] > 0 => stored'[tb][n] > 0
                          /\ Wrote(tb) /\ n \in Out(tb) => stored'[tb][n] > 0
    BY <1>2, StoredAfter
  <2>3. /\ Closed(tb) => (At(tb, "commit")' <=> At(tb, "commit"))
        /\ Interrupted(tb) => ~At(tb, "commit")'
    BY DEF Closed, Interrupted, FlushSame
  <2>4. \A n \in (1 .. buffer'[tb].appended) \ (In(tb)' \cup Out(tb)' \cup dropped'[tb]) : stored'[tb][n] > 0
    BY <1>0, <2>1, <2>2 DEF Held, QueueSame
  <2>5. At(tb, "commit")' => \A n \in Out(tb)' : stored'[tb][n] > 0
    BY <1>0, <1>2, <2>1, <2>2, <2>3 DEF Held
  <2>. QED
    BY <2>4, <2>5 DEF Held
<1>3. CASE Accepted(tb)
  <2>. DEFINE x == buffer[tb].appended + 1
              gone == Evicted(buffer[tb])
  <2>1. /\ buffer'[tb].appended = x
        /\ \A n \in 1 .. x : n = x \/ n \in 1 .. buffer[tb].appended
        /\ In(tb)' = (In(tb) \ gone) \cup {x}
        /\ Out(tb)' = Out(tb)
        /\ dropped'[tb] = dropped[tb] \cup gone
    BY <1>3, AcceptedRows
  <2>. HIDE DEF x, gone
  <2>2. stored'[tb] = stored[tb] /\ (At(tb, "commit")' <=> At(tb, "commit"))
    BY <1>3 DEF Accepted, FlushSame, DataSame
  <2>. QED
    BY <2>1, <2>2 DEF Held
<1>4. CASE Popped(tb)
  <2>1. In(tb)' = {} /\ Out(tb)' = In(tb) /\ Out(tb) = {}
    BY <1>4, EmptyOrder DEF Popped, NoFlush, In, Out
  <2>. QED
    BY <1>4, <2>1 DEF Held, Popped, DataSame
<1>5. CASE Committed(tb)
  <2>1. In(tb)' = In(tb) /\ Out(tb)' = {} /\ ~At(tb, "commit")'
    BY <1>5, EmptyOrder DEF Committed, QueueSame, NoFlush, In, Out
  <2>. QED
    BY <1>5, <2>1 DEF Held, Committed, QueueSame, DataSame
<1>6. CASE Returned(tb)
  <2>. DEFINE cut == CutOff(buffer[tb], InFlight(tb))
  <2>1. /\ In(tb)' \cup cut = In(tb) \cup Out(tb)
        /\ Out(tb)' = {}
        /\ buffer'[tb].appended = buffer[tb].appended
        /\ dropped'[tb] = dropped[tb] \cup cut
    BY <1>6, ReturnedRows
  <2>. HIDE DEF cut
  <2>2. stored'[tb] = stored[tb] /\ ~At(tb, "commit")'
    BY <1>6 DEF Returned, NoFlush, DataSame
  <2>. QED
    BY <2>1, <2>2 DEF Held
<1>. QED
  BY <1>1, <1>2, <1>3, <1>4, <1>5, <1>6 DEF Active

\* A batch's rows before its first poison row are the batch's oldest.
LEMMA PrefixOldest ==
  ASSUME NEW q \in Seq(Nat), Increasing(q), NEW tb, NEW n \in Prefix(tb, q),
         NEW m \in SeqElems(q), m < n
  PROVE  m \in Prefix(tb, q)
<1>1. PICK j \in DOMAIN q : q[j] = n /\ \A k \in Bad(tb, q) : j < k
  BY DEF Prefix
<1>2. PICK i \in DOMAIN q : q[i] = m
  BY DEF SeqElems
<1>3. DOMAIN q = 1 .. Len(q) /\ Len(q) \in Nat /\ m \in Nat /\ n \in Nat
  BY <1>1, ElemsOf
<1>4. i < j
  <2>1. i \in Nat /\ j \in Nat
    BY <1>1, <1>2, <1>3
  <2>2. ~(j < i) /\ i # j
    BY <1>1, <1>2, <1>3 DEF Increasing
  <2>. QED
    BY <2>1, <2>2
<1>5. Bad(tb, q) \subseteq DOMAIN q
  BY DEF Bad
<1>6. \A k \in Bad(tb, q) : i < k
  BY <1>1, <1>2, <1>3, <1>4, <1>5
<1>. QED
  BY <1>2, <1>6 DEF Prefix

LEMMA PrefixOf == \A tb, q : Prefix(tb, q) \subseteq SeqElems(q)
BY DEF Prefix, SeqElems

LEMMA StagingStep ==
  ASSUME FitsInv, NEW tb \in Tables, Ordered(tb), Staging(tb), Active(tb) \/ Quiet(tb)
  PROVE  Staging(tb)'
<1>. TypeOK
  BY DEF FitsInv, WriterInv
<1>0. /\ In(tb) \cup Out(tb) \cup dropped[tb] \subseteq RowIds /\ 1 .. buffer[tb].appended \subseteq RowIds
      /\ \A n \in 1 .. buffer[tb].appended : n <= buffer[tb].appended
      /\ staged[tb] \in [RowIds -> Nat] /\ stored[tb] \in [RowIds -> Nat]
      /\ In(tb) \cup Out(tb) \subseteq 1 .. buffer[tb].appended
      /\ \A m \in Out(tb), n \in In(tb) : m < n
  BY RowsInPlay, RowTypes DEF Ordered
<1>1. CASE Quiet(tb)
  <2>1. In(tb)' = In(tb) /\ Out(tb)' = Out(tb) /\ QueueSame(tb) /\ DataSame(tb) /\ InFlight(tb)' = InFlight(tb)
    BY <1>1 DEF Quiet, FlushSame, QueueSame, DataSame, In, Out
  <2>. QED
    BY <2>1 DEF Staging, QueueSame, DataSame
<1>2. CASE Wrote(tb) \/ Closed(tb) \/ Interrupted(tb)
  <2>1. QueueSame(tb)
    BY <1>2 DEF Wrote, Closed, Interrupted
  <2>2. \A n \in RowIds : /\ stored'[tb][n] > 0 => n <= buffer[tb].appended
                          /\ staged'[tb][n] = 0
    BY <1>0, <1>2, StoredAfter DEF Staging
  <2>3. In(tb)' \subseteq RowIds
    BY <1>0, <2>1 DEF QueueSame, In
  <2>. QED
    BY <2>1, <2>2, <2>3 DEF Staging, QueueSame
<1>3. CASE Broke(tb)
  <2>1. /\ In(tb)' = In(tb) /\ Out(tb)' = Out(tb) /\ QueueSame(tb) /\ stored'[tb] = stored[tb]
        /\ InFlight(tb)' = InFlight(tb) /\ InFlight(tb) # << >>
    BY <1>3 DEF Broke, QueueSame, In, Out
  <2>2. PICK rows : /\ rows \subseteq Out(tb)
                    /\ \A n \in rows, m \in Out(tb) : m < n => m \in rows
                    /\ \/ staged'[tb] = staged[tb]
                       \/ staged'[tb] = NoCopies
                       \/ staged'[tb] = PlusCopies(staged[tb], NoCopies, rows)
    <3>1. CASE staged'[tb] = PlusCopies(staged[tb], NoCopies, Prefix(tb, InFlight(tb)))
      <4>1. InFlight(tb) \in Seq(Nat) /\ Increasing(InFlight(tb))
        BY RowTypes DEF Ordered
      <4>2. \A n \in Prefix(tb, InFlight(tb)), m \in Out(tb) : m < n => m \in Prefix(tb, InFlight(tb))
        BY <4>1, PrefixOldest DEF Out
      <4>. QED
        BY <3>1, <4>2, PrefixOf DEF Out
    <3>2. CASE staged'[tb] = PlusCopies(staged[tb], NoCopies, Out(tb))
      BY <3>2
    <3>3. CASE staged'[tb] \in {staged[tb], NoCopies}
      BY <3>3
    <3>. QED
      BY <1>3, <3>1, <3>2, <3>3 DEF Broke
  <2>3. \A n \in RowIds : /\ staged'[tb][n] = 0 => TRUE
                          /\ staged'[tb][n] \in Nat
                          /\ staged'[tb][n] > 0 => staged[tb][n] > 0 \/ n \in rows
    BY <1>0, <2>2, CopiesEffect, NoCopiesEffect, PlusCopiesType
  <2>4. \/ \A n \in RowIds : staged'[tb][n] = 0
        \/ \A n \in RowIds : staged'[tb][n] > 0 <=> staged[tb][n] > 0
        \/ \A n \in RowIds : staged'[tb][n] > 0 <=> (staged[tb][n] > 0 \/ n \in rows)
    <3>1. \A n \in RowIds : NoCopies[n] = 0
      BY NoCopiesEffect
    <3>2. \A n \in RowIds : PlusCopies(staged[tb], NoCopies, rows)[n] > 0
                              <=> (staged[tb][n] > 0 \/ n \in rows)
      BY <1>0, NoCopiesEffect, CopiesEffect
    <3>. QED
      BY <2>2, <3>1, <3>2
  <2>5. \A n \in RowIds : staged'[tb][n] > 0 \/ stored'[tb][n] > 0 => n <= buffer'[tb].appended
    BY <1>0, <2>1, <2>2, <2>3 DEF Staging, QueueSame
  <2>6. \A n \in RowIds, m \in In(tb)' \cup Out(tb)' :
          staged'[tb][n] > 0 /\ m < n => staged'[tb][m] > 0
    <3>. SUFFICES ASSUME NEW n \in RowIds, NEW m \in In(tb) \cup Out(tb),
                         staged'[tb][n] > 0, m < n
                  PROVE  staged'[tb][m] > 0
      BY <2>1
    <3>1. m \in RowIds
      BY <1>0
    <3>2. staged[tb][n] > 0 => staged[tb][m] > 0
      BY DEF Staging
    <3>3. n \in rows => m \in rows
      <4>1. n \in rows /\ m \in In(tb) => n < m
        BY <1>0, <2>2
      <4>2. n \in Nat /\ m \in Nat
        BY <3>1 DEF RowIds
      <4>. QED
        BY <2>2, <4>1, <4>2
    <3>. QED
      BY <2>4, <3>1, <3>2, <3>3
  <2>7. \A n \in In(tb)' : staged'[tb][n] = 0
    <3>. SUFFICES ASSUME NEW n \in In(tb), staged'[tb][n] > 0 PROVE FALSE
      BY <1>0, <2>1, <2>3
    <3>1. n \in RowIds /\ n \in Nat
      BY <1>0 DEF RowIds
    <3>2. n \notin rows
      BY <1>0, <2>2, <3>1
    <3>3. staged[tb][n] = 0
      BY <2>1 DEF Staging
    <3>. QED
      BY <2>3, <3>1, <3>2, <3>3
  <2>. QED
    BY <2>5, <2>6, <2>7 DEF Staging
<1>4. CASE Accepted(tb)
  <2>. DEFINE x == buffer[tb].appended + 1
              gone == Evicted(buffer[tb])
  <2>1. /\ buffer'[tb].appended = x /\ x \in RowIds
        /\ In(tb)' = (In(tb) \ gone) \cup {x}
        /\ Out(tb)' = Out(tb) /\ InFlight(tb)' = InFlight(tb)
    BY <1>4, AcceptedRows
  <2>2. DataSame(tb) /\ buffer[tb].appended \in Nat
    BY <1>4, RowTypes DEF Accepted
  <2>3. \A n \in RowIds : n <= buffer[tb].appended => n <= x /\ ~(x < n) /\ n # x
    BY <2>2 DEF RowIds
  <2>. HIDE DEF x, gone
  <2>4. \A n \in RowIds : staged[tb][n] > 0 => n <= buffer[tb].appended
    BY DEF Staging
  <2>5. staged[tb][x] = 0
    BY <1>0, <2>1, <2>3, <2>4
  <2>6. \A n \in RowIds : staged'[tb][n] > 0 \/ stored'[tb][n] > 0 => n <= buffer'[tb].appended
    BY <2>1, <2>2, <2>3 DEF Staging, DataSame
  <2>7. \A n \in RowIds, m \in In(tb)' \cup Out(tb)' :
          staged'[tb][n] > 0 /\ m < n => staged'[tb][m] > 0
    BY <2>1, <2>2, <2>3, <2>4 DEF Staging, DataSame
  <2>8. InFlight(tb)' # << >> => \A n \in In(tb)' : staged'[tb][n] = 0
    BY <2>1, <2>2, <2>5 DEF Staging, DataSame
  <2>. QED
    BY <2>6, <2>7, <2>8 DEF Staging
<1>5. CASE Popped(tb)
  <2>1. In(tb)' = {} /\ Out(tb)' = In(tb) /\ Out(tb) = {}
    BY <1>5, EmptyOrder DEF Popped, NoFlush, In, Out
  <2>. QED
    BY <1>5, <2>1 DEF Staging, Popped, DataSame
<1>6. CASE Committed(tb)
  <2>1. In(tb)' = In(tb) /\ Out(tb)' = {} /\ InFlight(tb)' = << >>
    BY <1>6, EmptyOrder DEF Committed, QueueSame, NoFlush, In, Out
  <2>. QED
    BY <1>6, <2>1 DEF Staging, Committed, QueueSame, DataSame
<1>7. CASE Returned(tb)
  <2>1. /\ In(tb)' \subseteq In(tb) \cup Out(tb)
        /\ Out(tb)' = {} /\ InFlight(tb)' = << >>
        /\ buffer'[tb].appended = buffer[tb].appended
    BY <1>7, ReturnedRows
  <2>2. DataSame(tb)
    BY <1>7 DEF Returned
  <2>. QED
    BY <2>1, <2>2 DEF Staging, DataSame
<1>. QED
  BY <1>1, <1>2, <1>3, <1>4, <1>5, <1>6, <1>7 DEF Active

LEMMA CleanStep ==
  ASSUME FitsInv, NEW tb \in Tables, Ordered(tb), Staging(tb), Clean(tb), Active(tb) \/ Quiet(tb)
  PROVE  Clean(tb)'
<1>. TypeOK
  BY DEF FitsInv, WriterInv
<1>0. /\ In(tb) \cup Out(tb) \cup dropped[tb] \subseteq RowIds /\ 1 .. buffer[tb].appended \subseteq RowIds
      /\ \A n \in RowIds : n <= buffer[tb].appended <=> n \in 1 .. buffer[tb].appended
      /\ staged[tb] \in [RowIds -> Nat] /\ stored[tb] \in [RowIds -> Nat]
  BY RowsInPlay, RowTypes
<1>1. CASE Quiet(tb)
  <2>1. In(tb)' = In(tb) /\ Out(tb)' = Out(tb) /\ QueueSame(tb) /\ DataSame(tb)
    BY <1>1 DEF Quiet, FlushSame, QueueSame, DataSame, In, Out
  <2>2. (At(tb, "write")' <=> At(tb, "write")) /\ (At(tb, "retry")' <=> At(tb, "retry"))
    BY <1>1 DEF Quiet, FlushSame
  <2>3. Unwritten(tb)' = Unwritten(tb)
    BY <2>1, <2>2 DEF Unwritten, QueueSame
  <2>. QED
    BY <2>1, <2>2, <2>3 DEF Clean, QueueSame, DataSame
<1>2. CASE Wrote(tb)
  <2>1. In(tb)' = In(tb) /\ QueueSame(tb) /\ ~At(tb, "write")'
    BY <1>2 DEF Wrote, QueueSame, In
  <2>2. Unwritten(tb)' = In(tb) \cup dropped[tb]
    BY <2>1 DEF Unwritten, QueueSame
  <2>3. Unwritten(tb) = In(tb) \cup dropped[tb] \cup Out(tb) /\ ~At(tb, "retry")
    BY <1>2 DEF Unwritten, Wrote
  <2>4. \A n \in RowIds : n \in Out(tb) => n \notin In(tb) \cup dropped[tb]
    <3>1. \A m \in RowIds : ~(m < m)
      BY DEF RowIds
    <3>. QED
      BY <3>1 DEF Ordered
  <2>5. ASSUME buffer[tb].errors = 0, NEW n \in RowIds
        PROVE  /\ staged'[tb][n] = 0
               /\ n <= buffer[tb].appended =>
                    stored'[tb][n] = IF n \in Unwritten(tb)' THEN 0 ELSE 1
    <3>1. /\ staged[tb][n] = 0
          /\ n <= buffer[tb].appended =>
               stored[tb][n] = IF n \in Unwritten(tb) THEN 0 ELSE 1
      BY <2>3, <2>5 DEF Clean
    <3>2. /\ (n \in Out(tb) /\ stored[tb][n] = 0) => stored'[tb][n] = 1
          /\ (n \notin Out(tb) /\ (stored[tb][n] = 0 \/ stored[tb][n] = 1)) => stored'[tb][n] = stored[tb][n]
          /\ staged'[tb][n] = 0
      <4>1. /\ stored'[tb] = PlusCopies(stored[tb], staged[tb], Out(tb))
            /\ staged'[tb] = NoCopies
        BY <1>2 DEF Wrote
      <4>2. LET k == PlusCopies(stored[tb], staged[tb], Out(tb))[n]
            IN  /\ (stored[tb][n] = 0 /\ staged[tb][n] = 0 /\ n \in Out(tb)) => k = 1
                /\ (stored[tb][n] = 0 \/ stored[tb][n] = 1) /\ staged[tb][n] = 0 /\ n \notin Out(tb)
                     => k = stored[tb][n]
        BY <1>0, CopiesEffect
      <4>. QED
        BY <3>1, <4>1, <4>2, NoCopiesEffect
    <3>. QED
      BY <2>2, <2>3, <2>4, <3>1, <3>2
  <2>. QED
    BY <2>1, <2>5 DEF Clean, QueueSame
<1>3. CASE Broke(tb) \/ Interrupted(tb)
  BY <1>3 DEF Broke, Interrupted, Clean
<1>4. CASE Accepted(tb)
  <2>. DEFINE x == buffer[tb].appended + 1
              gone == Evicted(buffer[tb])
  <2>1. /\ buffer'[tb].appended = x /\ x \in RowIds
        /\ In(tb)' = (In(tb) \ gone) \cup {x} /\ gone \subseteq In(tb)
        /\ dropped'[tb] = dropped[tb] \cup gone
        /\ Out(tb)' = Out(tb) /\ buffer'[tb].errors = buffer[tb].errors
    BY <1>4, AcceptedRows
  <2>2. DataSame(tb) /\ buffer[tb].appended \in Nat /\ FlushSame(tb)
    BY <1>4, RowTypes DEF Accepted
  <2>3. /\ \A n \in RowIds : n <= x => n = x \/ n <= buffer[tb].appended
        /\ ~(x <= buffer[tb].appended)
    BY <2>2 DEF RowIds
  <2>. HIDE DEF x, gone
  <2>4. stored[tb][x] = 0
    BY <1>0, <2>1, <2>3 DEF Staging
  <2>5. (At(tb, "write")' <=> At(tb, "write")) /\ (At(tb, "retry")' <=> At(tb, "retry"))
    BY <2>2 DEF FlushSame
  <2>6. Unwritten(tb)' = Unwritten(tb) \cup {x}
    BY <2>1, <2>5 DEF Unwritten
  <2>7. staged'[tb] = staged[tb] /\ stored'[tb] = stored[tb]
    BY <2>2 DEF DataSame
  <2>8. ASSUME buffer[tb].errors = 0, ~At(tb, "retry"), NEW n \in RowIds
        PROVE  /\ staged[tb][n] = 0
               /\ n <= x => stored[tb][n] = IF n \in Unwritten(tb)' THEN 0 ELSE 1
    <3>1. /\ staged[tb][n] = 0
          /\ n <= buffer[tb].appended => stored[tb][n] = IF n \in Unwritten(tb) THEN 0 ELSE 1
      BY <2>8 DEF Clean
    <3>2. CASE n = x
      BY <2>4, <2>6, <3>1, <3>2
    <3>3. CASE n # x
      BY <2>3, <2>6, <3>1, <3>3
    <3>. QED
      BY <3>2, <3>3
  <2>. QED
    BY <2>1, <2>5, <2>7, <2>8 DEF Clean
<1>5. CASE Popped(tb)
  <2>1. /\ In(tb)' = {} /\ Out(tb)' = In(tb) /\ Out(tb) = {} /\ ~At(tb, "retry")
        /\ DataSame(tb) /\ dropped'[tb] = dropped[tb] /\ buffer'[tb].appended = buffer[tb].appended
        /\ buffer'[tb].errors = buffer[tb].errors
    BY <1>5, EmptyOrder DEF Popped, NoFlush, In, Out
  <2>2. Out(tb)' # {} => At(tb, "write")'
    BY <1>5, EmptyOrder DEF Popped, Out
  <2>3. Unwritten(tb)' = Unwritten(tb)
    BY <2>1, <2>2 DEF Unwritten
  <2>. QED
    BY <2>1, <2>3 DEF Clean, DataSame
<1>6. CASE Committed(tb)
  <2>1. /\ In(tb)' = In(tb) /\ Out(tb)' = {} /\ ~At(tb, "write") /\ ~At(tb, "retry")
        /\ QueueSame(tb) /\ DataSame(tb)
    BY <1>6, EmptyOrder DEF Committed, QueueSame, NoFlush, In, Out
  <2>2. Unwritten(tb)' = Unwritten(tb)
    BY <2>1 DEF Unwritten, QueueSame
  <2>. QED
    BY <2>1, <2>2 DEF Clean, QueueSame, DataSame
<1>7. CASE Returned(tb)
  <2>1. buffer'[tb].errors # 0
    BY <1>7, ReturnedRows
  <2>. QED
    BY <2>1 DEF Clean
<1>8. CASE Closed(tb)
  <2>1. In(tb)' = In(tb) /\ Out(tb)' = Out(tb) /\ QueueSame(tb)
    BY <1>8 DEF Closed, FlushSame, QueueSame, In, Out
  <2>2. (At(tb, "write")' <=> At(tb, "write")) /\ (At(tb, "retry")' <=> At(tb, "retry"))
    BY <1>8 DEF Closed, FlushSame
  <2>3. Unwritten(tb)' = Unwritten(tb)
    BY <2>1, <2>2 DEF Unwritten, QueueSame
  <2>4. \A n \in RowIds : staged'[tb][n] = 0
    BY <1>8, NoCopiesEffect DEF Closed
  <2>5. ASSUME buffer[tb].errors = 0, ~At(tb, "retry"), NEW n \in RowIds, n <= buffer[tb].appended
        PROVE  stored'[tb][n] = stored[tb][n]
    <3>1. staged[tb][n] = 0 /\ (stored[tb][n] = 0 \/ stored[tb][n] = 1)
      BY <2>5 DEF Clean
    <3>. QED
      BY <1>0, <1>8, <3>1, CopiesEffect DEF Closed
  <2>. QED
    BY <2>1, <2>2, <2>3, <2>4, <2>5 DEF Clean, QueueSame
<1>. QED
  BY <1>1, <1>2, <1>3, <1>4, <1>5, <1>6, <1>7, <1>8 DEF Active

-----------------------------------------------------------------------------
\* The invariant of the tables, of every reachable state.
SinkInv == FitsInv /\ AllTables

LEMMA TablesInit == Init => AllTables
<1>. SUFFICES ASSUME Init, NEW tb \in Tables PROVE TableInv(tb)
  BY DEF AllTables
<1>1. /\ buffer[tb].rows = << >> /\ buffer[tb].appended = 0 /\ dropped[tb] = {}
      /\ staged[tb] = NoCopies /\ stored[tb] = NoCopies
  BY DEF Init, NewTableBuffer
<1>2. \A t \in Threads : ~HasBatch(t)
  BY DEF Init, HasBatch
<1>3. InFlight(tb) = << >> /\ ~At(tb, "commit")
  BY <1>2, AtNobody DEF NoFlush
<1>4. In(tb) = {} /\ Out(tb) = {} /\ Increasing(buffer[tb].rows) /\ Increasing(InFlight(tb))
  BY <1>1, <1>3, EmptyOrder DEF In, Out
<1>5. 1 .. 0 = {} /\ 0 <= MaxRows /\ \A n \in RowIds : ~(n <= 0)
  BY WriterAssumption DEF RowIds
<1>6. \A n \in RowIds : NoCopies[n] = 0
  BY NoCopiesEffect
<1>7. Ordered(tb)
  BY <1>1, <1>4, <1>5 DEF Ordered
<1>8. Held(tb)
  BY <1>1, <1>3, <1>5 DEF Held
<1>9. Staging(tb) /\ Clean(tb)
  BY <1>1, <1>3, <1>4, <1>5, <1>6 DEF Staging, Clean
<1>. QED
  BY <1>7, <1>8, <1>9 DEF TableInv

LEMMA TablesStep ==
  ASSUME SinkInv, [Next]_vars
  PROVE  AllTables'
<1>1. FitsInv /\ TypeOK /\ SingleWriter
  BY DEF SinkInv, FitsInv, WriterInv
<1>2. \A tb \in Tables : Active(tb) \/ Quiet(tb)
  BY <1>1, TableSteps DEF OthersQuiet
<1>3. ASSUME NEW tb \in Tables PROVE TableInv(tb)'
  <2>1. TableInv(tb)
    BY DEF SinkInv, AllTables
  <2>. QED
    BY <1>1, <1>2, <2>1, OrderedStep, HeldStep, StagingStep, CleanStep DEF TableInv
<1>. QED
  BY <1>3 DEF AllTables, Tables

LEMMA SinkInvHolds == Spec => []SinkInv
<1>1. Init => SinkInv
  BY FitsInductive, TablesInit DEF SinkInv
<1>2. SinkInv /\ [Next]_vars => SinkInv'
  BY FitsInductive, TablesStep DEF SinkInv
<1>. QED
  BY <1>1, <1>2, PTL DEF Spec

\* No accepted row is lost in silence, and a table whose flushes have not failed
\* holds each row it settled exactly once.
THEOREM RowsKept == Spec => []RowsAccountedFor
<1>1. SinkInv => RowsAccountedFor
  <2>. SUFFICES ASSUME SinkInv, NEW tb \in Tables, NEW n \in 1 .. buffer[tb].appended
                PROVE  /\ n \in SeqElems(Pending(tb)) \/ stored[tb][n] > 0 \/ n \in dropped[tb]
                       /\ ~Failed(tb) =>
                            stored[tb][n] =
                              IF n \in SeqElems(buffer[tb].rows) \cup dropped[tb] \cup BeingWritten(tb)
                              THEN 0 ELSE 1
    BY DEF RowsAccountedFor
  <2>1. TypeOK /\ Ordered(tb) /\ Held(tb) /\ Clean(tb)
    BY DEF SinkInv, FitsInv, WriterInv, AllTables, TableInv
  <2>2. SeqElems(Pending(tb)) = Out(tb) \cup In(tb)
    BY <2>1, RowTypes, ConcatOrder DEF Pending, In, Out
  <2>3. n \in SeqElems(Pending(tb)) \/ stored[tb][n] > 0 \/ n \in dropped[tb]
    BY <2>1, <2>2 DEF Held
  <2>4. n \in RowIds /\ n <= buffer[tb].appended
    BY <2>1, RowsInPlay
  <2>5. Unwritten(tb) = SeqElems(buffer[tb].rows) \cup dropped[tb] \cup BeingWritten(tb)
    BY DEF Unwritten, BeingWritten, At, In, Out, InFlight, HasBatch
  <2>6. ~Failed(tb) => buffer[tb].errors = 0 /\ ~At(tb, "retry")
    BY <2>1, RowTypes DEF Failed, At
  <2>. QED
    BY <2>1, <2>3, <2>4, <2>5, <2>6 DEF Clean
<1>. QED
  BY <1>1, SinkInvHolds, PTL

-----------------------------------------------------------------------------
(* The refinement. *)

\* What RowSink sees of a table as written.
Stored(tb) == {n \in RowIds : stored[tb][n] > 0}
Staged(tb) == {n \in RowIds : staged[tb][n] > 0}

\* A set of numbers below a bound has a greatest one.
LEMMA GreatestOf ==
  ASSUME NEW N \in Nat, NEW S, S \subseteq 0 .. N, S # {}
  PROVE  \E n \in S : \A m \in S : m <= n
<1>1. IsFiniteSet(0 .. N)
  <2>1. 0 \in Int /\ N \in Int
    OBVIOUS
  <2>. QED
    BY <2>1, FS_Interval
<1>2. IsFiniteSet(S) /\ S \subseteq Int
  <2>1. S \in SUBSET (0 .. N) /\ S \subseteq Int
    OBVIOUS
  <2>. QED
    BY <1>1, <2>1, FS_Subset
<1>3. Max(S) \in S /\ \A m \in S : Max(S) >= m
  BY <1>2, MaxOf
<1>4. \A m, n \in S : n >= m => m <= n
  OBVIOUS
<1>. QED
  BY <1>3, <1>4

\* A flush writes the batch, and with it only rows that were dropped.
LEMMA WroteRows ==
  ASSUME TypeOK, NEW tb \in Tables, TableInv(tb), Wrote(tb)
  PROVE  \E k \in 0 .. buffer[tb].appended, late \in SUBSET dropped[tb] :
           Stored(tb)' = Stored(tb) \cup ((1 .. k) \ dropped[tb]) \cup late
<1>. DEFINE late == Staged(tb) \cap dropped[tb]
            A == 1 .. buffer[tb].appended
<1>1. /\ In(tb) \cup Out(tb) \cup dropped[tb] \subseteq A /\ A \subseteq RowIds
      /\ \A n \in RowIds : n <= buffer[tb].appended <=> n \in A
      /\ staged[tb] \in [RowIds -> Nat] /\ stored[tb] \in [RowIds -> Nat]
      /\ InFlight(tb) \in Seq(Nat) /\ buffer[tb].appended \in Nat
  BY RowsInPlay, RowTypes DEF TableInv, Ordered
<1>2. PICK k \in Out(tb) : \A n \in Out(tb) : n <= k
  BY <1>1, LastOrder DEF TableInv, Ordered, Wrote, Out
<1>3. Stored(tb)' = Stored(tb) \cup Staged(tb) \cup Out(tb)
  <2>1. ASSUME NEW n \in RowIds
        PROVE  stored'[tb][n] > 0 <=> (stored[tb][n] > 0 \/ staged[tb][n] > 0 \/ n \in Out(tb))
    <3>1. stored'[tb] = PlusCopies(stored[tb], staged[tb], Out(tb))
      BY DEF Wrote
    <3>2. staged[tb] \in [RowIds -> Nat] /\ stored[tb] \in [RowIds -> Nat]
      BY RowTypes
    <3>. QED
      BY <3>1, <3>2, CopiesEffect
  <2>. QED
    BY <1>1, <2>1 DEF Stored, Staged
<1>4. k \in A /\ k \in Nat
  BY <1>1, <1>2
<1>5. Out(tb) \subseteq (1 .. k) \ dropped[tb]
  BY <1>1, <1>2, <1>4 DEF TableInv, Ordered
<1>6. (1 .. k) \ dropped[tb] \subseteq Stored(tb) \cup Out(tb)
  <2>. SUFFICES ASSUME NEW n \in (1 .. k) \ dropped[tb] PROVE n \in Stored(tb) \cup Out(tb)
    OBVIOUS
  <2>1. n \in A /\ n \in RowIds
    <3>1. buffer[tb].appended \in Nat
      BY <1>1
    <3>2. n \in A
      BY <1>4, <3>1
    <3>. QED
      BY <1>1, <3>2
  <2>2. n \notin In(tb)
    <3>1. n \in In(tb) => k < n
      BY DEF TableInv, Ordered
    <3>. QED
      BY <1>4, <3>1
  <2>. QED
    BY <2>1, <2>2 DEF TableInv, Held, Stored
<1>7. Staged(tb) \subseteq Stored(tb) \cup Out(tb) \cup late
  <2>. SUFFICES ASSUME NEW n \in Staged(tb), n \notin dropped[tb] PROVE n \in Stored(tb) \cup Out(tb)
    OBVIOUS
  <2>1. n \in RowIds /\ staged[tb][n] > 0 /\ n \in A
    BY <1>1 DEF Staged, TableInv, Staging
  <2>2. n \notin In(tb)
    BY <1>1, <2>1 DEF TableInv, Staging, Wrote
  <2>. QED
    BY <2>1, <2>2 DEF TableInv, Held, Stored
<1>8. k \in 0 .. buffer[tb].appended
  BY <1>1, <1>4
<1>9. Stored(tb)' = Stored(tb) \cup ((1 .. k) \ dropped[tb]) \cup late
  BY <1>3, <1>5, <1>6, <1>7
<1>. QED
  BY <1>8, <1>9

\* Closing an appender writes the oldest rows in memory, those it held and those of
\* the batch it is closed in, and with them only rows that were written or dropped
\* before.
LEMMA ClosedRows ==
  ASSUME TypeOK, NEW tb \in Tables, TableInv(tb), Closed(tb) \/ Interrupted(tb)
  PROVE  \E k \in 0 .. buffer[tb].appended, late \in SUBSET dropped[tb] :
           \/ Stored(tb)' = Stored(tb)
           \/ Stored(tb)' = Stored(tb) \cup ((1 .. k) \ dropped[tb]) \cup late
<1>0. PICK rows : /\ rows \subseteq Out(tb)
                  /\ \A n \in rows, m \in Out(tb) : m < n => m \in rows
                  /\ \/ stored'[tb] = stored[tb]
                     \/ stored'[tb] = PlusCopies(stored[tb], staged[tb], rows)
  <2>1. CASE Closed(tb)
    BY <2>1 DEF Closed
  <2>2. CASE Interrupted(tb)
    <3>1. InFlight(tb) \in Seq(Nat) /\ Increasing(InFlight(tb))
      BY RowTypes DEF TableInv, Ordered
    <3>2. \A rows \in Beginnings(tb, InFlight(tb)) :
            /\ rows \subseteq Out(tb)
            /\ \A n \in rows, m \in Out(tb) : m < n => m \in rows
      BY <3>1, BeginningOldest DEF Out
    <3>3. CASE stored'[tb] = stored[tb]
      BY <3>3
    <3>. QED
      BY <2>2, <3>2, <3>3 DEF Interrupted
  <2>. QED
    BY <2>1, <2>2
<1>. DEFINE late == Staged(tb) \cap dropped[tb]
            A == 1 .. buffer[tb].appended
            P == (Staged(tb) \cap (In(tb) \cup Out(tb))) \cup rows
<1>1. /\ In(tb) \cup Out(tb) \cup dropped[tb] \subseteq A /\ A \subseteq RowIds
      /\ \A n \in RowIds : n <= buffer[tb].appended <=> n \in A
      /\ staged[tb] \in [RowIds -> Nat] /\ stored[tb] \in [RowIds -> Nat]
      /\ buffer[tb].appended \in Nat
  BY RowsInPlay, RowTypes DEF TableInv, Ordered
<1>2. CASE stored'[tb] = stored[tb]
  <2>1. 0 \in 0 .. buffer[tb].appended
    BY <1>1
  <2>. QED
    BY <1>2, <2>1 DEF Stored
<1>3. CASE stored'[tb] = PlusCopies(stored[tb], staged[tb], rows)
  <2>1. Stored(tb)' = Stored(tb) \cup Staged(tb) \cup rows
    <3>1. \A n \in RowIds : stored'[tb][n] > 0 <=> (stored[tb][n] > 0 \/ staged[tb][n] > 0 \/ n \in rows)
      BY <1>1, <1>3, CopiesEffect
    <3>2. rows \subseteq RowIds
      BY <1>0, <1>1
    <3>. QED
      BY <3>1, <3>2 DEF Stored, Staged
  <2>2. Staged(tb) \subseteq Stored(tb) \cup P \cup late
    <3>1. Staged(tb) \subseteq A
      BY <1>1 DEF Staged, TableInv, Staging
    <3>. QED
      BY <1>1, <3>1 DEF TableInv, Held, Stored
  <2>3. CASE P = {}
    <3>1. 0 \in 0 .. buffer[tb].appended /\ 1 .. 0 = {}
      BY <1>1
    <3>2. Stored(tb)' = Stored(tb) \cup ((1 .. 0) \ dropped[tb]) \cup late
      BY <2>1, <2>2, <2>3, <3>1
    <3>. QED
      BY <3>1, <3>2
  <2>4. CASE P # {}
    <3>1. P \subseteq 0 .. buffer[tb].appended
      BY <1>0, <1>1
    <3>2. PICK k \in P : \A n \in P : n <= k
      BY <1>1, <2>4, <3>1, GreatestOf
    <3>3. k \in A /\ k \in RowIds /\ k \in 0 .. buffer[tb].appended
      BY <1>0, <1>1, <3>1, <3>2
    <3>4. P \subseteq (1 .. k) \ dropped[tb]
      BY <1>0, <1>1, <3>2 DEF TableInv, Ordered
    <3>5. (1 .. k) \ dropped[tb] \subseteq Stored(tb) \cup Staged(tb) \cup rows
      <4>. SUFFICES ASSUME NEW n \in (1 .. k) \ dropped[tb]
                    PROVE  n \in Stored(tb) \cup Staged(tb) \cup rows
        OBVIOUS
      <4>1. n \in A /\ n \in RowIds /\ (n < k \/ n = k)
        BY <1>1, <3>3
      <4>2. CASE n \in In(tb) \cup Out(tb)
        <5>1. k \in Staged(tb) => n \in Staged(tb)
          BY <3>3, <4>1, <4>2 DEF TableInv, Staging, Staged
        <5>2. k \in rows => n \in rows
          <6>1. n \in In(tb) /\ k \in Out(tb) => k < n
            BY DEF TableInv, Ordered
          <6>2. n \in Nat /\ k \in Nat
            BY <3>3, <4>1 DEF RowIds
          <6>. QED
            BY <1>0, <4>1, <4>2, <6>1, <6>2
        <5>. QED
          BY <3>2, <5>1, <5>2
      <4>3. CASE n \notin In(tb) \cup Out(tb)
        BY <4>1, <4>3 DEF TableInv, Held, Stored
      <4>. QED
        BY <4>2, <4>3
    <3>6. Stored(tb)' = Stored(tb) \cup ((1 .. k) \ dropped[tb]) \cup late
      BY <2>1, <2>2, <3>4, <3>5
    <3>. QED
      BY <3>3, <3>6
  <2>. QED
    BY <2>3, <2>4
<1>. QED
  BY <1>0, <1>2, <1>3

\* What a failed batch pushes out are the newest rows.
LEMMA ReturnedLost ==
  ASSUME FitsInv, TypeOK', NEW tb \in Tables, TableInv(tb), Returned(tb)
  PROVE  \E k \in 0 .. buffer[tb].appended :
           dropped'[tb] = dropped[tb] \cup ((k + 1) .. buffer[tb].appended)
<1>. DEFINE cut == CutOff(buffer[tb], InFlight(tb))
            a == buffer[tb].appended
<1>0. TypeOK
  BY DEF FitsInv, WriterInv
<1>1. /\ Increasing(buffer'[tb].rows)
      /\ In(tb)' \cup cut = In(tb) \cup Out(tb)
      /\ In(tb)' \cap cut = {}
      /\ \A n \in In(tb)', m \in cut : n < m
      /\ Out(tb) \subseteq In(tb)'
      /\ dropped'[tb] = dropped[tb] \cup cut
  BY ReturnedRows DEF TableInv
<1>. HIDE DEF cut
<1>2. buffer'[tb].rows \in Seq(Nat) /\ InFlight(tb) \in Seq(Nat) /\ InFlight(tb) # << >> /\ a \in Nat
  <2>1. Tables' = Tables
    BY DEF Tables
  <2>2. buffer'[tb] \in TableBuffers
    BY <2>1 DEF TypeOK
  <2>. QED
    BY <1>0, <2>2, BufferFields, RowTypes DEF Returned
<1>3. In(tb)' # {}
  BY <1>1, <1>2, ElemsOf DEF Out
<1>4. PICK k \in In(tb)' : \A n \in In(tb)' : n <= k
  BY <1>1, <1>2, <1>3, LastOrder, EmptyOrder DEF In
<1>5. In(tb) \cup Out(tb) \cup dropped[tb] \subseteq 1 .. a
  BY DEF TableInv, Ordered
<1>6. k \in 1 .. a /\ k \in 0 .. a /\ cut \subseteq 1 .. a
  BY <1>1, <1>2, <1>4, <1>5
<1>7. cut \subseteq (k + 1) .. a
  BY <1>1, <1>2, <1>4, <1>6
<1>8. (k + 1) .. a \subseteq dropped[tb] \cup cut
  <2>. SUFFICES ASSUME NEW n \in (k + 1) .. a PROVE n \in dropped[tb] \cup cut
    OBVIOUS
  <2>1. n \in 1 .. a /\ k < n /\ ~(n < k) /\ ~(n <= k)
    BY <1>2, <1>6
  <2>2. n \notin In(tb)'
    BY <1>4, <2>1
  <2>3. k \in In(tb) \cup Out(tb)
    BY <1>1, <1>4
  <2>4. n \in In(tb) \cup Out(tb) \cup dropped[tb]
    BY <2>1, <2>3 DEF TableInv, Ordered
  <2>. QED
    BY <1>1, <2>2, <2>4
<1>. QED
  BY <1>1, <1>6, <1>7, <1>8

-----------------------------------------------------------------------------
LEMMA SinkInit == Init => Sink!Init
<1>. SUFFICES ASSUME Init PROVE Sink!Init
  OBVIOUS
<1>1. \A tb \in Tables : buffer[tb].appended = 0 /\ {n \in RowIds : stored[tb][n] > 0} = {}
  BY NoCopiesEffect DEF Init, NewTableBuffer
<1>. QED
  BY <1>1 DEF Sink!Init, Init

\* What every step of the writer is to RowSink.
LEMMA SinkStep ==
  ASSUME SinkInv, TypeOK', [Next]_vars
  PROVE  [Sink!Next]_Sink!vars
<1>1. FitsInv /\ TypeOK /\ SingleWriter /\ \A tb \in Tables : TableInv(tb)
  BY DEF SinkInv, FitsInv, WriterInv, AllTables
<1>2. PICK at \in Tables : /\ Active(at) \/ Quiet(at)
                           /\ \A tb \in Tables \ {at} : Quiet(tb)
  BY <1>1, TableSteps DEF OthersQuiet
<1>. DEFINE acc == [tb \in Tables |-> buffer[tb].appended]
            wr == [tb \in Tables |-> {n \in RowIds : stored[tb][n] > 0}]
<1>3. \A tb \in Tables \ {at} : /\ buffer'[tb].appended = buffer[tb].appended
                                /\ stored'[tb] = stored[tb]
                                /\ dropped'[tb] = dropped[tb]
  BY <1>2 DEF Quiet, QueueSame, DataSame
<1>4. Tables' = Tables /\ RowIds' = RowIds
  BY DEF Tables, RowIds
<1>5. dropped \in [Tables -> SUBSET Nat] /\ dropped' \in [Tables -> SUBSET Nat]
  BY <1>1, <1>4 DEF TypeOK
<1>6. acc' = [acc EXCEPT ![at] = buffer'[at].appended]
  BY <1>3, <1>4
<1>7. wr' = [wr EXCEPT ![at] = Stored(at)']
  BY <1>3, <1>4 DEF Stored
<1>8. dropped' = [dropped EXCEPT ![at] = dropped'[at]]
  BY <1>3, <1>5
<1>9. acc[at] = buffer[at].appended /\ wr[at] = Stored(at)
  BY DEF Stored
<1>10. /\ acc = [acc EXCEPT ![at] = acc[at]]
       /\ wr = [wr EXCEPT ![at] = wr[at]]
       /\ dropped = [dropped EXCEPT ![at] = dropped[at]]
  BY <1>5
<1>11. CASE Accepted(at)
  <2>. DEFINE gone == Evicted(buffer[at])
  <2>1. /\ buffer'[at].appended = buffer[at].appended + 1
        /\ gone = {} \/ \E n \in In(at) : gone = {n}
        /\ dropped'[at] = dropped[at] \cup gone
    BY <1>1, <1>11, AcceptedRows DEF TableInv
  <2>. HIDE DEF gone
  <2>2. In(at) \subseteq 1 .. acc[at]
    BY <1>1, <1>9 DEF TableInv, Ordered
  <2>3. gone \in {{}} \cup {{n} : n \in 1 .. acc[at]}
    BY <2>1, <2>2
  <2>4. Stored(at)' = Stored(at)
    BY <1>11 DEF Accepted, DataSame, Stored
  <2>5. acc' = [acc EXCEPT ![at] = acc[at] + 1]
    BY <1>6, <1>9, <2>1
  <2>6. wr' = wr
    BY <1>7, <1>9, <1>10, <2>4
  <2>7. dropped' = [dropped EXCEPT ![at] = dropped[at] \cup gone]
    BY <1>8, <2>1
  <2>8. Sink!Append(at)
    BY <2>3, <2>5, <2>6, <2>7 DEF Sink!Append
  <2>. QED
    BY <2>8 DEF Sink!Next
<1>12. ASSUME buffer'[at].appended = buffer[at].appended, dropped'[at] = dropped[at],
              NEW k \in 0 .. buffer[at].appended, NEW late \in SUBSET dropped[at],
              Stored(at)' = Stored(at) \cup ((1 .. k) \ dropped[at]) \cup late
       PROVE  Sink!Write(at)
  <2>1. acc' = acc /\ dropped' = dropped
    BY <1>6, <1>8, <1>9, <1>10, <1>12
  <2>2. wr' = [wr EXCEPT ![at] = wr[at] \cup ((1 .. k) \ dropped[at]) \cup late]
    BY <1>7, <1>9, <1>12
  <2>. QED
    BY <1>9, <2>1, <2>2 DEF Sink!Write
<1>13. ASSUME buffer'[at].appended = buffer[at].appended, dropped'[at] = dropped[at],
              Stored(at)' = Stored(at)
       PROVE  UNCHANGED Sink!vars
  <2>1. acc' = acc /\ dropped' = dropped /\ wr' = wr
    BY <1>6, <1>7, <1>8, <1>9, <1>10, <1>13
  <2>. QED
    BY <2>1 DEF Sink!vars
<1>14. CASE Wrote(at)
  <2>1. Sink!Write(at)
    BY <1>1, <1>12, <1>14, WroteRows DEF Wrote, QueueSame
  <2>. QED
    BY <2>1 DEF Sink!Next
<1>15. CASE Closed(at) \/ Interrupted(at)
  <2>1. Sink!Write(at) \/ UNCHANGED Sink!vars
    BY <1>1, <1>12, <1>13, <1>15, ClosedRows DEF Closed, Interrupted, QueueSame
  <2>. QED
    BY <2>1 DEF Sink!Next
<1>16. CASE Returned(at)
  <2>1. PICK k \in 0 .. buffer[at].appended :
          dropped'[at] = dropped[at] \cup ((k + 1) .. buffer[at].appended)
    BY <1>1, <1>16, ReturnedLost
  <2>2. buffer'[at].appended = buffer[at].appended
    BY <1>1, <1>16, ReturnedRows DEF TableInv
  <2>3. Stored(at)' = Stored(at)
    BY <1>16 DEF Returned, DataSame, Stored
  <2>4. acc' = acc /\ wr' = wr
    BY <1>6, <1>7, <1>9, <1>10, <2>2, <2>3
  <2>5. dropped' = [dropped EXCEPT ![at] = dropped[at] \cup ((k + 1) .. acc[at])]
    BY <1>8, <1>9, <2>1
  <2>6. Sink!DropNewest(at)
    BY <1>9, <2>4, <2>5 DEF Sink!DropNewest
  <2>. QED
    BY <2>6 DEF Sink!Next
<1>17. CASE Popped(at) \/ Broke(at) \/ Committed(at) \/ Quiet(at)
  <2>1. /\ buffer'[at].appended = buffer[at].appended /\ dropped'[at] = dropped[at]
        /\ Stored(at)' = Stored(at)
    BY <1>17 DEF Popped, Broke, Committed, Quiet, QueueSame, DataSame, Stored
  <2>. QED
    BY <1>13, <2>1
<1>. QED
  BY <1>2, <1>11, <1>14, <1>15, <1>16, <1>17 DEF Active

\* The production writer implements the sink: under every interleaving, refusal and
\* fault, each step of it is an append, a write, a drop of the newest rows, or nothing.
THEOREM WriterImplementsSink == Spec => ImplementsRowSink
<1>1. SinkInv /\ SinkInv' /\ [Next]_vars => [Sink!Next]_Sink!vars
  BY SinkStep DEF SinkInv, FitsInv, WriterInv
<1>. QED
  BY <1>1, SinkInit, SinkInvHolds, PTL DEF Spec, ImplementsRowSink, Sink!Spec
=============================================================================
