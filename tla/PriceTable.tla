----------------------------- MODULE PriceTable -----------------------------
(***************************************************************************)
(* internal/pricing/pricing.go: price tables, how they are layered and     *)
(* searched, and the cost of one usage record.                             *)
(*                                                                         *)
(* A table is a function on the model names it knows; a rate is a number   *)
(* or NoRate, which is not the same as 0.                                  *)
(***************************************************************************)
EXTENDS Integers, FiniteSets, SequencesExt

CONSTANTS
  Names,       \* model names, the empty one included
  NoName,      \* the empty name
  Normalized,  \* Names -> Names: without provider/ prefix and date suffix
  NoRate

ASSUME PriceTableAssumption ==
  /\ IsFiniteSet(Names) /\ NoName \in Names
  /\ Normalized \in [Names -> Names]
  /\ NoRate \notin Int

Rate   == Nat \cup {NoRate}
Price  == [input : Rate, output : Rate, read : Rate, write : Rate, reasoning : Rate]

\* What lookup answers for a model it does not know.
Unpriced == [input |-> NoRate, output |-> NoRate, read |-> NoRate, write |-> NoRate,
             reasoning |-> NoRate]

-----------------------------------------------------------------------------
\* Mutant: one entry that does not parse is kept as it is.
ParsedAsIs(file) == file.entries

\* A price file is a record [entries, malformed].  An entry that does not parse and
\* the sample entry are skipped; they do not spoil the others.
Parsed(file) == [m \in DOMAIN file.entries \ file.malformed |-> file.entries[m]]

\* Keys of over win, each with its whole entry; keys only base has survive.
Merge(base, over) ==
  [m \in DOMAIN base \cup DOMAIN over |-> IF m \in DOMAIN over THEN over[m] ELSE base[m]]

\* Exact match first, then the normalized name.
Knows(table, model) ==
  model # NoName /\ (model \in DOMAIN table \/ Normalized[model] \in DOMAIN table)

Lookup(table, model) ==
  IF ~Knows(table, model) THEN Unpriced
  ELSE IF model \in DOMAIN table THEN table[model] ELSE table[Normalized[model]]

NonNeg(n) == IF n < 0 THEN 0 ELSE n

Times(n, rate) == IF rate = NoRate THEN NoRate ELSE n * rate

FirstRate(a, b) == IF a = NoRate THEN b ELSE a

\* The components that can be estimated: cache reads and writes fall back on the
\* input rate, reasoning output on the output rate.
CostBreakdown(price, c) ==
  [input  |-> Times(NonNeg(c.input - c.read - c.write), price.input),
   read   |-> Times(c.read, FirstRate(price.read, price.input)),
   write  |-> Times(c.write, FirstRate(price.write, price.input)),
   output |-> IF price.output = NoRate THEN NoRate
              ELSE IF price.reasoning = NoRate THEN c.output * price.output
              ELSE NonNeg(c.output - c.reasoning) * price.output
                     + c.reasoning * price.reasoning]

\* Their sum, when all of them are there.
Cost(price, c) ==
  LET b == CostBreakdown(price, c)
  IN  IF NoRate \in {b.input, b.read, b.write, b.output} THEN NoRate
      ELSE b.input + b.read + b.write + b.output

=============================================================================
