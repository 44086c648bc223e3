-------------------------- MODULE DashboardProofs --------------------------
(***************************************************************************)
(* For every set of rows, handlers and requests: a row is raw or archived, *)
(* the one connection is with whoever has a transaction, an answer is of   *)
(* one moment, the latest sessions are among those it is made from, a      *)
(* conversation costs what one source says, and bars share out what their  *)
(* window has.                                                             *)
(*                                                                         *)
(* The argument.  TypeOK is not inductive: a batch could bring a row that  *)
(* has been archived before.  The rows there are came in the batches so    *)
(* far, and no row comes in two of them (IInv).  A handler's transaction   *)
(* sees the store of one moment, so what it reads is a part of what was    *)
(* there (ViewsOK).                                                        *)
(*                                                                         *)
(* The list of sessions is asked for in parts: the first n of the raw      *)
(* tables and the first n of each client's archive.  The order is total,   *)
(* so that the first n are n or all (TopIs), each part knows no later time *)
(* of a session than its last, and some part knows that one; so a session  *)
(* among the first n by its last time is in a part that knows it, and what *)
(* is merged misses none (MergedTop).                                      *)
(*                                                                         *)
(* Costs and bars are sums.  What the cost view has of a conversation are  *)
(* its newest reports, or else its responses and the hours of the archived *)
(* ones, and these hours sort them (HoursAddUp).  The numbers of a view    *)
(* are integers, or naturals if nothing is negative (FactsAre).  Windows   *)
(* begin and end where bars do, and each instant of one has the date of    *)
(* one bar (BarsShare), so the bars sort what is drawn (ChartTiles).       *)
(***************************************************************************)
EXTENDS Dashboard, FiniteProofs, TLAPS

(* The first n of a list. *)

Rank(k) == SessionRank[k.client][k.id]
Ranked(D) == /\ \A k \in D : Rank(k) \in Int
             /\ \A j, k \in D : Rank(j) = Rank(k) => j = k

Before(last, k) == {j \in DOMAIN last : Ahead(last, j, k)}

\* The order of the list is total.
LEMMA AheadIsOrder ==
  ASSUME NEW D, Ranked(D), NEW last \in [D -> Int]
  PROVE  /\ \A k \in D : ~Ahead(last, k, k)
         /\ \A i, j, k \in D : Ahead(last, i, j) /\ Ahead(last, j, k) => Ahead(last, i, k)
         /\ \A j, k \in D : j = k \/ Ahead(last, j, k) \/ Ahead(last, k, j)
         /\ \A j, k \in D : Ahead(last, j, k) => last[j] >= last[k]
<1>1. \A k \in D : last[k] \in Int /\ Rank(k) \in Int
  BY DEF Ranked
<1>2. \A j, k \in D : Ahead(last, j, k) <=>
        last[j] > last[k] \/ (last[j] = last[k] /\ Rank(j) < Rank(k))
  BY DEF Ahead, Rank
<1>3. \A j, k \in D : Rank(j) = Rank(k) => j = k
  BY DEF Ranked
<1>. QED
  BY <1>1, <1>2, <1>3

\* How many are ahead.
LEMMA BeforeCounts ==
  ASSUME NEW D, IsFiniteSet(D), Ranked(D), NEW last \in [D -> Int]
  PROVE  /\ \A k \in D : /\ IsFiniteSet(Before(last, k)) /\ Cardinality(Before(last, k)) \in Nat
                         /\ Cardinality(Before(last, k)) < Cardinality(D)
         /\ \A j, k \in D : Ahead(last, j, k) =>
              Cardinality(Before(last, j)) < Cardinality(Before(last, k))
<1>1. \A k \in D : Before(last, k) \subseteq D /\ IsFiniteSet(Before(last, k))
                   /\ Cardinality(Before(last, k)) \in Nat
  <2>1. \A k \in D : Before(last, k) \subseteq D
    BY DEF Before
  <2>. QED
    BY <2>1, FS_Subset, FS_CardinalityType
<1>2. ASSUME NEW k \in D PROVE Cardinality(Before(last, k)) < Cardinality(D)
  <2>1. k \notin Before(last, k) /\ Before(last, k) \subseteq D
    BY <1>1, AheadIsOrder DEF Before
  <2>. QED
    BY <2>1, FS_Subset, FS_CardinalityType
<1>3. ASSUME NEW j \in D, NEW k \in D, Ahead(last, j, k)
      PROVE  Cardinality(Before(last, j)) < Cardinality(Before(last, k))
  <2>1. /\ Before(last, j) \subseteq Before(last, k) /\ j \in Before(last, k)
        /\ j \notin Before(last, j)
    BY <1>3, AheadIsOrder DEF Before
  <2>. QED
    BY <1>1, <2>1, FS_Subset
<1>. QED
  BY <1>1, <1>2, <1>3

LEMMA TopIs ==
  ASSUME NEW D, NEW last \in [D -> Int], NEW n
  PROVE  Top(last, n) = {k \in D : Cardinality(Before(last, k)) < n}
BY DEF Top, Before

\* Who is in is ahead of who is not.
LEMMA TopAhead ==
  ASSUME NEW D, IsFiniteSet(D), Ranked(D), NEW last \in [D -> Int], NEW n \in Nat,
         NEW j \in Top(last, n), NEW k \in D \ Top(last, n)
  PROVE  Ahead(last, j, k)
<1>1. /\ j \in D /\ Cardinality(Before(last, j)) < n
      /\ k \in D /\ ~(Cardinality(Before(last, k)) < n)
  BY TopIs
<1>2. Cardinality(Before(last, j)) \in Nat /\ Cardinality(Before(last, k)) \in Nat
  BY <1>1, BeforeCounts
<1>3. ~Ahead(last, k, j) /\ j # k
  BY <1>1, <1>2, BeforeCounts
<1>. QED
  BY <1>1, <1>3, AheadIsOrder

\* One more of them, as long as there are some.
LEMMA TopGrows ==
  ASSUME NEW D, IsFiniteSet(D), Ranked(D), NEW last \in [D -> Int], NEW n \in Nat,
         n < Cardinality(D), Cardinality(Top(last, n)) = n
  PROVE  Cardinality(Top(last, n + 1)) = n + 1
<1>. DEFINE T == Top(last, n)
            place(k) == Cardinality(Before(last, k))
            Rest == {place(k) : k \in D \ T}
<1>1. T \subseteq D /\ IsFiniteSet(T)
  <2>1. T \subseteq D
    BY TopIs
  <2>. QED
    BY <2>1, FS_Subset
<1>2. \A k \in D : place(k) \in Nat
  BY BeforeCounts
<1>3. Rest # {} /\ Rest \subseteq Nat
  <2>1. D \ T # {}
    <3>1. CASE D \subseteq T
      <4>1. D = T
        BY <1>1, <3>1
      <4>. QED
        BY <4>1
    <3>. QED
      BY <3>1
  <2>. QED
    BY <2>1, <1>2
<1>4. PICK k \in D \ T : \A x \in D \ T : place(k) <= place(x)
  <2>1. PICK r \in Rest : \A s \in Rest : r <= s
    BY <1>3, LeastOf
  <2>. QED
    BY <2>1
<1>5. Before(last, k) = T
  <2>1. \A x \in T : Ahead(last, x, k)
    BY <1>4, TopAhead
  <2>2. \A x \in D \ T : ~Ahead(last, x, k)
    BY <1>2, <1>4, BeforeCounts
  <2>3. Before(last, k) = {x \in D : Ahead(last, x, k)}
    BY DEF Before
  <2>. QED
    BY <1>1, <2>1, <2>2, <2>3
<1>6. place(k) = n
  BY <1>5
<1>7. ASSUME NEW x \in D, place(x) = n PROVE x = k
  <2>1. ~Ahead(last, x, k) /\ ~Ahead(last, k, x)
    BY <1>6, <1>7, <1>2, <1>4, BeforeCounts
  <2>. QED
    BY <2>1, <1>4, <1>7, AheadIsOrder
<1>8. Top(last, n + 1) = T \cup {k}
  <2>1. Top(last, n + 1) = {x \in D : place(x) < n + 1} /\ T = {x \in D : place(x) < n}
    BY TopIs
  <2>2. \A x \in D : place(x) < n + 1 <=> place(x) < n \/ place(x) = n
    BY <1>2
  <2>. QED
    BY <2>1, <2>2, <1>4, <1>6, <1>7
<1>. QED
  BY <1>1, <1>4, <1>8, FS_AddElement

\* As many as wanted, or all there are.
LEMMA TopHas ==
  ASSUME NEW D, IsFiniteSet(D), Ranked(D), NEW last \in [D -> Int], NEW n \in Nat
  PROVE  /\ Top(last, n) \subseteq D
         /\ Cardinality(D) <= n => Top(last, n) = D
         /\ n <= Cardinality(D) => Cardinality(Top(last, n)) = n
<1>1. Top(last, n) = {k \in D : Cardinality(Before(last, k)) < n}
  BY TopIs
<1>2. Cardinality(D) <= n => Top(last, n) = D
  <2>1. \A k \in D : /\ Cardinality(Before(last, k)) \in Nat
                     /\ Cardinality(Before(last, k)) < Cardinality(D)
    BY BeforeCounts
  <2>2. Cardinality(D) \in Nat
    BY FS_CardinalityType
  <2>. QED
    BY <1>1, <2>1, <2>2
<1>3. ASSUME n <= Cardinality(D), Cardinality(Top(last, n)) # n PROVE FALSE
  <2>. DEFINE Bad == {m \in Nat : m <= n /\ Cardinality(Top(last, m)) # m}
  <2>1. n \in Bad /\ Bad \subseteq Nat
    BY <1>3
  <2>2. PICK m \in Bad : \A k \in Bad : m <= k
    <3>. HIDE DEF Bad
    <3>. QED
      BY <2>1, LeastOf
  <2>3. Cardinality(Top(last, 0)) = 0
    <3>1. Top(last, 0) = {k \in D : Cardinality(Before(last, k)) < 0}
      BY TopIs
    <3>2. Top(last, 0) = {}
      BY <3>1, BeforeCounts
    <3>. QED
      BY <3>2, FS_EmptySet
  <2>4. m # 0
    BY <2>2, <2>3
  <2>5. m - 1 \in Nat /\ m - 1 \notin Bad /\ m - 1 <= n /\ m - 1 < n /\ m = (m - 1) + 1
    BY <2>2, <2>4
  <2>6. Cardinality(Top(last, m - 1)) = m - 1
    BY <2>5
  <2>7. m - 1 < Cardinality(D)
    BY <1>3, <2>5, FS_CardinalityType
  <2>8. Cardinality(Top(last, (m - 1) + 1)) = (m - 1) + 1
    BY <2>5, <2>6, <2>7, TopGrows
  <2>. QED
    BY <2>2, <2>5, <2>8
<1>. QED
  BY <1>1, <1>2, <1>3

\* Several lists F of members of D, what is known of the first n of each, and what is true.
Merges(D, n, F, known, true) ==
  /\ \A s \in DOMAIN F : DOMAIN F[s] \subseteq D /\ F[s] \in [DOMAIN F[s] -> Int]
  /\ true \in [D -> Int]
  /\ known \in [UNION {Top(F[s], n) : s \in DOMAIN F} -> Int]
  /\ \A s \in DOMAIN F : \A k \in Top(F[s], n) : F[s][k] <= known[k]
  /\ \A k \in DOMAIN known : known[k] <= true[k]
  /\ \A k \in D : \E s \in DOMAIN F : k \in DOMAIN F[s] /\ F[s][k] = true[k]

MissesNone(D, n, known, true) ==
  /\ Top(known, n) \subseteq D
  /\ Top(known, n) = D \/ Cardinality(Top(known, n)) = n
  /\ \A k \in Top(known, n), j \in D \ Top(known, n) : true[k] >= true[j]

\* The first of several lists, and of those of them the first: with the better of what the lists
\* say of each, none is missed.
LEMMA MergedTop ==
  ASSUME NEW D, IsFiniteSet(D), Ranked(D), NEW n \in Nat, NEW F, NEW known, NEW true,
         Merges(D, n, F, known, true)
  PROVE  MissesNone(D, n, known, true)
<1>. DEFINE Q == UNION {Top(F[s], n) : s \in DOMAIN F}
            L == Top(known, n)
<1>0. /\ \A s \in DOMAIN F : DOMAIN F[s] \subseteq D /\ F[s] \in [DOMAIN F[s] -> Int]
      /\ true \in [D -> Int] /\ known \in [Q -> Int]
      /\ \A s \in DOMAIN F : \A k \in Top(F[s], n) : F[s][k] <= known[k]
      /\ \A k \in DOMAIN known : known[k] <= true[k]
      /\ \A k \in D : \E s \in DOMAIN F : k \in DOMAIN F[s] /\ F[s][k] = true[k]
  BY DEF Merges
<1>1. ASSUME NEW s \in DOMAIN F
      PROVE  /\ IsFiniteSet(DOMAIN F[s]) /\ Ranked(DOMAIN F[s])
             /\ Top(F[s], n) \subseteq DOMAIN F[s]
             /\ IsFiniteSet(Top(F[s], n))
  <2>1. IsFiniteSet(DOMAIN F[s]) /\ Ranked(DOMAIN F[s])
    BY <1>0, FS_Subset DEF Ranked
  <2>2. Top(F[s], n) \subseteq DOMAIN F[s]
    BY DEF Top
  <2>. QED
    BY <2>1, <2>2, FS_Subset
<1>2. Q \subseteq D /\ IsFiniteSet(Q) /\ Ranked(Q) /\ DOMAIN known = Q /\ known \in [Q -> Int]
  <2>1. Q \subseteq D
    BY <1>0, <1>1
  <2>. QED
    BY <1>0, <2>1, FS_Subset DEF Ranked
<1>3. /\ L \subseteq Q
      /\ Cardinality(Q) <= n => L = Q
      /\ n <= Cardinality(Q) => Cardinality(L) = n
  BY <1>2, TopHas
<1>4. Cardinality(Q) \in Nat
  BY <1>2, FS_CardinalityType

\* Who is not in the list that knows him best leaves n others ahead of him.
<1>5. ASSUME NEW j \in D, NEW s \in DOMAIN F, j \in DOMAIN F[s], F[s][j] = true[j],
             j \notin Top(F[s], n)
      PROVE  /\ Top(F[s], n) \subseteq Q
             /\ Cardinality(Top(F[s], n)) = n
             /\ \A i \in Top(F[s], n) : known[i] >= true[j]
  <2>1. Top(F[s], n) \subseteq Q
    OBVIOUS
  <2>2. Cardinality(Top(F[s], n)) = n
    <3>1. Top(F[s], n) # DOMAIN F[s]
      BY <1>5
    <3>2. Cardinality(DOMAIN F[s]) \in Nat
      BY <1>0, <1>1, FS_CardinalityType
    <3>3. /\ Cardinality(DOMAIN F[s]) <= n => Top(F[s], n) = DOMAIN F[s]
          /\ n <= Cardinality(DOMAIN F[s]) => Cardinality(Top(F[s], n)) = n
      BY <1>0, <1>1, TopHas
    <3>. QED
      BY <3>1, <3>2, <3>3
  <2>3. ASSUME NEW i \in Top(F[s], n) PROVE known[i] >= true[j]
    <3>1. Ahead(F[s], i, j)
      BY <1>0, <1>1, <1>5, TopAhead
    <3>2. i \in DOMAIN F[s]
      BY <1>1
    <3>3. F[s][i] >= F[s][j]
      BY <3>1, <3>2, <1>0, <1>1, <1>5, AheadIsOrder
    <3>4. F[s][i] <= known[i] /\ known[i] \in Int /\ F[s][i] \in Int /\ true[j] \in Int
      BY <1>0, <1>2, <3>2
    <3>. QED
      BY <3>3, <3>4, <1>5
  <2>. QED
    BY <2>1, <2>2, <2>3
<1>6. L = D \/ Cardinality(L) = n
  <2>1. CASE n <= Cardinality(Q)
    BY <2>1, <1>3
  <2>2. CASE Cardinality(Q) < n
    <3>1. L = Q
      BY <1>3, <1>4, <2>2
    <3>2. ASSUME NEW j \in D, j \notin Q PROVE FALSE
      <4>1. PICK s \in DOMAIN F : j \in DOMAIN F[s] /\ F[s][j] = true[j]
        BY <1>0
      <4>2. j \notin Top(F[s], n)
        BY <3>2
      <4>3. Top(F[s], n) \subseteq Q /\ Cardinality(Top(F[s], n)) = n
        BY <4>1, <4>2, <1>5
      <4>4. Cardinality(Top(F[s], n)) <= Cardinality(Q)
        BY <4>3, <1>2, FS_Subset
      <4>. QED
        BY <4>3, <4>4, <2>2, <1>4
    <3>. QED
      BY <3>1, <3>2, <1>2
  <2>. QED
    BY <2>1, <2>2, <1>4
<1>7. ASSUME NEW k \in L, NEW j \in D \ L PROVE true[k] >= true[j]
  <2>1. k \in Q /\ known[k] <= true[k] /\ known[k] \in Int /\ true[k] \in Int /\ true[j] \in Int
    BY <1>0, <1>2, <1>3
  <2>2. PICK s \in DOMAIN F : j \in DOMAIN F[s] /\ F[s][j] = true[j]
    BY <1>0
  <2>3. CASE j \in Top(F[s], n)
    <3>1. j \in Q /\ F[s][j] <= known[j] /\ known[j] \in Int
      BY <2>3, <1>0, <1>2
    <3>2. Ahead(known, k, j)
      BY <3>1, <1>2, <1>7, TopAhead
    <3>3. known[k] >= known[j]
      BY <3>1, <3>2, <2>1, <1>2, AheadIsOrder
    <3>. QED
      BY <3>1, <3>3, <2>1, <2>2
  <2>4. CASE j \notin Top(F[s], n)
    <3>1. /\ Top(F[s], n) \subseteq Q /\ Cardinality(Top(F[s], n)) = n
          /\ \A i \in Top(F[s], n) : known[i] >= true[j]
      BY <2>2, <2>4, <1>5
    <3>2. known[k] >= true[j]
      <4>1. SUFFICES ASSUME known[k] < true[j] PROVE FALSE
        BY <2>1
      <4>2. \A i \in Top(F[s], n) : Ahead(known, i, k)
        <5>1. ASSUME NEW i \in Top(F[s], n) PROVE known[i] > known[k]
          <6>1. known[i] \in Int /\ known[i] >= true[j]
            BY <3>1, <1>0, <1>2
          <6>. QED
            BY <6>1, <4>1, <2>1
        <5>. QED
          BY <5>1 DEF Ahead
      <4>3. Top(F[s], n) \subseteq Before(known, k)
        BY <4>2, <3>1, <1>2 DEF Before
      <4>4. IsFiniteSet(Before(known, k)) /\ Cardinality(Before(known, k)) \in Nat
        BY <2>1, <1>2, BeforeCounts
      <4>5. n <= Cardinality(Before(known, k))
        BY <4>3, <4>4, <3>1, FS_Subset
      <4>6. Cardinality(Before(known, k)) < n
        BY <1>7, <1>2, TopIs
      <4>. QED
        BY <4>4, <4>5, <4>6
    <3>. QED
      BY <3>2, <2>1
  <2>. QED
    BY <2>3, <2>4
<1>. QED
  BY <1>2, <1>3, <1>6, <1>7 DEF MissesNone

-----------------------------------------------------------------------------
(* When a session was last active. *)

\* Finitely many rows, with the times and amounts that are compared.
Dated(d) ==
  /\ IsFiniteSet(d.raw) /\ IsFiniteSet(d.archived)
  /\ \A r \in d.raw \cup d.archived :
       r.ts \in Int /\ (r.table = "turn_cost" =>
                          r.received \in Int /\ r.amount \in Int /\ r.tie \in Int)

LEMMA LatestOf ==
  ASSUME NEW S, IsFiniteSet(S), S # {}, S \subseteq Int
  PROVE  Latest(S) \in S /\ \A t \in S : t <= Latest(S)
<1>. DEFINE R == {q \in S \X S : q[1] <= q[2]}
<1>1. \A x, y \in S : <<x, y>> \in R <=> x <= y
  OBVIOUS
<1>2. /\ \A x, y \in S : <<x, y>> \in R \/ <<y, x>> \in R
      /\ \A x, y, z \in S : <<x, y>> \in R /\ <<y, z>> \in R => <<x, z>> \in R
  BY <1>1
<1>. HIDE DEF R
<1>3. PICK m \in S : \A x \in S : <<x, m>> \in R
  BY <1>2, GreatestOfFinite
<1>4. \A x \in S : m >= x
  BY <1>1, <1>3
<1>. QED
  BY <1>4 DEF Latest

LEMMA EarliestOf ==
  ASSUME NEW S, IsFiniteSet(S), S # {}, S \subseteq Int
  PROVE  Earliest(S) \in S /\ \A t \in S : Earliest(S) <= t
<1>. DEFINE R == {q \in S \X S : q[1] >= q[2]}
<1>1. \A x, y \in S : <<x, y>> \in R <=> x >= y
  OBVIOUS
<1>2. /\ \A x, y \in S : <<x, y>> \in R \/ <<y, x>> \in R
      /\ \A x, y, z \in S : <<x, y>> \in R /\ <<y, z>> \in R => <<x, z>> \in R
  BY <1>1
<1>. HIDE DEF R
<1>3. PICK m \in S : \A x \in S : <<x, m>> \in R
  BY <1>2, GreatestOfFinite
<1>4. \A x \in S : m <= x
  BY <1>1, <1>3
<1>. QED
  BY <1>4 DEF Earliest

\* The times of rows.
LEMMA TimesOf ==
  ASSUME NEW S, IsFiniteSet(S), \A r \in S : r.ts \in Int
  PROVE  IsFiniteSet({r.ts : r \in S}) /\ {r.ts : r \in S} \subseteq Int
<1>. DEFINE f == [r \in S |-> r.ts]
<1>1. IsFiniteSet({f[r] : r \in S})
  <2>1. S \subseteq DOMAIN f
    OBVIOUS
  <2>. HIDE DEF f
  <2>. QED
    BY <2>1, FiniteValues
<1>2. {f[r] : r \in S} = {r.ts : r \in S}
  OBVIOUS
<1>. QED
  BY <1>1, <1>2

\* The newest report of a turn is one that no other is newer than.
LEMMA NewestOfTurn ==
  ASSUME NEW S, IsFiniteSet(S), NEW r \in S, r.table = "turn_cost",
         \A s \in S : s.table = "turn_cost" =>
           s.ts \in Int /\ s.received \in Int /\ s.amount \in Int /\ s.tie \in Int
  PROVE  \E m \in NewestTurns(S) : SameTurn(m, r)
<1>. DEFINE T == {s \in Of(S, "turn_cost") : SameTurn(s, r)}
            R == {q \in T \X T : ~Newer(q[1], q[2])}
<1>1. T \subseteq S /\ IsFiniteSet(T) /\ r \in T
  <2>1. T \subseteq S /\ r \in T
    BY DEF Of, SameTurn
  <2>. QED
    BY <2>1, FS_Subset
<1>2. \A s \in T : s.ts \in Int /\ s.received \in Int /\ s.amount \in Int /\ s.tie \in Int
  BY DEF Of
<1>3. \A x, y \in T : <<x, y>> \in R <=> ~Newer(x, y)
  OBVIOUS
<1>4. \A x, y \in T : ~Newer(x, y) \/ ~Newer(y, x)
  BY <1>2 DEF Newer
<1>5. \A x, y, z \in T : ~Newer(x, y) /\ ~Newer(y, z) => ~Newer(x, z)
  BY <1>2 DEF Newer
<1>6. /\ \A x, y \in T : <<x, y>> \in R \/ <<y, x>> \in R
      /\ \A x, y, z \in T : <<x, y>> \in R /\ <<y, z>> \in R => <<x, z>> \in R
  BY <1>3, <1>4, <1>5
<1>. HIDE DEF R
<1>7. PICK m \in T : \A x \in T : <<x, m>> \in R
  <2>1. T # {}
    BY <1>1
  <2>. QED
    BY <1>1, <1>6, <2>1, GreatestOfFinite
<1>8. \A x \in T : ~Newer(x, m)
  BY <1>3, <1>7
<1>9. \A s \in Of(S, "turn_cost") : SameTurn(m, s) => s \in T
  BY <1>7 DEF SameTurn
<1>. QED
  BY <1>7, <1>8, <1>9 DEF NewestTurns

LEMMA NativeAreReports ==
  ASSUME NEW hot, NEW cold
  PROVE  NativeTurnCosts(hot, cold) \subseteq Of(hot \cup cold, "turn_cost")
BY DEF NativeTurnCosts, NewestTurns, Of

\* The view of invocations has a time for each.
LEMMA InvocationTimes ==
  ASSUME NEW d, Dated(d)
  PROVE  /\ IsFiniteSet(DOMAIN SkillInvocations(d.raw, d.archived))
         /\ \A i \in DOMAIN SkillInvocations(d.raw, d.archived) :
              SkillInvocations(d.raw, d.archived)[i] \in Int
<1>. DEFINE rows == Of(d.raw \cup d.archived, "skill_invocation")
            own(i) == {q \in rows : Invocation(q) = i}
<1>1. IsFiniteSet(rows) /\ \A r \in rows : r.ts \in Int
  <2>1. rows \subseteq d.raw \cup d.archived
    BY DEF Of
  <2>. QED
    BY <2>1, FS_Union, FS_Subset DEF Dated
<1>2. SkillInvocations(d.raw, d.archived) =
        [i \in {Invocation(r) : r \in rows} |-> Earliest({r.ts : r \in own(i)})]
  BY DEF SkillInvocations
<1>3. IsFiniteSet({Invocation(r) : r \in rows})
  <2>. DEFINE f == [r \in rows |-> Invocation(r)]
  <2>1. rows \subseteq DOMAIN f /\ {f[r] : r \in rows} = {Invocation(r) : r \in rows}
    OBVIOUS
  <2>. HIDE DEF f, rows
  <2>2. IsFiniteSet({f[r] : r \in rows})
    BY <1>1, <2>1, FiniteValues
  <2>. QED
    BY <2>1, <2>2
<1>4. ASSUME NEW i \in {Invocation(r) : r \in rows}
      PROVE  Earliest({r.ts : r \in own(i)}) \in Int
  <2>1. own(i) \subseteq rows /\ own(i) # {}
    OBVIOUS
  <2>2. IsFiniteSet(own(i)) /\ \A r \in own(i) : r.ts \in Int
    BY <2>1, <1>1, FS_Subset
  <2>3. IsFiniteSet({r.ts : r \in own(i)}) /\ {r.ts : r \in own(i)} \subseteq Int
    <3>. HIDE DEF own
    <3>. QED
      BY <2>2, TimesOf
  <2>4. {r.ts : r \in own(i)} # {}
    BY <2>1
  <2>. QED
    <3>. HIDE DEF own
    <3>. QED
      BY <2>3, <2>4, EarliestOf
<1>. QED
  BY <1>2, <1>3, <1>4

LEMMA ActiveTimesTypes ==
  ASSUME NEW d, Dated(d), NEW key
  PROVE  /\ IsFiniteSet(ActiveTimes(d.archived, key))
         /\ ActiveTimes(d.archived, key) \subseteq Int
<1>. DEFINE own == OfSession(ActiveRows(d.archived), key)
<1>1. own \subseteq d.archived
  BY DEF OfSession, ActiveRows, In
<1>2. IsFiniteSet(own) /\ \A r \in own : r.ts \in Int
  BY <1>1, FS_Subset DEF Dated
<1>. QED
  BY <1>2, TimesOf DEF ActiveTimes

LEMMA ActivityTypes ==
  ASSUME NEW d, Dated(d), NEW key
  PROVE  IsFiniteSet(Activity(d, key)) /\ Activity(d, key) \subseteq Int
<1>. DEFINE plain == {q \in OfSession(ActiveRows(d.raw), key) :
                        q.table \notin {"turn_cost", "skill_invocation"}}
            costs == OfSession(NativeTurnCosts(d.raw, d.archived), key)
            uses  == SkillInvocations(d.raw, d.archived)
            mine  == {j \in DOMAIN uses : j.session = key.id}
<1>1. /\ IsFiniteSet({r.ts : r \in plain}) /\ {r.ts : r \in plain} \subseteq Int
  <2>1. plain \subseteq d.raw
    BY DEF OfSession, ActiveRows, In
  <2>2. IsFiniteSet(plain) /\ \A r \in plain : r.ts \in Int
    BY <2>1, FS_Subset DEF Dated
  <2>. QED
    <3>. HIDE DEF plain
    <3>. QED
      BY <2>2, TimesOf
<1>2. /\ IsFiniteSet({r.ts : r \in costs}) /\ {r.ts : r \in costs} \subseteq Int
  <2>1. costs \subseteq d.raw \cup d.archived
    BY NativeAreReports DEF OfSession, Of
  <2>2. IsFiniteSet(costs) /\ \A r \in costs : r.ts \in Int
    BY <2>1, FS_Union, FS_Subset DEF Dated
  <2>. QED
    <3>. HIDE DEF costs
    <3>. QED
      BY <2>2, TimesOf
<1>3. /\ IsFiniteSet({uses[i] : i \in mine}) /\ {uses[i] : i \in mine} \subseteq Int
  <2>1. IsFiniteSet(DOMAIN uses) /\ \A i \in DOMAIN uses : uses[i] \in Int
    BY InvocationTimes
  <2>2. mine \subseteq DOMAIN uses
    OBVIOUS
  <2>. HIDE DEF uses, mine
  <2>3. IsFiniteSet(mine)
    BY <2>1, <2>2, FS_Subset
  <2>. QED
    BY <2>1, <2>2, <2>3, FiniteValues
<1>4. Activity(d, key) = {r.ts : r \in plain} \cup
        IF key.client = "claude" THEN {} ELSE {r.ts : r \in costs} \cup {uses[i] : i \in mine}
  BY DEF Activity
<1>. HIDE DEF plain, costs, uses, mine
<1>5. CASE key.client = "claude"
  <2>1. Activity(d, key) = {r.ts : r \in plain}
    BY <1>4, <1>5
  <2>. QED
    BY <2>1, <1>1
<1>6. CASE key.client # "claude"
  <2>. DEFINE A == {r.ts : r \in plain}
              B == {r.ts : r \in costs}
              C == {uses[i] : i \in mine}
  <2>1. Activity(d, key) = A \cup (B \cup C)
    BY <1>4, <1>6
  <2>2. IsFiniteSet(A) /\ IsFiniteSet(B) /\ IsFiniteSet(C) /\ A \subseteq Int /\ B \subseteq Int
        /\ C \subseteq Int
    BY <1>1, <1>2, <1>3
  <2>. HIDE DEF A, B, C
  <2>3. IsFiniteSet(B \cup C)
    BY <2>2, FS_Union
  <2>. QED
    BY <2>1, <2>2, <2>3, FS_Union
<1>. QED
  BY <1>5, <1>6

\* The lists know every session from somewhere.
LEMMA KnownSomewhere ==
  ASSUME NEW d, Dated(d), NEW clients, NEW key \in SessionKeys(d, clients)
  PROVE  Activity(d, key) \cup ActiveTimes(d.archived, key) # {}
<1>1. PICK r \in ActiveRows(d.raw \cup d.archived) : SessionKey(r) = key
  BY DEF SessionKeys
<1>2. CASE r \in d.archived
  <2>1. r \in OfSession(ActiveRows(d.archived), key)
    BY <1>1, <1>2 DEF OfSession, ActiveRows, In
  <2>. QED
    BY <2>1 DEF ActiveTimes
<1>3. CASE r \in d.raw /\ r.table \notin {"turn_cost", "skill_invocation"}
  <2>1. r \in {q \in OfSession(ActiveRows(d.raw), key) :
                 q.table \notin {"turn_cost", "skill_invocation"}}
    BY <1>1, <1>3 DEF OfSession, ActiveRows, In
  <2>. QED
    BY <2>1 DEF Activity
<1>4. CASE r \in d.raw /\ r.table = "turn_cost"
  <2>1. key.client # "claude" /\ key.id = r.session
    BY <1>1, <1>4 DEF SessionKey, Client, ClaudeTables
  <2>. DEFINE S == Of(d.raw, "turn_cost") \cup NewestTurns(d.archived)
  <2>2. S \subseteq d.raw \cup d.archived /\ r \in S
    BY <1>4 DEF Of, NewestTurns
  <2>3. /\ IsFiniteSet(S)
        /\ \A s \in S : s.table = "turn_cost" =>
             s.ts \in Int /\ s.received \in Int /\ s.amount \in Int /\ s.tie \in Int
    BY <2>2, FS_Union, FS_Subset DEF Dated
  <2>4. PICK m \in NewestTurns(S) : SameTurn(m, r)
    <3>. HIDE DEF S
    <3>. QED
      BY <2>2, <2>3, <1>4, NewestOfTurn
  <2>5. m.table = "turn_cost" /\ m.session = r.session
    BY <2>4 DEF NewestTurns, Of, SameTurn
  <2>6. SessionKey(m) = key
    BY <1>1, <1>4, <2>5 DEF SessionKey, Client
  <2>7. m \in OfSession(NativeTurnCosts(d.raw, d.archived), key)
    BY <2>4, <2>6 DEF OfSession, NativeTurnCosts
  <2>. QED
    BY <2>1, <2>7 DEF Activity
<1>5. CASE r \in d.raw /\ r.table = "skill_invocation"
  <2>1. key.client # "claude" /\ key.id = r.session
    BY <1>1, <1>5 DEF SessionKey, Client, ClaudeTables
  <2>2. Invocation(r) \in DOMAIN SkillInvocations(d.raw, d.archived)
    BY <1>5 DEF SkillInvocations, Of
  <2>3. Invocation(r).session = key.id
    BY <2>1 DEF Invocation
  <2>. QED
    BY <2>1, <2>2, <2>3 DEF Activity
<1>6. r \in d.raw \cup d.archived
  BY DEF ActiveRows, In
<1>. QED
  BY <1>2, <1>3, <1>4, <1>5, <1>6

-----------------------------------------------------------------------------
(* The latest sessions. *)

HotTimes(d, client) ==
  [k \in {j \in SessionKeys(d, Arms(client)) : Activity(d, j) # {}} |-> Latest(Activity(d, k))]

ColdTimes(d, c) ==
  [k \in {j \in SessionKeys(d, {c}) : ActiveTimes(d.archived, j) # {}} |->
     Latest(ActiveTimes(d.archived, k))]

\* The lists the candidates are taken from: the raw tables' and one of each client.
Lists(d, client) ==
  [s \in Arms(client) \cup {"raw"} |-> IF s = "raw" THEN HotTimes(d, client) ELSE ColdTimes(d, s)]

TimesKnown(d, client, limit, k) ==
  (IF k \in Top(HotTimes(d, client), limit) THEN {HotTimes(d, client)[k]} ELSE {}) \cup
  (IF k \in Top(ColdTimes(d, k.client), limit) THEN ActiveTimes(d.archived, k) ELSE {})

LastTime(d, k) == Latest(Activity(d, k) \cup ActiveTimes(d.archived, k))

Clients == {"all", "claude", "codex"}

LEMMA ArmsAre == \A client \in Clients : Arms(client) \subseteq {"claude", "codex"}
BY DEF Arms, Clients

LEMMA ListsAre ==
  ASSUME NEW d, NEW client \in Clients
  PROVE  /\ DOMAIN Lists(d, client) = Arms(client) \cup {"raw"}
         /\ Lists(d, client)["raw"] = HotTimes(d, client)
         /\ \A c \in Arms(client) : Lists(d, client)[c] = ColdTimes(d, c)
<1>1. "raw" \notin Arms(client)
  BY ArmsAre
<1>. QED
  BY <1>1 DEF Lists

LEMMA CandidatesAre ==
  ASSUME NEW d, NEW client \in Clients, NEW n
  PROVE  LET Q == UNION {Top(Lists(d, client)[s], n) : s \in DOMAIN Lists(d, client)}
         IN  Candidates(d, client, n) = [k \in Q |-> Latest(TimesKnown(d, client, n, k))]
<1>. DEFINE Q == UNION {Top(Lists(d, client)[s], n) : s \in DOMAIN Lists(d, client)}
            S == Top(HotTimes(d, client), n) \cup
                   UNION {Top(ColdTimes(d, c), n) : c \in Arms(client)}
<1>1. Q = S
  <2>1. DOMAIN Lists(d, client) = Arms(client) \cup {"raw"}
    BY ListsAre
  <2>2. Lists(d, client)["raw"] = HotTimes(d, client)
        /\ \A c \in Arms(client) : Lists(d, client)[c] = ColdTimes(d, c)
    BY ListsAre
  <2>3. \A k : k \in Q <=> \E s \in DOMAIN Lists(d, client) : k \in Top(Lists(d, client)[s], n)
    OBVIOUS
  <2>4. \A k : k \in S <=> \/ k \in Top(HotTimes(d, client), n)
                         \/ \E c \in Arms(client) : k \in Top(ColdTimes(d, c), n)
    OBVIOUS
  <2>5. \A k : k \in Q <=> k \in S
    <3>. HIDE DEF Q, S
    <3>. QED
      BY <2>1, <2>2, <2>3, <2>4, Zenon
  <2>. QED
    BY <2>5
<1>2. Candidates(d, client, n) = [k \in S |-> Latest(TimesKnown(d, client, n, k))]
  BY DEF Candidates, HotTimes, ColdTimes, TimesKnown
<1>. QED
  BY <1>1, <1>2

LEMMA FiniteKeys ==
  ASSUME NEW d, Dated(d), NEW clients
  PROVE  IsFiniteSet(SessionKeys(d, clients))
<1>. DEFINE rows == ActiveRows(d.raw \cup d.archived)
            f == [r \in rows |-> SessionKey(r)]
<1>1. IsFiniteSet(rows)
  <2>1. rows \subseteq d.raw \cup d.archived
    BY DEF ActiveRows, In
  <2>. QED
    BY <2>1, FS_Union, FS_Subset DEF Dated
<1>2. rows \subseteq DOMAIN f /\ SessionKeys(d, clients) \subseteq {f[r] : r \in rows}
  BY DEF SessionKeys
<1>. HIDE DEF f, rows
<1>3. IsFiniteSet({f[r] : r \in rows})
  BY <1>1, <1>2, FiniteValues
<1>. QED
  BY <1>2, <1>3, FS_Subset

\* What each list says of its sessions.
LEMMA ListTimes ==
  ASSUME NEW d, Dated(d), NEW client \in Clients, NEW s \in DOMAIN Lists(d, client)
  PROVE  LET F == Lists(d, client)[s]
         IN  /\ DOMAIN F \subseteq SessionKeys(d, Arms(client)) /\ F \in [DOMAIN F -> Int]
             /\ \A k \in DOMAIN F : s # "raw" => k.client = s
<1>1. CASE s = "raw"
  <2>1. Lists(d, client)[s] = HotTimes(d, client)
    BY <1>1, ListsAre
  <2>2. \A k : Activity(d, k) # {} => Latest(Activity(d, k)) \in Int
    BY ActivityTypes, LatestOf
  <2>. QED
    BY <1>1, <2>1, <2>2 DEF HotTimes
<1>2. CASE s \in Arms(client)
  <2>1. Lists(d, client)[s] = ColdTimes(d, s)
    BY <1>2, ListsAre
  <2>2. \A k : ActiveTimes(d.archived, k) # {} => Latest(ActiveTimes(d.archived, k)) \in Int
    BY ActiveTimesTypes, LatestOf
  <2>3. SessionKeys(d, {s}) \subseteq SessionKeys(d, Arms(client))
    BY <1>2 DEF SessionKeys
  <2>4. \A k \in SessionKeys(d, {s}) : k.client = s
    BY DEF SessionKeys
  <2>. QED
    BY <2>1, <2>2, <2>3, <2>4 DEF ColdTimes
<1>3. s \in Arms(client) \cup {"raw"}
  BY ListsAre
<1>. QED
  BY <1>1, <1>2, <1>3

LEMMA HotTimesAre ==
  ASSUME NEW d, Dated(d), NEW client, NEW k \in DOMAIN HotTimes(d, client)
  PROVE  /\ HotTimes(d, client)[k] \in Activity(d, k)
         /\ \A t \in Activity(d, k) : t <= HotTimes(d, client)[k]
<1>1. HotTimes(d, client)[k] = Latest(Activity(d, k)) /\ Activity(d, k) # {}
  BY DEF HotTimes
<1>. QED
  BY <1>1, ActivityTypes, LatestOf

LEMMA ColdTimesAre ==
  ASSUME NEW d, Dated(d), NEW c, NEW k \in DOMAIN ColdTimes(d, c)
  PROVE  /\ ColdTimes(d, c)[k] \in ActiveTimes(d.archived, k)
         /\ \A t \in ActiveTimes(d.archived, k) : t <= ColdTimes(d, c)[k]
<1>1. ColdTimes(d, c)[k] = Latest(ActiveTimes(d.archived, k)) /\ ActiveTimes(d.archived, k) # {}
  BY DEF ColdTimes
<1>. QED
  BY <1>1, ActiveTimesTypes, LatestOf

LEMMA LastTimes ==
  ASSUME NEW d, Dated(d), NEW clients, NEW k \in SessionKeys(d, clients)
  PROVE  /\ LastTime(d, k) \in Activity(d, k) \cup ActiveTimes(d.archived, k)
         /\ \A t \in Activity(d, k) \cup ActiveTimes(d.archived, k) : t <= LastTime(d, k)
         /\ LastTime(d, k) \in Int
<1>. DEFINE A == Activity(d, k)
            B == ActiveTimes(d.archived, k)
<1>1. IsFiniteSet(A) /\ A \subseteq Int /\ IsFiniteSet(B) /\ B \subseteq Int
  BY ActivityTypes, ActiveTimesTypes
<1>2. A \cup B # {}
  BY KnownSomewhere
<1>. HIDE DEF A, B
<1>3. IsFiniteSet(A \cup B) /\ A \cup B \subseteq Int
  BY <1>1, FS_Union
<1>4. Latest(A \cup B) \in A \cup B /\ \A t \in A \cup B : t <= Latest(A \cup B)
  BY <1>2, <1>3, LatestOf
<1>. QED
  BY <1>3, <1>4 DEF LastTime, A, B

\* What the candidates are said to be is between what a list says and what is true.
LEMMA CandidateTimes ==
  ASSUME NEW d, Dated(d), NEW client \in Clients, NEW n,
         NEW s \in DOMAIN Lists(d, client), NEW k \in Top(Lists(d, client)[s], n)
  PROVE  /\ Latest(TimesKnown(d, client, n, k)) \in Int
         /\ Lists(d, client)[s][k] <= Latest(TimesKnown(d, client, n, k))
         /\ Latest(TimesKnown(d, client, n, k)) <= LastTime(d, k)
<1>. DEFINE F == Lists(d, client)[s]
            T == TimesKnown(d, client, n, k)
            A == Activity(d, k)
            B == ActiveTimes(d.archived, k)
<1>1. k \in DOMAIN F /\ k \in SessionKeys(d, Arms(client)) /\ (s # "raw" => k.client = s)
  <2>1. k \in DOMAIN F
    BY DEF Top
  <2>. QED
    BY <2>1, ListTimes
<1>2. IsFiniteSet(A) /\ A \subseteq Int /\ IsFiniteSet(B) /\ B \subseteq Int
  BY ActivityTypes, ActiveTimesTypes
<1>3. k \in Top(HotTimes(d, client), n) =>
        /\ HotTimes(d, client)[k] \in A /\ IsFiniteSet({HotTimes(d, client)[k]})
  <2>1. k \in Top(HotTimes(d, client), n) => k \in DOMAIN HotTimes(d, client)
    BY DEF Top
  <2>. QED
    BY <2>1, HotTimesAre, FS_Singleton
<1>4. /\ T \subseteq A \cup B /\ IsFiniteSet(T)
  <2>. DEFINE X == IF k \in Top(HotTimes(d, client), n) THEN {HotTimes(d, client)[k]} ELSE {}
              Y == IF k \in Top(ColdTimes(d, k.client), n) THEN B ELSE {}
  <2>1. T = X \cup Y
    BY DEF TimesKnown
  <2>2. X \subseteq A /\ IsFiniteSet(X)
    BY <1>3, FS_EmptySet
  <2>3. Y \subseteq B /\ IsFiniteSet(Y)
    BY <1>2, FS_EmptySet
  <2>. HIDE DEF X, Y, T
  <2>. QED
    BY <2>1, <2>2, <2>3, FS_Union
<1>5. F[k] \in T
  <2>1. CASE s = "raw"
    <3>1. F = HotTimes(d, client)
      BY <2>1, ListsAre
    <3>. QED
      BY <3>1 DEF TimesKnown
  <2>2. CASE s \in Arms(client)
    <3>1. F = ColdTimes(d, k.client)
      <4>1. s # "raw"
        BY <2>2, ArmsAre
      <4>. QED
        BY <4>1, <1>1, <2>2, ListsAre
    <3>2. F[k] \in B
      BY <1>1, <3>1, ColdTimesAre
    <3>. QED
      BY <3>1, <3>2 DEF TimesKnown
  <2>. QED
    BY <2>1, <2>2, ListsAre
<1>6. LastTime(d, k) \in Int /\ \A t \in A \cup B : t <= LastTime(d, k)
  BY <1>1, LastTimes
<1>. HIDE DEF F, T, A, B
<1>7. T \subseteq Int /\ T # {}
  BY <1>2, <1>4, <1>5
<1>8. Latest(T) \in T /\ \A t \in T : t <= Latest(T)
  BY <1>4, <1>7, LatestOf
<1>9. Latest(T) \in Int /\ F[k] <= Latest(T) /\ Latest(T) <= LastTime(d, k)
  BY <1>4, <1>5, <1>6, <1>7, <1>8
<1>. QED
  BY <1>9 DEF F, T

\* Some list has the last time of a session.
LEMMA SomeListKnows ==
  ASSUME NEW d, Dated(d), NEW client \in Clients, NEW k \in SessionKeys(d, Arms(client))
  PROVE  \E s \in DOMAIN Lists(d, client) :
           k \in DOMAIN Lists(d, client)[s] /\ Lists(d, client)[s][k] = LastTime(d, k)
<1>. DEFINE A == Activity(d, k)
            B == ActiveTimes(d.archived, k)
<1>1. /\ LastTime(d, k) \in A \cup B /\ LastTime(d, k) \in Int
      /\ \A t \in A \cup B : t <= LastTime(d, k)
  BY LastTimes
<1>2. A \subseteq Int /\ B \subseteq Int
  BY ActivityTypes, ActiveTimesTypes
<1>3. CASE LastTime(d, k) \in A
  <2>1. k \in DOMAIN HotTimes(d, client)
    BY <1>3 DEF HotTimes
  <2>2. HotTimes(d, client)[k] \in A /\ \A t \in A : t <= HotTimes(d, client)[k]
    BY <2>1, HotTimesAre
  <2>3. HotTimes(d, client)[k] = LastTime(d, k)
    <3>1. HotTimes(d, client)[k] \in Int /\ LastTime(d, k) <= HotTimes(d, client)[k]
          /\ HotTimes(d, client)[k] <= LastTime(d, k)
      BY <1>1, <1>2, <1>3, <2>2
    <3>. QED
      BY <3>1, <1>1
  <2>. QED
    BY <2>1, <2>3, ListsAre
<1>4. CASE LastTime(d, k) \in B
  <2>1. k.client \in Arms(client) /\ k \in SessionKeys(d, {k.client})
    BY DEF SessionKeys
  <2>2. k \in DOMAIN ColdTimes(d, k.client)
    BY <1>4, <2>1 DEF ColdTimes
  <2>3. ColdTimes(d, k.client)[k] \in B /\ \A t \in B : t <= ColdTimes(d, k.client)[k]
    BY <2>2, ColdTimesAre
  <2>4. ColdTimes(d, k.client)[k] = LastTime(d, k)
    <3>1. ColdTimes(d, k.client)[k] \in Int /\ LastTime(d, k) <= ColdTimes(d, k.client)[k]
          /\ ColdTimes(d, k.client)[k] <= LastTime(d, k)
      BY <1>1, <1>2, <1>4, <2>3
    <3>. QED
      BY <3>1, <1>1
  <2>. QED
    <3>1. k.client \in DOMAIN Lists(d, client)
          /\ Lists(d, client)[k.client] = ColdTimes(d, k.client)
      BY <2>1, ListsAre
    <3>. QED
      BY <3>1, <2>2, <2>4
<1>. QED
  BY <1>1, <1>3, <1>4

\* BuildSessionList misses none, for any rows.
LEMMA ListMissesNone ==
  ASSUME NEW d, Dated(d), NEW client \in Clients, NEW n \in Nat,
         Ranked(SessionKeys(d, Arms(client)))
  PROVE  Recent(d, SessionKeys(d, Arms(client)), DOMAIN SessionList(d, client, n), n)
<1>. DEFINE D == SessionKeys(d, Arms(client))
            F == Lists(d, client)
            Q == UNION {Top(F[s], n) : s \in DOMAIN F}
            known == Candidates(d, client, n)
            true == [k \in D |-> LastTime(d, k)]
<1>1. IsFiniteSet(D)
  BY FiniteKeys
<1>2. \A s \in DOMAIN F : DOMAIN F[s] \subseteq D /\ F[s] \in [DOMAIN F[s] -> Int]
  BY ListTimes
<1>3. true \in [D -> Int]
  BY LastTimes
<1>4. known = [k \in Q |-> Latest(TimesKnown(d, client, n, k))]
  BY CandidatesAre
<1>5. \A s \in DOMAIN F : \A k \in Top(F[s], n) :
        known[k] \in Int /\ F[s][k] <= known[k] /\ known[k] <= LastTime(d, k)
  <2>. SUFFICES ASSUME NEW s \in DOMAIN F, NEW k \in Top(F[s], n)
                PROVE  known[k] \in Int /\ F[s][k] <= known[k] /\ known[k] <= LastTime(d, k)
    OBVIOUS
  <2>1. k \in Q
    OBVIOUS
  <2>2. known[k] = Latest(TimesKnown(d, client, n, k))
    BY <1>4, <2>1
  <2>. QED
    BY <2>2, CandidateTimes
<1>6. \A s \in DOMAIN F : Top(F[s], n) \subseteq D
  BY <1>2 DEF Top
<1>7. known \in [Q -> Int] /\ \A k \in DOMAIN known : known[k] <= true[k]
  BY <1>4, <1>5, <1>6
<1>8. \A k \in D : \E s \in DOMAIN F : k \in DOMAIN F[s] /\ F[s][k] = true[k]
  BY SomeListKnows
<1>9. DOMAIN SessionList(d, client, n) = Top(known, n)
  BY DEF SessionList
<1>10. \A k \in D : true[k] = Span(d, k).last
  BY DEF LastTime, Span
<1>12. Ranked(D)
  OBVIOUS
<1>13. \A s \in DOMAIN F : \A k \in Top(F[s], n) : F[s][k] <= known[k]
  BY <1>5
<1>. HIDE DEF D, F, known, true
<1>14. Merges(D, n, F, known, true)
  BY <1>2, <1>3, <1>7, <1>8, <1>13 DEF Merges
<1>11. MissesNone(D, n, known, true)
  BY <1>1, <1>12, <1>14, MergedTop, Zenon
<1>. QED
  BY <1>9, <1>10, <1>11 DEF Recent, MissesNone, D

-----------------------------------------------------------------------------
PCs == {"idle", "waiting", "summaries", "rows", "answer"}

\* What is stored came with a batch that has been flushed.
Arrived == \A n \in raw \cup archived : \E i \in 1 .. flushed : n \in Batches[i]

StoreOK ==
  /\ flushed \in 0 .. Len(Batches)
  /\ raw \subseteq DOMAIN Data /\ archived \subseteq DOMAIN Data \ raw
  /\ Arrived

PoolOK ==
  /\ archiver \in {"idle", "locked", "tx"}
  /\ pc \in [Handlers -> PCs]
  /\ \A h \in Handlers : (conn = h) <=> Reading(h)
  /\ (conn = "archiver") <=> (archiver = "tx")

ClockOK == clock \in DOMAIN Times

IInv == StoreOK /\ PoolOK /\ ClockOK

-----------------------------------------------------------------------------
LEMMA OtherOwners == \A h \in Handlers : h # "none" /\ h # "archiver"
BY DashboardAssumption DEF DashboardAssumption

LEMMA BatchFacts ==
  /\ Len(Batches) \in Nat /\ DOMAIN Batches = 1 .. Len(Batches)
  /\ \A i \in 1 .. Len(Batches) : Batches[i] \subseteq DOMAIN Data
  /\ \A i, j \in 1 .. Len(Batches) : i # j => Batches[i] \cap Batches[j] = {}
<1>1. Batches \in Seq(SUBSET DOMAIN Data)
  BY DashboardAssumption DEF DashboardAssumption
<1>2. Len(Batches) \in Nat /\ DOMAIN Batches = 1 .. Len(Batches)
  BY <1>1
<1>3. \A i \in 1 .. Len(Batches) : Batches[i] \subseteq DOMAIN Data
  BY <1>1
<1>4. \A i, j \in DOMAIN Batches : i # j => Batches[i] \cap Batches[j] = {}
  BY DashboardAssumption, Zenon DEF DashboardAssumption
<1>. QED
  BY <1>2, <1>3, <1>4, Zenon

LEMMA TimeFacts == Len(Times) \in Nat /\ DOMAIN Times = 1 .. Len(Times) /\ 1 \in DOMAIN Times
<1>1. Times \in Seq(Int) /\ Times # <<>>
  BY DashboardAssumption DEF DashboardAssumption
<1>. QED
  BY <1>1

-----------------------------------------------------------------------------
(* The rows *)

\* A batch brings rows that are nowhere yet.
LEMMA FlushStores == StoreOK /\ Flush => StoreOK'
<1>. SUFFICES ASSUME StoreOK, Flush PROVE StoreOK'
  OBVIOUS
<1>. DEFINE next == flushed + 1
<1>1. /\ flushed \in 0 .. Len(Batches) /\ flushed < Len(Batches)
      /\ raw' = raw \cup Batches[next] /\ flushed' = next /\ archived' = archived
  BY DEF StoreOK, Flush
<1>2. next \in 1 .. Len(Batches) /\ next \in 0 .. Len(Batches) /\ next \in 1 .. next
      /\ \A i \in 1 .. flushed : i \in 1 .. next /\ i \in 1 .. Len(Batches) /\ i # next
  BY <1>1, BatchFacts
<1>. HIDE DEF next
<1>3. Batches[next] \subseteq DOMAIN Data
  BY <1>2, BatchFacts
<1>4. ASSUME NEW n \in archived PROVE n \notin Batches[next]
  <2>1. PICK i \in 1 .. flushed : n \in Batches[i]
    BY <1>4 DEF StoreOK, Arrived
  <2>2. Batches[i] \cap Batches[next] = {}
    BY <1>2, BatchFacts, Zenon
  <2>. QED
    BY <2>1, <2>2
<1>5. archived' \subseteq DOMAIN Data \ raw'
  BY <1>1, <1>4 DEF StoreOK
<1>6. Arrived'
  <2>1. ASSUME NEW n \in raw' \cup archived' PROVE \E i \in 1 .. flushed' : n \in Batches[i]
    <3>1. CASE n \in Batches[next]
      BY <3>1, <1>1, <1>2
    <3>2. CASE n \in raw \cup archived
      <4>1. PICK i \in 1 .. flushed : n \in Batches[i]
        BY <3>2 DEF StoreOK, Arrived
      <4>. QED
        BY <4>1, <1>1, <1>2
    <3>. QED
      BY <1>1, <2>1, <3>1, <3>2
  <2>. QED
    BY <2>1 DEF Arrived
<1>. QED
  BY <1>1, <1>2, <1>3, <1>5, <1>6 DEF StoreOK

\* A day moves from one side to the other, or stays.
LEMMA EndDayStores == StoreOK /\ EndDay => StoreOK'
<1>. SUFFICES ASSUME StoreOK, EndDay PROVE StoreOK'
  OBVIOUS
<1>1. RowsOf(day) \subseteq raw
  BY DEF RowsOf
<1>2. /\ flushed' = flushed
      /\ \/ raw' = raw \ RowsOf(day) /\ archived' = archived \cup RowsOf(day)
         \/ raw' = raw /\ archived' = archived
  BY DEF EndDay, requestVars
<1>3. raw' \cup archived' = raw \cup archived
  BY <1>1, <1>2
<1>4. raw' \subseteq DOMAIN Data /\ archived' \subseteq DOMAIN Data \ raw'
  BY <1>1, <1>2 DEF StoreOK
<1>5. Arrived'
  BY <1>2, <1>3 DEF StoreOK, Arrived
<1>. QED
  BY <1>2, <1>4, <1>5 DEF StoreOK

-----------------------------------------------------------------------------
(* The connection *)

LEMMA HandlerKeepsPool ==
  ASSUME NEW h \in Handlers, PoolOK,
         Ask(h) \/ Begin(h) \/ ReadSummaries(h) \/ ReadRows(h) \/ Reply(h)
           \/ QueryFails(h) \/ HangUp(h)
  PROVE  PoolOK'
<1>. USE OtherOwners
<1>1. CASE Ask(h)
  BY <1>1 DEF PoolOK, PCs, Reading, Ask, storeVars
<1>2. CASE Begin(h)
  BY <1>2 DEF PoolOK, PCs, Reading, Begin, storeVars
<1>3. CASE ReadSummaries(h)
  BY <1>3 DEF PoolOK, PCs, Reading, ReadSummaries, OwnConnection, storeVars
<1>4. CASE ReadRows(h)
  BY <1>4 DEF PoolOK, PCs, Reading, ReadRows, OwnConnection, storeVars
<1>5. CASE Reply(h)
  BY <1>5 DEF PoolOK, PCs, Reading, Reply, Leave, storeVars
<1>6. CASE QueryFails(h)
  BY <1>6 DEF PoolOK, PCs, Reading, QueryFails, Leave, storeVars
<1>7. CASE HangUp(h)
  BY <1>7 DEF PoolOK, PCs, Reading, HangUp, Leave, storeVars
<1>. QED
  BY <1>1, <1>2, <1>3, <1>4, <1>5, <1>6, <1>7

LEMMA StoreKeepsPool ==
  ASSUME PoolOK, Flush \/ Tick \/ Lock \/ BeginDay \/ EndDay
  PROVE  PoolOK'
<1>. USE OtherOwners
<1>1. CASE Flush
  BY <1>1 DEF PoolOK, Reading, Flush, requestVars
<1>2. CASE Tick
  BY <1>2 DEF PoolOK, Reading, Tick, requestVars
<1>3. CASE Lock
  BY <1>3 DEF PoolOK, Reading, Lock, requestVars
<1>4. CASE BeginDay
  BY <1>4 DEF PoolOK, Reading, BeginDay, requestVars
<1>5. CASE EndDay
  BY <1>5 DEF PoolOK, Reading, EndDay, requestVars
<1>. QED
  BY <1>1, <1>2, <1>3, <1>4, <1>5

-----------------------------------------------------------------------------
LEMMA InitIInv == Init => IInv
<1>. SUFFICES ASSUME Init PROVE IInv
  OBVIOUS
<1>1. StoreOK
  BY BatchFacts DEF Init, StoreOK, Arrived
<1>2. PoolOK
  BY OtherOwners DEF Init, PoolOK, PCs, Reading
<1>3. ClockOK
  BY TimeFacts DEF Init, ClockOK
<1>. QED
  BY <1>1, <1>2, <1>3 DEF IInv

LEMMA NextIInv == IInv /\ [Next]_vars => IInv'
<1>. SUFFICES ASSUME IInv, [Next]_vars PROVE IInv'
  OBVIOUS
<1>. USE DEF IInv
<1>1. ASSUME NEW h \in Handlers,
             Ask(h) \/ Begin(h) \/ ReadSummaries(h) \/ ReadRows(h) \/ Reply(h)
               \/ QueryFails(h) \/ HangUp(h)
      PROVE  IInv'
  <2>1. UNCHANGED <<clock, flushed, raw, archived>>
    BY <1>1 DEF Ask, Begin, ReadSummaries, ReadRows, Reply, QueryFails, HangUp, storeVars
  <2>2. StoreOK' /\ ClockOK'
    BY <2>1 DEF StoreOK, Arrived, ClockOK
  <2>3. PoolOK'
    BY <1>1, HandlerKeepsPool
  <2>. QED
    BY <2>2, <2>3
<1>2. CASE Flush
  <2>1. ClockOK'
    BY <1>2 DEF Flush, ClockOK
  <2>. QED
    BY <1>2, <2>1, FlushStores, StoreKeepsPool
<1>3. CASE Tick
  <2>1. ClockOK'
    BY <1>3, TimeFacts DEF Tick, ClockOK
  <2>2. StoreOK'
    BY <1>3 DEF Tick, StoreOK, Arrived
  <2>. QED
    BY <1>3, <2>1, <2>2, StoreKeepsPool
<1>4. CASE Lock \/ BeginDay
  <2>1. UNCHANGED <<clock, flushed, raw, archived>>
    BY <1>4 DEF Lock, BeginDay
  <2>2. StoreOK' /\ ClockOK'
    BY <2>1 DEF StoreOK, Arrived, ClockOK
  <2>. QED
    BY <1>4, <2>2, StoreKeepsPool
<1>5. CASE EndDay
  <2>1. ClockOK'
    BY <1>5 DEF EndDay, ClockOK
  <2>. QED
    BY <1>5, <2>1, EndDayStores, StoreKeepsPool
<1>6. CASE UNCHANGED vars
  BY <1>6 DEF vars, StoreOK, Arrived, PoolOK, Reading, ClockOK
<1>. QED
  BY <1>1, <1>2, <1>3, <1>4, <1>5, <1>6 DEF Next

LEMMA IInvTypeOK == IInv => TypeOK
BY Zenon DEF IInv, StoreOK, PoolOK, ClockOK, PCs, TypeOK, Reading

\* Whatever handlers are asked and whichever statements and days fail: the connection is
\* given back by whoever leaves its transaction, and no row is both raw and archived.
THEOREM ConnectionGivenBack == Spec => []TypeOK
<1>1. Init => IInv
  BY InitIInv
<1>2. IInv /\ [Next]_vars => IInv'
  BY NextIInv
<1>3. IInv => TypeOK
  BY IInvTypeOK
<1>. QED
  BY <1>1, <1>2, <1>3, PTL DEF Spec

-----------------------------------------------------------------------------
(* What a request sees. *)

SomeRows == SUBSET DOMAIN Data

\* A handler reads what its transaction sees, of one moment: a row is there once.
Sees(h) ==
  /\ pc[h] # "idle" => ask[h] \in AskedOf[h]
  /\ snap[h].raw \in SomeRows /\ snap[h].archived \in SomeRows
  /\ snap[h].raw \cap snap[h].archived = {}
  /\ got[h].raw \in SomeRows
  /\ pc[h] = "answer" => got[h].raw = snap[h].raw
  /\ got[h].archived \in SomeRows
  /\ pc[h] \in {"rows", "answer"} =>
       got[h].archived = IF Request(h).of = "realtime" THEN {} ELSE snap[h].archived
  /\ pc[h] \in {"idle", "waiting", "summaries"} => got[h].archived = {}
  /\ pc[h] = "summaries" => Request(h).of # "realtime"

ViewsOK ==
  /\ DOMAIN ask = Handlers /\ DOMAIN at = Handlers
  /\ DOMAIN snap = Handlers /\ DOMAIN got = Handlers
  /\ \A h \in Handlers : DOMAIN snap[h] = {"raw", "archived"} /\ DOMAIN got[h] = {"raw", "archived"}
  /\ \A h \in Handlers : Sees(h)

\* A handler that is not concerned.
LEMMA SeesTheSame ==
  ASSUME NEW h, Sees(h), pc'[h] = pc[h], ask'[h] = ask[h], snap'[h] = snap[h], got'[h] = got[h]
  PROVE  Sees(h)'
BY DEF Sees, Request, SomeRows

LEMMA LeaveSees ==
  ASSUME NEW h \in Handlers, PoolOK, ViewsOK, Leave(h)
  PROVE  ViewsOK'
<1>1. /\ pc'[h] = "idle" /\ snap'[h] = Nothing /\ got'[h] = Nothing
      /\ \A g \in Handlers : g # h => /\ pc'[g] = pc[g] /\ ask'[g] = ask[g]
                                      /\ snap'[g] = snap[g] /\ got'[g] = got[g]
      /\ DOMAIN ask' = Handlers /\ DOMAIN at' = Handlers
      /\ DOMAIN snap' = Handlers /\ DOMAIN got' = Handlers
  BY DEF Leave, ViewsOK, PoolOK
<1>2. Sees(h)'
  BY <1>1 DEF Sees, Nothing, SomeRows
<1>3. \A g \in Handlers : Sees(g)'
  BY <1>1, <1>2, SeesTheSame DEF ViewsOK
<1>. QED
  BY <1>1, <1>3 DEF ViewsOK, Nothing

LEMMA HandlerSees ==
  ASSUME NEW h \in Handlers, StoreOK, PoolOK, ViewsOK,
         Ask(h) \/ Begin(h) \/ ReadSummaries(h) \/ ReadRows(h)
  PROVE  ViewsOK'
<1>1. /\ \A g \in Handlers : g # h => /\ pc'[g] = pc[g] /\ ask'[g] = ask[g]
                                      /\ snap'[g] = snap[g] /\ got'[g] = got[g]
      /\ DOMAIN ask' = Handlers /\ DOMAIN at' = Handlers
      /\ DOMAIN snap' = Handlers /\ DOMAIN got' = Handlers
  BY DEF Ask, Begin, ReadSummaries, ReadRows, storeVars, ViewsOK, PoolOK
<1>2. Sees(h)' /\ DOMAIN snap'[h] = {"raw", "archived"} /\ DOMAIN got'[h] = {"raw", "archived"}
  <2>0. Sees(h) /\ DOMAIN snap[h] = {"raw", "archived"} /\ DOMAIN got[h] = {"raw", "archived"}
        /\ h \in DOMAIN pc /\ h \in DOMAIN ask /\ h \in DOMAIN snap /\ h \in DOMAIN got
    BY DEF ViewsOK, PoolOK
  <2>1. CASE Ask(h)
    <3>1. pc'[h] = "waiting" /\ ask'[h] \in AskedOf[h] /\ snap'[h] = snap[h] /\ got'[h] = got[h]
          /\ pc[h] = "idle"
      BY <2>0, <2>1 DEF Ask
    <3>. QED
      BY <2>0, <3>1 DEF Sees, SomeRows
  <2>2. CASE Begin(h)
    <3>1. /\ pc[h] = "waiting" /\ ask' = ask /\ got' = got
          /\ pc'[h] = IF Request(h).of = "realtime" THEN "rows" ELSE "summaries"
          /\ snap'[h] = [raw |-> raw, archived |-> archived]
      BY <2>0, <2>2 DEF Begin
    <3>2. Request(h)' = Request(h)
      BY <3>1 DEF Request
    <3>. QED
      BY <2>0, <3>1, <3>2 DEF Sees, SomeRows, StoreOK
  <2>3. CASE ReadSummaries(h)
    <3>1. /\ pc[h] = "summaries" /\ ask' = ask /\ snap' = snap /\ pc'[h] = "rows"
          /\ got'[h] = [got[h] EXCEPT !.archived = snap[h].archived]
      BY <2>0, <2>3 DEF ReadSummaries
    <3>2. Request(h)' = Request(h)
      BY <3>1 DEF Request
    <3>3. got'[h].raw = got[h].raw /\ got'[h].archived = snap[h].archived
          /\ DOMAIN got'[h] = DOMAIN got[h]
      BY <2>0, <3>1
    <3>. QED
      BY <2>0, <3>1, <3>2, <3>3 DEF Sees, SomeRows
  <2>4. CASE ReadRows(h)
    <3>1. /\ pc[h] = "rows" /\ ask' = ask /\ snap' = snap /\ pc'[h] = "answer"
          /\ got'[h] = [got[h] EXCEPT !.raw = snap[h].raw]
      BY <2>0, <2>4 DEF ReadRows
    <3>2. Request(h)' = Request(h)
      BY <3>1 DEF Request
    <3>3. got'[h].archived = got[h].archived /\ got'[h].raw = snap[h].raw
          /\ DOMAIN got'[h] = DOMAIN got[h]
      BY <2>0, <3>1
    <3>. QED
      BY <2>0, <3>1, <3>2, <3>3 DEF Sees, SomeRows
  <2>. QED
    BY <2>1, <2>2, <2>3, <2>4
<1>3. \A g \in Handlers : Sees(g)'
  BY <1>1, <1>2, SeesTheSame DEF ViewsOK
<1>. QED
  BY <1>1, <1>2, <1>3 DEF ViewsOK

LEMMA InitViews == Init => ViewsOK
<1>. SUFFICES ASSUME Init PROVE ViewsOK
  OBVIOUS
<1>1. \A h \in Handlers : pc[h] = "idle" /\ snap[h] = Nothing /\ got[h] = Nothing
  BY DEF Init
<1>2. \A h \in Handlers : Sees(h)
  BY <1>1 DEF Sees, Nothing, SomeRows
<1>. QED
  BY <1>1, <1>2 DEF Init, ViewsOK, Nothing

LEMMA NextViews == IInv /\ ViewsOK /\ [Next]_vars => ViewsOK'
<1>. SUFFICES ASSUME IInv, ViewsOK, [Next]_vars PROVE ViewsOK'
  OBVIOUS
<1>0. StoreOK /\ PoolOK
  BY DEF IInv
<1>1. ASSUME NEW h \in Handlers, Reply(h) \/ QueryFails(h) \/ HangUp(h) PROVE ViewsOK'
  BY <1>0, <1>1, LeaveSees DEF Reply, QueryFails, HangUp
<1>2. CASE Flush \/ Tick \/ Lock \/ BeginDay \/ EndDay \/ UNCHANGED vars
  <2>1. UNCHANGED requestVars
    BY <1>2 DEF Flush, Tick, Lock, BeginDay, EndDay, vars, requestVars
  <2>2. \A h \in Handlers : Sees(h)'
    BY <2>1, SeesTheSame DEF ViewsOK, requestVars
  <2>. QED
    BY <2>1, <2>2 DEF ViewsOK, requestVars
<1>3. ASSUME NEW h \in Handlers, Ask(h) \/ Begin(h) \/ ReadSummaries(h) \/ ReadRows(h)
      PROVE  ViewsOK'
  BY <1>0, <1>3, HandlerSees
<1>. QED
  BY <1>1, <1>2, <1>3 DEF Next

LEMMA ViewsHold == Spec => [](IInv /\ ViewsOK)
<1>1. Init => IInv /\ ViewsOK
  BY InitIInv, InitViews
<1>2. (IInv /\ ViewsOK) /\ [Next]_vars => (IInv /\ ViewsOK)'
  BY NextIInv, NextViews
<1>. QED
  BY <1>1, <1>2, PTL DEF Spec

\* What an answer is made of is what was stored at one moment, in which each row was raw or
\* archived, however the writer and the archiver went on between its queries.
THEOREM AnswerOfOneMoment ==
  Spec => [](\A h \in Handlers : pc[h] = "answer" =>
               /\ got[h].raw = snap[h].raw
               /\ Request(h).of # "realtime" => got[h].archived = snap[h].archived
               /\ snap[h].raw \cap snap[h].archived = {})
<1>1. ViewsOK => \A h \in Handlers : pc[h] = "answer" =>
               /\ got[h].raw = snap[h].raw
               /\ Request(h).of # "realtime" => got[h].archived = snap[h].archived
               /\ snap[h].raw \cap snap[h].archived = {}
  BY DEF ViewsOK, Sees
<1>. QED
  BY <1>1, ViewsHold, PTL

(* The list of sessions *)

LEMMA DataFacts ==
  /\ IsFiniteSet(DOMAIN Data)
  /\ \A n \in DOMAIN Data : /\ Data[n].ts \in Int
                            /\ Data[n].table = "turn_cost" =>
                                 Data[n].received \in Int /\ Data[n].amount \in Int /\
                                 Data[n].tie \in Int
  /\ \A m, n \in DOMAIN Data : Data[m].session # "" /\ Data[n].session # "" =>
       /\ Rank(SessionKey(Data[m])) \in Int
       /\ Rank(SessionKey(Data[m])) = Rank(SessionKey(Data[n])) =>
            SessionKey(Data[m]) = SessionKey(Data[n])
  /\ AskedOf \in [Handlers -> SUBSET DOMAIN Asks]
  /\ \A a \in DOMAIN Asks : /\ Asks[a].client \in Clients
                            /\ Asks[a].of = "sessions" => Asks[a].limit \in Nat
BY DashboardAssumption DEF DashboardAssumption, Clients, Rank

LEMMA ReadOf ==
  ASSUME NEW v
  PROVE  Found(v).raw = Rows(v.raw) /\ Found(v).archived = Rows(v.archived)
BY DEF Found, Read, View

LEMMA RowsAreData ==
  ASSUME NEW names \in SomeRows
  PROVE  /\ IsFiniteSet(Rows(names))
         /\ \A r \in Rows(names) : \E n \in DOMAIN Data : r = Data[n]
<1>1. names \subseteq DOMAIN Data /\ IsFiniteSet(names)
  BY DataFacts, FS_Subset DEF SomeRows
<1>2. IsFiniteSet({Data[n] : n \in names})
  BY <1>1, FiniteValues
<1>. QED
  BY <1>1, <1>2 DEF Rows

LEMMA FoundIsDated ==
  ASSUME NEW v, v.raw \in SomeRows, v.archived \in SomeRows, NEW clients
  PROVE  Dated(Found(v)) /\ Ranked(SessionKeys(Found(v), clients))
<1>. DEFINE d == Found(v)
<1>1. d.raw = Rows(v.raw) /\ d.archived = Rows(v.archived)
  BY ReadOf
<1>2. \A r \in d.raw \cup d.archived : \E n \in DOMAIN Data : r = Data[n]
  BY <1>1, RowsAreData
<1>3. Dated(d)
  <2>1. IsFiniteSet(d.raw) /\ IsFiniteSet(d.archived)
    BY <1>1, RowsAreData
  <2>2. \A r \in d.raw \cup d.archived :
          r.ts \in Int /\ (r.table = "turn_cost" =>
                             r.received \in Int /\ r.amount \in Int /\ r.tie \in Int)
    BY <1>2, DataFacts
  <2>. HIDE DEF d
  <2>. QED
    BY <2>1, <2>2 DEF Dated
<1>4. \A k \in SessionKeys(d, clients) :
        \E n \in DOMAIN Data : Data[n].session # "" /\ k = SessionKey(Data[n])
  <2>1. \A k \in SessionKeys(d, clients) :
          \E r \in d.raw \cup d.archived : r.session # "" /\ k = SessionKey(r)
    BY DEF SessionKeys, ActiveRows, In
  <2>. QED
    BY <1>2, <2>1
<1>5. Ranked(SessionKeys(d, clients))
  <2>. HIDE DEF d
  <2>. QED
    BY <1>4, DataFacts DEF Ranked
<1>. QED
  BY <1>3, <1>5

\* Whatever rows there are, archived or not: the list of the latest sessions is as long as it may
\* be and there are, and none it leaves out was active later than one it has.
THEOREM RecentSessionsHold == Spec => []RecentSessionsFound
<1>1. ViewsOK => RecentSessionsFound
  <2>. SUFFICES ASSUME ViewsOK, NEW h \in Handlers, pc[h] = "answer", Request(h).of = "sessions"
                PROVE  LET d == Found(got[h]) r == Request(h)
                       IN  Recent(d, SessionKeys(d, Arms(r.client)),
                                  DOMAIN SessionList(d, r.client, r.limit), r.limit)
    BY DEF RecentSessionsFound
  <2>1. got[h].raw \in SomeRows /\ got[h].archived \in SomeRows /\ ask[h] \in AskedOf[h]
    BY DEF ViewsOK, Sees
  <2>2. ask[h] \in DOMAIN Asks
    BY <2>1, DataFacts
  <2>3. Request(h).client \in Clients /\ Request(h).limit \in Nat
    BY <2>2, DataFacts DEF Request
  <2>4. /\ Dated(Found(got[h]))
        /\ Ranked(SessionKeys(Found(got[h]), Arms(Request(h).client)))
    BY <2>1, FoundIsDated
  <2>. QED
    BY <2>3, <2>4, ListMissesNone
<1>. QED
  BY <1>1, ViewsHold, PTL

-----------------------------------------------------------------------------
(* The cost of a conversation *)

\* What the reports of turns, the responses and the rows of a cost view cost.
Amounts(S)   == [r \in S |-> r.amount]
Estimates(S) == [r \in S |-> OrZero(r.cost)]
Costs(S)     == [c \in S |-> c.cost]

\* Each LAMBDA that Total is given is a sum of FiniteProofs.
LEMMA TotalAmounts ==
  ASSUME NEW S, IsFiniteSet(S)
  PROVE  Total(LAMBDA r : r.amount, S) = SumOf(Amounts(S), S)
<1>. DEFINE Is(f) == f = [s \in SUBSET S |->
                       IF s = {} THEN 0
                       ELSE (CHOOSE x \in s : TRUE).amount + f[s \ {CHOOSE x \in s : TRUE}]]
<1>1. Total(LAMBDA r : r.amount, S) = (CHOOSE f : Is(f))[S]
  BY DEF Total, MapThenSumSet, MapThenFoldSet
<1>2. \A f : Is(f) <=> IsSum(f, Amounts(S))
  <2>1. \A s \in SUBSET S : s # {} => Amounts(S)[Some(s)] = (CHOOSE x \in s : TRUE).amount
    BY SomeIs DEF Some, Amounts
  <2>. QED
    BY <2>1 DEF IsSum, Some, Amounts
<1>. HIDE DEF Is
<1>3. (CHOOSE f : Is(f)) = (CHOOSE f : IsSum(f, Amounts(S)))
  BY <1>2, Zenon
<1>. QED
  BY <1>1, <1>3, Zenon DEF SumOf, SumOver

LEMMA TotalEstimates ==
  ASSUME NEW S, IsFiniteSet(S)
  PROVE  Total(LAMBDA r : OrZero(r.cost), S) = SumOf(Estimates(S), S)
<1>. DEFINE Is(f) == f = [s \in SUBSET S |->
                       IF s = {} THEN 0
                       ELSE OrZero((CHOOSE x \in s : TRUE).cost) + f[s \ {CHOOSE x \in s : TRUE}]]
<1>1. Total(LAMBDA r : OrZero(r.cost), S) = (CHOOSE f : Is(f))[S]
  BY DEF Total, MapThenSumSet, MapThenFoldSet
<1>2. \A f : Is(f) <=> IsSum(f, Estimates(S))
  <2>1. \A s \in SUBSET S : s # {} => Estimates(S)[Some(s)] = OrZero((CHOOSE x \in s : TRUE).cost)
    BY SomeIs DEF Some, Estimates
  <2>. QED
    BY <2>1 DEF IsSum, Some, Estimates
<1>. HIDE DEF Is
<1>3. (CHOOSE f : Is(f)) = (CHOOSE f : IsSum(f, Estimates(S)))
  BY <1>2, Zenon
<1>. QED
  BY <1>1, <1>3, Zenon DEF SumOf, SumOver

LEMMA TotalCosts ==
  ASSUME NEW S, IsFiniteSet(S)
  PROVE  Total(LAMBDA c : c.cost, S) = SumOf(Costs(S), S)
<1>. DEFINE Is(f) == f = [s \in SUBSET S |->
                       IF s = {} THEN 0
                       ELSE (CHOOSE x \in s : TRUE).cost + f[s \ {CHOOSE x \in s : TRUE}]]
<1>1. Total(LAMBDA c : c.cost, S) = (CHOOSE f : Is(f))[S]
  BY DEF Total, MapThenSumSet, MapThenFoldSet
<1>2. \A f : Is(f) <=> IsSum(f, Costs(S))
  <2>1. \A s \in SUBSET S : s # {} => Costs(S)[Some(s)] = (CHOOSE x \in s : TRUE).cost
    BY SomeIs DEF Some, Costs
  <2>. QED
    BY <2>1 DEF IsSum, Some, Costs
<1>. HIDE DEF Is
<1>3. (CHOOSE f : Is(f)) = (CHOOSE f : IsSum(f, Costs(S)))
  BY <1>2, Zenon
<1>. QED
  BY <1>1, <1>3, Zenon DEF SumOf, SumOver

\* Rows with the times and amounts of costs, told apart by their names.
Priced(rows) ==
  /\ IsFiniteSet(rows)
  /\ \A r \in rows : /\ r.row # ""
                     /\ r.table = "turn_cost" =>
                          r.ts \in Int /\ r.received \in Int /\ r.amount \in Int /\ r.tie \in Int
                     /\ r.table = "codex_token_usage" => OrZero(r.cost) \in Int
  /\ \A r, s \in rows : r.row = s.row => r = s

\* Of two reports of a turn one is newer, or both say the same.
LEMMA NewerIsOrder ==
  ASSUME NEW S, \A s \in S : s.ts \in Int /\ s.received \in Int /\ s.amount \in Int /\ s.tie \in Int
  PROVE  \A r, s, m \in S : Newer(s, r) /\ ~Newer(s, m) => Newer(m, r)
BY DEF Newer

\* What the view finds is the newest report of each turn, archived or not.
LEMMA NativeAreNewest ==
  ASSUME NEW R, NEW A, Priced(R \cup A)
  PROVE  NativeTurnCosts(R, A) = NewestTurns(R \cup A)
<1>. DEFINE T == Of(R \cup A, "turn_cost")
            V == Of(R, "turn_cost") \cup NewestTurns(A)
<1>1. \A s \in T : s.ts \in Int /\ s.received \in Int /\ s.amount \in Int /\ s.tie \in Int
  BY DEF Priced, Of
<1>2. Of(V, "turn_cost") = V /\ V \subseteq T
  BY DEF Of, NewestTurns
<1>3. ASSUME NEW r \in V, NEW s \in T, SameTurn(r, s), Newer(s, r)
      PROVE  \E m \in V : SameTurn(r, m) /\ Newer(m, r)
  <2>1. CASE s \in R
    BY <1>3, <2>1 DEF Of
  <2>2. CASE s \in A
    <3>1. IsFiniteSet(A) /\ s.table = "turn_cost"
      BY FS_Subset DEF Priced, Of
    <3>2. PICK m \in NewestTurns(A) : SameTurn(m, s)
      BY <2>2, <3>1, <1>1, NewestOfTurn DEF Of
    <3>3. m \in T /\ m \in V /\ ~Newer(s, m)
      BY <2>2, <3>1, <3>2 DEF NewestTurns, Of, SameTurn
    <3>4. Newer(m, r)
      BY <1>1, <1>2, <1>3, <3>3, NewerIsOrder
    <3>. QED
      BY <1>3, <3>2, <3>3, <3>4 DEF SameTurn
  <2>. QED
    BY <2>1, <2>2 DEF Of
<1>4. NewestTurns(V) = {r \in V : ~\E s \in T : SameTurn(r, s) /\ Newer(s, r)}
  <2>1. NewestTurns(V) = {r \in V : ~\E s \in V : SameTurn(r, s) /\ Newer(s, r)}
    BY <1>2 DEF NewestTurns
  <2>. HIDE DEF V, T
  <2>. QED
    BY <2>1, <1>2, <1>3
<1>5. \A r \in T : (~\E s \in T : SameTurn(r, s) /\ Newer(s, r)) => r \in V
  BY DEF Of, NewestTurns
<1>6. NewestTurns(R \cup A) = {r \in T : ~\E s \in T : SameTurn(r, s) /\ Newer(s, r)}
  BY DEF NewestTurns
<1>. HIDE DEF T
<1>7. NewestTurns(V) = NewestTurns(R \cup A)
  <2>. HIDE DEF V
  <2>. QED
    BY <1>2, <1>4, <1>5, <1>6
<1>. QED
  BY <1>7 DEF NativeTurnCosts

\* A turn is of one conversation.
LEMMA NewestOfSession ==
  ASSUME NEW S, NEW id
  PROVE  NewestTurns({r \in S : r.session = id}) = {r \in NewestTurns(S) : r.session = id}
BY DEF NewestTurns, Of, SameTurn

\* The rows of the cost views: of a report, of a response, and of an hour of responses.
NativeRow(r) == CostRow(r.row, r.ts, r.session, r.model, r.amount, "native", 1)
LocalRow(r)  == CostRow(r.row, r.ts, r.session, r.model, OrZero(r.cost), "local", Present(r.cost))
HourRow(k, hourly) ==
  CostRow("", k.bucket, k.session, k.model, hourly[k].cost, "local", hourly[k].samples)

\* The costs of a conversation among those selected, and the reports that its cost is to be of.
CostsOf(R, A, id) == {c \in SelectedCosts(R, A) : c.session = id}
Reports(R, A, id) == {r \in NewestTurns(R \cup A) : r.session = id}

\* The costs of old rows are of no conversation: their session is the empty one.
HasName(id) == id # ""

\* The rows of the cost views, for a conversation whose turns reported costs and for one
\* whose turns did not.
LEMMA CostRows ==
  ASSUME NEW R, NEW A, Priced(R \cup A), NEW id, HasName(id)
  PROVE  /\ Reports(R, A, id) # {} =>
              CostsOf(R, A, id) = {NativeRow(r) : r \in Reports(R, A, id)}
         /\ Reports(R, A, id) = {} =>
              CostsOf(R, A, id) =
                {LocalRow(r) : r \in {q \in ValidUsage(R) : q.session = id}} \cup
                {HourRow(k, LocalCostHourly(A)) :
                   k \in {l \in DOMAIN LocalCostHourly(A) : l.session = id}}
<1>. DEFINE N == {NativeRow(r) : r \in NewestTurns(R \cup A)}
            L == LocalCosts(R, A)
            O == {CostRow("", l.bucket, "", l.model, l.cost, "legacy",
                          IF l.cost > 0 THEN 1 ELSE 0) : l \in LegacyHours}
            S == NativeSessions(R, A)
<1>1. SelectedCosts(R, A) = N \cup {c \in L : c.session \notin S} \cup O
  BY NativeAreNewest DEF SelectedCosts, NativeRow
<1>2. {c \in O : c.session = id} = {}
  <2>1. \A c \in O : c.session = ""
    <3>1. \A l : CostRow("", l.bucket, "", l.model, l.cost, "legacy",
                         IF l.cost > 0 THEN 1 ELSE 0).session = ""
      BY DEF CostRow
    <3>2. \A c \in O : \E l \in LegacyHours :
            c = CostRow("", l.bucket, "", l.model, l.cost, "legacy", IF l.cost > 0 THEN 1 ELSE 0)
      BY Zenon
    <3>. QED
      BY <3>1, <3>2
  <2>. HIDE DEF O
  <2>. QED
    BY <2>1 DEF HasName
<1>3. id \in S <=> Reports(R, A, id) # {}
  BY NativeAreNewest DEF NativeSessions, Reports
<1>4. {c \in N : c.session = id} = {NativeRow(r) : r \in Reports(R, A, id)}
  <2>1. \A r : NativeRow(r).session = r.session
    BY DEF NativeRow, CostRow
  <2>. DEFINE T == NewestTurns(R \cup A)
  <2>2. Reports(R, A, id) = {r \in T : r.session = id}
    BY DEF Reports
  <2>. HIDE DEF T
  <2>3. \A c : c \in N /\ c.session = id <=>
               c \in {NativeRow(r) : r \in {q \in T : q.session = id}}
    <3>1. ASSUME NEW c \in N, c.session = id
          PROVE  \E r \in T : r.session = id /\ c = NativeRow(r)
      BY <2>1, <3>1 DEF T
    <3>2. ASSUME NEW r \in T, r.session = id PROVE NativeRow(r) \in N /\ NativeRow(r).session = id
      BY <2>1, <3>2 DEF T
    <3>. HIDE DEF N
    <3>. QED
      BY <3>1, <3>2
  <2>. HIDE DEF N
  <2>. QED
    BY <2>2, <2>3
<1>5. {c \in L : c.session = id} =
        {LocalRow(r) : r \in {q \in ValidUsage(R) : q.session = id}} \cup
        {HourRow(k, LocalCostHourly(A)) : k \in {l \in DOMAIN LocalCostHourly(A) : l.session = id}}
  <2>1. L = {LocalRow(r) : r \in ValidUsage(R)} \cup
            {HourRow(k, LocalCostHourly(A)) : k \in DOMAIN LocalCostHourly(A)}
    BY DEF LocalCosts, LocalRow, HourRow
  <2>2. /\ \A r : LocalRow(r).session = r.session
        /\ \A k : HourRow(k, LocalCostHourly(A)).session = k.session
    BY DEF LocalRow, HourRow, CostRow
  <2>. DEFINE V == ValidUsage(R)
              H == LocalCostHourly(A)
  <2>. HIDE DEF L, V, H
  <2>3. ASSUME NEW c
        PROVE  c \in L /\ c.session = id <=>
                 \/ c \in {LocalRow(r) : r \in {q \in V : q.session = id}}
                 \/ c \in {HourRow(k, H) : k \in {l \in DOMAIN H : l.session = id}}
    <3>1. c \in L <=> (\E r \in V : c = LocalRow(r)) \/ (\E k \in DOMAIN H : c = HourRow(k, H))
      BY <2>1 DEF V, H
    <3>2. /\ c \in {LocalRow(r) : r \in {q \in V : q.session = id}} <=>
               \E r \in V : r.session = id /\ c = LocalRow(r)
          /\ c \in {HourRow(k, H) : k \in {l \in DOMAIN H : l.session = id}} <=>
               \E k \in DOMAIN H : k.session = id /\ c = HourRow(k, H)
      BY Zenon
    <3>3. \A k : HourRow(k, H).session = k.session
      BY <2>2 DEF H
    <3>. QED
      BY <2>2, <3>1, <3>2, <3>3
  <2>4. {c \in L : c.session = id} =
          {LocalRow(r) : r \in {q \in V : q.session = id}} \cup
          {HourRow(k, H) : k \in {l \in DOMAIN H : l.session = id}}
    BY <2>3, Zenon
  <2>. QED
    BY <2>4 DEF V, H
<1>6. CostsOf(R, A, id) = {c \in N : c.session = id} \cup
        (IF id \in S THEN {} ELSE {c \in L : c.session = id})
  <2>. HIDE DEF N, L, O, S
  <2>. QED
    BY <1>1, <1>2 DEF CostsOf
<1>. HIDE DEF N, L, S
<1>7. Reports(R, A, id) = {} => {NativeRow(r) : r \in Reports(R, A, id)} = {}
  OBVIOUS
<1>. QED
  BY <1>3, <1>4, <1>5, <1>6, <1>7

\* Rows of a cost view made of other things, one of each.
LEMMA CostsOfRows ==
  ASSUME NEW P, NEW C, NEW g, Numbers(g), DOMAIN g = P, NEW b, DOMAIN b = P, C = Image(b, P),
         \A x \in P : b[x].cost = g[x],
         \A x, y \in P : b[x] = b[y] => x = y
  PROVE  Numbers(Costs(C)) /\ SumOf(Costs(C), C) = SumOf(g, P)
<1>1. IsFiniteSet(C) /\ \A c \in C : c.cost \in Int
  BY FiniteValues DEF Numbers, Image
<1>2. Numbers(Costs(C)) /\ DOMAIN Costs(C) = C
  BY <1>1 DEF Numbers, Costs
<1>3. \A x \in P : b[x] \in C /\ Costs(C)[b[x]] = g[x]
  BY DEF Costs, Image
<1>4. Renames(b, g, Costs(C), P)
  BY <1>2, <1>3 DEF Renames
<1>. QED
  BY <1>2, <1>4, SumRenamed

\* Where turns reported their costs, those add up.
LEMMA ReportedCost ==
  ASSUME NEW R, NEW A, Priced(R \cup A), NEW id, HasName(id), Reports(R, A, id) # {}
  PROVE  Total(LAMBDA c : c.cost, CostsOf(R, A, id)) =
           Total(LAMBDA r : r.amount, Reports(R, A, id))
<1>. DEFINE P == Reports(R, A, id)
            C == CostsOf(R, A, id)
            b == [r \in P |-> NativeRow(r)]
<1>1. C = {b[r] : r \in P}
  <2>1. C = {NativeRow(r) : r \in P}
    BY CostRows
  <2>. HIDE DEF P, C
  <2>. QED
    BY <2>1
<1>2. IsFiniteSet(P) /\ \A r \in P : r.amount \in Int
  <2>1. P \subseteq R \cup A /\ \A r \in P : r.table = "turn_cost"
    BY DEF Reports, NewestTurns, Of
  <2>. HIDE DEF P
  <2>. QED
    BY <2>1, FS_Subset DEF Priced
<1>3. \A r, s \in P : b[r] = b[s] => r = s
  <2>1. P \subseteq R \cup A
    BY DEF Reports, NewestTurns, Of
  <2>2. \A r, s \in P : NativeRow(r) = NativeRow(s) => r.row = s.row
    BY DEF NativeRow, CostRow
  <2>. HIDE DEF P
  <2>. QED
    BY <2>1, <2>2 DEF Priced
<1>4. \A r \in P : b[r].cost = r.amount
  BY DEF NativeRow, CostRow
<1>5. Numbers(Amounts(P)) /\ DOMAIN Amounts(P) = P /\ DOMAIN b = P
  <2>. HIDE DEF P
  <2>. QED
    BY <1>2 DEF Numbers, Amounts
<1>6. \A r \in P : b[r].cost = Amounts(P)[r]
  <2>. HIDE DEF P, b
  <2>. QED
    BY <1>4 DEF Amounts
<1>7. C = Image(b, P)
  BY <1>1 DEF Image
<1>. HIDE DEF P, C, b
<1>8. Numbers(Costs(C)) /\ SumOf(Costs(C), C) = SumOf(Amounts(P), P)
  BY <1>3, <1>5, <1>6, <1>7, CostsOfRows
<1>9. IsFiniteSet(C)
  BY <1>8 DEF Numbers, Costs
<1>10. /\ Total(LAMBDA c : c.cost, C) = SumOf(Costs(C), C)
       /\ Total(LAMBDA r : r.amount, P) = SumOf(Amounts(P), P)
  BY <1>2, <1>9, TotalCosts, TotalAmounts
<1>11. Total(LAMBDA c : c.cost, C) = Total(LAMBDA r : r.amount, P)
  BY <1>8, <1>10
<1>. QED
  BY <1>11 DEF C, P

\* h is a part of g; and h and k are the parts of it that S and T name.
Agrees(g, h) == \A x \in DOMAIN h : x \in DOMAIN g /\ h[x] = g[x]

Parts(g, h, k, S, T) ==
  /\ Numbers(g) /\ DOMAIN g = S \cup T /\ S \cap T = {}
  /\ DOMAIN h = S /\ Agrees(g, h)
  /\ DOMAIN k = T /\ Agrees(g, k)

\* A sum of two parts that have nothing in common.
LEMMA SumOfParts ==
  ASSUME NEW g, NEW h, NEW k, NEW S, NEW T, Parts(g, h, k, S, T)
  PROVE  /\ Numbers(h) /\ Numbers(k)
         /\ SumOf(g, S \cup T) = SumOf(h, S) + SumOf(k, T)
<1>. USE DEF Parts
<1>1. Numbers(h) /\ Numbers(k)
  <2>1. IsFiniteSet(S) /\ IsFiniteSet(T)
    BY FS_Subset DEF Numbers
  <2>. QED
    BY <2>1 DEF Numbers, Agrees
<1>2. SumOf(g, S \cup T) = SumOf(g, S) + SumOf(g, T)
  BY SumUnion
<1>3. SumOf(h, S) = SumOf(g, S) /\ SumOf(k, T) = SumOf(g, T)
  BY <1>1, SumLocal DEF Agrees
<1>. QED
  BY <1>1, <1>2, <1>3

\* The rows, or hours, of a conversation.
OfId(S, id) == {r \in S : r.session = id}

\* What the hours of a conversation hold is what its rows came with.
LEMMA HoursAddUp ==
  ASSUME NEW A, IsFiniteSet(A), \A r \in ValidUsage(A) : OrZero(r.cost) \in Int, NEW id,
         NEW H, H = LocalCostHourly(A), NEW K, K = OfId(DOMAIN H, id),
         NEW V, V = OfId(ValidUsage(A), id), NEW q, q = [k \in K |-> H[k].cost]
  PROVE  Numbers(q) /\ SumOf(q, K) = SumOf(Estimates(V), V)
<1>. DEFINE key == [r \in V |-> LocalKey(r)]
            Own(k) == {r \in V : key[r] = k}
<1>1. V \subseteq ValidUsage(A) /\ V \subseteq A /\ IsFiniteSet(V)
  BY FS_Subset DEF OfId, ValidUsage
<1>2. DOMAIN H = {LocalKey(r) : r \in ValidUsage(A)}
  BY DEF LocalCostHourly
<1>3. \A r : LocalKey(r).session = r.session
  BY DEF LocalKey
<1>4. \A r \in V : key[r] \in K
  BY <1>1, <1>2, <1>3 DEF OfId
<1>5. IsFiniteSet(K)
  <2>1. \A k \in K : \E r \in V : k = key[r]
    BY <1>2, <1>3 DEF OfId
  <2>2. IsFiniteSet({key[r] : r \in V})
    BY <1>1, FiniteValues
  <2>3. K \subseteq {key[r] : r \in V}
    BY <2>1
  <2>. QED
    BY <2>2, <2>3, FS_Subset
<1>6. Numbers(Estimates(V)) /\ DOMAIN Estimates(V) = V
  BY <1>1 DEF Numbers, Estimates
<1>7. ASSUME NEW k \in K PROVE q[k] = SumOf(Estimates(V), Own(k))
  <2>. DEFINE own == {r \in ValidUsage(A) : LocalKey(r) = k}
  <2>1. own = Own(k)
    BY <1>1, <1>3 DEF OfId
  <2>2. H[k].cost = Total(LAMBDA r : OrZero(r.cost), own)
    BY DEF LocalCostHourly, OfId
  <2>3. IsFiniteSet(own)
    BY <1>1, <2>1, FS_Subset
  <2>4. Total(LAMBDA r : OrZero(r.cost), own) = SumOf(Estimates(own), own)
    BY <2>3, TotalEstimates
  <2>5. own \subseteq V
    BY <2>1
  <2>. HIDE DEF own
  <2>6. Numbers(Estimates(own)) /\ DOMAIN Estimates(own) = own
    BY <1>1, <2>3, <2>5 DEF Numbers, Estimates
  <2>7. \A r \in own : Estimates(V)[r] = Estimates(own)[r]
    BY <2>5 DEF Estimates
  <2>8. SumOf(Estimates(V), own) = SumOf(Estimates(own), own)
    BY <1>6, <2>5, <2>6, <2>7, SumLocal
  <2>. QED
    BY <2>1, <2>2, <2>4, <2>8
<1>8. Numbers(q)
  <2>1. \A k \in K : Own(k) \in SUBSET DOMAIN Estimates(V)
    BY <1>6
  <2>2. \A k \in K : SumOf(Estimates(V), Own(k)) \in Int
    BY <1>6, <2>1, SumType
  <2>3. \A k \in K : q[k] \in Int
    BY <1>7, <2>2
  <2>. QED
    BY <1>5, <2>3 DEF Numbers
<1>9. DOMAIN key = V /\ DOMAIN q = K
  OBVIOUS
<1>. HIDE DEF key
<1>10. Sorts(key, Estimates(V), q, V, K)
  BY <1>4, <1>6, <1>7, <1>8, <1>9 DEF Sorts
<1>. QED
  BY <1>8, <1>10, SumSorted

\* What responses are estimated to cost.
Estimated(S) == Total(LAMBDA r : OrZero(r.cost), S)

\* Where no turn reported its cost, the estimates of the valid responses add up.
LEMMA EstimatedCost ==
  ASSUME NEW R, NEW A, Priced(R \cup A), R \cap A = {}, NEW id, HasName(id),
         Reports(R, A, id) = {}
  PROVE  Total(LAMBDA c : c.cost, CostsOf(R, A, id)) =
           Estimated(OfId(ValidUsage(R \cup A), id))
<1>. DEFINE C == CostsOf(R, A, id)
            V == OfId(ValidUsage(R \cup A), id)
            V1 == OfId(ValidUsage(R), id)
            V2 == OfId(ValidUsage(A), id)
            H == LocalCostHourly(A)
            K == OfId(DOMAIN H, id)
            b1 == [r \in V1 |-> LocalRow(r)]
            b2 == [k \in K |-> HourRow(k, H)]
            q == [k \in K |-> H[k].cost]
            C1 == Image(b1, V1)
            C2 == Image(b2, K)
<1>1. C = C1 \cup C2
  <2>1. C = {LocalRow(r) : r \in V1} \cup {HourRow(k, H) : k \in K}
    BY CostRows DEF OfId
  <2>2. C1 = {LocalRow(r) : r \in V1} /\ C2 = {HourRow(k, H) : k \in K}
    BY DEF Image
  <2>. HIDE DEF C, C1, C2
  <2>. QED
    BY <2>1, <2>2
<1>2. V1 \subseteq R /\ V2 \subseteq A /\ V = V1 \cup V2 /\ V1 \cap V2 = {}
  BY DEF OfId, ValidUsage
<1>3. /\ \A r \in V1 : LocalRow(r).row = r.row /\ LocalRow(r).cost = OrZero(r.cost)
                       /\ HasName(r.row)
      /\ \A k \in K : ~HasName(HourRow(k, H).row) /\ HourRow(k, H).cost = H[k].cost
  <2>1. \A r \in R : HasName(r.row)
    BY DEF Priced, HasName
  <2>. HIDE DEF V1, K, H
  <2>. QED
    BY <1>2, <2>1 DEF LocalRow, HourRow, CostRow, HasName
<1>4. C1 \cap C2 = {}
  <2>. HIDE DEF V1, K, H
  <2>1. \A c \in C1 : HasName(c.row)
    BY <1>3 DEF Image
  <2>2. \A c \in C2 : ~HasName(c.row)
    BY <1>3 DEF Image
  <2>. HIDE DEF C1, C2
  <2>. QED
    BY <2>1, <2>2
<1>5. IsFiniteSet(V) /\ IsFiniteSet(V1) /\ IsFiniteSet(A)
      /\ \A r \in ValidUsage(R \cup A) : OrZero(r.cost) \in Int
  <2>1. \A r \in ValidUsage(R \cup A) : r \in R \cup A /\ OrZero(r.cost) \in Int
    BY DEF ValidUsage, Valid, Priced
  <2>2. IsFiniteSet(R \cup A)
    BY DEF Priced
  <2>3. V \subseteq R \cup A /\ V1 \subseteq R \cup A
    BY <1>2
  <2>. HIDE DEF V, V1
  <2>. QED
    BY <2>1, <2>2, <2>3, FS_Subset
<1>6. \A r \in ValidUsage(A) : OrZero(r.cost) \in Int
  BY <1>5 DEF ValidUsage
<1>7. Numbers(q) /\ SumOf(q, K) = SumOf(Estimates(V2), V2)
  BY <1>5, <1>6, HoursAddUp
<1>8. Numbers(Estimates(V)) /\ DOMAIN Estimates(V) = V
  <2>1. \A r \in V : OrZero(r.cost) \in Int
    BY <1>5 DEF OfId
  <2>. HIDE DEF V
  <2>. QED
    BY <1>5, <2>1 DEF Numbers, Estimates
<1>9. /\ DOMAIN Estimates(V1) = V1 /\ Agrees(Estimates(V), Estimates(V1))
      /\ DOMAIN Estimates(V2) = V2 /\ Agrees(Estimates(V), Estimates(V2))
  <2>. HIDE DEF V, V1, V2
  <2>. QED
    BY <1>2 DEF Estimates, Agrees
<1>10. /\ \A r, s \in V1 : b1[r] = b1[s] => r = s
       /\ \A r \in V1 : b1[r].cost = Estimates(V1)[r]
       /\ DOMAIN b1 = V1
  <2>1. \A r, s \in V1 : r.row = s.row => r = s
    BY <1>2 DEF Priced
  <2>. HIDE DEF V1
  <2>. QED
    BY <1>3, <2>1 DEF Estimates
<1>11. /\ \A k, l \in K : b2[k] = b2[l] => k = l
       /\ \A k \in K : b2[k].cost = q[k]
       /\ DOMAIN b2 = K /\ DOMAIN q = K
  <2>1. \A k \in K : \E r : k = LocalKey(r)
    BY DEF OfId, LocalCostHourly
  <2>2. \A r, s : HourRow(LocalKey(r), H) = HourRow(LocalKey(s), H) => LocalKey(r) = LocalKey(s)
    <3>. HIDE DEF H
    <3>. QED
      BY DEF HourRow, CostRow, LocalKey
  <2>. HIDE DEF K, H
  <2>. QED
    BY <1>3, <2>1, <2>2
<1>. HIDE DEF C, V, V1, V2, H, K, b1, b2, q, C1, C2
<1>12. /\ Numbers(Estimates(V1))
       /\ SumOf(Estimates(V), V) = SumOf(Estimates(V1), V1) + SumOf(Estimates(V2), V2)
  <2>1. Parts(Estimates(V), Estimates(V1), Estimates(V2), V1, V2)
    BY <1>2, <1>8, <1>9 DEF Parts
  <2>. QED
    BY <1>2, <2>1, SumOfParts
<1>13. Numbers(Costs(C1)) /\ SumOf(Costs(C1), C1) = SumOf(Estimates(V1), V1)
  BY <1>9, <1>10, <1>12, CostsOfRows DEF C1
<1>14. Numbers(Costs(C2)) /\ SumOf(Costs(C2), C2) = SumOf(q, K)
  BY <1>7, <1>11, CostsOfRows DEF C2
<1>15. Numbers(Costs(C)) /\ DOMAIN Costs(C) = C
  <2>1. IsFiniteSet(C1) /\ IsFiniteSet(C2)
    BY <1>13, <1>14 DEF Numbers, Costs
  <2>2. IsFiniteSet(C)
    BY <1>1, <2>1, FS_Union
  <2>3. \A c \in C : c.cost \in Int
    BY <1>1, <1>13, <1>14 DEF Numbers, Costs
  <2>. QED
    BY <2>2, <2>3 DEF Numbers, Costs
<1>16. /\ DOMAIN Costs(C1) = C1 /\ Agrees(Costs(C), Costs(C1))
       /\ DOMAIN Costs(C2) = C2 /\ Agrees(Costs(C), Costs(C2))
  BY <1>1 DEF Costs, Agrees
<1>17. SumOf(Costs(C), C) = SumOf(Costs(C1), C1) + SumOf(Costs(C2), C2)
  <2>1. Parts(Costs(C), Costs(C1), Costs(C2), C1, C2)
    BY <1>1, <1>4, <1>15, <1>16 DEF Parts
  <2>. QED
    BY <1>1, <2>1, SumOfParts
<1>18. SumOf(Costs(C), C) = SumOf(Estimates(V), V)
  BY <1>7, <1>12, <1>13, <1>14, <1>17
<1>19. /\ Total(LAMBDA c : c.cost, C) = SumOf(Costs(C), C)
       /\ Total(LAMBDA r : OrZero(r.cost), V) = SumOf(Estimates(V), V)
  <2>1. IsFiniteSet(C)
    BY <1>15 DEF Numbers
  <2>. QED
    BY <1>5, <2>1, TotalCosts, TotalEstimates
<1>. QED
  BY <1>18, <1>19 DEF C, V, Estimated

\* The assumptions on Data, for the rows a set of names stands for.
LEMMA RowsArePriced ==
  ASSUME NEW names \in SomeRows
  PROVE  Priced(Rows(names))
<1>1. \A n \in DOMAIN Data : /\ n # "" /\ Data[n].row = n /\ Data[n].ts \in Int
                             /\ Data[n].table = "turn_cost" =>
                                  Data[n].received \in Int /\ Data[n].amount \in Int /\
                                  Data[n].tie \in Int
                             /\ Data[n].table = "codex_token_usage" => OrZero(Data[n].cost) \in Int
  BY DashboardAssumption DEF DashboardAssumption
<1>2. IsFiniteSet(Rows(names)) /\ \A r \in Rows(names) : \E n \in DOMAIN Data : r = Data[n]
  BY RowsAreData
<1>3. \A r \in Rows(names) :
        /\ r.row # ""
        /\ r.table = "turn_cost" =>
             r.ts \in Int /\ r.received \in Int /\ r.amount \in Int /\ r.tie \in Int
        /\ r.table = "codex_token_usage" => OrZero(r.cost) \in Int
  <2>. TAKE r \in Rows(names)
  <2>1. PICK n \in DOMAIN Data : r = Data[n]
    BY <1>2
  <2>. QED
    BY <1>1, <2>1
<1>4. \A r, s \in Rows(names) : r.row = s.row => r = s
  <2>1. \A r \in Rows(names) : r = Data[r.row]
    BY <1>1, <1>2
  <2>. QED
    BY <2>1
<1>. QED
  BY <1>2, <1>3, <1>4 DEF Priced

\* The view codex_native_turn_costs keeps one report of every reported turn, row_number() = 1,
\* whichever reports are raw and whichever archived.
THEOREM OneReportPerTurn ==
  ASSUME NEW R \in SomeRows, NEW A \in SomeRows
  PROVE  \A r \in Of(Rows(R) \cup Rows(A), "turn_cost") :
           \E m \in NativeTurnCosts(Rows(R), Rows(A)) :
             /\ SameTurn(m, r)
             /\ \A n \in NativeTurnCosts(Rows(R), Rows(A)) : SameTurn(n, r) => n = m
<1>. DEFINE S == Rows(R) \cup Rows(A)
<1>1. S = Rows(R \cup A) /\ R \cup A \in SomeRows
  BY DEF Rows, SomeRows
<1>2. Priced(S) /\ \A r \in S : \E n \in DOMAIN Data : r = Data[n]
  BY <1>1, RowsArePriced, RowsAreData
<1>3. NativeTurnCosts(Rows(R), Rows(A)) = NewestTurns(S)
  BY <1>2, NativeAreNewest
<1>. HIDE DEF S
<1>4. ASSUME NEW r \in Of(S, "turn_cost") PROVE \E m \in NewestTurns(S) : SameTurn(m, r)
  BY <1>2, <1>4, NewestOfTurn DEF Priced, Of
<1>5. ASSUME NEW m \in NewestTurns(S), NEW n \in NewestTurns(S), SameTurn(m, n) PROVE n = m
  <2>1. m \in S /\ n \in S /\ m.table = "turn_cost" /\ n.table = "turn_cost"
    BY DEF NewestTurns, Of
  <2>2. PICK i \in DOMAIN Data, j \in DOMAIN Data : m = Data[i] /\ n = Data[j]
    BY <1>2, <2>1
  <2>3. ~Newer(m, n) /\ ~Newer(n, m)
    BY <1>5, <2>1 DEF NewestTurns, Of, SameTurn
  <2>4. i = j
    BY <1>5, <2>1, <2>2, <2>3, TieAssumption
  <2>. QED
    BY <2>2, <2>4
<1>6. \A m, n, r : SameTurn(m, r) /\ SameTurn(n, r) => SameTurn(m, n)
  BY DEF SameTurn
<1>7. \A r \in Of(S, "turn_cost") :
        \E m \in NewestTurns(S) : SameTurn(m, r) /\ \A n \in NewestTurns(S) : SameTurn(n, r) => n = m
  <2>. TAKE r \in Of(S, "turn_cost")
  <2>1. PICK m \in NewestTurns(S) : SameTurn(m, r)
    BY <1>4
  <2>2. \A n \in NewestTurns(S) : SameTurn(n, r) => n = m
    BY <2>1, <1>5, <1>6
  <2>. QED
    BY <2>1, <2>2
<1>. QED
  BY <1>3, <1>7 DEF S

\* A conversation of the list has a name.
LEMMA ListedHaveNames ==
  ASSUME NEW d, NEW client \in Clients, NEW n, NEW key \in DOMAIN SessionList(d, client, n)
  PROVE  HasName(key.id)
<1>1. key \in DOMAIN Candidates(d, client, n)
  BY DEF SessionList, Top
<1>2. PICK s \in DOMAIN Lists(d, client) : key \in DOMAIN Lists(d, client)[s]
  <2>1. DOMAIN Candidates(d, client, n) =
          UNION {Top(Lists(d, client)[s], n) : s \in DOMAIN Lists(d, client)}
    <3>1. Candidates(d, client, n) =
            [k \in UNION {Top(Lists(d, client)[s], n) : s \in DOMAIN Lists(d, client)} |->
               Latest(TimesKnown(d, client, n, k))]
      BY CandidatesAre
    <3>. QED
      BY <3>1
  <2>2. \A s : Top(Lists(d, client)[s], n) \subseteq DOMAIN Lists(d, client)[s]
    BY DEF Top
  <2>. QED
    BY <1>1, <2>1, <2>2
<1>3. \E clients : key \in SessionKeys(d, clients)
  <2>1. CASE s = "raw"
    <3>1. Lists(d, client)[s] = HotTimes(d, client)
      BY <2>1, ListsAre
    <3>. QED
      BY <1>2, <3>1 DEF HotTimes
  <2>2. CASE s # "raw"
    <3>1. Lists(d, client)[s] = ColdTimes(d, s)
      BY <2>2, ListsAre
    <3>. QED
      BY <1>2, <3>1 DEF ColdTimes
  <2>. QED
    BY <2>1, <2>2
<1>4. PICK r \in ActiveRows(d.raw \cup d.archived) : key = SessionKey(r)
  BY <1>3 DEF SessionKeys
<1>5. r.session # "" /\ key.id = r.session
  BY <1>4 DEF ActiveRows, SessionKey
<1>. QED
  BY <1>5 DEF HasName

\* What a list says a conversation costs.
LEMMA ListedCost ==
  ASSUME NEW R, NEW A, Priced(R \cup A), R \cap A = {}, NEW id, HasName(id),
         NEW d, d.costs = SelectedCosts(R, A), NEW own, own = {r \in R \cup A : r.session = id}
  PROVE  ConversationCost(d, id).total = CostOf(own, NewestTurns(own), id)
<1>1. ConversationCost(d, id).total = Total(LAMBDA c : c.cost, CostsOf(R, A, id)) + LegacyCost(id)
  BY DEF ConversationCost, CostsOf
<1>2. NewestTurns(own) = Reports(R, A, id)
  BY NewestOfSession DEF Reports
<1>3. ValidUsage(own) = OfId(ValidUsage(R \cup A), id)
  BY DEF ValidUsage, OfId
<1>4. CASE Reports(R, A, id) # {}
  <2>1. CostOf(own, NewestTurns(own), id) =
          Total(LAMBDA r : r.amount, Reports(R, A, id)) + LegacyCost(id)
    BY <1>2, <1>4 DEF CostOf
  <2>2. Total(LAMBDA c : c.cost, CostsOf(R, A, id)) = Total(LAMBDA r : r.amount, Reports(R, A, id))
    BY <1>4, ReportedCost
  <2>. QED
    BY <1>1, <2>1, <2>2
<1>5. CASE Reports(R, A, id) = {}
  <2>1. CostOf(own, NewestTurns(own), id) =
          Estimated(OfId(ValidUsage(R \cup A), id)) + LegacyCost(id)
    BY <1>2, <1>3, <1>5 DEF CostOf, Estimated
  <2>2. Total(LAMBDA c : c.cost, CostsOf(R, A, id)) =
          Estimated(OfId(ValidUsage(R \cup A), id))
    BY <1>5, EstimatedCost
  <2>. QED
    BY <1>1, <2>1, <2>2
<1>. QED
  BY <1>4, <1>5

\* Whatever rows there are, archived or not, in whatever order they came: a conversation costs
\* what its turns reported, or else what its responses are estimated to, and never both.
THEOREM CostFromOneSourceHolds == Spec => []CostFromOneSource
<1>1. ViewsOK => CostFromOneSource
  <2>. SUFFICES ASSUME ViewsOK, NEW h \in Handlers, pc[h] = "answer", Request(h).of = "sessions",
                       NEW key \in DOMAIN SessionList(Found(got[h]), Request(h).client,
                                                      Request(h).limit),
                       key.client = "codex"
                PROVE  LET all == Rows(snap[h].raw \cup snap[h].archived)
                           own == {r \in all : r.session = key.id}
                           list == SessionList(Found(got[h]), Request(h).client, Request(h).limit)
                       IN  list[key].cost.total = CostOf(own, NewestTurns(own), key.id)
    BY DEF CostFromOneSource
  <2>. DEFINE d == Found(got[h])
              R == Rows(got[h].raw)
              A == Rows(got[h].archived)
              all == Rows(snap[h].raw \cup snap[h].archived)
              own == {r \in all : r.session = key.id}
  <2>1. /\ got[h].raw = snap[h].raw /\ got[h].archived = snap[h].archived
        /\ snap[h].raw \in SomeRows /\ snap[h].archived \in SomeRows
        /\ snap[h].raw \cap snap[h].archived = {}
        /\ ask[h] \in AskedOf[h]
    BY DEF ViewsOK, Sees
  <2>2. Request(h).client \in Clients
    <3>1. ask[h] \in DOMAIN Asks
      BY <2>1, DataFacts
    <3>. QED
      BY <3>1, DataFacts DEF Request
  <2>3. HasName(key.id)
    BY <2>2, ListedHaveNames
  <2>4. all = R \cup A
    BY <2>1 DEF Rows
  <2>5. R \cap A = {}
    <3>1. \A n \in DOMAIN Data : Data[n].row = n
      BY DashboardAssumption DEF DashboardAssumption
    <3>. QED
      BY <2>1, <3>1 DEF Rows, SomeRows
  <2>6. Priced(R \cup A)
    <3>1. snap[h].raw \cup snap[h].archived \in SomeRows
      BY <2>1 DEF SomeRows
    <3>2. Priced(all)
      BY <3>1, RowsArePriced
    <3>. HIDE DEF all, R, A
    <3>. QED
      BY <2>4, <3>2
  <2>7. d.costs = SelectedCosts(R, A)
    BY DEF Found, Read, View
  <2>8. SessionList(d, Request(h).client, Request(h).limit)[key].cost = ConversationCost(d, key.id)
    BY DEF SessionList, SessionCost
  <2>9. own = {r \in R \cup A : r.session = key.id}
    BY <2>4
  <2>. HIDE DEF d, R, A, own
  <2>10. ConversationCost(d, key.id).total = CostOf(own, NewestTurns(own), key.id)
    BY <2>3, <2>5, <2>6, <2>7, <2>9, ListedCost
  <2>. QED
    BY <2>8, <2>10 DEF own, d
<1>. QED
  BY <1>1, ViewsHold, PTL

-----------------------------------------------------------------------------
(* The bars of an overview *)

\* What a column of the summaries, a chart or an answer adds up.
ColumnOf(S, c)   == [r \in S |-> Amount(r, c)]
MeasureOf(S, m)  == [f \in S |-> f.amount[m]]
BarsOf(bars, S, m) == [i \in S |-> bars[i][m]]

\* As TotalAmounts.
LEMMA TotalColumn ==
  ASSUME NEW S, IsFiniteSet(S), NEW c
  PROVE  Total(LAMBDA r : Amount(r, c), S) = SumOf(ColumnOf(S, c), S)
<1>. DEFINE Is(f) == f = [s \in SUBSET S |->
                       IF s = {} THEN 0
                       ELSE Amount((CHOOSE x \in s : TRUE), c) + f[s \ {CHOOSE x \in s : TRUE}]]
<1>1. Total(LAMBDA r : Amount(r, c), S) = (CHOOSE f : Is(f))[S]
  BY DEF Total, MapThenSumSet, MapThenFoldSet
<1>2. \A f : Is(f) <=> IsSum(f, ColumnOf(S, c))
  <2>1. \A s \in SUBSET S : s # {} => ColumnOf(S, c)[Some(s)] = Amount((CHOOSE x \in s : TRUE), c)
    BY SomeIs DEF Some, ColumnOf
  <2>. QED
    BY <2>1 DEF IsSum, Some, ColumnOf
<1>. HIDE DEF Is
<1>3. (CHOOSE f : Is(f)) = (CHOOSE f : IsSum(f, ColumnOf(S, c)))
  BY <1>2, Zenon
<1>. QED
  BY <1>1, <1>3, Zenon DEF SumOf, SumOver

LEMMA TotalMeasure ==
  ASSUME NEW S, IsFiniteSet(S), NEW m
  PROVE  Sum(S, m) = SumOf(MeasureOf(S, m), S)
<1>. DEFINE Is(f) == f = [s \in SUBSET S |->
                       IF s = {} THEN 0
                       ELSE (CHOOSE x \in s : TRUE).amount[m] + f[s \ {CHOOSE x \in s : TRUE}]]
<1>1. Sum(S, m) = (CHOOSE f : Is(f))[S]
  BY DEF Sum, Total, MapThenSumSet, MapThenFoldSet
<1>2. \A f : Is(f) <=> IsSum(f, MeasureOf(S, m))
  <2>1. \A s \in SUBSET S : s # {} => MeasureOf(S, m)[Some(s)] = (CHOOSE x \in s : TRUE).amount[m]
    BY SomeIs DEF Some, MeasureOf
  <2>. QED
    BY <2>1 DEF IsSum, Some, MeasureOf
<1>. HIDE DEF Is
<1>3. (CHOOSE f : Is(f)) = (CHOOSE f : IsSum(f, MeasureOf(S, m)))
  BY <1>2, Zenon
<1>. QED
  BY <1>1, <1>3, Zenon DEF SumOf, SumOver

LEMMA TotalBars ==
  ASSUME NEW S, IsFiniteSet(S), NEW answer, NEW m
  PROVE  Total(LAMBDA i : answer.bars[i][m], S) = SumOf(BarsOf(answer.bars, S, m), S)
<1>. DEFINE Is(f) == f = [s \in SUBSET S |->
                       IF s = {} THEN 0
                       ELSE answer.bars[CHOOSE x \in s : TRUE][m] + f[s \ {CHOOSE x \in s : TRUE}]]
<1>1. Total(LAMBDA i : answer.bars[i][m], S) = (CHOOSE f : Is(f))[S]
  BY DEF Total, MapThenSumSet, MapThenFoldSet
<1>2. \A f : Is(f) <=> IsSum(f, BarsOf(answer.bars, S, m))
  <2>1. \A s \in SUBSET S : s # {} =>
          BarsOf(answer.bars, S, m)[Some(s)] = answer.bars[CHOOSE x \in s : TRUE][m]
    BY SomeIs DEF Some, BarsOf
  <2>. QED
    BY <2>1 DEF IsSum, Some, BarsOf
<1>. HIDE DEF Is
<1>3. (CHOOSE f : Is(f)) = (CHOOSE f : IsSum(f, BarsOf(answer.bars, S, m)))
  BY <1>2, Zenon
<1>. QED
  BY <1>1, <1>3, Zenon DEF SumOf, SumOver

\* Rows with numbers of N where they are added up for the bars.
Metered(rows, N) ==
  /\ IsFiniteSet(rows)
  /\ \A r \in rows : /\ r.ts \in Int
                     /\ r.table \in {"token_usage", "cost_usage"} => r.value \in N
                     /\ Valid(r) => r.input + r.output \in N
                     /\ r.table = "turn_cost" => r.amount \in N
                     /\ r.table = "codex_token_usage" => OrZero(r.cost) \in N

\* What a bar shows.
Drawn == {"total", "cost", "requests"}

\* A count of nothing, or of one thing.
LEMMA SmallNumbers == \A N : Adding(N) => 0 \in N /\ 1 \in N
BY DEF Adding

\* The tables the buckets are made of.
LEMMA UsageTables ==
  ASSUME NEW rows, NEW r \in UsageRows(rows)
  PROVE  /\ r \in rows
         /\ \/ r.table \in {"token_usage", "cost_usage", "api_request", "response_tbt"}
            \/ r.table = "codex_token_usage" /\ Valid(r)
BY DEF UsageRows, In, ValidUsage, Valid

\* What a row adds to the columns that bars are drawn from, in the archive ...
LEMMA ColumnsOfRow ==
  ASSUME NEW N, Adding(N), NEW rows, Metered(rows, N), NEW r \in UsageRows(rows),
         NEW c \in {"tokens_total", "requests", "cost"}
  PROVE  Amount(r, c) \in N
<1>1. CASE r.table = "token_usage"
  <2>1. Adds(r) = [x \in {"tokens_total"} \cup OfType(TypeColumns, r.type) |-> r.value] ++
                    [token_rows |-> 1]
    BY <1>1 DEF Adds
  <2>2. r.value \in N
    BY <1>1, UsageTables DEF Metered
  <2>3. Amount(r, c) \in {0, r.value}
    BY <2>1 DEF Amount, ++
  <2>. QED
    BY <2>2, <2>3, SmallNumbers
<1>2. CASE r.table = "cost_usage"
  <2>1. Adds(r) = [cost |-> r.value]
    BY <1>2 DEF Adds
  <2>2. r.value \in N
    BY <1>2, UsageTables DEF Metered
  <2>3. Amount(r, c) \in {0, r.value}
    BY <2>1 DEF Amount
  <2>. QED
    BY <2>2, <2>3, SmallNumbers
<1>3. CASE r.table = "api_request"
  <2>1. PICK more : /\ Adds(r) = [requests |-> 1] ++ more
                    /\ c \notin DOMAIN more
    <3>1. Adds(r) = [requests |-> 1] ++
              (IF Measured(r) THEN [speed_units |-> r.output, speed_duration |-> r.duration]
               ELSE <<>>)
      BY <1>3 DEF Adds
    <3>2. CASE Measured(r)
      BY <3>1, <3>2
    <3>3. CASE ~Measured(r)
      BY <3>1, <3>3
    <3>. QED
      BY <3>2, <3>3
  <2>2. Amount(r, c) \in {0, 1}
    BY <2>1 DEF Amount, ++
  <2>. QED
    BY <2>2, SmallNumbers
<1>4. CASE r.table = "response_tbt"
  <2>1. c \notin DOMAIN Adds(r)
    <3>1. CASE Measured(r)
      BY <1>4, <3>1 DEF Adds
    <3>2. CASE ~Measured(r)
      BY <1>4, <3>2 DEF Adds
    <3>. QED
      BY <3>1, <3>2
  <2>. QED
    BY <2>1, SmallNumbers DEF Amount
<1>5. CASE r.table = "codex_token_usage" /\ Valid(r)
  <2>1. Amount(r, c) \in {0, 1, r.input + r.output}
    BY <1>5 DEF Adds, Amount
  <2>2. r.input + r.output \in N
    BY <1>5, UsageTables DEF Metered
  <2>. QED
    BY <2>1, <2>2, SmallNumbers
<1>. QED
  BY <1>1, <1>2, <1>3, <1>4, <1>5, UsageTables

\* ... and what its fact has, while it is raw.
LEMMA MeasuresOfRow ==
  ASSUME NEW N, Adding(N), NEW rows, Metered(rows, N), NEW r \in UsageRows(rows), NEW m \in Drawn
  PROVE  RawFact(r).amount[m] \in N
<1>. DEFINE a == RawMeasures(r)
<1>0. RawFact(r).amount[m] = IF m \in DOMAIN a THEN a[m] ELSE 0
  BY DEF RawFact, Fact, Drawn, Measures
<1>1. CASE r.table = "token_usage"
  <2>1. a = [x \in {"total"} \cup OfType(TypeMeasures, r.type) |-> r.value]
    BY <1>1 DEF RawMeasures
  <2>2. r.value \in N
    BY <1>1, UsageTables DEF Metered
  <2>. HIDE DEF a
  <2>. QED
    BY <1>0, <2>1, <2>2, SmallNumbers
<1>2. CASE r.table = "cost_usage"
  <2>1. a = [cost |-> r.value]
    BY <1>2 DEF RawMeasures
  <2>2. r.value \in N
    BY <1>2, UsageTables DEF Metered
  <2>. HIDE DEF a
  <2>. QED
    BY <1>0, <2>1, <2>2, SmallNumbers
<1>3. CASE r.table = "api_request"
  <2>1. PICK more : a = [requests |-> 1] ++ more /\ m \notin DOMAIN more
    <3>1. a = [requests |-> 1] ++
              (IF Measured(r) THEN [units |-> r.output, duration |-> r.duration] ELSE <<>>)
      BY <1>3 DEF RawMeasures
    <3>. HIDE DEF a
    <3>2. CASE Measured(r)
      BY <3>1, <3>2 DEF Drawn
    <3>3. CASE ~Measured(r)
      BY <3>1, <3>3 DEF Drawn
    <3>. QED
      BY <3>2, <3>3
  <2>. HIDE DEF a
  <2>2. RawFact(r).amount[m] \in {0, 1}
    BY <1>0, <2>1 DEF ++
  <2>. QED
    BY <2>2, SmallNumbers
<1>4. CASE r.table = "response_tbt"
  <2>1. m \notin DOMAIN a
    <3>1. CASE Measured(r)
      BY <1>4, <3>1 DEF RawMeasures, Drawn
    <3>2. CASE ~Measured(r)
      BY <1>4, <3>2 DEF RawMeasures, Drawn
    <3>. QED
      BY <3>1, <3>2
  <2>. HIDE DEF a
  <2>. QED
    BY <1>0, <2>1, SmallNumbers
<1>5. CASE r.table = "codex_token_usage" /\ Valid(r)
  <2>1. RawFact(r).amount[m] \in {0, 1, r.input + r.output}
    BY <1>0, <1>5 DEF RawMeasures, Drawn
  <2>2. r.input + r.output \in N
    BY <1>5, UsageTables DEF Metered
  <2>. QED
    BY <2>1, <2>2, SmallNumbers
<1>. QED
  BY <1>1, <1>2, <1>3, <1>4, <1>5, UsageTables

\* Whole hours.
LEMMA HourType == \A t \in Int : TheHour(t) \in Int
<1>1. \A h \in Nat \ {0}, t \in Int : (t \div h) * h \in Int
  OBVIOUS
<1>. QED
  BY <1>1, SummaryAssumption DEF SummaryAssumption, TheHour

\* The columns of the buckets.
LEMMA HourlyColumns ==
  ASSUME NEW N, Adding(N), NEW A, Metered(A, N), NEW H, H = UsageHourly(A)
  PROVE  /\ IsFiniteSet(DOMAIN H)
         /\ \A key \in DOMAIN H :
              /\ key.bucket \in Int
              /\ \A c \in {"tokens_total", "requests", "cost"} : H[key][c] \in N
<1>1. DOMAIN H = {UsageKey(r) : r \in UsageRows(A)}
  BY DEF UsageHourly
<1>2. IsFiniteSet(UsageRows(A)) /\ UsageRows(A) \subseteq A
  <2>1. UsageRows(A) \subseteq A
    BY UsageTables
  <2>. QED
    BY <2>1, FS_Subset DEF Metered
<1>3. IsFiniteSet(DOMAIN H)
  <2>. DEFINE f == [r \in UsageRows(A) |-> UsageKey(r)]
  <2>1. DOMAIN H = {f[r] : r \in UsageRows(A)}
    BY <1>1
  <2>2. UsageRows(A) \subseteq DOMAIN f
    OBVIOUS
  <2>. HIDE DEF f
  <2>. QED
    BY <1>2, <2>1, <2>2, FiniteValues
<1>4. ASSUME NEW key \in DOMAIN H PROVE key.bucket \in Int
  <2>1. PICK r \in UsageRows(A) : key = UsageKey(r)
    BY <1>1
  <2>. QED
    BY <1>2, <2>1, HourType DEF UsageKey, Metered
<1>5. ASSUME NEW key \in DOMAIN H, NEW c \in {"tokens_total", "requests", "cost"}
      PROVE  H[key][c] \in N
  <2>. DEFINE own == {r \in UsageRows(A) : UsageKey(r) = key}
              g == ColumnOf(own, c)
  <2>1. H[key][c] = Total(LAMBDA r : Amount(r, c), own)
    BY <1>1 DEF UsageHourly, UsageColumns
  <2>2. IsFiniteSet(own)
    BY <1>2, FS_Subset
  <2>3. \A r \in own : Amount(r, c) \in N
    BY ColumnsOfRow
  <2>. HIDE DEF own
  <2>4. DOMAIN g = own /\ \A r \in own : g[r] \in N
    BY <2>3 DEF ColumnOf
  <2>. HIDE DEF g
  <2>5. SumOf(g, own) \in N
    BY <2>2, <2>4, SumIn
  <2>. QED
    BY <2>1, <2>2, <2>5, TotalColumn DEF g
<1>. QED
  BY <1>3, <1>4, <1>5

\* What the fact of a bucket has.
LEMMA MeasuresOfHour ==
  ASSUME NEW N, Adding(N), NEW key, NEW c, NEW seen, NEW m \in Drawn,
         c.tokens_total \in N, c.requests \in N, c.cost \in N
  PROVE  ArchiveFact(key, c, seen).amount[m] \in N
<1>. DEFINE a == ArchivedMeasures(key.client, c)
<1>1. ArchiveFact(key, c, seen).amount[m] = IF m \in DOMAIN a THEN a[m] ELSE 0
  BY DEF ArchiveFact, Fact, Drawn, Measures
<1>2. PICK more : /\ a = [gross |-> c.input, out |-> c.output, total |-> c.tokens_total,
                          read |-> c.cache_read, creation |-> c.cache_creation,
                          requests |-> c.requests, units |-> c.speed_units,
                          duration |-> c.speed_duration] ++ more
                  /\ "cost" \in DOMAIN more => more["cost"] = c.cost
  <2>1. CASE key.client = "codex"
    BY <2>1 DEF ArchivedMeasures
  <2>2. CASE key.client # "codex"
    BY <2>2 DEF ArchivedMeasures
  <2>. QED
    BY <2>1, <2>2
<1>. HIDE DEF a
<1>3. ArchiveFact(key, c, seen).amount[m] \in {0, c.tokens_total, c.requests, c.cost}
  BY <1>1, <1>2 DEF ++, Drawn
<1>. QED
  BY <1>3, SmallNumbers

\* The hours that an earlier version left.
LegacyIn(N) == \A l \in LegacyHours : l.cost \in N

\* The rows of the cost view.
LEMMA ViewedCosts ==
  ASSUME NEW N, Adding(N), NEW R, NEW A, Metered(R, N), Metered(A, N), LegacyIn(N),
         NEW costs, costs = SelectedCosts(R, A)
  PROVE  IsFiniteSet(costs) /\ \A c \in costs : c.ts \in Int /\ c.cost \in N
<1>. DEFINE T == NativeTurnCosts(R, A)
            V == ValidUsage(R)
            H == LocalCostHourly(A)
            f1 == [r \in T |-> NativeRow(r)]
            f2 == [r \in V |-> LocalRow(r)]
            f3 == [k \in DOMAIN H |-> HourRow(k, H)]
            f4 == [l \in LegacyHours |-> CostRow("", l.bucket, "", l.model, l.cost, "legacy",
                                                 IF l.cost > 0 THEN 1 ELSE 0)]
            S1 == {f1[r] : r \in T}
            S2 == {f2[r] : r \in V}
            S3 == {f3[k] : k \in DOMAIN H}
            S4 == {f4[l] : l \in LegacyHours}
<1>1. costs \subseteq S1 \cup S2 \cup S3 \cup S4
  <2>1. LocalCosts(R, A) = S2 \cup S3
    BY DEF LocalCosts, LocalRow, HourRow
  <2>2. SelectedCosts(R, A) \subseteq S1 \cup LocalCosts(R, A) \cup S4
    BY DEF SelectedCosts, NativeRow
  <2>. HIDE DEF S1, S2, S3, S4
  <2>. QED
    BY <2>1, <2>2
<1>2. IsFiniteSet(T) /\ \A r \in T : r.ts \in Int /\ r.amount \in N
  <2>1. T \subseteq R \cup A /\ \A r \in T : r.table = "turn_cost"
    BY NativeAreReports DEF Of
  <2>2. IsFiniteSet(R \cup A)
    BY FS_Union DEF Metered
  <2>. HIDE DEF T
  <2>. QED
    BY <2>1, <2>2, FS_Subset DEF Metered
<1>3. IsFiniteSet(V) /\ \A r \in V : r.ts \in Int /\ OrZero(r.cost) \in N
  <2>1. V \subseteq R /\ \A r \in V : r.table = "codex_token_usage"
    BY DEF ValidUsage, Valid
  <2>. HIDE DEF V
  <2>. QED
    BY <2>1, FS_Subset DEF Metered
<1>4. IsFiniteSet(DOMAIN H) /\ \A k \in DOMAIN H : k.bucket \in Int /\ H[k].cost \in N
  <2>. DEFINE W == ValidUsage(A)
              f == [r \in W |-> LocalKey(r)]
  <2>1. IsFiniteSet(W) /\ \A r \in W : r.ts \in Int /\ OrZero(r.cost) \in N
    <3>1. W \subseteq A /\ \A r \in W : r.table = "codex_token_usage"
      BY DEF ValidUsage, Valid
    <3>. HIDE DEF W
    <3>. QED
      BY <3>1, FS_Subset DEF Metered
  <2>2. DOMAIN H = {f[r] : r \in W}
    BY DEF LocalCostHourly
  <2>3. IsFiniteSet(DOMAIN H)
    <3>1. W \subseteq DOMAIN f
      OBVIOUS
    <3>. HIDE DEF f, W, H
    <3>. QED
      BY <2>1, <2>2, <3>1, FiniteValues
  <2>4. ASSUME NEW k \in DOMAIN H PROVE k.bucket \in Int /\ H[k].cost \in N
    <3>. DEFINE own == {r \in W : LocalKey(r) = k}
                g == Estimates(own)
    <3>1. PICK r \in W : k = LocalKey(r)
      BY <2>2, <2>4
    <3>2. k.bucket \in Int
      BY <2>1, <3>1, HourType DEF LocalKey
    <3>3. H[k].cost = Total(LAMBDA q : OrZero(q.cost), own)
      BY DEF LocalCostHourly
    <3>4. IsFiniteSet(own) /\ \A q \in own : OrZero(q.cost) \in N
      BY <2>1, FS_Subset
    <3>. HIDE DEF own
    <3>5. DOMAIN g = own /\ \A q \in own : g[q] \in N
      BY <3>4 DEF Estimates
    <3>. HIDE DEF g
    <3>6. SumOf(g, own) \in N
      BY <3>4, <3>5, SumIn
    <3>. QED
      BY <3>2, <3>3, <3>4, <3>6, TotalEstimates DEF g
  <2>. QED
    BY <2>3, <2>4
<1>5. IsFiniteSet(LegacyHours) /\ \A l \in LegacyHours : l.bucket \in Int /\ l.cost \in N
  BY SummaryAssumption DEF SummaryAssumption, LegacyIn
<1>6. IsFiniteSet(S1) /\ \A c \in S1 : c.ts \in Int /\ c.cost \in N
  <2>. HIDE DEF T
  <2>1. T \subseteq DOMAIN f1
    OBVIOUS
  <2>2. \A r \in T : f1[r].ts \in Int /\ f1[r].cost \in N
    BY <1>2 DEF NativeRow, CostRow
  <2>. HIDE DEF f1
  <2>. QED
    BY <1>2, <2>1, <2>2, FiniteValues
<1>7. IsFiniteSet(S2) /\ \A c \in S2 : c.ts \in Int /\ c.cost \in N
  <2>. HIDE DEF V
  <2>1. V \subseteq DOMAIN f2
    OBVIOUS
  <2>2. \A r \in V : f2[r].ts \in Int /\ f2[r].cost \in N
    BY <1>3 DEF LocalRow, CostRow
  <2>. HIDE DEF f2
  <2>. QED
    BY <1>3, <2>1, <2>2, FiniteValues
<1>8. IsFiniteSet(S3) /\ \A c \in S3 : c.ts \in Int /\ c.cost \in N
  <2>. HIDE DEF H
  <2>1. DOMAIN H \subseteq DOMAIN f3
    OBVIOUS
  <2>2. \A k \in DOMAIN H : f3[k].ts \in Int /\ f3[k].cost \in N
    BY <1>4 DEF HourRow, CostRow
  <2>. HIDE DEF f3
  <2>. QED
    BY <1>4, <2>1, <2>2, FiniteValues
<1>9. IsFiniteSet(S4) /\ \A c \in S4 : c.ts \in Int /\ c.cost \in N
  <2>1. LegacyHours \subseteq DOMAIN f4
    OBVIOUS
  <2>2. \A l \in LegacyHours : f4[l].ts \in Int /\ f4[l].cost \in N
    BY <1>5 DEF CostRow
  <2>. HIDE DEF f4
  <2>. QED
    BY <1>5, <2>1, <2>2, FiniteValues
<1>. HIDE DEF S1, S2, S3, S4
<1>10. IsFiniteSet(S1 \cup S2 \cup S3 \cup S4)
  BY <1>6, <1>7, <1>8, <1>9, FS_Union
<1>11. IsFiniteSet(costs)
  BY <1>1, <1>10, FS_Subset
<1>. QED
  BY <1>1, <1>6, <1>7, <1>8, <1>9, <1>11

\* Facts whose numbers are of N where a bar shows them.
Amounted(F, N) ==
  /\ IsFiniteSet(F)
  /\ \A f \in F : f.ts \in Int /\ \A m \in Drawn : f.amount[m] \in N

\* All the facts of a view.
LEMMA FactsAre ==
  ASSUME NEW N, Adding(N), NEW R, NEW A, Metered(R, N), Metered(A, N), LegacyIn(N)
  PROVE  Amounted(Facts(R, A, UsageHourly(A), SelectedCosts(R, A)), N)
<1>. DEFINE U == UsageRows(R)
            H == UsageHourly(A)
            C == SelectedCosts(R, A)
            f1 == [r \in U |-> RawFact(r)]
            f2 == [k \in DOMAIN H |-> ArchiveFact(k, H[k], LastSeen(A, k))]
            f3 == [c \in C |-> CostFact(c)]
            S1 == {f1[r] : r \in U}
            S2 == {f2[k] : k \in DOMAIN H}
            S3 == {f3[c] : c \in C}
<1>1. Facts(R, A, H, C) = S1 \cup S2 \cup S3
  BY DEF Facts, ArchiveFacts
<1>2. Amounted(S1, N)
  <2>1. IsFiniteSet(U)
    <3>1. U \subseteq R
      BY UsageTables
    <3>. HIDE DEF U
    <3>. QED
      BY <3>1, FS_Subset DEF Metered
  <2>2. \A r \in U : f1[r].ts \in Int /\ \A m \in Drawn : f1[r].amount[m] \in N
    <3>1. \A r \in U : f1[r] = RawFact(r) /\ r \in R
      BY UsageTables
    <3>2. \A r \in U : RawFact(r).ts = r.ts
      BY DEF RawFact, Fact
    <3>3. \A r \in U : \A m \in Drawn : RawFact(r).amount[m] \in N
      BY MeasuresOfRow
    <3>. QED
      BY <3>1, <3>2, <3>3 DEF Metered
  <2>3. U \subseteq DOMAIN f1
    OBVIOUS
  <2>. HIDE DEF U, f1
  <2>. QED
    BY <2>1, <2>2, <2>3, FiniteValues DEF Amounted
<1>3. Amounted(S2, N)
  <2>1. IsFiniteSet(DOMAIN H)
    BY HourlyColumns
  <2>2. ASSUME NEW k \in DOMAIN H
        PROVE  f2[k].ts \in Int /\ \A m \in Drawn : f2[k].amount[m] \in N
    <3>1. /\ k.bucket \in Int
          /\ \A c \in {"tokens_total", "requests", "cost"} : H[k][c] \in N
      BY HourlyColumns
    <3>2. f2[k].ts = k.bucket
      BY DEF ArchiveFact, Fact
    <3>3. \A m \in Drawn : ArchiveFact(k, H[k], LastSeen(A, k)).amount[m] \in N
      <4>1. H[k].tokens_total \in N /\ H[k].requests \in N /\ H[k].cost \in N
        BY <3>1
      <4>. HIDE DEF H
      <4>. QED
        BY <4>1, MeasuresOfHour
    <3>. QED
      BY <3>1, <3>2, <3>3
  <2>3. DOMAIN H \subseteq DOMAIN f2
    OBVIOUS
  <2>. HIDE DEF H, f2
  <2>. QED
    BY <2>1, <2>2, <2>3, FiniteValues DEF Amounted
<1>4. Amounted(S3, N)
  <2>1. IsFiniteSet(C) /\ \A c \in C : c.ts \in Int /\ c.cost \in N
    BY ViewedCosts
  <2>. HIDE DEF C
  <2>2. ASSUME NEW c \in C
        PROVE  f3[c].ts \in Int /\ \A m \in Drawn : f3[c].amount[m] \in N
    <3>1. f3[c].ts = c.ts
      BY DEF CostFact, Fact
    <3>2. \A m \in Drawn : f3[c].amount[m] \in {0, c.cost}
      <4>. SUFFICES ASSUME NEW m \in Drawn PROVE f3[c].amount[m] \in {0, c.cost}
        OBVIOUS
      <4>1. f3[c].amount[m] = IF m \in {"cost"} THEN [cost |-> c.cost][m] ELSE 0
        BY DEF CostFact, Fact, Drawn, Measures
      <4>. QED
        BY <4>1
    <3>. QED
      BY <2>1, <3>1, <3>2, SmallNumbers
  <2>3. C \subseteq DOMAIN f3
    OBVIOUS
  <2>. HIDE DEF f3
  <2>. QED
    BY <2>1, <2>2, <2>3, FiniteValues DEF Amounted
<1>. HIDE DEF S1, S2, S3
<1>5. IsFiniteSet(S1 \cup S2 \cup S3)
  BY <1>2, <1>3, <1>4, FS_Union DEF Amounted
<1>. QED
  BY <1>1, <1>2, <1>3, <1>4, <1>5 DEF Amounted

\* No value, amount or estimate is negative.  The validity of a response says so of its tokens;
\* of the rest nothing in the code does.
NothingNegative ==
  /\ \A n \in DOMAIN Data :
       /\ Data[n].table \in {"token_usage", "cost_usage"} => Data[n].value >= 0
       /\ Data[n].table = "turn_cost" => Data[n].amount >= 0
       /\ Data[n].table = "codex_token_usage" => OrZero(Data[n].cost) >= 0
  /\ \A l \in LegacyHours : l.cost >= 0

\* The assumptions on Data, and the hypothesis, for the rows a set of names stands for.
LEMMA DataMetered ==
  ASSUME NEW names \in SUBSET DOMAIN Data, NEW N, N = Int \/ (N = Nat /\ NothingNegative)
  PROVE  Metered(Rows(names), N)
<1>1. IsFiniteSet(Rows(names))
  <2>1. names \subseteq DOMAIN Data /\ IsFiniteSet(names)
    BY DataFacts, FS_Subset DEF SomeRows
  <2>. QED
    BY <2>1, FiniteValues DEF Rows
<1>2. ASSUME NEW r \in Rows(names)
      PROVE  /\ r.ts \in Int
             /\ r.table \in {"token_usage", "cost_usage"} => r.value \in N
             /\ Valid(r) => r.input + r.output \in N
             /\ r.table = "turn_cost" => r.amount \in N
             /\ r.table = "codex_token_usage" => OrZero(r.cost) \in N
  <2>1. PICK n \in DOMAIN Data : r = Data[n]
    BY DEF Rows
  <2>2. /\ r.ts \in Int
        /\ r.table = "turn_cost" => r.amount \in Int
        /\ r.table = "codex_token_usage" =>
             OrZero(r.cost) \in Int /\ r.input \in Int /\ r.output \in Int
        /\ r.table \in {"token_usage", "cost_usage"} => r.value \in Int
    BY <2>1, DashboardAssumption DEF DashboardAssumption
  <2>3. CASE N = Int
    BY <2>2, <2>3 DEF Valid
  <2>4. CASE N = Nat /\ NothingNegative
    <3>1. /\ r.table \in {"token_usage", "cost_usage"} => r.value >= 0
          /\ r.table = "turn_cost" => r.amount >= 0
          /\ r.table = "codex_token_usage" => OrZero(r.cost) >= 0
      BY <2>1, <2>4 DEF NothingNegative
    <3>. QED
      BY <2>2, <2>4, <3>1 DEF Valid
  <2>. QED
    BY <2>3, <2>4
<1>. QED
  BY <1>1, <1>2 DEF Metered

\* And of the old hours.
LEMMA LegacyNumbers ==
  ASSUME NEW N, N = Int \/ (N = Nat /\ NothingNegative)
  PROVE  LegacyIn(N)
BY SummaryAssumption DEF SummaryAssumption, LegacyIn, NothingNegative

\* What the queries find in a view.
LEMMA FoundFacts ==
  ASSUME NEW v, v.raw \in SUBSET DOMAIN Data, v.archived \in SUBSET DOMAIN Data,
         NEW N, N = Int \/ (N = Nat /\ NothingNegative)
  PROVE  Amounted(Found(v).facts, N)
<1>. DEFINE R == Rows(v.raw)
            A == Rows(v.archived)
<1>1. Found(v).facts = Facts(R, A, UsageHourly(A), SelectedCosts(R, A))
  BY DEF Found, Read, View
<1>2. Metered(R, N) /\ Metered(A, N)
  BY DataMetered
<1>3. Adding(N) /\ LegacyIn(N)
  BY LegacyNumbers DEF Adding
<1>. HIDE DEF R, A
<1>. QED
  BY <1>1, <1>2, <1>3, FactsAre

\* A zone without a change of the clocks, as timewin.go says the supported ones are.
Steady(z) == z.first \in Int /\ z.then = z.first /\ z.at \in Int

\* Integer division.
LEMMA Floor ==
  \A h \in Nat \ {0}, s \in Int : /\ s \div h \in Int /\ s % h \in 0 .. h - 1
                                  /\ (s \div h) * h + (s % h) = s
OBVIOUS

LEMMA FloorAtLeast ==
  ASSUME NEW h \in Nat \ {0}, NEW s \in Int, NEW a \in Int
  PROVE  a <= s \div h <=> a * h <= s
<1>. DEFINE q == s \div h
<1>1. q \in Int /\ q * h <= s /\ s < (q + 1) * h
  OBVIOUS
<1>. HIDE DEF q
<1>2. CASE a <= q
  <2>1. a * h <= q * h
    BY <1>1, <1>2
  <2>2. a * h \in Int /\ q * h \in Int
    BY <1>1
  <2>. QED
    BY <1>1, <1>2, <2>1, <2>2 DEF q
<1>3. CASE q + 1 <= a
  <2>1. (q + 1) * h <= a * h
    BY <1>1, <1>3
  <2>2. a * h \in Int /\ (q + 1) * h \in Int
    BY <1>1
  <2>3. ~(a * h <= s)
    BY <1>1, <2>1, <2>2
  <2>4. ~(a <= q)
    BY <1>1, <1>3
  <2>. QED
    BY <2>3, <2>4 DEF q
<1>. QED
  BY <1>1, <1>2, <1>3

LEMMA FloorOfMultiple ==
  \A h \in Nat \ {0}, a \in Int : (a * h) \div h = a /\ (a * h) % h = 0
OBVIOUS

\* Without a change of the clocks midnights are HoursPerDay apart, and a date is added as
\* that many hours: what ArchiveCalendar has for gaps and folds does not apply.
LEMMA SteadyDates ==
  ASSUME NEW z, Steady(z), NEW t \in Int
  PROVE  /\ OffsetAt(z, t) = z.first
         /\ LocalDate(z, t) \in Int
         /\ LocalDate(z, t) = (t + z.first) \div HoursPerDay
         /\ LocalMidnight(z, t) = LocalDate(z, t) * HoursPerDay - z.first
         /\ \A n \in Int : AddDate(z, t, n) = t + n * HoursPerDay
<1>. DEFINE D == HoursPerDay
            o == z.first
<1>1. D \in Nat \ {0}
  BY CalendarAssumption DEF CalendarAssumption
<1>2. \A u \in Int : OffsetAt(z, u) = o
  BY DEF Steady, OffsetAt
<1>3. o \in Int
  BY DEF Steady
<1>4. \A d, h \in Int : GoDate(z, d, h) = (d * D + h) - o
  <2>. SUFFICES ASSUME NEW d \in Int, NEW h \in Int PROVE GoDate(z, d, h) = (d * D + h) - o
    OBVIOUS
  <2>1. d * D + h \in Int
    BY <1>1
  <2>. DEFINE w == d * D + h
  <2>2. GoDate(z, d, h) = IF (w - OffsetAt(z, w) < z.at) = (w < z.at) THEN w - OffsetAt(z, w)
                          ELSE w - OffsetAt(z, w - OffsetAt(z, w))
    BY DEF GoDate
  <2>. HIDE DEF w
  <2>3. w \in Int /\ OffsetAt(z, w) = o /\ w - o \in Int /\ OffsetAt(z, w - o) = o
    BY <2>1, <1>2, <1>3 DEF w
  <2>4. GoDate(z, d, h) = w - o
    BY <2>2, <2>3
  <2>. QED
    BY <2>4 DEF w
<1>5. /\ LocalDate(z, t) = (t + o) \div D /\ LocalDate(z, t) \in Int
      /\ LocalHour(z, t) = (t + o) % D /\ LocalHour(z, t) \in Int
      /\ LocalDate(z, t) * D + LocalHour(z, t) = t + o
  <2>1. LocalDate(z, t) = (t + o) \div D /\ LocalHour(z, t) = (t + o) % D /\ t + o \in Int
    BY <1>2, <1>3 DEF LocalDate, LocalHour
  <2>2. /\ (t + o) \div D \in Int /\ (t + o) % D \in 0 .. D - 1
        /\ ((t + o) \div D) * D + ((t + o) % D) = t + o
    BY <1>1, <2>1, Floor
  <2>3. \A x \in 0 .. D - 1 : x \in Int
    OBVIOUS
  <2>. QED
    BY <2>1, <2>2, <2>3
<1>6. \A n \in Int : AddDate(z, t, n) = t + n * D
  <2>. SUFFICES ASSUME NEW n \in Int PROVE AddDate(z, t, n) = t + n * D
    OBVIOUS
  <2>1. LocalDate(z, t) + n \in Int
    BY <1>5
  <2>2. AddDate(z, t, n) = ((LocalDate(z, t) + n) * D + LocalHour(z, t)) - o
    BY <1>4, <1>5, <2>1 DEF AddDate
  <2>3. (LocalDate(z, t) + n) * D = LocalDate(z, t) * D + n * D
    <3>1. \A a, b, c \in Int : (a + b) * c = a * c + b * c
      OBVIOUS
    <3>. QED
      BY <1>1, <1>5, <3>1
  <2>4. LocalDate(z, t) * D \in Int /\ n * D \in Int
    BY <1>1, <1>5
  <2>. HIDE DEF D
  <2>. QED
    BY <1>3, <1>5, <2>2, <2>3, <2>4
<1>7. LocalMidnight(z, t) = LocalDate(z, t) * D - o
  <2>1. LocalMidnight(z, t) = (LocalDate(z, t) * D + 0) - o
    BY <1>4, <1>5 DEF LocalMidnight
  <2>2. LocalDate(z, t) * D \in Int
    BY <1>1, <1>5
  <2>. QED
    BY <2>1, <2>2
<1>8. OffsetAt(z, t) = o
  BY <1>2
<1>. QED
  BY <1>5, <1>6, <1>7, <1>8

\* The ranges an overview may be asked for.
Ranges == {"day", "week", "month"}

\* The number of the bar an instant is drawn in; bar 0 begins with date 0.
BarNumber(z, range, t) == ((t + z.first) \div HoursPerDay) \div Grain[range]

\* Instants to a bar.
BarTicks(range) == Grain[range] * HoursPerDay

\* The constants of TimeWindows.
LEMMA GrainTypes ==
  ASSUME NEW range \in Ranges
  PROVE  /\ Grain[range] \in Nat \ {0} /\ HoursPerDay \in Nat \ {0} /\ BarTicks(range) \in Nat \ {0}
         /\ Bars[range] \in Nat \ {0}
         /\ range = "day" => Grain[range] = 1
<1>1. Grain[range] \in Nat \ {0} /\ Bars[range] \in Nat \ {0} /\ (range = "day" => Grain[range] = 1)
  BY WindowAssumption DEF WindowAssumption, Ranges, Grain
<1>2. HoursPerDay \in Nat \ {0}
  BY CalendarAssumption DEF CalendarAssumption
<1>3. \A a, b \in Nat \ {0} : a * b \in Nat \ {0}
  OBVIOUS
<1>. QED
  BY <1>1, <1>2, <1>3 DEF BarTicks

\* Products, as far as they are needed.
LEMMA Products ==
  \A a, b, c \in Int : /\ a * b \in Int /\ (a * b) * c = a * (b * c)
                       /\ (a + b) * c = a * c + b * c /\ (a - b) * c = a * c - b * c
OBVIOUS

\* The date that labels an instant says which bar it is in, and bars begin BarTicks apart.
LEMMA BarNumberIs ==
  ASSUME NEW z, Steady(z), NEW range \in Ranges, NEW now \in Int, NEW t \in Int
  PROVE  /\ BarNumber(z, range, t) \in Int
         /\ BarOf(z, now, range, t) = BarNumber(z, range, t) * Grain[range]
         /\ \A a \in Int : a <= BarNumber(z, range, t) <=> a * BarTicks(range) - z.first <= t
<1>. DEFINE D == HoursPerDay
            G == Grain[range]
            o == z.first
            e == (t + o) \div D
            b == e \div G
<1>1. D \in Nat \ {0} /\ G \in Nat \ {0} /\ D \in Int /\ G \in Int
  BY GrainTypes
<1>2. o \in Int /\ t + o \in Int
  BY DEF Steady
<1>. HIDE DEF D, G, o
<1>3. e \in Int
  BY <1>1, <1>2, Floor
<1>. HIDE DEF e
<1>4. b \in Int /\ e % G \in Int /\ b * G + (e % G) = e
  BY <1>1, <1>3, Floor
<1>5. BarOf(z, now, range, t) = b * G
  <2>1. TodayStart(z, now) \in Int
    <3>1. LocalDate(z, now) \in Int /\ TodayStart(z, now) = LocalDate(z, now) * D - o
      BY SteadyDates DEF TodayStart, D, o
    <3>2. LocalDate(z, now) * D \in Int
      BY <1>1, <3>1, Products
    <3>. QED
      BY <1>2, <3>1, <3>2
  <2>2. OffsetAt(z, TodayStart(z, now)) = o
    BY <2>1, SteadyDates DEF o
  <2>3. BarOf(z, now, range, t) = e - (e % G)
    BY <2>2 DEF BarOf, e, D, G
  <2>4. b * G \in Int
    BY <1>1, <1>4, Products
  <2>. HIDE DEF b
  <2>. QED
    BY <1>3, <1>4, <2>3, <2>4
<1>6. ASSUME NEW a \in Int PROVE a <= b <=> a * (G * D) - o <= t
  <2>1. a <= b <=> a * G <= e
    BY <1>1, <1>3, FloorAtLeast
  <2>2. a * G \in Int
    BY <1>1, Products
  <2>3. a * G <= e <=> (a * G) * D <= t + o
    BY <1>1, <1>2, <2>2, FloorAtLeast DEF e
  <2>4. (a * G) * D = a * (G * D) /\ a * (G * D) \in Int
    BY <1>1, Products
  <2>5. \A x \in Int : x <= t + o <=> x - o <= t
    BY <1>2
  <2>. QED
    BY <2>1, <2>3, <2>4, <2>5
<1>7. BarNumber(z, range, t) = b
  BY DEF BarNumber, b, e, D, G, o
<1>. QED
  BY <1>4, <1>5, <1>6, <1>7 DEF BarTicks, D, G, o

\* The windows begin and end where bars do.
LEMMA WindowsAre ==
  ASSUME NEW z, Steady(z), NEW range \in Ranges, NEW now \in Int,
         NEW k, k = BarNumber(z, range, now)
  PROVE  /\ Resolve(z, now, range).current = Window(k * BarTicks(range) - z.first, now)
         /\ Resolve(z, now, range).sparkline =
              Window((k + 1 - Bars[range]) * BarTicks(range) - z.first,
                     (k + 1) * BarTicks(range) - z.first)
<1>. DEFINE D == HoursPerDay
            G == Grain[range]
            B == Bars[range]
            W == BarTicks(range)
            o == z.first
            d == LocalDate(z, now)
            start == GrainStart(z, now, range)
<1>1. /\ D \in Nat \ {0} /\ G \in Nat \ {0} /\ W \in Int /\ B \in Int /\ D \in Int /\ G \in Int
      /\ W = G * D /\ (range = "day" => G = 1)
  BY GrainTypes DEF BarTicks
<1>2. o \in Int
  BY DEF Steady
<1>3. d \in Int /\ k = d \div G /\ TodayStart(z, now) = d * D - o
  BY SteadyDates DEF BarNumber, TodayStart
<1>4. k \in Int /\ d % G \in Int /\ k * G + (d % G) = d
  <2>. HIDE DEF d, G
  <2>. QED
    BY <1>1, <1>3, Floor
<1>5. d * D \in Int /\ k * W \in Int
  BY <1>1, <1>3, <1>4, Products
<1>6. start = k * W - o
  <2>1. d * D - o \in Int
    BY <1>2, <1>5
  <2>2. LocalDate(z, d * D - o) = d
    <3>1. LocalDate(z, d * D - o) = (d * D - o + o) \div D
      BY <2>1, SteadyDates
    <3>2. d * D - o + o = d * D
      BY <1>2, <1>5
    <3>3. (d * D) \div D = d
      BY <1>1, <1>3, FloorOfMultiple
    <3>. QED
      BY <3>1, <3>2, <3>3
  <2>3. start = AddDate(z, d * D - o, -(d % G))
    BY <1>3, <2>2 DEF GrainStart
  <2>. DEFINE n == -(d % G)
  <2>4. n \in Int /\ d + n = k * G
    <3>1. k * G \in Int
      BY <1>1, <1>4, Products
    <3>. QED
      BY <1>3, <1>4, <3>1
  <2>. HIDE DEF n
  <2>5. start = (d * D - o) + n * D
    BY <2>1, <2>3, <2>4, SteadyDates DEF n
  <2>6. d * D + n * D = (d + n) * D /\ n * D \in Int
    BY <1>1, <1>3, <2>4, Products
  <2>7. (k * G) * D = k * W
    BY <1>1, <1>4, Products
  <2>8. d * D + n * D = k * W
    BY <2>4, <2>6, <2>7
  <2>. HIDE DEF start, d, G, D, W
  <2>. QED
    BY <1>2, <1>5, <2>5, <2>6, <2>8
<1>7. ASSUME NEW n \in Int PROVE Shift(z, start, range, n) = (k + n) * W - o
  <2>1. start \in Int /\ n * G \in Int /\ n * W \in Int /\ n * D \in Int
    BY <1>1, <1>2, <1>5, <1>6, Products
  <2>2. Shift(z, start, range, n) = start + n * W
    <3>1. CASE range = "day"
      <4>1. W = D
        BY <1>1, <3>1
      <4>. QED
        BY <3>1, <4>1 DEF Shift
    <3>2. CASE range # "day"
      <4>1. Shift(z, start, range, n) = AddDate(z, start, n * G)
        BY <3>2 DEF Shift
      <4>2. AddDate(z, start, n * G) = start + (n * G) * D
        BY <2>1, SteadyDates
      <4>3. (n * G) * D = n * W
        BY <1>1, Products
      <4>. QED
        BY <4>1, <4>2, <4>3
    <3>. QED
      BY <3>1, <3>2
  <2>3. (k + n) * W = k * W + n * W
    BY <1>1, <1>4, Products
  <2>. HIDE DEF start, W
  <2>. QED
    BY <1>2, <1>5, <1>6, <2>1, <2>2, <2>3
<1>8. Resolve(z, now, range) = WindowsFrom(z, start, now, range)
  BY DEF Resolve
<1>. HIDE DEF start, W, B, o
<1>9. Resolve(z, now, range).current = Window(k * W - o, now)
  BY <1>6, <1>8 DEF WindowsFrom
<1>10. Resolve(z, now, range).sparkline =
         Window(Shift(z, start, range, 1 - B), Shift(z, start, range, 1))
  BY <1>8 DEF WindowsFrom, B
<1>11. Shift(z, start, range, 1 - B) = (k + (1 - B)) * W - o /\ k + (1 - B) = k + 1 - B
  BY <1>1, <1>4, <1>7
<1>12. Shift(z, start, range, 1) = (k + 1) * W - o
  BY <1>7
<1>. QED
  BY <1>9, <1>10, <1>11, <1>12 DEF W, B, o

\* Where a bar begins.
BarStart(z, range, s) == s * BarTicks(range) - z.first

\* The dates drawn are the first ones of bars that follow each other.
LEMMA DatesAre ==
  ASSUME NEW z, Steady(z), NEW range \in Ranges, NEW count \in Nat, NEW s \in Int,
         NEW start, start = BarStart(z, range, s),
         NEW i \in 1 .. count
  PROVE  BarDates(z, start, range, count)[i] = (s + (i - 1)) * Grain[range]
<1>. DEFINE D == HoursPerDay
            G == Grain[range]
            W == BarTicks(range)
            o == z.first
            Is(f) == f = [j \in 1 .. count |->
                            IF j = 1 THEN start ELSE AddDate(z, f[j - 1], Grain[range])]
            f == CHOOSE f : Is(f)
            place(j) == (s + (j - 1)) * W - o
<1>1. /\ D \in Nat \ {0} /\ G \in Nat \ {0} /\ W \in Int /\ D \in Int /\ G \in Int /\ W = G * D
  BY GrainTypes DEF BarTicks
<1>2. o \in Int
  BY DEF Steady
<1>3. \A j \in Int : /\ place(j) \in Int
                     /\ place(j) = IF j = 1 THEN start ELSE AddDate(z, place(j - 1), G)
  <2>. SUFFICES ASSUME NEW j \in Int
                PROVE  /\ place(j) \in Int
                       /\ place(j) = IF j = 1 THEN start ELSE AddDate(z, place(j - 1), G)
    OBVIOUS
  <2>1. (s + (j - 1)) * W \in Int /\ (s + (j - 1 - 1)) * W \in Int
    BY <1>1, Products
  <2>2. place(j) \in Int /\ place(j - 1) \in Int
    BY <1>2, <2>1
  <2>3. CASE j = 1
    <3>1. s + (j - 1) = s
      BY <2>3
    <3>. QED
      BY <2>2, <2>3, <3>1 DEF BarStart
  <2>4. CASE j # 1
    <3>1. AddDate(z, place(j - 1), G) = place(j - 1) + G * D
      BY <1>1, <2>2, SteadyDates
    <3>2. (s + (j - 1 - 1)) * W + 1 * W = ((s + (j - 1 - 1)) + 1) * W /\ 1 * W = W
      BY <1>1, Products
    <3>3. (s + (j - 1 - 1)) + 1 = s + (j - 1)
      OBVIOUS
    <3>4. (s + (j - 1 - 1)) * W + W = (s + (j - 1)) * W
      BY <3>2, <3>3
    <3>5. place(j - 1) + W = place(j)
      <4>. HIDE DEF W, o
      <4>. QED
        BY <1>1, <1>2, <2>1, <3>4
    <3>. QED
      BY <1>1, <2>2, <2>4, <3>1, <3>5
  <2>. QED
    BY <2>3, <2>4
<1>. HIDE DEF place
<1>4. Is(f)
  <2>. DEFINE g == [j \in 1 .. count |-> place(j)]
  <2>1. \A j \in 1 .. count : j # 1 => g[j - 1] = place(j - 1)
    OBVIOUS
  <2>2. \A j \in 1 .. count : place(j) = IF j = 1 THEN start ELSE AddDate(z, g[j - 1], G)
    BY <1>3, <2>1
  <2>3. Is(g)
    BY <2>2
  <2>. HIDE DEF Is
  <2>. QED
    BY <2>3
<1>5. BarDates(z, start, range, count) = [j \in 1 .. count |-> LocalDate(z, f[j])]
  BY DEF BarDates
<1>. DEFINE Bad == {j \in 1 .. count : f[j] # place(j)}
<1>6. \A j \in 1 .. count : f[j] = IF j = 1 THEN start ELSE AddDate(z, f[j - 1], G)
  BY <1>4
<1>. HIDE DEF f
<1>7. Bad = {}
  <2>1. SUFFICES ASSUME Bad # {} PROVE FALSE
    OBVIOUS
  <2>2. PICK j \in Bad : \A k \in Bad : j <= k
    <3>1. Bad \subseteq Nat
      OBVIOUS
    <3>. HIDE DEF Bad
    <3>. QED
      BY <2>1, <3>1, LeastOf
  <2>3. j \in 1 .. count /\ f[j] # place(j) /\ j \in Int
    BY <2>2
  <2>4. CASE j = 1
    BY <1>3, <1>6, <2>3, <2>4
  <2>5. CASE j # 1
    <3>1. j - 1 \in 1 .. count /\ ~(j <= j - 1)
      BY <2>3, <2>5
    <3>2. f[j - 1] = place(j - 1)
      BY <2>2, <3>1
    <3>. QED
      BY <1>3, <1>6, <2>3, <2>5, <3>2
  <2>. QED
    BY <2>4, <2>5
<1>8. f[i] = place(i) /\ i \in Int
  BY <1>7
<1>9. LocalDate(z, place(i)) = (place(i) + o) \div D
  BY <1>3, <1>8, SteadyDates
<1>10. place(i) + o = ((s + (i - 1)) * G) * D
  <2>1. (s + (i - 1)) * W \in Int /\ ((s + (i - 1)) * G) * D = (s + (i - 1)) * W
    BY <1>1, <1>8, Products
  <2>2. place(i) = (s + (i - 1)) * W - o
    BY DEF place
  <2>. HIDE DEF W, o
  <2>. QED
    BY <1>2, <2>1, <2>2
<1>11. (s + (i - 1)) * G \in Int
  BY <1>1, <1>8, Products
<1>12. (((s + (i - 1)) * G) * D) \div D = (s + (i - 1)) * G
  BY <1>1, <1>11, FloorOfMultiple
<1>. QED
  BY <1>5, <1>8, <1>9, <1>10, <1>12

\* Every instant of the sparkline has the date of one of its bars, and of one only; the
\* current window is in the last bar.
LEMMA BarsShare ==
  ASSUME NEW z, Steady(z), NEW range \in Ranges, NEW now \in Int,
         NEW w, w = Resolve(z, now, range),
         NEW dates, dates = BarDates(z, w.sparkline.start, range, Bars[range])
  PROVE  /\ Bars[range] \in Nat \ {0}
         /\ w.sparkline.start \in Int /\ w.sparkline.end \in Int /\ w.current.start \in Int
         /\ w.sparkline.start <= w.current.start /\ w.current.end = now /\ now < w.sparkline.end
         /\ \A t \in Int : w.sparkline.start <= t /\ t < w.sparkline.end =>
              \E i \in 1 .. Bars[range] :
                 \A j \in 1 .. Bars[range] : BarOf(z, now, range, t) = dates[j] <=> j = i
         /\ \A t \in Int : w.current.start <= t /\ t < w.sparkline.end =>
              BarOf(z, now, range, t) = dates[Bars[range]]
<1>. DEFINE G == Grain[range]
            B == Bars[range]
            W == BarTicks(range)
            o == z.first
            k == BarNumber(z, range, now)
            bar(t) == BarNumber(z, range, t)
            first == k + 1 - B
<1>1. G \in Nat \ {0} /\ G \in Int /\ W \in Nat \ {0} /\ W \in Int /\ B \in Nat \ {0} /\ B \in Int
  BY GrainTypes
<1>2. o \in Int
  BY DEF Steady
<1>3. \A t \in Int : /\ bar(t) \in Int
                     /\ BarOf(z, now, range, t) = bar(t) * G
                     /\ \A a \in Int : a <= bar(t) <=> a * W - o <= t
  BY BarNumberIs
<1>4. /\ w.sparkline.start = first * W - o /\ w.sparkline.end = (k + 1) * W - o
      /\ w.current.start = k * W - o /\ w.current.end = now
  <2>1. /\ w.current = Window(k * W - o, now)
        /\ w.sparkline = Window(first * W - o, (k + 1) * W - o)
    BY WindowsAre
  <2>. HIDE DEF k, W, o, B
  <2>. QED
    BY <2>1 DEF Window
<1>. HIDE DEF bar, k
<1>5. k \in Int /\ k = bar(now)
  BY <1>3 DEF k, bar
<1>. HIDE DEF G, B, W, o
<1>6. first \in Int /\ k + 1 \in Int /\ first <= k
  BY <1>1, <1>5
<1>7. first * W \in Int /\ (k + 1) * W \in Int /\ k * W \in Int
  BY <1>1, <1>5, <1>6, Products
<1>8. ASSUME NEW i \in 1 .. B PROVE dates[i] = (first + (i - 1)) * G
  <2>1. w.sparkline.start = first * BarTicks(range) - z.first /\ i \in 1 .. Bars[range]
        /\ Bars[range] \in Nat
    BY <1>1, <1>4 DEF B, W, o
  <2>. DEFINE start == w.sparkline.start
              count == Bars[range]
  <2>. HIDE DEF first, start, count
  <2>2. /\ first \in Int /\ count \in Nat /\ i \in 1 .. count
        /\ start = BarStart(z, range, first)
    BY <1>6, <2>1 DEF start, count, BarStart
  <2>3. BarDates(z, start, range, count)[i] = (first + (i - 1)) * Grain[range]
    BY <2>2, DatesAre
  <2>. QED
    BY <2>3 DEF G, start, count
<1>9. first * W <= k * W
  <2>1. \A a, b, c \in Int : c >= 0 /\ a <= b => a * c <= b * c
    OBVIOUS
  <2>. QED
    BY <1>1, <1>5, <1>6, <2>1
<1>10. now < (k + 1) * W - o
  <2>1. ~(k + 1 <= bar(now))
    BY <1>5
  <2>2. ~((k + 1) * W - o <= now)
    BY <1>3, <1>6, <2>1
  <2>. QED
    BY <1>2, <1>7, <2>2
<1>11. ASSUME NEW t \in Int, first * W - o <= t, t < (k + 1) * W - o
       PROVE  bar(t) \in Int /\ first <= bar(t) /\ bar(t) <= k
  <2>1. first <= bar(t)
    BY <1>3, <1>6, <1>11
  <2>2. ~((k + 1) * W - o <= t)
    BY <1>2, <1>7, <1>11
  <2>3. ~(k + 1 <= bar(t)) /\ bar(t) \in Int
    BY <1>3, <1>6, <2>2
  <2>. QED
    BY <1>5, <2>1, <2>3
<1>12. \A a, b \in Int : a * G = b * G => a = b
  <2>1. \A c \in Nat \ {0}, a, b \in Int : a * c = b * c => a = b
    OBVIOUS
  <2>. QED
    BY <1>1, <2>1
<1>13. ASSUME NEW t \in Int, first * W - o <= t, t < (k + 1) * W - o
       PROVE  \E i \in 1 .. B : \A j \in 1 .. B : BarOf(z, now, range, t) = dates[j] <=> j = i
  <2>. DEFINE i == bar(t) - first + 1
  <2>1. bar(t) \in Int /\ first <= bar(t) /\ bar(t) <= k /\ BarOf(z, now, range, t) = bar(t) * G
    BY <1>3, <1>11, <1>13
  <2>2. i \in 1 .. B
    BY <1>1, <1>5, <2>1
  <2>3. ASSUME NEW j \in 1 .. B PROVE bar(t) * G = (first + (j - 1)) * G <=> j = i
    <3>1. first + (j - 1) \in Int
      BY <1>6
    <3>2. bar(t) * G = (first + (j - 1)) * G <=> bar(t) = first + (j - 1)
      BY <1>12, <2>1, <3>1
    <3>3. bar(t) = first + (j - 1) <=> j = i
      BY <1>6, <2>1
    <3>. QED
      BY <3>2, <3>3
  <2>. QED
    BY <1>8, <2>1, <2>2, <2>3
<1>14. ASSUME NEW t \in Int, k * W - o <= t, t < (k + 1) * W - o
       PROVE  BarOf(z, now, range, t) = dates[B]
  <2>1. first * W - o <= t
    BY <1>2, <1>7, <1>9, <1>14
  <2>2. bar(t) \in Int /\ bar(t) <= k /\ k <= bar(t)
    BY <1>3, <1>5, <1>11, <1>14, <2>1
  <2>3. bar(t) = k /\ first + (B - 1) = k /\ B \in 1 .. B
    BY <1>1, <1>5, <2>2
  <2>. QED
    BY <1>3, <1>8, <2>3
<1>. QED
  BY <1>1, <1>2, <1>4, <1>7, <1>9, <1>10, <1>13, <1>14 DEF B

\* Hours begin where they say, and in order.
LEMMA HourFacts ==
  /\ \A t \in Int : /\ TheHour(t) \in Int /\ TheHour(t) <= t
                    /\ t <= TheHour(t + HourTicks - 1)
  /\ \A t, u \in Int : t <= u => TheHour(t) <= TheHour(u)
<1>1. HourTicks \in Nat \ {0}
  BY SummaryAssumption DEF SummaryAssumption
<1>2. \A h \in Nat \ {0}, t \in Int : /\ (t \div h) * h \in Int
                                      /\ (t \div h) * h <= t /\ t < (t \div h) * h + h
  OBVIOUS
<1>3. \A t \in Int : TheHour(t) \in Int /\ TheHour(t) <= t /\ t < TheHour(t) + HourTicks
  BY <1>1, <1>2 DEF TheHour
<1>4. ASSUME NEW t \in Int PROVE t <= TheHour(t + HourTicks - 1)
  <2>1. t + HourTicks - 1 \in Int
    BY <1>1
  <2>2. /\ TheHour(t + HourTicks - 1) \in Int
        /\ t + HourTicks - 1 < TheHour(t + HourTicks - 1) + HourTicks
    BY <1>3, <2>1
  <2>. QED
    BY <1>1, <2>2
<1>5. ASSUME NEW t \in Int, NEW u \in Int, t <= u PROVE TheHour(t) <= TheHour(u)
  <2>1. t \div HourTicks <= u \div HourTicks
    <3>1. \A h \in Nat \ {0}, x, y \in Int : x <= y => x \div h <= y \div h
      OBVIOUS
    <3>. QED
      BY <1>1, <1>5, <3>1
  <2>2. t \div HourTicks \in Int /\ u \div HourTicks \in Int
    BY <1>1, Floor
  <2>3. \A a, b, c \in Int : c >= 0 /\ a <= b => a * c <= b * c
    OBVIOUS
  <2>. QED
    BY <1>1, <2>1, <2>2, <2>3 DEF TheHour
<1>. QED
  BY <1>3, <1>4, <1>5

\* Archived hours of a window lie in it, and a window that begins earlier has them too.
LEMMA WithinIs ==
  ASSUME NEW F, \A f \in F : f.ts \in Int, NEW w, w.start \in Int, w.end \in Int
  PROVE  /\ Within(F, w) \subseteq F
         /\ \A f \in Within(F, w) : w.start <= f.ts /\ f.ts < w.end
<1>1. /\ TheHour(w.end) \in Int /\ TheHour(w.end) <= w.end
      /\ w.start <= TheHour(w.start + HourTicks - 1)
  BY HourFacts
<1>2. TheHour(w.start + HourTicks - 1) \in Int
  <2>1. w.start + HourTicks - 1 \in Int
    BY SummaryAssumption DEF SummaryAssumption
  <2>. QED
    BY <2>1, HourFacts
<1>3. ASSUME NEW f \in Within(F, w) PROVE f \in F /\ w.start <= f.ts /\ f.ts < w.end
  <2>1. f \in F /\ \/ /\ TheHour(w.start + HourTicks - 1) <= f.ts
                      /\ f.ts < TheHour(w.end)
                   \/ /\ w.start <= f.ts
                      /\ f.ts < w.end
    BY DEF Within, ArchiveHours, Window
  <2>. QED
    BY <1>1, <1>2, <2>1
<1>. QED
  BY <1>3

\* A window in another one has no hour that the other one has not.
LEMMA WithinGrows ==
  ASSUME NEW F, \A f \in F : f.ts \in Int,
         NEW v, v.start \in Int, v.end \in Int, NEW w, w.start \in Int, w.end \in Int,
         w.start <= v.start, v.end <= w.end
  PROVE  Within(F, v) \subseteq Within(F, w)
<1>1. \A u \in {v, w} : TheHour(u.start + HourTicks - 1) \in Int /\ TheHour(u.end) \in Int
  <2>1. v.start + HourTicks - 1 \in Int /\ w.start + HourTicks - 1 \in Int
    BY SummaryAssumption DEF SummaryAssumption
  <2>. QED
    BY <2>1, HourFacts
<1>2. /\ TheHour(w.start + HourTicks - 1) <= TheHour(v.start + HourTicks - 1)
      /\ TheHour(v.end) <= TheHour(w.end)
  <2>1. /\ v.start + HourTicks - 1 \in Int /\ w.start + HourTicks - 1 \in Int
        /\ w.start + HourTicks - 1 <= v.start + HourTicks - 1
    BY SummaryAssumption DEF SummaryAssumption
  <2>. QED
    BY <2>1, HourFacts
<1>3. ASSUME NEW f \in Within(F, v) PROVE f \in Within(F, w)
  <2>1. CASE f.source = "archive"
    <3>1. /\ f \in F /\ TheHour(v.start + HourTicks - 1) <= f.ts
          /\ f.ts < TheHour(v.end)
      BY <2>1 DEF Within, ArchiveHours, Window
    <3>2. TheHour(w.start + HourTicks - 1) <= f.ts /\ f.ts < TheHour(w.end)
      BY <1>1, <1>2, <3>1
    <3>. QED
      BY <2>1, <3>1, <3>2 DEF Within, ArchiveHours, Window
  <2>2. CASE f.source # "archive"
    <3>1. f \in F /\ v.start <= f.ts /\ f.ts < v.end
      BY <2>2 DEF Within
    <3>2. w.start <= f.ts /\ f.ts < w.end
      BY <3>1
    <3>. QED
      BY <2>2, <3>1, <3>2 DEF Within
  <2>. QED
    BY <2>1, <2>2
<1>. QED
  BY <1>3

\* A chart of count bars, by date.
OfBar(F, now, range, date) == {f \in F : BarOf(Zone, now, range, f.ts) = date}

\* bars is the chart of the facts F whose i-th bar is labelled dates[i].
Charted(bars, F, now, range, dates, count) ==
  /\ count \in Nat \ {0}
  /\ bars = [i \in 1 .. count |-> Sums(OfBar(F, now, range, dates[i]), Drawn)]

\* What a bar shows, as a sum over the numbers of all facts.
LEMMA BarIs ==
  ASSUME NEW N, Adding(N), NEW F, Amounted(F, N), NEW T, T \subseteq F, NEW m \in Drawn
  PROVE  /\ Sum(T, m) = SumOf(MeasureOf(F, m), T)
         /\ Sum(T, m) \in N
         /\ Numbers(MeasureOf(F, m)) /\ DOMAIN MeasureOf(F, m) = F
<1>. DEFINE g == MeasureOf(F, m)
            h == MeasureOf(T, m)
            b == [f \in T |-> f]
<1>1. IsFiniteSet(F) /\ IsFiniteSet(T)
  BY FS_Subset DEF Amounted
<1>2. DOMAIN g = F /\ DOMAIN h = T /\ (\A f \in F : g[f] \in N) /\ (\A f \in T : h[f] = g[f])
  BY DEF MeasureOf, Amounted
<1>3. Sum(T, m) = SumOf(h, T)
  BY <1>1, TotalMeasure
<1>. HIDE DEF g, h
<1>4. Numbers(g) /\ Numbers(h)
  BY <1>1, <1>2 DEF Numbers, Adding
<1>5. SumOf(g, Image(b, T)) = SumOf(h, T)
  <2>1. Renames(b, h, g, T)
    BY <1>2, <1>4 DEF Renames
  <2>. HIDE DEF b
  <2>. QED
    BY <2>1, SumRenamed
<1>6. Image(b, T) = T
  BY DEF Image
<1>7. SumOf(g, T) \in N
  BY <1>1, <1>2, SumIn
<1>. QED
  BY <1>2, <1>3, <1>4, <1>5, <1>6, <1>7 DEF g

\* Where each fact has the date of exactly one bar, nothing is lost and nothing drawn twice.
LEMMA ChartTiles ==
  ASSUME NEW F, Amounted(F, Int), NEW now, NEW range, NEW dates, NEW count, NEW bars,
         Charted(bars, F, now, range, dates, count),
         \A f \in F : \E i \in 1 .. count :
            \A j \in 1 .. count : BarOf(Zone, now, range, f.ts) = dates[j] <=> j = i,
         NEW m \in Drawn
  PROVE  SumOf(BarsOf(bars, 1 .. count, m), 1 .. count) = Sum(F, m)
<1>. DEFINE K == 1 .. count
            g == MeasureOf(F, m)
            q == BarsOf(bars, K, m)
            key == [f \in F |-> CHOOSE i \in K : BarOf(Zone, now, range, f.ts) = dates[i]]
<1>1. \A f \in F : /\ key[f] \in K
                  /\ \A j \in K : BarOf(Zone, now, range, f.ts) = dates[j] <=> key[f] = j
  OBVIOUS
<1>2. \A i \in K : {f \in F : key[f] = i} = OfBar(F, now, range, dates[i])
  BY <1>1 DEF OfBar
<1>3. DOMAIN key = F
  OBVIOUS
<1>. HIDE DEF key
<1>4. ASSUME NEW T, T \subseteq F
      PROVE  /\ Sum(T, m) = SumOf(g, T) /\ Sum(T, m) \in Int
             /\ Numbers(g) /\ DOMAIN g = F
  BY <1>4, BarIs DEF Adding
<1>5. \A i \in K : OfBar(F, now, range, dates[i]) \subseteq F
  BY DEF OfBar
<1>6. DOMAIN q = K /\ \A i \in K : q[i] = Sum(OfBar(F, now, range, dates[i]), m)
  BY DEF BarsOf, Charted, Sums
<1>7. IsFiniteSet(K)
  BY FS_Interval DEF Charted
<1>. HIDE DEF g, q, K
<1>8. /\ \A i \in K : q[i] = SumOf(g, {f \in F : key[f] = i}) /\ q[i] \in Int
      /\ Numbers(g) /\ DOMAIN g = F
  BY <1>2, <1>4, <1>5, <1>6
<1>9. Numbers(q)
  BY <1>6, <1>7, <1>8 DEF Numbers
<1>10. Sorts(key, g, q, F, K)
  BY <1>1, <1>3, <1>6, <1>8, <1>9 DEF Sorts
<1>11. SumOf(q, K) = SumOf(g, F)
  BY <1>10, SumSorted
<1>. QED
  BY <1>4, <1>11 DEF q, K, g

\* A part of what there is, where nothing is negative.
LEMMA PartIsLess ==
  ASSUME NEW F, Amounted(F, Nat), NEW S, S \subseteq F, NEW T, T \subseteq S, NEW m \in Drawn
  PROVE  Sum(T, m) <= Sum(S, m)
<1>. DEFINE g == MeasureOf(F, m)
<1>1. T \subseteq F
  OBVIOUS
<1>2. /\ Sum(T, m) = SumOf(g, T) /\ Sum(S, m) = SumOf(g, S)
      /\ Numbers(g) /\ DOMAIN g = F
  BY <1>1, BarIs DEF Adding
<1>3. \A f \in S : g[f] >= 0
  BY DEF MeasureOf, Amounted
<1>. HIDE DEF g
<1>4. S \in SUBSET DOMAIN g /\ T \in SUBSET S
  BY <1>2
<1>. QED
  BY <1>2, <1>3, <1>4, SumOfPart

\* The times requests are computed with.
AskedAt == at \in [Handlers -> Int]

\* They are times the clock has shown.
LEMMA AskedAtHolds == Spec => []AskedAt
<1>1. Init => AskedAt
  BY DEF Init, AskedAt
<1>2. IInv /\ AskedAt /\ [Next]_vars => AskedAt'
  <2>. SUFFICES ASSUME IInv, AskedAt, [Next]_vars PROVE AskedAt'
    OBVIOUS
  <2>1. Now \in Int
    <3>1. \A i \in DOMAIN Times : Times[i] \in Int
      <4>1. Times \in Seq(Int)
        BY DashboardAssumption DEF DashboardAssumption
      <4>. QED
        BY <4>1
    <3>. QED
      BY <3>1 DEF IInv, ClockOK, Now
  <2>2. ASSUME NEW h \in Handlers, Ask(h) PROVE AskedAt'
    BY <2>1, <2>2 DEF Ask, AskedAt
  <2>3. ASSUME NEW h \in Handlers, Begin(h) \/ ReadSummaries(h) \/ ReadRows(h) PROVE AskedAt'
    BY <2>3 DEF Begin, ReadSummaries, ReadRows, AskedAt
  <2>4. ASSUME NEW h \in Handlers, Reply(h) \/ QueryFails(h) \/ HangUp(h) PROVE AskedAt'
    BY <2>4 DEF Reply, QueryFails, HangUp, Leave, AskedAt
  <2>5. CASE Flush \/ Tick \/ Lock \/ BeginDay \/ EndDay \/ UNCHANGED vars
    BY <2>5 DEF Flush, Tick, Lock, BeginDay, EndDay, vars, requestVars, AskedAt
  <2>. QED
    BY <2>2, <2>3, <2>4, <2>5 DEF Next
<1>. QED
  BY <1>1, <1>2, ViewsHold, PTL DEF Spec

\* All of it, for an overview of a view of the rows there are.
LEMMA OverviewTiles ==
  ASSUME Steady(Zone), NothingNegative,
         NEW v, v.raw \in SomeRows, v.archived \in SomeRows,
         NEW client, NEW range \in Ranges, NEW now \in Int
  PROVE  Tiled(Overview(Found(v), client, range, now),
               Within(Served(Found(v), client), Resolve(Zone, now, range).sparkline))
<1>. DEFINE F == Served(Found(v), client)
            w == Resolve(Zone, now, range)
            drawn == Within(F, w.sparkline)
            shown == Within(F, w.current)
            B == Bars[range]
            dates == BarDates(Zone, w.sparkline.start, range, B)
            answer == Overview(Found(v), client, range, now)
<1>1. Amounted(F, Nat) /\ Amounted(F, Int)
  <2>1. Amounted(Found(v).facts, Nat) /\ Amounted(Found(v).facts, Int)
    BY FoundFacts DEF SomeRows
  <2>2. F \subseteq Found(v).facts
    BY DEF Served
  <2>. HIDE DEF F
  <2>. QED
    BY <2>1, <2>2, FS_Subset DEF Amounted
<1>2. /\ answer.bars = [i \in 1 .. B |-> Sums(OfBar(drawn, now, range, dates[i]), Drawn)]
      /\ \A m \in Drawn : answer.current[m] = Sum(shown, m)
  <2>1. answer.bars = Chart(drawn, now, range, w.sparkline.start, B, {"total", "cost", "requests"})
    BY DEF Overview, OverviewOf
  <2>2. answer.bars = [i \in 1 .. B |-> Sums(OfBar(drawn, now, range, dates[i]), Drawn)]
    BY <2>1 DEF Chart, OfBar, Drawn
  <2>3. answer.current =
          Sums(shown, {"in", "out", "total", "cost", "read", "creation", "denom", "requests"})
    BY DEF Overview, OverviewOf
  <2>. HIDE DEF answer, shown
  <2>4. \A m \in Drawn : answer.current[m] = Sum(shown, m)
    BY <2>3 DEF Sums, Drawn
  <2>. QED
    BY <2>2, <2>4
<1>. HIDE DEF F, w, dates, answer
<1>3. /\ B \in Nat \ {0}
      /\ w.sparkline.start \in Int /\ w.sparkline.end \in Int /\ w.current.start \in Int
      /\ w.sparkline.start <= w.current.start /\ w.current.end = now /\ now < w.sparkline.end
      /\ \A t \in Int : w.sparkline.start <= t /\ t < w.sparkline.end =>
           \E i \in 1 .. B : \A j \in 1 .. B : BarOf(Zone, now, range, t) = dates[j] <=> j = i
      /\ \A t \in Int : w.current.start <= t /\ t < w.sparkline.end =>
           BarOf(Zone, now, range, t) = dates[B]
  BY BarsShare DEF w, dates
<1>. HIDE DEF B
<1>4. \A f \in F : f.ts \in Int
  BY <1>1 DEF Amounted
<1>5. drawn \subseteq F /\ \A f \in drawn : w.sparkline.start <= f.ts /\ f.ts < w.sparkline.end
  BY <1>3, <1>4, WithinIs
<1>6. shown \subseteq drawn /\ \A f \in shown : w.current.start <= f.ts /\ f.ts < now
  <2>1. w.current.end \in Int /\ w.current.end <= w.sparkline.end
    BY <1>3
  <2>2. shown \subseteq drawn
    BY <1>3, <1>4, <2>1, WithinGrows
  <2>3. \A f \in shown : w.current.start <= f.ts /\ f.ts < w.current.end
    BY <1>3, <1>4, <2>1, WithinIs
  <2>. QED
    BY <1>3, <2>2, <2>3
<1>. HIDE DEF drawn, shown
<1>7. Amounted(drawn, Int)
  BY <1>1, <1>5, FS_Subset DEF Amounted
<1>8. Charted(answer.bars, drawn, now, range, dates, B)
  BY <1>2, <1>3 DEF Charted
<1>9. \A f \in drawn : \E i \in 1 .. B : \A j \in 1 .. B :
         BarOf(Zone, now, range, f.ts) = dates[j] <=> j = i
  BY <1>3, <1>4, <1>5
<1>10. DOMAIN answer.bars = 1 .. B /\ Len(answer.bars) = B
  BY <1>2, <1>3
<1>11. ASSUME NEW m \in Drawn
       PROVE  Total(LAMBDA i : answer.bars[i][m], DOMAIN answer.bars) = Sum(drawn, m)
  <2>1. SumOf(BarsOf(answer.bars, 1 .. B, m), 1 .. B) = Sum(drawn, m)
    BY <1>7, <1>8, <1>9, ChartTiles
  <2>2. IsFiniteSet(1 .. B)
    BY <1>3, FS_Interval
  <2>3. Total(LAMBDA i : answer.bars[i][m], 1 .. B) = SumOf(BarsOf(answer.bars, 1 .. B, m), 1 .. B)
    BY <2>2, TotalBars
  <2>. QED
    BY <1>10, <2>1, <2>3
<1>12. ASSUME NEW m \in Drawn
       PROVE  answer.bars[Len(answer.bars)][m] >= answer.current[m]
  <2>. DEFINE last == OfBar(drawn, now, range, dates[B])
  <2>1. answer.bars[B][m] = Sum(last, m)
    BY <1>2, <1>3 DEF Sums
  <2>2. shown \subseteq last
    <3>1. \A f \in shown : /\ f \in drawn /\ f.ts \in Int
                           /\ w.current.start <= f.ts /\ f.ts < w.sparkline.end
      BY <1>3, <1>4, <1>5, <1>6
    <3>. QED
      BY <1>3, <3>1 DEF OfBar
  <2>3. last \subseteq F
    BY <1>5 DEF OfBar
  <2>. HIDE DEF last
  <2>4. Sum(shown, m) <= Sum(last, m)
    BY <1>1, <2>2, <2>3, PartIsLess
  <2>5. Sum(shown, m) \in Int /\ Sum(last, m) \in Int
    BY <1>1, <2>2, <2>3, BarIs DEF Adding
  <2>6. Sum(last, m) >= Sum(shown, m)
    BY <2>4, <2>5
  <2>. QED
    BY <1>2, <1>10, <2>1, <2>6
<1>13. Tiled(answer, drawn)
  BY <1>11, <1>12 DEF Tiled, Drawn
<1>. QED
  BY <1>13 DEF answer, drawn, F, w

\* In a zone whose clocks are not changed, and where no amount is negative: the bars of an
\* overview share out all that its sparkline window has, each fact to one bar, and the last bar
\* has what the number beside it has, at least.
THEOREM BarsTileHolds ==
  ASSUME Steady(Zone), NothingNegative
  PROVE  Spec => []BarsTile
<1>1. ViewsOK /\ AskedAt => BarsTile
  <2>. SUFFICES ASSUME ViewsOK, AskedAt, NEW h \in Handlers, pc[h] = "answer",
                       Request(h).of = "snapshot"
                PROVE  LET d == Found(got[h]) r == Request(h)
                       IN  Tiled(Overview(d, r.client, r.range, at[h]),
                                 Within(Served(d, r.client),
                                        Resolve(Zone, at[h], r.range).sparkline))
    BY DEF BarsTile
  <2>1. got[h].raw \in SomeRows /\ got[h].archived \in SomeRows /\ ask[h] \in AskedOf[h]
    BY DEF ViewsOK, Sees
  <2>2. Request(h).range \in Ranges
    <3>1. ask[h] \in DOMAIN Asks
      BY <2>1, DataFacts
    <3>2. \A a \in DOMAIN Asks : Asks[a].of = "snapshot" => Asks[a].range \in Ranges
      BY DashboardAssumption DEF DashboardAssumption, Ranges
    <3>. QED
      BY <3>1, <3>2 DEF Request
  <2>3. at[h] \in Int
    BY DEF AskedAt
  <2>. QED
    BY <2>1, <2>2, <2>3, OverviewTiles
<1>. QED
  BY <1>1, ViewsHold, AskedAtHolds, PTL
=============================================================================
