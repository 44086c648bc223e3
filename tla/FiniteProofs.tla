---------------------------- MODULE FiniteProofs ----------------------------
(***************************************************************************)
(* Finite sets.  Least and greatest elements: what Min and Max of          *)
(* FiniteSetsExt, and the CHOOSE of a newest or an earliest row, return.   *)
(* Sums: the CHOOSE-recursion that MapThenSumSet is made of adds up every  *)
(* element once, in whatever order, however they are named or sorted.      *)
(*                                                                         *)
(* Neither needs an induction rule that takes a predicate: a least counter-*)
(* example does, of the natural numbers (LeastOf) or of the subsets of a   *)
(* finite set (MinimalBad).                                                *)
(***************************************************************************)
EXTENDS Integers, FiniteSets, FiniteSetsExt, FiniteSetTheorems, WellFoundedInduction, TLAPS

LEMMA NatWellFounded ==
  \E R : /\ IsWellFoundedOn(R, Nat)
         /\ \A m, n \in Nat : <<m, n>> \in R <=> m < n
<1>1. \A m, n \in Nat : <<m, n>> \in OpToRel(<, Nat) <=> m < n
  BY DEF OpToRel
<1>2. IsWellFoundedOn(OpToRel(<, Nat), Nat)
  BY NatLessThanWellFounded
<1>. QED
  BY <1>1, <1>2

\* A set of natural numbers has a least element.
LEMMA LeastOf ==
  ASSUME NEW S, S \subseteq Nat, S # {}
  PROVE  \E n \in S : \A m \in S : n <= m
<1>1. PICK R : /\ IsWellFoundedOn(R, Nat)
               /\ \A m, n \in Nat : <<m, n>> \in R <=> m < n
  BY NatWellFounded
<1>2. PICK n \in S : \A m \in S : ~ (<<m, n>> \in R)
  <2>1. IsWellFoundedOn(R, Nat) => \E x \in S : \A y \in S : ~ (<<y, x>> \in R)
    BY WFMin, Zenon
  <2>. QED
    BY <1>1, <2>1
<1>3. \A m \in S : ~(m < n) /\ m \in Nat /\ n \in Nat
  BY <1>1, <1>2
<1>4. \A a, c \in Nat : ~(c < a) => a <= c
  OBVIOUS
<1>. QED
  BY <1>3, <1>4

\* A finite set that an order compares has a greatest element.
LEMMA GreatestOfFinite ==
  ASSUME NEW S, IsFiniteSet(S), S # {}, NEW R,
         \A x, y \in S : <<x, y>> \in R \/ <<y, x>> \in R,
         \A x, y, z \in S : <<x, y>> \in R /\ <<y, z>> \in R => <<x, z>> \in R
  PROVE  \E m \in S : \A x \in S : <<x, m>> \in R
<1>. DEFINE Top(T) == \E m \in T : \A x \in T : <<x, m>> \in R
            Bad == {n \in Nat : \E T \in SUBSET S : T # {} /\ ~Top(T) /\ Cardinality(T) = n}
<1>1. CASE Bad = {}
  <2>1. Cardinality(S) \in Nat /\ S \in SUBSET S
    BY FS_CardinalityType
  <2>. QED
    BY <1>1, <2>1
<1>2. CASE Bad # {}
  <2>1. PICK n \in Bad : \A k \in Bad : n <= k
    BY <1>2, LeastOf
  <2>2. PICK T \in SUBSET S : T # {} /\ ~Top(T) /\ Cardinality(T) = n
    BY <2>1
  <2>3. PICK e : e \in T
    BY <2>2
  <2>4. IsFiniteSet(T)
    BY FS_Subset
  <2>5. IsFiniteSet(T \ {e}) /\ Cardinality(T \ {e}) = n - 1
    BY <2>2, <2>3, <2>4, FS_RemoveElement
  <2>6. n - 1 \in Nat
    <3>1. Cardinality(T \ {e}) \in Nat
      BY <2>5, FS_CardinalityType
    <3>. QED
      BY <2>5, <3>1
  <2>7. T \ {e} # {} => Top(T \ {e})
    <3>1. n - 1 \notin Bad
      BY <2>1, <2>6
    <3>2. T \ {e} \in SUBSET S
      OBVIOUS
    <3>. QED
      BY <2>5, <2>6, <3>1, <3>2
  <2>8. CASE T \ {e} = {}
    <3>1. \A x \in T : <<x, e>> \in R
      BY <2>3, <2>8
    <3>. QED
      BY <2>2, <2>3, <3>1
  <2>9. CASE T \ {e} # {}
    <3>1. PICK m \in T \ {e} : \A x \in T \ {e} : <<x, m>> \in R
      BY <2>7, <2>9
    <3>2. e \in S /\ m \in S /\ m \in T
      BY <2>3, <3>1
    <3>3. CASE <<e, m>> \in R
      <4>1. \A x \in T : <<x, m>> \in R
        BY <3>1, <3>3
      <4>. QED
        BY <2>2, <3>2, <4>1
    <3>4. CASE <<m, e>> \in R
      <4>1. \A x \in T : <<x, e>> \in R
        BY <3>1, <3>2, <3>4, <2>3
      <4>. QED
        BY <2>2, <2>3, <4>1
    <3>5. <<e, m>> \in R \/ <<m, e>> \in R
      BY <3>2, Zenon
    <3>. QED
      BY <3>3, <3>4, <3>5
  <2>. QED
    BY <2>8, <2>9
<1>. QED
  BY <1>1, <1>2

\* Min and Max of a finite set of integers.
LEMMA MinOf ==
  ASSUME NEW S, IsFiniteSet(S), S # {}, S \subseteq Int
  PROVE  Min(S) \in S /\ \A x \in S : Min(S) <= x
<1>. DEFINE R == {q \in S \X S : q[1] >= q[2]}
<1>1. \A x, y \in S : <<x, y>> \in R <=> x >= y
  OBVIOUS
<1>. HIDE DEF R
<1>2. \A x, y \in S : <<x, y>> \in R \/ <<y, x>> \in R
  <2>1. \A x, y \in S : x >= y \/ y >= x
    OBVIOUS
  <2>. QED
    BY <1>1, <2>1, Zenon
<1>3. \A x, y, z \in S : <<x, y>> \in R /\ <<y, z>> \in R => <<x, z>> \in R
  <2>1. \A x, y, z \in S : x >= y /\ y >= z => x >= z
    OBVIOUS
  <2>. QED
    BY <1>1, <2>1, Zenon
<1>4. PICK m \in S : \A x \in S : <<x, m>> \in R
  BY <1>2, <1>3, GreatestOfFinite
<1>5. \A x \in S : m <= x
  BY <1>1, <1>4
<1>. QED
  BY <1>5 DEF Min

LEMMA MaxOf ==
  ASSUME NEW S, IsFiniteSet(S), S # {}, S \subseteq Int
  PROVE  Max(S) \in S /\ \A x \in S : Max(S) >= x
<1>. DEFINE R == {q \in S \X S : q[1] <= q[2]}
<1>1. \A x, y \in S : <<x, y>> \in R <=> x <= y
  OBVIOUS
<1>. HIDE DEF R
<1>2. \A x, y \in S : <<x, y>> \in R \/ <<y, x>> \in R
  <2>1. \A x, y \in S : x <= y \/ y <= x
    OBVIOUS
  <2>. QED
    BY <1>1, <2>1, Zenon
<1>3. \A x, y, z \in S : <<x, y>> \in R /\ <<y, z>> \in R => <<x, z>> \in R
  <2>1. \A x, y, z \in S : x <= y /\ y <= z => x <= z
    OBVIOUS
  <2>. QED
    BY <1>1, <2>1, Zenon
<1>4. PICK m \in S : \A x \in S : <<x, m>> \in R
  BY <1>2, <1>3, GreatestOfFinite
<1>5. \A x \in S : m >= x
  BY <1>1, <1>4
<1>. QED
  BY <1>5 DEF Max

\* A set of values of a function on a finite set is finite.
LEMMA FiniteValues ==
  ASSUME NEW S, IsFiniteSet(S), NEW f, S \subseteq DOMAIN f
  PROVE  IsFiniteSet({f[x] : x \in S})
<1>. DEFINE T == {f[x] : x \in S}
            g == [x \in S |-> f[x]]
<1>1. g \in Surjection(S, T)
  BY DEF Surjection
<1>. QED
  BY <1>1, FS_Surjection

-----------------------------------------------------------------------------
(* Sums over finite sets. *)

\* Induction over the subsets of a finite set, first order: where some are bad, there is a bad
\* one that is not bad any more whatever is taken out of it.
LEMMA MinimalBad ==
  ASSUME NEW S, IsFiniteSet(S), NEW F, F \subseteq SUBSET S, F # {}
  PROVE  \E t \in F : IsFiniteSet(t) /\ t \subseteq S /\ \A x \in t : t \ {x} \notin F
<1>. DEFINE Sizes == {n \in Nat : \E t \in F : Cardinality(t) = n}
<1>1. \A t \in F : t \subseteq S /\ IsFiniteSet(t) /\ Cardinality(t) \in Nat
  BY FS_Subset, FS_CardinalityType
<1>2. Sizes # {} /\ Sizes \subseteq Nat
  BY <1>1
<1>3. PICK n \in Sizes : \A m \in Sizes : n <= m
  BY <1>2, LeastOf
<1>4. PICK t \in F : Cardinality(t) = n
  BY <1>3
<1>5. ASSUME NEW x \in t, t \ {x} \in F PROVE FALSE
  <2>1. Cardinality(t \ {x}) = n - 1
    BY <1>1, <1>4, FS_RemoveElement
  <2>2. n - 1 \in Sizes /\ n \in Nat
    BY <1>1, <1>5, <2>1, <1>3
  <2>. QED
    BY <1>3, <2>2
<1>. QED
  BY <1>1, <1>4, <1>5

\* The element that MapThenFoldSet takes out next, and what it makes of a set that way: for
\* all the subsets at once, as one recursive function.
Some(s) == CHOOSE x \in s : TRUE

LEMMA SomeIs == ASSUME NEW s, s # {} PROVE Some(s) \in s
BY DEF Some

IsSum(f, g) ==
  f = [s \in SUBSET DOMAIN g |-> IF s = {} THEN 0 ELSE g[Some(s)] + f[s \ {Some(s)}]]

\* The sums of g by the set summed over.
SumOver(g) == CHOOSE f : IsSum(f, g)

\* There is such a function: on the sets of at most n elements, for each n.
LEMMA SumExists ==
  ASSUME NEW g, IsFiniteSet(DOMAIN g)
  PROVE  \E f : IsSum(f, g)
<1>. DEFINE D == DOMAIN g
            Step(f, s) == IF s = {} THEN 0 ELSE g[Some(s)] + f[s \ {Some(s)}]
            Small(n) == {s \in SUBSET D : Cardinality(s) <= n}
            Has(n) == \E f : f = [s \in Small(n) |-> Step(f, s)]
            Bad == {n \in Nat : ~Has(n)}
<1>1. \A s \in SUBSET D : IsFiniteSet(s) /\ Cardinality(s) \in Nat
  BY FS_Subset, FS_CardinalityType
<1>2. \A s \in SUBSET D : s # {} =>
        /\ Some(s) \in s /\ s \ {Some(s)} \in SUBSET D
        /\ Cardinality(s \ {Some(s)}) = Cardinality(s) - 1
  BY <1>1, SomeIs, FS_RemoveElement
<1>3. Has(0)
  <2>. DEFINE f == [s \in Small(0) |-> 0]
  <2>1. \A s \in Small(0) : s = {}
    <3>1. \A s \in Small(0) : IsFiniteSet(s) /\ Cardinality(s) = 0
      BY <1>1
    <3>. QED
      BY <3>1, FS_EmptySet
  <2>2. f = [s \in Small(0) |-> Step(f, s)]
    BY <2>1
  <2>. QED
    BY <2>2
<1>4. ASSUME NEW n \in Nat, Has(n) PROVE Has(n + 1)
  <2>1. PICK f : f = [s \in Small(n) |-> Step(f, s)]
    BY <1>4
  <2>. DEFINE h == [s \in Small(n + 1) |-> Step(f, s)]
  <2>2. \A s \in Small(n) : s \in Small(n + 1) /\ f[s] = Step(f, s)
    <3>1. \A s \in Small(n) : f[s] = Step(f, s)
      BY <2>1
    <3>2. \A s \in Small(n) : s \in Small(n + 1)
      BY <1>1
    <3>. QED
      BY <3>1, <3>2
  <2>3. \A s \in Small(n) : h[s] = f[s]
    BY <2>2
  <2>4. \A s \in Small(n + 1) : s # {} => s \ {Some(s)} \in Small(n)
    BY <1>1, <1>2
  <2>5. \A s \in Small(n + 1) : Step(f, s) = Step(h, s)
    BY <2>3, <2>4
  <2>6. h = [s \in Small(n + 1) |-> Step(h, s)]
    BY <2>5
  <2>. QED
    BY <2>6
<1>5. Bad = {}
  <2>1. SUFFICES ASSUME Bad # {} PROVE FALSE
    OBVIOUS
  <2>2. PICK n \in Bad : \A m \in Bad : n <= m
    BY <2>1, LeastOf
  <2>. HIDE DEF Has
  <2>3. n # 0 /\ n \in Nat /\ ~Has(n)
    BY <1>3, <2>2
  <2>4. n - 1 \in Nat /\ n = (n - 1) + 1
    BY <2>3
  <2>5. n - 1 \notin Bad
    BY <2>2, <2>4
  <2>6. Has(n - 1)
    BY <2>4, <2>5
  <2>. QED
    BY <1>4, <2>3, <2>4, <2>6
<1>6. Cardinality(D) \in Nat /\ Small(Cardinality(D)) = SUBSET D
  <2>1. \A s \in SUBSET D : Cardinality(s) <= Cardinality(D)
    BY FS_Subset
  <2>. QED
    BY <2>1, FS_CardinalityType
<1>7. Has(Cardinality(D))
  BY <1>5, <1>6
<1>. QED
  BY <1>6, <1>7 DEF IsSum

LEMMA SumRecurs ==
  ASSUME NEW g, IsFiniteSet(DOMAIN g)
  PROVE  IsSum(SumOver(g), g)
BY SumExists, Zenon DEF SumOver

\* The sum of g over s.
SumOf(g, s) == SumOver(g)[s]

Numbers(g) == IsFiniteSet(DOMAIN g) /\ \A x \in DOMAIN g : g[x] \in Int

\* What the recursion says, and that sums are integers.
LEMMA SumStep ==
  ASSUME NEW g, Numbers(g)
  PROVE  /\ SumOf(g, {}) = 0
         /\ \A s \in SUBSET DOMAIN g : s # {} =>
              SumOf(g, s) = g[Some(s)] + SumOf(g, s \ {Some(s)})
<1>1. IsSum(SumOver(g), g)
  BY SumRecurs DEF Numbers
<1>. QED
  BY <1>1 DEF IsSum, SumOf

LEMMA SumType ==
  ASSUME NEW g, Numbers(g), NEW s \in SUBSET DOMAIN g
  PROVE  SumOf(g, s) \in Int
<1>. DEFINE D == DOMAIN g
            Bad == {t \in SUBSET D : SumOf(g, t) \notin Int}
<1>1. SUFFICES ASSUME Bad # {} PROVE FALSE
  OBVIOUS
<1>2. PICK t \in Bad : IsFiniteSet(t) /\ t \subseteq D /\ \A x \in t : t \ {x} \notin Bad
  BY <1>1, MinimalBad DEF Numbers
<1>3. t # {}
  <2>1. SumOf(g, {}) \in Int
    BY SumStep
  <2>. QED
    BY <1>2, <2>1
<1>4. Some(t) \in t /\ t \ {Some(t)} \in SUBSET D /\ g[Some(t)] \in Int
  BY <1>2, <1>3, SomeIs DEF Numbers
<1>5. SumOf(g, t \ {Some(t)}) \in Int
  BY <1>2, <1>4
<1>6. SumOf(g, t) = g[Some(t)] + SumOf(g, t \ {Some(t)})
  BY <1>2, <1>3, SumStep
<1>. QED
  BY <1>2, <1>4, <1>5, <1>6

\* The order in which they are added does not matter.
LEMMA SumAdds ==
  ASSUME NEW g, Numbers(g), NEW s \in SUBSET DOMAIN g, NEW x \in s
  PROVE  SumOf(g, s) = g[x] + SumOf(g, s \ {x})
<1>. DEFINE D == DOMAIN g
            Bad == {t \in SUBSET D : \E y \in t : SumOf(g, t) # g[y] + SumOf(g, t \ {y})}
<1>1. SUFFICES ASSUME Bad # {} PROVE FALSE
  OBVIOUS
<1>2. PICK t \in Bad : IsFiniteSet(t) /\ t \subseteq D /\ \A y \in t : t \ {y} \notin Bad
  BY <1>1, MinimalBad DEF Numbers
<1>3. PICK y \in t : SumOf(g, t) # g[y] + SumOf(g, t \ {y})
  BY <1>2
<1>. DEFINE c == Some(t)
            u == (t \ {c}) \ {y}
<1>4. c \in t /\ SumOf(g, t) = g[c] + SumOf(g, t \ {c})
  BY <1>2, <1>3, SumStep, SomeIs
<1>. HIDE DEF c
<1>5. c # y
  BY <1>3, <1>4
<1>6. u = (t \ {y}) \ {c} /\ t \ {c} \in SUBSET D /\ t \ {y} \in SUBSET D /\ u \in SUBSET D
  BY <1>2
<1>7. SumOf(g, t \ {c}) = g[y] + SumOf(g, u)
  BY <1>2, <1>4, <1>5, <1>6, <1>3
<1>8. SumOf(g, t \ {y}) = g[c] + SumOf(g, u)
  BY <1>2, <1>4, <1>5, <1>6, <1>3
<1>9. g[c] \in Int /\ g[y] \in Int /\ SumOf(g, u) \in Int
  BY <1>2, <1>3, <1>4, <1>6, SumType DEF Numbers
<1>. HIDE DEF u
<1>. QED
  BY <1>3, <1>4, <1>7, <1>8, <1>9

\* Two sets with nothing in common.
LEMMA SumUnion ==
  ASSUME NEW g, Numbers(g), NEW s \in SUBSET DOMAIN g, NEW t \in SUBSET DOMAIN g, s \cap t = {}
  PROVE  SumOf(g, s \cup t) = SumOf(g, s) + SumOf(g, t)
<1>. DEFINE D == DOMAIN g
            Bad == {u \in SUBSET t : SumOf(g, s \cup u) # SumOf(g, s) + SumOf(g, u)}
<1>1. SUFFICES ASSUME Bad # {} PROVE FALSE
  OBVIOUS
<1>2. IsFiniteSet(t) /\ Bad \subseteq SUBSET t
  BY FS_Subset DEF Numbers
<1>3. PICK u \in Bad : IsFiniteSet(u) /\ u \subseteq t /\ \A y \in u : u \ {y} \notin Bad
  <2>. HIDE DEF Bad
  <2>. QED
    BY <1>1, <1>2, MinimalBad
<1>4. SumOf(g, s) \in Int
  BY SumType
<1>5. u # {}
  <2>1. SumOf(g, {}) = 0 /\ s \cup {} = s
    BY SumStep
  <2>2. SumOf(g, s \cup {}) = SumOf(g, s) + SumOf(g, {})
    BY <1>4, <2>1
  <2>. QED
    BY <1>3, <2>2
<1>6. PICK y : y \in u
  BY <1>5
<1>7. u \ {y} \in SUBSET t /\ (s \cup u) \ {y} = s \cup (u \ {y}) /\ y \in s \cup u /\ y \in D
  BY <1>3, <1>6
<1>8. SumOf(g, s \cup (u \ {y})) = SumOf(g, s) + SumOf(g, u \ {y})
  BY <1>3, <1>6, <1>7
<1>9. u \in SUBSET D /\ s \cup u \in SUBSET D /\ u \ {y} \in SUBSET D
  BY <1>3
<1>10. SumOf(g, u) = g[y] + SumOf(g, u \ {y})
  BY <1>6, <1>9, SumAdds
<1>11. SumOf(g, s \cup u) = g[y] + SumOf(g, s \cup (u \ {y}))
  BY <1>7, <1>9, SumAdds
<1>12. g[y] \in Int /\ SumOf(g, u \ {y}) \in Int
  BY <1>7, <1>9, SumType DEF Numbers
<1>13. SumOf(g, s \cup u) # SumOf(g, s) + SumOf(g, u)
  BY <1>3
<1>. QED
  BY <1>4, <1>8, <1>10, <1>11, <1>12, <1>13

\* b names the elements of s anew, each one otherwise; h has their numbers by the new names.
Image(b, s) == {b[x] : x \in s}

Renames(b, g, h, s) ==
  /\ Numbers(g) /\ Numbers(h)
  /\ s \subseteq DOMAIN g /\ s \subseteq DOMAIN b
  /\ \A x \in s : b[x] \in DOMAIN h /\ h[b[x]] = g[x]
  /\ \A x, y \in s : b[x] = b[y] => x = y

\* The same numbers, under other names.
LEMMA SumRenamed ==
  ASSUME NEW b, NEW g, NEW h, NEW s, Renames(b, g, h, s)
  PROVE  SumOf(h, Image(b, s)) = SumOf(g, s)
<1>0. /\ Numbers(g) /\ Numbers(h) /\ s \in SUBSET DOMAIN g /\ s \subseteq DOMAIN b
      /\ \A x \in s : b[x] \in DOMAIN h /\ h[b[x]] = g[x]
      /\ \A x, y \in s : b[x] = b[y] => x = y
  BY DEF Renames
<1>. DEFINE To(u) == {b[x] : x \in u}
            Bad == {u \in SUBSET s : SumOf(h, To(u)) # SumOf(g, u)}
<1>1. SUFFICES ASSUME Bad # {} PROVE FALSE
  BY DEF Image
<1>2. IsFiniteSet(s) /\ Bad \subseteq SUBSET s
  BY <1>0, FS_Subset DEF Numbers
<1>3. PICK u \in Bad : IsFiniteSet(u) /\ u \subseteq s /\ \A y \in u : u \ {y} \notin Bad
  <2>. HIDE DEF Bad
  <2>. QED
    BY <1>1, <1>2, MinimalBad
<1>4. u # {}
  <2>1. SumOf(g, {}) = 0 /\ SumOf(h, {}) = 0 /\ To({}) = {}
    BY <1>0, SumStep
  <2>. QED
    BY <1>3, <2>1
<1>5. PICK y : y \in u
  BY <1>4
<1>6. SumOf(h, To(u \ {y})) = SumOf(g, u \ {y})
  BY <1>0, <1>3, <1>5
<1>7. To(u) \ {b[y]} = To(u \ {y}) /\ b[y] \in To(u) /\ To(u) \subseteq DOMAIN h
  BY <1>0, <1>3, <1>5
<1>8. u \in SUBSET DOMAIN g /\ SumOf(g, u) = g[y] + SumOf(g, u \ {y})
  BY <1>0, <1>3, <1>5, SumAdds
<1>9. SumOf(h, To(u)) # SumOf(g, u) /\ h[b[y]] = g[y]
  BY <1>0, <1>3, <1>5
<1>. HIDE DEF To
<1>10. SumOf(h, To(u)) = h[b[y]] + SumOf(h, To(u) \ {b[y]})
  BY <1>0, <1>7, SumAdds
<1>. QED
  BY <1>6, <1>7, <1>8, <1>9, <1>10

\* K are keys of s, and q is what there is of g under each.
Sorts(key, g, q, s, K) ==
  /\ Numbers(g) /\ Numbers(q)
  /\ s \subseteq DOMAIN g /\ s \subseteq DOMAIN key /\ K \subseteq DOMAIN q
  /\ \A x \in s : key[x] \in K
  /\ \A k \in K : q[k] = SumOf(g, {x \in s : key[x] = k})

\* What is sorted by a key adds up to the same.
LEMMA SumSorted ==
  ASSUME NEW key, NEW g, NEW q, NEW s, NEW K, Sorts(key, g, q, s, K)
  PROVE  SumOf(q, K) = SumOf(g, s)
<1>0. /\ Numbers(g) /\ Numbers(q)
      /\ s \in SUBSET DOMAIN g /\ K \in SUBSET DOMAIN q
      /\ \A x \in s : key[x] \in K
      /\ \A k \in K : q[k] = SumOf(g, {x \in s : key[x] = k})
  BY DEF Sorts
<1>. DEFINE Under(T) == {x \in s : key[x] \in T}
            Bad == {T \in SUBSET K : SumOf(q, T) # SumOf(g, Under(T))}
<1>1. SUFFICES ASSUME Bad # {} PROVE FALSE
  <2>1. Under(K) = s
    BY <1>0
  <2>. QED
    BY <2>1
<1>2. IsFiniteSet(K) /\ Bad \subseteq SUBSET K
  BY <1>0, FS_Subset DEF Numbers
<1>3. PICK T \in Bad : IsFiniteSet(T) /\ T \subseteq K /\ \A k \in T : T \ {k} \notin Bad
  <2>. HIDE DEF Bad
  <2>. QED
    BY <1>1, <1>2, MinimalBad
<1>4. T # {}
  <2>1. SumOf(g, {}) = 0 /\ SumOf(q, {}) = 0 /\ Under({}) = {}
    BY <1>0, SumStep
  <2>. QED
    BY <1>3, <2>1
<1>5. PICK k : k \in T
  BY <1>4
<1>. DEFINE own == {x \in s : key[x] = k}
            rest == Under(T \ {k})
<1>6. SumOf(q, T \ {k}) = SumOf(g, rest)
  BY <1>0, <1>3, <1>5
<1>7. /\ Under(T) = rest \cup own /\ rest \cap own = {}
      /\ rest \subseteq DOMAIN g /\ own \subseteq DOMAIN g
  BY <1>0, <1>3, <1>5
<1>8. SumOf(q, T) = q[k] + SumOf(q, T \ {k})
  BY <1>0, <1>3, <1>5, SumAdds
<1>9. q[k] = SumOf(g, own)
  BY <1>0, <1>3, <1>5
<1>10. SumOf(q, T) # SumOf(g, Under(T))
  BY <1>3
<1>. HIDE DEF own, rest, Under
<1>11. SumOf(g, rest \cup own) = SumOf(g, rest) + SumOf(g, own)
  BY <1>0, <1>7, SumUnion
<1>12. SumOf(g, rest) \in Int /\ SumOf(g, own) \in Int
  BY <1>0, <1>7, SumType
<1>. QED
  BY <1>6, <1>7, <1>8, <1>9, <1>10, <1>11, <1>12

\* With nothing negative to add, a part is no more than the whole.
LEMMA SumOfPart ==
  ASSUME NEW g, Numbers(g), NEW s \in SUBSET DOMAIN g, NEW t \in SUBSET s,
         \A x \in s : g[x] >= 0
  PROVE  SumOf(g, t) <= SumOf(g, s)
<1>. DEFINE Bad == {u \in SUBSET s : SumOf(g, u) < 0}
<1>1. Bad = {}
  <2>1. SUFFICES ASSUME Bad # {} PROVE FALSE
    OBVIOUS
  <2>2. IsFiniteSet(s) /\ Bad \subseteq SUBSET s
    BY FS_Subset DEF Numbers
  <2>3. PICK u \in Bad : IsFiniteSet(u) /\ u \subseteq s /\ \A y \in u : u \ {y} \notin Bad
    <3>. HIDE DEF Bad
    <3>. QED
      BY <2>1, <2>2, MinimalBad
  <2>4. u # {}
    BY <2>3, SumStep
  <2>5. PICK y : y \in u
    BY <2>4
  <2>6. SumOf(g, u) = g[y] + SumOf(g, u \ {y})
    BY <2>3, <2>5, SumAdds
  <2>7. SumOf(g, u \ {y}) \in Int /\ g[y] \in Int /\ g[y] >= 0
    BY <2>3, <2>5, SumType DEF Numbers
  <2>8. ~(SumOf(g, u \ {y}) < 0) /\ SumOf(g, u) < 0
    BY <2>3, <2>5
  <2>. QED
    BY <2>6, <2>7, <2>8
<1>2. SumOf(g, s) = SumOf(g, s \ t) + SumOf(g, t)
  <2>1. (s \ t) \cap t = {} /\ (s \ t) \cup t = s /\ s \ t \in SUBSET DOMAIN g
    OBVIOUS
  <2>2. SumOf(g, (s \ t) \cup t) = SumOf(g, s \ t) + SumOf(g, t)
    BY <2>1, SumUnion
  <2>. QED
    BY <2>1, <2>2
<1>3. SumOf(g, s \ t) \in Int /\ SumOf(g, t) \in Int /\ ~(SumOf(g, s \ t) < 0)
  BY <1>1, SumType
<1>. QED
  BY <1>2, <1>3

\* The same numbers for the same things, whatever else has one.
LEMMA SumLocal ==
  ASSUME NEW g, Numbers(g), NEW h, Numbers(h),
         NEW s \in SUBSET DOMAIN g, s \subseteq DOMAIN h, \A x \in s : h[x] = g[x]
  PROVE  SumOf(h, s) = SumOf(g, s)
<1>. DEFINE b == [x \in s |-> x]
<1>1. Renames(b, g, h, s)
  BY DEF Renames
<1>2. Image(b, s) = s
  BY DEF Image
<1>. QED
  BY <1>1, <1>2, SumRenamed

\* The numbers that add up: all integers, or, where nothing is negative, the naturals.
Adding(N) == N = Int \/ N = Nat

\* The sum of such numbers is one of them.
LEMMA SumIn ==
  ASSUME NEW N, Adding(N), NEW g, IsFiniteSet(DOMAIN g), \A x \in DOMAIN g : g[x] \in N,
         NEW s, s \subseteq DOMAIN g
  PROVE  SumOf(g, s) \in N
<1>1. Numbers(g) /\ s \in SUBSET DOMAIN g
  BY DEF Numbers, Adding
<1>2. SumOf(g, s) \in Int
  BY <1>1, SumType
<1>3. CASE N = Nat
  <2>1. SumOf(g, {}) <= SumOf(g, s)
    <3>1. \A x \in s : g[x] >= 0
      BY <1>3
    <3>. QED
      BY <1>1, <3>1, SumOfPart
  <2>2. SumOf(g, {}) = 0
    BY <1>1, SumStep
  <2>. QED
    BY <1>2, <1>3, <2>1, <2>2
<1>. QED
  BY <1>2, <1>3 DEF Adding
=============================================================================
