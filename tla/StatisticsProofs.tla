-------------------------- MODULE StatisticsProofs --------------------------
(***************************************************************************)
(* Proofs about the statistics, for every set of endpoints, torrents and   *)
(* IPs and every setting: what the counter operators promise for every     *)
(* report, and from that what the sums of the statistics never exceed.     *)
(***************************************************************************)
EXTENDS Statistics, TLAPS, FiniteSetTheorems, WellFoundedInduction

\* Some naturals have a least one.
LEMMA LeastExists ==
  ASSUME NEW S \in SUBSET Nat, S # {}
  PROVE  \E n \in S : \A m \in S : n <= m
<1> DEFINE R == {p \in Nat \X Nat : p[1] < p[2]}
<1>1. IsWellFoundedOn(R, Nat)
  BY NatLessThanWellFounded DEF OpToRel
<1>2. PICK n \in S : \A m \in S : <<m, n>> \notin R
  BY <1>1, WFMin
<1>3. ASSUME NEW m \in S PROVE n <= m
  <2>1. n \in Nat /\ m \in Nat /\ <<m, n>> \notin R
    BY <1>2
  <2>2. ~ (m < n)
    BY <2>1
  <2> QED
    BY <2>1, <2>2
<1> QED
  BY <1>3

-----------------------------------------------------------------------------
(***************************************************************************)
(* Sums.  The sum of a function's values is the size of a set of pairs:    *)
(* every argument, once for each unit of its value.                        *)
(***************************************************************************)
Summable(f) == IsFiniteSet(DOMAIN f) /\ \A x \in DOMAIN f : f[x] \in Nat

Column(f, x) == {x} \X (1 .. f[x])
Block(f, S) == {p \in S \X Nat : p[2] \in 1 .. f[p[1]]}

LEMMA ColumnSize ==
  ASSUME NEW x, NEW a \in Nat, NEW b \in Nat
  PROVE  IsFiniteSet({x} \X (a + 1 .. a + b)) /\ Cardinality({x} \X (a + 1 .. a + b)) = b
<1> DEFINE I == a + 1 .. a + b
           h == [i \in I |-> <<x, i>>]
<1>1. IsFiniteSet(I) /\ Cardinality(I) = b
  BY FS_Interval
<1>2. h \in Bijection(I, {x} \X I)
  <2> HIDE DEF I
  <2>1. h \in [I -> {x} \X I]
    OBVIOUS
  <2>2. \A i, j \in I : h[i] = h[j] => i = j
    OBVIOUS
  <2>3. \A p \in {x} \X I : \E i \in I : h[i] = p
    OBVIOUS
  <2> HIDE DEF h
  <2> QED
    BY <2>1, <2>2, <2>3 DEF Bijection, Injection, Surjection, IsInjective
<1>3. ExistsBijection(I, {x} \X I)
  BY <1>2 DEF ExistsBijection
<1> HIDE DEF I
<1> QED
  BY <1>1, <1>3, FS_Bijection DEF I

LEMMA BlockAdds ==
  ASSUME NEW f, NEW S, NEW x \in S, \A y \in S : f[y] \in Nat, IsFiniteSet(Block(f, S \ {x}))
  PROVE  /\ IsFiniteSet(Block(f, S))
         /\ Cardinality(Block(f, S)) = f[x] + Cardinality(Block(f, S \ {x}))
<1> DEFINE B == Block(f, S \ {x})
           C == {x} \X (0 + 1 .. 0 + f[x])
<1>1. IsFiniteSet(C) /\ Cardinality(C) = f[x]
  <2>1. \A a, b \in Nat : IsFiniteSet({x} \X (a + 1 .. a + b)) /\ Cardinality({x} \X (a + 1 .. a + b)) = b
    BY ColumnSize
  <2>2. 0 \in Nat /\ f[x] \in Nat
    OBVIOUS
  <2> DEFINE b == f[x]
  <2>3. IsFiniteSet({x} \X (0 + 1 .. 0 + b)) /\ Cardinality({x} \X (0 + 1 .. 0 + b)) = b
    <3> HIDE DEF b
    <3>1. b \in Nat
      BY <2>2 DEF b
    <3> QED
      BY ONLY <2>1, <3>1, 0 \in Nat
  <2> QED
    BY <2>3
<1>2. Block(f, S) = B \cup C /\ B \cap C = {}
  BY DEF Block
<1> HIDE DEF B, C
<1>3. IsFiniteSet(B \cup C) /\ Cardinality(B \cup C) = Cardinality(B) + Cardinality(C) - Cardinality(B \cap C)
  BY <1>1, FS_Union DEF B
<1>4. Cardinality(B \cap C) = 0 /\ Cardinality(B) \in Nat
  BY <1>2, FS_EmptySet, FS_CardinalityType DEF B
<1> QED
  BY <1>1, <1>2, <1>3, <1>4 DEF B

BlocksFinite(f, S) == \A T \in SUBSET S : IsFiniteSet(Block(f, T))

LEMMA BlocksAreFinite ==
  ASSUME NEW f, NEW S, IsFiniteSet(S), \A x \in S : f[x] \in Nat
  PROVE  BlocksFinite(f, S)
<1> SUFFICES ASSUME NEW T0 \in SUBSET S, ~IsFiniteSet(Block(f, T0)) PROVE FALSE
  BY DEF BlocksFinite
<1> DEFINE bad == {n \in Nat : \E T \in SUBSET S : Cardinality(T) = n /\ ~IsFiniteSet(Block(f, T))}
<1>1. \A T \in SUBSET S : IsFiniteSet(T) /\ Cardinality(T) \in Nat
  BY FS_Subset, FS_CardinalityType
<1>2. PICK n \in bad : \A m \in bad : n <= m
  <2>1. Cardinality(T0) \in bad
    BY <1>1
  <2>2. bad \in SUBSET Nat /\ bad # {}
    BY <2>1
  <2> HIDE DEF bad
  <2> QED
    BY <2>2, LeastExists
<1>3. PICK T \in SUBSET S : Cardinality(T) = n /\ ~IsFiniteSet(Block(f, T))
  BY <1>2
<1>4. PICK x \in T : TRUE
  <2> SUFFICES ASSUME T = {} PROVE FALSE
    OBVIOUS
  <2>1. Block(f, {}) = {}
    BY DEF Block
  <2> QED
    BY <1>3, <2>1, FS_EmptySet
<1>5. T \ {x} \in SUBSET S /\ Cardinality(T \ {x}) = n - 1 /\ n - 1 \in Nat /\ n \in Nat
  <2>1. IsFiniteSet(T)
    BY <1>1
  <2>2. Cardinality(T \ {x}) = Cardinality(T) - 1
    BY <1>4, <2>1, FS_RemoveElement
  <2>3. Cardinality(T \ {x}) \in Nat
    BY <1>1
  <2> QED
    BY <1>3, <2>2, <2>3
<1>6. n - 1 \notin bad
  <2> HIDE DEF bad
  <2> QED
    BY <1>2, <1>5
<1>7. IsFiniteSet(Block(f, T \ {x}))
  BY <1>5, <1>6
<1>8. \A y \in T : f[y] \in Nat
  OBVIOUS
<1> QED
  BY <1>3, <1>4, <1>7, <1>8, BlockAdds

\* The recursion that a fold unfolds to.
IsSumOf(g, f, S) ==
  g = [s \in SUBSET S |-> IF s = {} THEN 0
                          ELSE f[CHOOSE x \in s : TRUE] + g[s \ {CHOOSE x \in s : TRUE}]]

LEMMA SumExists ==
  ASSUME NEW f, NEW S, IsFiniteSet(S), \A x \in S : f[x] \in Nat
  PROVE  IsSumOf([s \in SUBSET S |-> Cardinality(Block(f, s))], f, S)
<1> DEFINE g == [s \in SUBSET S |-> Cardinality(Block(f, s))]
<1>1. ASSUME NEW s \in SUBSET S, s = {} PROVE g[s] = 0
  <2>1. Block(f, {}) = {}
    BY DEF Block
  <2> QED
    BY <1>1, <2>1, FS_EmptySet
<1>2. ASSUME NEW s \in SUBSET S, s # {}
      PROVE  g[s] = f[CHOOSE x \in s : TRUE] + g[s \ {CHOOSE x \in s : TRUE}]
  <2> DEFINE x == CHOOSE x \in s : TRUE
  <2>1. x \in s
    BY <1>2
  <2> HIDE DEF x
  <2>2. IsFiniteSet(Block(f, s \ {x}))
    BY BlocksAreFinite DEF BlocksFinite
  <2>3. \A y \in s : f[y] \in Nat
    OBVIOUS
  <2>4. Cardinality(Block(f, s)) = f[x] + Cardinality(Block(f, s \ {x}))
    BY <2>1, <2>2, <2>3, BlockAdds
  <2>5. s \ {x} \in SUBSET S
    OBVIOUS
  <2> QED
    BY <2>4, <2>5 DEF x
<1>3. g = [s \in SUBSET S |-> IF s = {} THEN 0
                              ELSE f[CHOOSE x \in s : TRUE] + g[s \ {CHOOSE x \in s : TRUE}]]
  <2> HIDE DEF g
  <2>1. g = [s \in SUBSET S |-> g[s]]
    BY DEF g
  <2> QED
    BY <1>1, <1>2, <2>1
<1> HIDE DEF g
<1> QED
  BY <1>3 DEF IsSumOf, g

LEMMA SumUnique ==
  ASSUME NEW f, NEW S, IsFiniteSet(S), \A x \in S : f[x] \in Nat, NEW g, IsSumOf(g, f, S)
  PROVE  g[S] = Cardinality(Block(f, S))
<1> DEFINE h(s) == Cardinality(Block(f, s))
           bad == {n \in Nat : \E T \in SUBSET S : Cardinality(T) = n /\ g[T] # h(T)}
<1> SUFFICES ASSUME g[S] # h(S) PROVE FALSE
  OBVIOUS
<1>1. \A T \in SUBSET S : IsFiniteSet(T) /\ Cardinality(T) \in Nat
  BY FS_Subset, FS_CardinalityType
<1>2. PICK n \in bad : \A m \in bad : n <= m
  <2>1. Cardinality(S) \in bad
    BY <1>1
  <2>2. bad \in SUBSET Nat /\ bad # {}
    BY <2>1
  <2> HIDE DEF bad
  <2> QED
    BY <2>2, LeastExists
<1>3. PICK T \in SUBSET S : Cardinality(T) = n /\ g[T] # h(T)
  BY <1>2
<1> DEFINE x == CHOOSE x \in T : TRUE
<1>4. g[T] = IF T = {} THEN 0 ELSE f[x] + g[T \ {x}]
  <2>1. g = [s \in SUBSET S |-> IF s = {} THEN 0
                 ELSE f[CHOOSE y \in s : TRUE] + g[s \ {CHOOSE y \in s : TRUE}]]
    BY DEF IsSumOf
  <2> QED
    BY <2>1
<1>5. T # {}
  <2> SUFFICES ASSUME T = {} PROVE FALSE
    OBVIOUS
  <2>1. Block(f, {}) = {}
    BY DEF Block
  <2> QED
    BY <1>3, <1>4, <2>1, FS_EmptySet
<1>6. x \in T
  BY <1>5
<1> HIDE DEF x
<1>7. T \ {x} \in SUBSET S /\ Cardinality(T \ {x}) = n - 1 /\ n - 1 \in Nat /\ n \in Nat
  <2>1. IsFiniteSet(T)
    BY <1>1
  <2>2. Cardinality(T \ {x}) = Cardinality(T) - 1
    BY <1>6, <2>1, FS_RemoveElement
  <2>3. Cardinality(T \ {x}) \in Nat
    BY <1>1
  <2> QED
    BY <1>3, <2>2, <2>3
<1>8. n - 1 \notin bad
  <2> HIDE DEF bad
  <2> QED
    BY <1>2, <1>7
<1>9. g[T \ {x}] = h(T \ {x})
  BY <1>7, <1>8
<1>10. IsFiniteSet(Block(f, T \ {x})) /\ \A y \in T : f[y] \in Nat
  BY BlocksAreFinite DEF BlocksFinite
<1>11. h(T) = f[x] + h(T \ {x})
  BY <1>6, <1>10, BlockAdds
<1> QED
  BY <1>3, <1>4, <1>5, <1>9, <1>11

\* What Total computes.
LEMMA TotalIs ==
  ASSUME NEW f, Summable(f)
  PROVE  /\ Total(f) = Cardinality(Block(f, DOMAIN f))
         /\ IsFiniteSet(Block(f, DOMAIN f))
         /\ Total(f) \in Nat
<1> DEFINE S == DOMAIN f
           g == CHOOSE g : IsSumOf(g, f, S)
<1>1. IsFiniteSet(S) /\ \A x \in S : f[x] \in Nat
  BY DEF Summable
<1>2. IsSumOf(g, f, S)
  <2>1. \E h : IsSumOf(h, f, S)
    BY <1>1, SumExists
  <2> QED
    BY <2>1
<1>3. Total(f) = g[S]
  BY DEF Total, MapThenSumSet, MapThenFoldSet, IsSumOf
<1> HIDE DEF g
<1>4. g[S] = Cardinality(Block(f, S))
  BY <1>1, <1>2, SumUnique
<1>5. IsFiniteSet(Block(f, S))
  BY <1>1, BlocksAreFinite DEF BlocksFinite
<1> QED
  BY <1>3, <1>4, <1>5, FS_CardinalityType

LEMMA TotalOfNothing ==
  ASSUME NEW f, DOMAIN f = {}
  PROVE  Summable(f) /\ Total(f) = 0
<1>1. Summable(f)
  BY FS_EmptySet DEF Summable
<1>2. Block(f, {}) = {}
  BY DEF Block
<1> QED
  BY <1>1, <1>2, TotalIs, FS_EmptySet

\* A sum of fewer or smaller values is smaller.
LEMMA TotalWithin ==
  ASSUME NEW f, NEW g, Summable(f), Summable(g), DOMAIN f \subseteq DOMAIN g,
         \A x \in DOMAIN f : f[x] <= g[x]
  PROVE  Total(f) <= Total(g)
<1> DEFINE A == Block(f, DOMAIN f)
           B == Block(g, DOMAIN g)
<1>1. \A x \in DOMAIN f : f[x] \in Nat /\ g[x] \in Nat
  BY DEF Summable
<1>2. A \subseteq B
  BY <1>1 DEF Block
<1>3. IsFiniteSet(B) /\ Total(f) = Cardinality(A) /\ Total(g) = Cardinality(B)
  BY TotalIs
<1> HIDE DEF A, B
<1> QED
  BY <1>2, <1>3, FS_Subset

\* A sum grows by no more than one of its values does.
LEMMA TotalGrows ==
  ASSUME NEW f, NEW g, Summable(f), Summable(g), NEW x, NEW n \in Nat,
         DOMAIN f \subseteq DOMAIN g \cup {x},
         \A y \in DOMAIN f \ {x} : f[y] <= g[y],
         x \in DOMAIN f => f[x] <= n + (IF x \in DOMAIN g THEN g[x] ELSE 0)
  PROVE  Total(f) <= Total(g) + n
<1> DEFINE a == IF x \in DOMAIN g THEN g[x] ELSE 0
           A == Block(f, DOMAIN f)
           B == Block(g, DOMAIN g)
           C == {x} \X (a + 1 .. a + n)
<1>1. (\A y \in DOMAIN f : f[y] \in Nat) /\ (\A y \in DOMAIN g : g[y] \in Nat) /\ a \in Nat
  BY DEF Summable
<1>2. A \subseteq B \cup C
  <2> SUFFICES ASSUME NEW y \in DOMAIN f, NEW i \in 1 .. f[y], <<y, i>> \notin C
               PROVE  <<y, i>> \in B
    BY DEF Block
  <2>1. i \in Nat
    BY <1>1
  <2>2. CASE y # x
    <3>1. y \in DOMAIN g /\ f[y] <= g[y]
      BY <2>2
    <3>2. i \in 1 .. g[y]
      BY <1>1, <3>1
    <3> QED
      BY <2>1, <3>1, <3>2 DEF Block
  <2>3. CASE y = x
    <3>1. i <= n + a /\ i \notin a + 1 .. a + n
      BY <1>1, <2>3
    <3>2. i <= a
      BY <1>1, <2>1, <3>1
    <3>3. x \in DOMAIN g /\ i \in 1 .. g[x]
      BY <1>1, <3>2
    <3> QED
      BY <2>1, <2>3, <3>3 DEF Block
  <2> QED
    BY <2>2, <2>3
<1>3. IsFiniteSet(B) /\ Total(f) = Cardinality(A) /\ Total(g) = Cardinality(B)
  BY TotalIs
<1>4. IsFiniteSet(C) /\ Cardinality(C) = n
  <2>1. a \in Nat
    BY <1>1
  <2> HIDE DEF a
  <2>2. \A i, j \in Nat : IsFiniteSet({x} \X (i + 1 .. i + j)) /\ Cardinality({x} \X (i + 1 .. i + j)) = j
    BY ColumnSize
  <2>3. IsFiniteSet({x} \X (a + 1 .. a + n)) /\ Cardinality({x} \X (a + 1 .. a + n)) = n
    BY ONLY <2>1, <2>2, n \in Nat
  <2> QED
    BY <2>3
<1> HIDE DEF A, B, C
<1>5. IsFiniteSet(B \cup C) /\ Cardinality(B \cup C) = Cardinality(B) + Cardinality(C) - Cardinality(B \cap C)
  BY <1>3, <1>4, FS_Union
<1>6. Cardinality(A) <= Cardinality(B \cup C) /\ IsFiniteSet(A)
  BY <1>2, <1>5, FS_Subset
<1>7. Cardinality(B \cap C) \in Nat /\ Cardinality(B) \in Nat /\ Cardinality(A) \in Nat
  BY <1>3, <1>6, FS_Intersection, FS_CardinalityType
<1> QED
  BY <1>3, <1>4, <1>5, <1>6, <1>7

\* A sum falls by no less than one of its values does.
LEMMA TotalFalls ==
  ASSUME NEW f, NEW g, Summable(f), Summable(g), NEW x \in DOMAIN g, NEW n \in Nat,
         DOMAIN f \subseteq DOMAIN g,
         \A y \in DOMAIN f \ {x} : f[y] <= g[y],
         n + (IF x \in DOMAIN f THEN f[x] ELSE 0) <= g[x]
  PROVE  Total(f) + n <= Total(g)
<1> DEFINE a == IF x \in DOMAIN f THEN f[x] ELSE 0
           A == Block(f, DOMAIN f)
           B == Block(g, DOMAIN g)
           C == {x} \X (a + 1 .. a + n)
<1>1. (\A y \in DOMAIN f : f[y] \in Nat) /\ (\A y \in DOMAIN g : g[y] \in Nat) /\ a \in Nat
  BY DEF Summable
<1>2. A \cup C \subseteq B
  <2>1. ASSUME NEW y \in DOMAIN f, NEW i \in 1 .. f[y] PROVE <<y, i>> \in B
    <3>1. y \in DOMAIN g /\ f[y] <= g[y] /\ f[y] \in Nat /\ g[y] \in Nat
      BY <1>1
    <3>2. i \in 1 .. g[y] /\ i \in Nat
      BY <3>1
    <3> QED
      BY <3>1, <3>2 DEF Block
  <2>2. ASSUME NEW i \in a + 1 .. a + n PROVE <<x, i>> \in B
    <3>1. i \in 1 .. g[x] /\ i \in Nat
      BY <1>1
    <3> QED
      BY <3>1 DEF Block
  <2> QED
    BY <2>1, <2>2 DEF Block
<1>3. A \cap C = {}
  BY <1>1 DEF Block
<1>4. IsFiniteSet(A) /\ IsFiniteSet(B) /\ Total(f) = Cardinality(A) /\ Total(g) = Cardinality(B)
  BY TotalIs
<1>5. IsFiniteSet(C) /\ Cardinality(C) = n
  <2>1. a \in Nat
    BY <1>1
  <2> HIDE DEF a
  <2>2. \A i, j \in Nat : IsFiniteSet({x} \X (i + 1 .. i + j)) /\ Cardinality({x} \X (i + 1 .. i + j)) = j
    BY ColumnSize
  <2>3. IsFiniteSet({x} \X (a + 1 .. a + n)) /\ Cardinality({x} \X (a + 1 .. a + n)) = n
    BY ONLY <2>1, <2>2, n \in Nat
  <2> QED
    BY <2>3
<1> HIDE DEF A, B, C
<1>6. Cardinality(A \cup C) = Cardinality(A) + Cardinality(C) - Cardinality(A \cap C)
  BY <1>4, <1>5, FS_Union
<1>7. Cardinality(A \cup C) <= Cardinality(B)
  BY <1>2, <1>4, FS_Subset
<1>8. Cardinality(A \cap C) = 0 /\ Cardinality(A) \in Nat /\ Cardinality(B) \in Nat
  BY <1>3, <1>4, FS_EmptySet, FS_CardinalityType
<1> QED
  BY <1>4, <1>5, <1>6, <1>7, <1>8

\* One value is within the sum.
LEMMA TotalCoversEach ==
  ASSUME NEW f, Summable(f), NEW x \in DOMAIN f
  PROVE  f[x] <= Total(f)
<1> DEFINE g == [y \in {} |-> 0]
           n == f[x]
<1>1. Summable(g) /\ Total(g) = 0 /\ DOMAIN g = {}
  BY TotalOfNothing
<1>2. n \in Nat /\ Total(f) \in Nat
  BY TotalIs DEF Summable
<1> HIDE DEF g, n
<1>3. Total(g) + n <= Total(f)
  <2>1. n + (IF x \in DOMAIN g THEN g[x] ELSE 0) <= f[x]
    BY <1>1, <1>2 DEF n
  <2> QED
    BY <1>1, <1>2, <2>1, TotalFalls
<1> QED
  BY <1>1, <1>2, <1>3 DEF n

\* Two sums, where a value is within the sum of two.
LEMMA TotalOfSums ==
  ASSUME NEW f, NEW g, NEW h, Summable(f), Summable(g), Summable(h), DOMAIN f \subseteq DOMAIN g,
         \A x \in DOMAIN f : f[x] <= g[x] + (IF x \in DOMAIN h THEN h[x] ELSE 0)
  PROVE  Total(f) <= Total(g) + Total(h)
<1> DEFINE A == Block(f, DOMAIN f)
           B == Block(g, DOMAIN g)
           C == Block(h, DOMAIN h)
           D == A \ B
           shift == [p \in D |-> <<p[1], p[2] - g[p[1]]>>]
<1>1. /\ \A x \in DOMAIN f : f[x] \in Nat
      /\ \A x \in DOMAIN g : g[x] \in Nat
      /\ \A x \in DOMAIN h : h[x] \in Nat
  BY DEF Summable
<1>2. ASSUME NEW p \in D
      PROVE  /\ p = <<p[1], p[2]>> /\ p[2] \in Nat /\ g[p[1]] \in Nat
             /\ <<p[1], p[2] - g[p[1]]>> \in C
  <2> DEFINE x == p[1]
             i == p[2]
  <2>1. x \in DOMAIN f /\ x \in DOMAIN g /\ i \in Nat /\ i \in 1 .. f[x] /\ p = <<x, i>>
    BY DEF Block
  <2> HIDE DEF x, i
  <2>2. i \notin 1 .. g[x]
    BY <2>1 DEF Block, x, i
  <2>3. i > g[x] /\ g[x] \in Nat /\ f[x] \in Nat
    BY <1>1, <2>1, <2>2
  <2>4. x \in DOMAIN h /\ i <= g[x] + h[x] /\ h[x] \in Nat
    BY <1>1, <2>1, <2>3
  <2>5. i - g[x] \in 1 .. h[x] /\ i - g[x] \in Nat
    BY <2>1, <2>3, <2>4
  <2>6. <<x, i - g[x]>> \in C
    BY <2>4, <2>5 DEF Block
  <2> QED
    BY <2>1, <2>3, <2>6 DEF x, i
<1>3. IsFiniteSet(B) /\ IsFiniteSet(C) /\ Total(f) = Cardinality(A) /\ Total(g) = Cardinality(B)
      /\ Total(h) = Cardinality(C) /\ IsFiniteSet(A)
  BY TotalIs
<1> HIDE DEF D, C
<1>4. shift \in Injection(D, C)
  <2>1. shift \in [D -> C]
    BY <1>2
  <2>2. ASSUME NEW p \in D, NEW q \in D, shift[p] = shift[q] PROVE p = q
    <3>1. p[1] = q[1] /\ p[2] - g[p[1]] = q[2] - g[q[1]]
      BY <2>2
    <3>2. g[p[1]] = g[q[1]] /\ p[2] \in Nat /\ q[2] \in Nat /\ g[q[1]] \in Nat
      BY <1>2, <3>1
    <3>3. p[2] - g[q[1]] = q[2] - g[q[1]]
      BY <3>1, <3>2
    <3>4. \A i, j, k \in Nat : i - k = j - k => i = j
      OBVIOUS
    <3>5. p[2] = q[2]
      BY <3>2, <3>3, <3>4
    <3> QED
      BY <1>2, <3>1, <3>5
  <2> HIDE DEF shift
  <2> QED
    BY <2>1, <2>2 DEF Injection, IsInjective
<1>5. IsFiniteSet(D) /\ Cardinality(D) <= Cardinality(C)
  BY <1>3, <1>4, FS_Injection
<1>6. A \subseteq B \cup D
  BY DEF D
<1> HIDE DEF A, B
<1>7. IsFiniteSet(B \cup D) /\ Cardinality(B \cup D) = Cardinality(B) + Cardinality(D) - Cardinality(B \cap D)
  BY <1>3, <1>5, FS_Union
<1>8. Cardinality(A) <= Cardinality(B \cup D)
  BY <1>6, <1>7, FS_Subset
<1>9. Cardinality(B \cap D) \in Nat /\ Cardinality(B) \in Nat /\ Cardinality(A) \in Nat
      /\ Cardinality(C) \in Nat /\ Cardinality(D) \in Nat
  BY <1>3, <1>5, FS_Intersection, FS_CardinalityType
<1> QED
  BY <1>3, <1>5, <1>7, <1>8, <1>9

\* A sum falls into two.
LEMMA TotalSplits ==
  ASSUME NEW f, Summable(f), NEW S \in SUBSET DOMAIN f
  PROVE  /\ Summable(Restrict(f, S)) /\ Summable(Restrict(f, DOMAIN f \ S))
         /\ Total(f) = Total(Restrict(f, S)) + Total(Restrict(f, DOMAIN f \ S))
<1> DEFINE g == Restrict(f, S)
           h == Restrict(f, DOMAIN f \ S)
           A == Block(f, DOMAIN f)
           B == Block(g, DOMAIN g)
           C == Block(h, DOMAIN h)
<1>1. DOMAIN g = S /\ DOMAIN h = DOMAIN f \ S
  BY DEF Restrict
<1>2. IsFiniteSet(S) /\ IsFiniteSet(DOMAIN f \ S)
  BY FS_Subset DEF Summable
<1>3. Summable(g) /\ Summable(h)
  BY <1>1, <1>2 DEF Summable, Restrict
<1>4. A = B \cup C /\ B \cap C = {}
  BY <1>1 DEF Block, Restrict
<1>5. IsFiniteSet(B) /\ IsFiniteSet(C) /\ Total(f) = Cardinality(A) /\ Total(g) = Cardinality(B)
      /\ Total(h) = Cardinality(C)
  BY <1>3, TotalIs
<1> HIDE DEF A, B, C
<1>6. Cardinality(B \cup C) = Cardinality(B) + Cardinality(C) - Cardinality(B \cap C)
  BY <1>5, FS_Union
<1>7. Cardinality(B \cap C) = 0 /\ Cardinality(B) \in Nat /\ Cardinality(C) \in Nat
  BY <1>4, <1>5, FS_EmptySet, FS_CardinalityType
<1> QED
  BY <1>3, <1>4, <1>5, <1>6, <1>7

\* The values at some arguments.
Part(f, k, T) == [x \in {y \in DOMAIN f : k[y] \in T} |-> f[x]]

GroupsWithin(f, k, g, T) == Total(Part(f, k, T)) <= Total(Restrict(g, T))

\* Values are within a sum if they are so group by group.
LEMMA TotalByGroup ==
  ASSUME NEW f, NEW g, NEW k, Summable(f), Summable(g),
         \A x \in DOMAIN f : k[x] \in DOMAIN g,
         \A t \in DOMAIN g : Total(Part(f, k, {t})) <= g[t]
  PROVE  Total(f) <= Total(g)
<1> DEFINE S == DOMAIN g
           bad == {n \in Nat : \E T \in SUBSET S : Cardinality(T) = n /\ ~GroupsWithin(f, k, g, T)}
<1>1. \A T \in SUBSET S : IsFiniteSet(T) /\ Cardinality(T) \in Nat
  BY FS_Subset, FS_CardinalityType DEF Summable
<1>2. \A T \in SUBSET S : Summable(Part(f, k, T)) /\ Summable(Restrict(g, T))
  <2> TAKE T \in SUBSET S
  <2>1. DOMAIN Part(f, k, T) \subseteq DOMAIN f /\ DOMAIN Restrict(g, T) = T
    BY DEF Part, Restrict
  <2>2. IsFiniteSet(DOMAIN Part(f, k, T))
    BY <2>1, FS_Subset DEF Summable
  <2> QED
    BY <1>1, <2>1, <2>2 DEF Summable, Part, Restrict
<1>3. ASSUME ~GroupsWithin(f, k, g, S) PROVE FALSE
  <2>1. PICK n \in bad : \A m \in bad : n <= m
    <3>1. Cardinality(S) \in bad
      BY <1>1, <1>3
    <3>2. bad \in SUBSET Nat /\ bad # {}
      BY <3>1
    <3> HIDE DEF bad
    <3> QED
      BY <3>2, LeastExists
  <2>2. PICK T \in SUBSET S : Cardinality(T) = n /\ ~GroupsWithin(f, k, g, T)
    BY <2>1
  <2>3. PICK t \in T : TRUE
    <3> SUFFICES ASSUME T = {} PROVE FALSE
      OBVIOUS
    <3>1. DOMAIN Part(f, k, {}) = {} /\ DOMAIN Restrict(g, {}) = {}
      BY DEF Part, Restrict
    <3>2. Total(Part(f, k, {})) = 0 /\ Total(Restrict(g, {})) = 0
      BY <3>1, TotalOfNothing
    <3> QED
      BY <2>2, <3>2 DEF GroupsWithin
  <2> DEFINE U == T \ {t}
  <2>4. U \in SUBSET S /\ Cardinality(U) = n - 1 /\ n - 1 \in Nat /\ n \in Nat
    <3>1. IsFiniteSet(T)
      BY <1>1
    <3>2. Cardinality(T \ {t}) = Cardinality(T) - 1
      BY <2>3, <3>1, FS_RemoveElement
    <3>3. Cardinality(T \ {t}) \in Nat
      BY <1>1
    <3> QED
      BY <2>2, <3>2, <3>3
  <2>5. GroupsWithin(f, k, g, U)
    <3>1. n - 1 \notin bad
      <4> HIDE DEF bad
      <4> QED
        BY <2>1, <2>4
    <3> QED
      BY <2>4, <3>1
  <2> HIDE DEF bad
  <2>6. Total(Part(f, k, T)) = Total(Part(f, k, {t})) + Total(Part(f, k, U))
    <3> DEFINE F == Part(f, k, T)
               A == {y \in DOMAIN f : k[y] \in {t}}
    <3>1. DOMAIN F = {y \in DOMAIN f : k[y] \in T} /\ A \in SUBSET DOMAIN F
      BY <2>3 DEF Part
    <3>2. Restrict(F, A) = Part(f, k, {t})
      BY <3>1 DEF Part, Restrict
    <3>3. DOMAIN F \ A = {y \in DOMAIN f : k[y] \in U}
      BY <3>1
    <3>4. Restrict(F, DOMAIN F \ A) = Part(f, k, U)
      BY <3>1, <3>3 DEF Part, Restrict
    <3>5. Summable(F)
      BY <1>2
    <3> HIDE DEF F, A
    <3>6. Total(F) = Total(Restrict(F, A)) + Total(Restrict(F, DOMAIN F \ A))
      BY <3>1, <3>5, TotalSplits
    <3> QED
      BY <3>2, <3>4, <3>6 DEF F
  <2>7. Total(Restrict(g, U)) + g[t] <= Total(Restrict(g, T))
    <3> DEFINE G == Restrict(g, T)
               H == Restrict(g, U)
    <3>1. DOMAIN G = T /\ DOMAIN H = U /\ (\A x \in T : G[x] = g[x]) /\ (\A x \in U : H[x] = g[x])
      BY DEF Restrict
    <3>2. Summable(G) /\ Summable(H) /\ g[t] \in Nat /\ t \notin U /\ U \subseteq T
      BY <1>2, <2>3, <2>4 DEF Summable
    <3> HIDE DEF G, H, U
    <3>3. \A y \in DOMAIN H \ {t} : H[y] <= G[y]
      BY <2>4, <3>1, <3>2 DEF Summable
    <3>4. g[t] + (IF t \in DOMAIN H THEN H[t] ELSE 0) <= G[t]
      BY <2>3, <3>1, <3>2
    <3>5. Total(H) + g[t] <= Total(G)
      BY <2>3, <3>1, <3>2, <3>3, <3>4, TotalFalls
    <3> QED
      BY <3>5 DEF G, H
  <2>8. Total(Part(f, k, {t})) <= g[t]
    BY <2>3
  <2>9. /\ Total(Part(f, k, {t})) \in Nat /\ Total(Part(f, k, U)) \in Nat /\ Total(Part(f, k, T)) \in Nat
        /\ Total(Restrict(g, U)) \in Nat /\ Total(Restrict(g, T)) \in Nat /\ g[t] \in Nat
    <3>1. {t} \in SUBSET S
      BY <2>3
    <3> QED
      BY <1>2, <2>3, <2>4, <3>1, TotalIs DEF Summable
  <2>10. Total(Part(f, k, T)) <= Total(Restrict(g, T))
    <3> HIDE DEF U
    <3> QED
      BY <2>5, <2>6, <2>7, <2>8, <2>9 DEF GroupsWithin
  <2> QED
    BY <2>2, <2>10 DEF GroupsWithin
<1>4. GroupsWithin(f, k, g, S)
  BY <1>3
<1>5. Total(Part(f, k, S)) = Total(f) /\ Total(Restrict(g, S)) = Total(g)
  <2>1. DOMAIN Part(f, k, S) = DOMAIN f /\ (\A x \in DOMAIN f : Part(f, k, S)[x] = f[x])
        /\ DOMAIN Restrict(g, S) = DOMAIN g /\ (\A x \in DOMAIN g : Restrict(g, S)[x] = g[x])
    BY DEF Part, Restrict
  <2>2. Summable(Part(f, k, S)) /\ Summable(Restrict(g, S))
    BY <1>2
  <2>3. \A x \in DOMAIN f : f[x] \in Nat
    BY DEF Summable
  <2>4. \A x \in DOMAIN g : g[x] \in Nat
    BY DEF Summable
  <2>5. Total(Part(f, k, S)) <= Total(f) /\ Total(f) <= Total(Part(f, k, S))
    BY <2>1, <2>2, <2>3, TotalWithin
  <2>6. Total(Restrict(g, S)) <= Total(g) /\ Total(g) <= Total(Restrict(g, S))
    BY <2>1, <2>2, <2>4, TotalWithin
  <2>7. Total(Part(f, k, S)) \in Nat /\ Total(f) \in Nat /\ Total(Restrict(g, S)) \in Nat /\ Total(g) \in Nat
    BY <2>2, TotalIs
  <2> QED
    BY <2>5, <2>6, <2>7
<1> QED
  BY <1>4, <1>5 DEF GroupsWithin

-----------------------------------------------------------------------------
(***************************************************************************)
(* The counters.                                                           *)
(***************************************************************************)
Raw == Nat \cup {Unknown}
Ident == Id \cup {NoId}

\* The growth found in a report is never negative and never exceeds what the
\* report says was sent over the present connection.
LEMMA DeltaBounds ==
  ASSUME NEW current \in Raw, NEW previous \in Raw
  PROVE  CounterDelta(current, previous) \in 0 .. Positive(current) /\ CounterDelta(current, previous) \in Nat
BY DEF CounterDelta, Raw, Unknown, Positive

\* A connection counted from its first report on is counted exactly: as long
\* as its counter only grows, baseline and growth add up to the last report.
LEMMA DeltaExact ==
  ASSUME NEW current \in Nat, NEW previous \in Raw, previous <= current
  PROVE  Positive(previous) + CounterDelta(current, previous) = current
BY DEF CounterDelta, Raw, Unknown, Positive

\* A byte more is at most a byte more to count.
LEMMA DeltaOfOneMore ==
  ASSUME NEW current \in Nat, NEW previous \in Raw
  PROVE  /\ CounterDelta(current + 1, previous) <= CounterDelta(current, previous) + 1
         /\ CounterDelta(0, previous) = 0
         /\ current <= Positive(previous) + CounterDelta(current, previous)
BY DEF CounterDelta, Raw, Unknown, Positive

\* A total is a report or unknown again, and grows by what is found.
LEMMA AccumulateGrows ==
  ASSUME NEW total \in Raw, NEW current \in Raw, NEW previous \in Raw
  PROVE  /\ AccumulateCounter(total, current, previous) \in Raw
         /\ Positive(AccumulateCounter(total, current, previous))
              = Positive(total) + CounterDelta(current, previous)
<1>1. CounterDelta(current, previous) \in Nat /\ (current < 0 => CounterDelta(current, previous) = 0)
  BY DeltaBounds DEF CounterDelta
<1> QED
  BY <1>1 DEF AccumulateCounter, Raw, Unknown, Positive

\* What AlignPeerTrafficCounter makes of a counter's baseline and identity.
Base(counter, id) == IF id = NoId \/ counter.id \in {NoId, id} THEN counter.up ELSE 0
NextId(counter, id) == IF id = NoId THEN counter.id ELSE id

LEMMA AlignIs ==
  ASSUME NEW counter \in Counter, NEW id \in Ident
  PROVE  AlignPeerTrafficCounter(counter, id) = [up |-> Base(counter, id), id |-> NextId(counter, id)]
BY DEF AlignPeerTrafficCounter, Counter, Base, NextId

LEMMA AlignTypes ==
  ASSUME NEW counter \in Counter, NEW id \in Ident
  PROVE  /\ Base(counter, id) \in Raw /\ NextId(counter, id) \in Ident
         /\ Positive(Base(counter, id)) <= Positive(counter.up)
<1>1. counter.up \in Raw /\ counter.id \in Ident
  BY DEF Counter, Raw, Ident
<1> QED
  BY <1>1 DEF Base, NextId, Raw, Positive, Unknown

\* A report, of all or of nothing, takes what it adds to the total off what is
\* still to be counted.
LEMMA ReportPays ==
  ASSUME NEW r \in Nat, NEW pe \in Ident, NEW up \in {r, Unknown}, NEW id \in Ident,
         id = pe \/ (id = NoId /\ r = 0),
         NEW old \in Counter, NEW new \in Counter,
         new.up = Baseline(up, Base(old, id)), new.id = NextId(old, id)
  PROVE  CounterDelta(r, Base(new, pe)) + CounterDelta(up, Base(old, id)) <= CounterDelta(r, Base(old, pe))
<1>1. /\ Base(old, id) \in Raw /\ Base(old, pe) \in Raw /\ Base(new, pe) \in Raw
      /\ new.up \in Raw /\ up \in Raw /\ r \in Raw
  BY AlignTypes DEF Counter, Raw
<1>2. CASE id # pe
  <2>1. r = 0 /\ CounterDelta(r, Base(new, pe)) = 0 /\ CounterDelta(r, Base(old, pe)) = 0
    BY <1>1, <1>2, DeltaOfOneMore
  <2>2. CounterDelta(up, Base(old, id)) = 0
    <3>1. CASE up = r
      BY <1>1, <2>1, <3>1, DeltaOfOneMore
    <3>2. CASE up = Unknown
      BY <3>2 DEF CounterDelta, Unknown
    <3> QED
      BY <3>1, <3>2
  <2> QED
    BY <2>1, <2>2
<1>3. CASE id = pe
  <2>1. Base(new, pe) = new.up
    BY <1>3 DEF Base, NextId
  <2>2. CASE up = r
    <3>1. new.up = r
      BY <2>2 DEF Baseline
    <3>2. CounterDelta(r, r) = 0
      BY DEF CounterDelta
    <3>3. CounterDelta(r, Base(old, pe)) \in Nat
      BY <1>1, DeltaBounds
    <3> QED
      BY <1>3, <2>1, <2>2, <3>1, <3>2, <3>3
  <2>3. CASE up = Unknown
    <3>1. new.up = Base(old, id) /\ CounterDelta(up, Base(old, id)) = 0
      BY <2>3 DEF Baseline, CounterDelta, Unknown
    <3>2. CounterDelta(r, Base(old, pe)) \in Nat
      BY <1>1, DeltaBounds
    <3> QED
      BY <1>3, <2>1, <3>1, <3>2
  <2> QED
    BY <2>2, <2>3
<1> QED
  BY <1>2, <1>3

\* A baseline grows by no more than the total does.
LEMMA BaselineGrows ==
  ASSUME NEW old \in Counter, NEW up \in Raw, NEW id \in Ident
  PROVE  /\ Baseline(up, Base(old, id)) \in Raw
         /\ Positive(Baseline(up, Base(old, id))) <= Positive(old.up) + CounterDelta(up, Base(old, id))
<1>1. old.up \in Raw /\ Base(old, id) \in Raw /\ Positive(Base(old, id)) <= Positive(old.up)
  BY AlignTypes DEF Counter, Raw
<1> QED
  BY <1>1 DEF Baseline, CounterDelta, Positive, Raw, Unknown

(***************************************************************************)
(* One report keeps every byte of the baseline in the total: if a total    *)
(* covers a baseline and something else, the other connections of the      *)
(* torrent, it covers the new baseline and as much else afterwards.        *)
(***************************************************************************)
THEOREM ReportKeepsCovered ==
  ASSUME NEW total \in Raw, NEW others \in Nat, NEW up \in Raw,
         NEW counter \in Counter, NEW id \in Ident,
         Positive(counter.up) + others <= Positive(total)
  PROVE  LET previous == AlignPeerTrafficCounter(counter, id).up
         IN  Positive(Baseline(up, previous)) + others
               <= Positive(AccumulateCounter(total, up, previous))
<1> DEFINE base == Base(counter, id)
           new == Positive(Baseline(up, base))
           old == Positive(counter.up)
           delta == CounterDelta(up, base)
<1>1. AlignPeerTrafficCounter(counter, id).up = base
  BY AlignIs
<1>2. base \in Raw /\ counter.up \in Raw
  BY AlignTypes DEF Counter, Raw
<1> HIDE DEF base
<1>3. new <= old + delta /\ delta \in Nat
  BY <1>2, BaselineGrows, DeltaBounds DEF base
<1>4. Positive(AccumulateCounter(total, up, base)) = Positive(total) + delta
  BY <1>2, AccumulateGrows
<1>5. new \in Nat /\ old \in Nat /\ Positive(total) \in Nat
  <2>1. Baseline(up, base) \in Raw
    BY <1>2 DEF Baseline
  <2>2. \A n \in Raw : Positive(n) \in Nat
    BY DEF Positive, Raw, Unknown
  <2> QED
    BY <1>2, <2>1, <2>2
<1> HIDE DEF new, old, delta
<1>6. new + others <= Positive(total) + delta
  BY <1>3, <1>5 DEF old
<1> QED
  BY <1>1, <1>4, <1>6 DEF new

-----------------------------------------------------------------------------
(***************************************************************************)
(* The ledger.  What is still to be counted of a connection is what the    *)
(* next report of it would add to a total, given the baselines that there  *)
(* are: a map of counters, which is one of the statistics' or a ban's.     *)
(***************************************************************************)
CounterAt(cs, c) == IF c \in DOMAIN cs THEN [up |-> cs[c].up, id |-> cs[c].id] ELSE NoCounter

Counters(cs) == \A k \in DOMAIN cs : [up |-> cs[k].up, id |-> cs[k].id] \in Counter

Pendings(rw, pr, cs) == [c \in DOMAIN rw |-> CounterDelta(rw[c], Base(CounterAt(cs, c), pr[c]))]

\* Over the connections of an IP.
OfIP(p, ip) == [c \in {k \in DOMAIN p : IPOf[k] = ip} |-> p[c]]
Owed(p, ip) == Total(OfIP(p, ip))

\* A function of connections, as pendings and the bytes sent are.
Amounts(p) == DOMAIN p \subseteq Conn /\ \A c \in DOMAIN p : p[c] \in Nat

LEMMA NoCounterIs ==
  /\ NoCounter \in Counter /\ NoCounter.up = Unknown
  /\ \A id : Base(NoCounter, id) = Unknown
BY DEF NoCounter, Counter, Base, Unknown

LEMMA CounterAtType ==
  ASSUME NEW cs, Counters(cs), NEW c
  PROVE  CounterAt(cs, c) \in Counter
BY NoCounterIs DEF CounterAt, Counters

LEMMA OwedType ==
  ASSUME NEW p, Amounts(p), NEW ip
  PROVE  /\ Summable(OfIP(p, ip)) /\ Owed(p, ip) \in Nat
         /\ DOMAIN OfIP(p, ip) = {k \in DOMAIN p : IPOf[k] = ip}
         /\ \A c \in DOMAIN OfIP(p, ip) : OfIP(p, ip)[c] = p[c]
<1>1. /\ DOMAIN OfIP(p, ip) = {k \in DOMAIN p : IPOf[k] = ip}
      /\ \A c \in DOMAIN OfIP(p, ip) : OfIP(p, ip)[c] = p[c]
  BY DEF OfIP
<1>2. IsFiniteSet(DOMAIN OfIP(p, ip))
  BY <1>1, EndpointsAssumption, FS_Subset DEF Amounts
<1>3. Summable(OfIP(p, ip))
  BY <1>1, <1>2 DEF Summable, Amounts
<1> QED
  BY <1>1, <1>3, TotalIs DEF Owed

LEMMA OwedWithin ==
  ASSUME NEW p, NEW q, Amounts(p), Amounts(q), NEW ip, DOMAIN q \subseteq DOMAIN p,
         \A c \in DOMAIN q : IPOf[c] = ip => q[c] <= p[c]
  PROVE  Owed(q, ip) <= Owed(p, ip)
<1> DEFINE f == OfIP(q, ip)
           g == OfIP(p, ip)
<1>1. /\ Summable(f) /\ DOMAIN f = {k \in DOMAIN q : IPOf[k] = ip} /\ \A c \in DOMAIN f : f[c] = q[c]
      /\ Summable(g) /\ DOMAIN g = {k \in DOMAIN p : IPOf[k] = ip} /\ \A c \in DOMAIN g : g[c] = p[c]
  BY OwedType
<1> HIDE DEF f, g
<1>2. DOMAIN f \subseteq DOMAIN g /\ \A x \in DOMAIN f : f[x] <= g[x]
  BY <1>1
<1>3. Total(f) <= Total(g)
  BY <1>1, <1>2, TotalWithin
<1> QED
  BY <1>3 DEF Owed, f, g

LEMMA OwedGrows ==
  ASSUME NEW p, NEW q, Amounts(p), Amounts(q), NEW c \in DOMAIN p, NEW n \in Nat,
         DOMAIN q \subseteq DOMAIN p,
         \A k \in DOMAIN q \ {c} : q[k] <= p[k],
         c \in DOMAIN q => q[c] <= n + p[c]
  PROVE  Owed(q, IPOf[c]) <= Owed(p, IPOf[c]) + n
<1> DEFINE ip == IPOf[c]
           f == OfIP(q, ip)
           g == OfIP(p, ip)
<1>1. /\ Summable(f) /\ DOMAIN f = {k \in DOMAIN q : IPOf[k] = ip} /\ \A k \in DOMAIN f : f[k] = q[k]
      /\ Summable(g) /\ DOMAIN g = {k \in DOMAIN p : IPOf[k] = ip} /\ \A k \in DOMAIN g : g[k] = p[k]
  BY OwedType
<1>2. c \in DOMAIN g
  BY <1>1
<1> HIDE DEF f, g, ip
<1>3. DOMAIN f \subseteq DOMAIN g \cup {c} /\ (\A y \in DOMAIN f \ {c} : f[y] <= g[y])
      /\ (c \in DOMAIN f => f[c] <= n + (IF c \in DOMAIN g THEN g[c] ELSE 0))
  BY <1>1, <1>2
<1>4. Total(f) <= Total(g) + n
  BY <1>1, <1>3, TotalGrows
<1> QED
  BY <1>4 DEF Owed, f, g, ip

LEMMA OwedFalls ==
  ASSUME NEW p, NEW q, Amounts(p), Amounts(q), NEW c \in DOMAIN p, NEW n \in Nat,
         DOMAIN q = DOMAIN p,
         \A k \in DOMAIN q \ {c} : IPOf[k] = IPOf[c] => q[k] <= p[k],
         n + q[c] <= p[c]
  PROVE  Owed(q, IPOf[c]) + n <= Owed(p, IPOf[c])
<1> DEFINE ip == IPOf[c]
           f == OfIP(q, ip)
           g == OfIP(p, ip)
<1>1. /\ Summable(f) /\ DOMAIN f = {k \in DOMAIN q : IPOf[k] = ip} /\ \A k \in DOMAIN f : f[k] = q[k]
      /\ Summable(g) /\ DOMAIN g = {k \in DOMAIN p : IPOf[k] = ip} /\ \A k \in DOMAIN g : g[k] = p[k]
  BY OwedType
<1>2. c \in DOMAIN g /\ c \in DOMAIN f /\ DOMAIN f \subseteq DOMAIN g /\ \A k \in DOMAIN f : IPOf[k] = IPOf[c]
  BY <1>1
<1> HIDE DEF f, g, ip
<1>3. (\A y \in DOMAIN f \ {c} : f[y] <= g[y]) /\ n + (IF c \in DOMAIN f THEN f[c] ELSE 0) <= g[c]
  BY <1>1, <1>2
<1>4. Total(f) + n <= Total(g)
  BY <1>1, <1>2, <1>3, TotalFalls
<1> QED
  BY <1>4 DEF Owed, f, g, ip

\* What is owed after counters were forgotten: no more than before and what
\* the counters held.
LEMMA OwedOfSums ==
  ASSUME NEW p, NEW q, NEW h, Amounts(p), Amounts(q), Summable(h), NEW ip, DOMAIN q \subseteq DOMAIN p,
         \A c \in DOMAIN q : IPOf[c] = ip => q[c] <= p[c] + (IF c \in DOMAIN h THEN h[c] ELSE 0)
  PROVE  Owed(q, ip) <= Owed(p, ip) + Total(h)
<1> DEFINE f == OfIP(q, ip)
           g == OfIP(p, ip)
<1>1. /\ Summable(f) /\ DOMAIN f = {k \in DOMAIN q : IPOf[k] = ip} /\ \A c \in DOMAIN f : f[c] = q[c]
      /\ Summable(g) /\ DOMAIN g = {k \in DOMAIN p : IPOf[k] = ip} /\ \A c \in DOMAIN g : g[c] = p[c]
  BY OwedType
<1> HIDE DEF f, g
<1>2. DOMAIN f \subseteq DOMAIN g
      /\ \A x \in DOMAIN f : f[x] <= g[x] + (IF x \in DOMAIN h THEN h[x] ELSE 0)
  BY <1>1
<1>3. Total(f) <= Total(g) + Total(h)
  BY <1>1, <1>2, TotalOfSums
<1> QED
  BY <1>3 DEF Owed, f, g

LEMMA PendingsType ==
  ASSUME NEW rw, NEW pr, NEW cs, Amounts(rw), Counters(cs), \A c \in DOMAIN rw : pr[c] \in Ident
  PROVE  /\ Amounts(Pendings(rw, pr, cs)) /\ DOMAIN Pendings(rw, pr, cs) = DOMAIN rw
         /\ \A c \in DOMAIN rw :
              /\ Pendings(rw, pr, cs)[c] = CounterDelta(rw[c], Base(CounterAt(cs, c), pr[c]))
              /\ Base(CounterAt(cs, c), pr[c]) \in Raw
              /\ Pendings(rw, pr, cs)[c] <= rw[c]
<1>1. \A c \in DOMAIN rw : Base(CounterAt(cs, c), pr[c]) \in Raw
  BY CounterAtType, AlignTypes
<1>2. \A c \in DOMAIN rw : /\ CounterDelta(rw[c], Base(CounterAt(cs, c), pr[c])) \in Nat
                           /\ CounterDelta(rw[c], Base(CounterAt(cs, c), pr[c])) <= rw[c]
  <2> TAKE c \in DOMAIN rw
  <2>1. rw[c] \in Nat /\ rw[c] \in Raw /\ Positive(rw[c]) = rw[c]
    BY DEF Amounts, Raw, Positive
  <2> QED
    BY <1>1, <2>1, DeltaBounds
<1> QED
  BY <1>1, <1>2 DEF Pendings, Amounts

\* Where there are no counters, all is owed.
LEMMA PendingsOfNothing ==
  ASSUME NEW rw, NEW pr, NEW cs, Amounts(rw), NEW c \in DOMAIN rw, c \notin DOMAIN cs
  PROVE  Pendings(rw, pr, cs)[c] = rw[c]
<1>1. Base(CounterAt(cs, c), pr[c]) = Unknown
  BY NoCounterIs DEF CounterAt
<1> QED
  BY <1>1 DEF Pendings, CounterDelta, Unknown, Amounts

\* What is owed of a connection does not depend on other counters.
LEMMA PendingsAgree ==
  ASSUME NEW rw, NEW pr, NEW cs, NEW ds, NEW c \in DOMAIN rw, CounterAt(cs, c) = CounterAt(ds, c)
  PROVE  Pendings(rw, pr, cs)[c] = Pendings(rw, pr, ds)[c]
BY DEF Pendings

\* A connection carries on, or is over.
Quiet(rw, pr, rw2, pr2) ==
  /\ Amounts(rw) /\ Amounts(rw2) /\ DOMAIN rw2 = DOMAIN rw
  /\ \A c \in DOMAIN rw : /\ pr[c] \in Ident /\ pr2[c] \in Ident
                          /\ rw2[c] = 0 \/ (rw2[c] = rw[c] /\ pr2[c] = pr[c])

LEMMA QuietPendings ==
  ASSUME NEW rw, NEW pr, NEW rw2, NEW pr2, Quiet(rw, pr, rw2, pr2), NEW cs, NEW ds, Counters(cs), Counters(ds),
         NEW c \in DOMAIN rw, rw2[c] # 0 => CounterAt(ds, c) = CounterAt(cs, c)
  PROVE  Pendings(rw2, pr2, ds)[c] <= Pendings(rw, pr, cs)[c]
<1>1. /\ Pendings(rw, pr, cs)[c] \in Nat /\ Pendings(rw2, pr2, ds)[c] \in Nat
      /\ Pendings(rw2, pr2, ds)[c] <= rw2[c]
  BY PendingsType DEF Quiet, Amounts
<1>2. CASE rw2[c] = 0
  BY <1>1, <1>2
<1>3. CASE rw2[c] # 0
  <2>1. rw2[c] = rw[c] /\ pr2[c] = pr[c] /\ CounterAt(ds, c) = CounterAt(cs, c)
    BY <1>3 DEF Quiet
  <2>2. Pendings(rw, pr, cs)[c] = Pendings(rw2, pr2, ds)[c]
    BY <2>1 DEF Pendings, Quiet
  <2> QED
    BY <1>1, <2>2
<1> QED
  BY <1>2, <1>3

\* A byte more over one connection.
OneMore(rw, c, rw2) ==
  /\ c \in DOMAIN rw /\ DOMAIN rw2 = DOMAIN rw
  /\ rw2[c] = rw[c] + 1 /\ \A k \in DOMAIN rw \ {c} : rw2[k] = rw[k]

LEMMA SendPendings ==
  ASSUME NEW rw, NEW pr, NEW cs, Amounts(rw), Counters(cs), \A c \in DOMAIN rw : pr[c] \in Ident,
         NEW c, NEW rw2, OneMore(rw, c, rw2)
  PROVE  /\ Amounts(rw2) /\ DOMAIN rw2 = DOMAIN rw
         /\ Pendings(rw2, pr, cs)[c] <= 1 + Pendings(rw, pr, cs)[c]
         /\ \A k \in DOMAIN rw \ {c} : Pendings(rw2, pr, cs)[k] = Pendings(rw, pr, cs)[k]
<1>1. /\ Amounts(rw2) /\ DOMAIN rw2 = DOMAIN rw /\ rw2[c] = rw[c] + 1 /\ c \in DOMAIN rw
      /\ \A k \in DOMAIN rw \ {c} : rw2[k] = rw[k]
  BY DEF Amounts, OneMore
<1>2. /\ Pendings(rw, pr, cs)[c] = CounterDelta(rw[c], Base(CounterAt(cs, c), pr[c]))
      /\ Base(CounterAt(cs, c), pr[c]) \in Raw /\ rw[c] \in Nat
      /\ Pendings(rw2, pr, cs)[c] = CounterDelta(rw[c] + 1, Base(CounterAt(cs, c), pr[c]))
  <2>1. Base(CounterAt(cs, c), pr[c]) \in Raw
    BY <1>1, PendingsType
  <2> QED
    BY <1>1, <2>1 DEF Pendings, Amounts
<1>3. CounterDelta(rw[c] + 1, Base(CounterAt(cs, c), pr[c]))
        <= CounterDelta(rw[c], Base(CounterAt(cs, c), pr[c])) + 1
  BY <1>2, DeltaOfOneMore
<1>4. Pendings(rw, pr, cs)[c] \in Nat /\ Pendings(rw2, pr, cs)[c] \in Nat
  BY <1>1, PendingsType DEF Amounts
<1>5. \A k \in DOMAIN rw \ {c} : Pendings(rw2, pr, cs)[k] = Pendings(rw, pr, cs)[k]
  BY <1>1 DEF Pendings
<1>6. Pendings(rw2, pr, cs)[c] <= 1 + Pendings(rw, pr, cs)[c]
  BY <1>2, <1>3, <1>4
<1> QED
  BY <1>1, <1>5, <1>6

KnownOf(cs) == [k \in DOMAIN cs |-> Positive(cs[k].up)]

\* What was counted, by the torrents of the IPs; of one IP.
Sums(pd) == DOMAIN pd \subseteq Torrent /\ \A t \in DOMAIN pd : pd[t] \in Nat
PaidOf(pd, ip) == [t \in {u \in DOMAIN pd : u[1] = ip} |-> pd[t]]
Paid(pd, ip) == Total(PaidOf(pd, ip))

\* The totals of the torrents cover what there is at their connections.
At(f, t) == [c \in {k \in DOMAIN f : TorrentOf(k) = t} |-> f[c]]
Covers(pd, f) ==
  /\ \A c \in DOMAIN f : TorrentOf(c) \in DOMAIN pd
  /\ \A t \in DOMAIN pd : Total(At(f, t)) <= pd[t]

\* What was counted of an IP and is still to be counted was sent to it.
Ledger(rw, pr, pd, cs, n, ip) == Paid(pd, ip) + Owed(Pendings(rw, pr, cs), ip) <= n

-----------------------------------------------------------------------------
(***************************************************************************)
(* The invariant.  Of the traffic: what is sent over the present           *)
(* connections was sent to the IP, and so was the total of a ban with what *)
(* is still to be added to it, except for what a baseline under port -1    *)
(* stands for, which belongs to no connection.                             *)
(***************************************************************************)
Portless(b) == Known(Restrict(b.counters, DOMAIN b.counters \cap Torrent))

BanOK(rw, pr, n, b, ip) ==
  /\ b.uploaded \in Nat
  /\ DOMAIN b.counters \subseteq Conn \cup Torrent
  /\ \A k \in DOMAIN b.counters : b.counters[k] \in Counter
  /\ Known(b.counters) <= b.uploaded
  /\ Owed(Pendings(rw, pr, b.counters), ip) + b.uploaded <= n + Portless(b)

TrafficInv ==
  /\ swarm \in Swarms
  /\ raw \in [swarm -> Nat]
  /\ peer \in [swarm -> Ident] /\ \A c \in swarm : peer[c] \in PeersAt[c]
  /\ sent \in [IP -> Nat]
  /\ \A ip \in IP : Owed(raw, ip) <= sent[ip]
  /\ Banned \subseteq IP
  /\ \A ip \in Banned : BanOK(raw, peer, sent[ip], banned[ip], ip)

\* Of the statistics by IP: a total with what is still to be added to it, over
\* the baselines that the next report will find.
FreshOf(cs) == Restrict(cs, {c \in DOMAIN cs : cs[c].age <= Retention})

UploadsOf(ts) == [t \in DOMAIN ts |-> Positive(ts[t].uploaded)]

\* What a check compares with its limit, for every torrent of an IP.
GrownBy(ts, last, ip) ==
  [t \in {u \in DOMAIN ts : u[1] = ip} |->
     CounterDelta(ts[t].observed, IF t \in DOMAIN last THEN last[t] ELSE 0)]

\* A connection carries on from its baseline, with what the history says was
\* sent since then, or began after the last report of a counter.
Tracked(r, n, id, since) ==
  /\ since \in Nat
  /\ \/ n <= since
     \/ /\ Base(r, id) = r.up
        /\ r.up >= 0 => r.up <= n /\ n <= r.up + since

Aged == [up : Raw, id : Ident, age : Age]
Observed == [observed : Nat, uploaded : Raw, age : Age]

IPTypes ==
  /\ DOMAIN counters \subseteq swarm /\ counters \in [DOMAIN counters -> Aged]
  /\ DOMAIN torrents \subseteq Torrent /\ torrents \in [DOMAIN torrents -> Observed]
  /\ DOMAIN ipAge \subseteq IP /\ ipAge \in [DOMAIN ipAge -> Age]
  /\ DOMAIN lastObserved \subseteq DOMAIN torrents
  /\ \A t \in DOMAIN lastObserved : lastObserved[t] \in 0 .. torrents[t].observed
  /\ checkAge \in Age \cup {Never}
  /\ unrecorded \in [swarm -> Raw]
  /\ window \in [IP -> Nat]

IPInv ==
  /\ IPTypes
  /\ \A c \in DOMAIN counters : Tracked(counters[c], raw[c], peer[c], unrecorded[c])
  /\ Covers(UploadsOf(torrents), KnownOf(counters))
  /\ \A ip \in IP : Total(GrownBy(torrents, lastObserved, ip)) <= window[ip]
  /\ \A ip \in IP : Ledger(raw, peer, UploadsOf(torrents), FreshOf(counters), sent[ip], ip)

NoIPs == counters = Empty /\ torrents = Empty /\ ipAge = Empty /\ lastObserved = Empty /\ checkAge = Never

\* Of the statistics by torrent, likewise; and what a connection and its
\* snapshot say of the peers they are about.
TotalsOf(cs) == [c \in DOMAIN cs |-> Positive(cs[c].total)]

PeersUploadsOf(pu) == [t \in DOMAIN pu |-> Positive(pu[t])]

ConnOK(r, c, seen) ==
  /\ r \in Statistics
  /\ Positive(r.up) <= Positive(r.total)
  /\ r.raw \in {r.up, Unknown}
  /\ r.id \in PeersAt[c] \cup {NoId}
  /\ seen \in PeersAt[c]
  /\ r.raw > 0 => r.id = seen

Continues(last, now) ==
  /\ last.session <= now.session
  /\ Positive(last.total) <= Positive(now.total)
  /\ last.session = now.session => /\ last.up <= now.up
                                   /\ last.id # NoId => now.id = last.id

TorrentTypes ==
  /\ DOMAIN conns \subseteq swarm /\ conns \in [DOMAIN conns -> Statistics]
  /\ DOMAIN lastConns \subseteq DOMAIN conns /\ lastConns \in [DOMAIN lastConns -> Statistics]
  /\ DOMAIN peerUploaded \subseteq Torrent /\ peerUploaded \in [DOMAIN peerUploaded -> Raw]
  /\ torrentAge \in Age \cup {Never}
  /\ seenPeer \in [swarm -> Ident] /\ checkedPeer \in [swarm -> Ident]

TorrentInv ==
  /\ TorrentTypes
  /\ \A c \in DOMAIN conns : ConnOK(conns[c], c, seenPeer[c])
  /\ \A c \in DOMAIN lastConns : ConnOK(lastConns[c], c, checkedPeer[c]) /\ Continues(lastConns[c], conns[c])
  /\ Covers(PeersUploadsOf(peerUploaded), TotalsOf(conns))
  /\ \A ip \in IP : Ledger(raw, peer, PeersUploadsOf(peerUploaded), FreshOf(conns), sent[ip], ip)

NoTorrents == conns = Empty /\ peerUploaded = Empty /\ lastConns = Empty /\ torrentAge = Never

\* No ban of the statistics by torrent is filed under port -1.
BansOfConns == \A ip \in Banned : DOMAIN banned[ip].counters \subseteq Conn

StatisticsInv ==
  /\ TrafficInv
  /\ \/ sampling = "IP" /\ IPInv /\ NoTorrents
     \/ sampling = "torrents" /\ TorrentInv /\ BansOfConns /\ NoIPs

-----------------------------------------------------------------------------
(* The bans.                                                               *)

LEMMA TorrentsFinite == IsFiniteSet(Torrent) /\ IsFiniteSet(Conn) /\ IsFiniteSet(Conn \cup Torrent)
<1> DEFINE h == [c \in Conn |-> TorrentOf(c)]
<1>1. h \in Surjection(Conn, Torrent)
  BY DEF Surjection, Torrent
<1>2. IsFiniteSet(Conn)
  BY EndpointsAssumption
<1>3. IsFiniteSet(Torrent)
  <2> HIDE DEF h
  <2> QED
    BY <1>1, <1>2, FS_Surjection
<1> QED
  BY <1>2, <1>3, FS_Union

\* The keys of counters.
Keyed(cs) == DOMAIN cs \subseteq Conn \cup Torrent /\ Counters(cs)

LEMMA KnownType ==
  ASSUME NEW cs, Keyed(cs)
  PROVE  /\ Summable(KnownOf(cs)) /\ Known(cs) = Total(KnownOf(cs)) /\ Known(cs) \in Nat
         /\ DOMAIN KnownOf(cs) = DOMAIN cs
         /\ \A k \in DOMAIN cs : KnownOf(cs)[k] = Positive(cs[k].up) /\ Positive(cs[k].up) \in Nat
                                 /\ cs[k].up \in Raw
<1>1. DOMAIN KnownOf(cs) = DOMAIN cs /\ \A k \in DOMAIN cs : KnownOf(cs)[k] = Positive(cs[k].up)
  BY DEF KnownOf
<1>2. \A k \in DOMAIN cs : cs[k].up \in Raw /\ Positive(cs[k].up) \in Nat
  <2> TAKE k \in DOMAIN cs
  <2>1. cs[k].up \in Raw
    BY DEF Keyed, Counters, Counter, Raw
  <2> QED
    BY <2>1 DEF Positive, Raw, Unknown
<1>3. IsFiniteSet(DOMAIN cs)
  BY TorrentsFinite, FS_Subset DEF Keyed
<1>4. Summable(KnownOf(cs))
  BY <1>1, <1>2, <1>3 DEF Summable
<1> QED
  BY <1>1, <1>2, <1>4, TotalIs DEF Known, KnownOf

\* The connections, their peers and what they were sent, as the environment
\* has them.
Connected(rw, pr) == Amounts(rw) /\ \A c \in DOMAIN rw : pr[c] \in Ident

\* A report of a connection: its counter or nothing, with the peer's ID unless
\* nothing was sent yet.
Reported(rw, pr, c, up, id) ==
  /\ c \in DOMAIN rw /\ up \in {rw[c], Unknown}
  /\ id \in Ident /\ (id = pr[c] \/ (id = NoId /\ rw[c] = 0))

LEMMA BanTypes ==
  ASSUME NEW rw, NEW pr, Connected(rw, pr), NEW n \in Nat, NEW b, NEW ip, BanOK(rw, pr, n, b, ip)
  PROVE  /\ Keyed(b.counters) /\ b.uploaded \in Nat /\ Known(b.counters) \in Nat /\ Portless(b) \in Nat
         /\ Amounts(Pendings(rw, pr, b.counters)) /\ DOMAIN Pendings(rw, pr, b.counters) = DOMAIN rw
         /\ Owed(Pendings(rw, pr, b.counters), ip) \in Nat
<1>1. \A r \in Counter : [up |-> r.up, id |-> r.id] \in Counter
  BY DEF Counter
<1>2. Keyed(b.counters) /\ b.uploaded \in Nat
  BY <1>1 DEF BanOK, Keyed, Counters
<1>3. Keyed(Restrict(b.counters, DOMAIN b.counters \cap Torrent))
  BY <1>2 DEF Keyed, Counters, Restrict
<1>4. Known(b.counters) \in Nat /\ Portless(b) \in Nat
  BY <1>2, <1>3, KnownType DEF Portless
<1>5. Amounts(Pendings(rw, pr, b.counters)) /\ DOMAIN Pendings(rw, pr, b.counters) = DOMAIN rw
  BY <1>2, PendingsType DEF Keyed, Connected
<1> QED
  BY <1>2, <1>4, <1>5, OwedType

LEMMA BanQuiet ==
  ASSUME NEW rw, NEW pr, NEW rw2, NEW pr2, Quiet(rw, pr, rw2, pr2),
         NEW n \in Nat, NEW b, NEW ip, BanOK(rw, pr, n, b, ip)
  PROVE  BanOK(rw2, pr2, n, b, ip)
<1> DEFINE p == Pendings(rw, pr, b.counters)
           q == Pendings(rw2, pr2, b.counters)
<1>1. Connected(rw, pr) /\ Connected(rw2, pr2) /\ DOMAIN rw2 = DOMAIN rw
  BY DEF Quiet, Connected
<1>2. /\ Keyed(b.counters) /\ b.uploaded \in Nat /\ Portless(b) \in Nat
      /\ Amounts(p) /\ DOMAIN p = DOMAIN rw /\ Owed(p, ip) \in Nat
  BY <1>1, BanTypes
<1>3. Amounts(q) /\ DOMAIN q = DOMAIN rw
  BY <1>1, <1>2, PendingsType DEF Keyed, Connected
<1>4. \A c \in DOMAIN rw : q[c] <= p[c]
  BY <1>2, QuietPendings DEF Keyed
<1> HIDE DEF p, q
<1>5. Owed(q, ip) <= Owed(p, ip) /\ Owed(q, ip) \in Nat
  BY <1>2, <1>3, <1>4, OwedWithin, OwedType
<1>6. Owed(p, ip) + b.uploaded <= n + Portless(b)
  BY DEF BanOK, p
<1>7. Owed(q, ip) + b.uploaded <= n + Portless(b)
  BY <1>2, <1>5, <1>6
<1> QED
  BY <1>7 DEF BanOK, q

LEMMA BanSend ==
  ASSUME NEW rw, NEW pr, Connected(rw, pr), NEW c, NEW rw2, OneMore(rw, c, rw2),
         NEW n \in Nat, NEW b, NEW ip, BanOK(rw, pr, n, b, ip),
         NEW m \in Nat, m = IF IPOf[c] = ip THEN n + 1 ELSE n
  PROVE  BanOK(rw2, pr, m, b, ip)
<1> DEFINE p == Pendings(rw, pr, b.counters)
           q == Pendings(rw2, pr, b.counters)
<1>1. /\ Keyed(b.counters) /\ b.uploaded \in Nat /\ Portless(b) \in Nat
      /\ Amounts(p) /\ DOMAIN p = DOMAIN rw /\ Owed(p, ip) \in Nat
  BY BanTypes
<1>2. /\ Amounts(rw2) /\ DOMAIN rw2 = DOMAIN rw
      /\ c \in DOMAIN rw /\ q[c] <= 1 + p[c] /\ \A k \in DOMAIN rw \ {c} : q[k] = p[k]
  <2>1. Amounts(rw) /\ Counters(b.counters) /\ \A k \in DOMAIN rw : pr[k] \in Ident
    BY <1>1 DEF Keyed, Connected
  <2> QED
    BY <2>1, SendPendings DEF OneMore
<1>3. Amounts(q) /\ DOMAIN q = DOMAIN rw
  <2>1. Counters(b.counters) /\ \A k \in DOMAIN rw2 : pr[k] \in Ident
    BY <1>1, <1>2 DEF Keyed, Connected
  <2> QED
    BY <1>2, <2>1, PendingsType
<1> HIDE DEF p, q
<1>4. Owed(q, ip) <= Owed(p, ip) + (IF IPOf[c] = ip THEN 1 ELSE 0)
  <2>1. \A k \in DOMAIN rw \ {c} : q[k] <= p[k]
    BY <1>1, <1>2, <1>3 DEF Amounts
  <2>2. CASE IPOf[c] = ip
    BY <1>1, <1>2, <1>3, <2>1, <2>2, OwedGrows
  <2>3. CASE IPOf[c] # ip
    <3>1. \A k \in DOMAIN q : IPOf[k] = ip => q[k] <= p[k]
      BY <1>3, <2>1, <2>3
    <3>2. Owed(q, ip) <= Owed(p, ip)
      BY <1>1, <1>3, <3>1, OwedWithin
    <3> QED
      BY <1>1, <2>3, <3>2
  <2> QED
    BY <2>2, <2>3
<1>5. Owed(q, ip) \in Nat
  BY <1>3, OwedType
<1>6. Owed(p, ip) + b.uploaded <= n + Portless(b)
  BY DEF BanOK, p
<1>7. Owed(q, ip) + b.uploaded <= m + Portless(b)
  BY <1>1, <1>4, <1>5, <1>6
<1> QED
  BY <1>7 DEF BanOK, q

LEMMA BanUpdate ==
  ASSUME NEW rw, NEW pr, Connected(rw, pr), NEW c, NEW up, NEW id, Reported(rw, pr, c, up, id),
         NEW n \in Nat, NEW b, BanOK(rw, pr, n, b, IPOf[c])
  PROVE  BanOK(rw, pr, n, BlockedPeerCounterDelta(b, c, up, id), IPOf[c])
<1> DEFINE ip == IPOf[c]
           cs == b.counters
           old == CounterAt(cs, c)
           base == Base(old, id)
           new == [up |-> Baseline(up, base), id |-> NextId(old, id)]
           delta == CounterDelta(up, base)
           ds == With(cs, c, new)
           p == Pendings(rw, pr, cs)
           q == Pendings(rw, pr, ds)
<1>1. /\ Keyed(cs) /\ b.uploaded \in Nat /\ Known(cs) \in Nat /\ Portless(b) \in Nat
      /\ Amounts(p) /\ DOMAIN p = DOMAIN rw /\ Owed(p, ip) \in Nat
  BY BanTypes
<1>2. c \in DOMAIN rw /\ c \in Conn /\ c \notin Torrent /\ up \in Raw /\ id \in Ident /\ rw[c] \in Nat
  BY EndpointsAssumption DEF Reported, Connected, Amounts, Raw
<1>3. old \in Counter /\ base \in Raw /\ delta \in Nat /\ Baseline(up, base) \in Raw /\ NextId(old, id) \in Ident
  <2>1. old \in Counter
    BY <1>1, CounterAtType DEF Keyed
  <2>2. base \in Raw /\ NextId(old, id) \in Ident
    BY <1>2, <2>1, AlignTypes
  <2> QED
    BY <1>2, <2>1, <2>2, DeltaBounds DEF Baseline
<1>4. new \in Counter
  BY <1>3 DEF Counter, Raw, Ident
<1>5. BlockedPeerCounterDelta(b, c, up, id) = [uploaded |-> b.uploaded + delta, counters |-> ds]
  <2> DEFINE counter == IF c \in DOMAIN cs THEN cs[c] ELSE NoCounter
  <2>1. counter = old /\ counter \in Counter
    BY <1>3, NoCounterIs DEF CounterAt, BanOK, Counter
  <2>2. AlignPeerTrafficCounter(counter, id) = [up |-> base, id |-> NextId(old, id)]
    BY <1>2, <1>3, <2>1, AlignIs
  <2>3. CASE c \in DOMAIN cs
    BY <2>2, <2>3 DEF BlockedPeerCounterDelta
  <2>4. CASE c \notin DOMAIN cs
    <3>1. old = NoCounter /\ base = Unknown
      BY <2>4, NoCounterIs DEF CounterAt
    <3>2. Baseline(up, base) = up
      BY <1>2, <3>1 DEF Baseline, Raw, Unknown
    <3> QED
      BY <2>2, <2>4, <3>2 DEF BlockedPeerCounterDelta
  <2> QED
    BY <2>3, <2>4
<1>6. DOMAIN ds = DOMAIN cs \cup {c} /\ ds[c] = new /\ \A k \in DOMAIN cs \ {c} : ds[k] = cs[k]
  BY DEF With
<1>7. (\A k \in DOMAIN ds : ds[k] \in Counter) /\ Keyed(ds)
  <2>1. \A k \in DOMAIN ds : ds[k] \in Counter
    BY <1>4, <1>6 DEF BanOK
  <2>2. \A r \in Counter : [up |-> r.up, id |-> r.id] \in Counter
    BY DEF Counter
  <2> QED
    BY <1>1, <1>2, <1>6, <2>1, <2>2 DEF Keyed, Counters
<1>8. Known(ds) <= Known(cs) + delta /\ Known(ds) \in Nat
  <2> DEFINE f == KnownOf(ds)
             g == KnownOf(cs)
  <2>1. /\ Summable(f) /\ Known(ds) = Total(f) /\ DOMAIN f = DOMAIN ds /\ Known(ds) \in Nat
        /\ \A k \in DOMAIN ds : f[k] = Positive(ds[k].up) /\ f[k] \in Nat
        /\ Summable(g) /\ Known(cs) = Total(g) /\ DOMAIN g = DOMAIN cs
        /\ \A k \in DOMAIN cs : g[k] = Positive(cs[k].up) /\ g[k] \in Nat
    BY <1>1, <1>7, KnownType
  <2>2. f[c] = Positive(Baseline(up, base)) /\ f[c] <= Positive(old.up) + delta
    <3>1. Positive(Baseline(up, base)) <= Positive(old.up) + delta
      BY <1>2, <1>3, BaselineGrows
    <3> HIDE DEF old, base, delta
    <3> QED
      BY <1>6, <2>1, <3>1
  <2>3. Positive(old.up) = IF c \in DOMAIN cs THEN g[c] ELSE 0
    BY <2>1, NoCounterIs DEF CounterAt, Positive, Unknown
  <2> HIDE DEF f, g, ds, old, base, delta
  <2>4. f[c] <= delta + (IF c \in DOMAIN g THEN g[c] ELSE 0)
    BY <1>3, <2>1, <2>2, <2>3
  <2>5. (\A y \in DOMAIN f \ {c} : f[y] <= g[y]) /\ DOMAIN f \subseteq DOMAIN g \cup {c}
    BY <1>6, <2>1
  <2>6. Total(f) <= Total(g) + delta
    BY <1>3, <2>1, <2>4, <2>5, TotalGrows
  <2> QED
    BY <2>1, <2>6
<1>9. Restrict(ds, DOMAIN ds \cap Torrent) = Restrict(cs, DOMAIN cs \cap Torrent)
  <2>1. DOMAIN ds \cap Torrent = DOMAIN cs \cap Torrent
    BY <1>2, <1>6
  <2>2. \A k \in DOMAIN cs \cap Torrent : ds[k] = cs[k]
    BY <1>2, <1>6
  <2> HIDE DEF ds
  <2> QED
    BY <2>1, <2>2 DEF Restrict
<1>10. Owed(q, ip) + delta <= Owed(p, ip) /\ Owed(q, ip) \in Nat
  <2>1. Amounts(q) /\ DOMAIN q = DOMAIN rw
    BY <1>7, PendingsType DEF Keyed, Connected
  <2>2. \A k \in DOMAIN rw \ {c} : CounterAt(ds, k) = CounterAt(cs, k)
    BY <1>6 DEF CounterAt
  <2>3. \A k \in DOMAIN rw \ {c} : q[k] = p[k]
    BY <2>2, PendingsAgree
  <2>4. CounterAt(ds, c) = new
    BY <1>6 DEF CounterAt
  <2>5. q[c] = CounterDelta(rw[c], Base(new, pr[c])) /\ p[c] = CounterDelta(rw[c], Base(old, pr[c]))
    BY <1>2, <2>4 DEF Pendings
  <2>6. CounterDelta(rw[c], Base(new, pr[c])) + delta <= CounterDelta(rw[c], Base(old, pr[c]))
    <3>1. pr[c] \in Ident /\ up \in {rw[c], Unknown} /\ (id = pr[c] \/ (id = NoId /\ rw[c] = 0))
      BY <1>2 DEF Connected, Reported
    <3>2. new.up = Baseline(up, Base(old, id)) /\ new.id = NextId(old, id)
      OBVIOUS
    <3> HIDE DEF new, old
    <3> QED
      BY <1>2, <1>3, <1>4, <3>1, <3>2, ReportPays
  <2> HIDE DEF q, p, delta, ds, old, new
  <2>7. q[c] \in Nat /\ p[c] \in Nat /\ \A k \in DOMAIN q \ {c} : IPOf[k] = IPOf[c] => q[k] <= p[k]
    BY <1>1, <1>2, <2>1, <2>3 DEF Amounts
  <2>8. delta + q[c] <= p[c]
    BY <1>3, <2>5, <2>6, <2>7
  <2>9. Owed(q, IPOf[c]) + delta <= Owed(p, IPOf[c])
    BY <1>1, <1>2, <1>3, <2>1, <2>7, <2>8, OwedFalls
  <2> QED
    BY <2>1, <2>9, OwedType
<1>11. Owed(p, ip) + b.uploaded <= n + Portless(b) /\ Known(cs) <= b.uploaded
  BY DEF BanOK
<1> DEFINE b2 == [uploaded |-> b.uploaded + delta, counters |-> ds]
<1>12. b2.uploaded = b.uploaded + delta /\ b2.counters = ds /\ Portless(b2) = Portless(b)
  BY <1>9 DEF Portless
<1> HIDE DEF q, p, delta, ds, ip, b2
<1>13. b2.uploaded \in Nat /\ Known(b2.counters) <= b2.uploaded
  BY <1>1, <1>3, <1>8, <1>11, <1>12
<1>14. Owed(q, ip) + b2.uploaded <= n + Portless(b2)
  BY <1>1, <1>3, <1>10, <1>11, <1>12
<1>15. BanOK(rw, pr, n, b2, ip)
  BY <1>7, <1>12, <1>13, <1>14 DEF BanOK, q, Keyed
<1> QED
  BY <1>5, <1>15 DEF ip, b2

\* A sum of one value.
LEMMA TotalOfOne ==
  ASSUME NEW f, NEW x, DOMAIN f = {x}, f[x] \in Nat
  PROVE  Summable(f) /\ Total(f) = f[x]
<1> DEFINE g == [y \in {} |-> 0]
           n == f[x]
<1>1. Summable(g) /\ Total(g) = 0 /\ DOMAIN g = {}
  BY TotalOfNothing
<1>2. Summable(f)
  BY FS_Singleton DEF Summable
<1>3. n \in Nat /\ n <= Total(f) /\ Total(f) \in Nat
  BY <1>2, TotalIs, TotalCoversEach
<1> HIDE DEF g, n
<1>4. f[x] <= n + (IF x \in DOMAIN g THEN g[x] ELSE 0)
  BY <1>1, <1>3 DEF n
<1>5. Total(f) <= Total(g) + n
  BY <1>1, <1>2, <1>3, <1>4, TotalGrows
<1> QED
  BY <1>1, <1>2, <1>3, <1>5 DEF n

LEMMA KnownOfNothing ==
  ASSUME NEW cs, DOMAIN cs = {}
  PROVE  Known(cs) = 0 /\ Keyed(cs)
<1>1. DOMAIN KnownOf(cs) = {}
  BY DEF KnownOf
<1> QED
  BY <1>1, TotalOfNothing DEF Known, KnownOf, Keyed, Counters

\* A ban of which nothing is counted yet.
NoBan == [uploaded |-> 0, counters |-> Empty]

LEMMA BanNew ==
  ASSUME NEW rw, NEW pr, Connected(rw, pr), NEW n \in Nat, NEW ip, Owed(rw, ip) <= n
  PROVE  BanOK(rw, pr, n, NoBan, ip)
<1> DEFINE cs == NoBan.counters
           p == Pendings(rw, pr, cs)
<1>1. NoBan.uploaded = 0 /\ DOMAIN cs = {} /\ cs = Empty
  BY DEF NoBan, Empty
<1>2. Known(cs) = 0 /\ Keyed(cs)
  BY <1>1, KnownOfNothing
<1>3. Portless(NoBan) = 0
  <2>1. DOMAIN Restrict(cs, DOMAIN cs \cap Torrent) = {}
    BY <1>1 DEF Restrict
  <2> QED
    BY <2>1, KnownOfNothing DEF Portless
<1>4. Amounts(p) /\ DOMAIN p = DOMAIN rw /\ \A c \in DOMAIN rw : p[c] <= rw[c]
  BY <1>2, PendingsType DEF Keyed, Connected
<1> HIDE DEF p
<1>5. Owed(p, ip) <= Owed(rw, ip) /\ Owed(p, ip) \in Nat /\ Owed(rw, ip) \in Nat
  BY <1>4, OwedWithin, OwedType DEF Connected
<1> HIDE DEF cs
<1>6. Owed(p, ip) + NoBan.uploaded <= n + Portless(NoBan)
  BY <1>1, <1>3, <1>5
<1>7. \A k \in DOMAIN NoBan.counters : NoBan.counters[k] \in Counter
  BY <1>1 DEF cs
<1> QED
  BY <1>1, <1>2, <1>6, <1>7 DEF BanOK, p, cs

LEMMA BanByKey ==
  ASSUME NEW rw, NEW pr, Connected(rw, pr), NEW c, NEW up, NEW id, Reported(rw, pr, c, up, id),
         NEW n \in Nat, Owed(rw, IPOf[c]) <= n, NEW key \in {c, TorrentOf(c)}
  PROVE  BanOK(rw, pr, n, BlockedPeerCounterDelta(NoBan, key, up, id), IPOf[c])
<1> DEFINE ip == IPOf[c]
<1>1. BanOK(rw, pr, n, NoBan, ip)
  BY BanNew
<1>2. CASE key = c
  BY <1>1, <1>2, BanUpdate
<1>3. CASE key # c
  <2> DEFINE new == [up |-> up, id |-> NextId(NoCounter, id)]
             ds == With(Empty, key, new)
             b == [uploaded |-> CounterDelta(up, Unknown), counters |-> ds]
  <2>1. c \in Conn /\ up \in Raw /\ id \in Ident /\ c \in DOMAIN rw
    BY DEF Reported, Connected, Amounts, Raw
  <2>2. key \in Torrent /\ key \notin Conn
    BY <1>3, <2>1, EndpointsAssumption DEF Torrent
  <2>3. new \in Counter /\ CounterDelta(up, Unknown) = Positive(up) /\ Positive(up) \in Nat
    <3>1. NextId(NoCounter, id) \in Ident
      BY <2>1, NoCounterIs, AlignTypes
    <3> QED
      BY <2>1, <3>1 DEF Counter, Raw, Ident, CounterDelta, Positive, Unknown
  <2>4. BlockedPeerCounterDelta(NoBan, key, up, id) = b
    <3>1. key \notin DOMAIN NoBan.counters /\ NoBan.counters = Empty /\ NoBan.uploaded = 0
      BY DEF NoBan, Empty
    <3>2. AlignPeerTrafficCounter(NoCounter, id) = [up |-> Unknown, id |-> NextId(NoCounter, id)]
      BY <2>1, NoCounterIs, AlignIs
    <3>3. 0 + CounterDelta(up, Unknown) = CounterDelta(up, Unknown)
      BY <2>3
    <3> QED
      BY <3>1, <3>2, <3>3 DEF BlockedPeerCounterDelta
  <2>5. DOMAIN ds = {key} /\ ds[key] = new
    BY DEF With, Empty
  <2>6. Keyed(ds) /\ Known(ds) = Positive(up) /\ Restrict(ds, DOMAIN ds \cap Torrent) = ds
    <3>1. Keyed(ds)
      <4>1. \A r \in Counter : [up |-> r.up, id |-> r.id] \in Counter
        BY DEF Counter
      <4> QED
        BY <2>2, <2>3, <2>5, <4>1 DEF Keyed, Counters
    <3>2. DOMAIN KnownOf(ds) = {key} /\ KnownOf(ds)[key] = Positive(up)
      BY <2>5 DEF KnownOf
    <3>3. Total(KnownOf(ds)) = Positive(up)
      BY <2>3, <3>2, TotalOfOne
    <3>4. Restrict(ds, DOMAIN ds \cap Torrent) = ds
      <4>1. DOMAIN Empty \cup {key} = {key}
        BY DEF Empty
      <4>2. ds = [k \in {key} |-> new]
        BY <4>1 DEF With
      <4> HIDE DEF new
      <4>3. DOMAIN ds \cap Torrent = {key}
        BY <2>2, <2>5
      <4> QED
        BY <4>2, <4>3 DEF Restrict
    <3> QED
      BY <3>1, <3>3, <3>4, KnownType
  <2> DEFINE p == Pendings(rw, pr, ds)
  <2>7. Amounts(p) /\ DOMAIN p = DOMAIN rw /\ \A k \in DOMAIN rw : p[k] <= rw[k]
    BY <2>6, PendingsType DEF Keyed, Connected
  <2>8. b.uploaded = Positive(up) /\ b.counters = ds /\ Portless(b) = Positive(up)
    BY <2>3, <2>6 DEF Portless
  <2> HIDE DEF p, ds, new, b
  <2>9. Owed(p, ip) <= Owed(rw, ip) /\ Owed(p, ip) \in Nat /\ Owed(rw, ip) \in Nat
    BY <2>7, OwedWithin, OwedType DEF Connected
  <2>10. Owed(p, ip) + b.uploaded <= n + Portless(b)
    BY <2>3, <2>8, <2>9
  <2>11. Known(b.counters) <= b.uploaded /\ b.uploaded \in Nat
    BY <2>3, <2>6, <2>8
  <2>12. \A k \in DOMAIN b.counters : b.counters[k] \in Counter
    BY <2>3, <2>5, <2>8
  <2>13. BanOK(rw, pr, n, b, ip)
    BY <2>6, <2>8, <2>10, <2>11, <2>12 DEF BanOK, Keyed, p
  <2> QED
    BY <2>4, <2>13
<1> QED
  BY <1>2, <1>3

LEMMA BanSeeded ==
  ASSUME NEW rw, NEW pr, Connected(rw, pr), NEW n \in Nat, NEW ip, NEW total \in Nat,
         NEW cs, DOMAIN cs \subseteq Conn, Counters(cs), Known(cs) <= total,
         Owed(Pendings(rw, pr, cs), ip) + total <= n
  PROVE  BanOK(rw, pr, n, SeedBlockedPeerCounters(total, cs), ip)
<1> DEFINE ds == [c \in DOMAIN cs |-> [up |-> cs[c].up, id |-> cs[c].id]]
           b == [uploaded |-> total, counters |-> ds]
<1>1. SeedBlockedPeerCounters(total, cs) = b
  BY DEF SeedBlockedPeerCounters
<1>2. DOMAIN ds = DOMAIN cs /\ \A c \in DOMAIN cs : ds[c] = [up |-> cs[c].up, id |-> cs[c].id]
  OBVIOUS
<1>3. \A c \in DOMAIN ds : ds[c] \in Counter /\ [up |-> ds[c].up, id |-> ds[c].id] \in Counter /\ ds[c].up = cs[c].up
  BY <1>2 DEF Counters
<1>4. b.uploaded = total /\ b.counters = ds
  OBVIOUS
<1> HIDE DEF ds, b
<1>5. KnownOf(ds) = KnownOf(cs)
  BY <1>2, <1>3 DEF KnownOf
<1>6. Known(ds) = Known(cs)
  BY <1>5 DEF Known, KnownOf
<1>7. Pendings(rw, pr, ds) = Pendings(rw, pr, cs)
  <2>1. \A c \in DOMAIN rw : CounterAt(ds, c) = CounterAt(cs, c)
    BY <1>2 DEF CounterAt
  <2> QED
    BY <2>1 DEF Pendings
<1>8. Portless(b) = 0
  <2>1. DOMAIN Restrict(ds, DOMAIN ds \cap Torrent) = {}
    BY <1>2, EndpointsAssumption DEF Restrict
  <2> QED
    BY <1>4, <2>1, KnownOfNothing DEF Portless
<1>9. BanOK(rw, pr, n, b, ip)
  BY <1>2, <1>3, <1>4, <1>6, <1>7, <1>8 DEF BanOK
<1> QED
  BY <1>1, <1>9

\* What is owed where a counter was forgotten.
LEMMA ForgottenPendings ==
  ASSUME NEW rw, NEW pr, NEW cs, NEW ds, Connected(rw, pr), Counters(cs), Counters(ds), NEW c \in DOMAIN rw,
         c \notin DOMAIN ds \/ CounterAt(ds, c) = CounterAt(cs, c)
  PROVE  Pendings(rw, pr, ds)[c] <= Pendings(rw, pr, cs)[c]
           + (IF c \in DOMAIN cs /\ c \notin DOMAIN ds THEN Positive(cs[c].up) ELSE 0)
<1> DEFINE base == Base(CounterAt(cs, c), pr[c])
           x == Pendings(rw, pr, cs)[c]
           y == Pendings(rw, pr, ds)[c]
<1>1. /\ Amounts(rw) /\ rw[c] \in Nat /\ x \in Nat /\ y \in Nat /\ y <= rw[c]
      /\ x = CounterDelta(rw[c], base) /\ base \in Raw /\ pr[c] \in Ident
  BY PendingsType DEF Amounts, Connected
<1>2. CASE CounterAt(ds, c) = CounterAt(cs, c)
  <2>1. x = y
    BY <1>2, PendingsAgree
  <2>2. CASE c \in DOMAIN cs
    <3>1. cs[c].up \in Raw
      BY <2>2 DEF Counters, Counter, Raw
    <3>2. Positive(cs[c].up) \in Nat
      BY <3>1 DEF Positive, Raw, Unknown
    <3> QED
      BY <1>1, <2>1, <3>2
  <2>3. CASE c \notin DOMAIN cs
    BY <1>1, <2>1, <2>3
  <2> QED
    BY <2>2, <2>3
<1>3. CASE c \notin DOMAIN ds /\ c \in DOMAIN cs
  <2>1. Positive(base) <= Positive(cs[c].up) /\ cs[c].up \in Raw
    <3>1. CounterAt(cs, c) \in Counter /\ CounterAt(cs, c).up = cs[c].up
      BY <1>3, CounterAtType DEF CounterAt
    <3>2. cs[c].up \in Raw
      BY <3>1 DEF Counter, Raw
    <3> QED
      BY <1>1, <3>1, <3>2, AlignTypes
  <2>2. rw[c] <= Positive(base) + x
    BY <1>1, DeltaOfOneMore
  <2>3. Positive(base) \in Nat /\ Positive(cs[c].up) \in Nat
    BY <1>1, <2>1 DEF Positive, Raw, Unknown
  <2> HIDE DEF base, x, y
  <2>4. y <= x + Positive(cs[c].up)
    BY <1>1, <2>1, <2>2, <2>3
  <2> QED
    BY <1>3, <2>4 DEF x, y
<1>4. CASE c \notin DOMAIN ds /\ c \notin DOMAIN cs
  <2>1. CounterAt(ds, c) = CounterAt(cs, c)
    BY <1>4 DEF CounterAt
  <2> QED
    BY <1>2, <2>1
<1> QED
  BY <1>2, <1>3, <1>4

-----------------------------------------------------------------------------
(* The ledger of the statistics.                                           *)

LEMMA TorrentOfConn ==
  ASSUME NEW c \in Conn
  PROVE  TorrentOf(c) \in Torrent /\ TorrentOf(c)[1] = IPOf[c] /\ IPOf[c] \in IP
BY DEF TorrentOf, Torrent, IP

LEMMA PaidType ==
  ASSUME NEW pd, Sums(pd), NEW ip
  PROVE  /\ Summable(PaidOf(pd, ip)) /\ Paid(pd, ip) \in Nat
         /\ DOMAIN PaidOf(pd, ip) = {u \in DOMAIN pd : u[1] = ip}
         /\ \A t \in DOMAIN PaidOf(pd, ip) : PaidOf(pd, ip)[t] = pd[t]
<1>1. /\ DOMAIN PaidOf(pd, ip) = {u \in DOMAIN pd : u[1] = ip}
      /\ \A t \in DOMAIN PaidOf(pd, ip) : PaidOf(pd, ip)[t] = pd[t]
  BY DEF PaidOf
<1>2. IsFiniteSet(DOMAIN PaidOf(pd, ip))
  BY <1>1, TorrentsFinite, FS_Subset DEF Sums
<1>3. Summable(PaidOf(pd, ip))
  BY <1>1, <1>2 DEF Summable, Sums
<1> QED
  BY <1>1, <1>3, TotalIs DEF Paid

LEMMA AtType ==
  ASSUME NEW f, Amounts(f), NEW t
  PROVE  /\ Summable(At(f, t)) /\ Total(At(f, t)) \in Nat
         /\ DOMAIN At(f, t) = {k \in DOMAIN f : TorrentOf(k) = t}
         /\ \A c \in DOMAIN At(f, t) : At(f, t)[c] = f[c]
<1>1. /\ DOMAIN At(f, t) = {k \in DOMAIN f : TorrentOf(k) = t}
      /\ \A c \in DOMAIN At(f, t) : At(f, t)[c] = f[c]
  BY DEF At
<1>2. IsFiniteSet(DOMAIN At(f, t))
  BY <1>1, EndpointsAssumption, FS_Subset DEF Amounts
<1>3. Summable(At(f, t))
  BY <1>1, <1>2 DEF Summable, Amounts
<1> QED
  BY <1>1, <1>3, TotalIs

\* Covered torrent by torrent is covered IP by IP.
LEMMA CoversByIP ==
  ASSUME NEW pd, Sums(pd), NEW f, Amounts(f), Covers(pd, f), NEW ip
  PROVE  Owed(f, ip) <= Paid(pd, ip)
<1> DEFINE F == OfIP(f, ip)
           g == PaidOf(pd, ip)
           k == [c \in Conn |-> TorrentOf(c)]
<1>1. /\ Summable(F) /\ DOMAIN F = {c \in DOMAIN f : IPOf[c] = ip} /\ \A c \in DOMAIN F : F[c] = f[c]
      /\ Summable(g) /\ DOMAIN g = {u \in DOMAIN pd : u[1] = ip} /\ \A t \in DOMAIN g : g[t] = pd[t]
  <2>1. Summable(F) /\ DOMAIN F = {c \in DOMAIN f : IPOf[c] = ip} /\ \A c \in DOMAIN F : F[c] = f[c]
    BY OwedType
  <2>2. Summable(g) /\ DOMAIN g = {u \in DOMAIN pd : u[1] = ip} /\ \A t \in DOMAIN g : g[t] = pd[t]
    BY PaidType
  <2> QED
    BY <2>1, <2>2
<1>2. \A c \in DOMAIN f : c \in Conn /\ k[c] = TorrentOf(c) /\ k[c] \in DOMAIN pd /\ k[c][1] = IPOf[c]
  BY TorrentOfConn DEF Amounts, Covers
<1> HIDE DEF F, g, k
<1>3. \A c \in DOMAIN F : k[c] \in DOMAIN g
  BY <1>1, <1>2
<1>4. ASSUME NEW t \in DOMAIN g PROVE Total(Part(F, k, {t})) <= g[t]
  <2> DEFINE P == Part(F, k, {t})
             A == At(f, t)
  <2>1. Summable(A) /\ DOMAIN A = {c \in DOMAIN f : TorrentOf(c) = t} /\ \A c \in DOMAIN A : A[c] = f[c]
    BY AtType
  <2>2. DOMAIN P = {c \in DOMAIN F : k[c] \in {t}} /\ \A c \in DOMAIN P : P[c] = F[c]
    BY DEF Part
  <2>3. Summable(P)
    <3>1. IsFiniteSet(DOMAIN P)
      BY <1>1, <2>2, FS_Subset DEF Summable
    <3> QED
      BY <1>1, <2>2, <3>1 DEF Summable
  <2> HIDE DEF P, A
  <2>4. DOMAIN P \subseteq DOMAIN A /\ \A c \in DOMAIN P : P[c] <= A[c]
    BY <1>1, <1>2, <2>1, <2>2 DEF Amounts
  <2>5. Total(P) <= Total(A)
    BY <2>1, <2>3, <2>4, TotalWithin
  <2>6. Total(A) <= pd[t] /\ g[t] = pd[t] /\ Total(A) \in Nat /\ Total(P) \in Nat /\ pd[t] \in Nat
    <3>1. Total(A) \in Nat /\ Total(P) \in Nat
      BY <2>1, <2>3, TotalIs
    <3> QED
      BY <1>1, <3>1 DEF Covers, Sums, A
  <2> QED
    BY <2>5, <2>6 DEF P
<1>5. Total(F) <= Total(g)
  BY <1>1, <1>3, <1>4, TotalByGroup
<1> QED
  BY <1>5 DEF Owed, Paid, F, g

LEMMA CoversFewer ==
  ASSUME NEW pd, NEW pd2, NEW f, NEW f2, Amounts(f), Amounts(f2), Sums(pd), Covers(pd, f),
         DOMAIN pd2 \subseteq DOMAIN pd, \A t \in DOMAIN pd2 : pd2[t] = pd[t],
         DOMAIN f2 \subseteq DOMAIN f, \A c \in DOMAIN f2 : f2[c] <= f[c] /\ TorrentOf(c) \in DOMAIN pd2
  PROVE  Covers(pd2, f2)
<1> SUFFICES ASSUME NEW t \in DOMAIN pd2 PROVE Total(At(f2, t)) <= pd2[t]
  BY DEF Covers
<1> DEFINE F == At(f2, t)
           G == At(f, t)
<1>1. /\ Summable(F) /\ DOMAIN F = {c \in DOMAIN f2 : TorrentOf(c) = t} /\ \A c \in DOMAIN F : F[c] = f2[c]
      /\ Summable(G) /\ DOMAIN G = {c \in DOMAIN f : TorrentOf(c) = t} /\ \A c \in DOMAIN G : G[c] = f[c]
      /\ Total(F) \in Nat /\ Total(G) \in Nat
  BY AtType
<1>2. Total(G) <= pd[t] /\ pd[t] \in Nat
  BY DEF Covers, Sums
<1> HIDE DEF F, G
<1>3. Total(F) <= Total(G)
  BY <1>1, TotalWithin
<1> QED
  BY <1>1, <1>2, <1>3 DEF F

\* A total that grows covers as much more at one connection.
Before(pd, t) == IF t \in DOMAIN pd THEN pd[t] ELSE 0

Plus(pd, t, n) == With(pd, t, Before(pd, t) + n)

LEMMA PlusIs ==
  ASSUME NEW pd, Sums(pd), NEW t \in Torrent, NEW n \in Nat
  PROVE  /\ Sums(Plus(pd, t, n)) /\ DOMAIN Plus(pd, t, n) = DOMAIN pd \cup {t}
         /\ Plus(pd, t, n)[t] = n + Before(pd, t)
         /\ \A u \in DOMAIN pd \ {t} : Plus(pd, t, n)[u] = pd[u]
<1>1. Before(pd, t) \in Nat
  BY DEF Sums, Before
<1>2. /\ DOMAIN Plus(pd, t, n) = DOMAIN pd \cup {t}
      /\ Plus(pd, t, n)[t] = n + Before(pd, t)
      /\ \A u \in DOMAIN pd \ {t} : Plus(pd, t, n)[u] = pd[u]
  BY <1>1 DEF Plus, With
<1> QED
  BY <1>1, <1>2 DEF Sums

LEMMA CoversReport ==
  ASSUME NEW pd, NEW f, NEW f2, Amounts(f), Amounts(f2), Sums(pd), Covers(pd, f),
         NEW c \in Conn, NEW n \in Nat, DOMAIN f2 \subseteq DOMAIN f \cup {c},
         \A k \in DOMAIN f2 \ {c} : f2[k] <= f[k],
         c \in DOMAIN f2 => f2[c] <= n + (IF c \in DOMAIN f THEN f[c] ELSE 0)
  PROVE  Covers(Plus(pd, TorrentOf(c), n), f2)
<1> DEFINE t0 == TorrentOf(c)
           pd2 == Plus(pd, t0, n)
<1>1. /\ t0 \in Torrent /\ DOMAIN pd2 = DOMAIN pd \cup {t0} /\ Sums(pd2)
      /\ pd2[t0] = n + Before(pd, t0)
      /\ \A u \in DOMAIN pd \ {t0} : pd2[u] = pd[u]
  <2>1. t0 \in Torrent
    BY TorrentOfConn
  <2> HIDE DEF t0
  <2>2. \A T \in Torrent : /\ DOMAIN Plus(pd, T, n) = DOMAIN pd \cup {T} /\ Sums(Plus(pd, T, n))
                           /\ Plus(pd, T, n)[T] = n + Before(pd, T)
                           /\ \A u \in DOMAIN pd \ {T} : Plus(pd, T, n)[u] = pd[u]
    BY PlusIs
  <2> QED
    BY ONLY <2>1, <2>2 DEF pd2
<1> HIDE DEF pd2
<1>2. \A k \in DOMAIN f2 : TorrentOf(k) \in DOMAIN pd2
  BY <1>1 DEF Covers
<1>3. ASSUME NEW t \in DOMAIN pd2 PROVE Total(At(f2, t)) <= pd2[t]
  <2> DEFINE F == At(f2, t)
             G == At(f, t)
  <2>1. /\ Summable(F) /\ DOMAIN F = {k \in DOMAIN f2 : TorrentOf(k) = t} /\ \A k \in DOMAIN F : F[k] = f2[k]
        /\ Summable(G) /\ DOMAIN G = {k \in DOMAIN f : TorrentOf(k) = t} /\ \A k \in DOMAIN G : G[k] = f[k]
        /\ Total(F) \in Nat /\ Total(G) \in Nat
    BY AtType
  <2> HIDE DEF F, G
  <2>2. CASE t # t0
    <3>1. DOMAIN F \subseteq DOMAIN G /\ \A k \in DOMAIN F : F[k] <= G[k]
      BY <2>1, <2>2
    <3>2. Total(F) <= Total(G)
      BY <2>1, <3>1, TotalWithin
    <3>3. t \in DOMAIN pd /\ Total(G) <= pd[t] /\ pd[t] \in Nat /\ pd2[t] = pd[t]
      BY <1>1, <2>2 DEF Covers, Sums, G
    <3> QED
      BY <2>1, <3>2, <3>3 DEF F
  <2>3. CASE t = t0
    <3>1. /\ DOMAIN F \subseteq DOMAIN G \cup {c} /\ \A k \in DOMAIN F \ {c} : F[k] <= G[k]
          /\ c \in DOMAIN F => F[c] <= n + (IF c \in DOMAIN G THEN G[c] ELSE 0)
      BY <2>1, <2>3
    <3>2. Total(F) <= Total(G) + n
      BY <2>1, <3>1, TotalGrows
    <3>3. CASE t0 \in DOMAIN pd
      <4>1. Total(G) <= pd[t0] /\ pd[t0] \in Nat
        BY <2>3, <3>3 DEF Covers, Sums, G
      <4> QED
        BY <1>1, <2>1, <2>3, <3>2, <3>3, <4>1 DEF F, Before
    <3>4. CASE t0 \notin DOMAIN pd
      <4>1. DOMAIN G = {}
        BY <2>1, <2>3, <3>4 DEF Covers
      <4>2. Total(G) = 0
        BY <4>1, TotalOfNothing
      <4> QED
        BY <1>1, <2>1, <2>3, <3>2, <3>4, <4>2 DEF F, Before
    <3> QED
      BY <3>3, <3>4
  <2> QED
    BY <2>2, <2>3
<1> QED
  BY <1>2, <1>3 DEF Covers, pd2

LEMMA LedgerTypes ==
  ASSUME NEW rw, NEW pr, Connected(rw, pr), NEW cs, Counters(cs), NEW pd, Sums(pd), NEW ip
  PROVE  /\ Amounts(Pendings(rw, pr, cs)) /\ DOMAIN Pendings(rw, pr, cs) = DOMAIN rw
         /\ Owed(Pendings(rw, pr, cs), ip) \in Nat /\ Paid(pd, ip) \in Nat
<1>1. Amounts(Pendings(rw, pr, cs)) /\ DOMAIN Pendings(rw, pr, cs) = DOMAIN rw
  BY PendingsType DEF Connected
<1> QED
  BY <1>1, OwedType, PaidType

LEMMA LedgerSend ==
  ASSUME NEW rw, NEW pr, Connected(rw, pr), NEW c, NEW rw2, OneMore(rw, c, rw2),
         NEW cs, Counters(cs), NEW pd, Sums(pd), NEW n \in Nat, NEW ip, Ledger(rw, pr, pd, cs, n, ip),
         NEW m \in Nat, m = IF IPOf[c] = ip THEN n + 1 ELSE n
  PROVE  Ledger(rw2, pr, pd, cs, m, ip)
<1> DEFINE p == Pendings(rw, pr, cs)
           q == Pendings(rw2, pr, cs)
<1>1. Amounts(p) /\ DOMAIN p = DOMAIN rw /\ Owed(p, ip) \in Nat /\ Paid(pd, ip) \in Nat
  BY LedgerTypes
<1>2. /\ Connected(rw2, pr) /\ DOMAIN rw2 = DOMAIN rw /\ c \in DOMAIN rw
      /\ q[c] <= 1 + p[c] /\ \A k \in DOMAIN rw \ {c} : q[k] = p[k]
  BY SendPendings DEF Connected, OneMore
<1>3. Amounts(q) /\ DOMAIN q = DOMAIN rw /\ Owed(q, ip) \in Nat
  BY <1>2, LedgerTypes
<1>4. Paid(pd, ip) + Owed(p, ip) <= n
  BY DEF Ledger, p
<1> HIDE DEF p, q
<1>5. Owed(q, ip) <= Owed(p, ip) + (IF IPOf[c] = ip THEN 1 ELSE 0)
  <2>1. \A k \in DOMAIN rw \ {c} : q[k] <= p[k]
    BY <1>1, <1>2, <1>3 DEF Amounts
  <2>2. CASE IPOf[c] = ip
    BY <1>1, <1>2, <1>3, <2>1, <2>2, OwedGrows
  <2>3. CASE IPOf[c] # ip
    <3>1. \A k \in DOMAIN q : IPOf[k] = ip => q[k] <= p[k]
      BY <1>3, <2>1, <2>3
    <3>2. Owed(q, ip) <= Owed(p, ip)
      BY <1>1, <1>3, <3>1, OwedWithin
    <3> QED
      BY <1>1, <2>3, <3>2
  <2> QED
    BY <2>2, <2>3
<1>6. Paid(pd, ip) + Owed(q, ip) <= m
  BY <1>1, <1>3, <1>4, <1>5
<1> QED
  BY <1>6 DEF Ledger, q

LEMMA LedgerQuiet ==
  ASSUME NEW rw, NEW pr, NEW rw2, NEW pr2, Quiet(rw, pr, rw2, pr2),
         NEW cs, Counters(cs), NEW ds, Counters(ds),
         \A c \in DOMAIN rw : rw2[c] # 0 => CounterAt(ds, c) = CounterAt(cs, c),
         NEW pd, Sums(pd), NEW n \in Nat, NEW ip, Ledger(rw, pr, pd, cs, n, ip)
  PROVE  Ledger(rw2, pr2, pd, ds, n, ip)
<1> DEFINE p == Pendings(rw, pr, cs)
           q == Pendings(rw2, pr2, ds)
<1>1. Connected(rw, pr) /\ Connected(rw2, pr2) /\ DOMAIN rw2 = DOMAIN rw
  BY DEF Quiet, Connected
<1>2. /\ Amounts(p) /\ DOMAIN p = DOMAIN rw /\ Owed(p, ip) \in Nat /\ Paid(pd, ip) \in Nat
      /\ Amounts(q) /\ DOMAIN q = DOMAIN rw /\ Owed(q, ip) \in Nat
  BY <1>1, LedgerTypes
<1>3. \A c \in DOMAIN rw : q[c] <= p[c]
  BY QuietPendings
<1>4. Paid(pd, ip) + Owed(p, ip) <= n
  BY DEF Ledger, p
<1> HIDE DEF p, q
<1>5. Owed(q, ip) <= Owed(p, ip)
  BY <1>2, <1>3, OwedWithin
<1>6. Paid(pd, ip) + Owed(q, ip) <= n
  BY <1>2, <1>4, <1>5
<1> QED
  BY <1>6 DEF Ledger, q

LEMMA LedgerReport ==
  ASSUME NEW rw, NEW pr, Connected(rw, pr), NEW c, NEW up, NEW id, Reported(rw, pr, c, up, id),
         NEW cs, Counters(cs), NEW ds, Counters(ds),
         CounterAt(ds, c) = [up |-> Baseline(up, Base(CounterAt(cs, c), id)), id |-> NextId(CounterAt(cs, c), id)],
         \A k \in DOMAIN rw \ {c} : CounterAt(ds, k) = CounterAt(cs, k),
         NEW pd, Sums(pd), NEW n \in Nat, NEW ip, Ledger(rw, pr, pd, cs, n, ip)
  PROVE  /\ CounterDelta(up, Base(CounterAt(cs, c), id)) \in Nat
         /\ Ledger(rw, pr, Plus(pd, TorrentOf(c), CounterDelta(up, Base(CounterAt(cs, c), id))), ds, n, ip)
<1> DEFINE old == CounterAt(cs, c)
           new == CounterAt(ds, c)
           base == Base(old, id)
           delta == CounterDelta(up, base)
           t == TorrentOf(c)
           pd2 == Plus(pd, t, delta)
           p == Pendings(rw, pr, cs)
           q == Pendings(rw, pr, ds)
<1>1. c \in DOMAIN rw /\ c \in Conn /\ up \in Raw /\ id \in Ident /\ rw[c] \in Nat /\ pr[c] \in Ident
      /\ up \in {rw[c], Unknown} /\ (id = pr[c] \/ (id = NoId /\ rw[c] = 0))
      /\ t \in Torrent /\ t[1] = IPOf[c]
  BY TorrentOfConn DEF Reported, Connected, Amounts, Raw
<1>2. old \in Counter /\ new \in Counter /\ new.up = Baseline(up, Base(old, id)) /\ new.id = NextId(old, id)
  BY CounterAtType
<1> HIDE DEF old, new
<1>3. base \in Raw /\ delta \in Nat
  BY <1>1, <1>2, AlignTypes, DeltaBounds
<1>4. /\ Amounts(p) /\ DOMAIN p = DOMAIN rw /\ Owed(p, ip) \in Nat /\ Paid(pd, ip) \in Nat
      /\ Amounts(q) /\ DOMAIN q = DOMAIN rw /\ Owed(q, ip) \in Nat
  BY LedgerTypes
<1>5. Paid(pd, ip) + Owed(p, ip) <= n
  BY DEF Ledger, p
<1>6. \A k \in DOMAIN rw \ {c} : q[k] = p[k]
  BY PendingsAgree
<1>7. q[c] = CounterDelta(rw[c], Base(new, pr[c])) /\ p[c] = CounterDelta(rw[c], Base(old, pr[c]))
  BY <1>1 DEF Pendings, old, new
<1>8. CounterDelta(rw[c], Base(new, pr[c])) + CounterDelta(up, Base(old, id)) <= CounterDelta(rw[c], Base(old, pr[c]))
  BY <1>1, <1>2, ReportPays
<1>9. CounterDelta(up, Base(old, id)) = delta
  OBVIOUS
<1> HIDE DEF p, q, delta, base
<1>10. q[c] \in Nat /\ p[c] \in Nat /\ delta + q[c] <= p[c]
  <2>1. q[c] \in Nat /\ p[c] \in Nat
    BY <1>1, <1>4 DEF Amounts
  <2> QED
    BY <1>3, <1>7, <1>8, <1>9, <2>1
<1>11. Sums(pd2) /\ DOMAIN pd2 = DOMAIN pd \cup {t} /\ pd2[t] = delta + Before(pd, t)
       /\ \A u \in DOMAIN pd \ {t} : pd2[u] = pd[u]
  <2>1. t \in Torrent /\ delta \in Nat
    BY <1>1, <1>3
  <2> HIDE DEF t
  <2>2. \A T \in Torrent : \A m \in Nat :
          /\ DOMAIN Plus(pd, T, m) = DOMAIN pd \cup {T} /\ Sums(Plus(pd, T, m))
          /\ Plus(pd, T, m)[T] = m + Before(pd, T)
          /\ \A u \in DOMAIN pd \ {T} : Plus(pd, T, m)[u] = pd[u]
    BY PlusIs
  <2> QED
    BY ONLY <2>1, <2>2 DEF pd2
<1> HIDE DEF pd2, t
<1> DEFINE F == PaidOf(pd2, ip)
           G == PaidOf(pd, ip)
<1>12. /\ Summable(F) /\ DOMAIN F = {u \in DOMAIN pd2 : u[1] = ip} /\ \A u \in DOMAIN F : F[u] = pd2[u]
       /\ Summable(G) /\ DOMAIN G = {u \in DOMAIN pd : u[1] = ip} /\ \A u \in DOMAIN G : G[u] = pd[u]
       /\ Total(F) \in Nat /\ Total(G) \in Nat
  <2>1. Summable(F) /\ DOMAIN F = {u \in DOMAIN pd2 : u[1] = ip} /\ \A u \in DOMAIN F : F[u] = pd2[u]
    <3>1. Sums(pd2)
      BY <1>11
    <3> QED
      BY <3>1, PaidType
  <2>2. Summable(G) /\ DOMAIN G = {u \in DOMAIN pd : u[1] = ip} /\ \A u \in DOMAIN G : G[u] = pd[u]
    BY PaidType
  <2> HIDE DEF F, G
  <2> QED
    BY <2>1, <2>2, TotalIs
<1>13. Paid(pd2, ip) = Total(F) /\ Paid(pd, ip) = Total(G)
  BY DEF Paid
<1> HIDE DEF F, G
<1>14. CASE IPOf[c] = ip
  <2>1. \A k \in DOMAIN q \ {c} : IPOf[k] = IPOf[c] => q[k] <= p[k]
    BY <1>4, <1>6 DEF Amounts
  <2>2. Owed(q, IPOf[c]) + delta <= Owed(p, IPOf[c])
    BY <1>1, <1>3, <1>4, <1>10, <2>1, OwedFalls
  <2>3. /\ DOMAIN F \subseteq DOMAIN G \cup {t} /\ \A u \in DOMAIN F \ {t} : F[u] <= G[u]
        /\ t \in DOMAIN F => F[t] <= delta + (IF t \in DOMAIN G THEN G[t] ELSE 0)
    <3>1. \A u \in DOMAIN F : F[u] \in Nat
      BY <1>12 DEF Summable
    <3> QED
      BY <1>11, <1>12, <3>1 DEF Before
  <2>4. Total(F) <= Total(G) + delta
    BY <1>3, <1>12, <2>3, TotalGrows
  <2>5. Owed(q, ip) + delta <= Owed(p, ip)
    BY <1>14, <2>2
  <2>6. Paid(pd2, ip) + Owed(q, ip) <= n
    BY <1>3, <1>4, <1>5, <1>12, <1>13, <2>4, <2>5
  <2> QED
    BY <1>3, <2>6 DEF Ledger, q, pd2, t, delta, base, old
<1>15. CASE IPOf[c] # ip
  <2>1. \A k \in DOMAIN q : IPOf[k] = ip => q[k] <= p[k]
    BY <1>4, <1>6, <1>15 DEF Amounts
  <2>2. Owed(q, ip) <= Owed(p, ip)
    BY <1>4, <2>1, OwedWithin
  <2>3. DOMAIN F \subseteq DOMAIN G /\ \A u \in DOMAIN F : F[u] <= G[u]
    <3>1. \A u \in DOMAIN F : F[u] \in Nat
      BY <1>12 DEF Summable
    <3> QED
      BY <1>1, <1>11, <1>12, <1>15, <3>1 DEF t
  <2>4. Total(F) <= Total(G)
    BY <1>12, <2>3, TotalWithin
  <2>5. Paid(pd2, ip) + Owed(q, ip) <= n
    BY <1>4, <1>5, <1>12, <1>13, <2>2, <2>4
  <2> QED
    BY <1>3, <2>5 DEF Ledger, q, pd2, t, delta, base, old
<1> QED
  BY <1>14, <1>15

\* The counters forgotten with the totals they are in: what is owed again was
\* in those totals.
LEMMA KnownAmounts ==
  ASSUME NEW cs, Counters(cs), DOMAIN cs \subseteq Conn
  PROVE  /\ Amounts(KnownOf(cs)) /\ DOMAIN KnownOf(cs) = DOMAIN cs
         /\ \A c \in DOMAIN cs : KnownOf(cs)[c] = Positive(cs[c].up) /\ Positive(cs[c].up) \in Nat
<1>1. Keyed(cs)
  BY DEF Keyed
<1> QED
  BY <1>1, KnownType DEF Amounts

LEMMA LedgerTrim ==
  ASSUME NEW rw, NEW pr, Connected(rw, pr), NEW cs, Counters(cs), DOMAIN cs \subseteq Conn,
         NEW ds, Counters(ds), DOMAIN ds \subseteq DOMAIN cs, \A c \in DOMAIN ds : CounterAt(ds, c) = CounterAt(cs, c),
         NEW pd, Sums(pd), NEW pd2, Sums(pd2), DOMAIN pd2 \subseteq DOMAIN pd, \A t \in DOMAIN pd2 : pd2[t] = pd[t],
         \A c \in DOMAIN cs \ DOMAIN ds : TorrentOf(c) \notin DOMAIN pd2,
         Covers(pd, KnownOf(cs)), NEW n \in Nat, NEW ip, Ledger(rw, pr, pd, cs, n, ip)
  PROVE  Ledger(rw, pr, pd2, ds, n, ip)
<1> DEFINE p == Pendings(rw, pr, cs)
           q == Pendings(rw, pr, ds)
           F == [c \in DOMAIN cs \ DOMAIN ds |-> Positive(cs[c].up)]
           G == [t \in DOMAIN pd \ DOMAIN pd2 |-> pd[t]]
           D == PaidOf(pd, ip)
           S == {t \in DOMAIN pd2 : t[1] = ip}
           h == OfIP(F, ip)
<1>1. /\ Amounts(p) /\ DOMAIN p = DOMAIN rw /\ Owed(p, ip) \in Nat /\ Paid(pd, ip) \in Nat
      /\ Amounts(q) /\ DOMAIN q = DOMAIN rw /\ Owed(q, ip) \in Nat /\ Paid(pd2, ip) \in Nat
  BY LedgerTypes
<1>2. Paid(pd, ip) + Owed(p, ip) <= n
  BY DEF Ledger, p
<1>3. /\ Amounts(KnownOf(cs)) /\ DOMAIN KnownOf(cs) = DOMAIN cs
      /\ \A c \in DOMAIN cs : KnownOf(cs)[c] = Positive(cs[c].up) /\ Positive(cs[c].up) \in Nat
  BY KnownAmounts
<1>4. /\ DOMAIN F = DOMAIN cs \ DOMAIN ds /\ \A c \in DOMAIN F : F[c] = Positive(cs[c].up)
      /\ DOMAIN G = DOMAIN pd \ DOMAIN pd2 /\ \A t \in DOMAIN G : G[t] = pd[t]
  OBVIOUS
<1> HIDE DEF F, G
<1>5. Amounts(F) /\ Sums(G)
  BY <1>3, <1>4 DEF Amounts, Sums
<1>6. Covers(G, F)
  <2>1. \A c \in DOMAIN F : F[c] <= KnownOf(cs)[c] /\ TorrentOf(c) \in DOMAIN G
    BY <1>3, <1>4 DEF Covers
  <2> QED
    BY <1>3, <1>4, <1>5, <2>1, CoversFewer
<1>7. Owed(F, ip) <= Paid(G, ip)
  BY <1>5, <1>6, CoversByIP
<1>8. Summable(h) /\ Owed(F, ip) = Total(h) /\ DOMAIN h = {c \in DOMAIN F : IPOf[c] = ip}
      /\ (\A c \in DOMAIN h : h[c] = F[c]) /\ Total(h) \in Nat
  <2>1. Summable(h) /\ DOMAIN h = {c \in DOMAIN F : IPOf[c] = ip} /\ \A c \in DOMAIN h : h[c] = F[c]
    <3>1. Amounts(F)
      BY <1>5
    <3> QED
      BY ONLY <3>1, OwedType DEF h
  <2>2. Owed(F, ip) = Total(h)
    BY DEF Owed
  <2> HIDE DEF h
  <2> QED
    BY <2>1, <2>2, TotalIs
<1>9. Owed(q, ip) <= Owed(p, ip) + Total(h)
  <2>1. ASSUME NEW c \in DOMAIN q, IPOf[c] = ip
        PROVE  q[c] <= p[c] + (IF c \in DOMAIN h THEN h[c] ELSE 0)
    <3>1. c \notin DOMAIN ds \/ CounterAt(ds, c) = CounterAt(cs, c)
      OBVIOUS
    <3>2. q[c] <= p[c] + (IF c \in DOMAIN cs /\ c \notin DOMAIN ds THEN Positive(cs[c].up) ELSE 0)
      BY <1>1, <3>1, ForgottenPendings
    <3>3. c \in DOMAIN h <=> c \in DOMAIN cs /\ c \notin DOMAIN ds
      BY <1>4, <1>8, <2>1
    <3>4. c \in DOMAIN h => h[c] = Positive(cs[c].up)
      BY <1>4, <1>8
    <3> HIDE DEF p, q, h
    <3> QED
      BY <3>2, <3>3, <3>4
  <2> HIDE DEF p, q, h
  <2> QED
    BY <1>1, <1>8, <2>1, OwedOfSums
<1>10. /\ Summable(D) /\ DOMAIN D = {u \in DOMAIN pd : u[1] = ip} /\ \A t \in DOMAIN D : D[t] = pd[t]
       /\ Paid(pd, ip) = Total(D)
  <2>1. Summable(D) /\ DOMAIN D = {u \in DOMAIN pd : u[1] = ip} /\ \A t \in DOMAIN D : D[t] = pd[t]
    <3>1. Sums(pd)
      OBVIOUS
    <3> QED
      BY ONLY <3>1, PaidType DEF D
  <2>2. Paid(pd, ip) = Total(D)
    BY DEF Paid
  <2> HIDE DEF D
  <2> QED
    BY <2>1, <2>2
<1> HIDE DEF D
<1>11. Restrict(D, S) = PaidOf(pd2, ip) /\ Restrict(D, DOMAIN D \ S) = PaidOf(G, ip) /\ S \in SUBSET DOMAIN D
  <2>1. S \in SUBSET DOMAIN D /\ DOMAIN D \ S = {u \in DOMAIN G : u[1] = ip}
    BY <1>4, <1>10
  <2>2. \A t \in S : D[t] = pd2[t]
    BY <1>10, <2>1
  <2>3. \A t \in DOMAIN D \ S : D[t] = G[t]
    BY <1>4, <1>10, <2>1
  <2> QED
    BY <2>1, <2>2, <2>3 DEF Restrict, PaidOf
<1> HIDE DEF S
<1>12. Total(D) = Paid(pd2, ip) + Paid(G, ip)
  BY <1>10, <1>11, TotalSplits DEF Paid
<1>13. Paid(G, ip) \in Nat
  BY <1>5, PaidType
<1> HIDE DEF p, q, h
<1>14. Paid(pd2, ip) + Owed(q, ip) <= n
  BY <1>1, <1>2, <1>7, <1>8, <1>9, <1>10, <1>12, <1>13
<1> QED
  BY <1>14 DEF Ledger, q

\* The ban with the total of an IP and the baselines of its connections.
LEMMA BanOfIP ==
  ASSUME NEW rw, NEW pr, Connected(rw, pr), NEW cs, Counters(cs), DOMAIN cs \subseteq Conn,
         NEW pd, Sums(pd), Covers(pd, KnownOf(cs)), NEW n \in Nat, NEW ip, Ledger(rw, pr, pd, cs, n, ip),
         NEW ds, DOMAIN ds = {c \in DOMAIN cs : IPOf[c] = ip}, \A c \in DOMAIN ds : ds[c] = cs[c]
  PROVE  BanOK(rw, pr, n, SeedBlockedPeerCounters(Paid(pd, ip), ds), ip)
<1> DEFINE p == Pendings(rw, pr, cs)
           q == Pendings(rw, pr, ds)
<1>1. Counters(ds) /\ DOMAIN ds \subseteq Conn
  BY DEF Counters
<1>2. /\ Amounts(p) /\ DOMAIN p = DOMAIN rw /\ Owed(p, ip) \in Nat /\ Paid(pd, ip) \in Nat
      /\ Amounts(q) /\ DOMAIN q = DOMAIN rw /\ Owed(q, ip) \in Nat
  BY <1>1, LedgerTypes
<1>3. Paid(pd, ip) + Owed(p, ip) <= n
  BY DEF Ledger, p
<1>4. \A c \in DOMAIN q : IPOf[c] = ip => q[c] <= p[c]
  <2> SUFFICES ASSUME NEW c \in DOMAIN rw, IPOf[c] = ip PROVE q[c] = p[c]
    BY <1>2 DEF Amounts
  <2>1. CounterAt(ds, c) = CounterAt(cs, c)
    BY DEF CounterAt
  <2> QED
    BY <2>1, PendingsAgree
<1>5. Known(ds) <= Paid(pd, ip)
  <2> DEFINE f == KnownOf(cs)
             g == KnownOf(ds)
  <2>1. Amounts(f) /\ DOMAIN f = DOMAIN cs /\ \A c \in DOMAIN cs : f[c] = Positive(cs[c].up)
    BY KnownAmounts
  <2>2. Keyed(ds) /\ Known(ds) = Total(g) /\ DOMAIN g = DOMAIN ds /\ \A c \in DOMAIN ds : g[c] = Positive(ds[c].up)
    <3>1. Keyed(ds)
      BY <1>1 DEF Keyed
    <3> QED
      BY <3>1, KnownType
  <2>3. g = OfIP(f, ip)
    <3>1. g = [c \in DOMAIN ds |-> Positive(ds[c].up)]
      BY DEF KnownOf
    <3>2. \A c \in DOMAIN ds : Positive(ds[c].up) = f[c]
      BY <2>1
    <3> HIDE DEF f, g
    <3> QED
      BY <2>1, <3>1, <3>2 DEF OfIP
  <2> HIDE DEF f, g
  <2>4. Owed(f, ip) <= Paid(pd, ip)
    BY <2>1, CoversByIP DEF f
  <2> QED
    BY <2>2, <2>3, <2>4 DEF Owed
<1> HIDE DEF p, q
<1>6. Owed(q, ip) <= Owed(p, ip)
  BY <1>2, <1>4, OwedWithin
<1>7. Owed(q, ip) + Paid(pd, ip) <= n
  BY <1>2, <1>3, <1>6
<1> QED
  BY <1>1, <1>2, <1>5, <1>7, BanSeeded DEF q

\* The ban with the total of a connection and its baseline.
LEMMA BanOfConn ==
  ASSUME NEW rw, NEW pr, Connected(rw, pr), NEW cs, Counters(cs), DOMAIN cs \subseteq Conn,
         NEW F, Amounts(F), DOMAIN F = DOMAIN cs, \A k \in DOMAIN cs : Positive(cs[k].up) <= F[k],
         NEW pd, Sums(pd), Covers(pd, F), NEW n \in Nat, NEW c \in DOMAIN cs, Ledger(rw, pr, pd, cs, n, IPOf[c]),
         NEW ds, DOMAIN ds = {c}, ds[c] = cs[c]
  PROVE  BanOK(rw, pr, n, SeedBlockedPeerCounters(F[c], ds), IPOf[c])
<1> DEFINE ip == IPOf[c]
           p == Pendings(rw, pr, cs)
           q == Pendings(rw, pr, ds)
           H == OfIP(F, ip)
           h == [k \in DOMAIN H \ {c} |-> H[k]]
           x == F[c]
<1>1. Counters(ds) /\ DOMAIN ds \subseteq Conn /\ x \in Nat
  BY DEF Counters, Amounts
<1>2. /\ Amounts(p) /\ DOMAIN p = DOMAIN rw /\ Owed(p, ip) \in Nat /\ Paid(pd, ip) \in Nat
      /\ Amounts(q) /\ DOMAIN q = DOMAIN rw /\ Owed(q, ip) \in Nat
  BY <1>1, LedgerTypes
<1>3. Paid(pd, ip) + Owed(p, ip) <= n
  BY DEF Ledger, p
<1>4. Summable(H) /\ DOMAIN H = {k \in DOMAIN F : IPOf[k] = ip} /\ (\A k \in DOMAIN H : H[k] = F[k])
      /\ Owed(F, ip) = Total(H) /\ c \in DOMAIN H /\ Total(H) \in Nat
  <2>1. Summable(H) /\ DOMAIN H = {k \in DOMAIN F : IPOf[k] = ip} /\ \A k \in DOMAIN H : H[k] = F[k]
    BY OwedType
  <2>2. Owed(F, ip) = Total(H)
    BY DEF Owed
  <2> HIDE DEF H
  <2> QED
    BY <2>1, <2>2, TotalIs
<1> HIDE DEF H
<1>5. Summable(h) /\ DOMAIN h = DOMAIN H \ {c} /\ (\A k \in DOMAIN h : h[k] = H[k]) /\ Total(h) \in Nat
  <2>1. IsFiniteSet(DOMAIN H \ {c})
    BY <1>4, FS_Subset DEF Summable
  <2>2. Summable(h)
    BY <1>4, <2>1 DEF Summable
  <2> QED
    BY <2>2, TotalIs
<1> HIDE DEF h, ip, x
<1>6. Total(h) + x <= Total(H)
  <2>1. x + (IF c \in DOMAIN h THEN h[c] ELSE 0) <= H[c]
    BY <1>1, <1>4, <1>5 DEF x
  <2>2. \A y \in DOMAIN h \ {c} : h[y] <= H[y]
    BY <1>4, <1>5 DEF Summable
  <2> QED
    BY <1>1, <1>4, <1>5, <2>1, <2>2, TotalFalls
<1>7. Total(H) <= Paid(pd, ip)
  BY <1>4, CoversByIP
<1>8. Owed(q, ip) <= Owed(p, ip) + Total(h)
  <2>1. ASSUME NEW k \in DOMAIN q, IPOf[k] = ip
        PROVE  q[k] <= p[k] + (IF k \in DOMAIN h THEN h[k] ELSE 0)
    <3>1. k \notin DOMAIN ds \/ CounterAt(ds, k) = CounterAt(cs, k)
      BY DEF CounterAt
    <3>2. q[k] <= p[k] + (IF k \in DOMAIN cs /\ k \notin DOMAIN ds THEN Positive(cs[k].up) ELSE 0)
      BY <1>1, <1>2, <3>1, ForgottenPendings
    <3>3. k \in DOMAIN h <=> k \in DOMAIN cs /\ k \notin DOMAIN ds
      BY <1>4, <1>5, <2>1
    <3>4. k \in DOMAIN h => h[k] = F[k] /\ F[k] \in Nat /\ Positive(cs[k].up) <= F[k]
      BY <1>4, <1>5, <3>3 DEF Amounts
    <3>5. p[k] \in Nat /\ q[k] \in Nat
      BY <1>2 DEF Amounts
    <3>6. k \in DOMAIN cs => Positive(cs[k].up) \in Nat
      BY KnownAmounts
    <3> HIDE DEF p, q
    <3> QED
      BY <3>2, <3>3, <3>4, <3>5, <3>6
  <2> HIDE DEF p, q
  <2> QED
    BY <1>2, <1>5, <2>1, OwedOfSums
<1> HIDE DEF p, q
<1>9. Owed(q, ip) + x <= n
  BY <1>1, <1>2, <1>3, <1>4, <1>5, <1>6, <1>7, <1>8
<1>10. Known(ds) <= x
  <2>1. Keyed(ds)
    BY <1>1 DEF Keyed
  <2>2. DOMAIN KnownOf(ds) = {c} /\ KnownOf(ds)[c] = Positive(ds[c].up) /\ Positive(ds[c].up) \in Nat
        /\ Known(ds) = Total(KnownOf(ds))
    BY <2>1, KnownType
  <2>3. Total(KnownOf(ds)) = Positive(ds[c].up)
    BY <2>2, TotalOfOne
  <2> QED
    BY <2>2, <2>3 DEF x
<1> QED
  BY <1>1, <1>9, <1>10, BanSeeded DEF q, x, ip

-----------------------------------------------------------------------------
(* The traffic's part of the invariant.                                    *)

LEMMA PeersAreIdent ==
  ASSUME NEW c \in Conn
  PROVE  PeersAt[c] # {} /\ PeersAt[c] \subseteq Ident
BY EndpointsAssumption DEF Ident

LEMMA TrafficFacts ==
  ASSUME TrafficInv
  PROVE  /\ Connected(raw, peer) /\ DOMAIN raw = swarm /\ swarm \subseteq Conn
         /\ \A ip \in IP : sent[ip] \in Nat
         /\ \A c \in swarm : raw[c] \in Nat /\ peer[c] \in Ident /\ c \in Conn /\ IPOf[c] \in IP
<1>1. swarm \subseteq Conn
  BY HistoryAssumption DEF TrafficInv
<1>2. DOMAIN raw = swarm /\ \A c \in swarm : raw[c] \in Nat /\ peer[c] \in Ident
  BY DEF TrafficInv
<1>3. \A ip \in IP : sent[ip] \in Nat
  BY DEF TrafficInv
<1> QED
  BY <1>1, <1>2, <1>3 DEF Connected, Amounts, IP

LEMMA OwedOfZeros ==
  ASSUME NEW p, Amounts(p), \A c \in DOMAIN p : p[c] = 0, NEW ip
  PROVE  Owed(p, ip) = 0
<1> DEFINE f == OfIP(p, ip)
<1>1. Summable(f) /\ DOMAIN f \subseteq DOMAIN p /\ \A c \in DOMAIN f : f[c] = p[c]
  BY OwedType
<1> HIDE DEF f
<1>2. Block(f, DOMAIN f) = {}
  BY <1>1 DEF Block
<1>3. Total(f) = 0
  BY <1>1, <1>2, TotalIs, FS_EmptySet
<1> QED
  BY <1>3 DEF Owed, f

LEMMA TrafficInvInit ==
  ASSUME TrafficInit
  PROVE  TrafficInv
<1>1. swarm \in Swarms /\ swarm \subseteq Conn /\ raw = [c \in swarm |-> 0] /\ sent = [ip \in IP |-> 0]
  BY HistoryAssumption DEF TrafficInit
<1>2. peer \in [swarm -> Ident] /\ \A c \in swarm : peer[c] \in PeersAt[c]
  <2>1. peer = [c \in swarm |-> CHOOSE id \in PeersAt[c] : TRUE]
    BY DEF TrafficInit
  <2>2. \A c \in swarm : (CHOOSE id \in PeersAt[c] : TRUE) \in PeersAt[c] /\ PeersAt[c] \subseteq Ident
    BY <1>1, PeersAreIdent
  <2> QED
    BY <2>1, <2>2
<1>3. Banned = {}
  BY DEF TrafficInit, Banned, Empty
<1>4. Amounts(raw) /\ \A c \in DOMAIN raw : raw[c] = 0
  BY <1>1 DEF Amounts
<1>5. \A ip \in IP : Owed(raw, ip) <= sent[ip]
  BY <1>1, <1>4, OwedOfZeros
<1> QED
  BY <1>1, <1>2, <1>3, <1>5 DEF TrafficInv

LEMMA SendKept ==
  ASSUME TrafficInv, NEW c \in swarm, Send(c)
  PROVE  /\ TrafficInv' /\ OneMore(raw, c, raw') /\ peer' = peer /\ swarm' = swarm
         /\ \A ip \in IP : sent'[ip] \in Nat /\ sent'[ip] = IF IPOf[c] = ip THEN sent[ip] + 1 ELSE sent[ip]
<1>1. /\ Connected(raw, peer) /\ DOMAIN raw = swarm /\ swarm \subseteq Conn
      /\ \A ip \in IP : sent[ip] \in Nat
      /\ \A k \in swarm : raw[k] \in Nat
      /\ IPOf[c] \in IP
  BY TrafficFacts
<1>2. peer' = peer /\ swarm' = swarm /\ banned' = banned
      /\ raw' = [raw EXCEPT ![c] = @ + 1] /\ sent' = [sent EXCEPT ![IPOf[c]] = @ + 1]
  BY DEF Send
<1>3. raw' \in [swarm -> Nat] /\ OneMore(raw, c, raw')
  BY <1>1, <1>2 DEF OneMore, TrafficInv
<1>4. sent' \in [IP -> Nat]
      /\ \A ip \in IP : sent'[ip] \in Nat /\ sent'[ip] = IF IPOf[c] = ip THEN sent[ip] + 1 ELSE sent[ip]
  <2>1. sent \in [IP -> Nat]
    BY DEF TrafficInv
  <2> QED
    BY <1>1, <1>2, <2>1
<1>5. ASSUME NEW ip \in IP PROVE Owed(raw', ip) <= sent'[ip]
  <2>1. Amounts(raw) /\ Amounts(raw') /\ DOMAIN raw' = DOMAIN raw /\ c \in DOMAIN raw
        /\ raw'[c] = raw[c] + 1 /\ \A k \in DOMAIN raw \ {c} : raw'[k] = raw[k]
    BY <1>1, <1>3 DEF Amounts, OneMore
  <2>2. Owed(raw, ip) \in Nat /\ Owed(raw', ip) \in Nat /\ Owed(raw, ip) <= sent[ip]
    BY <2>1, OwedType DEF TrafficInv
  <2>3. CASE IPOf[c] = ip
    <3>1. raw'[c] <= 1 + raw[c] /\ \A k \in DOMAIN raw' \ {c} : raw'[k] <= raw[k]
      BY <2>1 DEF Amounts
    <3>2. Owed(raw', IPOf[c]) <= Owed(raw, IPOf[c]) + 1
      BY <2>1, <3>1, OwedGrows
    <3> QED
      BY <1>1, <1>4, <2>2, <2>3, <3>2
  <2>4. CASE IPOf[c] # ip
    <3>1. \A k \in DOMAIN raw' : IPOf[k] = ip => raw'[k] <= raw[k]
      BY <2>1, <2>4 DEF Amounts
    <3>2. Owed(raw', ip) <= Owed(raw, ip)
      BY <2>1, <3>1, OwedWithin
    <3> QED
      BY <1>1, <1>4, <2>2, <2>4, <3>2
  <2> QED
    BY <2>3, <2>4
<1>6. ASSUME NEW ip \in Banned PROVE BanOK(raw', peer, sent'[ip], banned[ip], ip)
  <2>1. ip \in IP /\ BanOK(raw, peer, sent[ip], banned[ip], ip)
    BY DEF TrafficInv
  <2>2. sent[ip] \in Nat /\ sent'[ip] \in Nat /\ sent'[ip] = IF IPOf[c] = ip THEN sent[ip] + 1 ELSE sent[ip]
    BY <1>1, <1>4, <2>1
  <2> DEFINE n == sent[ip]
             m == sent'[ip]
             b == banned[ip]
             rw2 == raw'
  <2>3. BanOK(raw, peer, n, b, ip) /\ OneMore(raw, c, rw2) /\ n \in Nat /\ m \in Nat
        /\ m = IF IPOf[c] = ip THEN n + 1 ELSE n
    BY <1>3, <2>1, <2>2
  <2> HIDE DEF n, m, b, rw2
  <2>4. BanOK(rw2, peer, m, b, ip)
    BY <1>1, <2>3, BanSend
  <2> QED
    BY <2>4 DEF m, b, rw2
<1>7. TrafficInv'
  BY <1>2, <1>3, <1>4, <1>5, <1>6 DEF TrafficInv, Banned
<1> QED
  BY <1>2, <1>3, <1>4, <1>7

LEMMA QuietKept ==
  ASSUME TrafficInv, UNCHANGED <<swarm, banned, sent>>, raw' \in [swarm -> Nat], peer' \in [swarm -> Ident],
         \A c \in swarm : peer'[c] \in PeersAt[c], Quiet(raw, peer, raw', peer')
  PROVE  TrafficInv'
<1>1. ASSUME NEW ip \in IP PROVE Owed(raw', ip) <= sent[ip]
  <2>1. Amounts(raw) /\ Amounts(raw') /\ DOMAIN raw' = DOMAIN raw /\ \A k \in DOMAIN raw : raw'[k] <= raw[k]
    BY DEF Quiet, Amounts
  <2>2. Owed(raw', ip) <= Owed(raw, ip) /\ Owed(raw, ip) \in Nat /\ Owed(raw', ip) \in Nat
    BY <2>1, OwedWithin, OwedType
  <2>3. Owed(raw, ip) <= sent[ip] /\ sent[ip] \in Nat
    BY DEF TrafficInv
  <2> QED
    BY <2>2, <2>3
<1>2. ASSUME NEW ip \in Banned PROVE BanOK(raw', peer', sent[ip], banned[ip], ip)
  <2>1. sent[ip] \in Nat /\ BanOK(raw, peer, sent[ip], banned[ip], ip)
    BY DEF TrafficInv
  <2> DEFINE n == sent[ip]
             b == banned[ip]
  <2>2. n \in Nat /\ BanOK(raw, peer, n, b, ip)
    BY <2>1
  <2> HIDE DEF n, b
  <2>3. BanOK(raw', peer', n, b, ip)
    BY <2>2, BanQuiet
  <2> QED
    BY <2>3 DEF n, b
<1> QED
  BY <1>1, <1>2 DEF TrafficInv, Banned

LEMMA ReconnectIsQuiet ==
  ASSUME TrafficInv, NEW c \in swarm, Reconnect(c)
  PROVE  /\ UNCHANGED <<swarm, banned, sent>> /\ raw' \in [swarm -> Nat] /\ peer' \in [swarm -> Ident]
         /\ \A k \in swarm : peer'[k] \in PeersAt[k]
         /\ Quiet(raw, peer, raw', peer')
         /\ raw'[c] = 0 /\ \A k \in swarm \ {c} : raw'[k] = raw[k] /\ peer'[k] = peer[k]
<1>1. /\ Connected(raw, peer) /\ DOMAIN raw = swarm /\ swarm \subseteq Conn
      /\ \A k \in swarm : raw[k] \in Nat /\ peer[k] \in Ident
  BY TrafficFacts
<1>2. PICK id \in PeersAt[c] : peer' = [peer EXCEPT ![c] = id]
  BY DEF Reconnect
<1>3. raw' = [raw EXCEPT ![c] = 0] /\ UNCHANGED <<swarm, banned, sent>>
  BY DEF Reconnect
<1>4. id \in Ident
  BY <1>1, <1>2, PeersAreIdent
<1>5. /\ raw' \in [swarm -> Nat] /\ peer' \in [swarm -> Ident]
      /\ raw'[c] = 0 /\ peer'[c] = id /\ \A k \in swarm \ {c} : raw'[k] = raw[k] /\ peer'[k] = peer[k]
  BY <1>1, <1>2, <1>3, <1>4 DEF TrafficInv
<1>6. \A k \in swarm : peer'[k] \in PeersAt[k]
  BY <1>2, <1>5 DEF TrafficInv
<1>7. Quiet(raw, peer, raw', peer')
  BY <1>1, <1>5 DEF Quiet, Amounts
<1> QED
  BY <1>3, <1>5, <1>6, <1>7

LEMMA ForgetIsQuiet ==
  ASSUME TrafficInv, NEW S, Forget(S), UNCHANGED <<banned, sent>>
  PROVE  /\ UNCHANGED <<swarm, banned, sent>> /\ raw' \in [swarm -> Nat] /\ peer' = peer
         /\ Quiet(raw, peer, raw', peer') /\ TrafficInv'
         /\ \A k \in swarm : raw'[k] = IF k \in S THEN 0 ELSE raw[k]
<1>1. /\ Connected(raw, peer) /\ DOMAIN raw = swarm /\ swarm \subseteq Conn
      /\ \A k \in swarm : raw[k] \in Nat /\ peer[k] \in Ident
  BY TrafficFacts
<1>2. raw' = [c \in swarm |-> IF c \in S THEN 0 ELSE raw[c]] /\ UNCHANGED <<swarm, peer, banned, sent>>
  BY DEF Forget
<1>3. raw' \in [swarm -> Nat] /\ \A k \in swarm : raw'[k] = IF k \in S THEN 0 ELSE raw[k]
  BY <1>1, <1>2
<1>4. Quiet(raw, peer, raw', peer')
  BY <1>1, <1>2, <1>3 DEF Quiet, Amounts
<1>5. peer' \in [swarm -> Ident] /\ \A c \in swarm : peer'[c] \in PeersAt[c]
  BY <1>2 DEF TrafficInv
<1> QED
  BY <1>2, <1>3, <1>4, <1>5, QuietKept

\* A step that changes the bans only.
LEMMA BansKept ==
  ASSUME TrafficInv, UNCHANGED <<external, sent>>, Banned' \subseteq IP,
         \A ip \in Banned' : \/ ip \in Banned /\ banned'[ip] = banned[ip]
                             \/ BanOK(raw, peer, sent[ip], banned'[ip], ip)
  PROVE  TrafficInv'
<1>1. swarm' = swarm /\ raw' = raw /\ peer' = peer /\ sent' = sent
  BY DEF external
<1>2. \A ip \in Banned' : BanOK(raw, peer, sent[ip], banned'[ip], ip)
  BY DEF TrafficInv
<1> QED
  BY <1>1, <1>2 DEF TrafficInv

LEMMA ReportedIs ==
  ASSUME TrafficInv, NEW c \in swarm, NEW up \in Reports(c), NEW id \in Ids(c)
  PROVE  Reported(raw, peer, c, up, id)
<1>1. DOMAIN raw = swarm /\ peer[c] \in Ident
  BY TrafficFacts
<1>2. up \in {raw[c], Unknown}
  BY DEF Reports
<1>3. id = peer[c] \/ (id = NoId /\ raw[c] = 0)
  BY DEF Ids
<1> QED
  BY <1>1, <1>2, <1>3 DEF Reported, Ident

LEMMA UpdateKept ==
  ASSUME TrafficInv, NEW c \in swarm, NEW up \in Reports(c), NEW id \in Ids(c),
         UpdateBlockedPeerTraffic(c, up, id), UNCHANGED <<external, sent>>
  PROVE  TrafficInv'
<1> DEFINE ip == IPOf[c]
           b == banned[ip]
           n == sent[ip]
<1>1. Reported(raw, peer, c, up, id) /\ Connected(raw, peer) /\ ip \in Banned
  BY ReportedIs, TrafficFacts DEF UpdateBlockedPeerTraffic
<1>2. BanOK(raw, peer, n, b, ip) /\ n \in Nat
  BY <1>1 DEF TrafficInv
<1> HIDE DEF n, b
<1>3. BanOK(raw, peer, n, BlockedPeerCounterDelta(b, c, up, id), ip)
  BY <1>1, <1>2, BanUpdate
<1>4. banned' = [banned EXCEPT ![ip] = BlockedPeerCounterDelta(b, c, up, id)]
  BY DEF UpdateBlockedPeerTraffic, b
<1>5. Banned' = Banned /\ banned'[ip] = BlockedPeerCounterDelta(b, c, up, id)
      /\ \A k \in Banned \ {ip} : banned'[k] = banned[k]
  BY <1>1, <1>4 DEF Banned
<1>6. Banned' \subseteq IP
  BY <1>5 DEF TrafficInv
<1> QED
  BY <1>3, <1>5, <1>6, BansKept DEF n

LEMMA AddKept ==
  ASSUME TrafficInv, NEW c \in swarm, NEW up \in Reports(c), NEW id \in Ids(c), NEW key \in {c, TorrentOf(c)},
         AddBlockPeer(c, key, up, id), UNCHANGED <<external, sent>>
  PROVE  TrafficInv'
<1> DEFINE ip == IPOf[c]
           n == sent[ip]
           b == BlockedPeerCounterDelta(NoBan, key, up, id)
<1>1. Reported(raw, peer, c, up, id) /\ Connected(raw, peer) /\ ip \in IP /\ n \in Nat
  BY ReportedIs, TrafficFacts
<1>2. Owed(raw, ip) <= n
  BY <1>1 DEF TrafficInv
<1> HIDE DEF n
<1>3. BanOK(raw, peer, n, b, ip)
  BY <1>1, <1>2, BanByKey
<1>4. banned' = With(banned, ip, b)
  BY DEF AddBlockPeer, NoBan
<1> HIDE DEF b, ip
<1>5. Banned' = Banned \cup {ip} /\ banned'[ip] = b /\ \A k \in Banned \ {ip} : banned'[k] = banned[k]
  BY <1>4 DEF Banned, With
<1>6. Banned' \subseteq IP
  BY <1>1, <1>5 DEF TrafficInv
<1> QED
  BY <1>3, <1>5, <1>6, BansKept DEF n

LEMMA UnbanKept ==
  ASSUME TrafficInv, NEW ip \in IP, Unban(ip), UNCHANGED <<external, sent>>
  PROVE  TrafficInv'
<1>1. Banned' = Banned \ {ip} /\ \A k \in Banned' : banned'[k] = banned[k]
  BY DEF Unban, Restrict, Banned
<1>2. Banned' \subseteq IP
  BY <1>1 DEF TrafficInv
<1> QED
  BY <1>1, <1>2, BansKept

-----------------------------------------------------------------------------
(* The statistics by IP.                                                   *)

LEMMA AgeIs ==
  /\ Far \in Nat /\ Far = Retention + 1 /\ Retention \in Nat /\ 0 \in Age
  /\ \A a \in Age : a \in Nat /\ a <= Far /\ (a <= Retention \/ a = Far)
BY HistoryAssumption DEF Far, Age

LEMMA OlderIs ==
  ASSUME NEW a \in Age, NEW d \in Pauses
  PROVE  Older(a, d) \in Age /\ a <= Older(a, d)
<1>1. d \in Nat /\ a \in Nat /\ a <= Far /\ Far \in Nat
  BY HistoryAssumption, AgeIs DEF Far
<1> QED
  BY <1>1 DEF Older, Age

LEMMA AgedFacts ==
  ASSUME NEW cs, DOMAIN cs \subseteq Conn, cs \in [DOMAIN cs -> Aged]
  PROVE  /\ Counters(cs) /\ Counters(FreshOf(cs)) /\ Keyed(cs)
         /\ DOMAIN FreshOf(cs) = {c \in DOMAIN cs : cs[c].age <= Retention}
         /\ DOMAIN FreshOf(cs) \subseteq DOMAIN cs
         /\ \A c \in DOMAIN FreshOf(cs) : FreshOf(cs)[c] = cs[c] /\ CounterAt(FreshOf(cs), c) = CounterAt(cs, c)
         /\ \A c \in DOMAIN cs : cs[c].up \in Raw /\ cs[c].id \in Ident /\ cs[c].age \in Age
<1>1. \A c \in DOMAIN cs : cs[c] \in Aged
  OBVIOUS
<1>2. \A c \in DOMAIN cs : /\ [up |-> cs[c].up, id |-> cs[c].id] \in Counter
                           /\ cs[c].up \in Raw /\ cs[c].id \in Ident /\ cs[c].age \in Age
  BY <1>1 DEF Aged, Counter, Raw, Ident
<1>3. /\ DOMAIN FreshOf(cs) = {c \in DOMAIN cs : cs[c].age <= Retention}
      /\ \A c \in DOMAIN FreshOf(cs) : FreshOf(cs)[c] = cs[c]
  BY DEF FreshOf, Restrict
<1> QED
  BY <1>2, <1>3 DEF Counters, Keyed, CounterAt

LEMMA UploadsFacts ==
  ASSUME NEW ts, DOMAIN ts \subseteq Torrent, ts \in [DOMAIN ts -> Observed]
  PROVE  /\ Sums(UploadsOf(ts)) /\ DOMAIN UploadsOf(ts) = DOMAIN ts
         /\ \A t \in DOMAIN ts : UploadsOf(ts)[t] = Positive(ts[t].uploaded)
         /\ \A t \in DOMAIN ts : ts[t].observed \in Nat /\ ts[t].uploaded \in Raw /\ ts[t].age \in Age
<1>1. \A t \in DOMAIN ts : ts[t].observed \in Nat /\ ts[t].uploaded \in Raw /\ ts[t].age \in Age
  BY DEF Observed
<1>2. \A t \in DOMAIN ts : Positive(ts[t].uploaded) \in Nat
  <2> TAKE t \in DOMAIN ts
  <2>1. ts[t].uploaded \in Raw
    BY <1>1
  <2> QED
    BY <2>1 DEF Positive, Raw, Unknown
<1> QED
  BY <1>1, <1>2 DEF UploadsOf, Sums

LastOK(ts, last) == \A t \in DOMAIN last : t \in DOMAIN ts /\ last[t] \in 0 .. ts[t].observed

LastOf(last, t) == IF t \in DOMAIN last THEN last[t] ELSE 0

LEMMA GrownFacts ==
  ASSUME NEW ts, DOMAIN ts \subseteq Torrent, ts \in [DOMAIN ts -> Observed], NEW last, LastOK(ts, last), NEW ip
  PROVE  /\ Summable(GrownBy(ts, last, ip)) /\ Total(GrownBy(ts, last, ip)) \in Nat
         /\ \A u : u \in DOMAIN GrownBy(ts, last, ip) <=> u \in DOMAIN ts /\ u[1] = ip
         /\ \A t \in DOMAIN GrownBy(ts, last, ip) :
              GrownBy(ts, last, ip)[t] = ts[t].observed - LastOf(last, t)
<1> DEFINE g == GrownBy(ts, last, ip)
<1>1. DOMAIN g = {u \in DOMAIN ts : u[1] = ip}
  BY DEF GrownBy
<1>2. ASSUME NEW t \in DOMAIN g
      PROVE  g[t] = ts[t].observed - LastOf(last, t) /\ g[t] \in Nat
  <2> DEFINE l == IF t \in DOMAIN last THEN last[t] ELSE 0
             o == ts[t].observed
  <2>1. o \in Nat
    BY <1>1, UploadsFacts
  <2>2. l \in Nat /\ l <= o
    BY <2>1 DEF LastOK
  <2>3. g[t] = CounterDelta(o, l)
    BY DEF GrownBy
  <2> HIDE DEF l, o
  <2>4. CounterDelta(o, l) = o - l /\ o - l \in Nat
    BY <2>1, <2>2 DEF CounterDelta
  <2> QED
    BY <2>3, <2>4 DEF l, o, LastOf
<1>3. IsFiniteSet(DOMAIN g)
  BY <1>1, TorrentsFinite, FS_Subset
<1> HIDE DEF g
<1>4. Summable(g) /\ Total(g) \in Nat
  <2>1. Summable(g)
    BY <1>2, <1>3 DEF Summable
  <2> QED
    BY <2>1, TotalIs
<1> QED
  BY <1>1, <1>2, <1>4 DEF g

LEMMA IPFacts ==
  ASSUME TrafficInv, IPInv
  PROVE  /\ Connected(raw, peer) /\ DOMAIN raw = swarm /\ swarm \subseteq Conn /\ DOMAIN counters \subseteq Conn
         /\ Counters(counters) /\ Counters(FreshOf(counters)) /\ Sums(UploadsOf(torrents))
         /\ LastOK(torrents, lastObserved)
<1>1. Connected(raw, peer) /\ DOMAIN raw = swarm /\ swarm \subseteq Conn
  BY TrafficFacts
<1>2. DOMAIN counters \subseteq Conn /\ counters \in [DOMAIN counters -> Aged]
  BY <1>1 DEF IPInv, IPTypes
<1>3. Counters(counters) /\ Counters(FreshOf(counters))
  BY <1>2, AgedFacts
<1>4. Sums(UploadsOf(torrents)) /\ LastOK(torrents, lastObserved)
  BY UploadsFacts DEF IPInv, IPTypes, LastOK
<1> QED
  BY <1>1, <1>2, <1>3, <1>4

LEMMA IPUnchanged ==
  ASSUME IPInv, UNCHANGED <<external, sent, ipVars>>
  PROVE  IPInv'
<1>1. /\ swarm' = swarm /\ raw' = raw /\ peer' = peer /\ sent' = sent /\ counters' = counters
      /\ torrents' = torrents /\ ipAge' = ipAge /\ lastObserved' = lastObserved /\ checkAge' = checkAge
      /\ unrecorded' = unrecorded /\ window' = window
  BY DEF external, ipVars, ipStatistics, ipHistory
<1> QED
  BY <1>1 DEF IPInv, IPTypes, Never, Far, Age, IP, Torrent, TorrentOf

LEMMA IPInvInit ==
  ASSUME TrafficInv, sent = [ip \in IP |-> 0], raw = [c \in swarm |-> 0], IPInit
  PROVE  IPInv
<1>1. /\ counters = Empty /\ torrents = Empty /\ ipAge = Empty /\ lastObserved = Empty /\ checkAge = Never
      /\ unrecorded = [c \in swarm |-> Unknown] /\ window = [ip \in IP |-> 0]
  BY DEF IPInit
<1>2. DOMAIN Empty = {}
  BY DEF Empty
<1>3. IPTypes
  <2>1. unrecorded \in [swarm -> Raw]
    BY <1>1 DEF Raw
  <2> QED
    BY <1>1, <1>2, <2>1 DEF IPTypes
<1>4. Connected(raw, peer) /\ DOMAIN raw = swarm
  BY TrafficFacts
<1> DEFINE cs == counters
           ts == torrents
<1>5. Counters(cs) /\ DOMAIN cs = {} /\ DOMAIN ts = {} /\ Sums(UploadsOf(ts)) /\ DOMAIN UploadsOf(ts) = {}
      /\ DOMAIN FreshOf(cs) = {} /\ Counters(FreshOf(cs)) /\ DOMAIN KnownOf(cs) = {}
  BY <1>1, <1>2 DEF Counters, UploadsOf, Sums, FreshOf, Restrict, KnownOf
<1>6. Covers(UploadsOf(ts), KnownOf(cs))
  BY <1>5 DEF Covers
<1>7. ASSUME NEW ip \in IP PROVE Total(GrownBy(ts, lastObserved, ip)) <= window[ip]
  <2>1. DOMAIN GrownBy(ts, lastObserved, ip) = {}
    BY <1>5 DEF GrownBy
  <2> QED
    BY <1>1, <2>1, TotalOfNothing
<1>8. ASSUME NEW ip \in IP PROVE Ledger(raw, peer, UploadsOf(ts), FreshOf(cs), sent[ip], ip)
  <2> DEFINE p == Pendings(raw, peer, FreshOf(cs))
  <2>1. Amounts(p) /\ DOMAIN p = DOMAIN raw /\ \A c \in DOMAIN raw : p[c] <= raw[c]
    BY <1>4, <1>5, PendingsType DEF Connected
  <2>2. \A c \in DOMAIN p : p[c] = 0
    BY <2>1 DEF Amounts
  <2> HIDE DEF p
  <2>3. Owed(p, ip) = 0
    BY <2>1, <2>2, OwedOfZeros
  <2>4. Paid(UploadsOf(ts), ip) = 0
    <3>1. DOMAIN PaidOf(UploadsOf(ts), ip) = {}
      BY <1>5, PaidType
    <3> QED
      BY <3>1, TotalOfNothing DEF Paid
  <2> QED
    BY <2>3, <2>4 DEF Ledger, p
<1>9. \A c \in DOMAIN cs : Tracked(cs[c], raw[c], peer[c], unrecorded[c])
  BY <1>5
<1> QED
  BY <1>3, <1>6, <1>7, <1>8, <1>9 DEF IPInv

LEMMA IPSendKeeps ==
  ASSUME TrafficInv, IPInv, NEW c \in swarm, IPSend(c)
  PROVE  TrafficInv' /\ IPInv'
<1>1. /\ TrafficInv' /\ OneMore(raw, c, raw') /\ peer' = peer /\ swarm' = swarm
      /\ \A ip \in IP : sent'[ip] \in Nat /\ sent'[ip] = IF IPOf[c] = ip THEN sent[ip] + 1 ELSE sent[ip]
  BY SendKept DEF IPSend
<1>2. /\ counters' = counters /\ torrents' = torrents /\ ipAge' = ipAge /\ lastObserved' = lastObserved
      /\ checkAge' = checkAge /\ window' = window
      /\ unrecorded' = [unrecorded EXCEPT ![c] = IF @ = Unknown THEN @ ELSE @ + 1]
  BY DEF IPSend, ipStatistics
<1>3. /\ Connected(raw, peer) /\ DOMAIN raw = swarm /\ DOMAIN counters \subseteq Conn /\ DOMAIN counters \subseteq swarm
      /\ Counters(FreshOf(counters)) /\ Sums(UploadsOf(torrents)) /\ counters \in [DOMAIN counters -> Aged]
      /\ \A k \in swarm : raw[k] \in Nat
      /\ \A ip \in IP : sent[ip] \in Nat
  BY IPFacts, TrafficFacts DEF IPInv, IPTypes
<1>4. unrecorded \in [swarm -> Raw]
  BY DEF IPInv, IPTypes
<1>5. unrecorded' \in [swarm -> Raw]
  <2>1. unrecorded[c] \in Raw
    BY <1>4
  <2>2. (IF unrecorded[c] = Unknown THEN unrecorded[c] ELSE unrecorded[c] + 1) \in Raw
    BY <2>1 DEF Raw, Unknown
  <2> QED
    BY <1>2, <1>4, <2>2
<1>6. IPTypes'
  BY <1>1, <1>2, <1>5 DEF IPInv, IPTypes, IP, Torrent, TorrentOf, Age, Never, Far
<1>7. ASSUME NEW k \in DOMAIN counters PROVE Tracked(counters[k], raw'[k], peer[k], unrecorded'[k])
  <2>1. Tracked(counters[k], raw[k], peer[k], unrecorded[k]) /\ raw[k] \in Nat /\ counters[k].up \in Raw /\ k \in swarm
    BY <1>3, AgedFacts DEF IPInv
  <2>2. CASE k = c
    <3>1. unrecorded[c] \in Nat /\ unrecorded'[c] = unrecorded[c] + 1 /\ raw'[c] = raw[c] + 1
      BY <1>1, <1>2, <1>4, <2>1, <2>2 DEF Tracked, Unknown, OneMore
    <3> QED
      BY <2>1, <2>2, <3>1 DEF Tracked, Raw, Unknown
  <2>3. CASE k # c
    <3>1. unrecorded'[k] = unrecorded[k] /\ raw'[k] = raw[k]
      BY <1>1, <1>2, <1>3, <1>4, <2>1, <2>3 DEF OneMore
    <3> QED
      BY <2>1, <3>1
  <2> QED
    BY <2>2, <2>3
<1>8. ASSUME NEW ip \in IP PROVE Ledger(raw', peer, UploadsOf(torrents), FreshOf(counters), sent'[ip], ip)
  <2> DEFINE n == sent[ip]
             m == sent'[ip]
             cs == FreshOf(counters)
             pd == UploadsOf(torrents)
             rw2 == raw'
  <2>1. /\ n \in Nat /\ m \in Nat /\ m = IF IPOf[c] = ip THEN n + 1 ELSE n
        /\ Counters(cs) /\ Sums(pd) /\ OneMore(raw, c, rw2)
    BY <1>1, <1>3
  <2>2. Ledger(raw, peer, pd, cs, n, ip)
    BY DEF IPInv
  <2> HIDE DEF n, m, cs, pd, rw2
  <2>3. Ledger(rw2, peer, pd, cs, m, ip)
    BY <1>3, <2>1, <2>2, LedgerSend
  <2> QED
    BY <2>3 DEF m, cs, pd, rw2
<1>9. /\ Covers(UploadsOf(torrents), KnownOf(counters))
      /\ \A ip \in IP : Total(GrownBy(torrents, lastObserved, ip)) <= window[ip]
  BY DEF IPInv
<1> QED
  BY <1>1, <1>2, <1>6, <1>7, <1>8, <1>9 DEF IPInv

\* A step of the connections alone, over which no counter is lost.
LEMMA IPQuietKeeps ==
  ASSUME TrafficInv, IPInv, Quiet(raw, peer, raw', peer'), TrafficInv',
         UNCHANGED <<swarm, sent, unrecorded, window>>, UploadsOf(torrents') = UploadsOf(torrents),
         \A ip : GrownBy(torrents', lastObserved', ip) = GrownBy(torrents, lastObserved, ip),
         DOMAIN counters' = DOMAIN counters, counters' \in [DOMAIN counters -> Aged],
         \A c \in DOMAIN counters : counters'[c].up = counters[c].up /\ counters'[c].id = counters[c].id,
         \A c \in DOMAIN counters : raw'[c] # 0 => (c \in DOMAIN FreshOf(counters') <=> c \in DOMAIN FreshOf(counters)),
         IPTypes'
  PROVE  IPInv'
<1>1. /\ Connected(raw, peer) /\ DOMAIN raw = swarm /\ DOMAIN counters \subseteq Conn /\ DOMAIN counters \subseteq swarm
      /\ Counters(FreshOf(counters)) /\ Sums(UploadsOf(torrents)) /\ counters \in [DOMAIN counters -> Aged]
      /\ \A ip \in IP : sent[ip] \in Nat
  BY IPFacts, TrafficFacts DEF IPInv, IPTypes
<1> DEFINE cs == FreshOf(counters)
           ds == FreshOf(counters')
           pd == UploadsOf(torrents)
<1>2. /\ DOMAIN cs \subseteq DOMAIN counters /\ Counters(cs)
      /\ \A c \in DOMAIN cs : cs[c] = counters[c]
  BY <1>1, AgedFacts
<1>3. /\ DOMAIN ds \subseteq DOMAIN counters /\ Counters(ds)
      /\ \A c \in DOMAIN ds : ds[c] = counters'[c]
  <2>1. DOMAIN counters' \subseteq Conn /\ counters' \in [DOMAIN counters' -> Aged]
    BY <1>1
  <2> QED
    BY <2>1, AgedFacts
<1>4. KnownOf(counters') = KnownOf(counters)
  BY DEF KnownOf
<1>5. ASSUME NEW c \in DOMAIN counters PROVE Tracked(counters'[c], raw'[c], peer'[c], unrecorded[c])
  <2>1. Tracked(counters[c], raw[c], peer[c], unrecorded[c]) /\ c \in DOMAIN raw
    BY <1>1 DEF IPInv
  <2>2. raw'[c] = 0 \/ (raw'[c] = raw[c] /\ peer'[c] = peer[c])
    BY <2>1 DEF Quiet
  <2> QED
    BY <2>1, <2>2 DEF Tracked, Base
<1>6. ASSUME NEW ip \in IP PROVE Ledger(raw', peer', pd, ds, sent[ip], ip)
  <2>1. \A c \in DOMAIN raw : raw'[c] # 0 => CounterAt(ds, c) = CounterAt(cs, c)
    BY <1>2, <1>3 DEF CounterAt
  <2>2. Ledger(raw, peer, pd, cs, sent[ip], ip)
    BY DEF IPInv
  <2> DEFINE n == sent[ip]
  <2>3. n \in Nat
    BY <1>1
  <2> HIDE DEF cs, ds, pd, n
  <2> QED
    BY <1>1, <1>2, <1>3, <2>1, <2>2, <2>3, LedgerQuiet DEF n, pd
<1>7. /\ Covers(UploadsOf(torrents), KnownOf(counters))
      /\ \A ip \in IP : Total(GrownBy(torrents, lastObserved, ip)) <= window[ip]
  BY DEF IPInv
<1> QED
  BY <1>4, <1>5, <1>6, <1>7 DEF IPInv

LEMMA IPReconnectKeeps ==
  ASSUME TrafficInv, IPInv, NEW c \in swarm, Reconnect(c), UNCHANGED ipVars
  PROVE  TrafficInv' /\ IPInv'
<1>1. /\ UNCHANGED <<swarm, banned, sent>> /\ raw' \in [swarm -> Nat] /\ peer' \in [swarm -> Ident]
      /\ \A k \in swarm : peer'[k] \in PeersAt[k]
      /\ Quiet(raw, peer, raw', peer')
  BY ReconnectIsQuiet
<1>2. TrafficInv'
  BY <1>1, QuietKept
<1>3. /\ counters' = counters /\ torrents' = torrents /\ ipAge' = ipAge /\ lastObserved' = lastObserved
      /\ checkAge' = checkAge /\ unrecorded' = unrecorded /\ window' = window
  BY DEF ipVars, ipStatistics, ipHistory
<1>4. IPTypes'
  BY <1>1, <1>3 DEF IPInv, IPTypes, IP, Torrent, TorrentOf, Age, Never, Far
<1>5. counters \in [DOMAIN counters -> Aged]
  BY DEF IPInv, IPTypes
<1>6. UNCHANGED <<swarm, sent, unrecorded, window>> /\ UploadsOf(torrents') = UploadsOf(torrents)
      /\ \A ip : GrownBy(torrents', lastObserved', ip) = GrownBy(torrents, lastObserved, ip)
  BY <1>1, <1>3
<1>7. IPInv'
  BY <1>1, <1>2, <1>3, <1>4, <1>5, <1>6, IPQuietKeeps
<1> QED
  BY <1>2, <1>7

LEMMA IPTimeKeeps ==
  ASSUME TrafficInv, IPInv, NEW d \in Pauses, IPTimePasses(d)
  PROVE  TrafficInv' /\ IPInv'
<1>1. /\ counters' = [c \in DOMAIN counters |-> [counters[c] EXCEPT !.age = Older(@, d)]]
      /\ torrents' = [t \in DOMAIN torrents |-> [torrents[t] EXCEPT !.age = Older(@, d)]]
      /\ ipAge' = [ip \in DOMAIN ipAge |-> Older(ipAge[ip], d)]
      /\ checkAge' = IF checkAge = Never THEN Never ELSE Older(checkAge, d)
      /\ Forget({c \in DOMAIN counters : counters'[c].age = Far})
      /\ UNCHANGED <<lastObserved, banned, sent, unrecorded, window>>
  BY DEF IPTimePasses, ipHistory
<1>2. /\ UNCHANGED <<swarm, banned, sent>> /\ peer' = peer /\ Quiet(raw, peer, raw', peer') /\ TrafficInv'
      /\ \A k \in swarm : raw'[k] = IF k \in {c \in DOMAIN counters : counters'[c].age = Far} THEN 0 ELSE raw[k]
  BY <1>1, ForgetIsQuiet
<1>3. /\ DOMAIN counters \subseteq swarm /\ DOMAIN counters \subseteq Conn /\ counters \in [DOMAIN counters -> Aged]
      /\ torrents \in [DOMAIN torrents -> Observed] /\ DOMAIN torrents \subseteq Torrent
      /\ ipAge \in [DOMAIN ipAge -> Age] /\ checkAge \in Age \cup {Never}
  BY IPFacts DEF IPInv, IPTypes
<1>4. ASSUME NEW c \in DOMAIN counters
      PROVE  /\ counters'[c] \in Aged /\ counters'[c].up = counters[c].up /\ counters'[c].id = counters[c].id
             /\ counters'[c].age \in Age /\ counters[c].age <= counters'[c].age /\ counters[c].age \in Age
  <2>1. counters[c] \in Aged /\ counters[c].age \in Age
    BY <1>3, AgedFacts
  <2>2. Older(counters[c].age, d) \in Age /\ counters[c].age <= Older(counters[c].age, d)
    BY <2>1, OlderIs
  <2>3. counters'[c] = [counters[c] EXCEPT !.age = Older(counters[c].age, d)]
    BY <1>1
  <2> QED
    BY <2>1, <2>2, <2>3 DEF Aged
<1>5. DOMAIN counters' = DOMAIN counters /\ counters' \in [DOMAIN counters -> Aged]
  BY <1>1, <1>4
<1>6. ASSUME NEW t \in DOMAIN torrents
      PROVE  /\ torrents'[t] \in Observed /\ torrents'[t].observed = torrents[t].observed
             /\ torrents'[t].uploaded = torrents[t].uploaded
  <2>1. torrents[t] \in Observed /\ torrents[t].age \in Age
    BY <1>3 DEF Observed
  <2>2. Older(torrents[t].age, d) \in Age
    BY <2>1, OlderIs
  <2>3. torrents'[t] = [torrents[t] EXCEPT !.age = Older(torrents[t].age, d)]
    BY <1>1
  <2> QED
    BY <2>1, <2>2, <2>3 DEF Observed
<1>7. DOMAIN torrents' = DOMAIN torrents /\ torrents' \in [DOMAIN torrents -> Observed]
  BY <1>1, <1>6
<1>8. IPTypes'
  <2>1. ipAge' \in [DOMAIN ipAge -> Age] /\ DOMAIN ipAge' = DOMAIN ipAge
    BY <1>1, <1>3, OlderIs
  <2>2. checkAge' \in Age \cup {Never}
    BY <1>1, <1>3, OlderIs
  <2>3. \A t \in DOMAIN lastObserved : lastObserved[t] \in 0 .. torrents'[t].observed
    BY <1>6 DEF IPInv, IPTypes
  <2> QED
    BY <1>1, <1>2, <1>3, <1>5, <1>7, <2>1, <2>2, <2>3 DEF IPInv, IPTypes
<1>9. ASSUME NEW c \in DOMAIN counters, raw'[c] # 0
      PROVE  c \in DOMAIN FreshOf(counters') <=> c \in DOMAIN FreshOf(counters)
  <2>1. counters'[c].age # Far
    BY <1>2, <1>3, <1>9
  <2>2. counters'[c].age <= Retention /\ counters[c].age <= Retention
    BY <1>4, <2>1, AgeIs
  <2> QED
    BY <1>5, <2>2 DEF FreshOf, Restrict
<1>10. UploadsOf(torrents') = UploadsOf(torrents)
  BY <1>6, <1>7 DEF UploadsOf
<1>11. \A ip : GrownBy(torrents', lastObserved, ip) = GrownBy(torrents, lastObserved, ip)
  BY <1>6, <1>7 DEF GrownBy
<1>12. UNCHANGED <<swarm, sent, unrecorded, window>> /\ lastObserved' = lastObserved
  BY <1>1, <1>2
<1>13. \A c \in DOMAIN counters : counters'[c].up = counters[c].up /\ counters'[c].id = counters[c].id
  BY <1>4
<1>14. IPInv'
  BY <1>2, <1>5, <1>8, <1>9, <1>10, <1>11, <1>12, <1>13, IPQuietKeeps
<1> QED
  BY <1>2, <1>14

\* A report of a connection, as AddIPInfo takes it over.
LEMMA AlignAged ==
  ASSUME NEW r \in Aged, NEW id \in Ident
  PROVE  AlignPeerTrafficCounter(r, id) = [up |-> Base(r, id), id |-> NextId(r, id), age |-> r.age]
BY DEF AlignPeerTrafficCounter, Aged, Base, NextId

\* What the window grows by is what the history says was sent.
Grows(up, previous) == IF previous >= 0 /\ up >= 0 THEN CounterDelta(up, previous) ELSE 0

LEMMA GrowthWithinSent ==
  ASSUME NEW r \in Counter, NEW n \in Nat, NEW pe \in Ident, NEW since, Tracked(r, n, pe, since),
         NEW up \in {n, Unknown}, NEW id \in Ident, id = pe \/ (id = NoId /\ n = 0)
  PROVE  /\ Grows(up, Base(r, id)) \in Nat
         /\ up >= 0 => Grows(up, Base(r, id)) <= since
         /\ up = Unknown => Grows(up, Base(r, id)) = 0
<1> DEFINE b == Base(r, id)
           g == Grows(up, b)
<1>1. b \in Raw /\ since \in Nat /\ up \in Raw /\ n \in Raw
  BY AlignTypes DEF Tracked, Raw
<1> HIDE DEF b
<1>2. CASE up = Unknown
  <2>1. g = 0
    BY <1>2 DEF Grows, Unknown
  <2> QED
    BY <1>2, <2>1 DEF Unknown, b
<1>3. CASE up # Unknown /\ b < 0
  <2>1. g = 0
    BY <1>1, <1>3 DEF Grows, Raw, Unknown
  <2> QED
    BY <1>1, <1>3, <2>1 DEF b
<1>4. CASE up # Unknown /\ b >= 0
  <2>1. up = n /\ up >= 0 /\ Grows(up, b) = CounterDelta(n, b)
    BY <1>4 DEF Grows
  <2>2. CounterDelta(n, b) \in Nat /\ CounterDelta(n, b) <= n
    <3>1. CounterDelta(n, b) \in 0 .. Positive(n) /\ Positive(n) = n
      BY <1>1, DeltaBounds DEF Positive
    <3> QED
      BY <3>1
  <2>3. CASE n <= since
    <3>1. CounterDelta(n, b) <= since
      BY <1>1, <2>2, <2>3
    <3> QED
      BY <1>4, <2>1, <2>2, <3>1 DEF b
  <2>4. CASE ~ (n <= since)
    <3>1. Base(r, pe) = r.up /\ (r.up >= 0 => r.up <= n /\ n <= r.up + since)
      BY <2>4 DEF Tracked
    <3>2. id = pe
      BY <1>1, <2>4
    <3>3. b <= n /\ n <= b + since
      BY <1>4, <3>1, <3>2 DEF b
    <3>4. CounterDelta(n, b) = n - b
      BY <1>1, <1>4, <3>3 DEF CounterDelta, Raw, Unknown
    <3>5. n - b <= since
      BY <1>1, <3>3 DEF Raw, Unknown
    <3> QED
      BY <1>4, <2>1, <2>2, <3>4, <3>5 DEF b
  <2> QED
    BY <2>3, <2>4
<1> QED
  BY <1>1, <1>2, <1>3, <1>4 DEF Raw, Unknown

\* The history follows the baseline that a report sets or leaves alone.
LEMMA TrackedReport ==
  ASSUME NEW old \in Counter, NEW n \in Nat, NEW pe \in Ident, NEW since \in Raw,
         old = NoCounter \/ Tracked(old, n, pe, since),
         NEW up \in {n, Unknown}, NEW id \in Ident, id = pe \/ (id = NoId /\ n = 0),
         NEW new, new.up = Baseline(up, Base(old, id)), new.id = NextId(old, id)
  PROVE  Tracked(new, n, pe, IF up >= 0 THEN 0 ELSE Positive(since))
<1>1. Base(old, id) \in Raw /\ Positive(since) \in Nat
  BY AlignTypes DEF Positive, Raw, Unknown
<1>2. CASE id # pe
  <2>1. n = 0
    BY <1>2
  <2> QED
    BY <1>1, <2>1 DEF Tracked
<1>3. CASE id = pe
  <2>1. Base(new, pe) = new.up
    BY <1>3 DEF Base, NextId
  <2>2. CASE up = n
    <3>1. new.up = n /\ up >= 0
      BY <2>2 DEF Baseline
    <3> QED
      BY <2>1, <2>2, <3>1 DEF Tracked
  <2>3. CASE up = Unknown
    <3>1. new.up = Base(old, pe) /\ ~ (up >= 0)
      BY <1>3, <2>3 DEF Baseline, Unknown
    <3>2. CASE old = NoCounter
      <4>1. new.up = Unknown
        BY <3>1, <3>2, NoCounterIs
      <4> QED
        BY <1>1, <2>1, <3>1, <4>1 DEF Tracked, Unknown
    <3>3. CASE Tracked(old, n, pe, since)
      <4>1. since \in Nat /\ Positive(since) = since
        BY <3>3 DEF Tracked, Positive
      <4> QED
        BY <2>1, <3>1, <3>3, <4>1 DEF Tracked
    <3> QED
      BY <3>2, <3>3
  <2> QED
    BY <2>2, <2>3
<1> QED
  BY <1>2, <1>3

\* The totals of a torrent before a report.
ObservedBefore(t) == IF t \in DOMAIN torrents THEN torrents[t].observed ELSE 0
UploadedBefore(t) == IF t \in DOMAIN torrents THEN torrents[t].uploaded ELSE 0

LEMMA AddIPInfoIs ==
  ASSUME NEW c \in Conn, DOMAIN counters \subseteq Conn, counters \in [DOMAIN counters -> Aged],
         NEW up \in Raw, NEW id \in Ident, AddIPInfo(c, up, id),
         NEW old, old = CounterAt(FreshOf(counters), c)
  PROVE  /\ \E kept \in SUBSET DOMAIN counters :
              /\ \A k \in DOMAIN counters : counters[k].age <= Retention => k \in kept
              /\ DOMAIN counters' = kept \cup {c}
              /\ \A k \in kept \ {c} : counters'[k] = counters[k]
         /\ counters'[c] \in Aged /\ counters'[c].up = Baseline(up, Base(old, id))
         /\ counters'[c].id = NextId(old, id) /\ counters'[c].age = 0
         /\ torrents' = With(torrents, TorrentOf(c),
              [observed |-> ObservedBefore(TorrentOf(c)) + (IF c \in DOMAIN FreshOf(counters) THEN Grows(up, Base(old, id)) ELSE 0),
               uploaded |-> AccumulateCounter(UploadedBefore(TorrentOf(c)), up, Base(old, id)), age |-> 0])
         /\ ipAge' = With(ipAge, IPOf[c], 0)
         /\ lastObserved' = lastObserved /\ checkAge' = checkAge
         /\ counters' = [k \in DOMAIN counters' |-> counters'[k]]
<1> DEFINE t == TorrentOf(c)
           kept == Unexpired \cup {k \in DOMAIN counters : IPOf[k] # IPOf[c]}
           seen == c \in kept
           start == IF seen THEN counters[c] ELSE [up |-> Unknown, id |-> NoId, age |-> 0]
           previous == AlignPeerTrafficCounter(start, id)
           total == IF t \in DOMAIN torrents THEN torrents[t] ELSE [observed |-> 0, uploaded |-> 0, age |-> 0]
<1>1. /\ counters' = With(Restrict(counters, kept), c, [previous EXCEPT !.up = Baseline(up, @), !.age = 0])
      /\ torrents' = With(torrents, t,
           [observed |-> total.observed + Growth(seen, up, previous.up),
            uploaded |-> AccumulateCounter(total.uploaded, up, previous.up), age |-> 0])
      /\ ipAge' = With(ipAge, IPOf[c], 0)
      /\ lastObserved' = lastObserved /\ checkAge' = checkAge
  BY DEF AddIPInfo
<1>2. /\ kept \in SUBSET DOMAIN counters /\ (seen <=> c \in DOMAIN FreshOf(counters))
      /\ \A k \in DOMAIN counters : counters[k].age <= Retention => k \in kept
  BY DEF Unexpired, FreshOf, Restrict
<1>3. start \in Aged /\ start.up = old.up /\ start.id = old.id
  <2>1. CASE seen
    <3>1. c \in DOMAIN FreshOf(counters) /\ c \in DOMAIN counters
      BY <1>2, <2>1
    <3>2. CounterAt(FreshOf(counters), c) = [up |-> counters[c].up, id |-> counters[c].id]
      BY <3>1 DEF CounterAt, FreshOf, Restrict
    <3> QED
      BY <2>1, <3>1, <3>2
  <2>2. CASE ~seen
    <3>1. old = NoCounter
      BY <1>2, <2>2 DEF CounterAt
    <3> HIDE DEF seen
    <3>2. start = [up |-> Unknown, id |-> NoId, age |-> 0]
      BY <2>2
    <3> QED
      BY <3>1, <3>2, AgeIs DEF NoCounter, Aged, Raw, Ident
  <2> QED
    BY <2>1, <2>2
<1> HIDE DEF start
<1>4. previous = [up |-> Base(old, id), id |-> NextId(old, id), age |-> start.age]
  <2>1. previous = [up |-> Base(start, id), id |-> NextId(start, id), age |-> start.age]
    BY <1>3, AlignAged
  <2> QED
    BY <1>3, <2>1 DEF Base, NextId
<1> DEFINE new == [previous EXCEPT !.up = Baseline(up, @), !.age = 0]
<1>5. /\ previous.up = Base(old, id)
      /\ new \in Aged /\ new.up = Baseline(up, Base(old, id)) /\ new.id = NextId(old, id) /\ new.age = 0
  <2> HIDE DEF previous
  <2>1. previous.up = Base(old, id) /\ previous.id = NextId(old, id)
    BY <1>4
  <2>2. previous \in Aged /\ Baseline(up, Base(old, id)) \in Raw /\ 0 \in Age
    <3>1. CounterAt(FreshOf(counters), c) \in Counter
      BY AgedFacts, CounterAtType
    <3>2. Base(old, id) \in Raw /\ NextId(old, id) \in Ident
      BY <3>1, AlignTypes
    <3>3. start.age \in Age
      BY <1>3 DEF Aged
    <3> QED
      BY <1>4, <3>2, <3>3, AgeIs DEF Aged, Baseline
  <2> QED
    BY <2>1, <2>2 DEF Aged
<1> HIDE DEF new
<1> HIDE DEF previous
<1>6. total.observed = ObservedBefore(t) /\ total.uploaded = UploadedBefore(t)
  BY DEF ObservedBefore, UploadedBefore
<1> HIDE DEF total, t
<1>7. /\ DOMAIN counters' = kept \cup {c} /\ \A k \in kept \ {c} : counters'[k] = counters[k]
      /\ counters'[c] = new
  <2>1. DOMAIN Restrict(counters, kept) = kept /\ \A k \in kept : Restrict(counters, kept)[k] = counters[k]
    BY <1>2 DEF Restrict
  <2> HIDE DEF kept
  <2> QED
    BY <1>1, <2>1 DEF With, new
<1> HIDE DEF kept
<1>9. Growth(seen, up, previous.up) = IF c \in DOMAIN FreshOf(counters) THEN Grows(up, Base(old, id)) ELSE 0
  <2> HIDE DEF seen
  <2>1. CASE seen
    BY <1>2, <1>5, <2>1 DEF Growth, Grows
  <2>2. CASE ~seen
    BY <1>2, <1>5, <2>2 DEF Growth
  <2> QED
    BY <2>1, <2>2
<1> HIDE DEF seen
<1>10. torrents' = With(torrents, t,
              [observed |-> ObservedBefore(t) + (IF c \in DOMAIN FreshOf(counters) THEN Grows(up, Base(old, id)) ELSE 0),
               uploaded |-> AccumulateCounter(UploadedBefore(t), up, Base(old, id)), age |-> 0])
  BY <1>1, <1>5, <1>6, <1>9
<1>11. \E K \in SUBSET DOMAIN counters :
          /\ \A k \in DOMAIN counters : counters[k].age <= Retention => k \in K
          /\ DOMAIN counters' = K \cup {c}
          /\ \A k \in K \ {c} : counters'[k] = counters[k]
  BY <1>2, <1>7
<1>12. counters' = [k \in DOMAIN counters' |-> counters'[k]]
  <2>1. \A F, x, v : With(F, x, v) = [k \in DOMAIN With(F, x, v) |-> With(F, x, v)[k]]
    BY DEF With
  <2> QED
    BY <1>1, <2>1
<1> QED
  BY <1>1, <1>5, <1>7, <1>10, <1>11, <1>12 DEF t

LEMMA IPRecordKeeps ==
  ASSUME TrafficInv, IPInv, NEW c \in swarm, NEW up \in Reports(c), NEW id \in Ids(c),
         RecordPeer(c, up, id), UNCHANGED <<external, sent>>
  PROVE  TrafficInv' /\ IPInv'
<1> DEFINE t == TorrentOf(c)
           cs == FreshOf(counters)
           old == CounterAt(cs, c)
           base == Base(old, id)
           delta == CounterDelta(up, base)
           seen == c \in DOMAIN cs
           grown == IF seen THEN Grows(up, base) ELSE 0
           pd == UploadsOf(torrents)
           f == KnownOf(counters)
           g == KnownOf(counters')
           ds == FreshOf(counters')
<1>1. /\ Connected(raw, peer) /\ DOMAIN raw = swarm /\ swarm \subseteq Conn /\ DOMAIN counters \subseteq Conn
      /\ Counters(counters) /\ Counters(cs) /\ Sums(pd) /\ LastOK(torrents, lastObserved)
      /\ c \in Conn /\ IPOf[c] \in IP /\ raw[c] \in Nat /\ peer[c] \in Ident
      /\ t \in Torrent /\ t[1] = IPOf[c]
      /\ \A ip \in IP : sent[ip] \in Nat
  BY IPFacts, TrafficFacts, TorrentOfConn
<1>2. /\ counters \in [DOMAIN counters -> Aged] /\ DOMAIN counters \subseteq swarm
      /\ torrents \in [DOMAIN torrents -> Observed] /\ DOMAIN torrents \subseteq Torrent
      /\ ipAge \in [DOMAIN ipAge -> Age] /\ DOMAIN ipAge \subseteq IP
      /\ unrecorded \in [swarm -> Raw] /\ window \in [IP -> Nat]
  BY DEF IPInv, IPTypes
<1>3. /\ Reported(raw, peer, c, up, id) /\ up \in Raw /\ up \in {raw[c], Unknown} /\ id \in Ident
      /\ id = peer[c] \/ (id = NoId /\ raw[c] = 0)
  <2>1. Reported(raw, peer, c, up, id)
    BY ReportedIs
  <2> QED
    BY <1>1, <2>1 DEF Reported, Raw
<1>4. /\ swarm' = swarm /\ raw' = raw /\ peer' = peer /\ sent' = sent /\ banned' = banned /\ AddIPInfo(c, up, id)
      /\ unrecorded' = [unrecorded EXCEPT ![c] = IF up >= 0 THEN 0 ELSE Positive(@)]
      /\ window' = [window EXCEPT ![IPOf[c]] = @ + IF up >= 0 THEN Positive(unrecorded[c]) ELSE 0]
  BY DEF RecordPeer, external
<1>5. TrafficInv'
  BY <1>4, BansKept DEF TrafficInv, Banned
<1>6. /\ old \in Counter /\ base \in Raw /\ delta \in Nat /\ NextId(old, id) \in Ident
  <2>1. old \in Counter
    BY <1>1, CounterAtType
  <2>2. base \in Raw /\ NextId(old, id) \in Ident
    BY <1>3, <2>1, AlignTypes
  <2> QED
    BY <1>3, <2>1, <2>2, DeltaBounds
<1>7. /\ \E kept \in SUBSET DOMAIN counters :
           /\ \A k \in DOMAIN counters : counters[k].age <= Retention => k \in kept
           /\ DOMAIN counters' = kept \cup {c}
           /\ \A k \in kept \ {c} : counters'[k] = counters[k]
      /\ counters'[c] \in Aged /\ counters'[c].up = Baseline(up, base)
      /\ counters'[c].id = NextId(old, id) /\ counters'[c].age = 0
      /\ torrents' = With(torrents, t,
              [observed |-> ObservedBefore(t) + grown,
               uploaded |-> AccumulateCounter(UploadedBefore(t), up, base), age |-> 0])
      /\ ipAge' = With(ipAge, IPOf[c], 0)
      /\ lastObserved' = lastObserved /\ checkAge' = checkAge
      /\ counters' = [k \in DOMAIN counters' |-> counters'[k]]
  BY <1>1, <1>2, <1>3, <1>4, AddIPInfoIs
<1>8. PICK kept \in SUBSET DOMAIN counters :
           /\ \A k \in DOMAIN counters : counters[k].age <= Retention => k \in kept
           /\ DOMAIN counters' = kept \cup {c}
           /\ \A k \in kept \ {c} : counters'[k] = counters[k]
  BY <1>7
<1>9. /\ DOMAIN counters' \subseteq swarm /\ DOMAIN counters' \subseteq Conn
      /\ counters' \in [DOMAIN counters' -> Aged]
  <2>1. \A k \in DOMAIN counters' : counters'[k] \in Aged
    BY <1>2, <1>7, <1>8
  <2> QED
    BY <1>1, <1>2, <1>7, <1>8, <2>1
<1>10. seen => c \in DOMAIN counters /\ old = [up |-> counters[c].up, id |-> counters[c].id]
  BY <1>1, <1>2, AgedFacts DEF CounterAt
<1>11. ~seen => old = NoCounter
  BY DEF CounterAt
<1>12. \A k \in DOMAIN counters : Tracked(counters[k], raw[k], peer[k], unrecorded[k])
  BY DEF IPInv
<1>13. seen => Tracked(old, raw[c], peer[c], unrecorded[c])
  BY <1>10, <1>12 DEF Tracked, Base
<1> HIDE DEF t, cs, old, base, delta, seen, grown, pd, f, g, ds
<1>14. ASSUME NEW k \in DOMAIN counters'
       PROVE  Tracked(counters'[k], raw[k], peer[k], unrecorded'[k])
  <2>1. CASE k = c
    <3>1. unrecorded[c] \in Raw /\ unrecorded'[c] = IF up >= 0 THEN 0 ELSE Positive(unrecorded[c])
      BY <1>2, <1>4
    <3>2. old = NoCounter \/ Tracked(old, raw[c], peer[c], unrecorded[c])
      BY <1>11, <1>13
    <3>3. Tracked(counters'[c], raw[c], peer[c], IF up >= 0 THEN 0 ELSE Positive(unrecorded[c]))
      BY <1>1, <1>3, <1>6, <1>7, <3>1, <3>2, TrackedReport DEF base
    <3> QED
      BY <2>1, <3>1, <3>3
  <2>2. CASE k # c
    <3>1. k \in DOMAIN counters /\ counters'[k] = counters[k] /\ unrecorded'[k] = unrecorded[k]
      BY <1>2, <1>4, <1>8, <2>2
    <3> QED
      BY <1>12, <3>1
  <2> QED
    BY <2>1, <2>2
<1>15. /\ ObservedBefore(t) \in Nat /\ UploadedBefore(t) \in Raw
  <2>1. \A u \in DOMAIN torrents : torrents[u].observed \in Nat /\ torrents[u].uploaded \in Raw
    BY <1>2, UploadsFacts
  <2> QED
    BY <2>1 DEF ObservedBefore, UploadedBefore, Raw
<1>16. grown \in Nat /\ grown <= (IF up >= 0 THEN Positive(unrecorded[c]) ELSE 0)
       /\ (IF up >= 0 THEN Positive(unrecorded[c]) ELSE 0) \in Nat
  <2>1. Positive(unrecorded[c]) \in Nat
    BY <1>2 DEF Positive, Raw, Unknown
  <2>2. CASE seen
    <3>1. Tracked(old, raw[c], peer[c], unrecorded[c]) /\ Positive(unrecorded[c]) = unrecorded[c]
      BY <1>13, <2>2 DEF Tracked, Positive
    <3>2. /\ Grows(up, Base(old, id)) \in Nat
          /\ up >= 0 => Grows(up, Base(old, id)) <= unrecorded[c]
          /\ up = Unknown => Grows(up, Base(old, id)) = 0
      BY <1>1, <1>3, <1>6, <3>1, GrowthWithinSent
    <3>3. grown = Grows(up, Base(old, id)) /\ (up >= 0 \/ up = Unknown) /\ ~ (Unknown >= 0)
      BY <1>3, <2>2 DEF grown, base, Raw, Unknown
    <3> QED
      BY <2>1, <3>1, <3>2, <3>3
  <2>3. CASE ~seen
    <3>1. grown = 0
      BY <2>3 DEF grown
    <3> QED
      BY <2>1, <3>1
  <2> QED
    BY <2>2, <2>3
<1>17. /\ DOMAIN torrents' = DOMAIN torrents \cup {t} /\ \A u \in DOMAIN torrents \ {t} : torrents'[u] = torrents[u]
       /\ torrents'[t].observed = ObservedBefore(t) + grown
       /\ torrents'[t].uploaded = AccumulateCounter(UploadedBefore(t), up, base)
       /\ torrents'[t] \in Observed
       /\ AccumulateCounter(UploadedBefore(t), up, base) \in Raw
       /\ Positive(AccumulateCounter(UploadedBefore(t), up, base)) = Positive(UploadedBefore(t)) + delta
  <2>1. /\ AccumulateCounter(UploadedBefore(t), up, base) \in Raw
        /\ Positive(AccumulateCounter(UploadedBefore(t), up, base)) = Positive(UploadedBefore(t)) + delta
    BY <1>3, <1>6, <1>15, AccumulateGrows DEF delta
  <2> DEFINE o == ObservedBefore(t) + grown
             a == AccumulateCounter(UploadedBefore(t), up, base)
             r == [observed |-> o, uploaded |-> a, age |-> 0]
  <2>2. o \in Nat
    BY <1>15, <1>16
  <2>3. torrents' = With(torrents, t, r)
    BY <1>7
  <2> HIDE DEF o, a
  <2>4. r \in Observed /\ r.observed = o /\ r.uploaded = a
    BY <2>1, <2>2, AgeIs DEF Observed, a
  <2> HIDE DEF r
  <2>5. DOMAIN torrents' = DOMAIN torrents \cup {t} /\ torrents'[t] = r
        /\ \A u \in DOMAIN torrents \ {t} : torrents'[u] = torrents[u]
    BY <2>3 DEF With
  <2> QED
    BY <2>1, <2>4, <2>5 DEF o, a
<1>18. DOMAIN torrents' \subseteq Torrent /\ torrents' \in [DOMAIN torrents' -> Observed]
  <2>1. \A u \in DOMAIN torrents' : torrents'[u] \in Observed
    BY <1>2, <1>17
  <2>2. torrents' = [k \in DOMAIN torrents' |-> torrents'[k]]
    <3>1. \A F, x, v : With(F, x, v) = [k \in DOMAIN With(F, x, v) |-> With(F, x, v)[k]]
      BY DEF With
    <3> QED
      BY <1>7, <3>1
  <2> QED
    BY <1>1, <1>2, <1>17, <2>1, <2>2
<1>19. UploadsOf(torrents') = Plus(pd, t, delta)
  <2>1. /\ DOMAIN pd = DOMAIN torrents /\ \A u \in DOMAIN torrents : pd[u] = Positive(torrents[u].uploaded)
    BY <1>2, UploadsFacts DEF pd
  <2>2. Before(pd, t) = Positive(UploadedBefore(t))
    BY <2>1 DEF Before, UploadedBefore, Positive
  <2>3. Plus(pd, t, delta) = [u \in DOMAIN torrents \cup {t} |->
                                IF u = t THEN Positive(UploadedBefore(t)) + delta ELSE pd[u]]
    BY <2>1, <2>2 DEF Plus, With
  <2>4. UploadsOf(torrents') = [u \in DOMAIN torrents \cup {t} |-> Positive(torrents'[u].uploaded)]
    BY <1>17 DEF UploadsOf
  <2>5. \A u \in DOMAIN torrents \cup {t} :
          Positive(torrents'[u].uploaded) = IF u = t THEN Positive(UploadedBefore(t)) + delta ELSE pd[u]
    BY <1>17, <2>1
  <2> QED
    BY <2>3, <2>4, <2>5
<1>20. Covers(Plus(pd, t, delta), g)
  <2>1. /\ Amounts(f) /\ DOMAIN f = DOMAIN counters
        /\ \A k \in DOMAIN counters : f[k] = Positive(counters[k].up) /\ f[k] \in Nat
    BY <1>1, KnownAmounts DEF f
  <2>2. /\ Amounts(g) /\ DOMAIN g = DOMAIN counters'
        /\ \A k \in DOMAIN counters' : g[k] = Positive(counters'[k].up)
    <3>1. Counters(counters')
      BY <1>9, AgedFacts
    <3> QED
      BY <1>9, <3>1, KnownAmounts DEF g
  <2>3. \A k \in DOMAIN g \ {c} : g[k] <= f[k]
    BY <1>8, <2>1, <2>2
  <2>4. DOMAIN g \subseteq DOMAIN f \cup {c} /\ c \in DOMAIN g
    BY <1>8, <2>1, <2>2
  <2>5. g[c] <= delta + (IF c \in DOMAIN f THEN f[c] ELSE 0)
    <3>1. g[c] = Positive(Baseline(up, base)) /\ g[c] \in Nat
      BY <1>7, <2>2, <2>4 DEF Amounts
    <3>2. Positive(Baseline(up, base)) <= Positive(old.up) + delta
      BY <1>3, <1>6, BaselineGrows DEF base, delta
    <3>3. CASE seen
      BY <1>6, <1>10, <2>1, <3>1, <3>2, <3>3
    <3>4. CASE ~seen
      <4>1. Positive(old.up) = 0
        BY <1>11, <3>4, NoCounterIs DEF Positive, Unknown
      <4> QED
        BY <1>6, <2>1, <3>1, <3>2, <4>1
    <3> QED
      BY <3>3, <3>4
  <2>6. Covers(pd, f)
    BY DEF IPInv, pd, f
  <2>7. Covers(Plus(pd, TorrentOf(c), delta), g)
    BY <1>1, <1>6, <2>1, <2>2, <2>3, <2>4, <2>5, <2>6, CoversReport
  <2> QED
    BY <2>7 DEF t
<1>21. ASSUME NEW ip \in IP PROVE Ledger(raw, peer, Plus(pd, t, delta), ds, sent[ip], ip)
  <2>1. /\ Counters(ds) /\ c \in DOMAIN ds
        /\ \A k \in DOMAIN raw \ {c} : CounterAt(ds, k) = CounterAt(cs, k)
        /\ CounterAt(ds, c) = [up |-> Baseline(up, base), id |-> NextId(old, id)]
    <3>1. Counters(ds) /\ DOMAIN ds = {k \in DOMAIN counters' : counters'[k].age <= Retention}
          /\ \A k \in DOMAIN ds : ds[k] = counters'[k]
      BY <1>9, AgedFacts DEF ds
    <3>2. c \in DOMAIN ds
      BY <1>7, <1>8, <3>1, AgeIs
    <3>3. DOMAIN cs = {k \in DOMAIN counters : counters[k].age <= Retention}
          /\ \A k \in DOMAIN cs : cs[k] = counters[k]
      BY <1>1, <1>2, AgedFacts DEF cs
    <3>4. \A k : k # c => (k \in DOMAIN ds <=> k \in DOMAIN cs)
      BY <1>8, <3>1, <3>3
    <3>5. \A k : k # c => CounterAt(ds, k) = CounterAt(cs, k)
      <4> TAKE k
      <4> HAVE k # c
      <4>1. CASE k \in DOMAIN ds
        BY <1>8, <3>1, <3>3, <3>4, <4>1 DEF CounterAt
      <4>2. CASE k \notin DOMAIN ds
        BY <3>4, <4>2 DEF CounterAt
      <4> QED
        BY <4>1, <4>2
    <3>6. CounterAt(ds, c) = [up |-> Baseline(up, base), id |-> NextId(old, id)]
      BY <1>7, <3>1, <3>2 DEF CounterAt
    <3> QED
      BY <3>1, <3>2, <3>5, <3>6
  <2>2. Ledger(raw, peer, pd, cs, sent[ip], ip)
    BY DEF IPInv, pd, cs
  <2> DEFINE n == sent[ip]
  <2>3. n \in Nat /\ Ledger(raw, peer, pd, cs, n, ip)
    BY <1>1, <2>2
  <2> HIDE DEF n
  <2>4. CounterAt(ds, c) = [up |-> Baseline(up, Base(CounterAt(cs, c), id)), id |-> NextId(CounterAt(cs, c), id)]
    BY <2>1 DEF base, old
  <2>5. Ledger(raw, peer, Plus(pd, TorrentOf(c), CounterDelta(up, Base(CounterAt(cs, c), id))), ds, n, ip)
    BY <1>1, <1>3, <2>1, <2>3, <2>4, LedgerReport
  <2> QED
    BY <2>5 DEF n, t, delta, base, old
<1>22. LastOK(torrents', lastObserved')
  <2> SUFFICES ASSUME NEW u \in DOMAIN lastObserved
               PROVE  u \in DOMAIN torrents' /\ lastObserved[u] \in 0 .. torrents'[u].observed
    BY <1>7 DEF LastOK
  <2>1. u \in DOMAIN torrents /\ lastObserved[u] \in 0 .. torrents[u].observed
    BY <1>1 DEF LastOK
  <2>2. CASE u = t
    <3>1. ObservedBefore(t) = torrents[u].observed
      BY <2>1, <2>2 DEF ObservedBefore
    <3>2. lastObserved[u] \in 0 .. ObservedBefore(t) + grown
      BY <1>15, <1>16, <2>1, <3>1
    <3> QED
      BY <1>17, <2>2, <3>2
  <2>3. CASE u # t
    BY <1>17, <2>1, <2>3
  <2> QED
    BY <2>2, <2>3
<1>23. ASSUME NEW ip \in IP PROVE Total(GrownBy(torrents', lastObserved', ip)) <= window'[ip]
  <2> DEFINE F == GrownBy(torrents', lastObserved', ip)
             G == GrownBy(torrents, lastObserved, ip)
             x == IF up >= 0 THEN Positive(unrecorded[c]) ELSE 0
  <2>1. /\ Summable(F) /\ \A u : u \in DOMAIN F <=> u \in DOMAIN torrents' /\ u[1] = ip
        /\ \A u \in DOMAIN F : F[u] = torrents'[u].observed - LastOf(lastObserved, u)
    <3>1. DOMAIN torrents' \subseteq Torrent /\ torrents' \in [DOMAIN torrents' -> Observed] /\ LastOK(torrents', lastObserved')
      BY <1>18, <1>22
    <3>2. /\ Summable(GrownBy(torrents', lastObserved', ip))
          /\ \A u : u \in DOMAIN GrownBy(torrents', lastObserved', ip) <=> u \in DOMAIN torrents' /\ u[1] = ip
          /\ \A u \in DOMAIN GrownBy(torrents', lastObserved', ip) :
               GrownBy(torrents', lastObserved', ip)[u] = torrents'[u].observed - LastOf(lastObserved', u)
      BY ONLY <3>1, GrownFacts
    <3> QED
      BY <1>7, <3>2
  <2>2. /\ Summable(G) /\ \A u : u \in DOMAIN G <=> u \in DOMAIN torrents /\ u[1] = ip
        /\ \A u \in DOMAIN G : G[u] = torrents[u].observed - LastOf(lastObserved, u)
    <3>1. DOMAIN torrents \subseteq Torrent /\ torrents \in [DOMAIN torrents -> Observed] /\ LastOK(torrents, lastObserved)
      BY <1>1, <1>2
    <3> QED
      BY ONLY <3>1, GrownFacts DEF G
  <2>3. Total(G) <= window[ip] /\ window[ip] \in Nat /\ Total(F) \in Nat /\ Total(G) \in Nat /\ x \in Nat /\ grown <= x
    BY <1>2, <1>16, <2>1, <2>2, TotalIs DEF IPInv
  <2> HIDE DEF F, G, x
  <2>4. CASE ip = IPOf[c]
    <3>1. window'[ip] = window[ip] + x
      BY <1>2, <1>4, <2>4 DEF x
    <3>2. DOMAIN F \subseteq DOMAIN G \cup {t} /\ t \in DOMAIN F
      BY <1>1, <1>17, <2>1, <2>2, <2>4
    <3>3. \A u \in DOMAIN F \ {t} : F[u] <= G[u]
      <4> SUFFICES ASSUME NEW u \in DOMAIN F \ {t} PROVE F[u] <= G[u]
        OBVIOUS
      <4>1. u \in DOMAIN G /\ torrents'[u] = torrents[u] /\ G[u] \in Nat
        BY <1>17, <2>1, <2>2 DEF Summable
      <4>2. F[u] = G[u]
        BY <2>1, <2>2, <4>1
      <4> QED
        BY <4>1, <4>2
    <3>4. F[t] <= grown + (IF t \in DOMAIN G THEN G[t] ELSE 0)
      <4>1. F[t] = (ObservedBefore(t) + grown) - LastOf(lastObserved, t) /\ F[t] \in Nat
        BY <1>17, <2>1, <3>2 DEF Summable
      <4>2. CASE t \in DOMAIN G
        <5>1. G[t] = ObservedBefore(t) - LastOf(lastObserved, t) /\ G[t] \in Nat
          BY <2>2, <4>2 DEF ObservedBefore, Summable
        <5>2. LastOf(lastObserved, t) \in Nat
          BY <1>1 DEF LastOK, LastOf
        <5> QED
          BY <1>15, <1>16, <4>1, <4>2, <5>1, <5>2
      <4>3. CASE t \notin DOMAIN G
        <5>1. t \notin DOMAIN torrents
          BY <1>1, <2>2, <2>4, <4>3
        <5>2. t \notin DOMAIN lastObserved
          BY <1>1, <5>1 DEF LastOK
        <5>3. LastOf(lastObserved, t) = 0 /\ ObservedBefore(t) = 0
          BY <5>1, <5>2 DEF ObservedBefore, LastOf
        <5> QED
          BY <1>16, <4>1, <4>3, <5>3
      <4> QED
        BY <4>2, <4>3
    <3>5. Total(F) <= Total(G) + grown
      BY <1>16, <2>1, <2>2, <3>2, <3>3, <3>4, TotalGrows
    <3> QED
      BY <1>16, <2>3, <3>1, <3>5 DEF F
  <2>5. CASE ip # IPOf[c]
    <3>1. window'[ip] = window[ip]
      BY <1>2, <1>4, <2>5
    <3>2. DOMAIN F \subseteq DOMAIN G /\ \A u \in DOMAIN F : torrents'[u] = torrents[u]
      BY <1>1, <1>17, <2>1, <2>2, <2>5
    <3>3. \A u \in DOMAIN F : F[u] <= G[u]
      <4> SUFFICES ASSUME NEW u \in DOMAIN F PROVE F[u] <= G[u]
        OBVIOUS
      <4>1. G[u] \in Nat /\ F[u] = G[u]
        BY <2>1, <2>2, <3>2 DEF Summable
      <4> QED
        BY <4>1
    <3>4. Total(F) <= Total(G)
      BY <2>1, <2>2, <3>2, <3>3, TotalWithin
    <3> QED
      BY <2>3, <3>1, <3>4 DEF F
  <2> QED
    BY <2>4, <2>5
<1>24. IPTypes'
  <2>1. ipAge' \in [DOMAIN ipAge' -> Age] /\ DOMAIN ipAge' \subseteq IP
    <3>1. ipAge' = With(ipAge, IPOf[c], 0)
      BY <1>7
    <3> QED
      BY <1>1, <1>2, <3>1, AgeIs DEF With
  <2>2. unrecorded' \in [swarm -> Raw]
    <3>1. (IF up >= 0 THEN 0 ELSE Positive(unrecorded[c])) \in Raw
      BY <1>2 DEF Positive, Raw, Unknown
    <3> QED
      BY <1>2, <1>4, <3>1
  <2>3. window' \in [IP -> Nat]
    <3>1. window[IPOf[c]] + (IF up >= 0 THEN Positive(unrecorded[c]) ELSE 0) \in Nat
      BY <1>1, <1>2, <1>16
    <3> QED
      BY <1>2, <1>4, <3>1
  <2>4. checkAge' \in Age \cup {Never}
    BY <1>7 DEF IPInv, IPTypes
  <2>5. DOMAIN lastObserved' \subseteq DOMAIN torrents' /\ \A u \in DOMAIN lastObserved' : lastObserved'[u] \in 0 .. torrents'[u].observed
    BY <1>22 DEF LastOK
  <2> QED
    BY <1>4, <1>9, <1>18, <2>1, <2>2, <2>3, <2>4, <2>5 DEF IPTypes
<1>25. Covers(UploadsOf(torrents'), KnownOf(counters'))
       /\ \A ip \in IP : Ledger(raw, peer, UploadsOf(torrents'), FreshOf(counters'), sent[ip], ip)
  BY <1>19, <1>20, <1>21 DEF g, ds
<1>26. IPInv'
  BY <1>4, <1>14, <1>23, <1>24, <1>25 DEF IPInv
<1> QED
  BY <1>5, <1>26

LEMMA TotalOfZeros ==
  ASSUME NEW f, Summable(f), \A x \in DOMAIN f : f[x] = 0
  PROVE  Total(f) = 0
<1>1. Block(f, DOMAIN f) = {}
  BY DEF Block
<1> QED
  BY <1>1, TotalIs, FS_EmptySet

\* What is left of the baselines when only some of the unexpired ones stay.
LEMMA FewerAre ==
  ASSUME NEW cs, DOMAIN cs \subseteq Conn, cs \in [DOMAIN cs -> Aged], NEW S, S \subseteq DOMAIN FreshOf(cs)
  PROVE  /\ S \subseteq DOMAIN cs /\ DOMAIN Restrict(cs, S) = S /\ Restrict(cs, S) \in [S -> Aged]
         /\ \A c \in S : Restrict(cs, S)[c] = cs[c]
         /\ DOMAIN FreshOf(Restrict(cs, S)) = S /\ Counters(FreshOf(Restrict(cs, S)))
         /\ \A c \in S : CounterAt(FreshOf(Restrict(cs, S)), c) = CounterAt(FreshOf(cs), c)
<1> DEFINE ds == Restrict(cs, S)
<1>1. S \subseteq DOMAIN cs /\ \A c \in S : cs[c].age <= Retention /\ CounterAt(FreshOf(cs), c) = CounterAt(cs, c)
  BY AgedFacts
<1>2. DOMAIN ds = S /\ \A c \in S : ds[c] = cs[c]
  BY DEF Restrict
<1>3. ds \in [S -> Aged]
  BY <1>1 DEF Restrict
<1> HIDE DEF ds
<1>4. DOMAIN ds \subseteq Conn /\ ds \in [DOMAIN ds -> Aged]
  BY <1>1, <1>2, <1>3
<1>5. /\ Counters(FreshOf(ds)) /\ DOMAIN FreshOf(ds) = {c \in DOMAIN ds : ds[c].age <= Retention}
      /\ \A c \in DOMAIN FreshOf(ds) : CounterAt(FreshOf(ds), c) = CounterAt(ds, c)
  BY <1>4, AgedFacts
<1>6. DOMAIN FreshOf(ds) = S
  BY <1>1, <1>2, <1>5
<1>7. \A c \in S : CounterAt(ds, c) = CounterAt(cs, c)
  BY <1>1, <1>2 DEF CounterAt
<1>8. \A c \in S : CounterAt(FreshOf(ds), c) = CounterAt(FreshOf(cs), c)
  BY <1>1, <1>5, <1>6, <1>7
<1> QED
  BY <1>1, <1>2, <1>3, <1>5, <1>6, <1>8 DEF ds

\* The counters that stay are paid for by the torrents that stay.
LEMMA FewerCovered ==
  ASSUME NEW cs, DOMAIN cs \subseteq Conn, Counters(cs), NEW pd, Sums(pd), Covers(pd, KnownOf(cs)),
         NEW ds, DOMAIN ds \subseteq DOMAIN cs, Counters(ds), \A c \in DOMAIN ds : ds[c] = cs[c],
         NEW pd2, DOMAIN pd2 \subseteq DOMAIN pd, \A t \in DOMAIN pd2 : pd2[t] = pd[t],
         \A c \in DOMAIN ds : TorrentOf(c) \in DOMAIN pd2
  PROVE  Covers(pd2, KnownOf(ds))
<1> DEFINE f == KnownOf(cs)
           g == KnownOf(ds)
<1>1. /\ Amounts(f) /\ DOMAIN f = DOMAIN cs
      /\ \A c \in DOMAIN cs : f[c] = Positive(cs[c].up) /\ Positive(cs[c].up) \in Nat
  BY KnownAmounts
<1>2. DOMAIN ds \subseteq Conn
  OBVIOUS
<1>3. /\ Amounts(g) /\ DOMAIN g = DOMAIN ds
      /\ \A c \in DOMAIN ds : g[c] = Positive(ds[c].up)
  BY <1>2, KnownAmounts
<1>4. Covers(pd, f)
  OBVIOUS
<1> HIDE DEF f, g
<1>5. DOMAIN g \subseteq DOMAIN f /\ \A c \in DOMAIN g : g[c] <= f[c] /\ TorrentOf(c) \in DOMAIN pd2
  BY <1>1, <1>3
<1>6. Covers(pd2, g)
  BY <1>1, <1>3, <1>4, <1>5, CoversFewer
<1> QED
  BY <1>6 DEF g

LEMMA IPCheckKeeps ==
  ASSUME TrafficInv, IPInv, CheckAllIP
  PROVE  TrafficInv' /\ IPInv'
<1> DEFINE cs == FreshOf(counters)
           pd == UploadsOf(torrents)
<1>1. /\ banned' = [ip \in Banned \cup Offenders |-> IF ip \in Banned THEN banned[ip] ELSE BlockIPFromStatistics(ip)]
      /\ counters' = Restrict(counters, Unexpired)
      /\ lastObserved' = [t \in DOMAIN torrents |-> torrents[t].observed]
      /\ checkAge' = 0 /\ window' = [ip \in IP |-> 0]
      /\ swarm' = swarm /\ raw' = raw /\ peer' = peer
      /\ torrents' = torrents /\ ipAge' = ipAge /\ sent' = sent /\ unrecorded' = unrecorded
  BY DEF CheckAllIP, DeepCopyIPMap, external
<1>2. /\ Connected(raw, peer) /\ DOMAIN raw = swarm /\ swarm \subseteq Conn /\ DOMAIN counters \subseteq Conn
      /\ Counters(counters) /\ Counters(cs) /\ Sums(pd) /\ \A ip \in IP : sent[ip] \in Nat
  BY IPFacts, TrafficFacts
<1>3. /\ counters \in [DOMAIN counters -> Aged] /\ DOMAIN counters \subseteq swarm
      /\ torrents \in [DOMAIN torrents -> Observed] /\ DOMAIN torrents \subseteq Torrent
      /\ ipAge \in [DOMAIN ipAge -> Age] /\ DOMAIN ipAge \subseteq IP
      /\ unrecorded \in [swarm -> Raw] /\ window \in [IP -> Nat]
  BY DEF IPInv, IPTypes
<1>4. Unexpired = DOMAIN cs /\ DOMAIN cs \subseteq DOMAIN counters /\ cs = Restrict(counters, Unexpired)
      /\ \A k \in DOMAIN cs : cs[k] = counters[k]
  <2>1. cs = Restrict(counters, Unexpired)
    BY DEF Unexpired, FreshOf
  <2>2. DOMAIN cs = Unexpired
    BY <2>1 DEF Restrict
  <2> QED
    BY <2>1, <2>2 DEF Unexpired, Restrict
<1>5. counters' = cs
  BY <1>1, <1>4
<1>6. Covers(pd, KnownOf(counters)) /\ \A k \in DOMAIN counters : TorrentOf(k) \in DOMAIN pd
  <2>1. Covers(pd, KnownOf(counters)) /\ DOMAIN KnownOf(counters) = DOMAIN counters
    BY DEF IPInv, KnownOf
  <2> QED
    BY <2>1 DEF Covers
<1>7. \A ip \in IP : Ledger(raw, peer, pd, cs, sent[ip], ip)
  BY DEF IPInv
<1> HIDE DEF cs, pd
<1>8. Covers(pd, KnownOf(cs))
  <2>1. \A k \in DOMAIN cs : TorrentOf(k) \in DOMAIN pd
    BY <1>4, <1>6
  <2> QED
    BY <1>2, <1>4, <1>6, <2>1, FewerCovered
<1>9. TrafficInv'
  <2>1. Offenders \subseteq IP /\ Banned \subseteq IP
    BY <1>3 DEF Offenders, Checked, TrafficInv
  <2>2. Banned' = Banned \cup Offenders
    BY <1>1 DEF Banned
  <2>3. ASSUME NEW ip \in Offenders
        PROVE  BanOK(raw, peer, sent[ip], BlockIPFromStatistics(ip), ip)
    <3> DEFINE ds == Restrict(counters, {c \in Unexpired : IPOf[c] = ip})
               n == sent[ip]
    <3>1. UploadedBy(ip) = Paid(pd, ip)
      <4>1. \A t \in DOMAIN torrents : t \in DOMAIN pd /\ pd[t] = Positive(torrents[t].uploaded)
        BY DEF pd, UploadsOf
      <4>2. DOMAIN pd = DOMAIN torrents
        BY DEF pd, UploadsOf
      <4>3. [t \in TorrentsOf(ip) |-> Positive(torrents[t].uploaded)] = PaidOf(pd, ip)
        BY <4>1, <4>2 DEF TorrentsOf, PaidOf
      <4> QED
        BY <4>3 DEF UploadedBy, Paid
    <3>2. DOMAIN ds = {c \in DOMAIN cs : IPOf[c] = ip} /\ \A c \in DOMAIN ds : ds[c] = cs[c]
      BY <1>4 DEF Restrict
    <3>3. n \in Nat /\ Ledger(raw, peer, pd, cs, n, ip)
      BY <1>2, <1>7, <2>1
    <3> HIDE DEF ds, n
    <3>4. DOMAIN cs \subseteq Conn
      BY <1>2, <1>4
    <3>5. BanOK(raw, peer, n, SeedBlockedPeerCounters(Paid(pd, ip), ds), ip)
      BY <1>2, <1>8, <3>2, <3>3, <3>4, BanOfIP
    <3> QED
      BY <3>1, <3>5 DEF BlockIPFromStatistics, ds, n
  <2>4. ASSUME NEW ip \in Banned'
        PROVE  \/ ip \in Banned /\ banned'[ip] = banned[ip]
               \/ BanOK(raw, peer, sent[ip], banned'[ip], ip)
    BY <1>1, <2>2, <2>3, <2>4
  <2> QED
    BY <1>1, <2>1, <2>2, <2>4, BansKept DEF external
<1>10. DOMAIN cs \subseteq DOMAIN FreshOf(counters)
  BY DEF cs
<1>11. /\ cs \in [DOMAIN cs -> Aged] /\ Counters(FreshOf(cs)) /\ DOMAIN FreshOf(cs) = DOMAIN cs
       /\ \A c \in DOMAIN cs : CounterAt(FreshOf(cs), c) = CounterAt(cs, c)
  <2>1. /\ Restrict(counters, DOMAIN cs) = cs
    BY <1>4
  <2>2. /\ Restrict(counters, DOMAIN cs) \in [DOMAIN cs -> Aged] /\ Counters(FreshOf(Restrict(counters, DOMAIN cs)))
        /\ DOMAIN FreshOf(Restrict(counters, DOMAIN cs)) = DOMAIN cs
        /\ \A c \in DOMAIN cs : CounterAt(FreshOf(Restrict(counters, DOMAIN cs)), c) = CounterAt(FreshOf(counters), c)
    BY <1>2, <1>3, <1>10, FewerAre
  <2> QED
    BY <2>1, <2>2 DEF cs
<1>12. \A c : CounterAt(FreshOf(cs), c) = CounterAt(cs, c)
  BY <1>11 DEF CounterAt
<1>13. ASSUME NEW ip \in IP PROVE Ledger(raw, peer, pd, FreshOf(cs), sent[ip], ip)
  <2> DEFINE n == sent[ip]
  <2>1. n \in Nat /\ Ledger(raw, peer, pd, cs, n, ip)
    BY <1>2, <1>7
  <2>2. Quiet(raw, peer, raw, peer)
    BY <1>2 DEF Connected, Quiet
  <2> HIDE DEF n
  <2>3. Ledger(raw, peer, pd, FreshOf(cs), n, ip)
    BY <1>2, <1>11, <1>12, <2>1, <2>2, LedgerQuiet
  <2> QED
    BY <2>3 DEF n
<1>14. \A t \in DOMAIN torrents : torrents[t].observed \in Nat
  BY <1>3, UploadsFacts
<1>15. LastOK(torrents, lastObserved')
  BY <1>1, <1>14 DEF LastOK
<1>16. ASSUME NEW ip \in IP PROVE Total(GrownBy(torrents, lastObserved', ip)) <= window'[ip]
  <2> DEFINE F == GrownBy(torrents, lastObserved', ip)
  <2>1. /\ Summable(F) /\ \A u : u \in DOMAIN F <=> u \in DOMAIN torrents /\ u[1] = ip
        /\ \A u \in DOMAIN F : F[u] = torrents[u].observed - LastOf(lastObserved', u)
    BY ONLY <1>3, <1>15, GrownFacts DEF F
  <2> HIDE DEF F
  <2>2. ASSUME NEW u \in DOMAIN F PROVE F[u] = 0
    <3>1. u \in DOMAIN torrents /\ F[u] = torrents[u].observed - LastOf(lastObserved', u)
      BY <2>1, <2>2
    <3>2. LastOf(lastObserved', u) = torrents[u].observed /\ torrents[u].observed \in Nat
      BY <1>1, <1>14, <3>1 DEF LastOf
    <3> QED
      BY <3>1, <3>2
  <2>3. Total(F) = 0 /\ window'[ip] = 0
    BY <1>1, <2>1, <2>2, TotalOfZeros
  <2> QED
    BY <2>3 DEF F
<1>17. IPTypes'
  <2>1. window' \in [IP -> Nat] /\ checkAge' \in Age
    BY <1>1, AgeIs
  <2>2. DOMAIN lastObserved' \subseteq DOMAIN torrents /\ \A t \in DOMAIN lastObserved' : lastObserved'[t] \in 0 .. torrents[t].observed
    BY <1>15 DEF LastOK
  <2>3. DOMAIN cs \subseteq swarm
    BY <1>3, <1>4
  <2> QED
    BY <1>1, <1>3, <1>5, <1>11, <2>1, <2>2, <2>3 DEF IPTypes
<1>18. \A c \in DOMAIN cs : Tracked(cs[c], raw[c], peer[c], unrecorded[c])
  BY <1>4 DEF IPInv
<1>19. IPInv'
  BY <1>1, <1>5, <1>8, <1>13, <1>16, <1>17, <1>18 DEF IPInv, pd
<1> QED
  BY <1>9, <1>19

LEMMA IPCleanKeeps ==
  ASSUME TrafficInv, IPInv, CleanIPHistory
  PROVE  TrafficInv' /\ IPInv'
<1>1. PICK ips \in SUBSET DOMAIN ipAge, ts \in SUBSET DOMAIN torrents :
        /\ \A t \in ts : t[1] \in ips
        /\ ipAge' = Restrict(ipAge, ips) /\ torrents' = Restrict(torrents, ts)
        /\ lastObserved' = Restrict(lastObserved, DOMAIN lastObserved \cap ts)
        /\ counters' = Restrict(counters, ForgetCounters(ips, ts))
        /\ UNCHANGED <<external, checkAge, banned, sent, ipHistory>>
  <2>1. PICK gone : \E goneTs \in Trimmed(Recent([t \in {u \in DOMAIN torrents : u[1] \in DOMAIN Recent(ipAge) \ gone} |-> torrents[t].age])) :
          LET ips == DOMAIN Recent(ipAge) \ gone
              ages == [t \in {u \in DOMAIN torrents : u[1] \in ips} |-> torrents[t].age]
              ts == DOMAIN Recent(ages) \ goneTs
          IN  /\ ipAge' = Restrict(ipAge, ips) /\ torrents' = Restrict(torrents, ts)
              /\ lastObserved' = Restrict(lastObserved, DOMAIN lastObserved \cap ts)
              /\ counters' = Restrict(counters, ForgetCounters(ips, ts))
              /\ UNCHANGED <<external, checkAge, banned, sent, ipHistory>>
    BY DEF CleanIPHistory
  <2> DEFINE ips == DOMAIN Recent(ipAge) \ gone
             ages == [t \in {u \in DOMAIN torrents : u[1] \in ips} |-> torrents[t].age]
  <2>2. PICK goneTs :
          /\ ipAge' = Restrict(ipAge, ips) /\ torrents' = Restrict(torrents, DOMAIN Recent(ages) \ goneTs)
          /\ lastObserved' = Restrict(lastObserved, DOMAIN lastObserved \cap (DOMAIN Recent(ages) \ goneTs))
          /\ counters' = Restrict(counters, ForgetCounters(ips, DOMAIN Recent(ages) \ goneTs))
          /\ UNCHANGED <<external, checkAge, banned, sent, ipHistory>>
    BY <2>1
  <2> DEFINE ts == DOMAIN Recent(ages) \ goneTs
  <2>3. ips \in SUBSET DOMAIN ipAge
    BY DEF Recent, Restrict
  <2>4. DOMAIN ages = {u \in DOMAIN torrents : u[1] \in ips}
    OBVIOUS
  <2> HIDE DEF ips, ages
  <2>5. ts \in SUBSET DOMAIN ages
    BY DEF Recent, Restrict
  <2>6. ts \in SUBSET DOMAIN torrents /\ \A t \in ts : t[1] \in ips
    BY <2>4, <2>5
  <2> HIDE DEF ts
  <2> QED
    BY <2>2, <2>3, <2>6 DEF ts
<1> DEFINE S == ForgetCounters(ips, ts)
           cs == FreshOf(counters)
           ds == counters'
           pd == UploadsOf(torrents)
           pd2 == UploadsOf(torrents')
<1>2. /\ swarm' = swarm /\ raw' = raw /\ peer' = peer /\ checkAge' = checkAge /\ banned' = banned
      /\ sent' = sent /\ unrecorded' = unrecorded /\ window' = window
  BY <1>1 DEF external, ipHistory
<1>3. TrafficInv'
  BY <1>2, BansKept DEF TrafficInv, Banned, external
<1>4. /\ Connected(raw, peer) /\ DOMAIN raw = swarm /\ swarm \subseteq Conn /\ DOMAIN counters \subseteq Conn
      /\ Counters(counters) /\ Counters(cs) /\ Sums(pd) /\ LastOK(torrents, lastObserved)
      /\ \A ip \in IP : sent[ip] \in Nat
  BY IPFacts, TrafficFacts
<1>5. /\ counters \in [DOMAIN counters -> Aged] /\ DOMAIN counters \subseteq swarm
      /\ torrents \in [DOMAIN torrents -> Observed] /\ DOMAIN torrents \subseteq Torrent
      /\ ipAge \in [DOMAIN ipAge -> Age] /\ DOMAIN ipAge \subseteq IP
      /\ unrecorded \in [swarm -> Raw] /\ window \in [IP -> Nat] /\ checkAge \in Age \cup {Never}
  BY DEF IPInv, IPTypes
<1>6. /\ S \subseteq DOMAIN cs /\ \A c \in S : TorrentOf(c) \in ts
      /\ \A c \in DOMAIN cs : TorrentOf(c) \in ts => c \in S
  <2>1. Unexpired = DOMAIN cs
    BY DEF Unexpired, FreshOf, Restrict
  <2>2. \A c \in Conn : TorrentOf(c)[1] = IPOf[c]
    BY TorrentOfConn
  <2>3. DOMAIN cs \subseteq Conn
    BY <1>4, <2>1 DEF Unexpired
  <2> QED
    BY <1>1, <2>1, <2>2, <2>3 DEF ForgetCounters
<1>7. /\ S \subseteq DOMAIN counters /\ DOMAIN ds = S /\ ds \in [S -> Aged]
      /\ \A c \in S : ds[c] = counters[c]
      /\ DOMAIN FreshOf(ds) = S /\ Counters(FreshOf(ds))
      /\ \A c \in S : CounterAt(FreshOf(ds), c) = CounterAt(cs, c)
  BY <1>1, <1>4, <1>5, <1>6, FewerAre
<1>8. DOMAIN torrents' = ts /\ (\A t \in ts : torrents'[t] = torrents[t]) /\ torrents' \in [ts -> Observed]
  BY <1>1, <1>5 DEF Restrict
<1>9. /\ DOMAIN pd2 = ts /\ ts \subseteq DOMAIN pd /\ \A t \in ts : pd2[t] = pd[t]
  BY <1>1, <1>8 DEF UploadsOf
<1>10. Sums(pd2)
  BY <1>4, <1>9 DEF Sums
<1>11. Covers(pd, KnownOf(counters)) /\ \A ip \in IP : Ledger(raw, peer, pd, cs, sent[ip], ip)
  BY DEF IPInv
<1>12. (\A k \in DOMAIN counters : TorrentOf(k) \in DOMAIN pd) /\ DOMAIN cs \subseteq DOMAIN counters
       /\ (\A k \in DOMAIN cs : cs[k] = counters[k]) /\ DOMAIN cs \subseteq Conn
  <2>1. DOMAIN KnownOf(counters) = DOMAIN counters
    BY DEF KnownOf
  <2>2. DOMAIN cs \subseteq DOMAIN counters /\ \A k \in DOMAIN cs : cs[k] = counters[k]
    BY <1>4, <1>5, AgedFacts
  <2> QED
    BY <1>4, <1>11, <2>1, <2>2 DEF Covers
<1>13. lastObserved' = Restrict(lastObserved, DOMAIN lastObserved \cap ts)
  BY <1>1
<1> HIDE DEF S, cs, ds, pd, pd2
<1>14. Covers(pd, KnownOf(cs))
  <2>1. \A k \in DOMAIN cs : TorrentOf(k) \in DOMAIN pd
    BY <1>12
  <2> QED
    BY <1>4, <1>11, <1>12, <2>1, FewerCovered
<1>15. Counters(ds)
  BY <1>4, <1>7 DEF Counters
<1>16. Covers(pd2, KnownOf(ds))
  BY <1>4, <1>6, <1>7, <1>9, <1>11, <1>15, FewerCovered
<1>17. ASSUME NEW ip \in IP PROVE Ledger(raw, peer, pd2, FreshOf(ds), sent[ip], ip)
  <2> DEFINE n == sent[ip]
             es == FreshOf(ds)
  <2>1. n \in Nat /\ Ledger(raw, peer, pd, cs, n, ip)
    BY <1>4, <1>11
  <2>2. Counters(es) /\ DOMAIN es = S /\ \A c \in DOMAIN es : CounterAt(es, c) = CounterAt(cs, c)
    BY <1>7
  <2> HIDE DEF n, es
  <2>3. DOMAIN es \subseteq DOMAIN cs /\ \A c \in DOMAIN cs \ DOMAIN es : TorrentOf(c) \notin DOMAIN pd2
    BY <1>6, <1>9, <2>2
  <2>4. DOMAIN pd2 \subseteq DOMAIN pd /\ \A t \in DOMAIN pd2 : pd2[t] = pd[t]
    BY <1>9
  <2>5. Connected(raw, peer) /\ Counters(cs) /\ DOMAIN cs \subseteq Conn /\ Sums(pd) /\ Sums(pd2)
    BY <1>4, <1>10, <1>12
  <2>6. Ledger(raw, peer, pd2, es, n, ip)
    BY ONLY <1>14, <2>1, <2>2, <2>3, <2>4, <2>5, LedgerTrim
  <2> QED
    BY <2>6 DEF n, es
<1>18. LastOK(torrents', lastObserved')
       /\ \A t \in ts : LastOf(lastObserved', t) = LastOf(lastObserved, t)
  <2>1. DOMAIN lastObserved' = DOMAIN lastObserved \cap ts /\ \A t \in DOMAIN lastObserved' : lastObserved'[t] = lastObserved[t]
    BY <1>13 DEF Restrict
  <2> QED
    BY <1>4, <1>8, <2>1 DEF LastOK, LastOf
<1>19. ASSUME NEW ip \in IP PROVE Total(GrownBy(torrents', lastObserved', ip)) <= window'[ip]
  <2> DEFINE F == GrownBy(torrents', lastObserved', ip)
             G == GrownBy(torrents, lastObserved, ip)
  <2>1. DOMAIN torrents' \subseteq Torrent /\ torrents' \in [DOMAIN torrents' -> Observed]
    BY <1>5, <1>8
  <2>2. /\ Summable(F) /\ \A u : u \in DOMAIN F <=> u \in DOMAIN torrents' /\ u[1] = ip
        /\ \A u \in DOMAIN F : F[u] = torrents'[u].observed - LastOf(lastObserved', u)
    BY ONLY <2>1, <1>18, GrownFacts DEF F
  <2>3. /\ Summable(G) /\ (\A u : u \in DOMAIN G <=> u \in DOMAIN torrents /\ u[1] = ip) /\ Total(G) \in Nat
        /\ \A u \in DOMAIN G : G[u] = torrents[u].observed - LastOf(lastObserved, u)
    BY ONLY <1>4, <1>5, GrownFacts DEF G
  <2>4. Total(G) <= window[ip]
    BY DEF IPInv
  <2> HIDE DEF F, G
  <2>5. ASSUME NEW u \in DOMAIN F PROVE u \in DOMAIN G /\ F[u] = G[u] /\ F[u] \in Nat
    BY <1>8, <1>18, <2>2, <2>3, <2>5 DEF Summable
  <2>6. Total(F) <= Total(G)
    <3>1. DOMAIN F \subseteq DOMAIN G /\ \A u \in DOMAIN F : F[u] <= G[u]
      BY <2>5
    <3> QED
      BY <2>2, <2>3, <3>1, TotalWithin
  <2>7. Total(F) \in Nat /\ window[ip] \in Nat
    BY <1>5, <2>2, TotalIs
  <2> QED
    BY <1>2, <2>3, <2>4, <2>6, <2>7 DEF F
<1>20. IPTypes'
  <2>1. ipAge' \in [DOMAIN ipAge' -> Age] /\ DOMAIN ipAge' \subseteq IP
    BY <1>1, <1>5 DEF Restrict
  <2>2. DOMAIN lastObserved' \subseteq DOMAIN torrents' /\ \A t \in DOMAIN lastObserved' : lastObserved'[t] \in 0 .. torrents'[t].observed
    BY <1>18 DEF LastOK
  <2>3. DOMAIN counters' \subseteq swarm /\ counters' \in [DOMAIN counters' -> Aged]
    BY <1>5, <1>7 DEF ds
  <2> QED
    BY <1>2, <1>5, <1>8, <2>1, <2>2, <2>3 DEF IPTypes
<1>21. \A c \in DOMAIN counters' : Tracked(counters'[c], raw[c], peer[c], unrecorded[c])
  BY <1>7 DEF ds, IPInv
<1>22. Covers(UploadsOf(torrents'), KnownOf(counters'))
       /\ \A ip \in IP : Ledger(raw, peer, UploadsOf(torrents'), FreshOf(counters'), sent[ip], ip)
  BY <1>16, <1>17 DEF pd2, ds
<1>23. IPInv'
  BY <1>2, <1>19, <1>20, <1>21, <1>22 DEF IPInv
<1> QED
  BY <1>3, <1>23

LEMMA IPNextKeeps ==
  ASSUME TrafficInv, IPInv, IPNext
  PROVE  TrafficInv' /\ IPInv'
<1>1. ASSUME NEW c \in swarm, NEW up \in Reports(c), NEW id \in Ids(c), IPReport(c, up, id)
      PROVE  TrafficInv' /\ IPInv'
  <2>1. UNCHANGED <<external, sent>>
    BY <1>1 DEF IPReport
  <2>2. CASE RecordPeer(c, up, id)
    BY <2>1, <2>2, IPRecordKeeps
  <2>3. CASE BanByRule(c, up, id)
    <3>1. PICK key \in {c, TorrentOf(c)} : AddBlockPeer(c, key, up, id)
      BY <2>3 DEF BanByRule
    <3>2. UNCHANGED <<external, sent, ipVars>>
      BY <2>1, <2>3 DEF BanByRule
    <3> QED
      BY <2>1, <3>1, <3>2, AddKept, IPUnchanged
  <2>4. CASE UpdateBlockedPeerTraffic(c, up, id) /\ UNCHANGED ipVars
    <3>1. UNCHANGED <<external, sent, ipVars>>
      BY <2>1, <2>4
    <3> QED
      BY <2>1, <2>4, <3>1, UpdateKept, IPUnchanged
  <2> QED
    BY <1>1, <2>2, <2>3, <2>4 DEF IPReport
<1>2. ASSUME NEW ip \in IP, Unban(ip), UNCHANGED <<external, sent, ipVars>>
      PROVE  TrafficInv' /\ IPInv'
  <2>1. UNCHANGED <<external, sent>>
    BY <1>2
  <2> QED
    BY <1>2, <2>1, UnbanKept, IPUnchanged
<1> QED
  BY <1>1, <1>2, IPSendKeeps, IPReconnectKeeps, IPTimeKeeps, IPCheckKeeps, IPCleanKeeps DEF IPNext

-----------------------------------------------------------------------------
(* The statistics by torrent.                                              *)

LEMMA ConnsFacts ==
  ASSUME NEW cs, DOMAIN cs \subseteq Conn, cs \in [DOMAIN cs -> Statistics]
  PROVE  /\ Counters(cs) /\ Counters(FreshOf(cs))
         /\ DOMAIN FreshOf(cs) = {c \in DOMAIN cs : cs[c].age <= Retention}
         /\ DOMAIN FreshOf(cs) \subseteq DOMAIN cs
         /\ \A c \in DOMAIN FreshOf(cs) : FreshOf(cs)[c] = cs[c] /\ CounterAt(FreshOf(cs), c) = CounterAt(cs, c)
         /\ \A c \in DOMAIN cs : /\ cs[c].up \in Raw /\ cs[c].id \in Ident /\ cs[c].age \in Age /\ cs[c].raw \in Raw
                                 /\ cs[c].total \in Raw /\ cs[c].session \in Nat /\ cs[c].progress \in Nat
         /\ Amounts(TotalsOf(cs)) /\ DOMAIN TotalsOf(cs) = DOMAIN cs
         /\ \A c \in DOMAIN cs : TotalsOf(cs)[c] = Positive(cs[c].total) /\ Positive(cs[c].total) \in Nat
<1>1. \A c \in DOMAIN cs : cs[c] \in Statistics
  OBVIOUS
<1>2. \A c \in DOMAIN cs : /\ cs[c].up \in Raw /\ cs[c].id \in Ident /\ cs[c].age \in Age /\ cs[c].raw \in Raw
                           /\ cs[c].total \in Raw /\ cs[c].session \in Nat /\ cs[c].progress \in Nat
  BY <1>1 DEF Statistics, Raw, Ident
<1>3. \A c \in DOMAIN cs : [up |-> cs[c].up, id |-> cs[c].id] \in Counter
  BY <1>2 DEF Counter, Raw, Ident
<1>4. /\ DOMAIN FreshOf(cs) = {c \in DOMAIN cs : cs[c].age <= Retention}
      /\ \A c \in DOMAIN FreshOf(cs) : FreshOf(cs)[c] = cs[c]
  BY DEF FreshOf, Restrict
<1>5. \A c \in DOMAIN cs : Positive(cs[c].total) \in Nat
  <2> TAKE c \in DOMAIN cs
  <2>1. cs[c].total \in Raw
    BY <1>2
  <2> QED
    BY <2>1 DEF Positive, Raw, Unknown
<1>6. /\ Amounts(TotalsOf(cs)) /\ DOMAIN TotalsOf(cs) = DOMAIN cs
      /\ \A c \in DOMAIN cs : TotalsOf(cs)[c] = Positive(cs[c].total)
  BY <1>5 DEF Amounts, TotalsOf
<1>7. /\ Counters(cs) /\ Counters(FreshOf(cs))
      /\ \A c \in DOMAIN FreshOf(cs) : CounterAt(FreshOf(cs), c) = CounterAt(cs, c)
  BY <1>3, <1>4 DEF Counters, CounterAt
<1> QED
  BY <1>2, <1>4, <1>5, <1>6, <1>7

LEMMA PeersUploadsFacts ==
  ASSUME NEW pu, DOMAIN pu \subseteq Torrent, pu \in [DOMAIN pu -> Raw]
  PROVE  /\ Sums(PeersUploadsOf(pu)) /\ DOMAIN PeersUploadsOf(pu) = DOMAIN pu
         /\ \A t \in DOMAIN pu : PeersUploadsOf(pu)[t] = Positive(pu[t]) /\ Positive(pu[t]) \in Nat
<1>1. \A t \in DOMAIN pu : Positive(pu[t]) \in Nat
  <2> TAKE t \in DOMAIN pu
  <2>1. pu[t] \in Raw
    OBVIOUS
  <2> QED
    BY <2>1 DEF Positive, Raw, Unknown
<1> QED
  BY <1>1 DEF PeersUploadsOf, Sums

LEMMA TorrentFacts ==
  ASSUME TrafficInv, TorrentInv
  PROVE  /\ Connected(raw, peer) /\ DOMAIN raw = swarm /\ swarm \subseteq Conn
         /\ DOMAIN conns \subseteq Conn /\ conns \in [DOMAIN conns -> Statistics]
         /\ DOMAIN lastConns \subseteq Conn /\ lastConns \in [DOMAIN lastConns -> Statistics]
         /\ Counters(conns) /\ Counters(FreshOf(conns)) /\ Sums(PeersUploadsOf(peerUploaded))
         /\ \A ip \in IP : sent[ip] \in Nat
<1>1. Connected(raw, peer) /\ DOMAIN raw = swarm /\ swarm \subseteq Conn /\ \A ip \in IP : sent[ip] \in Nat
  BY TrafficFacts
<1>2. /\ DOMAIN conns \subseteq Conn /\ conns \in [DOMAIN conns -> Statistics]
      /\ DOMAIN lastConns \subseteq Conn /\ lastConns \in [DOMAIN lastConns -> Statistics]
  BY <1>1 DEF TorrentInv, TorrentTypes
<1>3. Counters(conns) /\ Counters(FreshOf(conns))
  BY <1>2, ConnsFacts
<1>4. Sums(PeersUploadsOf(peerUploaded))
  BY PeersUploadsFacts DEF TorrentInv, TorrentTypes
<1> QED
  BY <1>1, <1>2, <1>3, <1>4

LEMMA TorrentUnchanged ==
  ASSUME TorrentInv, UNCHANGED <<external, sent, torrentVars>>
  PROVE  TorrentInv'
<1>1. /\ swarm' = swarm /\ raw' = raw /\ peer' = peer /\ sent' = sent /\ conns' = conns
      /\ peerUploaded' = peerUploaded /\ lastConns' = lastConns /\ torrentAge' = torrentAge
      /\ seenPeer' = seenPeer /\ checkedPeer' = checkedPeer
  BY DEF external, torrentVars, torrentStatistics
<1> QED
  BY <1>1 DEF TorrentInv, TorrentTypes, Never, Far, Age, IP, Torrent, TorrentOf, Ident

LEMMA LedgerOfNothing ==
  ASSUME NEW rw, NEW pr, Connected(rw, pr), \A c \in DOMAIN rw : rw[c] = 0,
         NEW cs, DOMAIN cs = {}, NEW pd, DOMAIN pd = {}, NEW ip
  PROVE  Ledger(rw, pr, pd, cs, 0, ip) /\ Counters(cs) /\ Sums(pd)
<1> DEFINE p == Pendings(rw, pr, cs)
<1>1. Counters(cs) /\ Sums(pd)
  BY DEF Counters, Sums
<1>2. Amounts(p) /\ DOMAIN p = DOMAIN rw /\ \A c \in DOMAIN rw : p[c] <= rw[c]
  BY <1>1, PendingsType DEF Connected
<1>3. \A c \in DOMAIN p : p[c] = 0
  BY <1>2 DEF Amounts
<1> HIDE DEF p
<1>4. Owed(p, ip) = 0
  BY <1>2, <1>3, OwedOfZeros
<1>5. DOMAIN PaidOf(pd, ip) = {}
  BY <1>1, PaidType
<1>6. Paid(pd, ip) = 0
  BY <1>5, TotalOfNothing DEF Paid
<1> QED
  BY <1>1, <1>4, <1>6 DEF Ledger, p

LEMMA TorrentInvInit ==
  ASSUME TrafficInv, sent = [ip \in IP |-> 0], raw = [c \in swarm |-> 0], TorrentInit
  PROVE  TorrentInv
<1>1. /\ conns = Empty /\ peerUploaded = Empty /\ lastConns = Empty /\ torrentAge = Never
      /\ seenPeer = [c \in swarm |-> NoId] /\ checkedPeer = seenPeer
  BY DEF TorrentInit
<1>2. DOMAIN conns = {} /\ DOMAIN peerUploaded = {} /\ DOMAIN lastConns = {}
  BY <1>1 DEF Empty
<1>3. TorrentTypes
  BY <1>1, <1>2 DEF TorrentTypes, Ident
<1>4. /\ DOMAIN PeersUploadsOf(peerUploaded) = {} /\ DOMAIN FreshOf(conns) = {} /\ DOMAIN TotalsOf(conns) = {}
  BY <1>2 DEF PeersUploadsOf, FreshOf, TotalsOf, Restrict
<1>5. Covers(PeersUploadsOf(peerUploaded), TotalsOf(conns))
  BY <1>4 DEF Covers
<1>6. Connected(raw, peer) /\ \A c \in DOMAIN raw : raw[c] = 0
  BY TrafficFacts
<1>7. ASSUME NEW ip \in IP PROVE Ledger(raw, peer, PeersUploadsOf(peerUploaded), FreshOf(conns), sent[ip], ip)
  <2>1. Ledger(raw, peer, PeersUploadsOf(peerUploaded), FreshOf(conns), 0, ip)
    BY <1>4, <1>6, LedgerOfNothing
  <2> QED
    BY <2>1
<1> QED
  BY <1>2, <1>3, <1>5, <1>7 DEF TorrentInv

LEMMA TorrentSendKeeps ==
  ASSUME TrafficInv, TorrentInv, NEW c \in swarm, Send(c), UNCHANGED torrentVars
  PROVE  TrafficInv' /\ TorrentInv'
<1> DEFINE cs == FreshOf(conns)
           pd == PeersUploadsOf(peerUploaded)
           rw2 == raw'
<1>1. /\ TrafficInv' /\ OneMore(raw, c, rw2) /\ peer' = peer /\ swarm' = swarm
      /\ \A ip \in IP : sent'[ip] \in Nat /\ sent'[ip] = IF IPOf[c] = ip THEN sent[ip] + 1 ELSE sent[ip]
  BY SendKept
<1>2. /\ conns' = conns /\ peerUploaded' = peerUploaded /\ lastConns' = lastConns /\ torrentAge' = torrentAge
      /\ seenPeer' = seenPeer /\ checkedPeer' = checkedPeer
  BY DEF torrentVars, torrentStatistics
<1>3. Connected(raw, peer) /\ Counters(cs) /\ Sums(pd) /\ \A ip \in IP : sent[ip] \in Nat
  BY TorrentFacts
<1>4. \A ip \in IP : Ledger(raw, peer, pd, cs, sent[ip], ip)
  BY DEF TorrentInv
<1> HIDE DEF cs, pd, rw2
<1>5. ASSUME NEW ip \in IP PROVE Ledger(rw2, peer, pd, cs, sent'[ip], ip)
  <2> DEFINE n == sent[ip]
             m == sent'[ip]
  <2>1. n \in Nat /\ m \in Nat /\ m = (IF IPOf[c] = ip THEN n + 1 ELSE n) /\ Ledger(raw, peer, pd, cs, n, ip)
    BY <1>1, <1>3, <1>4
  <2> HIDE DEF n, m
  <2>2. Ledger(rw2, peer, pd, cs, m, ip)
    BY <1>1, <1>3, <2>1, LedgerSend
  <2> QED
    BY <2>2 DEF m
<1>6. TorrentTypes'
  BY <1>1, <1>2 DEF TorrentInv, TorrentTypes, Torrent, TorrentOf, Age, Never, Far, Ident
<1>7. \A ip \in IP : Ledger(raw', peer', PeersUploadsOf(peerUploaded'), FreshOf(conns'), sent'[ip], ip)
  BY <1>1, <1>2, <1>5 DEF rw2, cs, pd
<1>8. /\ \A k \in DOMAIN conns' : ConnOK(conns'[k], k, seenPeer'[k])
      /\ \A k \in DOMAIN lastConns' : ConnOK(lastConns'[k], k, checkedPeer'[k]) /\ Continues(lastConns'[k], conns'[k])
      /\ Covers(PeersUploadsOf(peerUploaded'), TotalsOf(conns'))
  BY <1>2 DEF TorrentInv
<1> QED
  BY <1>1, <1>6, <1>7, <1>8 DEF TorrentInv

LEMMA TorrentReconnectKeeps ==
  ASSUME TrafficInv, TorrentInv, NEW c \in swarm, Reconnect(c), UNCHANGED torrentVars
  PROVE  TrafficInv' /\ TorrentInv'
<1> DEFINE cs == FreshOf(conns)
           pd == PeersUploadsOf(peerUploaded)
           rw2 == raw'
           pr2 == peer'
<1>1. /\ UNCHANGED <<swarm, banned, sent>> /\ raw' \in [swarm -> Nat] /\ peer' \in [swarm -> Ident]
      /\ \A k \in swarm : peer'[k] \in PeersAt[k]
      /\ Quiet(raw, peer, raw', peer')
  BY ReconnectIsQuiet
<1>2. TrafficInv'
  BY <1>1, QuietKept
<1>3. /\ conns' = conns /\ peerUploaded' = peerUploaded /\ lastConns' = lastConns /\ torrentAge' = torrentAge
      /\ seenPeer' = seenPeer /\ checkedPeer' = checkedPeer
  BY DEF torrentVars, torrentStatistics
<1>4. Counters(cs) /\ Sums(pd) /\ Quiet(raw, peer, rw2, pr2) /\ \A ip \in IP : sent[ip] \in Nat
  BY <1>1, TorrentFacts
<1>5. \A ip \in IP : Ledger(raw, peer, pd, cs, sent[ip], ip)
  BY DEF TorrentInv
<1> HIDE DEF cs, pd, rw2, pr2
<1>6. ASSUME NEW ip \in IP PROVE Ledger(rw2, pr2, pd, cs, sent[ip], ip)
  <2> DEFINE n == sent[ip]
  <2>1. n \in Nat /\ Ledger(raw, peer, pd, cs, n, ip)
    BY <1>4, <1>5
  <2> HIDE DEF n
  <2>2. Ledger(rw2, pr2, pd, cs, n, ip)
    BY <1>4, <2>1, LedgerQuiet
  <2> QED
    BY <2>2 DEF n
<1>7. TorrentTypes'
  BY <1>1, <1>3 DEF TorrentInv, TorrentTypes, Torrent, TorrentOf, Age, Never, Far, Ident
<1>8. \A ip \in IP : Ledger(raw', peer', PeersUploadsOf(peerUploaded'), FreshOf(conns'), sent'[ip], ip)
  BY <1>1, <1>3, <1>6 DEF rw2, pr2, cs, pd
<1>9. /\ \A k \in DOMAIN conns' : ConnOK(conns'[k], k, seenPeer'[k])
      /\ \A k \in DOMAIN lastConns' : ConnOK(lastConns'[k], k, checkedPeer'[k]) /\ Continues(lastConns'[k], conns'[k])
      /\ Covers(PeersUploadsOf(peerUploaded'), TotalsOf(conns'))
  BY <1>3 DEF TorrentInv
<1> QED
  BY <1>2, <1>7, <1>8, <1>9 DEF TorrentInv

\* The age of a record is in none of what is kept of it.
LEMMA OnlyOlder ==
  ASSUME NEW r \in Statistics, NEW a \in Age
  PROVE  /\ [r EXCEPT !.age = a] \in Statistics /\ [r EXCEPT !.age = a].age = a
         /\ [r EXCEPT !.age = a].up = r.up /\ [r EXCEPT !.age = a].id = r.id
         /\ [r EXCEPT !.age = a].total = r.total
         /\ \A c, s : ConnOK(r, c, s) => ConnOK([r EXCEPT !.age = a], c, s)
         /\ \A last : Continues(last, r) => Continues(last, [r EXCEPT !.age = a])
         /\ Continues([r EXCEPT !.age = a], r)
<1> DEFINE o == [r EXCEPT !.age = a]
<1>1. /\ o \in Statistics /\ o.up = r.up /\ o.id = r.id /\ o.total = r.total /\ o.raw = r.raw
      /\ o.session = r.session /\ o.progress = r.progress /\ o.age = a
  BY DEF Statistics
<1>2. r.session \in Nat /\ r.total \in Raw /\ r.up \in Raw
  BY DEF Statistics, Raw
<1> HIDE DEF o
<1>3. Positive(r.total) \in Nat
  BY <1>2 DEF Positive, Raw, Unknown
<1>4. \A c, s : ConnOK(r, c, s) => ConnOK(o, c, s)
  BY <1>1 DEF ConnOK
<1>5. \A last : Continues(last, r) => Continues(last, o)
  BY <1>1 DEF Continues
<1>6. Continues(o, r)
  BY <1>1, <1>2, <1>3 DEF Continues, Raw, Unknown
<1> QED
  BY <1>1, <1>4, <1>5, <1>6 DEF o

LEMMA TorrentTimeKeeps ==
  ASSUME TrafficInv, TorrentInv, NEW d \in Pauses, TorrentTimePasses(d)
  PROVE  TrafficInv' /\ TorrentInv'
<1> DEFINE cs == FreshOf(conns)
           ds == FreshOf(conns')
           pd == PeersUploadsOf(peerUploaded)
           rw2 == raw'
<1>1. /\ conns' = [c \in DOMAIN conns |-> [conns[c] EXCEPT !.age = Older(@, d)]]
      /\ torrentAge' = IF torrentAge = Never THEN Never ELSE Older(torrentAge, d)
      /\ Forget({c \in DOMAIN conns : conns'[c].age = Far})
      /\ UNCHANGED <<banned, sent>>
      /\ peerUploaded' = peerUploaded /\ lastConns' = lastConns /\ seenPeer' = seenPeer /\ checkedPeer' = checkedPeer
  BY DEF TorrentTimePasses
<1>2. /\ UNCHANGED <<swarm, banned, sent>> /\ peer' = peer /\ Quiet(raw, peer, raw', peer') /\ TrafficInv'
      /\ \A k \in swarm : raw'[k] = IF k \in {c \in DOMAIN conns : conns'[c].age = Far} THEN 0 ELSE raw[k]
  BY <1>1, ForgetIsQuiet
<1>3. /\ DOMAIN conns \subseteq swarm /\ torrentAge \in Age \cup {Never}
      /\ DOMAIN conns \subseteq Conn /\ conns \in [DOMAIN conns -> Statistics]
      /\ Connected(raw, peer) /\ DOMAIN raw = swarm
      /\ Counters(cs) /\ Sums(pd) /\ \A ip \in IP : sent[ip] \in Nat
  BY TorrentFacts DEF TorrentInv, TorrentTypes
<1>4. ASSUME NEW c \in DOMAIN conns
      PROVE  /\ conns'[c] \in Statistics /\ conns'[c].up = conns[c].up /\ conns'[c].id = conns[c].id
             /\ conns'[c].total = conns[c].total
             /\ conns'[c].age \in Age /\ conns[c].age <= conns'[c].age /\ conns[c].age \in Age
             /\ \A s : ConnOK(conns[c], c, s) => ConnOK(conns'[c], c, s)
             /\ \A last : Continues(last, conns[c]) => Continues(last, conns'[c])
  <2> DEFINE r == conns[c]
  <2>1. r \in Statistics /\ r.age \in Age
    BY <1>3, ConnsFacts
  <2>2. Older(r.age, d) \in Age /\ r.age <= Older(r.age, d)
    BY <2>1, OlderIs
  <2>3. conns'[c] = [r EXCEPT !.age = Older(r.age, d)]
    BY <1>1
  <2> HIDE DEF r
  <2>4. /\ conns'[c] \in Statistics /\ conns'[c].age = Older(r.age, d)
        /\ conns'[c].up = r.up /\ conns'[c].id = r.id /\ conns'[c].total = r.total
        /\ \A s : ConnOK(r, c, s) => ConnOK(conns'[c], c, s)
        /\ \A last : Continues(last, r) => Continues(last, conns'[c])
    BY <2>1, <2>2, <2>3, OnlyOlder
  <2> QED
    BY <2>1, <2>2, <2>4 DEF r
<1>5. DOMAIN conns' = DOMAIN conns /\ conns' \in [DOMAIN conns -> Statistics]
  BY <1>1, <1>4
<1>6. TotalsOf(conns') = TotalsOf(conns)
  BY <1>4, <1>5 DEF TotalsOf
<1>7. TorrentTypes'
  <2>1. torrentAge' \in Age \cup {Never}
    BY <1>1, <1>3, OlderIs
  <2> QED
    BY <1>1, <1>2, <1>3, <1>5, <2>1 DEF TorrentInv, TorrentTypes
<1>8. /\ DOMAIN cs \subseteq DOMAIN conns /\ Counters(cs) /\ \A c \in DOMAIN cs : cs[c] = conns[c]
  BY <1>3, ConnsFacts
<1>9. /\ DOMAIN ds \subseteq DOMAIN conns /\ Counters(ds) /\ \A c \in DOMAIN ds : ds[c] = conns'[c]
  <2>1. DOMAIN conns' \subseteq Conn /\ conns' \in [DOMAIN conns' -> Statistics]
    BY <1>3, <1>5
  <2> QED
    BY <1>5, <2>1, ConnsFacts
<1>10. ASSUME NEW c \in DOMAIN conns, raw'[c] # 0
       PROVE  c \in DOMAIN ds <=> c \in DOMAIN cs
  <2>1. conns'[c].age # Far
    BY <1>2, <1>3, <1>10
  <2>2. conns'[c].age <= Retention /\ conns[c].age <= Retention
    BY <1>4, <2>1, AgeIs
  <2> QED
    BY <1>5, <2>2 DEF FreshOf, Restrict
<1>11. \A c \in DOMAIN raw : raw'[c] # 0 => CounterAt(ds, c) = CounterAt(cs, c)
  <2> HIDE DEF cs, ds
  <2> QED
    BY <1>4, <1>8, <1>9, <1>10 DEF CounterAt
<1>12. \A ip \in IP : Ledger(raw, peer, pd, cs, sent[ip], ip)
  BY DEF TorrentInv
<1>13. Quiet(raw, peer, rw2, peer)
  BY <1>2
<1>14. \A c \in DOMAIN raw : rw2[c] # 0 => CounterAt(ds, c) = CounterAt(cs, c)
  BY <1>11
<1> HIDE DEF cs, ds, pd, rw2
<1>15. ASSUME NEW ip \in IP PROVE Ledger(rw2, peer, pd, ds, sent[ip], ip)
  <2> DEFINE n == sent[ip]
  <2>1. n \in Nat /\ Ledger(raw, peer, pd, cs, n, ip)
    BY <1>3, <1>12
  <2> HIDE DEF n
  <2>2. Ledger(rw2, peer, pd, ds, n, ip)
    BY <1>3, <1>9, <1>13, <1>14, <2>1, LedgerQuiet
  <2> QED
    BY <2>2 DEF n
<1>16. \A ip \in IP : Ledger(raw', peer', PeersUploadsOf(peerUploaded'), FreshOf(conns'), sent'[ip], ip)
  BY <1>1, <1>2, <1>15 DEF rw2, ds, pd
<1>17. /\ \A k \in DOMAIN conns' : ConnOK(conns'[k], k, seenPeer'[k])
       /\ \A k \in DOMAIN lastConns' : ConnOK(lastConns'[k], k, checkedPeer'[k]) /\ Continues(lastConns'[k], conns'[k])
  BY <1>1, <1>4, <1>5 DEF TorrentInv, TorrentTypes
<1>18. Covers(PeersUploadsOf(peerUploaded'), TotalsOf(conns'))
  BY <1>1, <1>6 DEF TorrentInv
<1> QED
  BY <1>2, <1>7, <1>16, <1>17, <1>18 DEF TorrentInv

\* A report of a connection, as AddTorrentInfo takes it over.
LEMMA AlignStatistics ==
  ASSUME NEW r \in Statistics, NEW id \in Ident
  PROVE  LET a == AlignPeerTrafficCounter(r, id)
         IN  /\ a \in Statistics /\ a.up = Base(r, id) /\ a.id = NextId(r, id)
             /\ a.total = r.total /\ a.session = r.session /\ Base(r, id) \in Raw
<1>1. r.up \in Raw /\ r.id \in Ident
  BY DEF Statistics, Raw, Ident
<1>2. Base(r, id) \in Raw
  BY <1>1 DEF Base, Raw
<1>3. CASE id = NoId
  BY <1>2, <1>3 DEF AlignPeerTrafficCounter, Base, NextId
<1>4. CASE id # NoId
  <2> DEFINE b == IF r.id \in {NoId, id} THEN r.up ELSE 0
             a == [r EXCEPT !.id = id, !.up = b]
  <2>1. b \in Raw /\ b = Base(r, id) /\ NextId(r, id) = id
    BY <1>1, <1>4 DEF Base, NextId, Raw
  <2>2. AlignPeerTrafficCounter(r, id) = a
    BY <1>4 DEF AlignPeerTrafficCounter
  <2> HIDE DEF b
  <2>3. a \in Statistics /\ a.up = b /\ a.id = id /\ a.total = r.total /\ a.session = r.session
    BY <2>1 DEF Statistics, Raw, Ident
  <2> HIDE DEF a
  <2> QED
    BY <1>2, <2>1, <2>2, <2>3
<1> QED
  BY <1>3, <1>4

LEMMA RecordedIs ==
  ASSUME NEW prev \in Statistics, NEW up \in Raw, NEW id \in Ident, NEW progress \in Nat,
         NEW r, r = Recorded(prev, up, id, progress)
  PROVE  /\ r \in Statistics /\ r.up = Baseline(up, Base(prev, id)) /\ r.id = NextId(prev, id)
         /\ r.raw = up /\ r.age = 0
         /\ r.total = AccumulateCounter(prev.total, up, Base(prev, id))
         /\ Base(prev, id) \in Raw /\ prev.session <= r.session
         /\ r.session = prev.session <=> ~NewSession(prev, up, id)
<1> DEFINE a == AlignPeerTrafficCounter(prev, id)
           s == a.session + IF NewSession(prev, up, id) THEN 1 ELSE 0
           t == AccumulateCounter(a.total, up, a.up)
           b == Baseline(up, a.up)
           new == [a EXCEPT !.total = t, !.raw = up, !.up = b, !.progress = progress, !.age = 0, !.session = s]
<1>1. /\ a \in Statistics /\ a.up = Base(prev, id) /\ a.id = NextId(prev, id)
      /\ a.total = prev.total /\ a.session = prev.session /\ Base(prev, id) \in Raw
  BY AlignStatistics
<1>2. r = new
  BY DEF Recorded
<1>3. prev.session \in Nat /\ prev.total \in Raw
  BY DEF Statistics, Raw
<1> HIDE DEF a
<1>4. s \in Nat /\ prev.session <= s /\ (s = prev.session <=> ~NewSession(prev, up, id))
  BY <1>1, <1>3
<1>5. t \in Raw /\ b \in Raw /\ t = AccumulateCounter(prev.total, up, Base(prev, id)) /\ b = Baseline(up, Base(prev, id))
  <2>1. t \in Raw
    BY <1>1, <1>3, AccumulateGrows
  <2> QED
    BY <1>1, <2>1 DEF Baseline
<1> HIDE DEF s, t, b
<1>6. /\ new \in Statistics /\ new.up = b /\ new.id = a.id /\ new.raw = up /\ new.age = 0
      /\ new.total = t /\ new.session = s
  BY <1>1, <1>4, <1>5, AgeIs DEF Statistics, Raw
<1> HIDE DEF new
<1> QED
  BY <1>1, <1>2, <1>4, <1>5, <1>6

LEMMA ContinuesOn ==
  ASSUME NEW a \in Statistics, NEW b \in Statistics, NEW c \in Statistics, Continues(a, b), Continues(b, c)
  PROVE  Continues(a, c)
<1>1. \A r \in Statistics : r.session \in Nat /\ r.total \in Raw /\ r.up \in Raw
  BY DEF Statistics, Raw
<1>2. \A r \in Statistics : Positive(r.total) \in Nat
  <2> TAKE r \in Statistics
  <2>1. r.total \in Raw
    BY <1>1
  <2> QED
    BY <2>1 DEF Positive, Raw, Unknown
<1>3. a.session <= c.session /\ Positive(a.total) <= Positive(c.total)
  BY <1>1, <1>2 DEF Continues
<1>4. ASSUME a.session = c.session
      PROVE  a.up <= c.up /\ (a.id # NoId => c.id = a.id)
  <2>1. a.session = b.session /\ b.session = c.session
    BY <1>1, <1>4 DEF Continues
  <2>2. a.up <= b.up /\ b.up <= c.up /\ (a.id # NoId => b.id = a.id) /\ (b.id # NoId => c.id = b.id)
    BY <2>1 DEF Continues
  <2> QED
    BY <1>1, <2>2 DEF Raw, Unknown
<1> QED
  BY <1>3, <1>4 DEF Continues

LEMMA RecordedContinues ==
  ASSUME NEW prev \in Statistics, NEW up \in Raw, NEW id \in Ident, NEW progress \in Nat
  PROVE  Continues(prev, Recorded(prev, up, id, progress))
<1> DEFINE r == Recorded(prev, up, id, progress)
<1>1. /\ r \in Statistics /\ r.up = Baseline(up, Base(prev, id)) /\ r.id = NextId(prev, id)
      /\ r.total = AccumulateCounter(prev.total, up, Base(prev, id))
      /\ Base(prev, id) \in Raw /\ prev.session <= r.session
      /\ r.session = prev.session <=> ~NewSession(prev, up, id)
  BY RecordedIs
<1> HIDE DEF r
<1>2. prev.total \in Raw /\ prev.up \in Raw /\ Positive(prev.total) \in Nat
  <2>1. prev.total \in Raw /\ prev.up \in Raw
    BY DEF Statistics, Raw
  <2> QED
    BY <2>1 DEF Positive, Raw, Unknown
<1>3. Positive(prev.total) <= Positive(r.total)
  <2> DEFINE delta == CounterDelta(up, Base(prev, id))
  <2>1. delta \in Nat
    BY <1>1, DeltaBounds
  <2>2. Positive(AccumulateCounter(prev.total, up, Base(prev, id))) = Positive(prev.total) + delta
    BY <1>1, <1>2, AccumulateGrows
  <2> HIDE DEF delta
  <2> QED
    BY <1>1, <1>2, <2>1, <2>2
<1>4. ASSUME prev.session = r.session
      PROVE  prev.up <= r.up /\ (prev.id # NoId => r.id = prev.id)
  <2>1. ~NewSession(prev, up, id)
    BY <1>1, <1>4
  <2>2. AlignPeerTrafficCounter(prev, id).up = Base(prev, id)
    BY AlignStatistics
  <2>3. ~(up >= 0 /\ up < Base(prev, id)) /\ ~(id # NoId /\ prev.id \notin {NoId, id})
    BY <2>1, <2>2 DEF NewSession
  <2>4. Base(prev, id) = prev.up /\ (prev.id # NoId => NextId(prev, id) = prev.id)
    BY <2>3 DEF Base, NextId
  <2>5. prev.up <= Baseline(up, prev.up)
    BY <1>2, <2>3, <2>4 DEF Baseline, Raw, Unknown
  <2> QED
    BY <1>1, <2>4, <2>5
<1> QED
  BY <1>1, <1>3, <1>4 DEF Continues, r

\* What is recorded of a connection is of the peer at its other end.
LEMMA RecordedOK ==
  ASSUME NEW c \in Conn, NEW prev \in Statistics, NEW n \in Nat, NEW pe \in PeersAt[c],
         Positive(prev.up) <= Positive(prev.total), prev.id \in PeersAt[c] \cup {NoId},
         NEW up \in {n, Unknown}, NEW id \in Ident, id = pe \/ (id = NoId /\ n = 0), NEW progress \in Nat
  PROVE  ConnOK(Recorded(prev, up, id, progress), c, pe)
<1> DEFINE r == Recorded(prev, up, id, progress)
<1>1. up \in Raw
  BY DEF Raw
<1>2. /\ r \in Statistics /\ r.up = Baseline(up, Base(prev, id)) /\ r.id = NextId(prev, id) /\ r.raw = up
      /\ r.total = AccumulateCounter(prev.total, up, Base(prev, id))
      /\ Base(prev, id) \in Raw
  BY <1>1, RecordedIs
<1> HIDE DEF r
<1>3. r.raw \in {r.up, Unknown}
  BY <1>2 DEF Baseline
<1>4. r.id \in PeersAt[c] \cup {NoId}
  BY <1>2 DEF NextId
<1>5. ASSUME r.raw > 0 PROVE r.id = pe
  <2>1. up = n /\ n > 0 /\ id = pe
    BY <1>2, <1>5 DEF Unknown
  <2>2. CASE id = NoId
    <3>1. PeersAt[c] = {NoId}
      BY <2>1, <2>2, EndpointsAssumption
    <3> QED
      BY <1>4, <2>1, <2>2, <3>1
  <2>3. CASE id # NoId
    BY <1>2, <2>1, <2>3 DEF NextId
  <2> QED
    BY <2>2, <2>3
<1>6. Positive(r.up) <= Positive(r.total)
  <2> DEFINE old == [up |-> prev.up, id |-> prev.id]
  <2>1. old \in Counter /\ old.up = prev.up /\ Base(old, id) = Base(prev, id) /\ prev.total \in Raw /\ prev.up \in Raw
    BY DEF Counter, Statistics, Base, Raw
  <2> HIDE DEF old
  <2>2. Positive(Baseline(up, Base(old, id))) <= Positive(old.up) + CounterDelta(up, Base(old, id))
    BY <1>1, <2>1, BaselineGrows
  <2>3. /\ Positive(AccumulateCounter(prev.total, up, Base(prev, id))) = Positive(prev.total) + CounterDelta(up, Base(prev, id))
        /\ CounterDelta(up, Base(prev, id)) \in Nat
    BY <1>1, <1>2, <2>1, AccumulateGrows, DeltaBounds
  <2>4. \A x \in Raw : Positive(x) \in Nat
    BY DEF Positive, Raw, Unknown
  <2>5. Positive(prev.up) \in Nat /\ Positive(prev.total) \in Nat /\ Positive(r.up) \in Nat
    <3>1. r.up \in Raw
      BY <1>2 DEF Statistics, Raw
    <3> QED
      BY <2>1, <2>4, <3>1
  <2> QED
    BY <1>2, <2>1, <2>2, <2>3, <2>5
<1> QED
  BY <1>2, <1>3, <1>4, <1>5, <1>6 DEF ConnOK, r

\* What was uploaded to an IP's ports in a torrent, before a report of one.
PeerUploadedBefore(t) == IF t \in DOMAIN peerUploaded THEN peerUploaded[t] ELSE 0
ConnBefore(c) == IF c \in DOMAIN FreshOf(conns) THEN conns[c] ELSE NewConnection

LEMMA AddTorrentInfoIs ==
  ASSUME NEW c \in Conn, DOMAIN conns \subseteq Conn, conns \in [DOMAIN conns -> Statistics],
         NEW up \in Raw, NEW id \in Ident, NEW progress \in Nat, AddTorrentInfo(c, up, id, progress)
  PROVE  /\ \E kept \in SUBSET DOMAIN conns :
              /\ DOMAIN FreshOf(conns) \subseteq kept
              /\ DOMAIN conns' = kept \cup {c} /\ (\A k \in kept \ {c} : conns'[k] = conns[k])
              /\ c \in kept => c \in DOMAIN FreshOf(conns)
              /\ DOMAIN lastConns' = {k \in DOMAIN lastConns : k \in DOMAIN conns => k \in kept}
         /\ conns' = [k \in DOMAIN conns' |-> conns'[k]]
         /\ conns'[c] = Recorded(ConnBefore(c), up, id, progress)
         /\ ConnBefore(c) \in Statistics
         /\ peerUploaded' = With(peerUploaded, TorrentOf(c),
              AccumulateCounter(PeerUploadedBefore(TorrentOf(c)), up, Base(ConnBefore(c), id)))
         /\ lastConns' = [k \in DOMAIN lastConns' |-> lastConns[k]]
         /\ torrentAge' = torrentAge
<1> DEFINE t == TorrentOf(c)
           expired == {k \in Expired : TorrentOf(k) = t}
           previous == IF c \in DOMAIN conns \ expired THEN conns[c] ELSE NewConnection
           uploaded == IF t \in DOMAIN peerUploaded THEN peerUploaded[t] ELSE 0
           kept == DOMAIN conns \ expired
           new == Recorded(previous, up, id, progress)
<1>1. /\ conns' = With(Restrict(conns, kept), c, new)
      /\ peerUploaded' = With(peerUploaded, t, AccumulateCounter(uploaded, up, AlignPeerTrafficCounter(previous, id).up))
      /\ lastConns' = Restrict(lastConns, DOMAIN lastConns \ expired)
      /\ torrentAge' = torrentAge
  BY DEF AddTorrentInfo
<1>2. /\ kept \in SUBSET DOMAIN conns /\ DOMAIN FreshOf(conns) \subseteq kept
      /\ c \in kept <=> c \in DOMAIN FreshOf(conns)
      /\ \A k \in DOMAIN lastConns : k \notin expired <=> (k \in DOMAIN conns => k \in kept)
  <2>1. \A k \in DOMAIN conns : conns[k].age \in Nat
    BY ConnsFacts, AgeIs
  <2>2. \A k \in DOMAIN conns : k \in Expired <=> ~ (conns[k].age <= Retention)
    BY <2>1, HistoryAssumption DEF Expired
  <2>3. DOMAIN FreshOf(conns) = DOMAIN conns \ Expired /\ Expired \subseteq DOMAIN conns
    BY <2>2 DEF FreshOf, Restrict, Expired
  <2> HIDE DEF t
  <2> QED
    BY <2>3 DEF t
<1>3. previous = ConnBefore(c)
  BY <1>2 DEF ConnBefore
<1>4. NewConnection \in Statistics
  BY AgeIs DEF NewConnection, Statistics
<1>5. ConnBefore(c) \in Statistics
  BY <1>2, <1>4 DEF ConnBefore
<1> HIDE DEF previous
<1>6. AlignPeerTrafficCounter(previous, id).up = Base(ConnBefore(c), id)
  BY <1>3, <1>5, AlignStatistics
<1>7. uploaded = PeerUploadedBefore(t)
  BY DEF PeerUploadedBefore
<1>8. new = Recorded(ConnBefore(c), up, id, progress)
  BY <1>3
<1> HIDE DEF uploaded, new
<1>9. DOMAIN lastConns' = DOMAIN lastConns \ expired /\ lastConns' = [k \in DOMAIN lastConns' |-> lastConns[k]]
  BY <1>1 DEF Restrict
<1>10. DOMAIN lastConns' = {k \in DOMAIN lastConns : k \in DOMAIN conns => k \in kept}
  BY <1>2, <1>9
<1> HIDE DEF kept, t
<1>11. DOMAIN conns' = kept \cup {c} /\ (\A k \in kept \ {c} : conns'[k] = conns[k]) /\ conns'[c] = new
  <2>1. DOMAIN Restrict(conns, kept) = kept /\ \A k \in kept : Restrict(conns, kept)[k] = conns[k]
    BY <1>2 DEF Restrict
  <2> QED
    BY <1>1, <2>1 DEF With
<1>12. conns' = [k \in DOMAIN conns' |-> conns'[k]]
  <2>1. \A F, x, v : With(F, x, v) = [k \in DOMAIN With(F, x, v) |-> With(F, x, v)[k]]
    BY DEF With
  <2> QED
    BY <1>1, <2>1
<1>13. peerUploaded' = With(peerUploaded, t, AccumulateCounter(PeerUploadedBefore(t), up, Base(ConnBefore(c), id)))
  BY <1>1, <1>6, <1>7
<1>14. \E K \in SUBSET DOMAIN conns :
              /\ DOMAIN FreshOf(conns) \subseteq K
              /\ DOMAIN conns' = K \cup {c} /\ (\A k \in K \ {c} : conns'[k] = conns[k])
              /\ c \in K => c \in DOMAIN FreshOf(conns)
              /\ DOMAIN lastConns' = {k \in DOMAIN lastConns : k \in DOMAIN conns => k \in K}
  BY <1>2, <1>10, <1>11
<1> QED
  BY <1>1, <1>5, <1>8, <1>9, <1>11, <1>12, <1>13, <1>14 DEF t

LEMMA TorrentRecordKeeps ==
  ASSUME TrafficInv, TorrentInv, NEW c \in swarm, NEW up \in Reports(c), NEW id \in Ids(c), NEW progress \in Progress[c],
         RecordTorrentPeer(c, up, id, progress), UNCHANGED <<external, sent>>
  PROVE  TrafficInv' /\ TorrentInv'
<1> DEFINE t == TorrentOf(c)
           cs == FreshOf(conns)
           ds == FreshOf(conns')
           prev == ConnBefore(c)
           new == Recorded(prev, up, id, progress)
           base == Base(prev, id)
           delta == CounterDelta(up, base)
           pd == PeersUploadsOf(peerUploaded)
           f == TotalsOf(conns)
           g == TotalsOf(conns')
<1>1. /\ Connected(raw, peer) /\ DOMAIN raw = swarm /\ swarm \subseteq Conn /\ DOMAIN conns \subseteq swarm
      /\ DOMAIN conns \subseteq Conn /\ conns \in [DOMAIN conns -> Statistics]
      /\ lastConns \in [DOMAIN lastConns -> Statistics] /\ DOMAIN lastConns \subseteq DOMAIN conns
      /\ Counters(cs) /\ Sums(pd) /\ \A ip \in IP : sent[ip] \in Nat
      /\ c \in Conn /\ raw[c] \in Nat /\ peer[c] \in Ident /\ peer[c] \in PeersAt[c]
      /\ t \in Torrent
      /\ DOMAIN peerUploaded \subseteq Torrent /\ peerUploaded \in [DOMAIN peerUploaded -> Raw]
      /\ torrentAge \in Age \cup {Never} /\ seenPeer \in [swarm -> Ident] /\ checkedPeer \in [swarm -> Ident]
  BY TorrentFacts, TrafficFacts, TorrentOfConn DEF TorrentInv, TorrentTypes, TrafficInv
<1>2. /\ Reported(raw, peer, c, up, id) /\ up \in Raw /\ up \in {raw[c], Unknown} /\ id \in Ident
      /\ id = peer[c] \/ (id = NoId /\ raw[c] = 0)
  <2>1. Reported(raw, peer, c, up, id)
    BY ReportedIs
  <2> QED
    BY <1>1, <2>1 DEF Reported, Raw
<1>3. progress \in Nat
  BY <1>1, TorrentSettingsAssumption
<1>4. /\ swarm' = swarm /\ raw' = raw /\ peer' = peer /\ sent' = sent /\ banned' = banned
      /\ AddTorrentInfo(c, up, id, progress) /\ checkedPeer' = checkedPeer
      /\ seenPeer' = [seenPeer EXCEPT ![c] = peer[c]]
  BY DEF RecordTorrentPeer, external
<1>5. TrafficInv'
  BY <1>4, BansKept DEF TrafficInv, Banned
<1>6. /\ \E kept \in SUBSET DOMAIN conns :
           /\ DOMAIN FreshOf(conns) \subseteq kept
           /\ DOMAIN conns' = kept \cup {c} /\ (\A k \in kept \ {c} : conns'[k] = conns[k])
           /\ c \in kept => c \in DOMAIN FreshOf(conns)
           /\ DOMAIN lastConns' = {k \in DOMAIN lastConns : k \in DOMAIN conns => k \in kept}
      /\ conns' = [k \in DOMAIN conns' |-> conns'[k]]
      /\ conns'[c] = new /\ prev \in Statistics
      /\ peerUploaded' = With(peerUploaded, t, AccumulateCounter(PeerUploadedBefore(t), up, base))
      /\ lastConns' = [k \in DOMAIN lastConns' |-> lastConns[k]]
      /\ torrentAge' = torrentAge
  BY <1>1, <1>2, <1>3, <1>4, AddTorrentInfoIs
<1>7. PICK kept \in SUBSET DOMAIN conns :
           /\ DOMAIN cs \subseteq kept
           /\ DOMAIN conns' = kept \cup {c} /\ (\A k \in kept \ {c} : conns'[k] = conns[k])
           /\ c \in kept => c \in DOMAIN cs
           /\ DOMAIN lastConns' = {k \in DOMAIN lastConns : k \in DOMAIN conns => k \in kept}
  BY <1>6
<1>8. /\ DOMAIN cs \subseteq DOMAIN conns /\ (\A k \in DOMAIN cs : cs[k] = conns[k])
      /\ DOMAIN cs = {k \in DOMAIN conns : conns[k].age <= Retention}
      /\ \A k \in DOMAIN conns : conns[k].total \in Raw /\ Positive(conns[k].total) \in Nat
      /\ Amounts(f) /\ DOMAIN f = DOMAIN conns /\ \A k \in DOMAIN conns : f[k] = Positive(conns[k].total)
  BY <1>1, ConnsFacts
<1>9. /\ c \in DOMAIN cs => prev = conns[c]
      /\ c \notin DOMAIN cs => prev = NewConnection
  BY DEF ConnBefore
<1>10. \A k \in DOMAIN conns : ConnOK(conns[k], k, seenPeer[k])
  BY DEF TorrentInv
<1>11. Positive(prev.up) <= Positive(prev.total) /\ prev.id \in PeersAt[c] \cup {NoId}
  <2>1. CASE c \in DOMAIN cs
    BY <1>8, <1>9, <1>10, <2>1 DEF ConnOK
  <2>2. CASE c \notin DOMAIN cs
    BY <1>9, <2>2 DEF NewConnection, Positive, Unknown
  <2> QED
    BY <2>1, <2>2
<1>12. CounterAt(cs, c) = [up |-> prev.up, id |-> prev.id]
  <2>1. CASE c \in DOMAIN cs
    BY <1>8, <1>9, <2>1 DEF CounterAt
  <2>2. CASE c \notin DOMAIN cs
    BY <1>9, <2>2 DEF CounterAt, NewConnection, NoCounter
  <2> QED
    BY <2>1, <2>2
<1>13. Base(CounterAt(cs, c), id) = base /\ NextId(CounterAt(cs, c), id) = NextId(prev, id)
  BY <1>12 DEF Base, NextId
<1> HIDE DEF t, cs, ds, prev, new, pd, f, g
<1>14. /\ new \in Statistics /\ new.up = Baseline(up, base) /\ new.id = NextId(prev, id) /\ new.age = 0
       /\ new.total = AccumulateCounter(prev.total, up, base) /\ base \in Raw
  BY <1>2, <1>3, <1>6, RecordedIs DEF new
<1>15. ConnOK(new, c, peer[c])
  BY <1>1, <1>2, <1>3, <1>6, <1>11, RecordedOK DEF new
<1>16. Continues(prev, new)
  BY <1>2, <1>3, <1>6, RecordedContinues DEF new
<1>17. delta \in Nat /\ Positive(new.total) = Positive(prev.total) + delta /\ prev.total \in Raw
  <2>1. prev.total \in Raw
    BY <1>6 DEF Statistics, Raw
  <2>2. delta \in Nat
    BY <1>2, <1>14, DeltaBounds
  <2> QED
    BY <1>2, <1>14, <2>1, <2>2, AccumulateGrows
<1> HIDE DEF base, delta
<1>18. /\ DOMAIN conns' \subseteq swarm /\ DOMAIN conns' \subseteq Conn /\ conns' \in [DOMAIN conns' -> Statistics]
  <2>1. \A k \in DOMAIN conns' : conns'[k] \in Statistics
    BY <1>1, <1>6, <1>7, <1>14
  <2> QED
    BY <1>1, <1>6, <1>7, <2>1
<1>19. /\ seenPeer' \in [swarm -> Ident] /\ seenPeer'[c] = peer[c] /\ \A k \in swarm \ {c} : seenPeer'[k] = seenPeer[k]
  BY <1>1, <1>4
<1>20. \A k \in DOMAIN conns' : ConnOK(conns'[k], k, seenPeer'[k])
  <2> SUFFICES ASSUME NEW k \in DOMAIN conns' PROVE ConnOK(conns'[k], k, seenPeer'[k])
    OBVIOUS
  <2>1. CASE k = c
    BY <1>6, <1>15, <1>19, <2>1
  <2>2. CASE k # c
    BY <1>1, <1>7, <1>10, <1>19, <2>2
  <2> QED
    BY <2>1, <2>2
<1>21. \A k \in DOMAIN lastConns' : /\ k \in DOMAIN conns' /\ k \in DOMAIN lastConns /\ lastConns'[k] = lastConns[k]
                                    /\ ConnOK(lastConns[k], k, checkedPeer[k]) /\ Continues(lastConns[k], conns'[k])
  <2> SUFFICES ASSUME NEW k \in DOMAIN lastConns'
               PROVE  /\ k \in DOMAIN conns' /\ k \in DOMAIN lastConns /\ lastConns'[k] = lastConns[k]
                      /\ ConnOK(lastConns[k], k, checkedPeer[k]) /\ Continues(lastConns[k], conns'[k])
    OBVIOUS
  <2>1. k \in DOMAIN lastConns /\ k \in DOMAIN conns /\ k \in kept /\ lastConns'[k] = lastConns[k]
    BY <1>1, <1>6, <1>7
  <2>2. ConnOK(lastConns[k], k, checkedPeer[k]) /\ Continues(lastConns[k], conns[k])
    BY <2>1 DEF TorrentInv
  <2>3. CASE k = c
    <3>1. prev = conns[c]
      BY <1>7, <1>9, <2>1, <2>3
    <3>2. lastConns[k] \in Statistics
      BY <1>1, <2>1
    <3>3. Continues(lastConns[k], new)
      BY <1>6, <1>14, <1>16, <2>2, <2>3, <3>1, <3>2, ContinuesOn
    <3> QED
      BY <1>6, <1>7, <2>1, <2>2, <2>3, <3>3
  <2>4. CASE k # c
    BY <1>7, <2>1, <2>2, <2>4
  <2> QED
    BY <2>3, <2>4
<1>22. /\ DOMAIN peerUploaded' \subseteq Torrent /\ peerUploaded' \in [DOMAIN peerUploaded' -> Raw]
       /\ PeersUploadsOf(peerUploaded') = Plus(pd, t, delta)
  <2> DEFINE was == PeerUploadedBefore(t)
             a == AccumulateCounter(was, up, base)
  <2>1. was \in Raw
    BY <1>1 DEF PeerUploadedBefore, Raw
  <2>2. a \in Raw /\ Positive(a) = Positive(was) + delta
    BY <1>2, <1>14, <2>1, AccumulateGrows DEF delta
  <2>3. peerUploaded' = With(peerUploaded, t, a)
    BY <1>6
  <2>4. Before(pd, t) = Positive(was)
    BY DEF Before, PeerUploadedBefore, pd, PeersUploadsOf, Positive
  <2> HIDE DEF was, a
  <2>5. /\ DOMAIN peerUploaded' = DOMAIN peerUploaded \cup {t} /\ peerUploaded'[t] = a
        /\ \A u \in DOMAIN peerUploaded \ {t} : peerUploaded'[u] = peerUploaded[u]
    BY <2>3 DEF With
  <2>6. peerUploaded' = [u \in DOMAIN peerUploaded' |-> peerUploaded'[u]]
    BY <2>3 DEF With
  <2>7. \A u \in DOMAIN peerUploaded' : peerUploaded'[u] \in Raw
    BY <1>1, <2>2, <2>5
  <2>8. /\ DOMAIN pd = DOMAIN peerUploaded /\ \A u \in DOMAIN peerUploaded : pd[u] = Positive(peerUploaded[u])
    BY DEF pd, PeersUploadsOf
  <2>9. Plus(pd, t, delta) = [u \in DOMAIN peerUploaded \cup {t} |-> IF u = t THEN Positive(was) + delta ELSE pd[u]]
    BY <2>4, <2>8 DEF Plus, With
  <2>10. PeersUploadsOf(peerUploaded') = [u \in DOMAIN peerUploaded \cup {t} |-> Positive(peerUploaded'[u])]
    BY <2>5 DEF PeersUploadsOf
  <2>11. \A u \in DOMAIN peerUploaded \cup {t} :
           Positive(peerUploaded'[u]) = IF u = t THEN Positive(was) + delta ELSE pd[u]
    BY <2>2, <2>5, <2>8
  <2>12. PeersUploadsOf(peerUploaded') = Plus(pd, t, delta)
    BY <2>9, <2>10, <2>11
  <2> QED
    BY <1>1, <2>5, <2>6, <2>7, <2>12
<1>23. Covers(Plus(pd, t, delta), g)
  <2>1. /\ Amounts(g) /\ DOMAIN g = DOMAIN conns' /\ \A k \in DOMAIN conns' : g[k] = Positive(conns'[k].total)
    BY <1>18, ConnsFacts DEF g
  <2>2. DOMAIN g \subseteq DOMAIN f \cup {c} /\ c \in DOMAIN g
    BY <1>7, <1>8, <2>1
  <2>3. \A k \in DOMAIN g \ {c} : g[k] <= f[k]
    <3> SUFFICES ASSUME NEW k \in DOMAIN g \ {c} PROVE g[k] <= f[k]
      OBVIOUS
    <3>1. g[k] = f[k] /\ f[k] \in Nat
      BY <1>7, <1>8, <2>1
    <3> QED
      BY <3>1
  <2>4. g[c] <= delta + (IF c \in DOMAIN f THEN f[c] ELSE 0)
    <3>1. g[c] = Positive(prev.total) + delta
      BY <1>6, <1>17, <2>1, <2>2
    <3>2. CASE c \in DOMAIN cs
      <4>1. c \in DOMAIN f /\ f[c] = Positive(prev.total) /\ f[c] \in Nat
        BY <1>8, <1>9, <3>2
      <4> QED
        BY <1>17, <3>1, <4>1
    <3>3. CASE c \notin DOMAIN cs
      <4>1. Positive(prev.total) = 0
        BY <1>9, <3>3 DEF NewConnection, Positive
      <4>2. c \in DOMAIN f => f[c] \in Nat
        BY <1>8
      <4> QED
        BY <1>17, <3>1, <4>1, <4>2
    <3> QED
      BY <3>2, <3>3
  <2>5. Covers(pd, f)
    BY DEF TorrentInv, pd, f
  <2>6. Covers(Plus(pd, TorrentOf(c), delta), g)
    BY <1>1, <1>8, <1>17, <2>1, <2>2, <2>3, <2>4, <2>5, CoversReport
  <2> QED
    BY <2>6 DEF t
<1>24. ASSUME NEW ip \in IP PROVE Ledger(raw, peer, Plus(pd, t, delta), ds, sent[ip], ip)
  <2>1. /\ Counters(ds) /\ DOMAIN ds = {k \in DOMAIN conns' : conns'[k].age <= Retention}
        /\ \A k \in DOMAIN ds : ds[k] = conns'[k]
    BY <1>18, ConnsFacts DEF ds
  <2>2. c \in DOMAIN ds
    BY <1>6, <1>7, <1>14, <2>1, AgeIs
  <2>3. \A k : k # c => (k \in DOMAIN ds <=> k \in DOMAIN cs)
    BY <1>7, <1>8, <2>1
  <2>4. \A k : k # c => CounterAt(ds, k) = CounterAt(cs, k)
    <3> TAKE k
    <3> HAVE k # c
    <3>1. CASE k \in DOMAIN ds
      BY <1>7, <1>8, <2>1, <2>3, <3>1 DEF CounterAt
    <3>2. CASE k \notin DOMAIN ds
      BY <2>3, <3>2 DEF CounterAt
    <3> QED
      BY <3>1, <3>2
  <2>5. CounterAt(ds, c) = [up |-> Baseline(up, base), id |-> NextId(prev, id)]
    BY <1>6, <1>14, <2>1, <2>2 DEF CounterAt
  <2>6. CounterAt(ds, c) = [up |-> Baseline(up, Base(CounterAt(cs, c), id)), id |-> NextId(CounterAt(cs, c), id)]
    BY <1>13, <2>5
  <2> DEFINE n == sent[ip]
  <2>7. n \in Nat /\ Ledger(raw, peer, pd, cs, n, ip)
    BY <1>1 DEF TorrentInv, pd, cs
  <2>8. \A k \in DOMAIN raw \ {c} : CounterAt(ds, k) = CounterAt(cs, k)
    BY <2>4
  <2> HIDE DEF n
  <2>9. Ledger(raw, peer, Plus(pd, TorrentOf(c), CounterDelta(up, Base(CounterAt(cs, c), id))), ds, n, ip)
    BY <1>1, <1>2, <2>1, <2>6, <2>7, <2>8, LedgerReport
  <2> QED
    BY <1>13, <2>9 DEF n, t, delta
<1>25. TorrentTypes'
  <2>1. DOMAIN lastConns' \subseteq DOMAIN conns' /\ \A k \in DOMAIN lastConns' : lastConns[k] \in Statistics
    BY <1>1, <1>21
  <2>2. lastConns' \in [DOMAIN lastConns' -> Statistics]
    BY <1>6, <2>1
  <2> QED
    BY <1>1, <1>4, <1>6, <1>18, <1>19, <1>22, <2>1, <2>2 DEF TorrentTypes
<1>26. /\ Covers(PeersUploadsOf(peerUploaded'), TotalsOf(conns'))
       /\ \A ip \in IP : Ledger(raw, peer, PeersUploadsOf(peerUploaded'), FreshOf(conns'), sent[ip], ip)
  BY <1>22, <1>23, <1>24 DEF g, ds
<1>27. TorrentInv'
  BY <1>4, <1>20, <1>21, <1>25, <1>26 DEF TorrentInv
<1> QED
  BY <1>5, <1>27

\* What is left of the records when only some of the unexpired ones stay.
LEMMA FewerConns ==
  ASSUME NEW cs, DOMAIN cs \subseteq Conn, cs \in [DOMAIN cs -> Statistics], NEW S, S \subseteq DOMAIN FreshOf(cs)
  PROVE  /\ S \subseteq DOMAIN cs /\ DOMAIN Restrict(cs, S) = S /\ Restrict(cs, S) \in [S -> Statistics]
         /\ \A c \in S : Restrict(cs, S)[c] = cs[c]
         /\ DOMAIN FreshOf(Restrict(cs, S)) = S /\ Counters(FreshOf(Restrict(cs, S)))
         /\ \A c \in S : CounterAt(FreshOf(Restrict(cs, S)), c) = CounterAt(FreshOf(cs), c)
<1> DEFINE ds == Restrict(cs, S)
<1>1. S \subseteq DOMAIN cs /\ \A c \in S : cs[c].age <= Retention /\ CounterAt(FreshOf(cs), c) = CounterAt(cs, c)
  BY ConnsFacts
<1>2. DOMAIN ds = S /\ \A c \in S : ds[c] = cs[c]
  BY DEF Restrict
<1>3. ds \in [S -> Statistics]
  BY <1>1 DEF Restrict
<1> HIDE DEF ds
<1>4. DOMAIN ds \subseteq Conn /\ ds \in [DOMAIN ds -> Statistics]
  BY <1>1, <1>2, <1>3
<1>5. /\ Counters(FreshOf(ds)) /\ DOMAIN FreshOf(ds) = {c \in DOMAIN ds : ds[c].age <= Retention}
      /\ \A c \in DOMAIN FreshOf(ds) : CounterAt(FreshOf(ds), c) = CounterAt(ds, c)
  BY <1>4, ConnsFacts
<1>6. DOMAIN FreshOf(ds) = S
  BY <1>1, <1>2, <1>5
<1>7. \A c \in S : CounterAt(ds, c) = CounterAt(cs, c)
  BY <1>1, <1>2 DEF CounterAt
<1>8. \A c \in S : CounterAt(FreshOf(ds), c) = CounterAt(FreshOf(cs), c)
  BY <1>1, <1>5, <1>6, <1>7
<1> QED
  BY <1>1, <1>2, <1>3, <1>5, <1>6, <1>8 DEF ds

\* The totals that stay are within the torrents that stay.
LEMMA FewerTotals ==
  ASSUME NEW cs, DOMAIN cs \subseteq Conn, cs \in [DOMAIN cs -> Statistics],
         NEW pd, Sums(pd), Covers(pd, TotalsOf(cs)),
         NEW ds, DOMAIN ds \subseteq DOMAIN cs, ds \in [DOMAIN ds -> Statistics], \A c \in DOMAIN ds : ds[c] = cs[c],
         NEW pd2, DOMAIN pd2 \subseteq DOMAIN pd, \A t \in DOMAIN pd2 : pd2[t] = pd[t],
         \A c \in DOMAIN ds : TorrentOf(c) \in DOMAIN pd2
  PROVE  Covers(pd2, TotalsOf(ds))
<1> DEFINE f == TotalsOf(cs)
           g == TotalsOf(ds)
<1>1. /\ Amounts(f) /\ DOMAIN f = DOMAIN cs
      /\ \A c \in DOMAIN cs : f[c] = Positive(cs[c].total) /\ Positive(cs[c].total) \in Nat
  BY ConnsFacts
<1>2. DOMAIN ds \subseteq Conn
  OBVIOUS
<1>3. /\ Amounts(g) /\ DOMAIN g = DOMAIN ds
      /\ \A c \in DOMAIN ds : g[c] = Positive(ds[c].total)
  BY <1>2, ConnsFacts
<1>4. Covers(pd, f)
  OBVIOUS
<1> HIDE DEF f, g
<1>5. DOMAIN g \subseteq DOMAIN f /\ \A c \in DOMAIN g : g[c] <= f[c] /\ TorrentOf(c) \in DOMAIN pd2
  BY <1>1, <1>3
<1>6. Covers(pd2, g)
  BY <1>1, <1>3, <1>4, <1>5, CoversFewer
<1> QED
  BY <1>6 DEF g

\* The recorded connections that have not expired, and their torrents.
LEMMA FreshFacts ==
  ASSUME TrafficInv, TorrentInv
  PROVE  LET cs == FreshOf(conns)
             pd == PeersUploadsOf(peerUploaded)
         IN  /\ DOMAIN cs = DOMAIN conns \ Expired /\ DOMAIN cs \subseteq DOMAIN conns
             /\ \A c \in DOMAIN cs : cs[c] = conns[c]
             /\ cs = Restrict(conns, DOMAIN cs) /\ cs \in [DOMAIN cs -> Statistics] /\ DOMAIN cs \subseteq Conn
             /\ \A c \in DOMAIN conns : TorrentOf(c) \in DOMAIN pd
             /\ Covers(pd, TotalsOf(cs)) /\ Covers(pd, KnownOf(cs))
<1> DEFINE cs == FreshOf(conns)
           pd == PeersUploadsOf(peerUploaded)
<1>1. /\ DOMAIN conns \subseteq Conn /\ conns \in [DOMAIN conns -> Statistics] /\ Sums(pd) /\ Counters(cs)
  BY TorrentFacts
<1>2. /\ DOMAIN cs = {c \in DOMAIN conns : conns[c].age <= Retention}
      /\ \A c \in DOMAIN cs : cs[c] = conns[c]
      /\ \A c \in DOMAIN conns : conns[c].age \in Nat
      /\ DOMAIN TotalsOf(conns) = DOMAIN conns
  BY <1>1, ConnsFacts, AgeIs
<1>3. \A k \in DOMAIN conns : k \in Expired <=> ~ (conns[k].age <= Retention)
  BY <1>2, HistoryAssumption DEF Expired
<1>4. DOMAIN cs = DOMAIN conns \ Expired /\ DOMAIN cs \subseteq DOMAIN conns
  <2> HIDE DEF cs
  <2> QED
    BY <1>2, <1>3
<1>5. cs = Restrict(conns, DOMAIN cs)
  BY DEF FreshOf, Restrict
<1>6. Covers(pd, TotalsOf(conns))
  BY DEF TorrentInv
<1> HIDE DEF cs, pd
<1>7. cs \in [DOMAIN cs -> Statistics] /\ DOMAIN cs \subseteq Conn
  BY <1>1, <1>2, <1>4, <1>5 DEF Restrict
<1>8. \A c \in DOMAIN conns : TorrentOf(c) \in DOMAIN pd
  BY <1>2, <1>6 DEF Covers
<1>9. Covers(pd, TotalsOf(cs))
  <2>1. \A c \in DOMAIN cs : TorrentOf(c) \in DOMAIN pd
    BY <1>4, <1>8
  <2> QED
    BY <1>1, <1>2, <1>4, <1>6, <1>7, <2>1, FewerTotals
<1>10. Covers(pd, KnownOf(cs))
  <2> DEFINE f == TotalsOf(cs)
             g == KnownOf(cs)
  <2>1. /\ Amounts(f) /\ DOMAIN f = DOMAIN cs
        /\ \A c \in DOMAIN cs : f[c] = Positive(cs[c].total)
    BY <1>7, ConnsFacts
  <2>2. /\ Amounts(g) /\ DOMAIN g = DOMAIN cs
        /\ \A c \in DOMAIN cs : g[c] = Positive(cs[c].up)
    BY <1>1, <1>7, KnownAmounts
  <2>3. \A c \in DOMAIN cs : Positive(cs[c].up) <= Positive(cs[c].total)
    BY <1>2, <1>4 DEF TorrentInv, ConnOK
  <2>4. Covers(pd, f)
    BY <1>9
  <2> HIDE DEF f, g
  <2>5. DOMAIN g \subseteq DOMAIN f /\ \A c \in DOMAIN g : g[c] <= f[c] /\ TorrentOf(c) \in DOMAIN pd
    BY <1>4, <1>8, <2>1, <2>2, <2>3
  <2>6. Covers(pd, g)
    BY <1>1, <2>1, <2>2, <2>4, <2>5, CoversFewer
  <2> QED
    BY <2>6 DEF g
<1> QED
  BY <1>2, <1>4, <1>5, <1>7, <1>8, <1>9, <1>10 DEF cs, pd

LEMMA TorrentCheckKeeps ==
  ASSUME TrafficInv, TorrentInv, CheckAllTorrent
  PROVE  TrafficInv' /\ TorrentInv'
<1> DEFINE cs == FreshOf(conns)
           pd == PeersUploadsOf(peerUploaded)
           F == TotalsOf(cs)
<1>1. PICK culprits \in SUBSET (DOMAIN conns \ Expired) :
        banned' = [ip \in Banned \cup {IPOf[c] : c \in culprits} |->
                     IF ip \in Banned THEN banned[ip]
                     ELSE BlockTorrentPeer(CHOOSE c \in culprits : IPOf[c] = ip)]
  <2>1. \A S, chosen : chosen \in Culprits(S) => chosen \in SUBSET S
    BY DEF Culprits
  <2>2. PICK culprits \in Culprits({c \in DOMAIN conns \ Expired : IPOf[c] \notin Banned /\ TorrentOffender(c)}) :
          banned' = [ip \in Banned \cup {IPOf[c] : c \in culprits} |->
                     IF ip \in Banned THEN banned[ip]
                     ELSE BlockTorrentPeer(CHOOSE c \in culprits : IPOf[c] = ip)]
    BY DEF CheckAllTorrent
  <2>3. culprits \in SUBSET (DOMAIN conns \ Expired)
    BY <2>1, <2>2
  <2> QED
    BY <2>2, <2>3
<1>2. /\ conns' = Restrict(conns, DOMAIN conns \ Expired)
      /\ lastConns' = [c \in DOMAIN conns' |-> [conns'[c] EXCEPT !.age = 0]]
      /\ torrentAge' = 0 /\ checkedPeer' = seenPeer /\ seenPeer' = seenPeer
      /\ swarm' = swarm /\ raw' = raw /\ peer' = peer /\ sent' = sent /\ peerUploaded' = peerUploaded
  BY DEF CheckAllTorrent, DeepCopyTorrentMap, external
<1>3. /\ Connected(raw, peer) /\ DOMAIN conns \subseteq Conn /\ conns \in [DOMAIN conns -> Statistics]
      /\ DOMAIN conns \subseteq swarm /\ Counters(cs) /\ Sums(pd) /\ \A ip \in IP : sent[ip] \in Nat
  BY TorrentFacts DEF TorrentInv, TorrentTypes
<1>4. /\ DOMAIN cs = DOMAIN conns \ Expired /\ DOMAIN cs \subseteq DOMAIN conns
      /\ \A c \in DOMAIN cs : cs[c] = conns[c]
      /\ cs = Restrict(conns, DOMAIN cs) /\ cs \in [DOMAIN cs -> Statistics] /\ DOMAIN cs \subseteq Conn
      /\ Covers(pd, F)
  BY FreshFacts
<1>5. conns' = cs
  <2> HIDE DEF cs
  <2> QED
    BY <1>2, <1>4
<1>6. \A ip \in IP : Ledger(raw, peer, pd, cs, sent[ip], ip)
  BY DEF TorrentInv
<1>7. \A c \in DOMAIN cs : ConnOK(cs[c], c, seenPeer[c])
  BY <1>4 DEF TorrentInv
<1>8. /\ Amounts(F) /\ DOMAIN F = DOMAIN cs
      /\ \A c \in DOMAIN cs : F[c] = Positive(cs[c].total)
  BY <1>4, ConnsFacts
<1>9. DOMAIN cs \subseteq DOMAIN FreshOf(conns)
  OBVIOUS
<1>10. /\ Counters(FreshOf(cs)) /\ DOMAIN FreshOf(cs) = DOMAIN cs
       /\ \A c \in DOMAIN cs : CounterAt(FreshOf(cs), c) = CounterAt(cs, c)
  <2> DEFINE S == DOMAIN FreshOf(conns)
  <2>1. S \subseteq DOMAIN FreshOf(conns)
    OBVIOUS
  <2> HIDE DEF S
  <2>2. /\ Counters(FreshOf(Restrict(conns, S))) /\ DOMAIN FreshOf(Restrict(conns, S)) = S
        /\ \A c \in S : CounterAt(FreshOf(Restrict(conns, S)), c) = CounterAt(FreshOf(conns), c)
    BY <1>3, <2>1, FewerConns
  <2>3. Restrict(conns, S) = cs /\ S = DOMAIN cs
    BY <1>4 DEF S
  <2> QED
    BY <2>2, <2>3
<1> HIDE DEF cs, pd, F
<1>11. TrafficInv'
  <2>1. Banned \subseteq IP
    BY DEF TrafficInv
  <2>2. Banned' = Banned \cup {IPOf[c] : c \in culprits}
    BY <1>1 DEF Banned
  <2>3. ASSUME NEW c \in culprits
        PROVE  BanOK(raw, peer, sent[IPOf[c]], BlockTorrentPeer(c), IPOf[c]) /\ IPOf[c] \in IP
    <3> DEFINE n == sent[IPOf[c]]
               ds == Restrict(conns, {c})
    <3>1. c \in DOMAIN cs /\ c \in Conn /\ IPOf[c] \in IP
      BY <1>1, <1>4, TorrentOfConn
    <3>2. n \in Nat /\ Ledger(raw, peer, pd, cs, n, IPOf[c])
      BY <1>3, <1>6, <3>1
    <3>3. DOMAIN ds = {c} /\ ds[c] = cs[c]
      BY <1>4, <3>1 DEF Restrict
    <3>4. \A k \in DOMAIN cs : Positive(cs[k].up) <= F[k]
      BY <1>7, <1>8 DEF ConnOK
    <3>5. F[c] = Positive(conns[c].total)
      BY <1>4, <1>8, <3>1
    <3> HIDE DEF n, ds
    <3>6. Connected(raw, peer) /\ Counters(cs) /\ DOMAIN cs \subseteq Conn /\ Amounts(F) /\ DOMAIN F = DOMAIN cs /\ Sums(pd) /\ Covers(pd, F)
      BY <1>3, <1>4, <1>8
    <3>7. BanOK(raw, peer, n, SeedBlockedPeerCounters(F[c], ds), IPOf[c])
      BY ONLY <3>1, <3>2, <3>3, <3>4, <3>6, BanOfConn
    <3> QED
      BY <3>1, <3>5, <3>7 DEF BlockTorrentPeer, n, ds
  <2>4. Banned' \subseteq IP
    BY <2>1, <2>2, <2>3
  <2>5. ASSUME NEW ip \in Banned'
        PROVE  \/ ip \in Banned /\ banned'[ip] = banned[ip]
               \/ BanOK(raw, peer, sent[ip], banned'[ip], ip)
    <3>1. CASE ip \in Banned
      BY <1>1, <2>2, <3>1
    <3>2. CASE ip \notin Banned
      <4> DEFINE k == CHOOSE c \in culprits : IPOf[c] = ip
      <4>1. k \in culprits /\ IPOf[k] = ip
        BY <2>2, <3>2
      <4>2. banned'[ip] = BlockTorrentPeer(k)
        BY <1>1, <2>2, <3>2
      <4> HIDE DEF k
      <4> QED
        BY <2>3, <4>1, <4>2
    <3> QED
      BY <3>1, <3>2
  <2> QED
    BY <1>2, <2>4, <2>5, BansKept DEF external
<1>12. ASSUME NEW ip \in IP PROVE Ledger(raw, peer, pd, FreshOf(cs), sent[ip], ip)
  <2> DEFINE n == sent[ip]
             ds == FreshOf(cs)
  <2>1. n \in Nat /\ Ledger(raw, peer, pd, cs, n, ip)
    BY <1>3, <1>6
  <2>2. Quiet(raw, peer, raw, peer)
    BY <1>3 DEF Connected, Quiet
  <2>3. Counters(ds) /\ \A c \in DOMAIN raw : raw[c] # 0 => CounterAt(ds, c) = CounterAt(cs, c)
    BY <1>10 DEF CounterAt
  <2> HIDE DEF n, ds
  <2>4. Ledger(raw, peer, pd, ds, n, ip)
    BY <1>3, <2>1, <2>2, <2>3, LedgerQuiet
  <2> QED
    BY <2>4 DEF n, ds
<1>13. /\ DOMAIN lastConns' = DOMAIN cs /\ lastConns' \in [DOMAIN cs -> Statistics]
       /\ \A c \in DOMAIN cs : /\ ConnOK(lastConns'[c], c, seenPeer[c]) /\ Continues(lastConns'[c], cs[c])
  <2>1. lastConns' = [c \in DOMAIN cs |-> [cs[c] EXCEPT !.age = 0]]
    BY <1>2, <1>5
  <2>2. ASSUME NEW c \in DOMAIN cs
        PROVE  /\ lastConns'[c] \in Statistics /\ ConnOK(lastConns'[c], c, seenPeer[c]) /\ Continues(lastConns'[c], cs[c])
    <3> DEFINE r == cs[c]
    <3>1. r \in Statistics /\ 0 \in Age /\ ConnOK(r, c, seenPeer[c]) /\ lastConns'[c] = [r EXCEPT !.age = 0]
      BY <1>4, <1>7, <2>1, AgeIs
    <3> HIDE DEF r
    <3>2. /\ [r EXCEPT !.age = 0] \in Statistics /\ Continues([r EXCEPT !.age = 0], r)
          /\ ConnOK([r EXCEPT !.age = 0], c, seenPeer[c])
      BY <3>1, OnlyOlder
    <3> QED
      BY <3>1, <3>2 DEF r
  <2> QED
    BY <2>1, <2>2
<1>14. TorrentTypes'
  BY <1>2, <1>3, <1>4, <1>5, <1>13, AgeIs DEF TorrentTypes, TorrentInv
<1>15. Covers(pd, TotalsOf(cs))
  BY <1>4 DEF F
<1>16. TorrentInv'
  BY <1>2, <1>5, <1>7, <1>12, <1>13, <1>14, <1>15 DEF TorrentInv, pd
<1> QED
  BY <1>11, <1>16

LEMMA TorrentCleanKeeps ==
  ASSUME TrafficInv, TorrentInv, CleanTorrentHistory
  PROVE  TrafficInv' /\ TorrentInv'
<1>1. PICK ts \in SUBSET DOMAIN peerUploaded :
        /\ peerUploaded' = Restrict(peerUploaded, ts)
        /\ PruneTorrentPorts(Expired \cup {c \in DOMAIN conns : TorrentOf(c) \notin ts})
        /\ UNCHANGED <<external, banned, sent, torrentAge, seenPeer, checkedPeer>>
  <2> DEFINE ages == [t \in DOMAIN peerUploaded |-> PeerAge(t)]
  <2>1. PICK gone :
          /\ peerUploaded' = Restrict(peerUploaded, DOMAIN Recent(ages) \ gone)
          /\ PruneTorrentPorts(Expired \cup {c \in DOMAIN conns : TorrentOf(c) \notin DOMAIN Recent(ages) \ gone})
          /\ UNCHANGED <<external, banned, sent, torrentAge, seenPeer, checkedPeer>>
    BY DEF CleanTorrentHistory
  <2> DEFINE ts == DOMAIN Recent(ages) \ gone
  <2>2. DOMAIN ages = DOMAIN peerUploaded
    OBVIOUS
  <2> HIDE DEF ages
  <2>3. ts \in SUBSET DOMAIN peerUploaded
    BY <2>2 DEF Recent, Restrict
  <2> HIDE DEF ts
  <2> QED
    BY <2>1, <2>3 DEF ts
<1> DEFINE cs == FreshOf(conns)
           S == {c \in DOMAIN cs : TorrentOf(c) \in ts}
           ds == conns'
           pd == PeersUploadsOf(peerUploaded)
           pd2 == PeersUploadsOf(peerUploaded')
<1>2. /\ swarm' = swarm /\ raw' = raw /\ peer' = peer /\ banned' = banned
      /\ sent' = sent /\ torrentAge' = torrentAge /\ seenPeer' = seenPeer /\ checkedPeer' = checkedPeer
  BY <1>1 DEF external
<1>3. TrafficInv'
  BY <1>2, BansKept DEF TrafficInv, Banned, external
<1>4. /\ Connected(raw, peer) /\ DOMAIN conns \subseteq Conn /\ conns \in [DOMAIN conns -> Statistics]
      /\ DOMAIN conns \subseteq swarm /\ Counters(cs) /\ Sums(pd) /\ \A ip \in IP : sent[ip] \in Nat
      /\ lastConns \in [DOMAIN lastConns -> Statistics] /\ DOMAIN lastConns \subseteq DOMAIN conns
      /\ DOMAIN peerUploaded \subseteq Torrent /\ peerUploaded \in [DOMAIN peerUploaded -> Raw]
  BY TorrentFacts DEF TorrentInv, TorrentTypes
<1>5. /\ DOMAIN cs = DOMAIN conns \ Expired /\ DOMAIN cs \subseteq DOMAIN conns
      /\ \A c \in DOMAIN cs : cs[c] = conns[c]
      /\ DOMAIN cs \subseteq Conn /\ Covers(pd, KnownOf(cs))
  BY FreshFacts
<1>6. S = DOMAIN conns \ (Expired \cup {c \in DOMAIN conns : TorrentOf(c) \notin ts})
  <2> HIDE DEF cs
  <2> QED
    BY <1>5
<1>7. /\ conns' = Restrict(conns, S)
      /\ lastConns' = Restrict(lastConns, DOMAIN lastConns \cap S)
  <2>1. /\ conns' = Restrict(conns, DOMAIN conns \ (Expired \cup {c \in DOMAIN conns : TorrentOf(c) \notin ts}))
        /\ lastConns' = Restrict(lastConns, DOMAIN lastConns \ (Expired \cup {c \in DOMAIN conns : TorrentOf(c) \notin ts}))
    BY <1>1 DEF PruneTorrentPorts
  <2>2. DOMAIN lastConns \ (Expired \cup {c \in DOMAIN conns : TorrentOf(c) \notin ts}) = DOMAIN lastConns \cap S
    <3> HIDE DEF S
    <3> QED
      BY <1>4, <1>6
  <2> HIDE DEF S
  <2> QED
    BY <1>6, <2>1, <2>2
<1>8. S \subseteq DOMAIN FreshOf(conns)
  OBVIOUS
<1>9. /\ \A c \in S : TorrentOf(c) \in ts
      /\ \A c \in DOMAIN cs : TorrentOf(c) \in ts => c \in S
  OBVIOUS
<1> HIDE DEF S
<1>10. /\ S \subseteq DOMAIN conns /\ DOMAIN ds = S /\ ds \in [S -> Statistics]
       /\ \A c \in S : ds[c] = conns[c]
       /\ DOMAIN FreshOf(ds) = S /\ Counters(FreshOf(ds))
       /\ \A c \in S : CounterAt(FreshOf(ds), c) = CounterAt(cs, c)
  BY <1>4, <1>7, <1>8, FewerConns
<1>11. DOMAIN peerUploaded' = ts /\ (\A t \in ts : peerUploaded'[t] = peerUploaded[t]) /\ peerUploaded' \in [ts -> Raw]
  BY <1>1, <1>4 DEF Restrict
<1>12. DOMAIN pd2 = ts /\ ts \subseteq DOMAIN pd /\ \A t \in ts : pd2[t] = pd[t]
  BY <1>11 DEF PeersUploadsOf
<1>13. Sums(pd2)
  BY <1>4, <1>12 DEF Sums
<1>14. Covers(pd, TotalsOf(conns)) /\ \A ip \in IP : Ledger(raw, peer, pd, cs, sent[ip], ip)
  BY DEF TorrentInv
<1>15. S \subseteq DOMAIN cs
  BY <1>8
<1> HIDE DEF cs, ds, pd, pd2
<1>16. Covers(pd2, TotalsOf(ds))
  <2>1. DOMAIN ds \subseteq DOMAIN conns /\ ds \in [DOMAIN ds -> Statistics] /\ \A c \in DOMAIN ds : ds[c] = conns[c]
    BY <1>10
  <2>2. /\ DOMAIN pd2 \subseteq DOMAIN pd /\ (\A t \in DOMAIN pd2 : pd2[t] = pd[t])
        /\ \A c \in DOMAIN ds : TorrentOf(c) \in DOMAIN pd2
    BY <1>9, <1>10, <1>12
  <2> QED
    BY ONLY <1>4, <1>14, <2>1, <2>2, FewerTotals
<1>17. ASSUME NEW ip \in IP PROVE Ledger(raw, peer, pd2, FreshOf(ds), sent[ip], ip)
  <2> DEFINE n == sent[ip]
             es == FreshOf(ds)
  <2>1. n \in Nat /\ Ledger(raw, peer, pd, cs, n, ip)
    BY <1>4, <1>14
  <2>2. Counters(es) /\ DOMAIN es = S /\ \A c \in DOMAIN es : CounterAt(es, c) = CounterAt(cs, c)
    BY <1>10
  <2> HIDE DEF n, es
  <2>3. DOMAIN es \subseteq DOMAIN cs /\ \A c \in DOMAIN cs \ DOMAIN es : TorrentOf(c) \notin DOMAIN pd2
    BY <1>9, <1>12, <1>15, <2>2
  <2>4. DOMAIN pd2 \subseteq DOMAIN pd /\ \A t \in DOMAIN pd2 : pd2[t] = pd[t]
    BY <1>12
  <2>5. Connected(raw, peer) /\ Counters(cs) /\ DOMAIN cs \subseteq Conn /\ Sums(pd) /\ Sums(pd2) /\ Covers(pd, KnownOf(cs))
    BY <1>4, <1>5, <1>13
  <2>6. Ledger(raw, peer, pd2, es, n, ip)
    BY ONLY <2>1, <2>2, <2>3, <2>4, <2>5, LedgerTrim
  <2> QED
    BY <2>6 DEF n, es
<1>18. /\ DOMAIN lastConns' = DOMAIN lastConns \cap S /\ \A c \in DOMAIN lastConns' : lastConns'[c] = lastConns[c]
       /\ lastConns' \in [DOMAIN lastConns' -> Statistics]
  BY <1>4, <1>7 DEF Restrict
<1>19. \A c \in DOMAIN lastConns' : ConnOK(lastConns'[c], c, checkedPeer[c]) /\ Continues(lastConns'[c], ds[c])
  BY <1>10, <1>18 DEF TorrentInv
<1>20. \A c \in DOMAIN ds : ConnOK(ds[c], c, seenPeer[c])
  BY <1>10 DEF TorrentInv
<1>21. TorrentTypes'
  <2>1. DOMAIN conns' \subseteq swarm /\ conns' \in [DOMAIN conns' -> Statistics] /\ DOMAIN lastConns' \subseteq DOMAIN conns'
    BY <1>4, <1>10, <1>18 DEF ds
  <2>2. DOMAIN peerUploaded' \subseteq Torrent /\ peerUploaded' \in [DOMAIN peerUploaded' -> Raw]
    BY <1>1, <1>4, <1>11
  <2> QED
    BY <1>2, <1>18, <2>1, <2>2 DEF TorrentTypes, TorrentInv
<1>22. TorrentInv'
  BY <1>2, <1>16, <1>17, <1>19, <1>20, <1>21 DEF TorrentInv, ds, pd2
<1> QED
  BY <1>3, <1>22

LEMMA TorrentNextKeeps ==
  ASSUME TrafficInv, TorrentInv, TorrentNext
  PROVE  TrafficInv' /\ TorrentInv'
<1>1. ASSUME NEW c \in swarm, NEW up \in Reports(c), NEW id \in Ids(c), NEW progress \in Progress[c],
             TorrentReport(c, up, id, progress)
      PROVE  TrafficInv' /\ TorrentInv'
  <2>1. UNCHANGED <<external, sent>>
    BY <1>1 DEF TorrentReport
  <2>2. CASE UpdateBlockedPeerTraffic(c, up, id) /\ UNCHANGED torrentVars
    <3>1. UNCHANGED <<external, sent, torrentVars>>
      BY <2>1, <2>2
    <3> QED
      BY <2>1, <2>2, <3>1, UpdateKept, TorrentUnchanged
  <2>3. CASE BanByProgress(c, up, id)
    <3>1. UNCHANGED <<external, sent, torrentVars>> /\ AddBlockPeer(c, c, up, id)
      BY <2>1, <2>3 DEF BanByProgress
    <3> QED
      BY <2>1, <3>1, AddKept, TorrentUnchanged
  <2>4. CASE RecordTorrentPeer(c, up, id, progress)
    BY <2>1, <2>4, TorrentRecordKeeps
  <2> QED
    BY <1>1, <2>2, <2>3, <2>4 DEF TorrentReport
<1>2. ASSUME NEW ip \in IP, Unban(ip), UNCHANGED <<external, sent, torrentVars>>
      PROVE  TrafficInv' /\ TorrentInv'
  <2>1. UNCHANGED <<external, sent>>
    BY <1>2
  <2> QED
    BY <1>2, <2>1, UnbanKept, TorrentUnchanged
<1> QED
  BY <1>1, <1>2, TorrentSendKeeps, TorrentReconnectKeeps, TorrentTimeKeeps, TorrentCheckKeeps, TorrentCleanKeeps DEF TorrentNext

LEMMA DeltaKeys ==
  ASSUME NEW b, NEW key, NEW up, NEW id
  PROVE  DOMAIN BlockedPeerCounterDelta(b, key, up, id).counters = DOMAIN b.counters \cup {key}
BY DEF BlockedPeerCounterDelta, With

LEMMA ConnBansKept ==
  ASSUME TrafficInv, TorrentInv, BansOfConns, TorrentNext
  PROVE  BansOfConns'
<1>1. ASSUME banned' = banned
      PROVE  BansOfConns'
  BY <1>1 DEF BansOfConns, Banned
<1>2. ASSUME NEW c \in swarm, NEW up, NEW id, UpdateBlockedPeerTraffic(c, up, id)
      PROVE  BansOfConns'
  <2> DEFINE ip == IPOf[c]
  <2>1. c \in Conn /\ ip \in Banned
    BY <1>2, TrafficFacts DEF UpdateBlockedPeerTraffic
  <2>2. banned' = [banned EXCEPT ![ip] = BlockedPeerCounterDelta(banned[ip], c, up, id)]
    BY <1>2 DEF UpdateBlockedPeerTraffic
  <2>3. DOMAIN banned' = Banned /\ \A k \in Banned \ {ip} : banned'[k] = banned[k]
    BY <2>2 DEF Banned
  <2>4. DOMAIN banned'[ip].counters = DOMAIN banned[ip].counters \cup {c}
    BY <2>1, <2>2, DeltaKeys DEF Banned
  <2> QED
    BY <2>1, <2>3, <2>4 DEF BansOfConns, Banned
<1>3. ASSUME NEW c \in swarm, NEW up, NEW id, AddBlockPeer(c, c, up, id)
      PROVE  BansOfConns'
  <2> DEFINE none == [uploaded |-> 0, counters |-> Empty]
             new == BlockedPeerCounterDelta(none, c, up, id)
  <2>1. c \in Conn
    BY TrafficFacts
  <2>2. DOMAIN new.counters = {c}
    <3>1. DOMAIN new.counters = DOMAIN none.counters \cup {c}
      BY DeltaKeys
    <3>2. DOMAIN none.counters = {}
      BY DEF Empty
    <3> QED
      BY <3>1, <3>2
  <2>3. banned' = With(banned, IPOf[c], new)
    BY <1>3 DEF AddBlockPeer
  <2> HIDE DEF new
  <2>4. \A k \in DOMAIN banned' : banned'[k] = new \/ (k \in Banned /\ banned'[k] = banned[k])
    BY <2>3 DEF With, Banned
  <2> QED
    BY <2>1, <2>2, <2>4 DEF BansOfConns, Banned
<1>4. ASSUME CheckAllTorrent
      PROVE  BansOfConns'
  <2>1. DOMAIN conns \subseteq Conn
    BY TorrentFacts
  <2>2. PICK culprits \in Culprits({c \in DOMAIN conns \ Expired : IPOf[c] \notin Banned /\ TorrentOffender(c)}) :
          banned' = [ip \in Banned \cup {IPOf[c] : c \in culprits} |->
                     IF ip \in Banned THEN banned[ip]
                     ELSE BlockTorrentPeer(CHOOSE c \in culprits : IPOf[c] = ip)]
    BY <1>4 DEF CheckAllTorrent
  <2>3. culprits \subseteq DOMAIN conns
    <3>1. \A S, chosen : chosen \in Culprits(S) => chosen \in SUBSET S
      BY DEF Culprits
    <3> QED
      BY <2>2, <3>1
  <2>4. \A c : DOMAIN BlockTorrentPeer(c).counters = {c}
    BY DEF BlockTorrentPeer, SeedBlockedPeerCounters, Restrict
  <2>5. ASSUME NEW ip \in DOMAIN banned' PROVE DOMAIN banned'[ip].counters \subseteq Conn
    <3>1. CASE ip \in Banned
      BY <2>2, <3>1 DEF BansOfConns
    <3>2. CASE ip \notin Banned
      <4> DEFINE k == CHOOSE c \in culprits : IPOf[c] = ip
      <4>1. k \in culprits
        BY <2>2, <3>2
      <4>2. banned'[ip] = BlockTorrentPeer(k)
        BY <2>2, <3>2
      <4> HIDE DEF k
      <4> QED
        BY <2>1, <2>3, <2>4, <4>1, <4>2
    <3> QED
      BY <3>1, <3>2
  <2> QED
    BY <2>5 DEF BansOfConns, Banned
<1>5. ASSUME NEW ip \in IP, Unban(ip) PROVE BansOfConns'
  BY <1>5 DEF Unban, Restrict, BansOfConns, Banned
<1>6. ASSUME NEW c \in swarm, NEW up, NEW id, NEW progress, TorrentReport(c, up, id, progress)
      PROVE  BansOfConns'
  <2>1. CASE UpdateBlockedPeerTraffic(c, up, id)
    BY <1>2, <2>1
  <2>2. CASE BanByProgress(c, up, id)
    BY <1>3, <2>2 DEF BanByProgress
  <2>3. CASE RecordTorrentPeer(c, up, id, progress)
    BY <1>1, <2>3 DEF RecordTorrentPeer
  <2> QED
    BY <1>6, <2>1, <2>2, <2>3 DEF TorrentReport
<1>7. (\E c \in swarm : Send(c) \/ Reconnect(c)) \/ (\E d \in Pauses : TorrentTimePasses(d)) \/ CleanTorrentHistory
        => banned' = banned
  BY DEF Send, Reconnect, TorrentTimePasses, CleanTorrentHistory
<1> QED
  BY <1>1, <1>4, <1>5, <1>6, <1>7 DEF TorrentNext

-----------------------------------------------------------------------------
(* The invariant of the module.                                            *)

LEMMA StatisticsInvInit == Init => StatisticsInv
<1> SUFFICES ASSUME Init PROVE StatisticsInv
  OBVIOUS
<1>1. TrafficInit /\ IPInit /\ TorrentInit /\ sampling \in {"IP", "torrents"}
  BY DEF Init
<1>2. sent = [ip \in IP |-> 0] /\ raw = [c \in swarm |-> 0] /\ banned = Empty
  BY <1>1 DEF TrafficInit
<1>3. TrafficInv
  BY <1>1, TrafficInvInit
<1>4. IPInv /\ TorrentInv
  BY <1>1, <1>2, <1>3, IPInvInit, TorrentInvInit
<1>5. NoIPs /\ NoTorrents
  BY <1>1 DEF IPInit, TorrentInit, NoIPs, NoTorrents
<1>6. BansOfConns
  BY <1>2 DEF BansOfConns, Banned, Empty
<1> QED
  BY <1>1, <1>3, <1>4, <1>5, <1>6 DEF StatisticsInv

LEMMA StatisticsInvNext == StatisticsInv /\ [Next]_vars => StatisticsInv'
<1> SUFFICES ASSUME StatisticsInv, [Next]_vars PROVE StatisticsInv'
  OBVIOUS
<1>1. TrafficInv
  BY DEF StatisticsInv
<1>2. UNCHANGED torrentVars /\ NoTorrents => NoTorrents'
  BY DEF torrentVars, torrentStatistics, NoTorrents, Never, Far
<1>3. UNCHANGED ipVars /\ NoIPs => NoIPs'
  BY DEF ipVars, ipStatistics, NoIPs, Never, Far
<1>4. CASE sampling = "IP" /\ IPNext /\ UNCHANGED torrentVars /\ UNCHANGED sampling
  <2>1. IPInv /\ NoTorrents
    BY <1>4 DEF StatisticsInv
  <2>2. TrafficInv' /\ IPInv'
    BY <1>1, <1>4, <2>1, IPNextKeeps
  <2> QED
    BY <1>2, <1>4, <2>1, <2>2 DEF StatisticsInv
<1>5. CASE sampling = "torrents" /\ TorrentNext /\ UNCHANGED ipVars /\ UNCHANGED sampling
  <2>1. TorrentInv /\ BansOfConns /\ NoIPs
    BY <1>5 DEF StatisticsInv
  <2>2. TrafficInv' /\ TorrentInv' /\ BansOfConns'
    BY <1>1, <1>5, <2>1, TorrentNextKeeps, ConnBansKept
  <2> QED
    BY <1>3, <1>5, <2>1, <2>2 DEF StatisticsInv
<1>6. CASE UNCHANGED vars
  <2>1. UNCHANGED <<external, sent, ipVars>> /\ UNCHANGED <<external, sent, torrentVars>>
        /\ UNCHANGED <<external, sent>> /\ banned' = banned /\ sampling' = sampling
        /\ UNCHANGED ipVars /\ UNCHANGED torrentVars
    BY <1>6 DEF vars
  <2>2. TrafficInv'
    BY <1>1, <2>1, BansKept DEF TrafficInv, Banned
  <2>3. BansOfConns => BansOfConns'
    BY <2>1 DEF BansOfConns, Banned
  <2> QED
    BY <1>2, <1>3, <2>1, <2>2, <2>3, IPUnchanged, TorrentUnchanged DEF StatisticsInv
<1> QED
  BY <1>4, <1>5, <1>6 DEF Next

(***************************************************************************)
(* Every counter is a number of bytes or unknown, every record is of a     *)
(* connection whose torrent has a total, and no count is below what the    *)
(* last check remembers of it (stats: ip.go, torrent.go, history.go).      *)
(***************************************************************************)
THEOREM StatisticsTypes == Spec => []TypeOK
<1>1. StatisticsInv => TypeOK
  <2> SUFFICES ASSUME StatisticsInv PROVE TypeOK
    OBVIOUS
  <2>1. sampling \in {"IP", "torrents"} /\ TrafficInv
    BY DEF StatisticsInv
  <2>2. TrafficTypeOK
    BY <2>1 DEF TrafficInv, TrafficTypeOK, BanOK, Ident
  <2>3. swarm \subseteq Conn
    BY <2>1, TrafficFacts
  <2>4. IPTypeOK
    <3>1. CASE NoIPs
      BY <3>1 DEF NoIPs, IPTypeOK, Empty
    <3>2. CASE IPInv
      <4>1. /\ DOMAIN counters \subseteq Conn
            /\ \A c \in DOMAIN counters : counters[c] \in Aged
        BY <2>3, <3>2 DEF IPInv, IPTypes
      <4>2. \A c \in DOMAIN counters : /\ [up |-> counters[c].up, id |-> counters[c].id] \in Counter
                                       /\ counters[c].age \in Age
        BY <4>1 DEF Aged, Raw, Ident, Counter
      <4>3. torrents \in [DOMAIN torrents -> [observed : Nat, uploaded : Nat \cup {Unknown}, age : Age]]
        BY <3>2 DEF IPInv, IPTypes, Observed, Raw
      <4> QED
        BY <3>2, <4>1, <4>2, <4>3 DEF IPInv, IPTypes, IPTypeOK
    <3> QED
      BY <3>1, <3>2 DEF StatisticsInv
  <2>5. TorrentTypeOK
    <3>1. CASE NoTorrents
      BY <3>1 DEF NoTorrents, TorrentTypeOK, Empty
    <3>2. CASE TorrentInv
      <4>1. \A c \in DOMAIN conns : TorrentOf(c) \in DOMAIN peerUploaded
        BY <3>2 DEF TorrentInv, Covers, TotalsOf, PeersUploadsOf
      <4> QED
        BY <2>3, <3>2, <4>1 DEF TorrentInv, TorrentTypes, TorrentTypeOK, Raw
    <3> QED
      BY <3>1, <3>2 DEF StatisticsInv
  <2> QED
    BY <2>1, <2>2, <2>4, <2>5 DEF TypeOK
<1> QED
  BY <1>1, StatisticsInvInit, StatisticsInvNext, PTL DEF Spec

(***************************************************************************)
(* CheckAllIP holds against its limit no more than was sent to the IP      *)
(* between the reports of the present window, however connections come and *)
(* go (stats/ip.go, AddIPInfo and IPUploadedDelta).                        *)
(***************************************************************************)
THEOREM WindowIsSent == Spec => []WindowCountsSentOnly
<1>1. StatisticsInv => WindowCountsSentOnly
  <2> SUFFICES ASSUME StatisticsInv, NEW ip \in DOMAIN ipAge PROVE IPUploadedDelta(ip) <= window[ip]
    BY DEF WindowCountsSentOnly
  <2>1. IPInv
    BY DEF StatisticsInv, NoIPs, Empty
  <2>2. ip \in IP
    BY <2>1 DEF IPInv, IPTypes
  <2>3. IPUploadedDelta(ip) = Total(GrownBy(torrents, lastObserved, ip))
    BY DEF IPUploadedDelta, GrownBy, TorrentsOf
  <2> QED
    BY <2>1, <2>2, <2>3 DEF IPInv
<1> QED
  BY <1>1, StatisticsInvInit, StatisticsInvNext, PTL DEF Spec

\* What is counted of a banned IP.
LEMMA BansCounted ==
  ASSUME TrafficInv, NEW ip \in Banned
  PROVE  /\ banned[ip].uploaded <= sent[ip] + Known(Restrict(banned[ip].counters, DOMAIN banned[ip].counters \cap Torrent))
         /\ Known(banned[ip].counters) <= banned[ip].uploaded
<1> DEFINE b == banned[ip]
           n == sent[ip]
           o == Owed(Pendings(raw, peer, b.counters), ip)
           p == Portless(b)
<1>1. Connected(raw, peer)
  BY TrafficFacts
<1>2. BanOK(raw, peer, n, b, ip) /\ n \in Nat
  BY DEF TrafficInv
<1> HIDE DEF n, b
<1>3. b.uploaded \in Nat /\ o \in Nat /\ p \in Nat
  BY <1>1, <1>2, BanTypes
<1>4. o + b.uploaded <= n + p /\ Known(b.counters) <= b.uploaded
  BY <1>2 DEF BanOK
<1> HIDE DEF o, p
<1>5. b.uploaded <= n + p
  BY <1>2, <1>3, <1>4
<1> QED
  BY <1>4, <1>5 DEF n, b, p, Portless

LEMMA IPCountsOnce ==
  ASSUME TrafficInv, IPInv
  PROVE  IPCountedOnce /\ BaselinesCounted
<1> DEFINE pd == UploadsOf(torrents)
           f == KnownOf(counters)
<1>1. /\ Connected(raw, peer) /\ DOMAIN counters \subseteq Conn /\ Counters(counters)
      /\ Counters(FreshOf(counters)) /\ Sums(pd) /\ \A ip \in IP : sent[ip] \in Nat
  BY IPFacts, TrafficFacts
<1>2. DOMAIN pd = DOMAIN torrents /\ \A t \in DOMAIN torrents : pd[t] = Positive(torrents[t].uploaded)
  BY DEF UploadsOf
<1>3. DOMAIN f = DOMAIN counters /\ \A c \in DOMAIN counters : f[c] = Positive(counters[c].up)
  BY DEF KnownOf
<1>4. Covers(pd, f) /\ \A ip \in IP : Ledger(raw, peer, pd, FreshOf(counters), sent[ip], ip)
  BY DEF IPInv
<1>5. DOMAIN ipAge \subseteq IP
  BY DEF IPInv, IPTypes
<1> HIDE DEF pd, f
<1>6. ASSUME NEW ip \in DOMAIN ipAge PROVE UploadedBy(ip) <= sent[ip]
  <2>1. [t \in TorrentsOf(ip) |-> Positive(torrents[t].uploaded)] = PaidOf(pd, ip)
    BY <1>2 DEF TorrentsOf, PaidOf
  <2>2. UploadedBy(ip) = Paid(pd, ip)
    BY <2>1 DEF UploadedBy, Paid
  <2> DEFINE o == Owed(Pendings(raw, peer, FreshOf(counters)), ip)
             p == Paid(pd, ip)
             n == sent[ip]
  <2>3. o \in Nat /\ p \in Nat
    BY <1>1, LedgerTypes
  <2>4. p + o <= n /\ n \in Nat
    BY <1>1, <1>4, <1>5 DEF Ledger
  <2> HIDE DEF o, p, n
  <2>5. p <= n
    BY <2>3, <2>4
  <2> QED
    BY <2>2, <2>5 DEF p, n
<1>7. ASSUME NEW t \in {TorrentOf(c) : c \in DOMAIN counters}
      PROVE  /\ t \in DOMAIN torrents
             /\ Known(Restrict(counters, {c \in DOMAIN counters : TorrentOf(c) = t})) <= Positive(torrents[t].uploaded)
  <2>1. t \in DOMAIN pd
    BY <1>3, <1>4 DEF Covers
  <2> DEFINE r == Restrict(counters, {c \in DOMAIN counters : TorrentOf(c) = t})
  <2>2. DOMAIN r = {c \in DOMAIN counters : TorrentOf(c) = t} /\ \A c \in DOMAIN r : r[c] = counters[c]
    BY DEF Restrict
  <2> HIDE DEF r
  <2>3. [k \in DOMAIN r |-> Positive(r[k].up)] = At(f, t)
    BY <1>3, <2>2 DEF At
  <2>4. Known(r) = Total(At(f, t))
    BY <2>3 DEF Known
  <2> QED
    BY <1>2, <1>4, <2>1, <2>4 DEF Covers, r
<1> QED
  BY <1>6, <1>7, BansCounted DEF IPCountedOnce, BaselinesCounted

LEMMA TorrentsCountOnce ==
  ASSUME TrafficInv, TorrentInv, BansOfConns
  PROVE  TorrentsCountedOnce /\ OffsetsWithinTotals
<1> DEFINE pd == PeersUploadsOf(peerUploaded)
           f == TotalsOf(conns)
<1>1. /\ Connected(raw, peer) /\ DOMAIN conns \subseteq Conn /\ conns \in [DOMAIN conns -> Statistics]
      /\ Counters(FreshOf(conns)) /\ Sums(pd) /\ \A ip \in IP : sent[ip] \in Nat
  BY TorrentFacts
<1>2. DOMAIN pd = DOMAIN peerUploaded /\ \A t \in DOMAIN peerUploaded : pd[t] = Positive(peerUploaded[t])
  BY DEF PeersUploadsOf
<1>3. DOMAIN f = DOMAIN conns /\ \A c \in DOMAIN conns : f[c] = Positive(conns[c].total)
  BY DEF TotalsOf
<1>4. Covers(pd, f) /\ \A ip \in IP : Ledger(raw, peer, pd, FreshOf(conns), sent[ip], ip)
  BY DEF TorrentInv
<1> HIDE DEF pd, f
<1>5. ASSUME NEW ip \in IP
      PROVE  Total([t \in {u \in DOMAIN peerUploaded : u[1] = ip} |-> Positive(peerUploaded[t])]) <= sent[ip]
  <2>1. [t \in {u \in DOMAIN peerUploaded : u[1] = ip} |-> Positive(peerUploaded[t])] = PaidOf(pd, ip)
    BY <1>2 DEF PaidOf
  <2> DEFINE o == Owed(Pendings(raw, peer, FreshOf(conns)), ip)
             p == Paid(pd, ip)
             n == sent[ip]
  <2>2. o \in Nat /\ p \in Nat
    BY <1>1, LedgerTypes
  <2>3. p + o <= n /\ n \in Nat
    BY <1>1, <1>4 DEF Ledger
  <2> HIDE DEF o, p, n
  <2>4. p <= n
    BY <2>2, <2>3
  <2> QED
    BY <2>1, <2>4 DEF p, n, Paid
<1>6. ASSUME NEW t \in DOMAIN peerUploaded
      PROVE  Total([c \in {k \in DOMAIN conns : TorrentOf(k) = t} |-> Positive(conns[c].total)]) <= Positive(peerUploaded[t])
  <2>1. [c \in {k \in DOMAIN conns : TorrentOf(k) = t} |-> Positive(conns[c].total)] = At(f, t)
    BY <1>3 DEF At
  <2>2. Total(At(f, t)) <= pd[t]
    BY <1>2, <1>4 DEF Covers
  <2> QED
    BY <1>2, <2>1, <2>2
<1>7. ASSUME NEW ip \in Banned PROVE banned[ip].uploaded <= sent[ip]
  <2> DEFINE b == banned[ip]
             n == sent[ip]
             o == Owed(Pendings(raw, peer, b.counters), ip)
  <2>1. BanOK(raw, peer, n, b, ip) /\ n \in Nat /\ DOMAIN b.counters \subseteq Conn
    BY <1>1 DEF TrafficInv, BansOfConns
  <2> HIDE DEF n, b
  <2>2. b.uploaded \in Nat /\ o \in Nat
    BY <1>1, <2>1, BanTypes
  <2>3. Portless(b) = 0
    <3> DEFINE r == Restrict(b.counters, DOMAIN b.counters \cap Torrent)
    <3>1. DOMAIN r = {}
      BY <2>1, EndpointsAssumption DEF Restrict
    <3> HIDE DEF r
    <3>2. Known(r) = 0
      BY <3>1, KnownOfNothing
    <3> QED
      BY <3>2 DEF Portless, r
  <2>4. o + b.uploaded <= n + 0
    BY <2>1, <2>3 DEF BanOK
  <2> HIDE DEF o
  <2>5. b.uploaded <= n
    BY <2>1, <2>2, <2>4
  <2> QED
    BY <2>5 DEF n, b
<1>8. \A ban \in SubmitBans : ban.uploaded <= sent[ban.ip]
  BY <1>7 DEF SubmitBans
<1>9. ASSUME NEW c \in DOMAIN conns PROVE Positive(conns[c].raw) <= Positive(conns[c].total)
  <2>1. ConnOK(conns[c], c, seenPeer[c])
    BY DEF TorrentInv
  <2>2. Positive(conns[c].total) \in Nat
    BY <1>1, ConnsFacts
  <2> DEFINE r == conns[c].raw
             u == conns[c].up
  <2>3. r \in {u, Unknown} /\ Positive(u) <= Positive(conns[c].total)
    BY <2>1 DEF ConnOK
  <2> HIDE DEF r, u
  <2>4. Positive(Unknown) = 0
    BY DEF Positive, Unknown
  <2>5. Positive(r) <= Positive(conns[c].total)
    BY <2>2, <2>3, <2>4
  <2> QED
    BY <2>5 DEF r
<1>10. OffsetsWithinTotals
  BY <1>9 DEF OffsetsWithinTotals, SubmitPeers, SubmitHistories, TorrentSnapshot
<1>11. TorrentsCountedOnce
  BY <1>5, <1>6, <1>8 DEF TorrentsCountedOnce
<1> QED
  BY <1>10, <1>11

LEMMA NothingToCount ==
  /\ TrafficInv /\ NoIPs => IPCountedOnce /\ BaselinesCounted
  /\ TrafficInv /\ NoTorrents => TorrentsCountedOnce /\ OffsetsWithinTotals
<1>1. ASSUME TrafficInv, NoIPs PROVE IPCountedOnce /\ BaselinesCounted
  <2>1. DOMAIN ipAge = {} /\ DOMAIN counters = {}
    BY <1>1 DEF NoIPs, Empty
  <2> QED
    BY <1>1, <2>1, BansCounted DEF IPCountedOnce, BaselinesCounted
<1>2. ASSUME TrafficInv, NoTorrents PROVE TorrentsCountedOnce /\ OffsetsWithinTotals
  <2>1. DOMAIN conns = {} /\ DOMAIN peerUploaded = {}
    BY <1>2 DEF NoTorrents, Empty
  <2>2. ASSUME NEW ip \in IP
        PROVE  Total([t \in {u \in DOMAIN peerUploaded : u[1] = ip} |-> Positive(peerUploaded[t])]) <= sent[ip]
    <3> DEFINE f == [t \in {u \in DOMAIN peerUploaded : u[1] = ip} |-> Positive(peerUploaded[t])]
    <3>1. DOMAIN f = {}
      BY <2>1
    <3> HIDE DEF f
    <3>2. Total(f) = 0 /\ sent[ip] \in Nat
      BY <1>2, <3>1, TotalOfNothing, TrafficFacts
    <3> QED
      BY <3>2 DEF f
  <2> QED
    BY <2>1, <2>2 DEF TorrentsCountedOnce, OffsetsWithinTotals, SubmitPeers, TorrentSnapshot
<1> QED
  BY <1>1, <1>2

(***************************************************************************)
(* No byte is counted twice and none is lost, whichever statistics run:    *)
(* totals of IPs, torrents, connections and bans, and what BTN is told of  *)
(* them (AccumulateCounter, SeedBlockedPeerCounters and their callers).    *)
(***************************************************************************)
THEOREM NothingCountedTwice == Spec => []CountedOnce
<1>1. StatisticsInv => CountedOnce
  BY IPCountsOnce, TorrentsCountOnce, NothingToCount DEF StatisticsInv, CountedOnce
<1> QED
  BY <1>1, StatisticsInvInit, StatisticsInvNext, PTL DEF Spec

(***************************************************************************)
(* The last check's snapshot remembers only what is still recorded, and of *)
(* it no more; within a session the reports only grow (AddTorrentInfo,     *)
(* PruneTorrentPorts, CleanHistory).                                       *)
(***************************************************************************)
THEOREM SnapshotIsEarlier == Spec => []SnapshotFollows
<1>1. StatisticsInv => SnapshotFollows
  <2> SUFFICES ASSUME StatisticsInv PROVE SnapshotFollows
    OBVIOUS
  <2>1. CASE NoTorrents
    BY <2>1 DEF NoTorrents, Empty, SnapshotFollows
  <2>2. CASE TorrentInv
    <3>1. DOMAIN lastConns \subseteq DOMAIN conns
      BY <2>2 DEF TorrentInv, TorrentTypes
    <3>2. ASSUME NEW c \in DOMAIN lastConns
          PROVE  /\ lastConns[c].session <= conns[c].session
                 /\ Positive(lastConns[c].total) <= Positive(conns[c].total)
                 /\ Comparable(c) => lastConns[c].raw <= conns[c].raw
      <4>1. /\ ConnOK(lastConns[c], c, checkedPeer[c]) /\ ConnOK(conns[c], c, seenPeer[c])
            /\ Continues(lastConns[c], conns[c])
        BY <2>2, <3>1 DEF TorrentInv
      <4>2. ASSUME Comparable(c) PROVE lastConns[c].raw <= conns[c].raw
        <5>1. lastConns[c].raw = lastConns[c].up /\ conns[c].raw = conns[c].up
          BY <4>1, <4>2 DEF Comparable, ConnOK, Unknown
        <5> QED
          BY <4>1, <4>2, <5>1 DEF Comparable, Continues
      <4> QED
        BY <4>1, <4>2 DEF Continues
    <3> QED
      BY <3>1, <3>2 DEF SnapshotFollows
  <2> QED
    BY <2>1, <2>2 DEF StatisticsInv
<1> QED
  BY <1>1, StatisticsInvInit, StatisticsInvNext, PTL DEF Spec

(***************************************************************************)
(* The growth that the relative check measures was sent to one peer,       *)
(* whoever else used the endpoint (AddTorrentInfo, CheckAllTorrent).       *)
(***************************************************************************)
THEOREM ComparesOnePeer == Spec => []OnePeerCompared
<1>1. StatisticsInv => OnePeerCompared
  <2> SUFFICES ASSUME StatisticsInv, NEW c \in DOMAIN conns,
                      Comparable(c), conns[c].raw > lastConns[c].raw, lastConns[c].raw > 0
               PROVE  checkedPeer[c] = seenPeer[c]
    BY DEF OnePeerCompared
  <2>1. TorrentInv /\ TrafficInv
    BY DEF StatisticsInv, NoTorrents, Empty
  <2>2. /\ ConnOK(lastConns[c], c, checkedPeer[c]) /\ ConnOK(conns[c], c, seenPeer[c])
        /\ Continues(lastConns[c], conns[c]) /\ c \in Conn
        /\ conns[c].session = lastConns[c].session
    BY <2>1, TorrentFacts DEF TorrentInv, Comparable
  <2>3. conns[c].raw > 0
    <3>1. conns[c] \in Statistics /\ lastConns[c] \in Statistics
      BY <2>2 DEF ConnOK
    <3>2. conns[c].raw \in Raw /\ lastConns[c].raw \in Raw
      BY <3>1 DEF Statistics, Raw
    <3> QED
      BY <3>2 DEF Raw, Unknown
  <2>4. lastConns[c].id = checkedPeer[c] /\ conns[c].id = seenPeer[c]
        /\ checkedPeer[c] \in PeersAt[c] /\ seenPeer[c] \in PeersAt[c]
    BY <2>2, <2>3 DEF ConnOK
  <2>5. CASE lastConns[c].id = NoId
    <3>1. PeersAt[c] = {NoId}
      BY <2>2, <2>4, <2>5, EndpointsAssumption
    <3> QED
      BY <2>4, <3>1
  <2>6. CASE lastConns[c].id # NoId
    BY <2>2, <2>4, <2>6 DEF Continues
  <2> QED
    BY <2>5, <2>6
<1> QED
  BY <1>1, StatisticsInvInit, StatisticsInvNext, PTL DEF Spec
=============================================================================
