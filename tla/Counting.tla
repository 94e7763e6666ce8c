------------------------------ MODULE Counting ------------------------------
(***************************************************************************)
(* What the proofs about tables and plans need to know of numbers, of sums *)
(* over finite sets, of listings: sequences that have each element of a    *)
(* set once, such as the matches of a join, and of FoldLeft.               *)
(*                                                                         *)
(* The induction theorems of the library take a predicate as a parameter;  *)
(* here the predicate is the set of what has it, which the provers can     *)
(* instantiate.  A sum is the fold that Functions defines it by, and       *)
(* FlattenSeq the recursive function that SequencesExt defines it by.      *)
(* FoldLeft's operator is a constant here, for an instance of this module  *)
(* to say which one it is.                                                 *)
(***************************************************************************)
EXTENDS SequencesExt, SequenceTheorems, FiniteSetTheorems, NaturalsInduction, TLAPS

CONSTANT Op(_, _)  \* what FoldLeft folds with: a parameter of the lemmas about it

-----------------------------------------------------------------------------
(* Numbers *)

\* Division with remainder.
LEMMA Division ==
  ASSUME NEW n \in Nat, NEW d \in Nat \ {0}
  PROVE  /\ n \div d \in Nat
         /\ n % d \in 0 .. d - 1
         /\ n = d * (n \div d) + (n % d)
OBVIOUS

\* A multiple, and its factor.
LEMMA Multiple ==
  ASSUME NEW n \in Nat, NEW d \in Nat \ {0}, n % d = 0
  PROVE  n \div d \in Nat /\ n = d * (n \div d)
<1> DEFINE q == n \div d
<1>1. q \in Nat /\ n = d * q + 0
  BY Division
<1> HIDE DEF q
<1>2. d * q \in Nat
  BY <1>1
<1>3. n = d * q
  BY <1>1, <1>2
<1> QED
  BY <1>1, <1>3 DEF q

\* A number lies between the multiples its quotient names.
LEMMA Enclosed ==
  ASSUME NEW n \in Nat, NEW d \in Nat \ {0}, NEW q \in Nat, n \div d = q
  PROVE  q * d <= n /\ n < (q + 1) * d
<1> DEFINE r == n % d
<1>1. r \in 0 .. d - 1 /\ n = d * q + r
  BY Division
<1> HIDE DEF r
<1>2. (q + 1) * d = d * q + d /\ q * d = d * q /\ d * q \in Nat
  OBVIOUS
<1> QED
  BY <1>1, <1>2

\* A quotient lies between the multiples that enclose the dividend.
LEMMA QuotientBetween ==
  ASSUME NEW n \in Nat, NEW d \in Nat \ {0}, NEW a \in Nat, NEW b \in Nat,
         a * d <= n, n < b * d
  PROVE  a <= n \div d /\ n \div d < b
<1> DEFINE q == n \div d
<1>1. q \in Nat /\ q * d <= n /\ n < (q + 1) * d
  BY Division
<1> HIDE DEF q
<1>2. ASSUME NEW x \in Nat, NEW y \in Nat, x <= y
      PROVE  x * d <= y * d
  <2>1. PICK z \in Nat : y = x + z
    <3>1. y - x \in Nat /\ y = x + (y - x)
      BY <1>2
    <3> QED
      BY <3>1
  <2>2. (x + z) * d = x * d + z * d /\ z * d \in Nat /\ x * d \in Nat
    OBVIOUS
  <2> QED
    BY <2>1, <2>2
<1>3. a <= q
  <2>1. CASE q + 1 <= a
    <3>1. (q + 1) * d <= a * d
      BY <1>1, <1>2, <2>1
    <3>2. (q + 1) * d \in Nat /\ a * d \in Nat
      BY <1>1
    <3> QED
      BY <1>1, <3>1, <3>2
  <2> QED
    BY <1>1, <2>1
<1>4. q < b
  <2>1. CASE b <= q
    <3>1. b * d <= q * d
      BY <1>1, <1>2, <2>1
    <3>2. b * d \in Nat /\ q * d \in Nat
      BY <1>1
    <3> QED
      BY <1>1, <3>1, <3>2
  <2> QED
    BY <1>1, <2>1
<1> QED
  BY <1>3, <1>4 DEF q

\* A multiple is divided exactly.
LEMMA ExactQuotient ==
  ASSUME NEW n \in Nat, NEW d \in Nat \ {0}
  PROVE  (n * d) \div d = n
<1>1. n * d \in Nat /\ n * d < (n + 1) * d
  OBVIOUS
<1>2. n <= (n * d) \div d /\ (n * d) \div d < n + 1
  BY <1>1, QuotientBetween
<1>3. (n * d) \div d \in Nat
  BY <1>1, Division
<1> QED
  BY <1>2, <1>3

\* Multiples in order.
LEMMA Monotone ==
  ASSUME NEW x \in Nat, NEW y \in Nat, NEW d \in Nat, x <= y
  PROVE  x * d <= y * d /\ x * d \in Nat /\ y * d \in Nat
<1>1. PICK z \in Nat : y = x + z
  <2>1. y - x \in Nat /\ y = x + (y - x)
    OBVIOUS
  <2> QED
    BY <2>1
<1>2. (x + z) * d = x * d + z * d /\ z * d \in Nat /\ x * d \in Nat
  OBVIOUS
<1> QED
  BY <1>1, <1>2

\* The smaller of two numbers.
LEMMA TwoMin ==
  ASSUME NEW a \in Int, NEW b \in Int
  PROVE  Min({a, b}) = IF a <= b THEN a ELSE b
<1>1. CASE a <= b
  <2>1. \A x \in {a, b} : (\A y \in {a, b} : x <= y) <=> x = a
    BY <1>1
  <2> QED
    BY <1>1, <2>1 DEF Min
<1>2. CASE ~(a <= b)
  <2>1. \A x \in {a, b} : (\A y \in {a, b} : x <= y) <=> x = b
    BY <1>2
  <2> QED
    BY <1>2, <2>1 DEF Min
<1> QED
  BY <1>1, <1>2

\* ... is one of them, and no larger than either.
LEMMA LeastOfTwo ==
  ASSUME NEW a \in Int, NEW b \in Int
  PROVE  Min({a, b}) \in {a, b} /\ Min({a, b}) <= a /\ Min({a, b}) <= b
BY TwoMin

-----------------------------------------------------------------------------
(* Induction *)

\* The order of the numbers is well founded, ...
LEMMA NumbersWellFounded == IsWellFoundedOn({ss \in Nat \X Nat : ss[1] < ss[2]}, Nat)
BY NatLessThanWellFounded DEF OpToRel

\* ... a set of them has a least element, ...
LEMMA LeastNumber ==
  ASSUME NEW T \in SUBSET Nat, T # {}
  PROVE  \E x \in T : \A y \in T : x <= y
<1> DEFINE R == {ss \in Nat \X Nat : ss[1] < ss[2]}
<1>1. IsWellFoundedOn(R, Nat)
  BY NumbersWellFounded
<1>2. \E x \in T : \A y \in T : ~(<<y, x>> \in R)
  <2> HIDE DEF R
  <2>1. T \subseteq Nat
    OBVIOUS
  <2> QED
    BY <1>1, <2>1, WFMin, Zenon
<1>3. PICK x \in T : \A y \in T : ~(<<y, x>> \in R)
  BY <1>2
<1>4. \A y \in T : ~(y < x) /\ y \in Nat /\ x \in Nat
  BY <1>3
<1> QED
  BY <1>4

\* ... and a set that holds zero and every successor holds them all.
LEMMA NumberInduction ==
  ASSUME NEW S, 0 \in S, \A n \in Nat : n \in S => n + 1 \in S
  PROVE  Nat \subseteq S
<1> DEFINE T == Nat \ S
<1> SUFFICES ASSUME T # {}
             PROVE  FALSE
  OBVIOUS
<1>1. PICK x \in T : \A y \in T : x <= y
  BY LeastNumber
<1>2. x # 0 /\ x - 1 \in Nat /\ x - 1 \notin T
  BY <1>1
<1>3. x - 1 \in S
  BY <1>2
<1> QED
  BY <1>1, <1>2, <1>3

-----------------------------------------------------------------------------
(* The fold *)

\* A step of the fold: the value of a set from those of its subsets.
FoldStep(c, g, s) ==
  IF s = {} THEN 0 ELSE c[CHOOSE x \in s : TRUE] + g[s \ {CHOOSE x \in s : TRUE}]

\* Folds(c, g, S): g is a function that the fold of c over S may be.
Folds(c, g, S) == g = [s \in SUBSET S |-> FoldStep(c, g, s)]

\* A sum is what every such function makes of its set.
LEMMA SumIsFold ==
  ASSUME NEW c, NEW S
  PROVE  SumFunctionOnSet(c, S) = (CHOOSE g : Folds(c, g, S))[S]
BY DEF SumFunctionOnSet, FoldFunctionOnSet, MapThenFoldSet, Folds, FoldStep
\* The value of a set of at most n elements does not depend on the step.
FoldsUpTo(c, g, S, n) ==
  \A s \in SUBSET S : Cardinality(s) <= n => g[s] = FoldStep(c, g, s)

\* The fold of a finite set exists.
LEMMA FoldExists ==
  ASSUME NEW c, NEW S, IsFiniteSet(S)
  PROVE  \E g : Folds(c, g, S)
<1> DEFINE N == {n \in Nat : \E g : DOMAIN g = SUBSET S /\ FoldsUpTo(c, g, S, n)}
           After(g) == [s \in SUBSET S |-> FoldStep(c, g, s)]
<1>1. ASSUME NEW s \in SUBSET S
      PROVE  /\ Cardinality(s) \in Nat
             /\ Cardinality(s) <= Cardinality(S)
             /\ s # {} => /\ s \ {CHOOSE x \in s : TRUE} \in SUBSET S
                          /\ Cardinality(s \ {CHOOSE x \in s : TRUE}) = Cardinality(s) - 1
             /\ s = {} => Cardinality(s) = 0
  <2>1. IsFiniteSet(s) /\ Cardinality(s) <= Cardinality(S) /\ Cardinality(s) \in Nat
    BY FS_Subset, FS_CardinalityType
  <2> DEFINE x == CHOOSE x \in s : TRUE
  <2>2. s # {} => x \in s
    OBVIOUS
  <2> HIDE DEF x
  <2>3. Cardinality(s \ {x}) = IF x \in s THEN Cardinality(s) - 1 ELSE Cardinality(s)
    BY <2>1, FS_RemoveElement
  <2>4. s # {} => s \ {x} \in SUBSET S /\ Cardinality(s \ {x}) = Cardinality(s) - 1
    BY <2>2, <2>3
  <2> QED
    BY <2>1, <2>4, FS_EmptySet DEF x
<1>2. 0 \in N
  <2> DEFINE g == [s \in SUBSET S |-> 0]
  <2>1. DOMAIN g = SUBSET S
    OBVIOUS
  <2>2. FoldsUpTo(c, g, S, 0)
    <3> SUFFICES ASSUME NEW s \in SUBSET S, Cardinality(s) <= 0
                 PROVE  g[s] = FoldStep(c, g, s)
      BY DEF FoldsUpTo
    <3>1. s = {}
      <4>1. IsFiniteSet(s)
        BY FS_Subset
      <4>2. Cardinality(s) \in Nat
        BY <4>1, FS_CardinalityType
      <4> QED
        BY <4>1, <4>2, FS_EmptySet
    <3> QED
      BY <3>1 DEF FoldStep
  <2> HIDE DEF g
  <2> QED
    BY <2>1, <2>2
<1>3. ASSUME NEW n \in Nat, n \in N
      PROVE  n + 1 \in N
  <2>1. PICK g : DOMAIN g = SUBSET S /\ FoldsUpTo(c, g, S, n)
    BY <1>3
  <2>2. ASSUME NEW s \in SUBSET S, Cardinality(s) <= n + 1
        PROVE  After(g)[s] = FoldStep(c, After(g), s)
    <3>1. After(g)[s] = FoldStep(c, g, s)
      OBVIOUS
    <3>2. CASE s = {}
      BY <3>1, <3>2 DEF FoldStep
    <3>3. CASE s # {}
      <4> DEFINE x == CHOOSE x \in s : TRUE
                 u == s \ {x}
      <4>1. u \in SUBSET S /\ Cardinality(u) = Cardinality(s) - 1 /\ Cardinality(s) \in Nat
        BY <1>1, <3>3
      <4>2. Cardinality(u) <= n
        BY <2>2, <4>1
      <4>3. FoldStep(c, g, s) = c[x] + g[u] /\ FoldStep(c, After(g), s) = c[x] + After(g)[u]
        BY <3>3 DEF FoldStep
      <4> HIDE DEF u
      <4>4. g[u] = FoldStep(c, g, u)
        BY <2>1, <4>1, <4>2 DEF FoldsUpTo
      <4>5. After(g)[u] = FoldStep(c, g, u)
        BY <4>1
      <4> HIDE DEF x, After
      <4> QED
        BY <3>1, <4>3, <4>4, <4>5
    <3> QED
      BY <3>2, <3>3
  <2>3. DOMAIN After(g) = SUBSET S
    OBVIOUS
  <2>4. FoldsUpTo(c, After(g), S, n + 1)
    BY <2>2 DEF FoldsUpTo
  <2> HIDE DEF After
  <2> QED
    BY <2>3, <2>4
<1> HIDE DEF N
<1>4. Nat \subseteq N
  BY <1>2, <1>3, NumberInduction
<1>5. PICK g : DOMAIN g = SUBSET S /\ FoldsUpTo(c, g, S, Cardinality(S))
  <2>1. Cardinality(S) \in N
    BY <1>4, FS_CardinalityType
  <2> QED
    BY <2>1 DEF N
<1>6. \A s \in SUBSET S : After(g)[s] = FoldStep(c, g, s) /\ g[s] = FoldStep(c, g, s)
  BY <1>1, <1>5 DEF FoldsUpTo
<1>7. \A s \in SUBSET S : FoldStep(c, After(g), s) = FoldStep(c, g, s)
  <2> TAKE s \in SUBSET S
  <2>1. CASE s = {}
    BY <2>1 DEF FoldStep
  <2>2. CASE s # {}
    <3> DEFINE u == s \ {CHOOSE x \in s : TRUE}
    <3>1. u \in SUBSET S
      BY <1>1, <2>2
    <3> HIDE DEF u
    <3>2. After(g)[u] = g[u]
      BY <1>6, <3>1
    <3> HIDE DEF After
    <3> QED
      BY <2>2, <3>2 DEF FoldStep, u
  <2> QED
    BY <2>1, <2>2
<1>8. After(g) = [s \in SUBSET S |-> FoldStep(c, After(g), s)]
  BY <1>7
<1> HIDE DEF After
<1> QED
  BY <1>8 DEF Folds

-----------------------------------------------------------------------------
(* Sums of numbers of elements                                             *)

\* The parts are disjoint, and c says how many elements they have.
Measured(c, parts, S) ==
  /\ IsFiniteSet(S)
  /\ \A x \in S : IsFiniteSet(parts[x]) /\ c[x] = Cardinality(parts[x])
  /\ \A x, y \in S : x # y => parts[x] \cap parts[y] = {}

AllParts(parts, S) == UNION {parts[x] : x \in S}

\* Adding up the sizes of disjoint sets gives the size of their union, ...
LEMMA SumOfParts ==
  ASSUME NEW S, NEW c, NEW parts, Measured(c, parts, S)
  PROVE  /\ IsFiniteSet(AllParts(parts, S))
         /\ SumFunctionOnSet(c, S) = Cardinality(AllParts(parts, S))
<1> USE DEF Measured
<1> DEFINE g == CHOOSE g : Folds(c, g, S)
           All(s) == UNION {parts[x] : x \in s}
           N == {n \in Nat : \A s \in SUBSET S :
                   Cardinality(s) = n => IsFiniteSet(All(s)) /\ g[s] = Cardinality(All(s))}
<1>1. \A s \in SUBSET S : g[s] = FoldStep(c, g, s)
  <2>1. Folds(c, g, S)
    BY FoldExists
  <2> HIDE DEF g
  <2> QED
    BY <2>1 DEF Folds
<1> HIDE DEF g
<1>2. 0 \in N
  <2> SUFFICES ASSUME NEW s \in SUBSET S, Cardinality(s) = 0
               PROVE  IsFiniteSet(All(s)) /\ g[s] = Cardinality(All(s))
    OBVIOUS
  <2>1. s = {}
    <3>1. IsFiniteSet(s)
      BY FS_Subset
    <3> QED
      BY <3>1, FS_EmptySet
  <2>2. All(s) = {} /\ g[s] = 0
    BY <1>1, <2>1 DEF FoldStep
  <2> HIDE DEF All
  <2> QED
    BY <2>2, FS_EmptySet
<1>3. ASSUME NEW n \in Nat, n \in N
      PROVE  n + 1 \in N
  <2> SUFFICES ASSUME NEW s \in SUBSET S, Cardinality(s) = n + 1
               PROVE  IsFiniteSet(All(s)) /\ g[s] = Cardinality(All(s))
    OBVIOUS
  <2> DEFINE x == CHOOSE x \in s : TRUE
             u == s \ {x}
  <2>1. IsFiniteSet(s)
    BY FS_Subset
  <2>2. s # {}
    BY <2>1, FS_EmptySet
  <2>3. x \in s
    BY <2>2
  <2>4. g[s] = c[x] + g[u]
    BY <1>1, <2>2 DEF FoldStep
  <2> HIDE DEF x
  <2>5. u \in SUBSET S /\ Cardinality(u) = n
    <3>1. Cardinality(u) = IF x \in s THEN Cardinality(s) - 1 ELSE Cardinality(s)
      BY <2>1, FS_RemoveElement
    <3> QED
      BY <2>3, <3>1
  <2>6. IsFiniteSet(All(u)) /\ g[u] = Cardinality(All(u))
    <3> HIDE DEF u, All
    <3> QED
      BY <1>3, <2>5
  <2>7. IsFiniteSet(parts[x]) /\ c[x] = Cardinality(parts[x])
    BY <2>3
  <2>8. All(s) = parts[x] \cup All(u)
    <3>1. s = u \cup {x}
      BY <2>3
    <3> HIDE DEF u
    <3> QED
      BY <3>1
  <2>9. parts[x] \cap All(u) = {}
    <3>1. \A y \in u : parts[x] \cap parts[y] = {}
      BY <2>3
    <3> HIDE DEF u
    <3> QED
      BY <3>1
  <2> HIDE DEF u, All
  <2>10. /\ IsFiniteSet(All(s))
         /\ Cardinality(All(s)) = Cardinality(parts[x]) + Cardinality(All(u)) - Cardinality({})
    BY <2>6, <2>7, <2>8, <2>9, FS_Union
  <2>11. Cardinality({}) = 0 /\ Cardinality(parts[x]) \in Nat /\ Cardinality(All(u)) \in Nat
    BY <2>6, <2>7, FS_EmptySet, FS_CardinalityType
  <2> QED
    BY <2>4, <2>6, <2>7, <2>10, <2>11
<1> HIDE DEF N
<1>4. Nat \subseteq N
  BY <1>2, <1>3, NumberInduction
<1>5. Cardinality(S) \in N
  BY <1>4, FS_CardinalityType
<1>6. IsFiniteSet(All(S)) /\ g[S] = Cardinality(All(S))
  BY <1>5 DEF N
<1>7. SumFunctionOnSet(c, S) = g[S]
  BY SumIsFold DEF g
<1> QED
  BY <1>6, <1>7 DEF AllParts

\* ... written out.
LEMMA SumOfUnion ==
  ASSUME NEW S, IsFiniteSet(S), NEW c, NEW parts,
         \A x \in S : IsFiniteSet(parts[x]) /\ c[x] = Cardinality(parts[x]),
         \A x, y \in S : x # y => parts[x] \cap parts[y] = {}
  PROVE  SumFunctionOnSet(c, S) = Cardinality(UNION {parts[x] : x \in S})
<1>1. Measured(c, parts, S)
  BY DEF Measured
<1>2. SumFunctionOnSet(c, S) = Cardinality(AllParts(parts, S))
  BY <1>1, SumOfParts
<1> QED
  BY <1>2 DEF AllParts

\* The same for a set that is given by its elements.
LEMMA SumOfDisjoint ==
  ASSUME NEW S, IsFiniteSet(S), NEW c, NEW parts,
         \A x \in S : IsFiniteSet(parts[x]) /\ c[x] = Cardinality(parts[x]),
         \A x, y \in S : x # y => parts[x] \cap parts[y] = {},
         NEW U, \A z : z \in U <=> \E x \in S : z \in parts[x]
  PROVE  SumFunctionOnSet(c, S) = Cardinality(U)
<1>1. U = UNION {parts[x] : x \in S}
  OBVIOUS
<1>2. SumFunctionOnSet(c, S) = Cardinality(UNION {parts[x] : x \in S})
  BY SumOfUnion
<1> QED
  BY <1>1, <1>2

-----------------------------------------------------------------------------
(* Induction, and sequences of sequences                                   *)

\* h takes S to V.
Maps(h, S, V) == h \in [S -> V]

\* A function on 1 .. m is a sequence.
LEMMA SequenceOf ==
  ASSUME NEW V, NEW m \in Nat, NEW w, Maps(w, 1 .. m, V)
  PROVE  w \in Seq(V) /\ Len(w) = m
BY DEF Maps

\* Induction up to n.
LEMMA PrefixInduction ==
  ASSUME NEW T, NEW n \in Nat, 0 \in T, \A i \in 0 .. n - 1 : i \in T => i + 1 \in T
  PROVE  \A i \in 0 .. n : i \in T
<1> DEFINE S == {i \in Nat : i <= n => i \in T}
<1>1. 0 \in S
  OBVIOUS
<1>2. ASSUME NEW i \in Nat, i \in S
      PROVE  i + 1 \in S
  <2>1. CASE i + 1 <= n
    <3>1. i \in 0 .. n - 1 /\ i <= n
      BY <2>1
    <3>2. i + 1 \in T
      BY <1>2, <3>1
    <3> QED
      BY <3>2
  <2>2. CASE ~(i + 1 <= n)
    BY <2>2
  <2> QED
    BY <2>1, <2>2
<1> HIDE DEF S
<1>3. Nat \subseteq S
  BY <1>1, <1>2, NumberInduction
<1> QED
  BY <1>3 DEF S

-----------------------------------------------------------------------------
(* Folds of sequences *)

\* A finite set of numbers has a greatest element.
LEMMA GreatestNumber ==
  ASSUME NEW n \in Nat, NEW t \in SUBSET (1 .. n), t # {}
  PROVE  /\ Max(t) \in t
         /\ \A y \in t : y <= Max(t)
<1> DEFINE T == {n - x : x \in t}
<1>1. T \in SUBSET Nat /\ T # {}
  OBVIOUS
<1>2. PICK d \in T : \A e \in T : d <= e
  BY <1>1, LeastNumber
<1>3. PICK x \in t : d = n - x
  BY <1>2
<1>4. \A y \in t : x >= y
  <2> TAKE y \in t
  <2>1. n - y \in T
    OBVIOUS
  <2> HIDE DEF T
  <2>2. n - x <= n - y
    BY <1>2, <1>3, <2>1
  <2> QED
    BY <2>2
<1> HIDE DEF T
<1>5. Max(t) \in t /\ \A y \in t : Max(t) >= y
  BY <1>4 DEF Max
<1> QED
  BY <1>5

\* The greatest element of 1 .. n.
LEMMA GreatestUpTo ==
  ASSUME NEW n \in Nat \ {0}
  PROVE  Max(1 .. n) = n
<1>1. 1 .. n \in SUBSET (1 .. n) /\ 1 .. n # {} /\ n \in 1 .. n
  OBVIOUS
<1>2. Max(1 .. n) \in 1 .. n /\ n <= Max(1 .. n)
  BY <1>1, GreatestNumber
<1> QED
  BY <1>2

\* A step of FoldLeft: the value of a set of places from one of its subsets.
LeftStep(base, s, g, t) == IF t = {} THEN base ELSE Op(g[t \ {Max(t)}], s[Max(t)])

\* g is a function that FoldLeft may be.
Lefts(base, s, g) == g = [t \in SUBSET DOMAIN s |-> LeftStep(base, s, g, t)]

\* The value of a set of places up to m does not depend on the step.
LeftsUpTo(base, s, g, n, m) ==
  /\ DOMAIN g = SUBSET (1 .. n)
  /\ \A t \in SUBSET (1 .. n) : t \subseteq 1 .. m => g[t] = LeftStep(base, s, g, t)

\* A step looks at a smaller set, ...
LEMMA LeftSmaller ==
  ASSUME NEW n \in Nat, NEW m \in Nat, NEW t \in SUBSET (1 .. n), t \subseteq 1 .. m + 1,
         t # {}
  PROVE  t \ {Max(t)} \in SUBSET (1 .. n) /\ t \ {Max(t)} \subseteq 1 .. m
<1>1. Max(t) \in t /\ \A y \in t : y <= Max(t)
  BY GreatestNumber
<1>2. ASSUME NEW y \in t \ {Max(t)}
      PROVE  y \in 1 .. m
  <2>1. y <= Max(t) /\ y # Max(t) /\ y \in 1 .. m + 1 /\ Max(t) \in 1 .. m + 1
    BY <1>1
  <2> QED
    BY <2>1
<1> QED
  BY <1>2

\* ... so the function that FoldLeft is defined by exists.
LEMMA LeftExists ==
  ASSUME NEW base, NEW s, NEW n \in Nat, DOMAIN s = 1 .. n
  PROVE  \E g : Lefts(base, s, g)
<1> DEFINE N == {m \in Nat : \E g : LeftsUpTo(base, s, g, n, m)}
           After(g) == [t \in SUBSET (1 .. n) |-> LeftStep(base, s, g, t)]
<1>1. 0 \in N
  <2> DEFINE g == [t \in SUBSET (1 .. n) |-> base]
  <2>1. DOMAIN g = SUBSET (1 .. n)
    OBVIOUS
  <2>2. ASSUME NEW t \in SUBSET (1 .. n), t \subseteq 1 .. 0
        PROVE  g[t] = LeftStep(base, s, g, t)
    <3>1. t = {} /\ g[t] = base
      BY <2>2
    <3> QED
      BY <3>1 DEF LeftStep
  <2> HIDE DEF g
  <2>3. LeftsUpTo(base, s, g, n, 0)
    BY <2>1, <2>2 DEF LeftsUpTo
  <2> QED
    BY <2>3
<1>2. ASSUME NEW m \in Nat, NEW g, LeftsUpTo(base, s, g, n, m)
      PROVE  LeftsUpTo(base, s, After(g), n, m + 1)
  <2>1. ASSUME NEW t \in SUBSET (1 .. n), t \subseteq 1 .. m + 1
        PROVE  After(g)[t] = LeftStep(base, s, After(g), t)
    <3>1. After(g)[t] = LeftStep(base, s, g, t)
      OBVIOUS
    <3>2. CASE t = {}
      BY <3>1, <3>2 DEF LeftStep
    <3>3. CASE t # {}
      <4> DEFINE u == t \ {Max(t)}
      <4>1. u \in SUBSET (1 .. n) /\ u \subseteq 1 .. m
        BY <2>1, <3>3, LeftSmaller
      <4>2. After(g)[u] = LeftStep(base, s, g, u) /\ g[u] = LeftStep(base, s, g, u)
        BY <1>2, <4>1 DEF LeftsUpTo
      <4>3. /\ LeftStep(base, s, g, t) = Op(g[u], s[Max(t)])
            /\ LeftStep(base, s, After(g), t) = Op(After(g)[u], s[Max(t)])
        BY <3>3 DEF LeftStep
      <4> HIDE DEF u, After
      <4> QED
        BY <3>1, <4>2, <4>3
    <3> QED
      BY <3>2, <3>3
  <2>2. DOMAIN After(g) = SUBSET (1 .. n)
    OBVIOUS
  <2> HIDE DEF After
  <2> QED
    BY <2>1, <2>2 DEF LeftsUpTo
<1>3. ASSUME NEW m \in Nat, m \in N
      PROVE  m + 1 \in N
  <2>1. PICK g : LeftsUpTo(base, s, g, n, m)
    BY <1>3
  <2> HIDE DEF After
  <2> QED
    BY <1>2, <2>1
<1> HIDE DEF N
<1>4. n \in N
  BY <1>1, <1>3, NumberInduction
<1>5. PICK g : LeftsUpTo(base, s, g, n, n)
  BY <1>4 DEF N
<1> DEFINE h == After(g)
<1>6. \A t \in SUBSET (1 .. n) : h[t] = g[t]
  BY <1>5 DEF LeftsUpTo
<1>7. ASSUME NEW t \in SUBSET (1 .. n)
      PROVE  LeftStep(base, s, h, t) = LeftStep(base, s, g, t)
  <2>1. CASE t = {}
    BY <2>1 DEF LeftStep
  <2>2. CASE t # {}
    <3>1. t \ {Max(t)} \in SUBSET (1 .. n)
      OBVIOUS
    <3>2. h[t \ {Max(t)}] = g[t \ {Max(t)}]
      BY <1>6, <3>1
    <3> HIDE DEF h
    <3> QED
      BY <2>2, <3>2 DEF LeftStep
  <2> QED
    BY <2>1, <2>2
<1>8. h = [t \in SUBSET (1 .. n) |-> LeftStep(base, s, h, t)]
  BY <1>7
<1> HIDE DEF h, After
<1> QED
  BY <1>8 DEF Lefts

\* f[k] folds the first k of n elements.
PartsOfFold(f, base, s, n) ==
  /\ f[0] = base
  /\ \A k \in 0 .. n - 1 : f[k + 1] = Op(f[k], s[k + 1])

\* FoldLeft element by element.
LEMMA FoldLeftSteps ==
  ASSUME NEW base, NEW s, NEW n \in Nat, DOMAIN s = 1 .. n
  PROVE  \E f : PartsOfFold(f, base, s, n) /\ FoldLeft(Op, base, s) = f[n]
<1> DEFINE g == CHOOSE g : Lefts(base, s, g)
<1>1. FoldLeft(Op, base, s) = g[1 .. n]
  BY DEF FoldLeft, MapThenFoldSet, Lefts, LeftStep
<1>2. Lefts(base, s, g)
  BY LeftExists
<1> HIDE DEF g
<1>3. \A t \in SUBSET (1 .. n) : g[t] = LeftStep(base, s, g, t)
  BY <1>2 DEF Lefts
<1> DEFINE f == [k \in 0 .. n |-> g[1 .. k]]
<1>4. f[0] = base
  <2>1. 1 .. 0 = {} /\ {} \in SUBSET (1 .. n)
    OBVIOUS
  <2>2. g[{}] = base
    BY <1>3, <2>1 DEF LeftStep
  <2>3. f[0] = g[1 .. 0]
    OBVIOUS
  <2> QED
    BY <2>1, <2>2, <2>3
<1>5. ASSUME NEW k \in 0 .. n - 1
      PROVE  f[k + 1] = Op(f[k], s[k + 1])
  <2>1. 1 .. k + 1 \in SUBSET (1 .. n) /\ 1 .. k + 1 # {} /\ k + 1 \in Nat \ {0}
    <3>1. k + 1 \in Nat \ {0} /\ k + 1 <= n
      OBVIOUS
    <3>2. k + 1 \in 1 .. k + 1
      BY <3>1
    <3>3. \A j \in 1 .. k + 1 : j \in 1 .. n
      BY <3>1
    <3> QED
      BY <3>1, <3>2, <3>3
  <2>2. Max(1 .. k + 1) = k + 1
    BY <2>1, GreatestUpTo
  <2>3. (1 .. k + 1) \ {k + 1} = 1 .. k
    OBVIOUS
  <2>4. g[1 .. k + 1] = Op(g[1 .. k], s[k + 1])
    BY <1>3, <2>1, <2>2, <2>3 DEF LeftStep
  <2> QED
    BY <2>4
<1>6. f[n] = g[1 .. n]
  OBVIOUS
<1> HIDE DEF f
<1>7. PartsOfFold(f, base, s, n)
  BY <1>4, <1>5 DEF PartsOfFold
<1> QED
  BY <1>1, <1>6, <1>7

\* Nothing to fold.
LEMMA FoldLeftEmpty ==
  ASSUME NEW base
  PROVE  FoldLeft(Op, base, <<>>) = base
<1> DEFINE s == <<>>
<1>1. DOMAIN s = 1 .. 0 /\ 0 \in Nat
  OBVIOUS
<1> HIDE DEF s
<1>2. PICK f : PartsOfFold(f, base, s, 0) /\ FoldLeft(Op, base, s) = f[0]
  BY <1>1, FoldLeftSteps
<1> QED
  BY <1>2 DEF s, PartsOfFold

\* One element more.
LEMMA FoldLeftAppend ==
  ASSUME NEW base, NEW S, NEW s \in Seq(S), NEW e \in S
  PROVE  FoldLeft(Op, base, Append(s, e)) = Op(FoldLeft(Op, base, s), e)
<1> DEFINE n == Len(s)
           z == Append(s, e)
<1>1. n \in Nat /\ DOMAIN s = 1 .. n /\ DOMAIN z = 1 .. n + 1 /\ n + 1 \in Nat
  OBVIOUS
<1>2. z[n + 1] = e /\ \A k \in 1 .. n : z[k] = s[k]
  OBVIOUS
<1> HIDE DEF n, z
<1>3. PICK f : PartsOfFold(f, base, s, n) /\ FoldLeft(Op, base, s) = f[n]
  BY <1>1, FoldLeftSteps
<1>4. PICK h : PartsOfFold(h, base, z, n + 1) /\ FoldLeft(Op, base, z) = h[n + 1]
  BY <1>1, FoldLeftSteps
<1> DEFINE T == {k \in 0 .. n : h[k] = f[k]}
<1>5. 0 \in T
  BY <1>1, <1>3, <1>4 DEF PartsOfFold
<1> HIDE DEF T
<1>6. ASSUME NEW k \in 0 .. n - 1, k \in T
      PROVE  k + 1 \in T
  <2>1. k \in 0 .. (n + 1) - 1 /\ k + 1 \in 1 .. n /\ k + 1 \in 0 .. n
    BY <1>1
  <2>2. h[k + 1] = Op(h[k], z[k + 1]) /\ f[k + 1] = Op(f[k], s[k + 1]) /\ h[k] = f[k]
    BY <1>3, <1>4, <1>6, <2>1 DEF T, PartsOfFold
  <2> QED
    BY <1>2, <2>1, <2>2 DEF T
<1>7. \A k \in 0 .. n : k \in T
  BY <1>1, <1>5, <1>6, PrefixInduction
<1>8. h[n] = f[n]
  BY <1>1, <1>7 DEF T
<1>9. n \in 0 .. (n + 1) - 1
  BY <1>1
<1>10. h[n + 1] = Op(h[n], z[n + 1])
  BY <1>4, <1>9 DEF PartsOfFold
<1> QED
  BY <1>2, <1>3, <1>4, <1>8, <1>10 DEF z

\* The first i sequences of s, one after the other.
FlattenStep(s, g, i) == IF i = 1 THEN s[i] ELSE g[i - 1] \o s[i]

\* g holds them for every i up to m.
FlattenUpTo(s, g, n, m) ==
  DOMAIN g = 1 .. n /\ \A j \in 1 .. m : j <= n => g[j] = FlattenStep(s, g, j)

\* The function FlattenSeq is defined by exists.
LEMMA FlattenExists ==
  ASSUME NEW s, Len(s) \in Nat
  PROVE  \E g : g = [i \in 1 .. Len(s) |-> FlattenStep(s, g, i)]
<1> DEFINE n == Len(s)
           T == {i \in Nat : \E g : FlattenUpTo(s, g, n, i)}
           After(g) == [j \in 1 .. n |-> FlattenStep(s, g, j)]
<1> HIDE DEF n
<1>1. 0 \in T
  <2> DEFINE g == [j \in 1 .. n |-> 0]
  <2>1. FlattenUpTo(s, g, n, 0)
    BY DEF FlattenUpTo
  <2> HIDE DEF g
  <2> QED
    BY <2>1
<1>2. ASSUME NEW g, NEW i \in Nat, FlattenUpTo(s, g, n, i)
      PROVE  \A j \in 1 .. i + 1 : j <= n => After(g)[j] = FlattenStep(s, After(g), j)
  <2> SUFFICES ASSUME NEW j \in 1 .. i + 1, j <= n
               PROVE  After(g)[j] = FlattenStep(s, After(g), j)
    OBVIOUS
  <2>1. n \in Nat
    BY DEF n
  <2>2. After(g)[j] = FlattenStep(s, g, j)
    BY <2>1
  <2>3. j # 1 => j - 1 \in 1 .. i /\ j - 1 <= n /\ j - 1 \in 1 .. n
    BY <2>1
  <2>4. j # 1 => After(g)[j - 1] = FlattenStep(s, g, j - 1) /\ g[j - 1] = FlattenStep(s, g, j - 1)
    BY <1>2, <2>3 DEF FlattenUpTo
  <2> HIDE DEF After
  <2> QED
    BY <2>2, <2>4 DEF FlattenStep
<1>3. ASSUME NEW i \in Nat, i \in T
      PROVE  i + 1 \in T
  <2>1. PICK g : FlattenUpTo(s, g, n, i)
    BY <1>3
  <2>2. DOMAIN After(g) = 1 .. n
    OBVIOUS
  <2>3. \A j \in 1 .. i + 1 : j <= n => After(g)[j] = FlattenStep(s, After(g), j)
    BY <1>2, <2>1
  <2> HIDE DEF After
  <2>4. FlattenUpTo(s, After(g), n, i + 1)
    BY <2>2, <2>3 DEF FlattenUpTo
  <2> QED
    BY <2>4
<1> HIDE DEF T
<1>4. Nat \subseteq T
  BY <1>1, <1>3, NumberInduction
<1>5. n \in T
  BY <1>4 DEF n
<1>6. PICK g : DOMAIN g = 1 .. n /\ \A j \in 1 .. n : j <= n => g[j] = FlattenStep(s, g, j)
  BY <1>5 DEF T, FlattenUpTo
<1>7. n \in Nat
  BY DEF n
<1>8. \A j \in 1 .. n : After(g)[j] = FlattenStep(s, g, j) /\ g[j] = FlattenStep(s, g, j)
  BY <1>6, <1>7
<1>9. \A j \in 1 .. n : FlattenStep(s, After(g), j) = FlattenStep(s, g, j)
  <2> TAKE j \in 1 .. n
  <2>1. j # 1 => j - 1 \in 1 .. n
    BY <1>7
  <2>2. j # 1 => After(g)[j - 1] = g[j - 1]
    BY <1>8, <2>1
  <2> HIDE DEF After
  <2> QED
    BY <2>2 DEF FlattenStep
<1>10. After(g) = [j \in 1 .. n |-> FlattenStep(s, After(g), j)]
  BY <1>9
<1> HIDE DEF After
<1> QED
  BY <1>10 DEF n

\* FlattenSeq, sequence by sequence.
LEMMA Flattening ==
  ASSUME NEW S, NEW s \in Seq(Seq(S))
  PROVE  \E flat \in [0 .. Len(s) -> Seq(S)] :
           /\ flat[0] = <<>>
           /\ \A i \in 1 .. Len(s) : flat[i] = flat[i - 1] \o s[i]
           /\ FlattenSeq(s) = flat[Len(s)]
<1> DEFINE n == Len(s)
           g == CHOOSE g : g = [i \in 1 .. Len(s) |-> FlattenStep(s, g, i)]
           flat == [i \in 0 .. n |-> IF i = 0 THEN <<>> ELSE g[i]]
<1>1. n \in Nat /\ \A i \in 1 .. n : s[i] \in Seq(S)
  OBVIOUS
<1>2. \A i \in 1 .. n : g[i] = FlattenStep(s, g, i)
  <2>1. g = [i \in 1 .. n |-> FlattenStep(s, g, i)]
    <3>1. \E h : h = [i \in 1 .. Len(s) |-> FlattenStep(s, h, i)]
      BY <1>1, FlattenExists
    <3> QED
      BY <3>1
  <2> HIDE DEF g
  <2> QED
    BY <2>1
<1>3. FlattenSeq(s) = IF n = 0 THEN s ELSE g[n]
  BY DEF FlattenSeq, FlattenStep
<1> HIDE DEF g, n
<1>4. \A i \in 0 .. n : flat[i] \in Seq(S) /\ (i # 0 => flat[i] = flat[i - 1] \o s[i])
  <2> DEFINE T == {i \in Nat : flat[i] \in Seq(S) /\ (i # 0 => flat[i] = flat[i - 1] \o s[i])}
  <2>1. 0 \in T
    BY <1>1
  <2>2. ASSUME NEW i \in 0 .. n - 1, i \in T
        PROVE  i + 1 \in T
    <3>1. i \in 0 .. n /\ i + 1 \in 1 .. n /\ i + 1 \in 0 .. n /\ i + 1 # 0 /\ (i + 1) - 1 = i
      BY <1>1
    <3>2. flat[i] \in Seq(S) /\ s[i + 1] \in Seq(S)
      BY <1>1, <2>2, <3>1
    <3>3. flat[i + 1] = g[i + 1] /\ g[i + 1] = FlattenStep(s, g, i + 1)
      BY <1>2, <3>1
    <3>4. flat[i + 1] = flat[i] \o s[i + 1]
      <4>1. CASE i = 0
        <5>1. flat[i] = <<>>
          BY <4>1, <3>1
        <5>2. flat[i + 1] = s[i + 1]
          BY <3>3, <4>1 DEF FlattenStep
        <5> HIDE DEF flat
        <5> QED
          BY <3>2, <5>1, <5>2, ConcatEmptySeq
      <4>2. CASE i # 0
        <5>1. flat[i] = g[i]
          BY <4>2, <3>1
        <5>2. g[i + 1] = g[i] \o s[i + 1]
          <6>1. i + 1 # 1
            BY <1>1, <4>2
          <6>2. g[i + 1] = g[(i + 1) - 1] \o s[i + 1]
            BY <3>3, <6>1, Zenon DEF FlattenStep
          <6> QED
            BY <3>1, <6>2
        <5> HIDE DEF flat
        <5> QED
          BY <5>1, <5>2, <3>3
      <4> QED
        BY <4>1, <4>2
    <3> HIDE DEF flat
    <3>5. flat[i + 1] \in Seq(S)
      BY <3>2, <3>4, ConcatProperties
    <3>6. flat[i + 1] = flat[(i + 1) - 1] \o s[i + 1]
      BY <3>1, <3>4
    <3>7. i + 1 \in Nat
      BY <1>1, <3>1
    <3> QED
      BY <3>5, <3>6, <3>7
  <2> HIDE DEF T
  <2>3. \A i \in 0 .. n : i \in T
    BY <1>1, <2>1, <2>2, PrefixInduction
  <2> QED
    BY <2>3 DEF T
<1>5. flat[0] = <<>> /\ DOMAIN flat = 0 .. n /\ flat = [i \in 0 .. n |-> flat[i]]
  BY <1>1
<1>6. FlattenSeq(s) = flat[n]
  <2>1. n = 0 => s = <<>>
    BY EmptySeq DEF n
  <2> QED
    BY <1>1, <1>3, <2>1
<1> HIDE DEF flat
<1>7. flat \in [0 .. n -> Seq(S)]
  BY <1>4, <1>5
<1>8. \A i \in 1 .. n : flat[i] = flat[i - 1] \o s[i]
  <2> TAKE i \in 1 .. n
  <2>1. i \in 0 .. n /\ i # 0
    BY <1>1
  <2> QED
    BY <1>4, <2>1
<1> QED
  BY <1>5, <1>6, <1>7, <1>8 DEF n

\* Flattening one sequence more puts it behind the others.
LEMMA FlattenAppend ==
  ASSUME NEW S, NEW s \in Seq(Seq(S)), NEW x \in Seq(S)
  PROVE  /\ FlattenSeq(s) \in Seq(S)
         /\ FlattenSeq(Append(s, x)) = FlattenSeq(s) \o x
<1> DEFINE n == Len(s)
           u == Append(s, x)
<1>1. /\ n \in Nat /\ u \in Seq(Seq(S)) /\ Len(u) = n + 1
      /\ \A i \in 1 .. n : u[i] = s[i]
      /\ u[n + 1] = x
  BY LenProperties, AppendProperties
<1>2. PICK f \in [0 .. Len(s) -> Seq(S)] :
        /\ f[0] = <<>>
        /\ \A i \in 1 .. Len(s) : f[i] = f[i - 1] \o s[i]
        /\ FlattenSeq(s) = f[Len(s)]
  BY Flattening
<1> HIDE DEF u
<1>3. PICK g \in [0 .. Len(u) -> Seq(S)] :
        /\ g[0] = <<>>
        /\ \A i \in 1 .. Len(u) : g[i] = g[i - 1] \o u[i]
        /\ FlattenSeq(u) = g[Len(u)]
  BY <1>1, Flattening
<1> HIDE DEF n
<1> DEFINE T == {i \in Nat : g[i] = f[i]}
<1>4. 0 \in T
  BY <1>2, <1>3
<1>5. ASSUME NEW i \in 0 .. n - 1, i \in T
      PROVE  i + 1 \in T
  <2>1. i + 1 \in Nat /\ i + 1 \in 1 .. n /\ i + 1 \in 1 .. n + 1 /\ (i + 1) - 1 = i
    BY <1>1
  <2>2. f[i + 1] = f[i] \o s[i + 1]
    BY <1>2, <2>1 DEF n
  <2>3. g[i + 1] = g[i] \o u[i + 1]
    BY <1>1, <1>3, <2>1
  <2> QED
    BY <1>1, <1>5, <2>1, <2>2, <2>3
<1> HIDE DEF T
<1>6. \A i \in 0 .. n : i \in T
  BY <1>1, <1>4, <1>5, PrefixInduction
<1>7. g[n] = f[n]
  BY <1>1, <1>6 DEF T
<1>8. n + 1 \in 1 .. n + 1 /\ (n + 1) - 1 = n
  BY <1>1
<1>9. g[n + 1] = g[n] \o x
  BY <1>1, <1>3, <1>8
<1> QED
  BY <1>1, <1>2, <1>3, <1>7, <1>9 DEF n, u

\* Sequence p of s begins after the first start[p - 1] elements of s flattened.
Starts(start, s) ==
  /\ start \in [0 .. Len(s) -> Nat]
  /\ start[0] = 0
  /\ \A i \in 1 .. Len(s) : start[i] = start[i - 1] + Len(s[i])

\* Where the elements of a sequence of sequences are when it is flattened.
LEMMA FlattenPlaces ==
  ASSUME NEW S, NEW s \in Seq(Seq(S))
  PROVE  /\ FlattenSeq(s) \in Seq(S)
         /\ \E start : /\ Starts(start, s)
                       /\ Len(FlattenSeq(s)) = start[Len(s)]
                       /\ \A p \in 1 .. Len(s) : \A k \in 1 .. Len(s[p]) :
                            FlattenSeq(s)[start[p - 1] + k] = s[p][k]
<1> DEFINE n == Len(s)
<1>1. PICK f \in [0 .. Len(s) -> Seq(S)] :
        /\ f[0] = <<>>
        /\ \A i \in 1 .. Len(s) : f[i] = f[i - 1] \o s[i]
        /\ FlattenSeq(s) = f[Len(s)]
  BY Flattening
<1>2. n \in Nat /\ \A i \in 1 .. n : s[i] \in Seq(S)
  BY LenProperties, ElementOfSeq
<1>3. f \in [0 .. n -> Seq(S)] /\ \A i \in 1 .. n : f[i] = f[i - 1] \o s[i]
  BY <1>1
<1> HIDE DEF n
<1> DEFINE start == [i \in 0 .. n |-> Len(f[i])]
<1>4. \A i \in 0 .. n : f[i] \in Seq(S) /\ start[i] = Len(f[i]) /\ start[i] \in Nat
  BY <1>2, <1>3, LenProperties
<1>5. \A i \in 1 .. n : /\ i \in 0 .. n /\ i - 1 \in 0 .. n
                        /\ Len(s[i]) \in Nat
                        /\ start[i] = start[i - 1] + Len(s[i])
                        /\ \A j \in 1 .. start[i] :
                             f[i][j] = IF j <= start[i - 1] THEN f[i - 1][j]
                                                            ELSE s[i][j - start[i - 1]]
  <2> TAKE i \in 1 .. n
  <2>1. i \in 0 .. n /\ i - 1 \in 0 .. n
    BY <1>2
  <2>2. s[i] \in Seq(S) /\ f[i - 1] \in Seq(S) /\ f[i] = f[i - 1] \o s[i]
    BY <1>2, <1>3, <1>4, <2>1
  <2>3. start[i] = Len(f[i]) /\ start[i - 1] = Len(f[i - 1])
    BY <1>4, <2>1
  <2>4. Len(s[i]) \in Nat
    BY <2>2, LenProperties
  <2> HIDE DEF start
  <2> DEFINE a == f[i - 1]
             b == s[i]
  <2>5. a \in Seq(S) /\ b \in Seq(S) /\ f[i] = a \o b
    BY <2>2
  <2> HIDE DEF a, b
  <2>6. Len(a \o b) = Len(a) + Len(b)
        /\ \A j \in 1 .. Len(a) + Len(b) :
             (a \o b)[j] = IF j <= Len(a) THEN a[j] ELSE b[j - Len(a)]
    BY <2>5, ConcatProperties
  <2>7. start[i] = Len(a) + Len(b) /\ start[i - 1] = Len(a)
    BY <2>3, <2>5, <2>6 DEF a
  <2>8. \A j \in 1 .. start[i] :
          f[i][j] = IF j <= start[i - 1] THEN a[j] ELSE b[j - start[i - 1]]
    BY <2>5, <2>6, <2>7
  <2> QED
    BY <2>1, <2>4, <2>7, <2>8 DEF a, b
<1>6. Starts(start, s)
  <2>1. start[0] = 0
    BY <1>1, <1>2, EmptySeq
  <2>2. start \in [0 .. n -> Nat]
    BY <1>4
  <2> HIDE DEF start
  <2> QED
    BY <1>5, <2>1, <2>2 DEF Starts, n
<1> HIDE DEF start
<1>7. ASSUME NEW p \in 1 .. n, NEW k \in 1 .. Len(s[p])
      PROVE  f[n][start[p - 1] + k] = s[p][k]
  <2> DEFINE j == start[p - 1] + k
             T == {i \in Nat : p <= i /\ i <= n => j <= start[i] /\ f[i][j] = s[p][k]}
  <2>1. /\ p \in Nat /\ p - 1 \in 0 .. n /\ p \in 0 .. n /\ p # 0
        /\ start[p - 1] \in Nat /\ Len(s[p]) \in Nat
        /\ k \in Nat /\ k # 0 /\ k <= Len(s[p])
    <3>1. p \in Nat /\ p # 0 /\ p - 1 \in 0 .. n /\ p \in 0 .. n
      BY <1>2
    <3>2. Len(s[p]) \in Nat /\ start[p - 1] \in Nat
      BY <1>4, <1>5, <3>1
    <3> QED
      BY <3>1, <3>2
  <2> DEFINE a == start[p - 1]
             m == Len(s[p])
  <2>2. j \in Nat /\ j # 0 /\ ~(j <= a) /\ j - a = k /\ start[p] = a + m /\ j <= a + m
    <3>1. a \in Nat /\ m \in Nat /\ k \in Nat /\ k # 0 /\ k <= m
      BY <2>1
    <3>2. start[p] = a + m
      BY <1>5
    <3> HIDE DEF a, m
    <3>3. j = a + k
      BY DEF a
    <3> HIDE DEF j
    <3> QED
      BY <3>1, <3>2, <3>3
  <2>3. j <= start[p] /\ j \in 1 .. start[p]
    BY <2>2
  <2> HIDE DEF j
  <2>4. f[p][j] = s[p][k]
    BY <1>5, <2>2, <2>3
  <2>5. 0 \in T
    BY <2>1
  <2>6. ASSUME NEW i \in 0 .. n - 1, i \in T
        PROVE  i + 1 \in T
    <3>1. i \in Nat /\ i + 1 \in 1 .. n /\ (i + 1) - 1 = i /\ i \in 0 .. n
      BY <1>2
    <3>2. CASE p <= i
      <4>1. j <= start[i] /\ f[i][j] = s[p][k]
        BY <2>6, <3>1, <3>2
      <4>2. start[i + 1] = start[i] + Len(s[i + 1]) /\ Len(s[i + 1]) \in Nat
            /\ start[i] \in Nat
        BY <1>4, <1>5, <3>1
      <4>3. j <= start[i + 1] /\ j \in 1 .. start[i + 1]
        BY <2>2, <4>1, <4>2
      <4>4. f[i + 1][j] = f[i][j]
        BY <1>5, <3>1, <4>1, <4>3
      <4> QED
        BY <3>1, <4>1, <4>3, <4>4
    <3>3. CASE ~(p <= i)
      <4>1. p <= i + 1 => i + 1 = p
        BY <2>1, <3>1, <3>3
      <4>2. p <= i + 1 => j <= start[i + 1] /\ f[i + 1][j] = s[p][k]
        BY <2>3, <2>4, <4>1
      <4> QED
        BY <3>1, <4>2
    <3> QED
      BY <3>2, <3>3
  <2> HIDE DEF T
  <2>7. \A i \in 0 .. n : i \in T
    BY <1>2, <2>5, <2>6, PrefixInduction
  <2>8. n \in T /\ p <= n /\ n <= n
    BY <1>2, <2>7
  <2> QED
    BY <2>8 DEF T, j
<1>8. n \in 0 .. n
  BY <1>2
<1>9. Len(f[n]) = start[n] /\ f[n] \in Seq(S)
  BY <1>4, <1>8
<1> QED
  BY <1>1, <1>6, <1>7, <1>9 DEF n

\* The length of the whole is the sum of the lengths.
LEMMA FlattenLength ==
  ASSUME NEW S, NEW s \in Seq(Seq(S))
  PROVE  Len(FlattenSeq(s)) = SumFunctionOnSet([i \in 1 .. Len(s) |-> Len(s[i])], 1 .. Len(s))
<1> DEFINE n == Len(s)
           c == [i \in 1 .. n |-> Len(s[i])]
<1>1. PICK start : Starts(start, s) /\ Len(FlattenSeq(s)) = start[Len(s)]
  BY FlattenPlaces
<1>2. n \in Nat /\ \A i \in 1 .. n : Len(s[i]) \in Nat
  BY LenProperties, ElementOfSeq
<1>3. /\ start \in [0 .. n -> Nat] /\ start[0] = 0
      /\ \A i \in 1 .. n : start[i] = start[i - 1] + Len(s[i])
      /\ Len(FlattenSeq(s)) = start[n]
  BY <1>1 DEF Starts
<1>4. \A i \in 1 .. n : c[i] = Len(s[i])
  OBVIOUS
<1> HIDE DEF n, c
<1> DEFINE parts == [i \in 1 .. n |-> start[i - 1] + 1 .. start[i]]
<1>5. \A i \in 1 .. n : /\ i - 1 \in 0 .. n /\ start[i - 1] \in Nat /\ start[i] \in Nat
                        /\ start[i - 1] <= start[i]
                        /\ start[i] = start[i - 1] + Len(s[i])
                        /\ parts[i] = start[i - 1] + 1 .. start[i]
  BY <1>2, <1>3
<1> HIDE DEF parts
<1>6. \A i \in 1 .. n : IsFiniteSet(parts[i]) /\ c[i] = Cardinality(parts[i])
  <2> TAKE i \in 1 .. n
  <2> DEFINE a == start[i - 1] + 1
             b == start[i]
  <2>1. a \in Int /\ b \in Int /\ parts[i] = a .. b
        /\ (IF a > b THEN 0 ELSE b - a + 1) = Len(s[i])
    <3> DEFINE x == start[i - 1]
               m == Len(s[i])
    <3>1. x \in Nat /\ m \in Nat /\ b = x + m
      BY <1>2, <1>5
    <3>2. parts[i] = a .. b
      BY <1>5
    <3> HIDE DEF x, m, b
    <3>3. (IF x + 1 > b THEN 0 ELSE b - (x + 1) + 1) = m /\ x + 1 \in Int /\ b \in Int
      BY <3>1
    <3> QED
      BY <3>2, <3>3 DEF x, m
  <2> HIDE DEF a, b
  <2>2. IsFiniteSet(a .. b) /\ Cardinality(a .. b) = IF a > b THEN 0 ELSE b - a + 1
    BY <2>1, FS_Interval
  <2> QED
    BY <1>4, <2>1, <2>2
<1> DEFINE Below(i) == \A z : z \in 1 .. start[i] <=> \E x \in 1 .. i : z \in parts[x]
           T == {i \in Nat : Below(i)}
<1>7. 0 \in T
  BY <1>3
<1>8. ASSUME NEW i \in 0 .. n - 1, i \in T
      PROVE  i + 1 \in T
  <2>1. i \in Nat /\ i + 1 \in Nat /\ i + 1 \in 1 .. n /\ (i + 1) - 1 = i
    BY <1>2
  <2>2. parts[i + 1] = start[i] + 1 .. start[i + 1] /\ start[i] \in Nat
        /\ start[i + 1] \in Nat /\ start[i] <= start[i + 1]
    BY <1>5, <2>1
  <2>3. \A z : z \in 1 .. start[i + 1] <=> z \in 1 .. start[i] \/ z \in parts[i + 1]
    BY <2>2
  <2>4. \A x : x \in 1 .. i + 1 <=> x \in 1 .. i \/ x = i + 1
    BY <2>1
  <2>5. Below(i)
    BY <1>8
  <2>6. Below(i + 1)
    BY <2>3, <2>4, <2>5
  <2> QED
    BY <2>1, <2>6
<1>9. \A i \in 0 .. n : i \in T
  <2> HIDE DEF T
  <2> QED
    BY <1>2, <1>7, <1>8, PrefixInduction
<1>10. n \in 0 .. n
  BY <1>2
<1>11. Below(n)
  BY <1>9, <1>10
<1>12. \A i, j \in 1 .. n : i # j => parts[i] \cap parts[j] = {}
  <2>1. ASSUME NEW i \in 1 .. n, NEW j \in 1 .. n, i < j
        PROVE  parts[i] \cap parts[j] = {}
    <3>1. j - 1 \in 0 .. n /\ i <= j - 1 /\ i \in 1 .. j - 1
      BY <1>2, <2>1
    <3>2. Below(j - 1)
      BY <1>9, <3>1
    <3>3. \A z \in parts[i] : z \in 1 .. start[j - 1]
      BY <3>1, <3>2
    <3>4. \A z \in parts[j] : ~(z \in 1 .. start[j - 1])
      <4>1. parts[j] = start[j - 1] + 1 .. start[j] /\ start[j - 1] \in Nat /\ start[j] \in Nat
        BY <1>5
      <4> QED
        BY <4>1
    <3> QED
      BY <3>3, <3>4
  <2> SUFFICES ASSUME NEW i \in 1 .. n, NEW j \in 1 .. n, i # j
               PROVE  parts[i] \cap parts[j] = {}
    OBVIOUS
  <2>2. i < j \/ j < i
    BY <1>2
  <2> QED
    BY <2>1, <2>2
<1>13. IsFiniteSet(1 .. n)
  BY <1>2, FS_Interval
<1> DEFINE U == 1 .. start[n]
<1>14. \A z : z \in U <=> \E x \in 1 .. n : z \in parts[x]
  BY <1>11
<1>15. start[n] \in Nat
  BY <1>3, <1>10
<1>16. Cardinality(U) = start[n]
  BY <1>15, FS_Interval
<1> HIDE DEF U, T, Below
<1>17. SumFunctionOnSet(c, 1 .. n) = Cardinality(U)
  <2> DEFINE S1 == 1 .. n
  <2>1. /\ IsFiniteSet(S1)
        /\ \A i \in S1 : IsFiniteSet(parts[i]) /\ c[i] = Cardinality(parts[i])
        /\ \A i, j \in S1 : i # j => parts[i] \cap parts[j] = {}
        /\ \A z : z \in U <=> \E x \in S1 : z \in parts[x]
    BY <1>6, <1>12, <1>13, <1>14
  <2> HIDE DEF S1
  <2>2. SumFunctionOnSet(c, S1) = Cardinality(U)
    BY <2>1, SumOfDisjoint
  <2> QED
    BY <2>2 DEF S1
<1> QED
  BY <1>3, <1>16, <1>17 DEF n, c

\* If all but the last are of one length, a multiple of it is where each begins.
LEMMA FlattenUniform ==
  ASSUME NEW S, NEW s \in Seq(Seq(S)), NEW w \in Nat,
         \A i \in 1 .. Len(s) - 1 : Len(s[i]) = w
  PROVE  /\ \A p \in 1 .. Len(s) : \A k \in 1 .. Len(s[p]) :
              FlattenSeq(s)[(p - 1) * w + k] = s[p][k]
         /\ Len(s) # 0 => Len(FlattenSeq(s)) = (Len(s) - 1) * w + Len(s[Len(s)])
<1> DEFINE n == Len(s)
<1>1. PICK start : /\ Starts(start, s)
                   /\ Len(FlattenSeq(s)) = start[Len(s)]
                   /\ \A p \in 1 .. Len(s) : \A k \in 1 .. Len(s[p]) :
                        FlattenSeq(s)[start[p - 1] + k] = s[p][k]
  BY FlattenPlaces
<1>2. n \in Nat
  BY LenProperties
<1>3. /\ start \in [0 .. n -> Nat] /\ start[0] = 0
      /\ \A i \in 1 .. n : start[i] = start[i - 1] + Len(s[i])
      /\ \A i \in 1 .. n - 1 : Len(s[i]) = w
      /\ Len(FlattenSeq(s)) = start[n]
  BY <1>1 DEF Starts
<1> HIDE DEF n
<1> DEFINE T == {i \in Nat : i <= n - 1 => start[i] = i * w}
<1>4. 0 \in T
  BY <1>2, <1>3
<1>5. ASSUME NEW i \in 0 .. n - 1, i \in T
      PROVE  i + 1 \in T
  <2>1. i + 1 \in Nat /\ i \in Nat /\ i <= n - 1 /\ i + 1 \in 1 .. n /\ (i + 1) - 1 = i
    BY <1>2
  <2>2. start[i + 1] = i * w + Len(s[i + 1])
    BY <1>3, <1>5, <2>1
  <2>3. CASE i + 1 <= n - 1
    <3>1. Len(s[i + 1]) = w
      BY <1>2, <1>3, <2>1, <2>3
    <3>2. (i + 1) * w = i * w + w
      BY <2>1
    <3> QED
      BY <2>1, <2>2, <3>1, <3>2
  <2>4. CASE ~(i + 1 <= n - 1)
    BY <2>1, <2>4
  <2> QED
    BY <2>3, <2>4
<1> HIDE DEF T
<1>6. \A i \in 0 .. n : i \in T
  BY <1>2, <1>4, <1>5, PrefixInduction
<1>7. \A p \in 1 .. n : start[p - 1] = (p - 1) * w
  <2> TAKE p \in 1 .. n
  <2>1. p - 1 \in 0 .. n /\ p - 1 <= n - 1
    BY <1>2
  <2> QED
    BY <1>6, <2>1 DEF T
<1>8. n # 0 => start[n] = (n - 1) * w + Len(s[n])
  <2> SUFFICES ASSUME n # 0 PROVE start[n] = (n - 1) * w + Len(s[n])
    OBVIOUS
  <2>1. n \in 1 .. n
    BY <1>2
  <2> QED
    BY <1>3, <1>7, <2>1
<1> QED
  BY <1>1, <1>3, <1>7, <1>8 DEF n

-----------------------------------------------------------------------------
(* Listings: sequences that have each element of a set once                *)

\* s has each element of P once.
IsListing(s, P) ==
  /\ s \in Seq(P)
  /\ \A i, j \in DOMAIN s : s[i] = s[j] => i = j
  /\ \A x \in P : \E i \in DOMAIN s : s[i] = x

\* A set that is listed is finite, and as large as its listing is long.
LEMMA ListingSize ==
  ASSUME NEW P, NEW s, IsListing(s, P)
  PROVE  /\ IsFiniteSet(P)
         /\ Len(s) \in Nat
         /\ Cardinality(P) = Len(s)
<1>1. Len(s) \in Nat /\ s \in [1 .. Len(s) -> P] /\ DOMAIN s = 1 .. Len(s)
  BY LenProperties DEF IsListing
<1>2. s \in Bijection(1 .. Len(s), P)
  BY <1>1 DEF IsListing, Bijection, Injection, Surjection, IsInjective
<1>3. IsFiniteSet(1 .. Len(s)) /\ Cardinality(1 .. Len(s)) = Len(s)
  BY <1>1, FS_Interval
<1>4. IsFiniteSet(P) /\ Cardinality(P) = Cardinality(1 .. Len(s))
  BY <1>2, <1>3, FS_Bijection DEF ExistsBijection
<1> QED
  BY <1>1, <1>3, <1>4

\* Nothing lists nothing.
LEMMA ListingOfNone == IsListing(<<>>, {})
BY EmptySeq DEF IsListing

\* Two listings of disjoint sets make up a listing of both.
LEMMA ListingConcat ==
  ASSUME NEW P, NEW Q, NEW s, NEW t, IsListing(s, P), IsListing(t, Q), P \cap Q = {}
  PROVE  IsListing(s \o t, P \cup Q)
<1> DEFINE R == P \cup Q
           u == s \o t
           m == Len(s)
           n == Len(t)
<1>1. s \in Seq(R) /\ t \in Seq(R)
  BY SeqMonotonic DEF IsListing
<1>2. m \in Nat /\ n \in Nat /\ DOMAIN s = 1 .. m /\ DOMAIN t = 1 .. n
  BY <1>1, LenProperties
<1>3. /\ u \in Seq(R)
      /\ Len(u) = m + n
      /\ \A i \in 1 .. m + n : u[i] = IF i <= m THEN s[i] ELSE t[i - m]
  <2> HIDE DEF R
  <2> QED
    BY <1>1, ConcatProperties
<1>4. DOMAIN u = 1 .. m + n
  BY <1>3, LenProperties
<1>5. (\A i \in 1 .. m : s[i] \in P) /\ (\A i \in 1 .. n : t[i] \in Q)
  BY <1>2, LenProperties DEF IsListing
<1> HIDE DEF u, m, n
<1>6. ASSUME NEW i \in 1 .. m + n, NEW j \in 1 .. m + n, u[i] = u[j]
      PROVE  i = j
  <2>1. CASE i <= m /\ j <= m
    <3>1. i \in 1 .. m /\ j \in 1 .. m
      BY <1>2, <2>1
    <3>2. s[i] = s[j]
      BY <1>3, <1>6, <2>1
    <3> QED
      BY <1>2, <3>1, <3>2 DEF IsListing
  <2>2. CASE i > m /\ j > m
    <3>1. i - m \in 1 .. n /\ j - m \in 1 .. n
      BY <1>2, <2>2
    <3>2. t[i - m] = t[j - m]
      BY <1>2, <1>3, <1>6, <2>2
    <3>3. i - m = j - m
      BY <1>2, <3>1, <3>2 DEF IsListing
    <3> QED
      BY <1>2, <3>3
  <2>3. CASE i <= m /\ j > m
    <3>1. i \in 1 .. m /\ j - m \in 1 .. n
      BY <1>2, <2>3
    <3>2. u[i] = s[i] /\ u[j] = t[j - m]
      BY <1>2, <1>3, <2>3
    <3>3. u[i] \in P /\ u[j] \in Q
      BY <1>5, <3>1, <3>2
    <3> QED
      BY <1>6, <3>3
  <2>4. CASE i > m /\ j <= m
    <3>1. j \in 1 .. m /\ i - m \in 1 .. n
      BY <1>2, <2>4
    <3>2. u[j] = s[j] /\ u[i] = t[i - m]
      BY <1>2, <1>3, <2>4
    <3>3. u[j] \in P /\ u[i] \in Q
      BY <1>5, <3>1, <3>2
    <3> QED
      BY <1>6, <3>3
  <2> QED
    BY <1>2, <2>1, <2>2, <2>3, <2>4
<1>7. ASSUME NEW x \in R
      PROVE  \E i \in 1 .. m + n : u[i] = x
  <2>1. CASE x \in P
    <3>1. PICK i \in 1 .. m : s[i] = x
      BY <1>2, <2>1 DEF IsListing
    <3>2. i \in 1 .. m + n /\ i <= m
      BY <1>2
    <3> QED
      BY <1>3, <3>1, <3>2
  <2>2. CASE x \in Q
    <3>1. PICK i \in 1 .. n : t[i] = x
      BY <1>2, <2>2 DEF IsListing
    <3>2. i + m \in 1 .. m + n /\ ~(i + m <= m) /\ (i + m) - m = i
      BY <1>2
    <3>3. u[i + m] = t[(i + m) - m]
      BY <1>3, <3>2
    <3>4. u[i + m] = x
      BY <3>1, <3>2, <3>3
    <3> QED
      BY <3>2, <3>4
  <2> QED
    BY <2>1, <2>2
<1> QED
  BY <1>3, <1>4, <1>6, <1>7 DEF u, IsListing

\* s[i] lists parts[i]; the parts are disjoint, and AllOf(parts, n) together.
ListsParts(s, parts) ==
  /\ \A i \in 1 .. Len(s) : IsListing(s[i], parts[i])
  /\ \A i, j \in 1 .. Len(s) : i # j => parts[i] \cap parts[j] = {}

\* What the first n parts have.
AllOf(parts, n) == UNION {parts[i] : i \in 1 .. n}

\* Listings of disjoint sets make up a listing of their union.
LEMMA FlattenListings ==
  ASSUME NEW S, NEW s \in Seq(Seq(S)), NEW parts, ListsParts(s, parts)
  PROVE  IsListing(FlattenSeq(s), AllOf(parts, Len(s)))
<1> USE DEF ListsParts, AllOf
<1> DEFINE n == Len(s)
           Below(i) == UNION {parts[j] : j \in 1 .. i}
<1>1. PICK flat \in [0 .. Len(s) -> Seq(S)] :
        /\ flat[0] = <<>>
        /\ \A i \in 1 .. Len(s) : flat[i] = flat[i - 1] \o s[i]
        /\ FlattenSeq(s) = flat[Len(s)]
  BY Flattening
<1>2. n \in Nat
  OBVIOUS
<1> HIDE DEF n
<1> DEFINE T == {i \in Nat : IsListing(flat[i], Below(i))}
<1>3. 0 \in T
  <2>1. Below(0) = {}
    OBVIOUS
  <2> HIDE DEF Below
  <2> QED
    BY <1>1, <2>1, ListingOfNone
<1>4. ASSUME NEW i \in 0 .. n - 1, i \in T
      PROVE  i + 1 \in T
  <2>1. i \in Nat /\ i + 1 \in Nat /\ i + 1 \in 1 .. n /\ (i + 1) - 1 = i
    BY <1>2
  <2>2. flat[i + 1] = flat[(i + 1) - 1] \o s[i + 1]
    BY <1>1, <2>1 DEF n
  <2>3. flat[i + 1] = flat[i] \o s[i + 1]
    BY <2>1, <2>2
  <2>4. Below(i + 1) = Below(i) \cup parts[i + 1]
    <3>1. 1 .. i + 1 = (1 .. i) \cup {i + 1}
      BY <2>1
    <3> QED
      BY <3>1
  <2>5. Below(i) \cap parts[i + 1] = {}
    <3>1. \A j \in 1 .. i : j \in 1 .. n /\ j # i + 1
      BY <1>2, <2>1
    <3>2. \A j \in 1 .. i : parts[j] \cap parts[i + 1] = {}
      BY <2>1, <3>1 DEF n
    <3> QED
      BY <3>2
  <2>6. IsListing(s[i + 1], parts[i + 1])
    BY <2>1 DEF n
  <2>7. IsListing(flat[i], Below(i))
    BY <1>4
  <2> HIDE DEF Below
  <2>8. IsListing(flat[i] \o s[i + 1], Below(i) \cup parts[i + 1])
    BY <2>5, <2>6, <2>7, ListingConcat
  <2> QED
    BY <2>1, <2>3, <2>4, <2>8
<1> HIDE DEF T
<1>5. \A i \in 0 .. n : i \in T
  BY <1>2, <1>3, <1>4, PrefixInduction
<1>6. IsListing(flat[n], Below(n))
  <2>1. n \in 0 .. n
    BY <1>2
  <2> QED
    BY <1>5, <2>1 DEF T
<1> QED
  BY <1>1, <1>6 DEF n

\* What h makes of a sequence.
Image(h, s) == [i \in 1 .. Len(s) |-> h[s[i]]]

\* An image has a value for each place.
LEMMA ImageType ==
  ASSUME NEW S, NEW V, NEW h, Maps(h, S, V), NEW s \in Seq(S)
  PROVE  /\ Image(h, s) \in Seq(V)
         /\ Len(Image(h, s)) = Len(s)
         /\ Len(s) \in Nat
         /\ \A i \in 1 .. Len(s) : Image(h, s)[i] = h[s[i]]
<1>1. Len(s) \in Nat /\ \A i \in 1 .. Len(s) : s[i] \in S
  BY LenProperties
<1>2. \A i \in 1 .. Len(s) : h[s[i]] \in V
  BY <1>1 DEF Maps
<1> QED
  BY <1>1, <1>2 DEF Image

\* The image of a concatenation.
LEMMA ImageConcat ==
  ASSUME NEW S, NEW V, NEW h, Maps(h, S, V), NEW s \in Seq(S), NEW t \in Seq(S)
  PROVE  Image(h, s) \o Image(h, t) = Image(h, s \o t)
<1> DEFINE a == Image(h, s)
           b == Image(h, t)
           u == s \o t
           c == Image(h, u)
           m == Len(s)
           n == Len(t)
<1>1. /\ u \in Seq(S)
      /\ Len(u) = m + n
      /\ \A i \in 1 .. m + n : u[i] = IF i <= m THEN s[i] ELSE t[i - m]
  BY ConcatProperties
<1>2. /\ a \in Seq(V) /\ Len(a) = m /\ m \in Nat
      /\ \A i \in 1 .. m : a[i] = h[s[i]]
  BY ImageType
<1>3. /\ b \in Seq(V) /\ Len(b) = n /\ n \in Nat
      /\ \A i \in 1 .. n : b[i] = h[t[i]]
  BY ImageType
<1> HIDE DEF u
<1>4. /\ c \in Seq(V) /\ Len(c) = Len(u)
      /\ \A i \in 1 .. Len(u) : c[i] = h[u[i]]
  BY <1>1, ImageType
<1> HIDE DEF a, b, c, m, n
<1>5. /\ a \o b \in Seq(V)
      /\ Len(a \o b) = m + n
      /\ \A i \in 1 .. m + n : (a \o b)[i] = IF i <= m THEN a[i] ELSE b[i - m]
  <2>1. a \in Seq(V) /\ b \in Seq(V)
    BY <1>2, <1>3
  <2>2. /\ a \o b \in Seq(V)
        /\ Len(a \o b) = Len(a) + Len(b)
        /\ \A i \in 1 .. Len(a) + Len(b) : (a \o b)[i] = IF i <= Len(a) THEN a[i] ELSE b[i - Len(a)]
    BY <2>1, ConcatProperties
  <2> QED
    BY <1>2, <1>3, <2>2
<1>6. \A i \in 1 .. m + n : (a \o b)[i] = c[i]
  <2> TAKE i \in 1 .. m + n
  <2>1. CASE i <= m
    <3>1. i \in 1 .. m
      BY <1>2, <1>3, <2>1
    <3>2. (a \o b)[i] = a[i] /\ u[i] = s[i] /\ c[i] = h[u[i]]
      BY <1>1, <1>4, <1>5, <2>1
    <3>3. a[i] = h[s[i]]
      BY <1>2, <3>1
    <3> QED
      BY <3>2, <3>3
  <2>2. CASE ~(i <= m)
    <3>1. i - m \in 1 .. n
      BY <1>2, <1>3, <2>2
    <3>2. (a \o b)[i] = b[i - m] /\ u[i] = t[i - m] /\ c[i] = h[u[i]]
      BY <1>1, <1>4, <1>5, <2>2
    <3>3. b[i - m] = h[t[i - m]]
      BY <1>3, <3>1
    <3> QED
      BY <3>2, <3>3
  <2> QED
    BY <2>1, <2>2
<1>7. a \o b = c
  <2> DEFINE d == a \o b
  <2>1. d \in Seq(V) /\ Len(d) = Len(c) /\ \A i \in 1 .. Len(d) : d[i] = c[i]
    BY <1>1, <1>4, <1>5, <1>6
  <2> HIDE DEF d
  <2>2. d = c
    BY <1>4, <2>1, SeqEqual
  <2> QED
    BY <2>2 DEF d
<1> QED
  BY <1>7 DEF a, b, c, u

\* What h makes of each of the sequences in s.
Images(h, s) == [i \in 1 .. Len(s) |-> Image(h, s[i])]

\* Flattening what h makes of sequences is what h makes of them flattened.
LEMMA FlattenImages ==
  ASSUME NEW S, NEW V, NEW h, Maps(h, S, V), NEW s \in Seq(Seq(S))
  PROVE  /\ FlattenSeq(s) \in Seq(S)
         /\ FlattenSeq(Images(h, s)) = Image(h, FlattenSeq(s))
<1> DEFINE n == Len(s)
           t == Images(h, s)
<1>1. n \in Nat /\ \A i \in 1 .. n : s[i] \in Seq(S)
  OBVIOUS
<1>2. \A i \in 1 .. n : Image(h, s[i]) \in Seq(V)
  BY <1>1, ImageType
<1>3. t \in Seq(Seq(V)) /\ Len(t) = n /\ \A i \in 1 .. n : t[i] = Image(h, s[i])
  <2>1. t = [i \in 1 .. n |-> Image(h, s[i])]
    BY DEF Images
  <2> HIDE DEF n, t
  <2> QED
    BY <1>1, <1>2, <2>1
<1>4. PICK f \in [0 .. Len(s) -> Seq(S)] :
        /\ f[0] = <<>>
        /\ \A i \in 1 .. Len(s) : f[i] = f[i - 1] \o s[i]
        /\ FlattenSeq(s) = f[Len(s)]
  BY Flattening
<1> HIDE DEF t
<1>5. PICK g \in [0 .. Len(t) -> Seq(V)] :
        /\ g[0] = <<>>
        /\ \A i \in 1 .. Len(t) : g[i] = g[i - 1] \o t[i]
        /\ FlattenSeq(t) = g[Len(t)]
  BY <1>3, Flattening
<1> HIDE DEF n
<1> DEFINE T == {i \in Nat : g[i] = Image(h, f[i])}
<1>6. 0 \in T
  <2>1. Image(h, <<>>) = <<>>
    BY EmptySeq DEF Image
  <2> QED
    BY <1>4, <1>5, <2>1
<1>7. ASSUME NEW i \in 0 .. n - 1, i \in T
      PROVE  i + 1 \in T
  <2>1. i \in Nat /\ i \in 0 .. n /\ i + 1 \in Nat /\ i + 1 \in 1 .. n /\ (i + 1) - 1 = i
    BY <1>1
  <2>2. f[i + 1] = f[(i + 1) - 1] \o s[i + 1] /\ g[i + 1] = g[(i + 1) - 1] \o t[i + 1]
    BY <1>3, <1>4, <1>5, <2>1 DEF n
  <2>3. f[i + 1] = f[i] \o s[i + 1] /\ g[i + 1] = g[i] \o t[i + 1]
    BY <2>1, <2>2
  <2>4. t[i + 1] = Image(h, s[i + 1]) /\ s[i + 1] \in Seq(S) /\ f[i] \in Seq(S)
    BY <1>1, <1>3, <1>4, <2>1 DEF n
  <2>5. g[i] = Image(h, f[i])
    BY <1>7
  <2>6. Image(h, f[i]) \o Image(h, s[i + 1]) = Image(h, f[i] \o s[i + 1])
    <3> DEFINE x == f[i]
               y == s[i + 1]
    <3>1. x \in Seq(S) /\ y \in Seq(S)
      BY <2>4
    <3> HIDE DEF x, y
    <3>2. Image(h, x) \o Image(h, y) = Image(h, x \o y)
      BY <3>1, ImageConcat
    <3> QED
      BY <3>2 DEF x, y
  <2> QED
    BY <2>1, <2>3, <2>4, <2>5, <2>6
<1> HIDE DEF T
<1>8. \A i \in 0 .. n : i \in T
  BY <1>1, <1>6, <1>7, PrefixInduction
<1>9. g[n] = Image(h, f[n]) /\ f[n] \in Seq(S)
  BY <1>1, <1>4, <1>8 DEF T, n
<1> QED
  BY <1>3, <1>4, <1>5, <1>9 DEF n, t

\* h takes P one to one to Q.
OneToOne(h, P, Q) ==
  /\ \A x \in P : h[x] \in Q
  /\ \A x, y \in P : h[x] = h[y] => x = y
  /\ \A z \in Q : \E x \in P : h[x] = z

\* The image of a listing under a one-to-one function is a listing.
LEMMA ImageListing ==
  ASSUME NEW P, NEW s, IsListing(s, P), NEW Q, NEW h, OneToOne(h, P, Q)
  PROVE  IsListing(Image(h, s), Q)
<1> DEFINE t == Image(h, s)
<1>1. /\ Len(s) \in Nat /\ DOMAIN s = 1 .. Len(s)
      /\ \A i \in 1 .. Len(s) : s[i] \in P
  BY LenProperties DEF IsListing
<1>2. DOMAIN t = 1 .. Len(s) /\ \A i \in 1 .. Len(s) : t[i] = h[s[i]]
  BY DEF Image
<1>3. Maps(t, 1 .. Len(s), Q)
  <2>1. t = [i \in 1 .. Len(s) |-> t[i]]
    BY DEF Image
  <2>2. \A i \in 1 .. Len(s) : t[i] \in Q
    BY <1>1, <1>2 DEF OneToOne
  <2> HIDE DEF t
  <2> QED
    BY <2>1, <2>2 DEF Maps
<1> HIDE DEF t
<1>4. t \in Seq(Q)
  BY <1>1, <1>3, SequenceOf
<1>5. \A i, j \in DOMAIN t : t[i] = t[j] => i = j
  <2> SUFFICES ASSUME NEW i \in 1 .. Len(s), NEW j \in 1 .. Len(s), t[i] = t[j]
               PROVE  i = j
    BY <1>2
  <2>1. s[i] = s[j]
    BY <1>1, <1>2 DEF OneToOne
  <2> QED
    BY <1>1, <2>1 DEF IsListing
<1>6. ASSUME NEW z \in Q
      PROVE  \E i \in DOMAIN t : t[i] = z
  <2>1. PICK x \in P : h[x] = z
    BY DEF OneToOne
  <2>2. PICK i \in 1 .. Len(s) : s[i] = x
    BY <1>1 DEF IsListing
  <2> QED
    BY <1>2, <2>1, <2>2
<1> QED
  BY <1>4, <1>5, <1>6 DEF IsListing, t

-----------------------------------------------------------------------------
(* Prefixes, and sequences put together *)

\* One element more of a prefix.
LEMMA PrefixGrows ==
  ASSUME NEW S, NEW t \in Seq(S), NEW k \in Nat, k < Len(t)
  PROVE  /\ SubSeq(t, 1, k) \in Seq(S)
         /\ t[k + 1] \in S
         /\ SubSeq(t, 1, k + 1) = Append(SubSeq(t, 1, k), t[k + 1])
<1>1. Len(t) \in Nat /\ k + 1 \in 1 .. Len(t) /\ \A i \in 1 .. Len(t) : t[i] \in S
  BY LenProperties, ElementOfSeq
<1>2. \A i \in 1 .. k : t[i] \in S
  BY <1>1
<1>3. SubSeq(t, 1, k) \in Seq(S)
  BY <1>2, SubSeqProperties
<1>4. SubSeq(t, 1, k + 1) = SubSeq(t, 1, (k + 1) - 1) \o <<t[k + 1]>>
  <2>1. 1 \in 1 .. Len(t) /\ k + 1 \in 1 .. Len(t)
    BY <1>1
  <2> QED
    BY <2>1, SubSeqRecursiveSecond
<1>5. (k + 1) - 1 = k /\ t[k + 1] \in S
  BY <1>1
<1> QED
  BY <1>3, <1>4, <1>5, AppendIsConcat

\* The shortest prefix, and the longest.
LEMMA PrefixEnds ==
  ASSUME NEW S, NEW t \in Seq(S)
  PROVE  SubSeq(t, 1, 0) = <<>> /\ SubSeq(t, 1, Len(t)) = t /\ Len(t) \in Nat
BY LenProperties, SubSeqEmpty, SubSeqFull

\* The fold over a prefix, and over one with an element more.
LEMMA FoldLeftPrefix ==
  ASSUME NEW base, NEW S, NEW t \in Seq(S)
  PROVE  /\ FoldLeft(Op, base, SubSeq(t, 1, 0)) = base
         /\ \A k \in 0 .. Len(t) - 1 :
              FoldLeft(Op, base, SubSeq(t, 1, k + 1))
                = Op(FoldLeft(Op, base, SubSeq(t, 1, k)), t[k + 1])
<1>1. SubSeq(t, 1, 0) = <<>> /\ Len(t) \in Nat
  BY PrefixEnds
<1>2. FoldLeft(Op, base, <<>>) = base
  BY FoldLeftEmpty
<1>3. ASSUME NEW k \in 0 .. Len(t) - 1
      PROVE  FoldLeft(Op, base, SubSeq(t, 1, k + 1))
               = Op(FoldLeft(Op, base, SubSeq(t, 1, k)), t[k + 1])
  <2>1. k \in Nat /\ k < Len(t)
    BY <1>1
  <2>2. /\ SubSeq(t, 1, k) \in Seq(S) /\ t[k + 1] \in S
        /\ SubSeq(t, 1, k + 1) = Append(SubSeq(t, 1, k), t[k + 1])
    BY <2>1, PrefixGrows
  <2> DEFINE p == SubSeq(t, 1, k)
             e == t[k + 1]
  <2>3. p \in Seq(S) /\ e \in S
    BY <2>2
  <2>4. SubSeq(t, 1, k + 1) = Append(p, e)
    BY <2>2
  <2> HIDE DEF p, e
  <2>5. FoldLeft(Op, base, Append(p, e)) = Op(FoldLeft(Op, base, p), e)
    BY ONLY <2>3, FoldLeftAppend, Zenon
  <2>6. FoldLeft(Op, base, SubSeq(t, 1, k + 1)) = Op(FoldLeft(Op, base, p), e)
    BY ONLY <2>4, <2>5, Zenon
  <2> QED
    BY <2>6, Zenon DEF p, e
<1> QED
  BY <1>1, <1>2, <1>3, Zenon

\* An element behind two sequences put together.
LEMMA ConcatAppend ==
  ASSUME NEW S, NEW s \in Seq(S), NEW u \in Seq(S), NEW e \in S
  PROVE  s \o Append(u, e) = Append(s \o u, e)
<1>1. <<e>> \in Seq(S)
  OBVIOUS
<1>2. Append(u, e) = u \o <<e>>
  BY AppendIsConcat
<1>3. s \o (u \o <<e>>) = (s \o u) \o <<e>>
  BY <1>1, ConcatAssociative
<1>4. s \o u \in Seq(S)
  BY ConcatProperties
<1>5. Append(s \o u, e) = (s \o u) \o <<e>>
  BY <1>4, AppendIsConcat
<1> QED
  BY <1>2, <1>3, <1>5

\* The fold over two sequences, one after the other.
LEMMA FoldLeftConcat ==
  ASSUME NEW base, NEW S, NEW s \in Seq(S), NEW t \in Seq(S)
  PROVE  FoldLeft(Op, base, s \o t) = FoldLeft(Op, FoldLeft(Op, base, s), t)
<1> DEFINE n == Len(t)
           front == FoldLeft(Op, base, s)
           Whole(u) == FoldLeft(Op, base, s \o u)
           Parts(u) == FoldLeft(Op, front, u)
           T == {k \in 0 .. n : Whole(SubSeq(t, 1, k)) = Parts(SubSeq(t, 1, k))}
<1>1. n \in Nat /\ SubSeq(t, 1, 0) = <<>> /\ SubSeq(t, 1, n) = t
  BY PrefixEnds
<1>2. 0 \in T
  <2>1. s \o <<>> = s
    BY ConcatEmptySeq
  <2>2. Whole(<<>>) = front
    BY <2>1
  <2> HIDE DEF front
  <2>3. Parts(<<>>) = front
    BY FoldLeftEmpty
  <2>4. 0 \in 0 .. n
    BY <1>1
  <2>5. Whole(SubSeq(t, 1, 0)) = Parts(SubSeq(t, 1, 0))
    <3> HIDE DEF Whole, Parts
    <3> QED
      BY <1>1, <2>2, <2>3, Zenon
  <2> HIDE DEF Whole, Parts, n
  <2> QED
    BY <2>4, <2>5
<1>3. ASSUME NEW k \in 0 .. n - 1, k \in T
      PROVE  k + 1 \in T
  <2> DEFINE u == SubSeq(t, 1, k)
             e == t[k + 1]
  <2>1. k \in Nat /\ k < Len(t) /\ k + 1 \in 0 .. n
    BY <1>1
  <2>2. u \in Seq(S) /\ e \in S /\ SubSeq(t, 1, k + 1) = Append(u, e)
    BY <2>1, PrefixGrows
  <2>3. Whole(u) = Parts(u)
    BY <1>3
  <2> HIDE DEF u, e, front
  <2>4. s \o Append(u, e) = Append(s \o u, e) /\ s \o u \in Seq(S)
    BY <2>2, ConcatAppend, ConcatProperties
  <2>5. Whole(Append(u, e)) = Op(Whole(u), e)
    <3> DEFINE v == s \o u
    <3>1. v \in Seq(S) /\ s \o Append(u, e) = Append(v, e)
      BY <2>4
    <3> HIDE DEF v
    <3>2. FoldLeft(Op, base, Append(v, e)) = Op(FoldLeft(Op, base, v), e)
      BY <2>2, <3>1, FoldLeftAppend
    <3> QED
      BY <3>1, <3>2 DEF v
  <2>6. Parts(Append(u, e)) = Op(Parts(u), e)
    BY <2>2, FoldLeftAppend
  <2> HIDE DEF Whole, Parts
  <2> QED
    BY <2>1, <2>2, <2>3, <2>5, <2>6
<1> HIDE DEF T
<1>4. \A k \in 0 .. n : k \in T
  BY <1>1, <1>2, <1>3, PrefixInduction
<1>5. n \in T
  BY <1>1, <1>4
<1>6. Whole(t) = Parts(t)
  <2> HIDE DEF Whole, Parts
  <2> QED
    BY <1>1, <1>5 DEF T
<1> QED
  BY <1>6

\* Flattening no sequence.
LEMMA FlattenEmpty == FlattenSeq(<<>>) = <<>>
BY EmptySeq DEF FlattenSeq

\* \o, as a name that the provers take no axioms for.
Joined(s, t) == s \o t

\* It is associative.
LEMMA JoinedAssociative ==
  ASSUME NEW S, NEW s \in Seq(S), NEW t \in Seq(S), NEW u \in Seq(S)
  PROVE  Joined(Joined(s, t), u) = Joined(s, Joined(t, u))
BY ConcatAssociative DEF Joined

\* Flattening two sequences of sequences, one after the other.
LEMMA FlattenConcat ==
  ASSUME NEW S, NEW s \in Seq(Seq(S)), NEW t \in Seq(Seq(S))
  PROVE  /\ FlattenSeq(s \o t) = FlattenSeq(s) \o FlattenSeq(t)
         /\ FlattenSeq(s) \in Seq(S)
<1> DEFINE n == Len(t)
           Whole(u) == FlattenSeq(s \o u)
           Parts(u) == FlattenSeq(s) \o FlattenSeq(u)
           T == {k \in 0 .. n : Whole(SubSeq(t, 1, k)) = Parts(SubSeq(t, 1, k))}
<1>1. n \in Nat /\ SubSeq(t, 1, 0) = <<>> /\ SubSeq(t, 1, n) = t
  BY PrefixEnds
<1>2. FlattenSeq(s) \in Seq(S)
  BY FlattenPlaces
<1>3. 0 \in T
  <2>1. s \o <<>> = s /\ FlattenSeq(s) \o <<>> = FlattenSeq(s)
    BY <1>2, ConcatEmptySeq
  <2>2. Whole(<<>>) = Parts(<<>>)
    BY <2>1, FlattenEmpty
  <2>3. 0 \in 0 .. n
    BY <1>1
  <2>4. Whole(SubSeq(t, 1, 0)) = Parts(SubSeq(t, 1, 0))
    <3> HIDE DEF Whole, Parts
    <3> QED
      BY <1>1, <2>2, Zenon
  <2> HIDE DEF Whole, Parts, n
  <2> QED
    BY <2>3, <2>4
<1>4. ASSUME NEW k \in 0 .. n - 1, k \in T
      PROVE  k + 1 \in T
  <2> DEFINE u == SubSeq(t, 1, k)
             e == t[k + 1]
  <2>1. k \in Nat /\ k < Len(t) /\ k + 1 \in 0 .. n
    BY <1>1
  <2>2. u \in Seq(Seq(S)) /\ e \in Seq(S) /\ SubSeq(t, 1, k + 1) = Append(u, e)
    BY <2>1, PrefixGrows
  <2>3. Whole(u) = Parts(u)
    BY <1>4
  <2> HIDE DEF u, e
  <2>4. Whole(Append(u, e)) = Whole(u) \o e
    <3> DEFINE v == s \o u
               Z == Seq(S)
    <3>0. s \in Seq(Z) /\ u \in Seq(Z) /\ e \in Z
      BY <2>2
    <3> HIDE DEF Z
    <3>1. v \in Seq(Z) /\ s \o Append(u, e) = Append(v, e)
      BY <3>0, ConcatAppend, ConcatProperties
    <3> USE DEF Z
    <3> HIDE DEF v
    <3>2. FlattenSeq(Append(v, e)) = FlattenSeq(v) \o e
      BY <2>2, <3>1, FlattenAppend
    <3> QED
      BY <3>1, <3>2 DEF v
  <2>5. Parts(Append(u, e)) = Parts(u) \o e
    <3> DEFINE f == FlattenSeq(s)
               g == FlattenSeq(u)
    <3>1. f \in Seq(S) /\ u \in Seq(Seq(S)) /\ e \in Seq(S)
      BY <1>2, <2>2
    <3>2. FlattenSeq(Append(u, e)) = g \o e /\ g \in Seq(S)
      BY <3>1, FlattenAppend
    <3> HIDE DEF f, g
    <3>3. f \in Seq(S) /\ g \in Seq(S) /\ e \in Seq(S)
      BY <3>1, <3>2
    <3>4. (f \o g) \o e = f \o (g \o e)
      <4>1. Joined(Joined(f, g), e) = Joined(f, Joined(g, e))
        BY ONLY <3>3, JoinedAssociative
      <4> QED
        BY ONLY <4>1 DEF Joined
    <3>5. f \o FlattenSeq(Append(u, e)) = (f \o g) \o e
      BY <3>2, <3>4
    <3> QED
      BY <3>5 DEF f, g
  <2> HIDE DEF Whole, Parts
  <2> QED
    BY <2>1, <2>2, <2>3, <2>4, <2>5
<1> HIDE DEF T
<1>5. \A k \in 0 .. n : k \in T
  BY <1>1, <1>3, <1>4, PrefixInduction
<1>6. n \in T
  BY <1>1, <1>5
<1>7. Whole(t) = Parts(t)
  <2> HIDE DEF Whole, Parts
  <2> QED
    BY <1>1, <1>6 DEF T
<1> QED
  BY <1>2, <1>7

\* Flattening sequences that are related one to one gives related sequences,
\* when the relation holds of no elements and of what is put together.
LEMMA FlattenRelated ==
  ASSUME NEW P, NEW V, NEW R, <<<<>>, <<>>>> \in R,
         \A p, q \in Seq(P), v, w \in Seq(V) :
           <<p, v>> \in R /\ <<q, w>> \in R => <<p \o q, v \o w>> \in R,
         NEW s \in Seq(Seq(P)), NEW t \in Seq(Seq(V)), Len(s) = Len(t),
         \A i \in 1 .. Len(s) : <<s[i], t[i]>> \in R
  PROVE  <<FlattenSeq(s), FlattenSeq(t)>> \in R
<1> DEFINE n == Len(s)
           A(k) == FlattenSeq(SubSeq(s, 1, k))
           B(k) == FlattenSeq(SubSeq(t, 1, k))
           T == {k \in 0 .. n : <<A(k), B(k)>> \in R}
<1>1. /\ n \in Nat /\ SubSeq(s, 1, 0) = <<>> /\ SubSeq(s, 1, n) = s
      /\ Len(t) = n /\ SubSeq(t, 1, 0) = <<>> /\ SubSeq(t, 1, n) = t
  <2>1. SubSeq(t, 1, 0) = <<>> /\ SubSeq(t, 1, Len(t)) = t
    BY PrefixEnds
  <2> QED
    BY <2>1, PrefixEnds
<1>2. 0 \in T
  <2>1. A(0) = <<>> /\ B(0) = <<>>
    BY <1>1, FlattenEmpty
  <2>2. 0 \in 0 .. n
    BY <1>1
  <2> HIDE DEF A, B, n
  <2>3. <<A(0), B(0)>> \in R
    BY <2>1, Zenon
  <2> QED
    BY <2>2, <2>3
<1>3. ASSUME NEW k \in 0 .. n - 1, k \in T
      PROVE  k + 1 \in T
  <2>1. k \in Nat /\ k < Len(s) /\ k < Len(t) /\ k + 1 \in 0 .. n /\ k + 1 \in 1 .. n
    BY <1>1
  <2>2. /\ SubSeq(s, 1, k) \in Seq(Seq(P)) /\ s[k + 1] \in Seq(P)
        /\ SubSeq(s, 1, k + 1) = Append(SubSeq(s, 1, k), s[k + 1])
    BY <2>1, PrefixGrows
  <2>3. /\ SubSeq(t, 1, k) \in Seq(Seq(V)) /\ t[k + 1] \in Seq(V)
        /\ SubSeq(t, 1, k + 1) = Append(SubSeq(t, 1, k), t[k + 1])
    BY <2>1, PrefixGrows
  <2>4. A(k) \in Seq(P) /\ A(k + 1) = A(k) \o s[k + 1]
    BY <2>2, FlattenAppend
  <2>5. B(k) \in Seq(V) /\ B(k + 1) = B(k) \o t[k + 1]
    BY <2>3, FlattenAppend
  <2>6. <<A(k), B(k)>> \in R /\ <<s[k + 1], t[k + 1]>> \in R
    BY <1>3, <2>1
  <2> HIDE DEF A, B
  <2>7. <<A(k) \o s[k + 1], B(k) \o t[k + 1]>> \in R
    BY <2>2, <2>3, <2>4, <2>5, <2>6
  <2> QED
    BY <2>1, <2>4, <2>5, <2>7
<1> HIDE DEF T
<1>4. \A k \in 0 .. n : k \in T
  BY <1>1, <1>2, <1>3, PrefixInduction
<1>5. n \in T
  BY <1>1, <1>4
<1> QED
  BY <1>1, <1>5 DEF T

-----------------------------------------------------------------------------
(* Sums over the first numbers *)

\* As many things as c says, of each number up to n.
Heap(c, n) == [i \in 1 .. n |-> {i} \X (1 .. c[i])]

\* c has a number for each number up to n.
Numbered(c, n) == \A i \in 1 .. n : c[i] \in Nat

\* A sum counts them.
LEMMA SumCounts ==
  ASSUME NEW n \in Nat, NEW c, Numbered(c, n)
  PROVE  /\ \A i \in 1 .. n : /\ IsFiniteSet(Heap(c, n)[i])
                              /\ Cardinality(Heap(c, n)[i]) = c[i]
         /\ IsFiniteSet(AllParts(Heap(c, n), 1 .. n))
         /\ SumFunctionOnSet(c, 1 .. n) = Cardinality(AllParts(Heap(c, n), 1 .. n))
<1> DEFINE h == Heap(c, n)
<1>1. ASSUME NEW i \in 1 .. n
      PROVE  IsFiniteSet(h[i]) /\ Cardinality(h[i]) = c[i]
  <2>1. h[i] = {i} \X (1 .. c[i])
    BY DEF Heap
  <2> DEFINE m == c[i]
             U == 1 .. m
  <2>2. m \in Nat
    BY DEF Numbered
  <2> HIDE DEF h, m
  <2>3. IsFiniteSet(U) /\ Cardinality(U) = m
    BY <2>2, FS_Interval
  <2>4. IsFiniteSet({i}) /\ Cardinality({i}) = 1
    BY FS_Singleton
  <2> HIDE DEF U
  <2>5. IsFiniteSet({i} \X U) /\ Cardinality({i} \X U) = Cardinality({i}) * Cardinality(U)
    BY <2>3, <2>4, FS_Product
  <2>6. Cardinality({i} \X U) = m
    BY <2>2, <2>3, <2>4, <2>5
  <2> QED
    BY <2>1, <2>5, <2>6 DEF U, m
<1>2. \A i, j \in 1 .. n : i # j => h[i] \cap h[j] = {}
  BY DEF Heap
<1> HIDE DEF h
<1>3. IsFiniteSet(1 .. n)
  BY FS_Interval
<1>4. Measured(c, h, 1 .. n)
  BY <1>1, <1>2, <1>3 DEF Measured
<1>5. /\ IsFiniteSet(AllParts(h, 1 .. n))
      /\ SumFunctionOnSet(c, 1 .. n) = Cardinality(AllParts(h, 1 .. n))
  BY <1>4, SumOfParts
<1> QED
  BY <1>1, <1>5 DEF h

\* A sum up to n looks at what c says of these numbers only.
LEMMA SumSame ==
  ASSUME NEW n \in Nat, NEW c, NEW d, Numbered(c, n), \A i \in 1 .. n : d[i] = c[i]
  PROVE  SumFunctionOnSet(c, 1 .. n) = SumFunctionOnSet(d, 1 .. n)
<1>1. Heap(c, n) = Heap(d, n)
  BY DEF Heap
<1>2. SumFunctionOnSet(c, 1 .. n) = Cardinality(AllParts(Heap(c, n), 1 .. n))
  BY SumCounts
<1>3. Numbered(d, n)
  BY DEF Numbered
<1>4. SumFunctionOnSet(d, 1 .. n) = Cardinality(AllParts(Heap(d, n), 1 .. n))
  BY <1>3, SumCounts
<1> QED
  BY <1>1, <1>2, <1>4

\* A sum over no number, ...
LEMMA SumOfNone ==
  ASSUME NEW c
  PROVE  SumFunctionOnSet(c, 1 .. 0) = 0
<1>1. SumFunctionOnSet(c, 1 .. 0) = Cardinality(AllParts(Heap(c, 0), 1 .. 0))
  <2> DEFINE n == 0
  <2>1. n \in Nat /\ Numbered(c, n)
    BY DEF Numbered
  <2> HIDE DEF n
  <2>2. SumFunctionOnSet(c, 1 .. n) = Cardinality(AllParts(Heap(c, n), 1 .. n))
    BY <2>1, SumCounts
  <2> QED
    BY <2>2 DEF n
<1>2. AllParts(Heap(c, 0), 1 .. 0) = {}
  BY DEF AllParts
<1> QED
  BY <1>1, <1>2, FS_EmptySet

\* ... and over one more.
LEMMA SumOfOneMore ==
  ASSUME NEW n \in Nat, NEW c, Numbered(c, n + 1)
  PROVE  /\ SumFunctionOnSet(c, 1 .. n) \in Nat
         /\ SumFunctionOnSet(c, 1 .. n + 1) = SumFunctionOnSet(c, 1 .. n) + c[n + 1]
<1> DEFINE A == AllParts(Heap(c, n), 1 .. n)
           B == AllParts(Heap(c, n + 1), 1 .. n + 1)
           last == Heap(c, n + 1)[n + 1]
<1>1. n + 1 \in Nat /\ n + 1 \in 1 .. n + 1 /\ \A i \in 1 .. n : i \in 1 .. n + 1 /\ i # n + 1
  OBVIOUS
<1>2. \A i \in 1 .. n : Heap(c, n + 1)[i] = Heap(c, n)[i]
  BY <1>1 DEF Heap
<1>3. \A i \in 1 .. n + 1 : i \in 1 .. n \/ i = n + 1
  OBVIOUS
<1>4. B = A \cup last
  BY <1>1, <1>2, <1>3 DEF AllParts
<1>5. A \cap last = {}
  <2>1. last = {n + 1} \X (1 .. c[n + 1])
    BY <1>1 DEF Heap
  <2>2. \A i \in 1 .. n : Heap(c, n)[i] = {i} \X (1 .. c[i])
    BY DEF Heap
  <2>3. \A z \in A : z[1] # n + 1
    BY <1>1, <2>2 DEF AllParts
  <2> QED
    BY <2>1, <2>3
<1>6. IsFiniteSet(A) /\ SumFunctionOnSet(c, 1 .. n) = Cardinality(A)
  <2>1. Numbered(c, n)
    BY <1>1 DEF Numbered
  <2> QED
    BY <2>1, SumCounts
<1>7. /\ IsFiniteSet(last) /\ Cardinality(last) = c[n + 1]
      /\ SumFunctionOnSet(c, 1 .. n + 1) = Cardinality(B)
  <2> DEFINE m == n + 1
  <2>1. m \in Nat /\ m \in 1 .. m /\ Numbered(c, m)
    BY <1>1
  <2> HIDE DEF m
  <2>2. /\ IsFiniteSet(Heap(c, m)[m]) /\ Cardinality(Heap(c, m)[m]) = c[m]
        /\ SumFunctionOnSet(c, 1 .. m) = Cardinality(AllParts(Heap(c, m), 1 .. m))
    <3>1. \A i \in 1 .. m : IsFiniteSet(Heap(c, m)[i]) /\ Cardinality(Heap(c, m)[i]) = c[i]
      BY <2>1, SumCounts
    <3>2. SumFunctionOnSet(c, 1 .. m) = Cardinality(AllParts(Heap(c, m), 1 .. m))
      BY <2>1, SumCounts, Zenon
    <3>3. m \in 1 .. m
      BY <2>1
    <3>4. IsFiniteSet(Heap(c, m)[m]) /\ Cardinality(Heap(c, m)[m]) = c[m]
      BY <3>1, <3>3, Zenon
    <3> QED
      BY <3>2, <3>4
  <2> QED
    BY <2>2 DEF m
<1> HIDE DEF A, B, last
<1>8. Cardinality(A) \in Nat /\ c[n + 1] \in Nat
  BY <1>1, <1>6, FS_CardinalityType DEF Numbered
<1>9. Cardinality(A \cup last) = Cardinality(A) + Cardinality(last) - Cardinality({})
  BY <1>5, <1>6, <1>7, FS_Union
<1> QED
  BY <1>4, <1>6, <1>7, <1>8, <1>9, FS_EmptySet

=============================================================================
