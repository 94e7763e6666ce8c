----------------------- MODULE PlanExecution_proofs -----------------------
(***************************************************************************)
(* Proofs about PlanExecution: every node of a plan returns the rows that  *)
(* nested loops over its tables would find, each as often as they do.      *)
(*                                                                         *)
(* The rows of a node carry the numbers of the base rows they are made of, *)
(* so they are a set, and a result is right if it lists that set: row i of *)
(* its columns is the i-th row of a listing (Answered).  A join lists the  *)
(* pairs of build and probe rows that match, and takes each pair to a row; *)
(* both sides being listed, this is one to one (PairsAreRows), and the     *)
(* image of a listing of the pairs is a listing of the rows.               *)
(*                                                                         *)
(* The inductive invariant Inv says                                        *)
(*   - of the calls of execute_impl, that they go down from the root, and  *)
(*     that each has the answers of the nodes it has evaluated (TreeInv);  *)
(*   - of the hash table, that it lists the build rows of each key         *)
(*     (JoinInv);                                                          *)
(*   - of work_counter, that each unit taken is in the hands of one thread *)
(*     or in its buffers, and that a thread which has left has seen the    *)
(*     counter past the last unit (UnitsHeld);                             *)
(*   - of thread_results, that the buffers of each thread are the images   *)
(*     of a listing of the matches of the units it has gone through, the   *)
(*     threads' units being disjoint and together all that are probed      *)
(*     (Gathered).                                                         *)
(***************************************************************************)
EXTENDS PlanExecution, Counting

-----------------------------------------------------------------------------
(* Columns                                                                 *)

\* How many units len values take, and where they begin and end.
LEMMA UnitBounds ==
  ASSUME NEW len \in Nat, NEW n \in Nat \ {0}, NEW k, k = (len + n - 1) \div n
  PROVE  /\ k \in Nat
         /\ len <= k * n
         /\ \A p \in 1 .. k : /\ (p - 1) * n \in Nat /\ p * n \in Nat
                              /\ p * n = (p - 1) * n + n
                              /\ (p - 1) * n < len
                              /\ p < k => p * n <= len
<1> DEFINE m == len + n - 1
<1>1. m \in Nat /\ m = len + n - 1
  OBVIOUS
<1> HIDE DEF m
<1>2. k = m \div n
  BY DEF m
<1>3. k \in Nat
  BY <1>1, <1>2, Division
<1>4. k * n <= m /\ m < (k + 1) * n
  BY <1>1, <1>2, <1>3, Enclosed
<1>5. (k + 1) * n = k * n + n /\ k * n \in Nat
  BY <1>3
<1>6. len <= k * n /\ k * n <= len + n - 1
  BY <1>1, <1>4, <1>5
<1>7. ASSUME NEW p \in 1 .. k
      PROVE  /\ (p - 1) * n \in Nat /\ p * n \in Nat
             /\ p * n = (p - 1) * n + n
             /\ (p - 1) * n < len
             /\ p < k => p * n <= len
  <2>1. p \in Nat /\ p - 1 \in Nat /\ p <= k /\ p = (p - 1) + 1
    BY <1>3
  <2>2. p * n <= k * n /\ p * n \in Nat
    BY <1>3, <2>1, Monotone
  <2>3. (p - 1) * n \in Nat /\ ((p - 1) + 1) * n = (p - 1) * n + n
    BY <2>1
  <2>4. p * n = (p - 1) * n + n
    BY <2>1, <2>3
  <2>5. CASE p < k
    <3>1. p + 1 \in Nat /\ p + 1 <= k
      BY <1>3, <2>1, <2>5
    <3>2. (p + 1) * n <= k * n
      BY <1>3, <3>1, Monotone
    <3>3. (p + 1) * n = p * n + n
      BY <2>1
    <3> QED
      BY <1>5, <1>6, <2>2, <2>3, <2>4, <3>2, <3>3
  <2> QED
    BY <1>5, <1>6, <2>1, <2>2, <2>3, <2>4, <2>5
<1> QED
  BY <1>3, <1>6, <1>7

\* Units of n of the values, all full but the last.
AreUnits(units, vals, n, k) ==
  \A p \in 1 .. k :
    /\ Len(units[p]) = IF p * n <= Len(vals) THEN n ELSE Len(vals) - (p - 1) * n
    /\ Len(units[p]) \in Nat
    /\ \A i \in 1 .. Len(units[p]) : units[p][i] = vals[(p - 1) * n + i]

\* The units of vals are sequences of its values.
LEMMA UnitValues ==
  ASSUME NEW V, NEW vals \in Seq(V), NEW n \in Nat \ {0},
         NEW k, k = (Len(vals) + n - 1) \div n
  PROVE  /\ Units(vals, n) \in Seq(Seq(V))
         /\ Len(Units(vals, n)) = k
         /\ k \in Nat
         /\ AreUnits(Units(vals, n), vals, n, k)
<1> DEFINE len == Len(vals)
           First(p) == (p - 1) * n + 1
           Final(p) == Min({p * n, len})
<1>1. len \in Nat /\ \A r \in 1 .. len : vals[r] \in V
  BY LenProperties
<1>2. /\ k \in Nat
      /\ len <= k * n
      /\ \A p \in 1 .. k : /\ (p - 1) * n \in Nat /\ p * n \in Nat
                           /\ p * n = (p - 1) * n + n
                           /\ (p - 1) * n < len
                           /\ p < k => p * n <= len
  <2> HIDE DEF len
  <2>1. k = (len + n - 1) \div n
    BY DEF len
  <2> QED
    BY <1>1, <2>1, UnitBounds
<1>3. Units(vals, n) = [p \in 1 .. k |-> SubSeq(vals, First(p), Final(p))]
  BY DEF Units
<1> HIDE DEF len
<1>4. ASSUME NEW p \in 1 .. k
      PROVE  /\ SubSeq(vals, First(p), Final(p)) \in Seq(V)
             /\ Len(SubSeq(vals, First(p), Final(p))) = IF p * n <= len THEN n ELSE len - (p - 1) * n
             /\ Len(SubSeq(vals, First(p), Final(p))) \in Nat
             /\ \A i \in 1 .. Len(SubSeq(vals, First(p), Final(p))) :
                  SubSeq(vals, First(p), Final(p))[i] = vals[(p - 1) * n + i]
  <2> DEFINE a == First(p)
             b == Final(p)
             t == SubSeq(vals, a, b)
             before == (p - 1) * n
             after == p * n
  <2>1. before \in Nat /\ after \in Nat /\ after = before + n /\ before < len
    BY <1>2
  <2>2. a = before + 1 /\ b = IF after <= len THEN after ELSE len
    <3>1. after \in Int /\ len \in Int
      BY <1>1, <2>1
    <3> HIDE DEF after
    <3>2. Min({after, len}) = IF after <= len THEN after ELSE len
      BY <3>1, TwoMin
    <3> QED
      BY <3>2 DEF after
  <2> HIDE DEF a, b, before, after
  <2>3. a \in Int /\ b \in Int /\ a <= b /\ b <= len /\ a >= 1
    BY <1>1, <2>1, <2>2
  <2>4. \A r \in a .. b : vals[r] \in V
    BY <1>1, <2>3
  <2>5. /\ t \in Seq(V)
        /\ Len(t) = IF a <= b THEN b - a + 1 ELSE 0
        /\ \A i \in 1 .. b - a + 1 : t[i] = vals[a + i - 1]
    BY <2>3, <2>4, SubSeqProperties
  <2> HIDE DEF t
  <2>6. Len(t) = b - a + 1 /\ Len(t) \in Nat
    BY <2>3, <2>5
  <2>7. Len(t) = IF after <= len THEN n ELSE len - before
    BY <1>1, <2>1, <2>2, <2>6
  <2>8. \A i \in 1 .. Len(t) : t[i] = vals[before + i]
    <3> TAKE i \in 1 .. Len(t)
    <3>1. i \in 1 .. b - a + 1 /\ i \in Int
      BY <2>6
    <3>3. a + i - 1 = before + i
      BY <2>1, <2>2, <3>1
    <3>2. t[i] = vals[a + i - 1]
      BY <2>5, <3>1
    <3> QED
      BY <3>2, <3>3
  <2> QED
    BY <2>5, <2>6, <2>7, <2>8 DEF t, before, after, a, b
<1> HIDE DEF First, Final
<1> DEFINE Piece(p) == SubSeq(vals, First(p), Final(p))
           units == [p \in 1 .. k |-> Piece(p)]
<1>5. \A p \in 1 .. k : Piece(p) \in Seq(V)
  BY <1>4
<1>9. \A p \in 1 .. k :
        /\ Len(Piece(p)) = IF p * n <= len THEN n ELSE len - (p - 1) * n
        /\ Len(Piece(p)) \in Nat
        /\ \A i \in 1 .. Len(Piece(p)) : Piece(p)[i] = vals[(p - 1) * n + i]
  BY <1>4
<1> HIDE DEF Piece
<1>6. units \in Seq(Seq(V)) /\ Len(units) = k /\ \A p \in 1 .. k : units[p] = Piece(p)
  BY <1>2, <1>5
<1>7. Units(vals, n) = units
  BY <1>3 DEF Piece
<1> HIDE DEF units
<1>8. AreUnits(units, vals, n, k)
  <2>1. ASSUME NEW p \in 1 .. k
        PROVE  /\ Len(units[p]) = IF p * n <= len THEN n ELSE len - (p - 1) * n
               /\ Len(units[p]) \in Nat
               /\ \A i \in 1 .. Len(units[p]) : units[p][i] = vals[(p - 1) * n + i]
    <3>1. units[p] = Piece(p)
      BY <1>6
    <3>2. /\ Len(Piece(p)) = IF p * n <= len THEN n ELSE len - (p - 1) * n
          /\ Len(Piece(p)) \in Nat
          /\ \A i \in 1 .. Len(Piece(p)) : Piece(p)[i] = vals[(p - 1) * n + i]
      BY <1>9
    <3> QED
      BY <3>1, <3>2, Zenon
  <2> QED
    BY <2>1 DEF AreUnits, len
<1> QED
  BY <1>2, <1>6, <1>7, <1>8

\* Place i of unit u has a row of that unit, which begins with row u * n, ...
PlaceHasRow(col, vals, n, u, i) ==
  /\ u * n + i - 1 \in 0 .. Len(vals) - 1
  /\ (u * n + i - 1) \div n = u
  /\ col.units[u + 1][i] = vals[u * n + i]

\* ... and row r has a place, where get_value finds its value.
RowHasPlace(col, vals, n, r) ==
  /\ r \div n \in 0 .. Len(col.units) - 1
  /\ (r % n) + 1 \in 1 .. Len(col.units[r \div n + 1])
  /\ r = (r \div n) * n + ((r % n) + 1) - 1
  /\ GetValue(col, r) = vals[r + 1]

\* Every place of a unit has its row, and every row its place.
LEMMA RowsOfUnit ==
  ASSUME NEW V, NEW vals \in Seq(V), NEW n \in Nat \ {0}, NEW d,
         NEW col, col = Column(vals, n, d)
  PROVE  /\ \A u \in 0 .. Len(col.units) - 1 : \A i \in 1 .. Len(col.units[u + 1]) :
              PlaceHasRow(col, vals, n, u, i)
         /\ \A r \in 0 .. Len(vals) - 1 : RowHasPlace(col, vals, n, r)
<1> DEFINE len == Len(vals)
           units == Units(vals, n)
           k == (len + n - 1) \div n
<1>1. len \in Nat
  BY LenProperties
<1>2. /\ units \in Seq(Seq(V))
      /\ Len(units) = k
      /\ k \in Nat
      /\ \A p \in 1 .. k : /\ Len(units[p]) = IF p * n <= len THEN n ELSE len - (p - 1) * n
                           /\ Len(units[p]) \in Nat
                           /\ \A i \in 1 .. Len(units[p]) : units[p][i] = vals[(p - 1) * n + i]
  <2>1. units \in Seq(Seq(V)) /\ Len(units) = k /\ k \in Nat /\ AreUnits(units, vals, n, k)
    BY UnitValues
  <2> HIDE DEF units, k
  <2> QED
    BY <2>1 DEF AreUnits
<1>3. /\ len <= k * n
      /\ \A p \in 1 .. k : /\ (p - 1) * n \in Nat /\ p * n \in Nat
                           /\ p * n = (p - 1) * n + n
                           /\ (p - 1) * n < len
                           /\ p < k => p * n <= len
  <2> HIDE DEF len
  <2> QED
    BY <1>1, UnitBounds
<1>4. col.units = units /\ col.width = n
  BY DEF Column
<1> HIDE DEF len, units, k
<1>5. ASSUME NEW u \in 0 .. k - 1, NEW i \in 1 .. Len(units[u + 1])
      PROVE  /\ u * n + i - 1 \in 0 .. len - 1
             /\ (u * n + i - 1) \div n = u
             /\ units[u + 1][i] = vals[u * n + i]
  <2> DEFINE p == u + 1
             before == u * n
  <2>1. u \in Nat /\ p \in 1 .. k /\ p - 1 = u
    BY <1>2
  <2>2. before \in Nat /\ p * n = before + n /\ before < len
    BY <1>3, <2>1
  <2>3. Len(units[p]) = (IF p * n <= len THEN n ELSE len - (p - 1) * n) /\ Len(units[p]) \in Nat
    BY <1>2, <2>1
  <2>4. Len(units[p]) = IF p * n <= len THEN n ELSE len - before
    BY <2>1, <2>3
  <2>5. units[p][i] = vals[before + i]
    <3>1. units[p][i] = vals[(p - 1) * n + i]
      BY <1>2, <2>1
    <3> QED
      BY <2>1, <3>1
  <2> DEFINE r == before + i - 1
             c == p * n
  <2>6. i \in Nat /\ i >= 1 /\ i <= Len(units[p])
    BY <2>3
  <2> HIDE DEF before
  <2>7. c \in Nat /\ c = before + n /\ Len(units[p]) = IF c <= len THEN n ELSE len - before
    BY <2>2, <2>4
  <2> HIDE DEF c
  <2>8. r \in Nat /\ r < len /\ r < c /\ before <= r /\ r = before + i - 1
    BY <1>1, <2>2, <2>3, <2>6, <2>7
  <2> HIDE DEF r
  <2>9. r \in 0 .. len - 1
    BY <1>1, <2>8
  <2>10. r \div n = u
    <3>1. u * n <= r /\ r < p * n /\ p \in Nat
      BY <2>1, <2>8 DEF before, c
    <3>2. u <= r \div n /\ r \div n < p
      BY <2>1, <2>8, <3>1, QuotientBetween
    <3>3. r \div n \in Nat
      BY <2>8, Division
    <3> QED
      BY <2>1, <3>2, <3>3
  <2> QED
    BY <2>5, <2>9, <2>10 DEF r, before
<1>6. ASSUME NEW r \in 0 .. len - 1
      PROVE  /\ r \div n \in 0 .. k - 1
             /\ (r % n) + 1 \in 1 .. Len(units[r \div n + 1])
             /\ r = (r \div n) * n + ((r % n) + 1) - 1
             /\ GetValue(col, r) = vals[r + 1]
  <2> DEFINE u == r \div n
             i == (r % n) + 1
             before == u * n
  <2>1. r \in Nat /\ r < len
    BY <1>1
  <2>2. u \in Nat /\ r % n \in 0 .. n - 1 /\ r = n * u + (r % n)
    BY <2>1, Division
  <2> DEFINE rest == r % n
  <2> HIDE DEF u
  <2>3. before \in Nat /\ before = n * u
    BY <2>2
  <2> HIDE DEF before, rest
  <2>4. rest \in 0 .. n - 1 /\ r = before + rest /\ rest \in Nat
    BY <2>2, <2>3 DEF rest
  <2>5. u < k
    <3>1. CASE k <= u
      <4>1. k * n <= u * n /\ k * n \in Nat
        BY <1>2, <2>2, <3>1, Monotone
      <4> DEFINE c == k * n
      <4>2. c \in Nat /\ c <= before /\ len <= c
        BY <1>3, <4>1 DEF before
      <4> HIDE DEF c
      <4> QED
        BY <1>1, <2>1, <2>3, <2>4, <4>2
    <3> QED
      BY <1>2, <2>2, <3>1
  <2>6. u \in 0 .. k - 1 /\ u + 1 \in 1 .. k /\ (u + 1) - 1 = u
    BY <1>2, <2>2, <2>5
  <2>7. Len(units[u + 1]) = (IF (u + 1) * n <= len THEN n ELSE len - before) /\ Len(units[u + 1]) \in Nat
    <3>1. /\ Len(units[u + 1]) = IF (u + 1) * n <= len THEN n ELSE len - ((u + 1) - 1) * n
          /\ Len(units[u + 1]) \in Nat
      BY <1>2, <2>6
    <3> QED
      BY <2>6, <3>1 DEF before
  <2>8. i \in 1 .. Len(units[u + 1])
    <3> DEFINE c == (u + 1) * n
    <3> HIDE DEF c
    <3>1. Len(units[u + 1]) = (IF c <= len THEN n ELSE len - before) /\ Len(units[u + 1]) \in Nat
      BY <2>7 DEF c
    <3>2. i = rest + 1
      BY DEF rest
    <3>3. before \in Nat /\ len \in Nat
      BY <1>1, <2>3
    <3> HIDE DEF i
    <3> QED
      BY ONLY <1>1, <2>1, <2>4, <3>1, <3>2, <3>3
  <2>9. r = before + i - 1
    <3>1. i = rest + 1
      BY DEF rest
    <3> QED
      BY <2>3, <2>4, <3>1
  <2>10. GetValue(col, r) = vals[r + 1]
    <3>1. GetValue(col, r) = units[u + 1][i]
      BY <1>4 DEF GetValue, u
    <3>2. units[u + 1][i] = vals[((u + 1) - 1) * n + i]
      BY <1>2, <2>6, <2>8
    <3>3. before + i = r + 1
      <4>1. i = rest + 1
        BY DEF rest
      <4> QED
        BY <2>3, <2>4, <4>1
    <3>4. ((u + 1) - 1) * n + i = before + i
      BY <2>6 DEF before
    <3> HIDE DEF i
    <3> QED
      BY <3>1, <3>2, <3>3, <3>4
  <2> QED
    BY <2>6, <2>8, <2>9, <2>10 DEF u, before
<1>7. ASSUME NEW u \in 0 .. Len(col.units) - 1, NEW i \in 1 .. Len(col.units[u + 1])
      PROVE  PlaceHasRow(col, vals, n, u, i)
  BY <1>2, <1>4, <1>5 DEF PlaceHasRow, len
<1>8. ASSUME NEW r \in 0 .. Len(vals) - 1
      PROVE  RowHasPlace(col, vals, n, r)
  BY <1>2, <1>4, <1>6 DEF RowHasPlace, len
<1> QED
  BY <1>7, <1>8

\* The units of a column have its values, one after the other.
LEMMA LengthOfUnits ==
  ASSUME NEW V, NEW vals \in Seq(V), NEW n \in Nat \ {0}
  PROVE  Len(FlattenSeq(Units(vals, n))) = Len(vals)
<1> DEFINE len == Len(vals)
           units == Units(vals, n)
           k == (len + n - 1) \div n
<1>1. len \in Nat
  BY LenProperties
<1>2. units \in Seq(Seq(V)) /\ Len(units) = k /\ k \in Nat /\ AreUnits(units, vals, n, k)
  BY UnitValues
<1>3. /\ len <= k * n
      /\ \A p \in 1 .. k : /\ (p - 1) * n \in Nat /\ p * n \in Nat
                           /\ p * n = (p - 1) * n + n
                           /\ (p - 1) * n < len
                           /\ p < k => p * n <= len
  <2> HIDE DEF len
  <2> QED
    BY <1>1, UnitBounds
<1> HIDE DEF len, units, k
<1>4. PICK f \in [0 .. Len(units) -> Seq(V)] :
        /\ f[0] = <<>>
        /\ \A i \in 1 .. Len(units) : f[i] = f[i - 1] \o units[i]
        /\ FlattenSeq(units) = f[Len(units)]
  BY <1>2, Flattening
<1> DEFINE T == {p \in Nat : Len(f[p]) = IF p * n <= len THEN p * n ELSE len}
<1>5. 0 \in T
  <2>1. Len(f[0]) = 0 /\ 0 * n = 0
    BY <1>4
  <2> QED
    BY <1>1, <2>1
<1>6. ASSUME NEW p \in 0 .. k - 1, p \in T
      PROVE  p + 1 \in T
  <2>1. p \in Nat /\ p \in 0 .. k /\ p + 1 \in Nat /\ p + 1 \in 1 .. k /\ (p + 1) - 1 = p
    BY <1>2
  <2>2. f[p + 1] = f[(p + 1) - 1] \o units[p + 1]
    BY <1>2, <1>4, <2>1
  <2>3. f[p + 1] = f[p] \o units[p + 1]
    BY <2>1, <2>2
  <2>4. f[p] \in Seq(V) /\ units[p + 1] \in Seq(V)
    <3>1. f[p] \in Seq(V)
      BY <1>2, <1>4, <2>1
    <3>2. units[p + 1] \in Seq(V)
      BY <1>2, <2>1, ElementOfSeq
    <3> QED
      BY <3>1, <3>2
  <2>5. Len(f[p + 1]) = Len(f[p]) + Len(units[p + 1])
    BY <2>3, <2>4, ConcatProperties
  <2>6. /\ p * n \in Nat /\ (p + 1) * n = p * n + n /\ p * n < len
    <3>1. /\ ((p + 1) - 1) * n \in Nat /\ (p + 1) * n = ((p + 1) - 1) * n + n
          /\ ((p + 1) - 1) * n < len
      BY <1>3, <2>1
    <3> QED
      BY <2>1, <3>1
  <2>7. Len(units[p + 1]) = IF (p + 1) * n <= len THEN n ELSE len - p * n
    <3>1. Len(units[p + 1]) = IF (p + 1) * n <= len THEN n ELSE len - ((p + 1) - 1) * n
      BY <1>2, <2>1 DEF AreUnits, len
    <3> QED
      BY <2>1, <3>1
  <2> DEFINE a == p * n
             b == (p + 1) * n
             c == Len(f[p + 1])
  <2>8. Len(f[p]) = IF a <= len THEN a ELSE len
    BY <1>6
  <2>9. a \in Nat /\ b = a + n /\ a < len /\ Len(units[p + 1]) = IF b <= len THEN n ELSE len - a
    BY <2>6, <2>7
  <2>10. c = Len(f[p]) + Len(units[p + 1])
    BY <2>5
  <2> HIDE DEF a, b, c
  <2>11. c = IF b <= len THEN b ELSE len
    BY <1>1, <2>8, <2>9, <2>10
  <2> QED
    BY <2>1, <2>11 DEF b, c
<1> HIDE DEF T
<1>7. \A p \in 0 .. k : p \in T
  BY <1>2, <1>5, <1>6, PrefixInduction
<1>8. Len(f[k]) = IF k * n <= len THEN k * n ELSE len
  <2>1. k \in 0 .. k
    BY <1>2
  <2> QED
    BY <1>7, <2>1 DEF T
<1>9. Len(f[k]) = len
  <2> DEFINE c == k * n
  <2>1. c \in Nat /\ len <= c /\ Len(f[k]) = IF c <= len THEN c ELSE len
    BY <1>2, <1>3, <1>8
  <2> HIDE DEF c
  <2> QED
    BY <1>1, <2>1
<1> QED
  BY <1>2, <1>4, <1>9 DEF units, len

\* A sum of u times n.
LEMMA SumOfEqual ==
  ASSUME NEW c, NEW u \in Nat, NEW n \in Nat \ {0}, DOMAIN c = 1 .. u,
         \A p \in 1 .. u : c[p] = n
  PROVE  SumFunction(c) = u * n
<1> DEFINE parts == [p \in 1 .. u |-> (p - 1) * n + 1 .. p * n]
           total == u * n
           U == 1 .. total
<1>1. total \in Nat
  OBVIOUS
<1>2. ASSUME NEW p \in 1 .. u
      PROVE  /\ (p - 1) * n \in Nat /\ p * n = (p - 1) * n + n /\ p * n \in Nat
             /\ p - 1 \in Nat /\ p \in Nat /\ p <= u
             /\ p * n <= total
  <2>1. p - 1 \in Nat /\ p \in Nat /\ p = (p - 1) + 1 /\ p <= u
    OBVIOUS
  <2>2. (p - 1) * n \in Nat /\ ((p - 1) + 1) * n = (p - 1) * n + n
    BY <2>1
  <2>3. p * n <= u * n /\ p * n \in Nat
    BY <2>1, Monotone
  <2> QED
    BY <2>1, <2>2, <2>3
<1>3. \A p \in 1 .. u : parts[p] = (p - 1) * n + 1 .. p * n
  OBVIOUS
<1> HIDE DEF parts
<1>4. ASSUME NEW p \in 1 .. u, NEW z \in Int
      PROVE  z \in parts[p] <=> z - 1 \in Nat /\ (z - 1) \div n = p - 1
  <2>1. ASSUME z \in parts[p]
        PROVE  z - 1 \in Nat /\ (z - 1) \div n = p - 1
    <3> DEFINE a == (p - 1) * n
               b == p * n
               y == z - 1
    <3>1. a \in Nat /\ b \in Nat /\ z \in a + 1 .. b
      BY <1>2, <1>3, <2>1
    <3> HIDE DEF a, b
    <3>2. y \in Nat /\ a <= y /\ y < b
      BY <3>1
    <3> HIDE DEF y
    <3>3. (p - 1) * n <= y /\ y < p * n
      BY <3>2 DEF a, b
    <3>4. p - 1 <= y \div n /\ y \div n < p
      BY <1>2, <3>2, <3>3, QuotientBetween
    <3>5. y \div n \in Nat
      BY <3>2, Division
    <3>6. y \div n = p - 1
      BY <1>2, <3>4, <3>5
    <3> QED
      BY <3>2, <3>6 DEF y
  <2>2. ASSUME z - 1 \in Nat, (z - 1) \div n = p - 1
        PROVE  z \in parts[p]
    <3> DEFINE y == z - 1
               a == (p - 1) * n
               b == p * n
    <3>1. y \in Nat /\ y \div n = p - 1
      BY <2>2
    <3> HIDE DEF y
    <3>2. (p - 1) * n <= y /\ y < ((p - 1) + 1) * n
      BY <1>2, <3>1, Enclosed
    <3>3. a \in Nat /\ b \in Nat /\ a <= y /\ y < b
      <4>1. (p - 1) + 1 = p
        BY <1>2
      <4> QED
        BY <1>2, <3>2, <4>1
    <3> HIDE DEF a, b
    <3>4. z \in a + 1 .. b
      BY <3>1, <3>3 DEF y
    <3> QED
      BY <1>3, <3>4 DEF a, b
  <2> QED
    BY <2>1, <2>2
<1>5. ASSUME NEW p \in 1 .. u
      PROVE  IsFiniteSet(parts[p]) /\ c[p] = Cardinality(parts[p]) /\ parts[p] \subseteq U
  <2> DEFINE a == (p - 1) * n
             b == p * n
  <2>1. a \in Nat /\ b \in Nat /\ b = a + n /\ b <= total /\ parts[p] = a + 1 .. b
    BY <1>2, <1>3
  <2> HIDE DEF a, b, total
  <2>2. /\ IsFiniteSet(a + 1 .. b)
        /\ Cardinality(a + 1 .. b) = IF a + 1 > b THEN 0 ELSE b - (a + 1) + 1
    BY <2>1, FS_Interval
  <2>3. Cardinality(a + 1 .. b) = n
    BY <2>1, <2>2
  <2>4. a + 1 .. b \subseteq U
    BY <1>1, <2>1
  <2> QED
    BY <2>1, <2>2, <2>3, <2>4
<1>6. \A p, r \in 1 .. u : p # r => parts[p] \cap parts[r] = {}
  <2> SUFFICES ASSUME NEW p \in 1 .. u, NEW r \in 1 .. u, NEW z \in parts[p], z \in parts[r]
               PROVE  p = r
    OBVIOUS
  <2>1. z \in Int
    BY <1>1, <1>5
  <2>2. (z - 1) \div n = p - 1 /\ (z - 1) \div n = r - 1
    BY <1>4, <2>1
  <2> QED
    BY <1>2, <2>2
<1>7. \A z : z \in U <=> \E p \in 1 .. u : z \in parts[p]
  <2> SUFFICES ASSUME NEW z \in U
               PROVE  \E p \in 1 .. u : z \in parts[p]
    BY <1>5
  <2> DEFINE y == z - 1
             q == y \div n
  <2>1. z \in Int /\ y \in Nat /\ y < total
    BY <1>1
  <2> HIDE DEF y
  <2>2. q \in Nat
    BY <2>1, Division
  <2>3. 0 * n <= y /\ y < u * n
    BY <2>1
  <2>4. q < u
    BY <2>1, <2>3, QuotientBetween
  <2> HIDE DEF q
  <2>5. q + 1 \in 1 .. u /\ q = (q + 1) - 1
    BY <2>2, <2>4
  <2>6. z - 1 \in Nat /\ (z - 1) \div n = (q + 1) - 1
    BY <2>1, <2>5 DEF y, q
  <2>7. z \in parts[q + 1]
    BY <1>4, <2>1, <2>5, <2>6
  <2> QED
    BY <2>5, <2>7
<1>8. IsFiniteSet(1 .. u)
  BY FS_Interval
<1>9. IsFiniteSet(U) /\ Cardinality(U) = total
  <2> HIDE DEF total
  <2>1. /\ IsFiniteSet(1 .. total)
        /\ Cardinality(1 .. total) = IF 1 > total THEN 0 ELSE total - 1 + 1
    BY <1>1, FS_Interval
  <2>2. Cardinality(1 .. total) = total
    BY <1>1, <2>1
  <2> QED
    BY <2>1, <2>2
<1> HIDE DEF U
<1>10. SumFunctionOnSet(c, 1 .. u) = Cardinality(U)
  <2> DEFINE S == 1 .. u
  <2>1. /\ IsFiniteSet(S)
        /\ \A x \in S : IsFiniteSet(parts[x]) /\ c[x] = Cardinality(parts[x])
        /\ \A x, y \in S : x # y => parts[x] \cap parts[y] = {}
        /\ \A z : z \in U <=> \E x \in S : z \in parts[x]
    BY <1>5, <1>6, <1>7, <1>8
  <2> HIDE DEF S
  <2>2. SumFunctionOnSet(c, S) = Cardinality(U)
    BY <2>1, SumOfDisjoint
  <2> QED
    BY <2>2 DEF S
<1> QED
  BY <1>9, <1>10 DEF SumFunction

-----------------------------------------------------------------------------
(* What the columns of results are                                         *)

\* A column as a scan or a join makes it: buffers, or pages of the base table.
IsColumn(col) == \E vals \in Seq(Values) : col = Buffered(vals) \/ col = Direct(vals)

\* The row number of the value at place i of unit u.
RowAt(col, u, i) == u * col.width + i - 1

\* What the proofs use of a column: get_value finds the values of the units.
ColumnFits(col) ==
  /\ col.numRows \in Nat
  /\ col.width \in Nat \ {0}
  /\ col.units \in Seq(Seq(Values))
  /\ Len(col.units) \in Nat
  /\ \A u \in 0 .. Len(col.units) - 1 : \A i \in 1 .. Len(col.units[u + 1]) :
       /\ RowAt(col, u, i) \in 0 .. col.numRows - 1
       /\ RowAt(col, u, i) \div col.width = u
       /\ col.units[u + 1][i] = GetValue(col, RowAt(col, u, i))
  /\ \A r \in 0 .. col.numRows - 1 :
       /\ r \div col.width \in 0 .. Len(col.units) - 1
       /\ \E i \in 1 .. Len(col.units[r \div col.width + 1]) : r = RowAt(col, r \div col.width, i)
       /\ GetValue(col, r) \in Values
  /\ col.numRows = Len(FlattenSeq(col.units))

\* The sizes that the constants give.
LEMMA SizesFacts ==
  /\ NumThreads \in Nat \ {0}
  /\ BufferSize \in Nat \ {0}
  /\ RowsPerPage \in Nat \ {0}
  /\ Threads = 0 .. NumThreads - 1
BY ExecutionAssumption DEF Threads

\* The values of col are vals.
HasValues(col, vals) ==
  /\ col.numRows = Len(vals)
  /\ \A r \in 0 .. Len(vals) - 1 : GetValue(col, r) = vals[r + 1]

\* Values cut into units fit together as a column, ...
LEMMA CutColumnFits ==
  ASSUME NEW vals \in Seq(Values), NEW n \in Nat \ {0}, NEW d,
         NEW col, col = Column(vals, n, d)
  PROVE  /\ ColumnFits(col)
         /\ col.width = n /\ col.direct = d
         /\ HasValues(col, vals)
<1>1. col.units = Units(vals, n) /\ col.numRows = Len(vals) /\ col.width = n /\ col.direct = d
  BY DEF Column
<1>2. Len(vals) \in Nat /\ \A r \in 1 .. Len(vals) : vals[r] \in Values
  BY LenProperties
<1>3. col.units \in Seq(Seq(Values)) /\ Len(col.units) \in Nat
  <2> DEFINE k == (Len(vals) + n - 1) \div n
  <2>1. Units(vals, n) \in Seq(Seq(Values)) /\ Len(Units(vals, n)) = k /\ k \in Nat
    BY UnitValues
  <2> QED
    BY <1>1, <2>1
<1>4. col.numRows = Len(FlattenSeq(col.units))
  BY <1>1, LengthOfUnits
<1>5. /\ \A u \in 0 .. Len(col.units) - 1 : \A i \in 1 .. Len(col.units[u + 1]) :
           PlaceHasRow(col, vals, n, u, i)
      /\ \A r \in 0 .. Len(vals) - 1 : RowHasPlace(col, vals, n, r)
  BY RowsOfUnit
<1>6. ASSUME NEW u \in 0 .. Len(col.units) - 1, NEW i \in 1 .. Len(col.units[u + 1])
      PROVE  /\ RowAt(col, u, i) \in 0 .. col.numRows - 1
             /\ RowAt(col, u, i) \div col.width = u
             /\ col.units[u + 1][i] = GetValue(col, RowAt(col, u, i))
  <2> DEFINE r == RowAt(col, u, i)
  <2>1. r = u * n + i - 1
    BY <1>1 DEF RowAt
  <2>2. r \in 0 .. Len(vals) - 1 /\ r \div n = u /\ col.units[u + 1][i] = vals[u * n + i]
    <3>1. PlaceHasRow(col, vals, n, u, i)
      BY <1>5
    <3> HIDE DEF r
    <3> QED
      BY <2>1, <3>1 DEF PlaceHasRow
  <2>3. u * n + i = r + 1
    <3>1. u * n \in Int
      BY <1>3
    <3> DEFINE a == u * n
    <3>2. a \in Int /\ r = a + i - 1 /\ i \in Int
      BY <2>1, <3>1
    <3> HIDE DEF a, r
    <3>3. a + i = r + 1
      BY <3>2
    <3> QED
      BY <3>3 DEF a, r
  <2> HIDE DEF r
  <2>4. GetValue(col, r) = vals[r + 1]
    BY <1>5, <2>2 DEF RowHasPlace
  <2> QED
    BY <1>1, <2>2, <2>3, <2>4 DEF r
<1>7. ASSUME NEW r \in 0 .. col.numRows - 1
      PROVE  /\ r \div col.width \in 0 .. Len(col.units) - 1
             /\ \E i \in 1 .. Len(col.units[r \div col.width + 1]) : r = RowAt(col, r \div col.width, i)
             /\ GetValue(col, r) \in Values
  <2>1. /\ r \div n \in 0 .. Len(col.units) - 1
        /\ (r % n) + 1 \in 1 .. Len(col.units[r \div n + 1])
        /\ r = (r \div n) * n + ((r % n) + 1) - 1
        /\ GetValue(col, r) = vals[r + 1]
    <3>1. RowHasPlace(col, vals, n, r)
      BY <1>1, <1>5
    <3> QED
      BY <3>1, Zenon DEF RowHasPlace
  <2> DEFINE i == (r % n) + 1
             u == r \div n
  <2>2. u \in 0 .. Len(col.units) - 1 /\ i \in 1 .. Len(col.units[u + 1]) /\ r = u * n + i - 1
    BY <2>1
  <2> HIDE DEF i, u
  <2>3. r = RowAt(col, u, i)
    BY <1>1, <2>2 DEF RowAt
  <2>4. r + 1 \in 1 .. Len(vals)
    BY <1>1, <1>2
  <2>5. GetValue(col, r) \in Values
    BY <1>2, <2>1, <2>4
  <2>6. \E j \in 1 .. Len(col.units[u + 1]) : r = RowAt(col, u, j)
    BY <2>2, <2>3
  <2> QED
    BY <1>1, <2>2, <2>5, <2>6 DEF u
<1> QED
  <2>1. \A r \in 0 .. Len(vals) - 1 : GetValue(col, r) = vals[r + 1]
    BY <1>5 DEF RowHasPlace
  <2> QED
    BY <1>1, <1>2, <1>3, <1>4, <1>6, <1>7, <2>1 DEF ColumnFits, HasValues

\* ... and so do the columns of every result.
LEMMA ColumnFacts ==
  ASSUME NEW col, IsColumn(col)
  PROVE  ColumnFits(col)
<1>1. PICK vals \in Seq(Values) : col = Buffered(vals) \/ col = Direct(vals)
  BY DEF IsColumn
<1>2. CASE col = Buffered(vals)
  BY <1>2, SizesFacts, CutColumnFits DEF Buffered
<1>3. CASE col = Direct(vals)
  BY <1>3, SizesFacts, CutColumnFits DEF Direct
<1> QED
  BY <1>1, <1>2, <1>3

\* The row numbers that run computes are those of the units.
LEMMA BaseRowIs ==
  ASSUME IsColumn(probe), NEW u \in 0 .. NumUnits - 1
  PROVE  BaseRow(u) = u * probe.width
<1>1. PICK vals \in Seq(Values) : probe = Buffered(vals) \/ probe = Direct(vals)
  BY DEF IsColumn
<1>2. CASE probe = Buffered(vals)
  BY <1>2 DEF BaseRow, Buffered, Column
<1>3. CASE probe = Direct(vals)
  <2> DEFINE n == RowsPerPage
             len == Len(vals)
             k == (len + n - 1) \div n
             c == [p \in 1 .. u |-> Len(probe.units[p])]
  <2>1. probe.units = Units(vals, n) /\ probe.width = n /\ probe.direct
    BY <1>3 DEF Direct, Column
  <2>2. n \in Nat \ {0} /\ len \in Nat
    BY SizesFacts, LenProperties
  <2> HIDE DEF n
  <2>3. Len(probe.units) = k /\ k \in Nat /\ AreUnits(probe.units, vals, n, k)
    BY <2>1, <2>2, UnitValues
  <2>4. \A p \in 1 .. k : p < k => p * n <= len
    <3> HIDE DEF len
    <3> QED
      BY <2>2, UnitBounds
  <2>5. u \in Nat /\ u < k
    BY <2>3 DEF NumUnits
  <2>6. \A p \in 1 .. u : Len(probe.units[p]) = n
    <3> TAKE p \in 1 .. u
    <3>1. p \in 1 .. k /\ p < k
      BY <2>3, <2>5
    <3>2. p * n <= len
      BY <2>4, <3>1
    <3> QED
      BY <2>3, <3>1, <3>2 DEF AreUnits
  <2>7. DOMAIN c = 1 .. u /\ \A p \in 1 .. u : c[p] = n
    BY <2>6
  <2>8. BaseRow(u) = SumFunction(c)
    BY <2>1 DEF BaseRow
  <2> HIDE DEF c
  <2>9. SumFunction(c) = u * n
    BY <2>2, <2>5, <2>7, SumOfEqual
  <2> QED
    BY <2>1, <2>8, <2>9
<1> QED
  BY <1>1, <1>2, <1>3

-----------------------------------------------------------------------------
(* What plans mean                                                         *)

\* What an assumption on plans says of node n.
LEMMA NodeFacts ==
  ASSUME NEW q \in Queries, NEW n \in DOMAIN q.nodes
  PROVE  /\ q.nodes[n] \in Node
         /\ Len(q.nodes) \in Nat /\ DOMAIN q.nodes = 1 .. Len(q.nodes)
         /\ DOMAIN q.nodes[n].outputs = 1 .. Len(q.nodes[n].outputs)
         /\ Len(q.nodes[n].outputs) \in Nat
         /\ Len(q.nodes[n].types) = Len(q.nodes[n].outputs)
         /\ \A i \in 1 .. Len(q.nodes[n].outputs) :
              q.nodes[n].outputs[i] \in Nat /\ q.nodes[n].types[i] \in Types
         /\ IsScan(q.nodes[n]) => ScanWellFormed(q, n)
         /\ ~IsScan(q.nodes[n]) => JoinWellFormed(q, n)
<1>1. /\ q.nodes \in Seq(Node)
      /\ Len(q.nodes[n].types) = Len(q.nodes[n].outputs)
      /\ IF IsScan(q.nodes[n]) THEN ScanWellFormed(q, n) ELSE JoinWellFormed(q, n)
  BY ExecutionAssumption
<1>2. Len(q.nodes) \in Nat /\ DOMAIN q.nodes = 1 .. Len(q.nodes) /\ q.nodes[n] \in Node
  BY <1>1, LenProperties, ElementOfSeq
<1> DEFINE self == q.nodes[n]
<1>3. self.outputs \in Seq(Nat) /\ self.types \in Seq(Types)
  BY <1>2 DEF Node
<1> HIDE DEF self
<1>4. /\ DOMAIN self.outputs = 1 .. Len(self.outputs)
      /\ Len(self.outputs) \in Nat
      /\ \A i \in 1 .. Len(self.outputs) : self.outputs[i] \in Nat
  BY <1>3, LenProperties
<1>5. \A i \in 1 .. Len(self.types) : self.types[i] \in Types
  BY <1>3, LenProperties
<1> QED
  BY <1>1, <1>2, <1>4, <1>5 DEF self

\* The rows a plan asks for, as a function of the plan.
Rows(q) ==
  LET rowsOf[n \in DOMAIN q.nodes] == NodeRows(q, rowsOf, n)
  IN  rowsOf

\* What the plan at hand asks for.
LEMMA MeaningIsRows == Meaning = Rows(query)
BY DEF Meaning, Rows

\* The rows of a node are those of the nodes below it.
LEMMA RowsDepend ==
  ASSUME NEW q \in Queries, NEW n \in DOMAIN q.nodes, NEW g, NEW h,
         \A m \in 1 .. n - 1 : g[m] = h[m]
  PROVE  NodeRows(q, g, n) = NodeRows(q, h, n)
<1>1. CASE IsScan(q.nodes[n])
  BY <1>1 DEF NodeRows
<1>2. CASE ~IsScan(q.nodes[n])
  <2>1. q.nodes[n].left \in 1 .. n - 1 /\ q.nodes[n].right \in 1 .. n - 1
    BY <1>2, NodeFacts DEF JoinWellFormed
  <2>2. g[q.nodes[n].left] = h[q.nodes[n].left] /\ g[q.nodes[n].right] = h[q.nodes[n].right]
    BY <2>1
  <2> QED
    BY <1>2, <2>2 DEF NodeRows
<1> QED
  BY <1>1, <1>2

\* g has the rows of the first m nodes.
RowsUpTo(q, g, m) ==
  DOMAIN g = DOMAIN q.nodes /\ \A n \in DOMAIN q.nodes : n <= m => g[n] = NodeRows(q, g, n)

\* The rows of all nodes exist: a plan refers to earlier nodes only.
LEMMA RowsExist ==
  ASSUME NEW q \in Queries
  PROVE  \E g : g = [n \in DOMAIN q.nodes |-> NodeRows(q, g, n)]
<1> DEFINE T == {m \in Nat : \E g : RowsUpTo(q, g, m)}
           After(g) == [n \in DOMAIN q.nodes |-> NodeRows(q, g, n)]
<1>1. Len(q.nodes) \in Nat /\ DOMAIN q.nodes = 1 .. Len(q.nodes)
  BY ExecutionAssumption, LenProperties
<1>2. 0 \in T
  <2> DEFINE g == [n \in DOMAIN q.nodes |-> 0]
  <2>1. RowsUpTo(q, g, 0)
    BY <1>1 DEF RowsUpTo
  <2> HIDE DEF g
  <2> QED
    BY <2>1
<1>3. ASSUME NEW g, NEW m \in Nat, RowsUpTo(q, g, m)
      PROVE  RowsUpTo(q, After(g), m + 1)
  <2>1. DOMAIN After(g) = DOMAIN q.nodes
    OBVIOUS
  <2>2. ASSUME NEW n \in DOMAIN q.nodes, n <= m + 1
        PROVE  After(g)[n] = NodeRows(q, After(g), n)
    <3>1. After(g)[n] = NodeRows(q, g, n)
      OBVIOUS
    <3>2. \A i \in 1 .. n - 1 : After(g)[i] = g[i]
      <4> TAKE i \in 1 .. n - 1
      <4>1. i \in DOMAIN q.nodes /\ i <= m
        BY <1>1, <2>2
      <4>2. g[i] = NodeRows(q, g, i)
        BY <1>3, <4>1 DEF RowsUpTo
      <4>3. After(g)[i] = NodeRows(q, g, i)
        BY <4>1
      <4> QED
        BY <4>2, <4>3
    <3> HIDE DEF After
    <3>3. NodeRows(q, After(g), n) = NodeRows(q, g, n)
      BY <3>2, RowsDepend
    <3> QED
      BY <3>1, <3>3
  <2> HIDE DEF After
  <2> QED
    BY <2>1, <2>2 DEF RowsUpTo
<1>4. ASSUME NEW m \in Nat, m \in T
      PROVE  m + 1 \in T
  <2>1. PICK g : RowsUpTo(q, g, m)
    BY <1>4
  <2>2. RowsUpTo(q, After(g), m + 1)
    BY <1>3, <2>1
  <2> HIDE DEF After
  <2> QED
    BY <2>2
<1> HIDE DEF T
<1>5. Nat \subseteq T
  BY <1>2, <1>4, NumberInduction
<1>6. PICK g : RowsUpTo(q, g, Len(q.nodes))
  <2>1. Len(q.nodes) \in T
    BY <1>1, <1>5
  <2> QED
    BY <2>1 DEF T
<1>7. \A n \in DOMAIN q.nodes : g[n] = NodeRows(q, g, n) /\ DOMAIN g = DOMAIN q.nodes
  BY <1>1, <1>6 DEF RowsUpTo
<1>8. \A n \in DOMAIN q.nodes : After(g)[n] = g[n]
  BY <1>7
<1>9. \A n \in DOMAIN q.nodes : NodeRows(q, After(g), n) = NodeRows(q, g, n)
  <2> TAKE n \in DOMAIN q.nodes
  <2>1. \A i \in 1 .. n - 1 : i \in DOMAIN q.nodes
    BY <1>1
  <2> HIDE DEF After
  <2>2. \A i \in 1 .. n - 1 : After(g)[i] = g[i]
    BY <1>8, <2>1
  <2> QED
    BY <2>2, RowsDepend
<1>10. After(g) = [n \in DOMAIN q.nodes |-> NodeRows(q, After(g), n)]
  BY <1>9
<1> HIDE DEF After
<1> QED
  BY <1>10

\* The rows of a node are made of those of the nodes below it.
LEMMA RowsOfNode ==
  ASSUME NEW q \in Queries, NEW n \in DOMAIN q.nodes
  PROVE  Rows(q)[n] = NodeRows(q, Rows(q), n)
<1> DEFINE g == CHOOSE g : g = [m \in DOMAIN q.nodes |-> NodeRows(q, g, m)]
<1>1. Rows(q) = g
  BY DEF Rows
<1>2. g = [m \in DOMAIN q.nodes |-> NodeRows(q, g, m)]
  <2>1. \E h : h = [m \in DOMAIN q.nodes |-> NodeRows(q, h, m)]
    BY RowsExist
  <2> QED
    BY <2>1
<1> HIDE DEF g
<1>3. g[n] = NodeRows(q, g, n)
  BY <1>2
<1> QED
  BY <1>1, <1>3

\* The value in column i of a row of node n.
ValueFits(node_n, i, v) == v \in Values /\ (node_n.types[i] = "INT32" => v \in Keys \cup {Null})

\* A row of node n has a value for each output, and at tells rows apart.
RowsFit(q, n) ==
  /\ \A x \in Rows(q)[n] :
       /\ x.row \in Seq(Values)
       /\ Len(x.row) = Len(q.nodes[n].outputs)
       /\ \A i \in 1 .. Len(q.nodes[n].outputs) : ValueFits(q.nodes[n], i, x.row[i])
  /\ \A x, y \in Rows(q)[n] : x.at = y.at => x = y

\* column is what output i of the scan self lists of its table.
ListsColumn(self, i, table, column) ==
  /\ self.table \in Nat /\ self.outputs[i] \in Nat
  /\ column.type = self.types[i] /\ column.type \in Types
  /\ column.rows \in Seq(Keys \cup {Null})
  /\ Len(column.rows) = Len(table[1].rows)
  /\ Len(table[1].rows) \in Nat
  /\ DOMAIN table[1].rows = 1 .. Len(table[1].rows)

\* The columns of a table have rows of its keys, one for each row of the first.
LEMMA TableColumn ==
  ASSUME NEW table, IsTable(table), NEW k, k \in 1 .. Len(table)
  PROVE  /\ table[k].type \in Types
         /\ table[k].rows \in Seq(Keys \cup {Null})
         /\ Len(table[k].rows) = Len(table[1].rows)
         /\ Len(table[1].rows) \in Nat
         /\ DOMAIN table[1].rows = 1 .. Len(table[1].rows)
<1> DEFINE Cols == [type : Types, rows : Seq(Keys \cup {Null})]
<1>1. /\ table \in Seq(Cols)
      /\ table # <<>>
      /\ \A d \in DOMAIN table : Len(table[d].rows) = Len(table[1].rows)
  BY DEF IsTable
<1> HIDE DEF Cols
<1>2. Len(table) \in Nat \ {0} /\ DOMAIN table = 1 .. Len(table)
  BY <1>1, LenProperties, EmptySeq
<1>3. 1 \in 1 .. Len(table)
  BY <1>2
<1>4. table[1] \in Cols /\ table[k] \in Cols
  BY <1>1, <1>3, ElementOfSeq
<1>5. Len(table[k].rows) = Len(table[1].rows)
  BY <1>1, <1>2
<1>6. \A x \in Cols : x.type \in Types /\ x.rows \in Seq(Keys \cup {Null})
  BY DEF Cols
<1>7. table[1].rows \in Seq(Keys \cup {Null})
  BY <1>4, <1>6, Zenon
<1> QED
  BY <1>4, <1>5, <1>6, <1>7, LenProperties

\* A place of an index below the length of a table.
LEMMA TablePlace ==
  ASSUME NEW table, IsTable(table), NEW c \in Nat, c < Len(table)
  PROVE  c + 1 \in 1 .. Len(table)
<1> DEFINE l == Len(table)
<1>1. l \in Nat
  BY LenProperties DEF IsTable
<1> HIDE DEF l
<1> QED
  BY <1>1 DEF l

\* A column that a scan lists is a column of its table, of the type it says.
LEMMA ScanColumn ==
  ASSUME NEW q \in Queries, NEW n \in DOMAIN q.nodes, IsScan(q.nodes[n]),
         NEW i \in 1 .. Len(q.nodes[n].outputs),
         NEW table, table = q.inputs[q.nodes[n].table],
         NEW column, column = table[q.nodes[n].outputs[i] + 1]
  PROVE  ListsColumn(q.nodes[n], i, table, column)
<1> DEFINE self == q.nodes[n]
           t == self.table
           c == self.outputs[i]
           k == c + 1
<1>1. /\ self \in Node /\ c \in Nat /\ self.types[i] \in Types
      /\ ScanWellFormed(q, n)
  BY NodeFacts
<1>2. DOMAIN self.outputs = 1 .. Len(self.outputs)
  <2>1. self.outputs \in Seq(Nat)
    BY <1>1, Zenon DEF Node
  <2> HIDE DEF self
  <2> QED
    BY <2>1, LenProperties
<1>3. t \in DOMAIN q.inputs /\ c < Len(table) /\ self.types[i] = column.type
  BY <1>1, <1>2 DEF ScanWellFormed
<1>4. t \in Nat
  BY <1>1, Zenon DEF Node
<1>5. IsTable(table)
  BY <1>3, ExecutionAssumption, Zenon
<1>6. column = table[k]
  BY Zenon
<1> HIDE DEF t, c
<1>7. k \in 1 .. Len(table)
  BY <1>1, <1>3, <1>5, TablePlace, Zenon
<1> HIDE DEF k
<1>8. /\ column.type \in Types
      /\ column.rows \in Seq(Keys \cup {Null})
      /\ Len(column.rows) = Len(table[1].rows)
      /\ Len(table[1].rows) \in Nat
      /\ DOMAIN table[1].rows = 1 .. Len(table[1].rows)
  BY <1>5, <1>6, <1>7, TableColumn, Zenon
<1> QED
  BY <1>1, <1>3, <1>4, <1>8, Zenon DEF ListsColumn, t, c

\* What a scan returns of a row.
LEMMA ScanValue ==
  ASSUME NEW q \in Queries, NEW n \in DOMAIN q.nodes, IsScan(q.nodes[n]),
         NEW i \in 1 .. Len(q.nodes[n].outputs),
         NEW r \in DOMAIN q.inputs[q.nodes[n].table][1].rows
  PROVE  /\ ValueFits(q.nodes[n], i, BaseValue(q, q.nodes[n].table, q.nodes[n].outputs[i], r))
         /\ r \in Nat \ {0}
<1> DEFINE self == q.nodes[n]
           t == self.table
           c == self.outputs[i]
           table == q.inputs[t]
           column == table[c + 1]
<1>1. /\ t \in Nat /\ c \in Nat
      /\ self.types[i] = column.type /\ column.type \in Types
      /\ column.rows \in Seq(Keys \cup {Null})
      /\ r \in 1 .. Len(column.rows)
      /\ Len(column.rows) \in Nat
  <2>1. r \in DOMAIN table[1].rows /\ table = q.inputs[self.table] /\ column = table[self.outputs[i] + 1]
    OBVIOUS
  <2> HIDE DEF table, column
  <2>2. ListsColumn(self, i, table, column)
    BY <2>1, ScanColumn
  <2> QED
    BY <2>1, <2>2 DEF ListsColumn
<1>2. column.rows[r] \in Keys \cup {Null} /\ r - 1 \in Nat /\ r \in Nat \ {0}
  <2> HIDE DEF column
  <2> QED
    BY <1>1, ElementOfSeq
<1>3. BaseValue(q, t, c, r) = IF column.type = "VARCHAR" THEN <<t, c, r - 1>> ELSE column.rows[r]
  BY DEF BaseValue
<1> HIDE DEF column, c, t
<1>4. <<t, c, r - 1>> \in Values
  BY <1>1, <1>2 DEF Values
<1>5. ValueFits(self, i, BaseValue(q, t, c, r))
  <2>1. CASE column.type = "VARCHAR"
    BY <1>1, <1>3, <1>4, <2>1 DEF ValueFits
  <2>2. CASE column.type # "VARCHAR"
    BY <1>2, <1>3, <2>2 DEF ValueFits, Values
  <2> QED
    BY <2>1, <2>2
<1> QED
  BY <1>2, <1>5 DEF t, c

\* The row of a join for a pair of rows of its inputs.
JoinedRow(self, x, y) ==
  [at |-> <<x.at, y.at>>,
   row |-> [i \in DOMAIN self.outputs |-> (x.row \o y.row)[self.outputs[i] + 1]]]

\* x and y have the same key.
KeysMatch(self, x, y) ==
  /\ x.row[self.leftAttr + 1] # Null
  /\ x.row[self.leftAttr + 1] = y.row[self.rightAttr + 1]

\* Value i of a row of a join is attribute attr of the left row, which has a
\* values, or of the right row, which has b.
ComesFrom(self, x, y, i, attr, a, b) ==
  /\ JoinedRow(self, x, y).row[i]
       = IF attr < a THEN x.row[attr + 1] ELSE y.row[attr - a + 1]
  /\ ValueFits(self, i, JoinedRow(self, x, y).row[i])
  /\ attr \in Nat /\ a \in Nat /\ b \in Nat
  /\ attr < a + b

\* A value of a joined row comes from one side, and has the type it has there.
LEMMA JoinedValue ==
  ASSUME NEW q \in Queries, NEW n \in DOMAIN q.nodes, ~IsScan(q.nodes[n]),
         NEW l, l = q.nodes[n].left, NEW r, r = q.nodes[n].right,
         RowsFit(q, l), RowsFit(q, r), NEW x \in Rows(q)[l], NEW y \in Rows(q)[r],
         NEW i \in 1 .. Len(q.nodes[n].outputs),
         NEW attr, attr = q.nodes[n].outputs[i]
  PROVE  ComesFrom(q.nodes[n], x, y, i, attr, Len(q.nodes[l].outputs), Len(q.nodes[r].outputs))
<1> DEFINE self == q.nodes[n]
           ln == q.nodes[l]
           rn == q.nodes[r]
           a == Len(ln.outputs)
           b == Len(rn.outputs)
           k == attr + 1
<1>1. JoinWellFormed(q, n) /\ DOMAIN self.outputs = 1 .. Len(self.outputs) /\ self \in Node
  <2>1. JoinWellFormed(q, n)
    BY NodeFacts, Zenon
  <2>2. DOMAIN self.outputs = 1 .. Len(self.outputs) /\ self \in Node
    BY NodeFacts
  <2> QED
    BY <2>1, <2>2
<1>2. l \in DOMAIN q.nodes /\ r \in DOMAIN q.nodes
  <2>1. {self.left, self.right} \subseteq 1 .. n - 1
    BY <1>1, Zenon DEF JoinWellFormed
  <2>2. self.left \in 1 .. n - 1 /\ self.right \in 1 .. n - 1 /\ self.left = l /\ self.right = r
    BY <2>1
  <2>3. DOMAIN q.nodes = 1 .. Len(q.nodes) /\ Len(q.nodes) \in Nat
    BY NodeFacts
  <2> HIDE DEF self
  <2> QED
    BY <2>2, <2>3
<1>3. i \in DOMAIN self.outputs
  BY <1>1
<1>4. attr < a + b /\ self.types[i] = (ln.types \o rn.types)[k]
  <2>1. /\ self.outputs[i] < Len(q.nodes[self.left].outputs) + Len(q.nodes[self.right].outputs)
        /\ self.types[i] = (q.nodes[self.left].types \o q.nodes[self.right].types)[self.outputs[i] + 1]
    BY <1>1, <1>3, Zenon DEF JoinWellFormed
  <2>2. attr = self.outputs[i] /\ self.left = l /\ self.right = r
    OBVIOUS
  <2> HIDE DEF self
  <2>3. k = self.outputs[i] + 1
    BY <2>2
  <2> HIDE DEF k
  <2> QED
    BY <2>1, <2>2, <2>3
<1>5. attr \in Nat
  <2>1. self.outputs \in Seq(Nat)
    BY <1>1 DEF Node
  <2> HIDE DEF self
  <2>2. self.outputs[i] \in Nat
    BY <1>3, <2>1, ElementOfSeq
  <2> QED
    BY <2>2 DEF self
<1>6. a \in Nat /\ b \in Nat
  BY <1>2, NodeFacts
<1>7. ln \in Node /\ rn \in Node /\ Len(ln.types) = a /\ Len(rn.types) = b
  BY <1>2, NodeFacts
<1> HIDE DEF self, ln, rn
<1>8. ln.types \in Seq(Types) /\ rn.types \in Seq(Types)
  BY <1>7 DEF Node
<1>9. /\ x.row \in Seq(Values) /\ Len(x.row) = a
      /\ y.row \in Seq(Values) /\ Len(y.row) = b
      /\ \A j \in 1 .. a : ValueFits(ln, j, x.row[j])
      /\ \A j \in 1 .. b : ValueFits(rn, j, y.row[j])
  BY DEF RowsFit, ln, rn
<1> HIDE DEF a, b
<1>10. k \in 1 .. a + b /\ k = attr + 1
  BY <1>4, <1>5, <1>6
<1>11. JoinedRow(self, x, y).row[i] = (x.row \o y.row)[k]
  BY <1>3 DEF JoinedRow, self
<1> HIDE DEF k
<1>12. (x.row \o y.row)[k] = IF k <= a THEN x.row[k] ELSE y.row[k - a]
  <2>1. \A j \in 1 .. Len(x.row) + Len(y.row) :
          (x.row \o y.row)[j] = IF j <= Len(x.row) THEN x.row[j] ELSE y.row[j - Len(x.row)]
    BY <1>9, ConcatProperties
  <2> QED
    BY <1>9, <1>10, <2>1
<1>13. (ln.types \o rn.types)[k] = IF k <= a THEN ln.types[k] ELSE rn.types[k - a]
  <2>1. \A j \in 1 .. Len(ln.types) + Len(rn.types) :
          (ln.types \o rn.types)[j] = IF j <= Len(ln.types) THEN ln.types[j] ELSE rn.types[j - Len(ln.types)]
    BY <1>8, ConcatProperties
  <2> QED
    BY <1>7, <1>10, <2>1
<1>14. CASE k <= a
  <2>1. k \in 1 .. a /\ attr < a
    BY <1>5, <1>6, <1>10, <1>14
  <2>2. JoinedRow(self, x, y).row[i] = x.row[k] /\ self.types[i] = ln.types[k]
    BY <1>4, <1>11, <1>12, <1>13, <1>14
  <2>3. ValueFits(ln, k, x.row[k])
    BY <1>9, <2>1
  <2>4. ValueFits(self, i, x.row[k])
    BY <2>2, <2>3 DEF ValueFits
  <2>5. ValueFits(self, i, JoinedRow(self, x, y).row[i])
    BY <2>2, <2>4
  <2>6. JoinedRow(self, x, y).row[i] = x.row[attr + 1]
    BY <1>10, <2>2
  <2>7. JoinedRow(self, x, y).row[i] = IF attr < a THEN x.row[attr + 1] ELSE y.row[attr - a + 1]
    BY <2>1, <2>6
  <2> QED
    BY <1>4, <1>5, <1>6, <2>5, <2>7 DEF a, b, self, ln, rn, ComesFrom
<1>15. CASE ~(k <= a)
  <2>1. k - a \in 1 .. b /\ k - a = attr - a + 1 /\ attr >= a
    <3>1. k \in Nat /\ k > a /\ k <= a + b
      BY <1>6, <1>10, <1>15
    <3>2. k - a \in 1 .. b
      BY <1>6, <3>1
    <3>3. k - a = attr - a + 1 /\ attr >= a
      BY <1>5, <1>6, <1>10, <3>1
    <3> QED
      BY <3>2, <3>3
  <2> DEFINE j == k - a
  <2>2. JoinedRow(self, x, y).row[i] = y.row[j] /\ self.types[i] = rn.types[j]
    BY <1>4, <1>11, <1>12, <1>13, <1>15, Zenon
  <2>3. j \in 1 .. b /\ j = attr - a + 1
    BY <2>1
  <2> HIDE DEF j
  <2>4. ValueFits(rn, j, y.row[j])
    BY <1>9, <2>3
  <2>5. ValueFits(self, i, y.row[j])
    BY <2>2, <2>4 DEF ValueFits
  <2>6. ValueFits(self, i, JoinedRow(self, x, y).row[i])
    BY <2>2, <2>5
  <2>7. JoinedRow(self, x, y).row[i] = y.row[attr - a + 1]
    BY <2>2, <2>3
  <2>8. JoinedRow(self, x, y).row[i] = IF attr < a THEN x.row[attr + 1] ELSE y.row[attr - a + 1]
    <3>1. ~(attr < a)
      BY <1>5, <1>6, <2>1
    <3> QED
      BY <2>7, <3>1
  <2> QED
    BY <1>4, <1>5, <1>6, <2>6, <2>8 DEF a, b, self, ln, rn, ComesFrom
<1> QED
  BY <1>14, <1>15

\* The rows of a join are those of the matching pairs, ...
LEMMA JoinRowsAre ==
  ASSUME NEW self, NEW A, NEW B, NEW z
  PROVE  z \in JoinRows(self, A, B)
           <=> \E x \in A, y \in B : KeysMatch(self, x, y) /\ z = JoinedRow(self, x, y)
<1>1. ASSUME z \in JoinRows(self, A, B)
      PROVE  \E x \in A, y \in B : KeysMatch(self, x, y) /\ z = JoinedRow(self, x, y)
  <2>1. PICK p \in A \X B :
          /\ p[1].row[self.leftAttr + 1] # Null
          /\ p[1].row[self.leftAttr + 1] = p[2].row[self.rightAttr + 1]
          /\ z = [at |-> <<p[1].at, p[2].at>>,
                  row |-> [i \in DOMAIN self.outputs |-> (p[1].row \o p[2].row)[self.outputs[i] + 1]]]
    BY <1>1 DEF JoinRows
  <2>2. p[1] \in A /\ p[2] \in B
    OBVIOUS
  <2>3. KeysMatch(self, p[1], p[2]) /\ z = JoinedRow(self, p[1], p[2])
    BY <2>1 DEF KeysMatch, JoinedRow
  <2> QED
    BY <2>2, <2>3
<1>2. ASSUME NEW x \in A, NEW y \in B, KeysMatch(self, x, y), z = JoinedRow(self, x, y)
      PROVE  z \in JoinRows(self, A, B)
  <2> DEFINE p == <<x, y>>
  <2>1. p \in A \X B /\ p[1] = x /\ p[2] = y
    OBVIOUS
  <2> HIDE DEF p
  <2>2. /\ p[1].row[self.leftAttr + 1] # Null
        /\ p[1].row[self.leftAttr + 1] = p[2].row[self.rightAttr + 1]
    BY <1>2, <2>1 DEF KeysMatch
  <2>3. z = [at |-> <<p[1].at, p[2].at>>,
             row |-> [i \in DOMAIN self.outputs |-> (p[1].row \o p[2].row)[self.outputs[i] + 1]]]
    BY <1>2, <2>1 DEF JoinedRow
  <2> QED
    BY <2>1, <2>2, <2>3 DEF JoinRows
<1> QED
  BY <1>1, <1>2

\* ... and a pair is told by the at of its row.
LEMMA JoinedAt ==
  ASSUME NEW self, NEW x, NEW y, NEW u, NEW v,
         JoinedRow(self, x, y).at = JoinedRow(self, u, v).at
  PROVE  x.at = u.at /\ y.at = v.at
<1>1. <<x.at, y.at>> = <<u.at, v.at>>
  BY DEF JoinedRow
<1> QED
  BY <1>1

\* The rows of a join fit its outputs if those of its sides fit theirs, ...
LEMMA JoinFits ==
  ASSUME NEW q \in Queries, NEW n \in DOMAIN q.nodes, ~IsScan(q.nodes[n]),
         RowsFit(q, q.nodes[n].left), RowsFit(q, q.nodes[n].right)
  PROVE  RowsFit(q, n)
<1> DEFINE self == q.nodes[n]
           l == self.left
           r == self.right
           A == Rows(q)[l]
           B == Rows(q)[r]
<1>1. Rows(q)[n] = JoinRows(self, A, B)
  BY RowsOfNode DEF NodeRows
<1>2. ASSUME NEW z \in Rows(q)[n]
      PROVE  \E x \in A, y \in B : z = JoinedRow(self, x, y)
  <2> HIDE DEF self, A, B
  <2> QED
    BY <1>1, <1>2, JoinRowsAre
<1>3. ASSUME NEW z \in Rows(q)[n]
      PROVE  /\ z.row \in Seq(Values)
             /\ Len(z.row) = Len(self.outputs)
             /\ \A i \in 1 .. Len(self.outputs) : ValueFits(self, i, z.row[i])
  <2>1. PICK x \in A, y \in B : z = JoinedRow(self, x, y)
    BY <1>2
  <2>2. \A i \in 1 .. Len(self.outputs) : ValueFits(self, i, z.row[i])
    <3> TAKE i \in 1 .. Len(self.outputs)
    <3> DEFINE attr == self.outputs[i]
    <3>1. ComesFrom(self, x, y, i, attr, Len(q.nodes[l].outputs), Len(q.nodes[r].outputs))
      BY <2>1, JoinedValue
    <3> QED
      BY <2>1, <3>1 DEF ComesFrom
  <2>3. Len(self.outputs) \in Nat /\ DOMAIN self.outputs = 1 .. Len(self.outputs)
    BY NodeFacts
  <2>4. z.row = [i \in 1 .. Len(self.outputs) |-> z.row[i]]
    BY <2>1, <2>3 DEF JoinedRow
  <2> HIDE DEF self
  <2>5. \A i \in 1 .. Len(self.outputs) : z.row[i] \in Values
    BY <2>2 DEF ValueFits
  <2>6. z.row \in Seq(Values) /\ Len(z.row) = Len(self.outputs)
    <3> DEFINE s == z.row
    <3>1. s = [i \in 1 .. Len(self.outputs) |-> s[i]] /\ \A i \in 1 .. Len(self.outputs) : s[i] \in Values
      BY <2>4, <2>5
    <3> HIDE DEF s
    <3>2. s \in Seq(Values) /\ Len(s) = Len(self.outputs)
      BY <2>3, <3>1
    <3> QED
      BY <3>2 DEF s
  <2> QED
    BY <2>2, <2>6
<1>4. ASSUME NEW z \in Rows(q)[n], NEW w \in Rows(q)[n], z.at = w.at
      PROVE  z = w
  <2>1. PICK x \in A, y \in B : z = JoinedRow(self, x, y)
    BY <1>2
  <2>2. PICK u \in A, v \in B : w = JoinedRow(self, u, v)
    BY <1>2
  <2> HIDE DEF self
  <2>3. x.at = u.at /\ y.at = v.at
    BY <1>4, <2>1, <2>2, JoinedAt
  <2>4. x = u /\ y = v
    BY <2>3 DEF RowsFit, self
  <2> QED
    BY <2>1, <2>2, <2>4
<1> QED
  BY <1>3, <1>4 DEF RowsFit

\* ... the rows of a scan fit, ...
LEMMA ScanFits ==
  ASSUME NEW q \in Queries, NEW n \in DOMAIN q.nodes, IsScan(q.nodes[n])
  PROVE  RowsFit(q, n)
<1> DEFINE self == q.nodes[n]
           D == DOMAIN q.inputs[self.table][1].rows
           Value(i, r) == BaseValue(q, self.table, self.outputs[i], r)
           ScanRow(r) == [at |-> r, row |-> [i \in DOMAIN self.outputs |-> Value(i, r)]]
<1>1. Rows(q)[n] = ScanRows(q, self)
  BY RowsOfNode DEF NodeRows
<1>2. ASSUME NEW z \in Rows(q)[n]
      PROVE  \E r \in D : z = ScanRow(r)
  <2> QED
    BY <1>1, <1>2 DEF ScanRows
<1>3. \A i \in 1 .. Len(self.outputs) : \A r \in D : ValueFits(self, i, Value(i, r))
  BY ScanValue
<1>4. Len(self.outputs) \in Nat /\ DOMAIN self.outputs = 1 .. Len(self.outputs)
  BY NodeFacts
<1> HIDE DEF self, D, Value
<1>5. ASSUME NEW z \in Rows(q)[n]
      PROVE  /\ z.row \in Seq(Values)
             /\ Len(z.row) = Len(self.outputs)
             /\ \A i \in 1 .. Len(self.outputs) : ValueFits(self, i, z.row[i])
  <2>1. PICK r \in D : z = ScanRow(r)
    BY <1>2
  <2> DEFINE s == z.row
  <2>2. s = [i \in 1 .. Len(self.outputs) |-> Value(i, r)]
    BY <1>4, <2>1
  <2> HIDE DEF s
  <2>3. \A i \in 1 .. Len(self.outputs) : s[i] = Value(i, r)
    BY <2>2
  <2>4. \A i \in 1 .. Len(self.outputs) : ValueFits(self, i, Value(i, r)) /\ Value(i, r) \in Values
    BY <1>3 DEF ValueFits
  <2>5. s \in Seq(Values) /\ Len(s) = Len(self.outputs)
    BY <1>4, <2>2, <2>4
  <2>6. \A i \in 1 .. Len(self.outputs) : ValueFits(self, i, s[i])
    BY <2>3, <2>4
  <2> QED
    BY <2>5, <2>6 DEF s
<1>6. ASSUME NEW z \in Rows(q)[n], NEW w \in Rows(q)[n], z.at = w.at
      PROVE  z = w
  <2>1. PICK r \in D : z = ScanRow(r)
    BY <1>2
  <2>2. PICK p \in D : w = ScanRow(p)
    BY <1>2
  <2>3. z.at = r /\ w.at = p
    BY <2>1, <2>2
  <2> QED
    BY <1>6, <2>1, <2>2, <2>3
<1> QED
  BY <1>5, <1>6 DEF RowsFit, self

\* ... and so the rows of every node do.
LEMMA AllRowsFit ==
  ASSUME NEW q \in Queries
  PROVE  \A n \in DOMAIN q.nodes : RowsFit(q, n)
<1> DEFINE N == Len(q.nodes)
           T == {m \in Nat : \A n \in 1 .. m : RowsFit(q, n)}
<1>1. N \in Nat /\ DOMAIN q.nodes = 1 .. N
  BY ExecutionAssumption, LenProperties
<1> HIDE DEF N
<1>2. 0 \in T
  OBVIOUS
<1>3. ASSUME NEW m \in 0 .. N - 1, m \in T
      PROVE  m + 1 \in T
  <2> DEFINE n == m + 1
  <2>1. n \in DOMAIN q.nodes /\ n - 1 = m /\ n \in Nat /\ m \in Nat
    BY <1>1
  <2> HIDE DEF n
  <2>2. RowsFit(q, n)
    <3>1. CASE IsScan(q.nodes[n])
      BY <2>1, <3>1, ScanFits
    <3>2. CASE ~IsScan(q.nodes[n])
      <4>1. q.nodes[n].left \in 1 .. n - 1 /\ q.nodes[n].right \in 1 .. n - 1
        BY <2>1, <3>2, NodeFacts DEF JoinWellFormed
      <4>2. RowsFit(q, q.nodes[n].left) /\ RowsFit(q, q.nodes[n].right)
        BY <1>3, <2>1, <4>1
      <4> QED
        BY <2>1, <3>2, <4>2, JoinFits
    <3> QED
      BY <3>1, <3>2
  <2>3. \A i \in 1 .. m + 1 : i \in 1 .. m \/ i = n
    BY <2>1 DEF n
  <2>4. \A i \in 1 .. m + 1 : RowsFit(q, i)
    BY <1>3, <2>2, <2>3
  <2> QED
    BY <2>1, <2>4 DEF n
<1> HIDE DEF T
<1>4. \A m \in 0 .. N : m \in T
  BY <1>1, <1>2, <1>3, PrefixInduction
<1>5. N \in T
  <2>1. N \in 0 .. N
    BY <1>1
  <2> QED
    BY <1>4, <2>1
<1> QED
  BY <1>1, <1>5 DEF T

-----------------------------------------------------------------------------
(* Results                                                                 *)

\* A set and what a one-to-one function makes of it have the same size.
LEMMA SameSize ==
  ASSUME NEW A, IsFiniteSet(A), NEW B, NEW f, Maps(f, A, B),
         \A x, y \in A : f[x] = f[y] => x = y,
         \A z \in B : \E x \in A : f[x] = z
  PROVE  Cardinality(A) = Cardinality(B)
<1>1. f \in Bijection(A, B)
  BY DEF Maps, Bijection, Injection, Surjection, IsInjective
<1> QED
  BY <1>1, FS_Bijection DEF ExistsBijection

\* Columns of a result, whose row i is the i-th of s.
HasRows(res, s) ==
  \A c \in DOMAIN res :
    /\ IsColumn(res[c])
    /\ res[c].numRows = Len(s)
    /\ \A i \in 1 .. Len(s) : GetValue(res[c], i - 1) = s[i].row[c]

\* The results that calls of execute_impl return.
Columns == [units : Seq(Seq(Values)), numRows : Nat, width : Nat, direct : BOOLEAN]
Results == Seq(Columns)

\* A column is one of those of results.
LEMMA ColumnsAreColumns ==
  ASSUME NEW col, IsColumn(col)
  PROVE  col \in Columns
<1>1. PICK vals \in Seq(Values) : col = Buffered(vals) \/ col = Direct(vals)
  BY DEF IsColumn
<1>2. \E n \in Nat \ {0}, d \in BOOLEAN : col = Column(vals, n, d)
  BY <1>1, SizesFacts DEF Buffered, Direct
<1>3. PICK n \in Nat \ {0}, d \in BOOLEAN : col = Column(vals, n, d)
  BY <1>2
<1> DEFINE k == (Len(vals) + n - 1) \div n
<1>4. Units(vals, n) \in Seq(Seq(Values)) /\ Len(Units(vals, n)) = k
  BY UnitValues
<1>5. Len(vals) \in Nat
  BY LenProperties
<1> DEFINE units == Units(vals, n)
           len == Len(vals)
<1>6. col = [units |-> units, numRows |-> len, width |-> n, direct |-> d]
  BY <1>3 DEF Column
<1>7. units \in Seq(Seq(Values)) /\ len \in Nat
  BY <1>4, <1>5
<1> HIDE DEF units, len
<1> QED
  BY <1>6, <1>7 DEF Columns

\* Columns make up a result.
LEMMA ResultOf ==
  ASSUME NEW N \in Nat, NEW res, DOMAIN res = 1 .. N, res = [c \in DOMAIN res |-> res[c]],
         \A c \in 1 .. N : IsColumn(res[c])
  PROVE  res \in Results /\ Len(res) = N
<1>1. \A c \in 1 .. N : res[c] \in Columns
  BY ColumnsAreColumns
<1>2. Maps(res, 1 .. N, Columns)
  BY <1>1 DEF Maps
<1> HIDE DEF Columns
<1> QED
  BY <1>2, SequenceOf DEF Results

\* res has the rows of node n, each of them once.
Answered(q, n, res) ==
  /\ res \in Results
  /\ Len(res) = Len(q.nodes[n].outputs)
  /\ DOMAIN res = 1 .. Len(q.nodes[n].outputs)
  /\ \E s : IsListing(s, Rows(q)[n]) /\ HasRows(res, s)

\* An answer has as many values in each column as it says.
LEMMA AnsweredIsResult ==
  ASSUME NEW q, NEW n, NEW res, Answered(q, n, res)
  PROVE  IsResult(res)
<1>1. \A c \in DOMAIN res : IsColumn(res[c])
  BY DEF Answered, HasRows
<1> QED
  BY <1>1, ColumnFacts DEF IsResult, ColumnFits

\* Row i of a result is the i-th row.
LEMMA RowOfResult ==
  ASSUME NEW q \in Queries, NEW n \in DOMAIN q.nodes, NEW res, Answered(q, n, res),
         NEW s, IsListing(s, Rows(q)[n]), HasRows(res, s), NEW i \in 1 .. Len(s)
  PROVE  ResultRow(res, i - 1) = s[i].row
<1> DEFINE row == s[i].row
           N == Len(q.nodes[n].outputs)
<1>1. s[i] \in Rows(q)[n]
  BY LenProperties DEF IsListing
<1>2. RowsFit(q, n)
  BY AllRowsFit
<1>3. row \in Seq(Values) /\ Len(row) = N
  BY <1>1, <1>2 DEF RowsFit
<1>4. DOMAIN res = 1 .. N
  BY DEF Answered
<1>5. \A c \in DOMAIN res : GetValue(res[c], i - 1) = row[c]
  BY DEF HasRows
<1> HIDE DEF row, N
<1>6. row = [c \in 1 .. N |-> row[c]]
  BY <1>3, LenProperties
<1>7. ResultRow(res, i - 1) = [c \in DOMAIN res |-> row[c]]
  BY <1>5 DEF ResultRow
<1> QED
  BY <1>4, <1>6, <1>7 DEF row

\* An answer has each row that the node asks for as often as it asks for it.
LEMMA AnsweredAnswers ==
  ASSUME query \in Queries, NEW n \in DOMAIN query.nodes, NEW res, Answered(query, n, res)
  PROVE  Answers(res, n)
<1> DEFINE rows == Rows(query)[n]
<1>1. PICK s : IsListing(s, rows) /\ HasRows(res, s)
  BY DEF Answered
<1>2. Len(s) \in Nat /\ Cardinality(rows) = Len(s) /\ IsFiniteSet(rows)
  BY <1>1, ListingSize
<1>3. \A c \in DOMAIN res : res[c].numRows = Cardinality(rows)
  BY <1>1, <1>2 DEF HasRows
<1>4. \A i \in 1 .. Len(s) : ResultRow(res, i - 1) = s[i].row
  BY <1>1, RowOfResult
<1>5. ASSUME NEW x \in rows
      PROVE  Cardinality({y \in rows : y.row = x.row})
               = Cardinality({i \in 0 .. Cardinality(rows) - 1 : ResultRow(res, i) = x.row})
  <2> DEFINE I == {i \in 0 .. Cardinality(rows) - 1 : ResultRow(res, i) = x.row}
             Y == {y \in rows : y.row = x.row}
             f == [i \in I |-> s[i + 1]]
  <2> HIDE DEF rows
  <2>1. DOMAIN s = 1 .. Len(s) /\ \A i \in 1 .. Len(s) : s[i] \in rows
    BY <1>1, LenProperties DEF IsListing
  <2>2. ASSUME NEW i \in I
        PROVE  i \in 0 .. Len(s) - 1 /\ i + 1 \in 1 .. Len(s) /\ s[i + 1] \in Y
    <3>1. i \in 0 .. Len(s) - 1 /\ i + 1 \in 1 .. Len(s) /\ (i + 1) - 1 = i
      BY <1>2
    <3> DEFINE j == i + 1
    <3>2. ResultRow(res, j - 1) = s[j].row
      BY <1>4, <3>1
    <3>3. j - 1 = i
      BY <3>1
    <3> HIDE DEF j
    <3>4. s[j].row = x.row
      BY <3>2, <3>3
    <3>5. s[j] \in Y
      BY <2>1, <3>1, <3>4 DEF j
    <3> QED
      BY <3>1, <3>5 DEF j
  <2>3. IsFiniteSet(I)
    <3>1. IsFiniteSet(0 .. Cardinality(rows) - 1)
      BY <1>2, FS_Interval
    <3> QED
      BY <3>1, FS_Subset
  <2> HIDE DEF I, Y
  <2>4. Maps(f, I, Y)
    BY <2>2 DEF Maps
  <2>5. ASSUME NEW i \in I, NEW j \in I, f[i] = f[j]
        PROVE  i = j
    <3>1. s[i + 1] = s[j + 1] /\ i + 1 \in 1 .. Len(s) /\ j + 1 \in 1 .. Len(s)
      BY <2>2, <2>5
    <3>2. i + 1 = j + 1
      BY <1>1, <2>1, <3>1 DEF IsListing
    <3> QED
      BY <1>2, <2>2, <3>2
  <2>6. ASSUME NEW y \in Y
        PROVE  \E i \in I : f[i] = y
    <3>1. y \in rows /\ y.row = x.row
      BY DEF Y
    <3>2. PICK j \in 1 .. Len(s) : s[j] = y
      BY <1>1, <2>1, <3>1 DEF IsListing
    <3>3. j - 1 \in 0 .. Cardinality(rows) - 1 /\ (j - 1) + 1 = j
      BY <1>2
    <3>4. ResultRow(res, j - 1) = x.row
      BY <1>4, <3>1, <3>2
    <3>5. j - 1 \in I
      BY <3>3, <3>4 DEF I
    <3> DEFINE i == j - 1
    <3>6. i \in I /\ i + 1 = j
      BY <3>3, <3>5
    <3> HIDE DEF i
    <3> QED
      BY <3>2, <3>6
  <2> HIDE DEF f
  <2>7. Cardinality(I) = Cardinality(Y)
    BY <2>3, <2>4, <2>5, <2>6, SameSize
  <2> QED
    BY <2>7 DEF I, Y
<1>6. Meaning[n] = rows
  BY MeaningIsRows
<1> HIDE DEF rows
<1> QED
  BY <1>3, <1>5, <1>6 DEF Answers

\* get_value finds in a column the values it was made of.
LEMMA ColumnOfValues ==
  ASSUME NEW vals \in Seq(Values), NEW col, col = Buffered(vals) \/ col = Direct(vals)
  PROVE  /\ IsColumn(col)
         /\ col.numRows = Len(vals) /\ Len(vals) \in Nat
         /\ \A i \in 1 .. Len(vals) : GetValue(col, i - 1) = vals[i]
<1>1. IsColumn(col)
  BY DEF IsColumn
<1>2. Len(vals) \in Nat
  BY LenProperties
<1>3. HasValues(col, vals)
  <2>1. CASE col = Buffered(vals)
    BY <2>1, SizesFacts, CutColumnFits DEF Buffered
  <2>2. CASE col = Direct(vals)
    BY <2>2, SizesFacts, CutColumnFits DEF Direct
  <2> QED
    BY <2>1, <2>2
<1>4. ASSUME NEW i \in 1 .. Len(vals)
      PROVE  GetValue(col, i - 1) = vals[i]
  <2> DEFINE r == i - 1
  <2>1. r \in 0 .. Len(vals) - 1 /\ r + 1 = i
    BY <1>2
  <2> HIDE DEF r
  <2>2. GetValue(col, r) = vals[i]
    BY <1>3, <2>1 DEF HasValues
  <2> QED
    BY <2>2 DEF r
<1> QED
  BY <1>1, <1>2, <1>3, <1>4 DEF HasValues

\* A node without rows.
LEMMA EmptyAnswered ==
  ASSUME NEW q \in Queries, NEW n \in DOMAIN q.nodes, Rows(q)[n] = {}
  PROVE  Answered(q, n, [c \in DOMAIN q.nodes[n].outputs |-> Buffered(<<>>)])
<1> DEFINE res == [c \in DOMAIN q.nodes[n].outputs |-> Buffered(<<>>)]
           N == Len(q.nodes[n].outputs)
<1>1. N \in Nat /\ DOMAIN res = 1 .. N
  BY NodeFacts
<1>2. Len(res) = N
  BY <1>1
<1>3. <<>> \in Seq(Values) /\ Len(<<>>) = 0
  BY EmptySeq
<1>4. ASSUME NEW col, col = Buffered(<<>>)
      PROVE  IsColumn(col) /\ col.numRows = 0
  <2> DEFINE vals == <<>>
  <2>1. vals \in Seq(Values) /\ Len(vals) = 0 /\ col = Buffered(vals)
    BY <1>3, <1>4
  <2> HIDE DEF vals
  <2> QED
    BY <2>1, ColumnOfValues
<1>5. \A c \in DOMAIN res : IsColumn(res[c]) /\ res[c].numRows = 0
  BY <1>4
<1>6. HasRows(res, <<>>)
  BY <1>3, <1>5 DEF HasRows
<1>7. IsListing(<<>>, Rows(q)[n])
  BY ListingOfNone
<1>8. res \in Results
  <2>1. res = [c \in DOMAIN res |-> res[c]] /\ \A c \in 1 .. N : IsColumn(res[c])
    BY <1>1, <1>5
  <2> HIDE DEF res, N
  <2> QED
    BY <1>1, <2>1, ResultOf
<1> QED
  BY <1>1, <1>2, <1>6, <1>7, <1>8 DEF Answered

\* col has what the scan self lists as output i of N rows.
HasBase(col, q, self, i, N) ==
  /\ N \in Nat
  /\ IsColumn(col)
  /\ col.numRows = N
  /\ \A r \in 1 .. N : GetValue(col, r - 1) = BaseValue(q, self.table, self.outputs[i], r)

\* A scan makes of a base column what the plan asks for.
LEMMA ScanBuilds ==
  ASSUME query \in Queries, NEW n \in DOMAIN query.nodes, IsScan(query.nodes[n]),
         NEW i \in 1 .. Len(query.nodes[n].outputs),
         NEW N, N = Len(query.inputs[query.nodes[n].table][1].rows),
         NEW col, col = BuildColumn(query.nodes[n].table, query.nodes[n].outputs[i])
  PROVE  HasBase(col, query, query.nodes[n], i, N)
<1> DEFINE self == query.nodes[n]
           t == self.table
           c == self.outputs[i]
           table == query.inputs[t]
           column == table[c + 1]
           vals == [r \in 1 .. N |-> BaseValue(query, t, c, r)]
<1>1. table = query.inputs[self.table] /\ column = table[self.outputs[i] + 1]
  OBVIOUS
<1>2. /\ t \in Nat /\ c \in Nat
      /\ column.type = self.types[i] /\ column.type \in Types
      /\ column.rows \in Seq(Keys \cup {Null})
      /\ Len(column.rows) = N /\ N \in Nat
      /\ DOMAIN table[1].rows = 1 .. N
  <2>1. N = Len(table[1].rows)
    OBVIOUS
  <2> HIDE DEF table, column
  <2>2. ListsColumn(self, i, table, column)
    BY <1>1, ScanColumn
  <2> QED
    BY <2>1, <2>2 DEF ListsColumn
<1>3. \A r \in 1 .. N : BaseValue(query, t, c, r) \in Values
  <2>1. \A r \in 1 .. N : ValueFits(self, i, BaseValue(query, t, c, r))
    BY <1>2, ScanValue
  <2> QED
    BY <2>1 DEF ValueFits
<1>4. vals \in Seq(Values) /\ Len(vals) = N /\ \A r \in 1 .. N : vals[r] = BaseValue(query, t, c, r)
  <2> DEFINE V(r) == BaseValue(query, t, c, r)
             w == [r \in 1 .. N |-> V(r)]
  <2>1. \A r \in 1 .. N : V(r) \in Values
    BY <1>3
  <2> HIDE DEF V
  <2>2. w \in Seq(Values) /\ Len(w) = N /\ \A r \in 1 .. N : w[r] = V(r)
    <3>1. N \in Nat
      BY <1>2
    <3>2. Maps(w, 1 .. N, Values) /\ \A r \in 1 .. N : w[r] = V(r)
      BY <2>1 DEF Maps
    <3> HIDE DEF w
    <3>3. w \in Seq(Values) /\ Len(w) = N
      BY <3>1, <3>2, SequenceOf
    <3> QED
      BY <3>2, <3>3
  <2> QED
    BY <2>2 DEF V
<1>5. \A r \in 1 .. N :
        BaseValue(query, t, c, r) = IF column.type = "VARCHAR" THEN <<t, c, r - 1>> ELSE column.rows[r]
  BY DEF BaseValue
<1>6. col = IF column.type = "VARCHAR"
            THEN Buffered([r \in 1 .. N |-> <<t, c, r - 1>>])
            ELSE IF N # 0 /\ Null \notin Range(column.rows)
                 THEN Direct(column.rows)
                 ELSE Buffered(column.rows)
  BY <1>2 DEF BuildColumn
<1> HIDE DEF column, table
<1>7. column.type # "VARCHAR" => column.rows = vals
  <2> SUFFICES ASSUME column.type # "VARCHAR"
               PROVE  column.rows = vals
    OBVIOUS
  <2> DEFINE rows == column.rows
  <2>1. rows \in Seq(Keys \cup {Null}) /\ Len(rows) = N
    BY <1>2
  <2> HIDE DEF rows
  <2>2. rows = [r \in 1 .. N |-> rows[r]]
    BY <2>1, LenProperties
  <2>3. \A r \in 1 .. N : rows[r] = BaseValue(query, t, c, r)
    BY <1>5 DEF rows
  <2>4. rows = vals
    BY <2>2, <2>3
  <2> QED
    BY <2>4 DEF rows
<1>8. column.type = "VARCHAR" => [r \in 1 .. N |-> <<t, c, r - 1>>] = vals
  BY <1>5
<1> HIDE DEF vals
<1>9. col = Buffered(vals) \/ col = Direct(vals)
  BY <1>6, <1>7, <1>8
<1>10. /\ IsColumn(col)
       /\ col.numRows = N
       /\ \A r \in 1 .. N : GetValue(col, r - 1) = vals[r]
  BY <1>4, <1>9, ColumnOfValues
<1> QED
  BY <1>2, <1>4, <1>10 DEF HasBase

\* execute_scan answers its node.
LEMMA ScanAnswered ==
  ASSUME query \in Queries, NEW n \in DOMAIN query.nodes, IsScan(query.nodes[n])
  PROVE  Answered(query, n, [c \in DOMAIN query.nodes[n].outputs |->
                               BuildColumn(query.nodes[n].table, query.nodes[n].outputs[c])])
<1> DEFINE self == query.nodes[n]
           t == self.table
           C == Len(self.outputs)
           D == DOMAIN query.inputs[t][1].rows
           N == Len(query.inputs[t][1].rows)
           res == [c \in DOMAIN self.outputs |-> BuildColumn(t, self.outputs[c])]
           Value(i, r) == BaseValue(query, t, self.outputs[i], r)
           ScanRow(r) == [at |-> r, row |-> [i \in DOMAIN self.outputs |-> Value(i, r)]]
           s == [r \in 1 .. N |-> ScanRow(r)]
<1>1. C \in Nat /\ DOMAIN self.outputs = 1 .. C
  BY NodeFacts
<1>2. DOMAIN res = 1 .. C /\ Len(res) = C
  BY <1>1
<1>3. N \in Nat /\ D = 1 .. N
  <2>1. query.inputs[t] \in Seq([type : Types, rows : Seq(Keys \cup {Null})]) \ {<<>>}
    <3>1. ScanWellFormed(query, n)
      BY NodeFacts, Zenon
    <3>2. t \in DOMAIN query.inputs
      BY <3>1 DEF ScanWellFormed
    <3> QED
      BY <3>2, ExecutionAssumption DEF IsTable
  <2> DEFINE table == query.inputs[t]
             Cols == [type : Types, rows : Seq(Keys \cup {Null})]
  <2>2. table \in Seq(Cols) /\ table # <<>>
    BY <2>1
  <2> HIDE DEF table
  <2>3. table[1] \in Cols
    <3> HIDE DEF Cols
    <3>1. Len(table) \in Nat \ {0}
      BY <2>2, LenProperties, EmptySeq
    <3> QED
      BY <2>2, <3>1, ElementOfSeq
  <2>4. Len(table[1].rows) \in Nat /\ DOMAIN table[1].rows = 1 .. Len(table[1].rows)
    BY <2>3, LenProperties
  <2> QED
    BY <2>4 DEF table
<1>4. Rows(query)[n] = {ScanRow(r) : r \in D}
  <2>1. Rows(query)[n] = ScanRows(query, self)
    BY RowsOfNode DEF NodeRows
  <2> QED
    BY <2>1 DEF ScanRows
<1>5. \A c \in 1 .. C : /\ IsColumn(res[c])
                        /\ res[c].numRows = N
                        /\ \A r \in 1 .. N : GetValue(res[c], r - 1) = Value(c, r)
  <2> TAKE c \in 1 .. C
  <2> DEFINE col == res[c]
  <2>1. col = BuildColumn(query.nodes[n].table, query.nodes[n].outputs[c])
    BY <1>1
  <2> HIDE DEF col
  <2>2. HasBase(col, query, self, c, N)
    BY <2>1, ScanBuilds
  <2> QED
    BY <2>2 DEF HasBase, col
<1>6. res = [c \in DOMAIN res |-> res[c]]
  OBVIOUS
<1> HIDE DEF res, D, N, Value, C
<1>7. res \in Results
  BY <1>1, <1>2, <1>5, <1>6, ResultOf
<1>8. /\ DOMAIN s = 1 .. N /\ Len(s) = N
      /\ \A r \in 1 .. N : /\ s[r].at = r /\ s[r] \in Rows(query)[n]
                           /\ \A c \in 1 .. C : s[r].row[c] = Value(c, r)
  <2>1. \A r : ScanRow(r).at = r /\ \A c \in 1 .. C : ScanRow(r).row[c] = Value(c, r)
    BY <1>1
  <2>2. \A r \in 1 .. N : ScanRow(r) \in Rows(query)[n]
    BY <1>3, <1>4
  <2> HIDE DEF ScanRow
  <2>3. DOMAIN s = 1 .. N /\ Len(s) = N /\ \A r \in 1 .. N : s[r] = ScanRow(r)
    BY <1>3
  <2> QED
    BY <2>1, <2>2, <2>3
<1>9. s \in Seq(Rows(query)[n])
  <2>1. s = [r \in 1 .. N |-> s[r]]
    OBVIOUS
  <2> HIDE DEF s
  <2> QED
    BY <1>3, <1>8, <2>1
<1>10. ASSUME NEW x \in Rows(query)[n]
      PROVE  \E r \in DOMAIN s : s[r] = x
  BY <1>3, <1>4
<1> HIDE DEF s
<1>11. IsListing(s, Rows(query)[n])
  BY <1>8, <1>9, <1>10 DEF IsListing
<1>12. HasRows(res, s)
  BY <1>2, <1>5, <1>8 DEF HasRows
<1>13. Answered(query, n, res)
  BY <1>2, <1>11, <1>12, <1>7 DEF Answered, C
<1> QED
  BY <1>13 DEF res

-----------------------------------------------------------------------------
(* Keys and matches                                                        *)

\* A column that joins compare.
IsKeyColumn(col) ==
  /\ IsColumn(col)
  /\ \A r \in 0 .. col.numRows - 1 : GetValue(col, r) \in Keys \cup {Null}

\* The rows of col with key k, ...
KeyRows(col, k) == {r \in 0 .. col.numRows - 1 : GetValue(col, r) = k}

\* ... listed by a hash table.
IsTableOf(ch, col) == \A k \in Keys : IsListing(ch[k], KeyRows(col, k))

\* The rows of bld and prb that match, those of prb being in the units D.
PairsOf(bld, prb, D) ==
  {p \in (0 .. bld.numRows - 1) \X (0 .. prb.numRows - 1) :
     /\ GetValue(prb, p[2]) # Null
     /\ GetValue(bld, p[1]) = GetValue(prb, p[2])
     /\ p[2] \div prb.width \in D}

\* The orders of a set are its listings.
LEMMA OrdersAreListings ==
  ASSUME NEW S, IsFiniteSet(S), NEW s \in SetToSeqs(S)
  PROVE  IsListing(s, S)
<1> DEFINE D == 1 .. Cardinality(S)
<1>1. s \in [D -> S] /\ \A i, j \in D : i # j => s[i] # s[j]
  BY DEF SetToSeqs
<1>2. Cardinality(S) \in Nat
  BY FS_CardinalityType
<1>3. s \in Injection(D, S)
  BY <1>1 DEF Injection, IsInjective
<1>4. IsFiniteSet(D) /\ Cardinality(D) = Cardinality(S)
  BY <1>2, FS_Interval
<1>5. s \in Surjection(D, S)
  <2> HIDE DEF D
  <2> QED
    BY <1>3, <1>4, FS_Injection
<1>6. \A x \in S : \E i \in D : s[i] = x
  <2> HIDE DEF D
  <2> QED
    BY <1>5 DEF Surjection
<1>7. s \in Seq(S)
  BY <1>1, <1>2
<1>8. DOMAIN s = D
  BY <1>1
<1> HIDE DEF D
<1> QED
  BY <1>1, <1>6, <1>7, <1>8 DEF IsListing

\* build_parallel leaves a listing of the rows of each key.
LEMMA ChainsListRows ==
  ASSUME IsColumn(build), NEW ch \in Chains
  PROVE  IsTableOf(ch, build) /\ ch \in [Keys -> Seq(Nat)]
<1>1. build.numRows \in Nat
  BY ColumnFacts DEF ColumnFits
<1>2. ASSUME NEW k \in Keys
      PROVE  ch[k] \in SetToSeqs(RowsWith(k))
  <2> DEFINE order == [x \in Keys |-> SetToSeqs(RowsWith(x))]
  <2>1. \A x \in Keys : ch[x] \in order[x]
    BY DEF Chains
  <2> QED
    BY <2>1
<1>3. ASSUME NEW k \in Keys
      PROVE  IsListing(ch[k], KeyRows(build, k)) /\ ch[k] \in Seq(Nat)
  <2>1. RowsWith(k) = KeyRows(build, k)
    BY DEF RowsWith, KeyRows
  <2>2. KeyRows(build, k) \subseteq 0 .. build.numRows - 1
    BY DEF KeyRows
  <2>3. IsFiniteSet(KeyRows(build, k))
    <3>1. IsFiniteSet(0 .. build.numRows - 1)
      BY <1>1, FS_Interval
    <3> QED
      BY <2>2, <3>1, FS_Subset
  <2>4. IsListing(ch[k], KeyRows(build, k))
    BY <1>2, <2>1, <2>3, OrdersAreListings
  <2>5. ch[k] \in Seq(KeyRows(build, k)) /\ KeyRows(build, k) \subseteq Nat
    BY <1>1, <2>2, <2>4 DEF IsListing
  <2> HIDE DEF IsListing
  <2>6. ch[k] \in Seq(Nat)
    BY <2>5, SeqMonotonic
  <2> QED
    BY <2>4, <2>6
<1>4. DOMAIN ch = Keys /\ ch = [k \in DOMAIN ch |-> ch[k]]
  BY DEF Chains
<1> QED
  BY <1>3, <1>4 DEF IsTableOf

\* The matches of place i of a unit.
MatchesAt(ch, col, u, i) ==
  IF col.units[u + 1][i] = Null
  THEN <<>>
  ELSE [j \in DOMAIN ch[col.units[u + 1][i]] |-> <<ch[col.units[u + 1][i]][j], RowAt(col, u, i)>>]

\* The pairs of one place.
PairsAt(bld, col, u, i) ==
  {p \in PairsOf(bld, col, {u}) : p[2] = RowAt(col, u, i)}

\* Looking a key up lists the pairs of its place.
LEMMA MatchesAtPlace ==
  ASSUME NEW bld, NEW col, IsColumn(bld), IsKeyColumn(col), NEW ch, IsTableOf(ch, bld),
         NEW u \in 0 .. Len(col.units) - 1, NEW i \in 1 .. Len(col.units[u + 1])
  PROVE  IsListing(MatchesAt(ch, col, u, i), PairsAt(bld, col, u, i))
<1> DEFINE r == RowAt(col, u, i)
           k == col.units[u + 1][i]
           s == MatchesAt(ch, col, u, i)
           P == PairsAt(bld, col, u, i)
           rows == KeyRows(bld, k)
<1>1. r \in 0 .. col.numRows - 1 /\ r \div col.width = u /\ k = GetValue(col, r)
  <2>1. ColumnFits(col)
    BY ColumnFacts DEF IsKeyColumn
  <2> QED
    BY <2>1 DEF ColumnFits
<1>2. k \in Keys \cup {Null}
  BY <1>1 DEF IsKeyColumn
<1>3. \A p : p \in P <=> p \in rows \X {r} /\ k # Null
  <2> HIDE DEF r, k
  <2>1. \A p : p \in P <=> /\ p \in (0 .. bld.numRows - 1) \X (0 .. col.numRows - 1)
                           /\ GetValue(col, p[2]) # Null
                           /\ GetValue(bld, p[1]) = GetValue(col, p[2])
                           /\ p[2] \div col.width = u
                           /\ p[2] = r
    BY DEF PairsAt, PairsOf, r
  <2>2. \A p : p \in rows \X {r} <=> /\ p \in (0 .. bld.numRows - 1) \X {r}
                                     /\ GetValue(bld, p[1]) = k
    BY DEF KeyRows
  <2> HIDE DEF P, rows
  <2> QED
    BY <1>1, <2>1, <2>2
<1>4. CASE k = Null
  <2>1. s = <<>> /\ P = {}
    BY <1>3, <1>4 DEF MatchesAt
  <2> QED
    BY <2>1, ListingOfNone
<1>5. CASE k # Null
  <2> DEFINE list == ch[k]
  <2>1. IsListing(list, rows)
    BY <1>2, <1>5 DEF IsTableOf
  <2>2. s = [j \in DOMAIN list |-> <<list[j], r>>]
    BY <1>5 DEF MatchesAt
  <2>3. P = rows \X {r}
    BY <1>3, <1>5
  <2> HIDE DEF list, s, P, rows, r
  <2>4. /\ Len(list) \in Nat /\ DOMAIN list = 1 .. Len(list)
        /\ \A j \in 1 .. Len(list) : list[j] \in rows
    BY <2>1, LenProperties DEF IsListing
  <2>5. Maps(s, 1 .. Len(list), P)
    BY <2>2, <2>3, <2>4 DEF Maps
  <2>6. s \in Seq(P) /\ DOMAIN s = DOMAIN list
    BY <2>2, <2>4, <2>5, SequenceOf
  <2>7. \A j, l \in DOMAIN s : s[j] = s[l] => j = l
    <3> SUFFICES ASSUME NEW j \in DOMAIN s, NEW l \in DOMAIN s, s[j] = s[l]
                 PROVE  j = l
      OBVIOUS
    <3>1. <<list[j], r>> = <<list[l], r>>
      BY <2>2, <2>6
    <3>2. list[j] = list[l]
      BY <3>1
    <3> QED
      BY <2>1, <2>6, <3>2 DEF IsListing
  <2>8. ASSUME NEW x \in P
        PROVE  \E j \in DOMAIN s : s[j] = x
    <3>1. x = <<x[1], r>> /\ x[1] \in rows
      BY <2>3
    <3>2. PICK j \in DOMAIN list : list[j] = x[1]
      BY <2>1, <3>1 DEF IsListing
    <3>3. s[j] = x
      BY <2>2, <3>1, <3>2
    <3> QED
      BY <2>6, <3>2, <3>3
  <2>9. IsListing(s, P)
    BY <2>6, <2>7, <2>8 DEF IsListing
  <2> QED
    BY <2>9 DEF s, P
<1> QED
  BY <1>4, <1>5

\* Pairs of different places differ, ...
LEMMA PlacesApart ==
  ASSUME NEW col, ColumnFits(col), NEW u \in 0 .. Len(col.units) - 1,
         NEW i \in 1 .. Len(col.units[u + 1]), NEW j \in 1 .. Len(col.units[u + 1]),
         RowAt(col, u, i) = RowAt(col, u, j)
  PROVE  i = j
<1> DEFINE a == u * col.width
<1>1. a \in Int /\ i \in Int /\ j \in Int
  BY DEF ColumnFits
<1>2. a + i - 1 = a + j - 1
  BY DEF RowAt
<1> HIDE DEF a
<1> QED
  BY <1>1, <1>2

\* ... and every pair of a unit is at one of its places.
LEMMA PairHasPlace ==
  ASSUME NEW bld, NEW col, ColumnFits(col), NEW u \in 0 .. Len(col.units) - 1,
         NEW p \in PairsOf(bld, col, {u})
  PROVE  \E i \in 1 .. Len(col.units[u + 1]) : p \in PairsAt(bld, col, u, i)
<1> DEFINE r == p[2]
<1>1. r \in 0 .. col.numRows - 1 /\ r \div col.width = u
  BY DEF PairsOf
<1>2. \E i \in 1 .. Len(col.units[r \div col.width + 1]) : r = RowAt(col, r \div col.width, i)
  <2> HIDE DEF r
  <2> QED
    BY <1>1, Zenon DEF ColumnFits
<1>3. PICK i \in 1 .. Len(col.units[u + 1]) : r = RowAt(col, u, i)
  BY <1>1, <1>2
<1> QED
  BY <1>3 DEF PairsAt

\* run lists the matches of each unit.
LEMMA MatchesListPairs ==
  ASSUME IsColumn(build), IsKeyColumn(probe), IsTableOf(chain, build),
         NEW u \in 0 .. Len(probe.units) - 1
  PROVE  IsListing(Matches(u), PairsOf(build, probe, {u}))
<1> DEFINE keys == probe.units[u + 1]
           places == [i \in DOMAIN keys |-> MatchesAt(chain, probe, u, i)]
           parts == [i \in 1 .. Len(keys) |-> PairsAt(build, probe, u, i)]
           S == (0 .. build.numRows - 1) \X (0 .. probe.numRows - 1)
<1>1. ColumnFits(probe) /\ IsColumn(probe)
  BY ColumnFacts DEF IsKeyColumn
<1>2. Len(keys) \in Nat /\ DOMAIN keys = 1 .. Len(keys)
  <2>1. Len(probe.units) \in Nat /\ probe.units \in Seq(Seq(Values))
    BY <1>1 DEF ColumnFits
  <2>2. u + 1 \in 1 .. Len(probe.units)
    BY <2>1
  <2>3. keys \in Seq(Values)
    BY <2>1, <2>2, ElementOfSeq
  <2> QED
    BY <2>3, LenProperties
<1>3. \A i \in 1 .. Len(keys) : BaseRow(u) + i - 1 = RowAt(probe, u, i)
  <2>1. BaseRow(u) = u * probe.width
    BY <1>1, BaseRowIs DEF NumUnits
  <2> QED
    BY <2>1 DEF RowAt
<1>4. Matches(u) = FlattenSeq(places)
  <2> DEFINE Of(i) == IF keys[i] = Null
                      THEN <<>>
                      ELSE [j \in DOMAIN chain[keys[i]] |->
                              <<chain[keys[i]][j], BaseRow(u) + i - 1>>]
  <2>1. Matches(u) = FlattenSeq([i \in DOMAIN keys |-> Of(i)])
    BY DEF Matches
  <2>2. \A i \in DOMAIN keys : Of(i) = MatchesAt(chain, probe, u, i)
    <3> TAKE i \in DOMAIN keys
    <3> DEFINE r == BaseRow(u) + i - 1
    <3>1. r = RowAt(probe, u, i)
      BY <1>2, <1>3
    <3>2. Of(i) = IF keys[i] = Null
                  THEN <<>>
                  ELSE [j \in DOMAIN chain[keys[i]] |-> <<chain[keys[i]][j], r>>]
      OBVIOUS
    <3> HIDE DEF r, Of
    <3> QED
      BY <3>1, <3>2 DEF MatchesAt
  <2> HIDE DEF Of
  <2>3. [i \in DOMAIN keys |-> Of(i)] = places
    BY <2>2
  <2> QED
    BY <2>1, <2>3
<1>5. \A i \in 1 .. Len(keys) : IsListing(MatchesAt(chain, probe, u, i), PairsAt(build, probe, u, i))
  BY MatchesAtPlace
<1> HIDE DEF keys
<1>6. /\ Len(places) = Len(keys) /\ DOMAIN places = 1 .. Len(keys)
      /\ \A i \in 1 .. Len(places) : IsListing(places[i], parts[i])
  BY <1>2, <1>5
<1>7. \A i \in 1 .. Len(keys) : parts[i] \subseteq PairsOf(build, probe, {u}) /\ parts[i] \subseteq S
  <2>1. PairsOf(build, probe, {u}) \subseteq S
    BY DEF PairsOf
  <2>2. \A i \in 1 .. Len(keys) : PairsAt(build, probe, u, i) \subseteq PairsOf(build, probe, {u})
    BY DEF PairsAt
  <2> HIDE DEF S
  <2> QED
    BY <2>1, <2>2
<1>8. places \in Seq(Seq(S))
  <2>1. \A i \in 1 .. Len(keys) : places[i] \in Seq(parts[i])
    BY <1>6 DEF IsListing
  <2> HIDE DEF S, parts
  <2>2. \A i \in 1 .. Len(keys) : places[i] \in Seq(S)
    BY <1>7, <2>1, SeqMonotonic
  <2>3. Maps(places, 1 .. Len(keys), Seq(S))
    BY <1>2, <2>2 DEF Maps
  <2> HIDE DEF places
  <2> QED
    BY <1>2, <2>3, SequenceOf
<1>9. \A i, j \in 1 .. Len(places) : i # j => parts[i] \cap parts[j] = {}
  <2> SUFFICES ASSUME NEW i \in 1 .. Len(keys), NEW j \in 1 .. Len(keys), NEW p \in parts[i] \cap parts[j]
               PROVE  i = j
    BY <1>6
  <2>1. p \in PairsAt(build, probe, u, i) /\ p \in PairsAt(build, probe, u, j)
    OBVIOUS
  <2>2. RowAt(probe, u, i) = RowAt(probe, u, j)
    BY <2>1 DEF PairsAt
  <2> QED
    BY <1>1, <2>2, PlacesApart DEF keys
<1>10. UNION {parts[i] : i \in 1 .. Len(places)} = PairsOf(build, probe, {u})
  <2>1. \A p \in PairsOf(build, probe, {u}) : \E i \in 1 .. Len(keys) : p \in PairsAt(build, probe, u, i)
    BY <1>1, PairHasPlace DEF keys
  <2>2. \A p \in PairsOf(build, probe, {u}) : \E i \in 1 .. Len(keys) : p \in parts[i]
    BY <2>1
  <2> HIDE DEF parts
  <2> QED
    BY <1>6, <1>7, <2>2
<1> HIDE DEF parts, places, S
<1>11. ListsParts(places, parts)
  BY <1>6, <1>9 DEF ListsParts
<1>12. IsListing(FlattenSeq(places), AllOf(parts, Len(places)))
  BY <1>8, <1>11, FlattenListings
<1> QED
  BY <1>4, <1>10, <1>12 DEF AllOf

-----------------------------------------------------------------------------
(* Joins                                                                   *)

\* run is about to join, or joins, the answers of the nodes below.
JoinReady ==
  /\ query \in Queries
  /\ frame.node \in DOMAIN query.nodes
  /\ ~IsScan(node)
  /\ Answered(query, node.left, left)
  /\ Answered(query, node.right, right)

\* The columns that a join compares have keys.
LEMMA AnsweredKeys ==
  ASSUME NEW q \in Queries, NEW n \in DOMAIN q.nodes, NEW res, Answered(q, n, res),
         NEW attr \in Nat, attr < Len(q.nodes[n].outputs), q.nodes[n].types[attr + 1] = "INT32"
  PROVE  /\ IsKeyColumn(res[attr + 1])
         /\ attr + 1 \in DOMAIN res
<1> DEFINE c == attr + 1
           col == res[c]
           N == Len(q.nodes[n].outputs)
<1>1. c \in 1 .. N
  BY NodeFacts
<1>2. PICK s : IsListing(s, Rows(q)[n]) /\ HasRows(res, s)
  BY DEF Answered
<1>3. Len(s) \in Nat /\ DOMAIN s = 1 .. Len(s) /\ \A i \in 1 .. Len(s) : s[i] \in Rows(q)[n]
  BY <1>2, LenProperties DEF IsListing
<1>4. c \in DOMAIN res
  BY <1>1 DEF Answered
<1>5. q.nodes[n].types[c] = "INT32"
  OBVIOUS
<1> HIDE DEF c
<1>6. /\ IsColumn(col) /\ col.numRows = Len(s)
      /\ \A i \in 1 .. Len(s) : GetValue(col, i - 1) = s[i].row[c]
  BY <1>2, <1>4 DEF HasRows
<1>7. ASSUME NEW i \in 1 .. Len(s)
      PROVE  s[i].row[c] \in Keys \cup {Null}
  <2>1. RowsFit(q, n)
    BY AllRowsFit
  <2>2. ValueFits(q.nodes[n], c, s[i].row[c])
    BY <1>1, <1>3, <2>1 DEF RowsFit
  <2> QED
    BY <1>5, <2>2 DEF ValueFits
<1> HIDE DEF col
<1>8. ASSUME NEW r \in 0 .. col.numRows - 1
      PROVE  GetValue(col, r) \in Keys \cup {Null}
  <2> DEFINE i == r + 1
  <2>1. i \in 1 .. Len(s) /\ i - 1 = r
    BY <1>3, <1>6
  <2> HIDE DEF i
  <2>2. GetValue(col, i - 1) \in Keys \cup {Null}
    BY <1>6, <1>7, <2>1
  <2> QED
    BY <2>1, <2>2
<1>9. IsKeyColumn(col)
  BY <1>6, <1>8 DEF IsKeyColumn
<1> QED
  BY <1>4, <1>9 DEF c, col

\* The node of a join and those below it.
LEMMA JoinNodes ==
  ASSUME NEW q \in Queries, NEW n \in DOMAIN q.nodes, ~IsScan(q.nodes[n]),
         NEW l, l = q.nodes[n].left, NEW r, r = q.nodes[n].right
  PROVE  /\ l \in DOMAIN q.nodes /\ r \in DOMAIN q.nodes
         /\ q.nodes[n].leftAttr \in Nat /\ q.nodes[n].leftAttr < Len(q.nodes[l].outputs)
         /\ q.nodes[l].types[q.nodes[n].leftAttr + 1] = "INT32"
         /\ q.nodes[n].rightAttr \in Nat /\ q.nodes[n].rightAttr < Len(q.nodes[r].outputs)
         /\ q.nodes[r].types[q.nodes[n].rightAttr + 1] = "INT32"
<1> DEFINE self == q.nodes[n]
<1>1. JoinWellFormed(q, n)
  BY NodeFacts, Zenon
<1>2. self \in Node /\ DOMAIN q.nodes = 1 .. Len(q.nodes) /\ Len(q.nodes) \in Nat
  BY NodeFacts
<1>3. self.leftAttr \in Nat /\ self.rightAttr \in Nat
  BY <1>2 DEF Node
<1>4. /\ {self.left, self.right} \subseteq 1 .. n - 1
      /\ self.leftAttr < Len(q.nodes[self.left].outputs)
      /\ q.nodes[self.left].types[self.leftAttr + 1] = "INT32"
      /\ self.rightAttr < Len(q.nodes[self.right].outputs)
      /\ q.nodes[self.right].types[self.rightAttr + 1] = "INT32"
  BY <1>1, Zenon DEF JoinWellFormed
<1>5. self.left = l /\ self.right = r
  OBVIOUS
<1> HIDE DEF self
<1>6. l \in 1 .. n - 1 /\ r \in 1 .. n - 1
  BY <1>4, <1>5
<1>7. l \in DOMAIN q.nodes /\ r \in DOMAIN q.nodes
  BY <1>2, <1>6
<1> QED
  BY <1>3, <1>4, <1>5, <1>7 DEF self

\* Both columns that run compares have keys, ...
LEMMA JoinColumns ==
  ASSUME JoinReady
  PROVE  /\ IsKeyColumn(LeftCol) /\ IsKeyColumn(RightCol)
         /\ node.leftAttr + 1 \in DOMAIN left /\ node.rightAttr + 1 \in DOMAIN right
<1> DEFINE n == frame.node
<1>1. /\ query \in Queries /\ n \in DOMAIN query.nodes /\ node = query.nodes[n] /\ ~IsScan(query.nodes[n])
      /\ Answered(query, node.left, left) /\ Answered(query, node.right, right)
  BY DEF JoinReady, node
<1> HIDE DEF n
<1>2. /\ node.left \in DOMAIN query.nodes /\ node.right \in DOMAIN query.nodes
      /\ node.leftAttr \in Nat /\ node.leftAttr < Len(query.nodes[node.left].outputs)
      /\ query.nodes[node.left].types[node.leftAttr + 1] = "INT32"
      /\ node.rightAttr \in Nat /\ node.rightAttr < Len(query.nodes[node.right].outputs)
      /\ query.nodes[node.right].types[node.rightAttr + 1] = "INT32"
  BY <1>1, JoinNodes
<1>3. IsKeyColumn(LeftCol) /\ node.leftAttr + 1 \in DOMAIN left
  BY <1>1, <1>2, AnsweredKeys DEF LeftCol
<1>4. IsKeyColumn(RightCol) /\ node.rightAttr + 1 \in DOMAIN right
  BY <1>1, <1>2, AnsweredKeys DEF RightCol
<1> QED
  BY <1>3, <1>4

\* ... and so have the build and the probe side.
LEMMA JoinSides ==
  ASSUME JoinReady
  PROVE  /\ IsKeyColumn(build) /\ IsKeyColumn(probe)
         /\ IsColumn(build) /\ IsColumn(probe)
         /\ build.numRows \in Nat /\ probe.numRows \in Nat
         /\ NumUnits \in Nat /\ Len(probe.units) = NumUnits
<1>1. IsKeyColumn(build) /\ IsKeyColumn(probe)
  BY JoinColumns DEF build, probe
<1>2. IsColumn(build) /\ IsColumn(probe)
  BY <1>1 DEF IsKeyColumn
<1>3. ColumnFits(build) /\ ColumnFits(probe)
  BY <1>2, ColumnFacts
<1> QED
  BY <1>1, <1>2, <1>3 DEF ColumnFits, NumUnits

\* All pairs of a build row and a probe row, and the row of each side.
AllPairs == (0 .. build.numRows - 1) \X (0 .. probe.numRows - 1)

\* The rows of a pair on the left and on the right.
LeftOf(p) == IF buildLeft THEN p[1] ELSE p[2]
RightOf(p) == IF buildLeft THEN p[2] ELSE p[1]

\* What appending a match does to output column c.
ColumnMap(c) == [p \in AllPairs |-> OutputValue(c, p)]

\* The answers of the nodes below a join.
SidesAre(ls, rs) ==
  /\ IsListing(ls, Rows(query)[node.left]) /\ HasRows(left, ls)
  /\ IsListing(rs, Rows(query)[node.right]) /\ HasRows(right, rs)

\* The sides have their rows in some order, ...
LEMMA SidesExist ==
  ASSUME JoinReady
  PROVE  \E ls, rs : SidesAre(ls, rs)
BY DEF JoinReady, Answered, SidesAre

\* ... as many as their columns have values.
LEMMA SideSizes ==
  ASSUME JoinReady, NEW ls, NEW rs, SidesAre(ls, rs)
  PROVE  /\ Len(ls) \in Nat /\ Len(rs) \in Nat
         /\ DOMAIN ls = 1 .. Len(ls) /\ DOMAIN rs = 1 .. Len(rs)
         /\ \A i \in 1 .. Len(ls) : ls[i] \in Rows(query)[node.left]
         /\ \A i \in 1 .. Len(rs) : rs[i] \in Rows(query)[node.right]
         /\ LeftCol.numRows = Len(ls) /\ RightCol.numRows = Len(rs)
         /\ \A i \in 1 .. Len(ls) : GetValue(LeftCol, i - 1) = ls[i].row[node.leftAttr + 1]
         /\ \A i \in 1 .. Len(rs) : GetValue(RightCol, i - 1) = rs[i].row[node.rightAttr + 1]
<1>1. IsListing(ls, Rows(query)[node.left]) /\ IsListing(rs, Rows(query)[node.right])
  BY DEF SidesAre
<1>2. /\ Len(ls) \in Nat /\ Len(rs) \in Nat
      /\ DOMAIN ls = 1 .. Len(ls) /\ DOMAIN rs = 1 .. Len(rs)
      /\ \A i \in 1 .. Len(ls) : ls[i] \in Rows(query)[node.left]
      /\ \A i \in 1 .. Len(rs) : rs[i] \in Rows(query)[node.right]
  BY <1>1, LenProperties DEF IsListing
<1>3. node.leftAttr + 1 \in DOMAIN left /\ node.rightAttr + 1 \in DOMAIN right
  BY JoinColumns
<1>4. HasRows(left, ls) /\ HasRows(right, rs)
  BY DEF SidesAre
<1>5. LeftCol.numRows = Len(ls)
      /\ \A i \in 1 .. Len(ls) : GetValue(LeftCol, i - 1) = ls[i].row[node.leftAttr + 1]
  BY <1>3, <1>4 DEF HasRows, LeftCol
<1>6. RightCol.numRows = Len(rs)
      /\ \A i \in 1 .. Len(rs) : GetValue(RightCol, i - 1) = rs[i].row[node.rightAttr + 1]
  BY <1>3, <1>4 DEF HasRows, RightCol
<1> QED
  BY <1>2, <1>5, <1>6

\* A pair is of a row of the left and a row of the right, and matches when
\* their keys do.
LEMMA PairRows ==
  ASSUME JoinReady, NEW ls, NEW rs, SidesAre(ls, rs), NEW p \in AllPairs,
         NEW i, i = LeftOf(p) + 1, NEW j, j = RightOf(p) + 1
  PROVE  /\ i \in 1 .. Len(ls) /\ j \in 1 .. Len(rs)
         /\ LeftOf(p) = i - 1 /\ RightOf(p) = j - 1
         /\ KeysMatch(node, ls[i], rs[j])
              <=> /\ GetValue(probe, p[2]) # Null
                  /\ GetValue(build, p[1]) = GetValue(probe, p[2])
<1>1. /\ Len(ls) \in Nat /\ Len(rs) \in Nat
      /\ LeftCol.numRows = Len(ls) /\ RightCol.numRows = Len(rs)
      /\ \A k \in 1 .. Len(ls) : GetValue(LeftCol, k - 1) = ls[k].row[node.leftAttr + 1]
      /\ \A k \in 1 .. Len(rs) : GetValue(RightCol, k - 1) = rs[k].row[node.rightAttr + 1]
  BY SideSizes
<1>2. p[1] \in 0 .. build.numRows - 1 /\ p[2] \in 0 .. probe.numRows - 1
  BY DEF AllPairs
<1>3. LeftOf(p) \in 0 .. Len(ls) - 1 /\ RightOf(p) \in 0 .. Len(rs) - 1
  BY <1>1, <1>2 DEF LeftOf, RightOf, build, probe
<1>4. /\ i \in 1 .. Len(ls) /\ j \in 1 .. Len(rs)
      /\ LeftOf(p) = i - 1 /\ RightOf(p) = j - 1
  BY <1>1, <1>3
<1>5. GetValue(LeftCol, LeftOf(p)) = ls[i].row[node.leftAttr + 1]
  BY <1>1, <1>4
<1>6. GetValue(RightCol, RightOf(p)) = rs[j].row[node.rightAttr + 1]
  BY <1>1, <1>4
<1>7. KeysMatch(node, ls[i], rs[j])
        <=> /\ GetValue(LeftCol, LeftOf(p)) # Null
            /\ GetValue(LeftCol, LeftOf(p)) = GetValue(RightCol, RightOf(p))
  BY <1>5, <1>6 DEF KeysMatch
<1>8. KeysMatch(node, ls[i], rs[j])
        <=> /\ GetValue(probe, p[2]) # Null
            /\ GetValue(build, p[1]) = GetValue(probe, p[2])
  BY <1>7 DEF LeftOf, RightOf, build, probe
<1> QED
  BY <1>4, <1>8

\* The row of the join that a pair stands for.
RowOf(ls, rs, p) == JoinedRow(node, ls[LeftOf(p) + 1], rs[RightOf(p) + 1])

\* What is appended for a pair is what the joined row has.
LEMMA OutputIs ==
  ASSUME JoinReady, NEW ls, NEW rs, SidesAre(ls, rs), NEW p \in AllPairs, NEW c \in Outputs
  PROVE  OutputValue(c, p) = RowOf(ls, rs, p).row[c] /\ OutputValue(c, p) \in Values
<1> DEFINE n == frame.node
           i == LeftOf(p) + 1
           j == RightOf(p) + 1
           attr == node.outputs[c]
           a == Len(query.nodes[node.left].outputs)
           b == Len(query.nodes[node.right].outputs)
           x == ls[i]
           y == rs[j]
           l == node.left
           r == node.right
<1>1. /\ query \in Queries /\ n \in DOMAIN query.nodes /\ node = query.nodes[n] /\ ~IsScan(query.nodes[n])
      /\ Answered(query, l, left) /\ Answered(query, r, right)
  BY DEF JoinReady, node
<1>2. /\ i \in 1 .. Len(ls) /\ j \in 1 .. Len(rs)
      /\ LeftOf(p) = i - 1 /\ RightOf(p) = j - 1
  BY PairRows
<1>3. x \in Rows(query)[l] /\ y \in Rows(query)[r]
  BY <1>2, SideSizes
<1>4. l \in DOMAIN query.nodes /\ r \in DOMAIN query.nodes
  <2> HIDE DEF n, l, r
  <2>1. l = query.nodes[n].left /\ r = query.nodes[n].right
    BY <1>1 DEF l, r
  <2> QED
    BY <1>1, <2>1, JoinNodes
<1>5. RowsFit(query, l) /\ RowsFit(query, r)
  BY <1>1, <1>4, AllRowsFit
<1>6. c \in 1 .. Len(query.nodes[n].outputs)
  BY <1>1, NodeFacts DEF Outputs
<1>7. ComesFrom(query.nodes[n], x, y, c, attr, a, b)
  <2>1. l = query.nodes[n].left /\ r = query.nodes[n].right /\ attr = query.nodes[n].outputs[c]
    BY <1>1
  <2>2. a = Len(query.nodes[l].outputs) /\ b = Len(query.nodes[r].outputs)
    OBVIOUS
  <2> HIDE DEF n, l, r, attr, x, y, a, b
  <2> QED
    BY <1>1, <1>3, <1>5, <1>6, <2>1, <2>2, JoinedValue
<1>8. HasRows(left, ls) /\ HasRows(right, rs)
  BY DEF SidesAre
<1>9. Len(left) = a /\ DOMAIN left = 1 .. a /\ DOMAIN right = 1 .. b
  BY <1>1 DEF Answered
<1>10. OutputValue(c, p) = IF attr < a THEN GetValue(left[attr + 1], i - 1)
                                       ELSE GetValue(right[attr - a + 1], j - 1)
  <2>1. OutputValue(c, p) = IF attr < Len(left) THEN GetValue(left[attr + 1], LeftOf(p))
                                                ELSE GetValue(right[attr - Len(left) + 1], RightOf(p))
    BY DEF OutputValue, LeftOf, RightOf
  <2> HIDE DEF attr, a, i, j
  <2> QED
    BY <1>2, <1>9, <2>1
<1> HIDE DEF attr, a, b, i, j
<1>11. OutputValue(c, p) = IF attr < a THEN x.row[attr + 1] ELSE y.row[attr - a + 1]
  <2>1. CASE attr < a
    <3> DEFINE k == attr + 1
    <3>1. k \in DOMAIN left
      BY <1>7, <1>9, <2>1 DEF ComesFrom
    <3> HIDE DEF k
    <3>2. GetValue(left[k], i - 1) = x.row[k]
      BY <1>2, <1>8, <3>1 DEF HasRows
    <3> QED
      BY <1>10, <2>1, <3>2 DEF k
  <2>2. CASE ~(attr < a)
    <3> DEFINE k == attr - a + 1
    <3>1. k \in DOMAIN right
      BY <1>7, <1>9, <2>2 DEF ComesFrom
    <3> HIDE DEF k
    <3>2. GetValue(right[k], j - 1) = y.row[k]
      BY <1>2, <1>8, <3>1 DEF HasRows
    <3> QED
      BY <1>10, <2>2, <3>2 DEF k
  <2> QED
    BY <2>1, <2>2
<1>12. RowOf(ls, rs, p) = JoinedRow(query.nodes[n], x, y)
  BY <1>1 DEF RowOf, i, j
<1> QED
  BY <1>7, <1>11, <1>12 DEF ValueFits, ComesFrom

\* Every unit of the probe side.
AllUnits == 0 .. NumUnits - 1

\* A pair is of some unit.
LEMMA PairsOfAll ==
  ASSUME JoinReady, NEW p
  PROVE  p \in PairsOf(build, probe, AllUnits)
           <=> /\ p \in AllPairs
               /\ GetValue(probe, p[2]) # Null
               /\ GetValue(build, p[1]) = GetValue(probe, p[2])
<1>1. ColumnFits(probe)
  BY JoinSides, ColumnFacts
<1>2. p \in AllPairs => p[2] \div probe.width \in AllUnits
  BY <1>1 DEF ColumnFits, AllPairs, AllUnits, NumUnits
<1> QED
  BY <1>2 DEF PairsOf, AllPairs

\* Different pairs stand for different rows.
LEMMA PairOfRow ==
  ASSUME JoinReady, NEW ls, NEW rs, SidesAre(ls, rs), NEW p \in AllPairs, NEW w \in AllPairs,
         RowOf(ls, rs, p) = RowOf(ls, rs, w)
  PROVE  p = w
<1> DEFINE i == LeftOf(p) + 1
           j == RightOf(p) + 1
           k == LeftOf(w) + 1
           m == RightOf(w) + 1
<1>1. /\ i \in 1 .. Len(ls) /\ j \in 1 .. Len(rs) /\ k \in 1 .. Len(ls) /\ m \in 1 .. Len(rs)
      /\ LeftOf(p) = i - 1 /\ RightOf(p) = j - 1
      /\ LeftOf(w) = k - 1 /\ RightOf(w) = m - 1
  <2>1. /\ i \in 1 .. Len(ls) /\ j \in 1 .. Len(rs)
        /\ LeftOf(p) = i - 1 /\ RightOf(p) = j - 1
    BY PairRows
  <2>2. /\ k \in 1 .. Len(ls) /\ m \in 1 .. Len(rs)
        /\ LeftOf(w) = k - 1 /\ RightOf(w) = m - 1
    BY PairRows
  <2> QED
    BY <2>1, <2>2
<1>2. JoinedRow(node, ls[i], rs[j]) = JoinedRow(node, ls[k], rs[m])
  BY DEF RowOf
<1> HIDE DEF i, j, k, m
<1>3. ls[i].at = ls[k].at /\ rs[j].at = rs[m].at
  BY <1>2, JoinedAt
<1>4. /\ \A a \in 1 .. Len(ls) : ls[a] \in Rows(query)[node.left]
      /\ \A a \in 1 .. Len(rs) : rs[a] \in Rows(query)[node.right]
      /\ DOMAIN ls = 1 .. Len(ls) /\ DOMAIN rs = 1 .. Len(rs)
  BY SideSizes
<1>5. RowsFit(query, node.left) /\ RowsFit(query, node.right)
  <2> DEFINE n == frame.node
  <2>1. query \in Queries /\ n \in DOMAIN query.nodes /\ node = query.nodes[n] /\ ~IsScan(query.nodes[n])
    BY DEF JoinReady, node
  <2> DEFINE l == node.left
             r == node.right
  <2>2. l = query.nodes[n].left /\ r = query.nodes[n].right
    BY <2>1
  <2> HIDE DEF n, l, r
  <2>3. l \in DOMAIN query.nodes /\ r \in DOMAIN query.nodes
    BY <2>1, <2>2, JoinNodes
  <2> QED
    BY <2>1, <2>3, AllRowsFit DEF l, r
<1>6. ls[i] = ls[k] /\ rs[j] = rs[m]
  BY <1>1, <1>3, <1>4, <1>5 DEF RowsFit
<1>7. i = k /\ j = m
  BY <1>1, <1>4, <1>6 DEF SidesAre, IsListing
<1>8. p[1] = w[1] /\ p[2] = w[2]
  BY <1>1, <1>7 DEF LeftOf, RightOf
<1> QED
  BY <1>8 DEF AllPairs

\* The pairs that match stand for the rows of the join, one for one.
LEMMA PairsAreRows ==
  ASSUME JoinReady, NEW ls, NEW rs, SidesAre(ls, rs)
  PROVE  OneToOne([p \in AllPairs |-> RowOf(ls, rs, p)],
                  PairsOf(build, probe, AllUnits), Rows(query)[frame.node])
<1> DEFINE h == [p \in AllPairs |-> RowOf(ls, rs, p)]
           P == PairsOf(build, probe, AllUnits)
           A == Rows(query)[node.left]
           B == Rows(query)[node.right]
           Q == Rows(query)[frame.node]
<1>1. Q = JoinRows(node, A, B)
  BY RowsOfNode DEF JoinReady, NodeRows, node
<1>2. /\ Len(ls) \in Nat /\ Len(rs) \in Nat
      /\ DOMAIN ls = 1 .. Len(ls) /\ DOMAIN rs = 1 .. Len(rs)
      /\ \A i \in 1 .. Len(ls) : ls[i] \in A
      /\ \A i \in 1 .. Len(rs) : rs[i] \in B
      /\ LeftCol.numRows = Len(ls) /\ RightCol.numRows = Len(rs)
  BY SideSizes
<1>3. \A p \in P : p \in AllPairs
  BY PairsOfAll
<1> HIDE DEF P, A, B, Q
<1>4. ASSUME NEW p \in P
      PROVE  h[p] \in Q
  <2> DEFINE i == LeftOf(p) + 1
             j == RightOf(p) + 1
  <2>1. /\ p \in AllPairs
        /\ GetValue(probe, p[2]) # Null
        /\ GetValue(build, p[1]) = GetValue(probe, p[2])
    BY PairsOfAll DEF P
  <2>2. /\ i \in 1 .. Len(ls) /\ j \in 1 .. Len(rs)
        /\ KeysMatch(node, ls[i], rs[j])
    BY <2>1, PairRows
  <2>3. h[p] = JoinedRow(node, ls[i], rs[j])
    BY <2>1 DEF RowOf
  <2> HIDE DEF i, j, h
  <2>4. ls[i] \in A /\ rs[j] \in B
    BY <1>2, <2>2
  <2> QED
    BY <1>1, <2>2, <2>3, <2>4, JoinRowsAre
<1>5. ASSUME NEW p \in P, NEW w \in P, h[p] = h[w]
      PROVE  p = w
  BY <1>3, <1>5, PairOfRow
<1>6. ASSUME NEW z \in Q
      PROVE  \E p \in P : h[p] = z
  <2>1. PICK x \in A, y \in B : KeysMatch(node, x, y) /\ z = JoinedRow(node, x, y)
    <3> HIDE DEF h
    <3> QED
      BY <1>1, JoinRowsAre
  <2>2. PICK i \in 1 .. Len(ls) : ls[i] = x
    BY <1>2 DEF SidesAre, IsListing, A
  <2>3. PICK j \in 1 .. Len(rs) : rs[j] = y
    BY <1>2 DEF SidesAre, IsListing, B
  <2> DEFINE p == IF buildLeft THEN <<i - 1, j - 1>> ELSE <<j - 1, i - 1>>
  <2>4. i - 1 \in 0 .. Len(ls) - 1 /\ j - 1 \in 0 .. Len(rs) - 1
    BY <1>2
  <2>5. p \in AllPairs
    BY <1>2, <2>4 DEF AllPairs, build, probe
  <2>6. LeftOf(p) = i - 1 /\ RightOf(p) = j - 1
    BY DEF LeftOf, RightOf
  <2> HIDE DEF p
  <2>7. LeftOf(p) + 1 = i /\ RightOf(p) + 1 = j
    BY <1>2, <2>4, <2>6
  <2>8. /\ GetValue(probe, p[2]) # Null
        /\ GetValue(build, p[1]) = GetValue(probe, p[2])
    <3> DEFINE a == LeftOf(p) + 1
               b == RightOf(p) + 1
    <3>1. KeysMatch(node, ls[a], rs[b])
            <=> /\ GetValue(probe, p[2]) # Null
                /\ GetValue(build, p[1]) = GetValue(probe, p[2])
      BY <2>5, PairRows
    <3>2. a = i /\ b = j
      BY <2>7
    <3> HIDE DEF a, b
    <3> QED
      BY <2>1, <2>2, <2>3, <3>1, <3>2
  <2>9. p \in P
    BY <2>5, <2>8, PairsOfAll DEF P
  <2>10. h[p] = z
    BY <2>1, <2>2, <2>3, <2>5, <2>7 DEF RowOf
  <2> QED
    BY <2>9, <2>10
<1> HIDE DEF h
<1>7. OneToOne(h, P, Q)
  BY <1>4, <1>5, <1>6 DEF OneToOne
<1> QED
  BY <1>7 DEF h, P, Q

\* A join that has gathered every pair once answers its node.
LEMMA JoinAnswered ==
  ASSUME JoinReady, NEW M, IsListing(M, PairsOf(build, probe, AllUnits)),
         NEW res, res = [c \in Outputs |-> Buffered(Image(ColumnMap(c), M))]
  PROVE  Answered(query, frame.node, res)
<1> DEFINE n == frame.node
           P == PairsOf(build, probe, AllUnits)
           C == Len(node.outputs)
<1>1. PICK ls, rs : SidesAre(ls, rs)
  BY SidesExist
<1> DEFINE h == [p \in AllPairs |-> RowOf(ls, rs, p)]
           s == Image(h, M)
<1>2. OneToOne(h, P, Rows(query)[n])
  BY <1>1, PairsAreRows
<1>3. IsListing(s, Rows(query)[n])
  <2> HIDE DEF h, P, n
  <2> QED
    BY <1>2, ImageListing DEF P
<1>4. /\ Len(M) \in Nat /\ DOMAIN M = 1 .. Len(M)
      /\ \A i \in 1 .. Len(M) : M[i] \in P
  BY LenProperties DEF IsListing
<1>5. \A i \in 1 .. Len(M) : M[i] \in AllPairs
  BY <1>4, PairsOfAll
<1>6. DOMAIN s = 1 .. Len(M) /\ Len(s) = Len(M) /\ \A i \in 1 .. Len(M) : s[i] = RowOf(ls, rs, M[i])
  BY <1>4, <1>5 DEF Image
<1>7. C \in Nat /\ Outputs = 1 .. C
  <2>1. query \in Queries /\ n \in DOMAIN query.nodes /\ node = query.nodes[n]
    BY DEF JoinReady, node
  <2> QED
    BY <2>1, NodeFacts DEF Outputs
<1> HIDE DEF P, h, s, C
<1>8. ASSUME NEW c \in Outputs
      PROVE  /\ IsColumn(res[c])
             /\ res[c].numRows = Len(s)
             /\ \A i \in 1 .. Len(s) : GetValue(res[c], i - 1) = s[i].row[c]
  <2> DEFINE vals == Image(ColumnMap(c), M)
             col == res[c]
  <2>1. DOMAIN vals = 1 .. Len(M) /\ \A i \in 1 .. Len(M) : vals[i] = OutputValue(c, M[i])
    BY <1>5 DEF Image, ColumnMap
  <2>2. \A i \in 1 .. Len(M) : vals[i] = s[i].row[c] /\ vals[i] \in Values
    BY <1>1, <1>5, <1>6, <2>1, OutputIs
  <2>3. Maps(vals, 1 .. Len(M), Values)
    <3>1. vals = [i \in 1 .. Len(M) |-> vals[i]]
      BY DEF Image
    <3> HIDE DEF vals
    <3> QED
      BY <2>2, <3>1 DEF Maps
  <2>4. col = Buffered(vals)
    OBVIOUS
  <2> HIDE DEF vals, col
  <2>5. vals \in Seq(Values) /\ Len(vals) = Len(M)
    BY <1>4, <2>3, SequenceOf
  <2>6. /\ IsColumn(col) /\ col.numRows = Len(vals)
        /\ \A i \in 1 .. Len(vals) : GetValue(col, i - 1) = vals[i]
    BY <2>4, <2>5, ColumnOfValues
  <2> QED
    BY <1>6, <2>2, <2>5, <2>6 DEF col
<1>9. DOMAIN res = 1 .. C /\ Len(res) = C
  BY <1>7
<1>10. HasRows(res, s)
  BY <1>7, <1>8, <1>9 DEF HasRows
<1>11. res = [c \in DOMAIN res |-> res[c]]
  OBVIOUS
<1>12. res \in Results
  BY <1>7, <1>8, <1>9, <1>11, ResultOf
<1> QED
  BY <1>3, <1>9, <1>10, <1>12 DEF Answered, C, node

\* A side without rows leaves the join none.
LEMMA NoRowsToJoin ==
  ASSUME JoinReady, LeftCol.numRows = 0 \/ RightCol.numRows = 0
  PROVE  Rows(query)[frame.node] = {}
<1>1. PICK ls, rs : SidesAre(ls, rs)
  BY SidesExist
<1> DEFINE h == [p \in AllPairs |-> RowOf(ls, rs, p)]
           P == PairsOf(build, probe, AllUnits)
           Q == Rows(query)[frame.node]
<1>2. OneToOne(h, P, Q)
  BY <1>1, PairsAreRows
<1>3. AllPairs = {}
  <2>1. build.numRows = 0 \/ probe.numRows = 0
    BY DEF build, probe
  <2> QED
    BY <2>1 DEF AllPairs
<1>4. P = {}
  BY <1>3, PairsOfAll
<1> HIDE DEF h, P, Q
<1>5. Q = {}
  BY <1>2, <1>4 DEF OneToOne
<1> QED
  BY <1>5 DEF Q

-----------------------------------------------------------------------------
(* What threads gather                                                     *)

\* The pairs of a build row and a probe row.
PairSet(bld, prb) == (0 .. bld.numRows - 1) \X (0 .. prb.numRows - 1)

\* maps takes each output column to what it makes of a pair.
MapsFit(maps, bld, prb) == \A c \in DOMAIN maps : Maps(maps[c], PairSet(bld, prb), Values)

\* out has the values of the matches of the units D, column by column.
Filled(bld, prb, maps, out, D) ==
  \E m : /\ IsListing(m, PairsOf(bld, prb, D))
         /\ out = [c \in DOMAIN maps |-> Image(maps[c], m)]

\* done says which thread has which of the units U.
Shares(done, U) ==
  /\ \A t, v \in Threads : t # v => done[t] \cap done[v] = {}
  /\ \A u : u \in U <=> \E t \in Threads : u \in done[t]

\* The threads have gathered the matches of the units U, each unit's once.
Gathered(bld, prb, maps, results, U) ==
  \E done : /\ Shares(done, U)
            /\ \A t \in Threads : Filled(bld, prb, maps, results[t], done[t])

\* Matches are such pairs.
LEMMA PairsSubset ==
  ASSUME NEW bld, NEW prb, NEW D
  PROVE  PairsOf(bld, prb, D) \subseteq PairSet(bld, prb)
BY DEF PairsOf, PairSet

\* The matches of more units, and of other ones.
LEMMA PairsOfUnion ==
  ASSUME NEW bld, NEW prb, NEW D, NEW E
  PROVE  /\ PairsOf(bld, prb, D \cup E) = PairsOf(bld, prb, D) \cup PairsOf(bld, prb, E)
         /\ D \cap E = {} => PairsOf(bld, prb, D) \cap PairsOf(bld, prb, E) = {}
BY DEF PairsOf

\* Before the first unit.
LEMMA NoneGathered ==
  ASSUME NEW bld, NEW prb, NEW maps,
         NEW results, results = [t \in Threads |-> [c \in DOMAIN maps |-> <<>>]]
  PROVE  Gathered(bld, prb, maps, results, {})
<1> DEFINE done == [t \in Threads |-> {}]
<1>1. PairsOf(bld, prb, {}) = {}
  BY DEF PairsOf
<1>2. IsListing(<<>>, PairsOf(bld, prb, {}))
  BY <1>1, ListingOfNone
<1>3. \A h : Image(h, <<>>) = <<>>
  BY EmptySeq DEF Image
<1>4. Filled(bld, prb, maps, [c \in DOMAIN maps |-> <<>>], {})
  BY <1>2, <1>3 DEF Filled
<1>5. \A t \in Threads : Filled(bld, prb, maps, results[t], done[t])
  BY <1>4
<1>6. Shares(done, {})
  BY DEF Shares
<1> HIDE DEF done
<1> QED
  BY <1>5, <1>6 DEF Gathered

\* The function f, but for its value at t.
Put(f, t, v) == [f EXCEPT ![t] = v]

\* A thread has gone through one more unit.
LEMMA OneMoreGathered ==
  ASSUME NEW bld, NEW prb, NEW maps, MapsFit(maps, bld, prb),
         NEW results, NEW U, Gathered(bld, prb, maps, results, U),
         NEW t \in Threads, NEW u, u \notin U,
         NEW m, IsListing(m, PairsOf(bld, prb, {u})),
         NEW more, more = [c \in DOMAIN maps |-> results[t][c] \o Image(maps[c], m)],
         NEW after, after = Put(results, t, more),
         DOMAIN results = Threads
  PROVE  Gathered(bld, prb, maps, after, U \cup {u})
<1>1. PICK done : /\ Shares(done, U)
                  /\ \A v \in Threads : Filled(bld, prb, maps, results[v], done[v])
  BY DEF Gathered
<1> DEFINE D == done[t]
           S == PairSet(bld, prb)
           now == [v \in Threads |-> IF v = t THEN done[v] \cup {u} ELSE done[v]]
<1>2. PICK w : /\ IsListing(w, PairsOf(bld, prb, D))
               /\ results[t] = [c \in DOMAIN maps |-> Image(maps[c], w)]
  BY <1>1 DEF Filled
<1>3. u \notin D
  BY <1>1 DEF Shares
<1>4. IsListing(w \o m, PairsOf(bld, prb, D \cup {u}))
  <2> DEFINE P == PairsOf(bld, prb, D)
             R == PairsOf(bld, prb, {u})
  <2>1. P \cap R = {} /\ PairsOf(bld, prb, D \cup {u}) = P \cup R
    <3>1. D \cap {u} = {}
      BY <1>3
    <3> HIDE DEF D
    <3> QED
      BY <3>1, PairsOfUnion
  <2>2. IsListing(w, P) /\ IsListing(m, R)
    BY <1>2
  <2> HIDE DEF P, R
  <2>3. IsListing(w \o m, P \cup R)
    BY <2>1, <2>2, ListingConcat
  <2> QED
    BY <2>1, <2>3
<1>5. w \in Seq(S) /\ m \in Seq(S)
  <2>1. w \in Seq(PairsOf(bld, prb, D)) /\ m \in Seq(PairsOf(bld, prb, {u}))
    BY <1>2 DEF IsListing
  <2> HIDE DEF D, S
  <2>2. PairsOf(bld, prb, D) \subseteq S /\ PairsOf(bld, prb, {u}) \subseteq S
    BY PairsSubset DEF S
  <2> QED
    BY <2>1, <2>2, SeqMonotonic
<1> HIDE DEF D, S
<1>6. \A c \in DOMAIN maps : results[t][c] \o Image(maps[c], m) = Image(maps[c], w \o m)
  <2> TAKE c \in DOMAIN maps
  <2> DEFINE h == maps[c]
  <2>1. Maps(h, S, Values)
    BY DEF MapsFit, S
  <2> HIDE DEF h
  <2>2. Image(h, w) \o Image(h, m) = Image(h, w \o m)
    BY <1>5, <2>1, ImageConcat
  <2>3. results[t][c] = Image(h, w)
    BY <1>2 DEF h
  <2> QED
    BY <2>2, <2>3 DEF h
<1>7. after[t] = [c \in DOMAIN maps |-> Image(maps[c], w \o m)]
  <2>1. after[t] = [c \in DOMAIN maps |-> results[t][c] \o Image(maps[c], m)]
    BY DEF Put
  <2> QED
    BY <1>6, <2>1
<1>8. Filled(bld, prb, maps, after[t], D \cup {u})
  BY <1>4, <1>7 DEF Filled
<1>9. \A v \in Threads : Filled(bld, prb, maps, after[v], now[v])
  <2> TAKE v \in Threads
  <2>1. CASE v = t
    BY <1>8, <2>1 DEF D
  <2>2. CASE v # t
    <3>1. after[v] = results[v] /\ now[v] = done[v]
      BY <2>2 DEF Put
    <3> QED
      BY <1>1, <3>1
  <2> QED
    BY <2>1, <2>2
<1>10. Shares(now, U \cup {u})
  <2>1. \A v \in Threads : u \notin done[v]
    BY <1>1 DEF Shares
  <2>2. \A v, x \in Threads : v # x => now[v] \cap now[x] = {}
    BY <1>1, <2>1 DEF Shares
  <2>3. \A x : x \in U \cup {u} <=> \E v \in Threads : x \in now[v]
    BY <1>1 DEF Shares
  <2> HIDE DEF now
  <2> QED
    BY <2>2, <2>3 DEF Shares
<1> HIDE DEF now
<1> QED
  BY <1>9, <1>10 DEF Gathered

\* Together the buffers are those of a listing of all matches.
LEMMA AllGathered ==
  ASSUME NEW bld, NEW prb, NEW maps, MapsFit(maps, bld, prb),
         NEW results, NEW U, Gathered(bld, prb, maps, results, U)
  PROVE  \E M : /\ IsListing(M, PairsOf(bld, prb, U))
                /\ \A c \in DOMAIN maps :
                     FlattenSeq([i \in 1 .. NumThreads |-> results[i - 1][c]]) = Image(maps[c], M)
<1>1. PICK done : /\ Shares(done, U)
                  /\ \A t \in Threads : Filled(bld, prb, maps, results[t], done[t])
  BY DEF Gathered
<1> DEFINE Of(t) == CHOOSE m : /\ IsListing(m, PairsOf(bld, prb, done[t]))
                               /\ results[t] = [c \in DOMAIN maps |-> Image(maps[c], m)]
           S == PairSet(bld, prb)
           s == [i \in 1 .. NumThreads |-> Of(i - 1)]
           parts == [i \in 1 .. NumThreads |-> PairsOf(bld, prb, done[i - 1])]
           M == FlattenSeq(s)
<1>2. \A t \in Threads : /\ IsListing(Of(t), PairsOf(bld, prb, done[t]))
                         /\ results[t] = [c \in DOMAIN maps |-> Image(maps[c], Of(t))]
  BY <1>1 DEF Filled
<1> HIDE DEF Of
<1>3. \A i \in 1 .. NumThreads : i - 1 \in Threads
  BY SizesFacts
<1>4. NumThreads \in Nat
  BY SizesFacts
<1>5. \A i \in 1 .. NumThreads :
        /\ IsListing(s[i], parts[i])
        /\ \A c \in DOMAIN maps : results[i - 1][c] = Image(maps[c], s[i])
  BY <1>2, <1>3
<1>6. DOMAIN s = 1 .. NumThreads
  OBVIOUS
<1>7. \A i \in 1 .. NumThreads : s[i] \in Seq(S)
  <2> TAKE i \in 1 .. NumThreads
  <2>1. s[i] \in Seq(parts[i])
    BY <1>5 DEF IsListing
  <2>2. parts[i] \subseteq S
    BY PairsSubset
  <2> HIDE DEF s, parts, S
  <2> QED
    BY <2>1, <2>2, SeqMonotonic
<1>8. Maps(s, 1 .. NumThreads, Seq(S))
  <2>1. s = [i \in 1 .. NumThreads |-> s[i]]
    OBVIOUS
  <2> HIDE DEF s, S
  <2> QED
    BY <1>7, <2>1 DEF Maps
<1>9. s \in Seq(Seq(S)) /\ Len(s) = NumThreads
  <2> HIDE DEF s, S
  <2> QED
    BY <1>4, <1>8, SequenceOf
<1>10. \A i, j \in 1 .. NumThreads : i # j => parts[i] \cap parts[j] = {}
  <2> SUFFICES ASSUME NEW i \in 1 .. NumThreads, NEW j \in 1 .. NumThreads, i # j
               PROVE  parts[i] \cap parts[j] = {}
    OBVIOUS
  <2>1. i - 1 # j - 1 /\ i - 1 \in Threads /\ j - 1 \in Threads
    BY <1>3, <1>4
  <2>2. done[i - 1] \cap done[j - 1] = {}
    BY <1>1, <2>1 DEF Shares
  <2> QED
    BY <2>2, PairsOfUnion
<1>11. AllOf(parts, NumThreads) = PairsOf(bld, prb, U)
  <2>1. \A p : p \in PairsOf(bld, prb, U) => \E i \in 1 .. NumThreads : p \in parts[i]
    <3> SUFFICES ASSUME NEW p \in PairsOf(bld, prb, U)
                 PROVE  \E i \in 1 .. NumThreads : p \in parts[i]
      OBVIOUS
    <3> DEFINE u == p[2] \div prb.width
    <3>1. u \in U
      BY DEF PairsOf
    <3>2. PICK t \in Threads : u \in done[t]
      BY <1>1, <3>1 DEF Shares
    <3>3. p \in PairsOf(bld, prb, done[t])
      BY <3>2 DEF PairsOf
    <3> DEFINE i == t + 1
    <3>4. i \in 1 .. NumThreads /\ i - 1 = t
      BY SizesFacts
    <3> HIDE DEF i
    <3> QED
      BY <3>3, <3>4
  <2>2. \A i \in 1 .. NumThreads : parts[i] \subseteq PairsOf(bld, prb, U)
    <3> TAKE i \in 1 .. NumThreads
    <3>1. done[i - 1] \subseteq U
      BY <1>1, <1>3 DEF Shares
    <3> QED
      BY <3>1 DEF PairsOf
  <2> HIDE DEF parts
  <2> QED
    BY <2>1, <2>2 DEF AllOf
<1> HIDE DEF s, parts, S
<1>12. IsListing(M, PairsOf(bld, prb, U))
  <2>1. ListsParts(s, parts)
    BY <1>5, <1>9, <1>10 DEF ListsParts
  <2>2. IsListing(FlattenSeq(s), AllOf(parts, Len(s)))
    BY <1>9, <2>1, FlattenListings
  <2> QED
    BY <1>9, <1>11, <2>2
<1>13. ASSUME NEW c \in DOMAIN maps
       PROVE  FlattenSeq([i \in 1 .. NumThreads |-> results[i - 1][c]]) = Image(maps[c], M)
  <2> DEFINE h == maps[c]
  <2>1. Maps(h, S, Values)
    BY DEF MapsFit, S
  <2>2. \A i \in 1 .. NumThreads : results[i - 1][c] = Image(h, s[i])
    BY <1>5
  <2> HIDE DEF h
  <2>3. FlattenSeq(Images(h, s)) = Image(h, M)
    BY <1>9, <2>1, FlattenImages
  <2>4. [i \in 1 .. NumThreads |-> results[i - 1][c]] = Images(h, s)
    BY <1>9, <2>2 DEF Images
  <2> QED
    BY <2>3, <2>4 DEF h
<1> HIDE DEF M
<1> QED
  BY <1>12, <1>13

\* c counts the parts, which are disjoint and make up U.
Counted(c, parts, S, U) ==
  /\ \A x \in S : IsFiniteSet(parts[x]) /\ c[x] = Cardinality(parts[x])
  /\ \A x, y \in S : x # y => parts[x] \cap parts[y] = {}
  /\ \A z : z \in U <=> \E x \in S : z \in parts[x]

\* A sum of sizes is the size of the union.
LEMMA CountedSum ==
  ASSUME NEW S, IsFiniteSet(S), NEW c, NEW parts, NEW U, Counted(c, parts, S, U)
  PROVE  SumFunctionOnSet(c, S) = Cardinality(U)
BY SumOfDisjoint DEF Counted

\* As many values of each column as matches of the units.
LEMMA GatheredSize ==
  ASSUME NEW bld, NEW prb, NEW maps, NEW results, NEW U, Gathered(bld, prb, maps, results, U),
         NEW c \in DOMAIN maps,
         NEW f, f = [t \in Threads |-> Len(results[t][c])]
  PROVE  SumFunction(f) = Cardinality(PairsOf(bld, prb, U))
<1>1. PICK done : /\ Shares(done, U)
                  /\ \A t \in Threads : Filled(bld, prb, maps, results[t], done[t])
  BY DEF Gathered
<1> DEFINE parts == [t \in Threads |-> PairsOf(bld, prb, done[t])]
           P == PairsOf(bld, prb, U)
<1>2. IsFiniteSet(Threads)
  BY SizesFacts, FS_Interval
<1>3. \A t \in Threads : IsFiniteSet(parts[t]) /\ f[t] = Cardinality(parts[t])
  <2> TAKE t \in Threads
  <2>1. PICK m : /\ IsListing(m, PairsOf(bld, prb, done[t]))
                 /\ results[t] = [x \in DOMAIN maps |-> Image(maps[x], m)]
    BY <1>1 DEF Filled
  <2>2. /\ IsFiniteSet(PairsOf(bld, prb, done[t])) /\ Len(m) \in Nat
        /\ Cardinality(PairsOf(bld, prb, done[t])) = Len(m)
    BY <2>1, ListingSize
  <2>3. Len(Image(maps[c], m)) = Len(m)
    BY <2>2 DEF Image
  <2> QED
    BY <2>1, <2>2, <2>3
<1>4. \A t, v \in Threads : t # v => parts[t] \cap parts[v] = {}
  <2> SUFFICES ASSUME NEW t \in Threads, NEW v \in Threads, t # v
               PROVE  parts[t] \cap parts[v] = {}
    OBVIOUS
  <2>1. done[t] \cap done[v] = {}
    BY <1>1 DEF Shares
  <2> QED
    BY <2>1, PairsOfUnion
<1>5. \A z : z \in P <=> \E t \in Threads : z \in parts[t]
  BY <1>1 DEF Shares, PairsOf
<1> HIDE DEF parts, P
<1>6. SumFunctionOnSet(f, Threads) = Cardinality(P)
  <2>1. Counted(f, parts, Threads, P)
    BY <1>3, <1>4, <1>5 DEF Counted
  <2> QED
    BY <1>2, <2>1, CountedSum
<1>7. DOMAIN f = Threads
  OBVIOUS
<1> QED
  BY <1>6, <1>7 DEF SumFunction, P

\* The matches of units, unit by unit.
LEMMA MatchesSize ==
  ASSUME JoinReady, IsTableOf(chain, build), NEW U \in SUBSET AllUnits,
         NEW f, f = [u \in U |-> Len(Matches(u))]
  PROVE  SumFunction(f) = Cardinality(PairsOf(build, probe, U))
<1> DEFINE parts == [u \in U |-> PairsOf(build, probe, {u})]
           P == PairsOf(build, probe, U)
<1>1. NumUnits \in Nat /\ IsColumn(build) /\ IsKeyColumn(probe) /\ Len(probe.units) = NumUnits
  BY JoinSides
<1>2. IsFiniteSet(U)
  <2>1. IsFiniteSet(AllUnits)
    BY <1>1, FS_Interval DEF AllUnits
  <2> QED
    BY <2>1, FS_Subset
<1>3. \A u \in U : IsFiniteSet(parts[u]) /\ f[u] = Cardinality(parts[u])
  <2> TAKE u \in U
  <2>1. u \in 0 .. Len(probe.units) - 1
    BY <1>1 DEF AllUnits
  <2>2. IsListing(Matches(u), PairsOf(build, probe, {u}))
    BY <1>1, <2>1, MatchesListPairs
  <2>3. /\ IsFiniteSet(PairsOf(build, probe, {u}))
        /\ Cardinality(PairsOf(build, probe, {u})) = Len(Matches(u))
    BY <2>2, ListingSize
  <2> QED
    BY <2>3
<1>4. \A t, v \in U : t # v => parts[t] \cap parts[v] = {}
  BY DEF PairsOf
<1>5. \A z : z \in P <=> \E u \in U : z \in parts[u]
  BY DEF PairsOf
<1> HIDE DEF parts, P
<1>6. SumFunctionOnSet(f, U) = Cardinality(P)
  BY <1>2, <1>3, <1>4, <1>5, SumOfDisjoint
<1>7. DOMAIN f = U
  OBVIOUS
<1> QED
  BY <1>6, <1>7 DEF SumFunction, P

-----------------------------------------------------------------------------
(* The calls of execute_impl                                               *)

\* A call of execute_impl.
Frames == [node : Nat, args : Seq(Results)]

\* The i-th node below n.
ChildOf(q, n, i) == IF i = 1 THEN q.nodes[n].left ELSE q.nodes[n].right

\* A call has the answers of the children it has evaluated.
FrameFits(q, fr) ==
  /\ fr.node \in DOMAIN q.nodes
  /\ IsScan(q.nodes[fr.node]) => fr.args = <<>>
  /\ Len(fr.args) <= 2
  /\ \A i \in 1 .. Len(fr.args) : Answered(q, ChildOf(q, fr.node, i), fr.args[i])

\* next is the call that fr is waiting for.
CallFits(q, fr, next) ==
  /\ ~IsScan(q.nodes[fr.node])
  /\ Len(fr.args) < 2
  /\ next.node = ChildOf(q, fr.node, Len(fr.args) + 1)

\* The calls go down from the root of the plan.
StackFits(q, stk) ==
  /\ stk \in Seq(Frames)
  /\ \A d \in 1 .. Len(stk) : FrameFits(q, stk[d])
  /\ \A d \in 1 .. Len(stk) - 1 : CallFits(q, stk[d], stk[d + 1])
  /\ stk # <<>> => stk[1].node = Len(q.nodes)

\* The children of a join are nodes of the plan.
LEMMA ChildIsNode ==
  ASSUME NEW q \in Queries, NEW n \in DOMAIN q.nodes, ~IsScan(q.nodes[n]), NEW i
  PROVE  ChildOf(q, n, i) \in DOMAIN q.nodes /\ ChildOf(q, n, i) \in Nat
<1> DEFINE l == q.nodes[n].left
           r == q.nodes[n].right
<1>1. l = q.nodes[n].left /\ r = q.nodes[n].right
  OBVIOUS
<1> HIDE DEF l, r
<1>2. l \in DOMAIN q.nodes /\ r \in DOMAIN q.nodes
  BY <1>1, JoinNodes
<1>3. DOMAIN q.nodes = 1 .. Len(q.nodes)
  BY NodeFacts
<1>4. l \in Nat /\ r \in Nat
  BY <1>2, <1>3
<1> QED
  BY <1>1, <1>2, <1>4 DEF ChildOf

\* What there is to know of the current call.
LEMMA LastCall ==
  ASSUME NEW q \in Queries, NEW stk, StackFits(q, stk), stk # <<>>
  PROVE  /\ Len(stk) \in Nat \ {0} /\ DOMAIN stk = 1 .. Len(stk)
         /\ Last(stk) = stk[Len(stk)]
         /\ Last(stk) \in Frames
         /\ FrameFits(q, Last(stk))
         /\ Last(stk).args \in Seq(Results)
         /\ Len(Last(stk).args) \in Nat
         /\ DOMAIN Last(stk).args = 1 .. Len(Last(stk).args)
         /\ Last(stk).args = <<>> <=> Len(Last(stk).args) = 0
<1>1. stk \in Seq(Frames)
  BY DEF StackFits
<1>2. Len(stk) \in Nat \ {0} /\ DOMAIN stk = 1 .. Len(stk)
  <2> HIDE DEF Frames
  <2> QED
    BY <1>1, LenProperties, EmptySeq
<1>3. Last(stk) = stk[Len(stk)] /\ Len(stk) \in 1 .. Len(stk)
  BY <1>2 DEF Last
<1>4. Last(stk) \in Frames
  <2> HIDE DEF Frames
  <2> QED
    BY <1>1, <1>2, <1>3, ElementOfSeq
<1>5. FrameFits(q, Last(stk))
  BY <1>3 DEF StackFits
<1> DEFINE args == Last(stk).args
<1>6. args \in Seq(Results)
  BY <1>4 DEF Frames
<1> HIDE DEF args
<1>7. /\ Len(args) \in Nat /\ DOMAIN args = 1 .. Len(args)
      /\ args = <<>> <=> Len(args) = 0
  BY <1>6, LenProperties, EmptySeq
<1> QED
  BY <1>2, <1>3, <1>4, <1>5, <1>6, <1>7 DEF args

\* A join calls execute_impl for its next child.
LEMMA CallPushed ==
  ASSUME NEW q \in Queries, NEW stk, StackFits(q, stk), stk # <<>>,
         ~IsScan(q.nodes[Last(stk).node]), Len(Last(stk).args) < 2,
         NEW next, next = [node |-> ChildOf(q, Last(stk).node, Len(Last(stk).args) + 1),
                           args |-> <<>>]
  PROVE  StackFits(q, Append(stk, next)) /\ Append(stk, next) # <<>>
<1> DEFINE fr == Last(stk)
           m == Len(stk)
           new == Append(stk, next)
<1>1. /\ m \in Nat \ {0} /\ fr = stk[m] /\ FrameFits(q, fr)
  BY LastCall
<1>2. next.node \in DOMAIN q.nodes /\ next.node \in Nat /\ next.args = <<>>
      /\ next.node = ChildOf(q, fr.node, Len(fr.args) + 1)
  <2>1. fr.node \in DOMAIN q.nodes
    BY <1>1 DEF FrameFits
  <2> QED
    BY <2>1, ChildIsNode
<1>3. next \in Frames
  <2>1. <<>> \in Seq(Results)
    BY EmptySeq
  <2> DEFINE n == next.node
  <2>2. next = [node |-> n, args |-> <<>>] /\ n \in Nat
    BY <1>2
  <2> HIDE DEF n
  <2> QED
    BY <2>1, <2>2 DEF Frames
<1>4. /\ new \in Seq(Frames) /\ Len(new) = m + 1
      /\ \A d \in 1 .. m : new[d] = stk[d]
      /\ new[m + 1] = next
  <2>1. stk \in Seq(Frames)
    BY DEF StackFits
  <2> HIDE DEF Frames
  <2> QED
    BY <1>3, <2>1, AppendProperties
<1>5. FrameFits(q, next)
  <2>1. Len(<<>>) = 0
    BY EmptySeq
  <2> QED
    BY <1>2, <2>1 DEF FrameFits
<1>6. CallFits(q, fr, next)
  BY <1>2 DEF CallFits
<1> HIDE DEF new, fr, m
<1>7. \A d \in 1 .. Len(new) : FrameFits(q, new[d])
  <2> TAKE d \in 1 .. Len(new)
  <2>1. CASE d = m + 1
    BY <1>4, <1>5, <2>1
  <2>2. CASE d # m + 1
    <3>1. d \in 1 .. m
      BY <1>1, <1>4, <2>2
    <3> QED
      BY <1>4, <3>1 DEF StackFits, m
  <2> QED
    BY <2>1, <2>2
<1>8. \A d \in 1 .. Len(new) - 1 : CallFits(q, new[d], new[d + 1])
  <2> TAKE d \in 1 .. Len(new) - 1
  <2>0. d \in 1 .. m
    BY <1>1, <1>4
  <2>1. CASE d = m
    BY <1>1, <1>4, <1>6, <2>0, <2>1
  <2>2. CASE d # m
    <3> DEFINE e == d + 1
    <3>1. d \in 1 .. m - 1 /\ e \in 1 .. m
      BY <1>1, <2>0, <2>2
    <3>2. CallFits(q, stk[d], stk[d + 1])
      BY <3>1 DEF StackFits, m
    <3>3. new[d] = stk[d] /\ new[e] = stk[e]
      BY <1>4, <2>0, <3>1
    <3> QED
      BY <3>2, <3>3
  <2> QED
    BY <2>1, <2>2
<1>9. new # <<>> /\ new[1].node = Len(q.nodes)
  <2>1. Len(new) # 0
    BY <1>1, <1>4
  <2>2. 1 \in 1 .. m
    BY <1>1
  <2>3. stk[1].node = Len(q.nodes)
    BY DEF StackFits
  <2> QED
    BY <1>4, <2>1, <2>2, <2>3, EmptySeq
<1>10. StackFits(q, new)
  BY <1>4, <1>7, <1>8, <1>9 DEF StackFits
<1> QED
  BY <1>9, <1>10 DEF new

\* The calls after the one below has returned res to its parent.
Returned(stk, parent, res) == [Front(stk) EXCEPT ![parent].args = Append(@, res)]

\* The call below returns an answer to the call above it.
LEMMA CallReturns ==
  ASSUME NEW q \in Queries, NEW stk, StackFits(q, stk), stk # <<>>, Len(stk) # 1,
         NEW res, Answered(q, Last(stk).node, res),
         NEW parent, parent = Len(stk) - 1,
         NEW new, new = Returned(stk, parent, res)
  PROVE  StackFits(q, new) /\ new # <<>>
<1> DEFINE m == Len(stk)
           front == Front(stk)
           fr == stk[parent]
           args == fr.args
           call == [fr EXCEPT !.args = Append(args, res)]
<1>1. m \in Nat /\ m > 1 /\ Last(stk) = stk[m] /\ stk \in Seq(Frames)
  <2>1. stk \in Seq(Frames)
    BY DEF StackFits
  <2>2. m \in Nat \ {0} /\ Last(stk) = stk[m]
    BY LastCall
  <2>3. m # 1
    OBVIOUS
  <2> HIDE DEF m, Frames
  <2>4. m > 1
    BY <2>2, <2>3
  <2> QED
    BY <2>1, <2>2, <2>4
<1>2. parent \in 1 .. m - 1 /\ parent \in 1 .. m /\ parent \in Nat /\ parent + 1 = m
  BY <1>1
<1>3. /\ front \in Seq(Frames) /\ Len(front) = parent /\ DOMAIN front = 1 .. parent
      /\ \A d \in 1 .. parent : front[d] = stk[d]
  <2> HIDE DEF Frames, m
  <2>1. front = SubSeq(stk, 1, parent)
    BY DEF Front
  <2>2. parent <= m
    BY <1>1, <1>2
  <2> HIDE DEF front
  <2> QED
    BY <1>1, <1>2, <2>1, <2>2, SubSeqProperties DEF m
<1>4. fr \in Frames /\ FrameFits(q, fr) /\ CallFits(q, fr, stk[m])
  <2>1. fr \in Frames
    <3> HIDE DEF Frames
    <3> QED
      BY <1>1, <1>2, ElementOfSeq
  <2>2. FrameFits(q, fr)
    BY <1>2 DEF StackFits
  <2>3. CallFits(q, stk[parent], stk[parent + 1])
    BY <1>2 DEF StackFits
  <2> QED
    BY <1>2, <2>1, <2>2, <2>3
<1> HIDE DEF fr
<1>5. args \in Seq(Results) /\ Len(args) \in Nat /\ Len(args) < 2 /\ fr.node \in Nat
  <2>1. args \in Seq(Results) /\ fr.node \in Nat
    BY <1>4 DEF Frames
  <2>2. Len(args) < 2
    BY <1>4 DEF CallFits
  <2> HIDE DEF args
  <2> QED
    BY <2>1, <2>2, LenProperties
<1>6. res \in Results /\ Answered(q, ChildOf(q, fr.node, Len(args) + 1), res)
  <2>1. stk[m].node = ChildOf(q, fr.node, Len(args) + 1)
    BY <1>4 DEF CallFits
  <2> QED
    BY <1>1, <2>1 DEF Answered
<1> DEFINE k == Len(args)
           more == Append(args, res)
<1>7. more \in Seq(Results) /\ Len(more) = k + 1 /\ more[k + 1] = res
      /\ \A i \in 1 .. k : more[i] = args[i]
  <2> HIDE DEF args
  <2> QED
    BY <1>5, <1>6, AppendProperties
<1>8. call = [node |-> fr.node, args |-> more] /\ call \in Frames
      /\ call.node = fr.node /\ call.args = more
  <2>1. fr = [node |-> fr.node, args |-> args]
    BY <1>4 DEF Frames
  <2> DEFINE n == fr.node
  <2>2. n \in Nat
    BY <1>5
  <2>3. call = [node |-> n, args |-> more]
    <3> DEFINE a == args
    <3>1. fr = [node |-> n, args |-> a] /\ call = [fr EXCEPT !.args = more]
      BY <2>1
    <3> HIDE DEF n, a, more, call
    <3> QED
      BY <3>1
  <2> HIDE DEF n, more, call
  <2>4. call \in Frames /\ call.node = n /\ call.args = more
    BY <1>7, <2>2, <2>3 DEF Frames
  <2> QED
    BY <2>3, <2>4 DEF n
<1> HIDE DEF k, more
<1>9. FrameFits(q, call)
  <2>1. /\ fr.node \in DOMAIN q.nodes
        /\ ~IsScan(q.nodes[fr.node])
        /\ \A i \in 1 .. k : Answered(q, ChildOf(q, fr.node, i), args[i])
    BY <1>4 DEF FrameFits, CallFits, k
  <2>2. \A i \in 1 .. k + 1 : Answered(q, ChildOf(q, fr.node, i), more[i])
    <3> TAKE i \in 1 .. k + 1
    <3>1. CASE i = k + 1
      BY <1>6, <1>7, <3>1 DEF k
    <3>2. CASE i # k + 1
      <4>1. i \in 1 .. k
        BY <1>5, <3>2 DEF k
      <4> QED
        BY <1>7, <2>1, <4>1
    <3> QED
      BY <3>1, <3>2
  <2>3. Len(more) <= 2
    BY <1>5, <1>7 DEF k
  <2> HIDE DEF call
  <2> QED
    BY <1>7, <1>8, <2>1, <2>2, <2>3 DEF FrameFits
<1>10. new = [d \in 1 .. parent |-> new[d]] /\ DOMAIN new = 1 .. parent /\ new[parent] = call
       /\ \A d \in 1 .. parent : d # parent => new[d] = stk[d]
  <2>1. new = [front EXCEPT ![parent] = [front[parent] EXCEPT !.args = Append(front[parent].args, res)]]
    BY DEF Returned
  <2>2. front[parent] = fr
    BY <1>2, <1>3 DEF fr
  <2>3. new = [front EXCEPT ![parent] = call]
    BY <2>1, <2>2 DEF more
  <2> HIDE DEF call, front
  <2> QED
    BY <1>2, <1>3, <2>3
<1>11. new \in Seq(Frames) /\ Len(new) = parent
  <2>1. \A d \in 1 .. parent : new[d] \in Frames
    <3> TAKE d \in 1 .. parent
    <3>1. stk[d] \in Frames
      <4>1. d \in 1 .. m
        BY <1>2
      <4> HIDE DEF Frames
      <4> QED
        BY <1>1, <4>1, ElementOfSeq
    <3> HIDE DEF call, Frames
    <3> QED
      BY <1>8, <1>10, <3>1
  <2> HIDE DEF Frames, call
  <2>3. Maps(new, 1 .. parent, Frames)
    BY <1>10, <2>1 DEF Maps
  <2> QED
    BY <1>2, <2>3, SequenceOf
<1> HIDE DEF call, m
<1>12. \A d \in 1 .. parent : FrameFits(q, new[d])
  <2> TAKE d \in 1 .. parent
  <2>1. FrameFits(q, stk[d])
    <3>1. d \in 1 .. Len(stk)
      BY <1>1, <1>2 DEF m
    <3> QED
      BY <3>1 DEF StackFits
  <2> QED
    BY <1>9, <1>10, <2>1
<1>13. \A d \in 1 .. parent - 1 : CallFits(q, new[d], new[d + 1])
  <2> TAKE d \in 1 .. parent - 1
  <2> DEFINE e == d + 1
  <2>1. d \in 1 .. parent /\ d # parent /\ e \in 1 .. parent /\ d \in 1 .. Len(stk) - 1
    BY <1>1, <1>2 DEF m
  <2>2. CallFits(q, stk[d], stk[d + 1])
    BY <2>1 DEF StackFits
  <2>3. new[d] = stk[d] /\ new[e].node = stk[e].node
    <3>1. call.node = stk[parent].node
      BY <1>8 DEF fr
    <3> HIDE DEF e
    <3> QED
      BY <1>10, <2>1, <3>1
  <2> QED
    BY <2>2, <2>3 DEF CallFits
<1>14. new # <<>> /\ new[1].node = Len(q.nodes)
  <2>1. Len(new) # 0 /\ 1 \in 1 .. parent
    BY <1>2, <1>11
  <2>2. stk[1].node = Len(q.nodes)
    BY DEF StackFits
  <2>3. new[1].node = stk[1].node
    BY <1>8, <1>10, <2>1 DEF fr
  <2>4. new # <<>>
    BY <2>1, EmptySeq
  <2> QED
    BY <2>2, <2>3, <2>4
<1> QED
  BY <1>11, <1>12, <1>13, <1>14 DEF StackFits

-----------------------------------------------------------------------------
(* The inductive invariant                                                 *)

\* The workers have begun to probe, and their buffers are not merged yet.
Working == phase \in {"probe", "merge"}

\* The workers are at work only while the caller waits for them.
PoolInv ==
  /\ calls \in 0 .. MaxDispatches
  /\ todo \subseteq Threads /\ running \subseteq Threads /\ todo \cap running = {}
  /\ phase = "probe" => caller = "blocked"
  /\ phase # "probe" => caller = "idle" /\ todo = {} /\ running = {}

\* Every call has the answers of the nodes it has evaluated.
TreeInv ==
  /\ query \in Queries
  /\ phase \in {"plan", "build", "probe", "merge", "done"}
  /\ StackFits(query, stack)
  /\ (phase = "done") <=> (stack = <<>>)
  /\ phase = "done" => Answered(query, Len(query.nodes), result)
  /\ phase # "done" => result = <<>>

\* While run joins, the hash table lists the build rows of each key.
JoinInv ==
  /\ phase \in {"build", "probe", "merge"} =>
       /\ Joining
       /\ chain \in [Keys -> Seq(Nat)]
       /\ IsTableOf(chain, build)
  /\ phase \notin {"build", "probe", "merge"} => chain = NoChain

\* un[t] is the last of wc units that t has taken, of the nu there are; a
\* thread keeps the one with which it has found that there are no more.
UnitsHeld(nu, wc, un, td, rn) ==
  /\ wc \in Nat
  /\ un \in [Threads -> Int]
  /\ \A t \in Threads : /\ un[t] = NoUnit \/ un[t] \in 0 .. wc - 1
                        /\ t \in td => un[t] = NoUnit
                        /\ t \notin td \cup rn => un[t] >= nu
  /\ \A t, v \in Threads : t # v /\ un[t] # NoUnit => un[t] # un[v]
  /\ \A x \in nu .. wc - 1 : \E t \in Threads : un[t] = x

\* The units whose matches are in the buffers.
Probed(nu, wc, un) == {u \in 0 .. nu - 1 : u < wc /\ \A t \in Threads : un[t] # u}

\* What becomes of a match in each output column.
OutputMaps == [c \in Outputs |-> ColumnMap(c)]

\* The threads share the units, and have gathered the matches of those they are done with.
WorkInv ==
  /\ ~Working => workCounter = 0 /\ unit = NoUnits /\ threadResults = NoResults
  /\ Working =>
       /\ UnitsHeld(NumUnits, workCounter, unit, todo, running)
       /\ DOMAIN threadResults = Threads
       /\ Gathered(build, probe, OutputMaps, threadResults, Probed(NumUnits, workCounter, unit))

\* The inductive invariant.
Inv == PoolInv /\ TreeInv /\ JoinInv /\ WorkInv

-----------------------------------------------------------------------------
(* What follows from it                                                    *)

\* In a join, the sides are answered.
LEMMA JoiningIsReady ==
  ASSUME TreeInv, stack # <<>>, Joining
  PROVE  JoinReady
<1>1. query \in Queries /\ StackFits(query, stack)
  BY DEF TreeInv
<1>2. FrameFits(query, frame)
  BY <1>1, LastCall DEF frame
<1>3. ~IsScan(node) /\ Len(frame.args) = 2
  BY DEF Joining
<1>4. frame.node \in DOMAIN query.nodes
  BY <1>2 DEF FrameFits
<1>5. Answered(query, ChildOf(query, frame.node, 1), frame.args[1])
      /\ Answered(query, ChildOf(query, frame.node, 2), frame.args[2])
  <2>1. 1 \in 1 .. Len(frame.args) /\ 2 \in 1 .. Len(frame.args)
    BY <1>3
  <2> QED
    BY <1>2, <2>1 DEF FrameFits
<1>6. ChildOf(query, frame.node, 1) = node.left /\ ChildOf(query, frame.node, 2) = node.right
  BY DEF ChildOf, node
<1> QED
  BY <1>1, <1>3, <1>4, <1>5, <1>6 DEF JoinReady, left, right

\* While run joins, both sides are answered and the hash table is built.
LEMMA PhaseOfJoin ==
  ASSUME Inv, phase \in {"build", "probe", "merge"}
  PROVE  /\ JoinReady /\ Joining /\ stack # <<>>
         /\ chain \in [Keys -> Seq(Nat)] /\ IsTableOf(chain, build)
<1>1. stack # <<>> /\ TreeInv
  BY DEF Inv, TreeInv
<1>2. Joining /\ chain \in [Keys -> Seq(Nat)] /\ IsTableOf(chain, build)
  BY DEF Inv, JoinInv
<1> QED
  BY <1>1, <1>2, JoiningIsReady

\* What run works on only depends on the calls.
LEMMA Unmoved ==
  ASSUME UNCHANGED <<query, stack>>
  PROVE  /\ frame' = frame /\ node' = node /\ Outputs' = Outputs
         /\ left' = left /\ right' = right
         /\ build' = build /\ probe' = probe /\ NumUnits' = NumUnits
         /\ Joining' <=> Joining
         /\ OutputMaps' = OutputMaps
<1>1. frame' = frame
  BY DEF frame
<1>2. node' = node /\ left' = left /\ right' = right
  BY <1>1 DEF node, left, right
<1>3. Outputs' = Outputs
  BY <1>2 DEF Outputs
<1>4. LeftCol' = LeftCol /\ RightCol' = RightCol
  BY <1>2 DEF LeftCol, RightCol
<1>5. buildLeft' <=> buildLeft
  BY <1>4 DEF buildLeft
<1>6. build' = build /\ probe' = probe
  BY <1>4, <1>5 DEF build, probe
<1>7. NumUnits' = NumUnits
  BY <1>6 DEF NumUnits
<1>8. Joining' <=> Joining
  BY <1>1, <1>2 DEF Joining
<1>9. AllPairs' = AllPairs
  BY <1>6 DEF AllPairs
<1>10. \A c, p : OutputValue(c, p)' = OutputValue(c, p)
  BY <1>2, <1>5 DEF OutputValue
<1>11. OutputMaps' = OutputMaps
  BY <1>3, <1>9, <1>10 DEF OutputMaps, ColumnMap
<1> QED
  BY <1>1, <1>2, <1>3, <1>6, <1>7, <1>8, <1>11

\* Every output column has its values.
LEMMA MapsOfJoin ==
  ASSUME JoinReady
  PROVE  /\ MapsFit(OutputMaps, build, probe)
         /\ DOMAIN OutputMaps = Outputs
         /\ \E C \in Nat : Outputs = 1 .. C
<1>1. PICK ls, rs : SidesAre(ls, rs)
  BY SidesExist
<1>2. AllPairs = PairSet(build, probe)
  BY DEF AllPairs, PairSet
<1>3. \A c \in Outputs : \A p \in AllPairs : OutputValue(c, p) \in Values
  BY <1>1, OutputIs
<1>4. \A c \in Outputs : Maps(ColumnMap(c), PairSet(build, probe), Values)
  BY <1>2, <1>3 DEF Maps, ColumnMap
<1>5. \A c \in Outputs : OutputMaps[c] = ColumnMap(c)
  BY DEF OutputMaps
<1>6. DOMAIN OutputMaps = Outputs
  BY DEF OutputMaps
<1>7. MapsFit(OutputMaps, build, probe)
  BY <1>4, <1>5, <1>6 DEF MapsFit
<1>8. \E C \in Nat : Outputs = 1 .. C
  <2>1. query \in Queries /\ frame.node \in DOMAIN query.nodes /\ node = query.nodes[frame.node]
    BY DEF JoinReady, node
  <2>2. DOMAIN node.outputs = 1 .. Len(node.outputs) /\ Len(node.outputs) \in Nat
    BY <2>1, NodeFacts
  <2> QED
    BY <2>2 DEF Outputs
<1> QED
  BY <1>6, <1>7, <1>8

-----------------------------------------------------------------------------
(* Units *)

\* Before work_counter is read, ...
LEMMA NoneHeld ==
  ASSUME NEW nu \in Nat
  PROVE  UnitsHeld(nu, 0, NoUnits, Threads, {}) /\ Probed(nu, 0, NoUnits) = {}
BY DEF UnitsHeld, NoUnits, NoUnit, Probed

\* ... when a thread enters, ...
LEMMA BegunHeld ==
  ASSUME NEW nu \in Nat, NEW wc, NEW un, NEW td, NEW rn, UnitsHeld(nu, wc, un, td, rn),
         NEW t \in td
  PROVE  UnitsHeld(nu, wc, un, td \ {t}, rn \cup {t})
BY DEF UnitsHeld

\* fetch_add
LEMMA FetchedHeld ==
  ASSUME NEW nu \in Nat, NEW wc, NEW un, NEW td, NEW rn, UnitsHeld(nu, wc, un, td, rn),
         NEW t \in Threads, t \in rn, td \cap rn = {}, un[t] = NoUnit,
         NEW after, after = Put(un, t, wc)
  PROVE  /\ UnitsHeld(nu, wc + 1, after, td, rn)
         /\ Probed(nu, wc + 1, after) = Probed(nu, wc, un)
<1>1. /\ wc \in Nat /\ wc + 1 \in Nat /\ un \in [Threads -> Int] /\ NoUnit = -1
      /\ \A v \in Threads : un[v] = NoUnit \/ un[v] \in 0 .. wc - 1
      /\ \A v, w \in Threads : v # w /\ un[v] # NoUnit => un[v] # un[w]
      /\ \A x \in nu .. wc - 1 : \E v \in Threads : un[v] = x
  BY DEF UnitsHeld, NoUnit
<1>2. /\ after \in [Threads -> Int] /\ after[t] = wc
      /\ \A v \in Threads : v # t => after[v] = un[v]
  BY <1>1 DEF Put
<1>3. ASSUME NEW v \in Threads
      PROVE  /\ after[v] = NoUnit \/ after[v] \in 0 .. (wc + 1) - 1
             /\ v \in td => after[v] = NoUnit
             /\ v \notin td \cup rn => after[v] >= nu
  <2>1. CASE v = t
    BY <1>1, <1>2, <2>1
  <2>2. CASE v # t
    <3>1. /\ un[v] = NoUnit \/ un[v] \in 0 .. wc - 1
          /\ v \in td => un[v] = NoUnit
          /\ v \notin td \cup rn => un[v] >= nu
      BY DEF UnitsHeld
    <3> QED
      BY <1>1, <1>2, <2>2, <3>1
  <2> QED
    BY <2>1, <2>2
<1>4. \A v, w \in Threads : v # w /\ after[v] # NoUnit => after[v] # after[w]
  <2>1. \A v \in Threads : un[v] # wc
    BY <1>1
  <2> QED
    BY <1>1, <1>2, <2>1
<1>5. \A x \in nu .. (wc + 1) - 1 : \E v \in Threads : after[v] = x
  <2> TAKE x \in nu .. (wc + 1) - 1
  <2>1. CASE x = wc
    BY <1>2, <2>1
  <2>2. CASE x # wc
    <3>1. x \in nu .. wc - 1 /\ x \in Nat
      BY <1>1, <2>2
    <3>2. PICK v \in Threads : un[v] = x
      BY <1>1, <3>1
    <3>3. v # t
      BY <1>1, <3>1, <3>2
    <3> QED
      BY <1>2, <3>2, <3>3
  <2> QED
    BY <2>1, <2>2
<1>6. UnitsHeld(nu, wc + 1, after, td, rn)
  BY <1>1, <1>2, <1>3, <1>4, <1>5 DEF UnitsHeld
<1>7. ASSUME NEW u \in 0 .. nu - 1
      PROVE  (u < wc + 1 /\ \A v \in Threads : after[v] # u) <=> (u < wc /\ \A v \in Threads : un[v] # u)
  <2>1. u \in Nat /\ un[t] # u
    BY <1>1
  <2>2. CASE u = wc
    BY <1>1, <1>2, <2>2
  <2>3. CASE u # wc
    <3>1. u < wc + 1 <=> u < wc
      BY <1>1, <2>1, <2>3
    <3>2. (\A v \in Threads : after[v] # u) <=> \A v \in Threads : un[v] # u
      BY <1>2, <2>1, <2>3
    <3> QED
      BY <3>1, <3>2
  <2> QED
    BY <2>2, <2>3
<1>8. Probed(nu, wc + 1, after) = Probed(nu, wc, un)
  BY <1>7 DEF Probed
<1> QED
  BY <1>6, <1>8

\* A unit has been gone through.
LEMMA ProbedHeld ==
  ASSUME NEW nu \in Nat, NEW wc, NEW un, NEW td, NEW rn, UnitsHeld(nu, wc, un, td, rn),
         NEW t \in Threads, t \in rn, td \cap rn = {}, un[t] \in 0 .. nu - 1,
         NEW after, after = Put(un, t, NoUnit)
  PROVE  /\ UnitsHeld(nu, wc, after, td, rn)
         /\ Probed(nu, wc, after) = Probed(nu, wc, un) \cup {un[t]}
         /\ un[t] \notin Probed(nu, wc, un)
<1>1. /\ wc \in Nat /\ un \in [Threads -> Int] /\ NoUnit = -1
      /\ \A v \in Threads : /\ un[v] = NoUnit \/ un[v] \in 0 .. wc - 1
                            /\ v \in td => un[v] = NoUnit
                            /\ v \notin td \cup rn => un[v] >= nu
      /\ \A v, w \in Threads : v # w /\ un[v] # NoUnit => un[v] # un[w]
      /\ \A x \in nu .. wc - 1 : \E v \in Threads : un[v] = x
  BY DEF UnitsHeld, NoUnit
<1>2. /\ after \in [Threads -> Int] /\ after[t] = NoUnit
      /\ \A v \in Threads : v # t => after[v] = un[v]
  BY <1>1 DEF Put
<1>3. \A v \in Threads : /\ after[v] = NoUnit \/ after[v] \in 0 .. wc - 1
                         /\ v \in td => after[v] = NoUnit
                         /\ v \notin td \cup rn => after[v] >= nu
  BY <1>1, <1>2
<1>4. \A v, w \in Threads : v # w /\ after[v] # NoUnit => after[v] # after[w]
  BY <1>1, <1>2
<1>5. \A x \in nu .. wc - 1 : \E v \in Threads : after[v] = x
  <2> TAKE x \in nu .. wc - 1
  <2>1. PICK v \in Threads : un[v] = x
    BY <1>1
  <2>2. v # t
    BY <1>1, <2>1
  <2> QED
    BY <1>2, <2>1, <2>2
<1>6. UnitsHeld(nu, wc, after, td, rn)
  BY <1>1, <1>2, <1>3, <1>4, <1>5 DEF UnitsHeld
<1>7. un[t] < wc /\ un[t] \in Nat /\ un[t] # NoUnit
  BY <1>1
<1>8. \A v \in Threads : after[v] # un[t]
  BY <1>1, <1>2, <1>7
<1>9. ASSUME NEW u \in 0 .. nu - 1, u # un[t]
      PROVE  (\A v \in Threads : after[v] # u) <=> \A v \in Threads : un[v] # u
  <2>1. u # NoUnit
    BY <1>1
  <2> QED
    BY <1>2, <1>9, <2>1
<1>10. Probed(nu, wc, after) = Probed(nu, wc, un) \cup {un[t]}
  BY <1>7, <1>8, <1>9 DEF Probed
<1>11. un[t] \notin Probed(nu, wc, un)
  BY DEF Probed
<1> QED
  BY <1>6, <1>10, <1>11

\* A thread that has seen the counter past the last unit leaves.
LEMMA EndedHeld ==
  ASSUME NEW nu \in Nat, NEW wc, NEW un, NEW td, NEW rn, UnitsHeld(nu, wc, un, td, rn),
         NEW t \in rn, un[t] >= nu
  PROVE  UnitsHeld(nu, wc, un, td, rn \ {t})
BY DEF UnitsHeld

\* When every thread has left, every unit has been gone through.
LEMMA AllProbed ==
  ASSUME NEW nu \in Nat, NEW wc, NEW un, UnitsHeld(nu, wc, un, {}, {})
  PROVE  Probed(nu, wc, un) = 0 .. nu - 1
<1>1. /\ wc \in Nat /\ un \in [Threads -> Int] /\ NoUnit = -1
      /\ \A v \in Threads : un[v] >= nu /\ (un[v] = NoUnit \/ un[v] \in 0 .. wc - 1)
  BY DEF UnitsHeld, NoUnit
<1>2. 0 \in Threads
  BY SizesFacts
<1>3. wc > nu
  <2>1. un[0] >= nu /\ un[0] \in 0 .. wc - 1 /\ un[0] \in Int
    BY <1>1, <1>2
  <2> QED
    BY <1>1, <2>1
<1>4. \A u \in 0 .. nu - 1 : u < wc /\ \A v \in Threads : un[v] # u
  BY <1>1, <1>3
<1> QED
  BY <1>4 DEF Probed

\* A thread looks past the last unit once.
LEMMA CounterBound ==
  ASSUME NEW nu \in Nat, NEW wc, NEW un, NEW td, NEW rn, UnitsHeld(nu, wc, un, td, rn)
  PROVE  /\ wc \in 0 .. nu + NumThreads
         /\ un \in [Threads -> NoUnit .. nu + NumThreads - 1]
<1>1. /\ wc \in Nat /\ un \in [Threads -> Int] /\ NoUnit = -1
      /\ \A v \in Threads : un[v] = NoUnit \/ un[v] \in 0 .. wc - 1
      /\ \A x \in nu .. wc - 1 : \E v \in Threads : un[v] = x
  BY DEF UnitsHeld, NoUnit
<1>2. IsFiniteSet(Threads) /\ Cardinality(Threads) = NumThreads /\ NumThreads \in Nat \ {0}
  <2>1. /\ IsFiniteSet(0 .. NumThreads - 1)
        /\ Cardinality(0 .. NumThreads - 1) = IF 0 > NumThreads - 1 THEN 0 ELSE NumThreads - 1 - 0 + 1
    BY SizesFacts, FS_Interval
  <2> QED
    BY <2>1, SizesFacts
<1>3. wc <= nu + NumThreads
  <2> SUFFICES ASSUME wc > nu
               PROVE  wc <= nu + NumThreads
    BY <1>1, <1>2
  <2> DEFINE X == nu .. wc - 1
             Holder(x) == CHOOSE v \in Threads : un[v] = x
             f == [x \in X |-> Holder(x)]
  <2>1. \A x \in X : Holder(x) \in Threads /\ un[Holder(x)] = x
    BY <1>1
  <2> HIDE DEF Holder
  <2>2. \A x \in X : f[x] \in Threads /\ un[f[x]] = x
    BY <2>1
  <2>3. f \in [X -> Threads]
    BY <2>2
  <2>4. f \in Injection(X, Threads)
    <3> HIDE DEF X, f
    <3> QED
      BY <2>2, <2>3 DEF Injection, IsInjective
  <2>5. Cardinality(X) <= Cardinality(Threads)
    <3> HIDE DEF X, f
    <3> QED
      BY <1>2, <2>4, FS_Injection
  <2>6. Cardinality(X) = wc - nu
    <3>1. Cardinality(nu .. wc - 1) = IF nu > wc - 1 THEN 0 ELSE wc - 1 - nu + 1
      BY <1>1, FS_Interval
    <3> QED
      BY <1>1, <3>1
  <2> HIDE DEF X
  <2> QED
    BY <1>1, <1>2, <2>5, <2>6
<1>4. \A v \in Threads : un[v] \in NoUnit .. nu + NumThreads - 1
  BY <1>1, <1>2, <1>3
<1> QED
  BY <1>1, <1>2, <1>3, <1>4

-----------------------------------------------------------------------------
(* Steps *)

\* The root is the last node of a plan.
LEMMA RootIsNode ==
  ASSUME NEW q \in Queries
  PROVE  Len(q.nodes) \in DOMAIN q.nodes /\ Len(q.nodes) \in Nat
<1> DEFINE nodes == q.nodes
<1>1. nodes \in Seq(Node) /\ nodes # <<>>
  BY ExecutionAssumption
<1> HIDE DEF nodes
<1>2. Len(nodes) \in Nat \ {0} /\ DOMAIN nodes = 1 .. Len(nodes)
  BY <1>1, LenProperties, EmptySeq
<1>3. Len(nodes) \in DOMAIN nodes /\ Len(nodes) \in Nat
  BY <1>2
<1> QED
  BY <1>3 DEF nodes

\* A plan begins with the call for its root.
LEMMA InitInv == ASSUME Init PROVE Inv
<1> DEFINE call == [node |-> Len(query.nodes), args |-> <<>>]
<1>1. /\ query \in Queries /\ stack = <<call>> /\ phase = "plan"
      /\ chain = NoChain /\ workCounter = 0 /\ unit = NoUnits
      /\ threadResults = NoResults /\ result = <<>>
      /\ calls = 0 /\ todo = {} /\ running = {} /\ caller = "idle"
  BY DEF Init, Pool!Init
<1>2. Len(query.nodes) \in DOMAIN query.nodes /\ Len(query.nodes) \in Nat
  BY <1>1, RootIsNode
<1> DEFINE n == Len(query.nodes)
<1>3. call.node = n /\ call.args = <<>> /\ call \in Frames
  <2>1. <<>> \in Seq(Results)
    BY EmptySeq
  <2>2. n \in Nat /\ call = [node |-> n, args |-> <<>>]
    BY <1>2
  <2> HIDE DEF n, call
  <2> QED
    BY <2>1, <2>2 DEF Frames
<1>4. FrameFits(query, call)
  <2>1. Len(<<>>) = 0
    BY EmptySeq
  <2> HIDE DEF call
  <2> QED
    BY <1>2, <1>3, <2>1 DEF FrameFits
<1> HIDE DEF call
<1>5. StackFits(query, stack) /\ stack # <<>>
  <2>1. stack \in Seq(Frames) /\ Len(stack) = 1 /\ stack[1] = call
    <3> HIDE DEF Frames
    <3> QED
      BY <1>1, <1>3
  <2>2. stack # <<>>
    <3>1. Len(<<>>) = 0
      BY EmptySeq
    <3> QED
      BY <2>1, <3>1
  <2>3. \A d \in 1 .. Len(stack) : FrameFits(query, stack[d])
    BY <1>4, <2>1
  <2>4. 1 .. Len(stack) - 1 = {}
    BY <2>1
  <2> QED
    BY <1>3, <2>1, <2>2, <2>3, <2>4 DEF StackFits
<1>6. PoolInv
  <2>1. 0 \in 0 .. MaxDispatches
    BY ExecutionAssumption
  <2> QED
    BY <1>1, <2>1 DEF PoolInv
<1>7. TreeInv
  BY <1>1, <1>5 DEF TreeInv
<1>8. JoinInv
  BY <1>1 DEF JoinInv
<1>9. WorkInv
  BY <1>1 DEF WorkInv, Working
<1> QED
  BY <1>6, <1>7, <1>8, <1>9 DEF Inv

\* Nothing but the pool and the hash table's or the work's variables change.
LEMMA TreeStays ==
  ASSUME TreeInv, UNCHANGED <<query, stack, result>>, phase # "done",
         phase' \in {"plan", "build", "probe", "merge"}
  PROVE  TreeInv'
BY DEF TreeInv

\* The hash table is not touched until run returns.
LEMMA JoinStays ==
  ASSUME JoinInv, UNCHANGED <<query, stack, chain>>,
         phase \in {"build", "probe", "merge"}, phase' \in {"build", "probe", "merge"}
  PROVE  JoinInv'
<1>1. (Joining' <=> Joining) /\ build' = build
  BY Unmoved
<1>2. Joining /\ chain \in [Keys -> Seq(Nat)] /\ IsTableOf(chain, build)
  BY DEF JoinInv
<1>3. Joining' /\ chain' \in [Keys -> Seq(Nat)] /\ IsTableOf(chain', build')
  BY <1>1, <1>2
<1> QED
  BY <1>3 DEF JoinInv

\* What a step has to keep of the work of the threads.
LEMMA WorkIs ==
  ASSUME UNCHANGED <<query, stack>>, Working',
         UnitsHeld(NumUnits, workCounter', unit', todo', running'),
         DOMAIN threadResults' = Threads,
         Gathered(build, probe, OutputMaps, threadResults', Probed(NumUnits, workCounter', unit'))
  PROVE  WorkInv'
<1>1. build' = build /\ probe' = probe /\ NumUnits' = NumUnits /\ OutputMaps' = OutputMaps
  BY Unmoved
<1>2. UnitsHeld(NumUnits', workCounter', unit', todo', running')
  BY <1>1
<1>3. Gathered(build', probe', OutputMaps', threadResults', Probed(NumUnits', workCounter', unit'))
  BY <1>1
<1> QED
  BY <1>2, <1>3 DEF WorkInv

\* Nothing changes.
LEMMA StutterStep == ASSUME Inv, UNCHANGED vars PROVE Inv'
<1> USE DEF vars, poolVars, treeVars
<1>1. PoolInv'
  BY DEF Inv, PoolInv
<1>2. TreeInv'
  BY DEF Inv, TreeInv
<1>3. (Joining' <=> Joining) /\ build' = build
  BY Unmoved
<1>4. JoinInv'
  BY <1>3 DEF Inv, JoinInv
<1>5. WorkInv'
  <2>1. CASE Working
    <3>1. /\ UnitsHeld(NumUnits, workCounter, unit, todo, running)
          /\ DOMAIN threadResults = Threads
          /\ Gathered(build, probe, OutputMaps, threadResults, Probed(NumUnits, workCounter, unit))
      BY <2>1 DEF Inv, WorkInv
    <3>2. Working'
      BY <2>1 DEF Working
    <3> QED
      BY <3>1, <3>2, WorkIs
  <2>2. CASE ~Working
    BY <2>2 DEF Inv, WorkInv, Working, NoUnits, NoResults
  <2> QED
    BY <2>1, <2>2
<1> QED
  BY <1>1, <1>2, <1>4, <1>5 DEF Inv

\* execute_hash_join calls execute_impl for a child.
LEMMA EvaluateChildStep == ASSUME Inv, EvaluateChild PROVE Inv'
<1>1. /\ phase = "plan" /\ ~IsScan(node) /\ Len(frame.args) < 2
      /\ stack' = Append(stack, [node |-> IF frame.args = <<>> THEN node.left ELSE node.right,
                                 args |-> <<>>])
      /\ UNCHANGED <<query, result, phase>> /\ UNCHANGED poolVars /\ UNCHANGED joinVars
  BY DEF EvaluateChild
<1>2. query \in Queries /\ StackFits(query, stack) /\ stack # <<>> /\ TreeInv
  BY <1>1 DEF Inv, TreeInv
<1> DEFINE call == [node |-> IF frame.args = <<>> THEN node.left ELSE node.right, args |-> <<>>]
           next == [node |-> ChildOf(query, Last(stack).node, Len(Last(stack).args) + 1),
                    args |-> <<>>]
<1>3. Len(frame.args) \in Nat /\ (frame.args = <<>> <=> Len(frame.args) = 0)
  BY <1>2, LastCall DEF frame
<1>4. call = next
  <2>1. Last(stack) = frame /\ node = query.nodes[frame.node]
    BY DEF frame, node
  <2>2. ChildOf(query, frame.node, Len(frame.args) + 1)
          = IF Len(frame.args) + 1 = 1 THEN node.left ELSE node.right
    BY DEF ChildOf, node
  <2>3. Len(frame.args) + 1 = 1 <=> frame.args = <<>>
    BY <1>3
  <2> QED
    BY <2>1, <2>2, <2>3
<1>5. ~IsScan(query.nodes[Last(stack).node]) /\ Len(Last(stack).args) < 2
  BY <1>1 DEF frame, node
<1>6. StackFits(query, Append(stack, next)) /\ Append(stack, next) # <<>>
  <2>1. next = [node |-> ChildOf(query, Last(stack).node, Len(Last(stack).args) + 1), args |-> <<>>]
    OBVIOUS
  <2> HIDE DEF next
  <2> QED
    BY <1>2, <1>5, <2>1, CallPushed
<1>7. stack' = Append(stack, next)
  BY <1>1, <1>4
<1> HIDE DEF call, next
<1>8. TreeInv'
  BY <1>1, <1>2, <1>6, <1>7 DEF TreeInv
<1>9. PoolInv'
  BY <1>1 DEF Inv, PoolInv, poolVars
<1>10. JoinInv'
  BY <1>1 DEF Inv, JoinInv, joinVars, NoChain
<1>11. WorkInv'
  BY <1>1 DEF Inv, WorkInv, Working, joinVars, NoUnits, NoResults
<1> QED
  BY <1>8, <1>9, <1>10, <1>11 DEF Inv

\* A call ends.
LEMMA ReturnStep ==
  ASSUME Inv, phase \in {"plan", "merge"}, NEW res, Answered(query, frame.node, res),
         ReturnResult(res), UNCHANGED poolVars,
         chain' = NoChain, workCounter' = 0, unit' = NoUnits, threadResults' = NoResults
  PROVE  Inv'
<1>1. query \in Queries /\ StackFits(query, stack) /\ stack # <<>> /\ result = <<>>
  BY DEF Inv, TreeInv
<1>2. query' = query
  BY DEF ReturnResult
<1>3. TreeInv' /\ phase' \in {"plan", "done"}
  <2>1. CASE Len(stack) = 1
    <3>1. stack' = <<>> /\ result' = res /\ phase' = "done"
      BY <2>1 DEF ReturnResult
    <3>2. frame.node = Len(query.nodes)
      <4>1. frame = stack[1]
        BY <1>1, <2>1, LastCall DEF frame
      <4> QED
        BY <1>1, <4>1 DEF StackFits
    <3>3. StackFits(query, <<>>)
      <4>1. <<>> \in Seq(Frames) /\ Len(<<>>) = 0
        BY EmptySeq
      <4> QED
        BY <4>1 DEF StackFits
    <3> QED
      BY <1>1, <1>2, <3>1, <3>2, <3>3 DEF TreeInv
  <2>2. CASE Len(stack) # 1
    <3> DEFINE parent == Len(stack) - 1
               new == Returned(stack, parent, res)
    <3>1. stack' = new /\ result' = result /\ phase' = "plan"
      BY <2>2 DEF ReturnResult, Returned
    <3>2. Answered(query, Last(stack).node, res)
      BY DEF frame
    <3>3. StackFits(query, new) /\ new # <<>>
      <4>1. parent = Len(stack) - 1
        OBVIOUS
      <4>2. new = Returned(stack, parent, res)
        OBVIOUS
      <4> HIDE DEF parent, new
      <4> QED
        BY <1>1, <2>2, <3>2, <4>1, <4>2, CallReturns
    <3> HIDE DEF new
    <3> QED
      BY <1>1, <1>2, <3>1, <3>3 DEF TreeInv
  <2> QED
    BY <2>1, <2>2
<1>4. PoolInv'
  BY <1>3 DEF Inv, PoolInv, poolVars
<1>5. JoinInv'
  BY <1>3 DEF JoinInv, NoChain
<1>6. WorkInv'
  BY <1>3 DEF WorkInv, Working, NoUnits, NoResults
<1> QED
  BY <1>3, <1>4, <1>5, <1>6 DEF Inv

\* Outside of run its variables are as they are before and after it.
LEMMA IdleWork ==
  ASSUME Inv, phase \in {"plan", "done"}
  PROVE  chain = NoChain /\ workCounter = 0 /\ unit = NoUnits /\ threadResults = NoResults
<1>1. phase \notin {"build", "probe", "merge"} /\ ~Working
  BY DEF Working
<1> QED
  BY <1>1 DEF Inv, JoinInv, WorkInv

\* A scan returns its answer.
LEMMA ScanStep == ASSUME Inv, Scan PROVE Inv'
<1> DEFINE res == [c \in Outputs |-> BuildColumn(node.table, node.outputs[c])]
           n == frame.node
<1>1. phase = "plan" /\ IsScan(node) /\ ReturnResult(res) /\ UNCHANGED poolVars /\ UNCHANGED joinVars
  BY DEF Scan
<1>2. query \in Queries /\ StackFits(query, stack) /\ stack # <<>>
  BY <1>1 DEF Inv, TreeInv
<1>3. n \in DOMAIN query.nodes
  BY <1>2, LastCall DEF frame, FrameFits
<1>4. Answered(query, frame.node, res)
  <2>1. Answered(query, n, [c \in DOMAIN query.nodes[n].outputs |->
                              BuildColumn(query.nodes[n].table, query.nodes[n].outputs[c])])
    <3>1. IsScan(query.nodes[n])
      BY <1>1 DEF node
    <3> HIDE DEF n
    <3> QED
      BY <1>2, <1>3, <3>1, ScanAnswered
  <2> QED
    BY <2>1 DEF node, Outputs
<1>5. chain' = NoChain /\ workCounter' = 0 /\ unit' = NoUnits /\ threadResults' = NoResults
  BY <1>1, IdleWork DEF joinVars
<1> HIDE DEF res
<1> QED
  BY <1>1, <1>4, <1>5, ReturnStep

\* A join with an empty side has no rows, and run returns none.
LEMMA EmptyJoinStep == ASSUME Inv, EmptyJoin PROVE Inv'
<1> DEFINE res == [c \in Outputs |-> Buffered(<<>>)]
<1>1. /\ phase = "plan" /\ Joining /\ (LeftCol.numRows = 0 \/ RightCol.numRows = 0)
      /\ ReturnResult(res) /\ UNCHANGED poolVars /\ UNCHANGED joinVars
  BY DEF EmptyJoin
<1>2. JoinReady
  BY <1>1, JoiningIsReady DEF Inv, TreeInv
<1>3. Answered(query, frame.node, res)
  <2>1. Rows(query)[frame.node] = {}
    BY <1>1, <1>2, NoRowsToJoin
  <2>2. Answered(query, frame.node, [c \in DOMAIN query.nodes[frame.node].outputs |-> Buffered(<<>>)])
    BY <1>2, <2>1, EmptyAnswered DEF JoinReady
  <2> QED
    BY <2>2 DEF Outputs, node
<1>4. chain' = NoChain /\ workCounter' = 0 /\ unit' = NoUnits /\ threadResults' = NoResults
  BY <1>1, IdleWork DEF joinVars
<1> HIDE DEF res
<1> QED
  BY <1>1, <1>3, <1>4, ReturnStep

\* build_parallel leaves a table of the build side.
LEMMA BuildTableStep == ASSUME Inv, BuildTable PROVE Inv'
<1>1. /\ phase = "plan" /\ Joining /\ phase' = "build" /\ chain' \in Chains
      /\ UNCHANGED poolVars /\ UNCHANGED treeVars /\ UNCHANGED <<workCounter, unit, threadResults>>
  BY DEF BuildTable
<1>2. UNCHANGED <<query, stack, result>> /\ UNCHANGED <<calls, todo, running, caller>>
  BY <1>1 DEF treeVars, poolVars
<1>3. JoinReady
  BY <1>1, JoiningIsReady DEF Inv, TreeInv
<1>4. IsTableOf(chain', build) /\ chain' \in [Keys -> Seq(Nat)]
  <2>1. IsColumn(build)
    BY <1>3, JoinSides
  <2> QED
    BY <1>1, <2>1, ChainsListRows
<1>5. (Joining' <=> Joining) /\ build' = build
  BY <1>2, Unmoved
<1>6. PoolInv'
  BY <1>1, <1>2 DEF Inv, PoolInv
<1>7. TreeInv'
  BY <1>1, <1>2, TreeStays DEF Inv
<1>8. JoinInv'
  <2>1. Joining' /\ chain' \in [Keys -> Seq(Nat)] /\ IsTableOf(chain', build')
    BY <1>1, <1>4, <1>5
  <2> QED
    BY <1>1, <2>1 DEF JoinInv
<1>9. WorkInv'
  <2>1. ~Working' /\ UNCHANGED <<workCounter, unit, threadResults>>
    BY <1>1 DEF Working
  <2> QED
    BY <1>1, <2>1, IdleWork DEF WorkInv, NoUnits, NoResults
<1> QED
  BY <1>6, <1>7, <1>8, <1>9 DEF Inv

\* The threads have nothing yet.
LEMMA DispatchProbeStep == ASSUME Inv, DispatchProbe PROVE Inv'
<1>1. /\ phase = "build" /\ phase' = "probe" /\ Pool!Dispatch
      /\ threadResults' = [t \in Threads |-> [c \in Outputs |-> <<>>]]
      /\ UNCHANGED treeVars /\ UNCHANGED <<chain, workCounter, unit>>
  BY DEF DispatchProbe
<1>2. /\ UNCHANGED <<query, stack, result>>
      /\ caller = "idle" /\ calls < MaxDispatches /\ calls' = calls + 1
      /\ todo' = Threads /\ caller' = "blocked" /\ running' = running
  BY <1>1 DEF treeVars, Pool!Dispatch, Pool!Workers, Threads
<1>3. running = {} /\ calls \in 0 .. MaxDispatches
  BY <1>1 DEF Inv, PoolInv
<1>4. PoolInv'
  <2>1. calls' \in 0 .. MaxDispatches
    BY <1>2, <1>3, ExecutionAssumption
  <2> QED
    BY <1>1, <1>2, <1>3, <2>1 DEF PoolInv
<1>5. TreeInv'
  BY <1>1, <1>2, TreeStays DEF Inv
<1>6. JoinInv'
  BY <1>1, <1>2, JoinStays DEF Inv
<1>7. WorkInv'
  <2>1. JoinReady
    BY <1>1, PhaseOfJoin
  <2>2. NumUnits \in Nat /\ DOMAIN OutputMaps = Outputs
    BY <2>1, JoinSides, MapsOfJoin
  <2>3. workCounter' = 0 /\ unit' = NoUnits
    BY <1>1 DEF Inv, WorkInv, Working
  <2>4. /\ UnitsHeld(NumUnits, workCounter', unit', todo', running')
        /\ Probed(NumUnits, workCounter', unit') = {}
    BY <1>2, <1>3, <2>2, <2>3, NoneHeld
  <2>5. Gathered(build, probe, OutputMaps, threadResults', {})
    BY <1>1, <2>2, NoneGathered
  <2>6. DOMAIN threadResults' = Threads
    BY <1>1
  <2>7. Working'
    BY <1>1 DEF Working
  <2> QED
    BY <1>2, <2>4, <2>5, <2>6, <2>7, WorkIs
<1> QED
  BY <1>4, <1>5, <1>6, <1>7 DEF Inv

\* A thread's step is in the probe.
LEMMA ThreadIsInProbe ==
  ASSUME Inv, NEW t, t \in todo \/ t \in running
  PROVE  /\ phase = "probe" /\ Working /\ t \in Threads /\ JoinReady
         /\ NumUnits \in Nat /\ todo \cap running = {}
         /\ UnitsHeld(NumUnits, workCounter, unit, todo, running)
         /\ DOMAIN threadResults = Threads
         /\ Gathered(build, probe, OutputMaps, threadResults, Probed(NumUnits, workCounter, unit))
<1>1. phase = "probe" /\ t \in Threads /\ todo \cap running = {}
  BY DEF Inv, PoolInv
<1>2. Working
  BY <1>1 DEF Working
<1>3. JoinReady
  BY <1>1, PhaseOfJoin
<1>4. NumUnits \in Nat
  BY <1>3, JoinSides
<1> QED
  BY <1>1, <1>2, <1>3, <1>4 DEF Inv, WorkInv

\* What a thread's step leaves alone.
LEMMA ThreadLeaves ==
  ASSUME Inv, phase = "probe", UNCHANGED treeVars, UNCHANGED <<phase, chain>>,
         calls' = calls, caller' = caller,
         todo' \subseteq Threads, running' \subseteq Threads, todo' \cap running' = {},
         WorkInv'
  PROVE  Inv'
<1>1. UNCHANGED <<query, stack, result>>
  BY DEF treeVars
<1>2. PoolInv'
  BY DEF Inv, PoolInv
<1>3. TreeInv'
  BY <1>1, TreeStays DEF Inv
<1>4. JoinInv'
  BY <1>1, JoinStays DEF Inv
<1> QED
  BY <1>2, <1>3, <1>4 DEF Inv

\* A thread enters the probe.
LEMMA BeginProbeStep == ASSUME Inv, NEW t \in Threads, BeginProbe(t) PROVE Inv'
<1>1. /\ t \in todo /\ todo' = todo \ {t} /\ running' = running \cup {t}
      /\ UNCHANGED <<calls, caller>> /\ UNCHANGED treeVars
      /\ UNCHANGED <<phase, chain>> /\ UNCHANGED <<workCounter, unit, threadResults>>
  BY DEF BeginProbe, Pool!Begin
<1>2. /\ phase = "probe" /\ NumUnits \in Nat /\ todo \cap running = {}
      /\ UnitsHeld(NumUnits, workCounter, unit, todo, running)
      /\ DOMAIN threadResults = Threads
      /\ Gathered(build, probe, OutputMaps, threadResults, Probed(NumUnits, workCounter, unit))
  BY <1>1, ThreadIsInProbe
<1>3. todo \subseteq Threads /\ running \subseteq Threads
  BY DEF Inv, PoolInv
<1>4. UnitsHeld(NumUnits, workCounter', unit', todo', running')
  BY <1>1, <1>2, BegunHeld
<1>5. WorkInv'
  <2>1. Working' /\ UNCHANGED <<query, stack>>
    BY <1>1, <1>2 DEF Working, treeVars
  <2> QED
    BY <1>1, <1>2, <1>4, <2>1, WorkIs
<1> QED
  BY <1>1, <1>2, <1>3, <1>5, ThreadLeaves

\* A thread takes a unit that nobody has had.
LEMMA FetchUnitStep == ASSUME Inv, NEW t \in Threads, FetchUnit(t) PROVE Inv'
<1>1. /\ t \in running /\ unit[t] = NoUnit /\ unit' = Put(unit, t, workCounter)
      /\ workCounter' = workCounter + 1
      /\ UNCHANGED <<calls, todo, running, caller>> /\ UNCHANGED treeVars
      /\ UNCHANGED <<phase, chain>> /\ threadResults' = threadResults
  BY DEF FetchUnit, poolVars, Put
<1>2. /\ phase = "probe" /\ NumUnits \in Nat /\ todo \cap running = {}
      /\ UnitsHeld(NumUnits, workCounter, unit, todo, running)
      /\ DOMAIN threadResults = Threads
      /\ Gathered(build, probe, OutputMaps, threadResults, Probed(NumUnits, workCounter, unit))
  BY <1>1, ThreadIsInProbe
<1>3. todo \subseteq Threads /\ running \subseteq Threads
  BY DEF Inv, PoolInv
<1>4. /\ UnitsHeld(NumUnits, workCounter + 1, unit', todo, running)
      /\ Probed(NumUnits, workCounter + 1, unit') = Probed(NumUnits, workCounter, unit)
  BY <1>1, <1>2, FetchedHeld
<1>5. WorkInv'
  <2>1. Working' /\ UNCHANGED <<query, stack>>
    BY <1>1, <1>2 DEF Working, treeVars
  <2>2. /\ UnitsHeld(NumUnits, workCounter', unit', todo', running')
        /\ DOMAIN threadResults' = Threads
        /\ Gathered(build, probe, OutputMaps, threadResults', Probed(NumUnits, workCounter', unit'))
    BY <1>1, <1>2, <1>4
  <2> QED
    BY <2>1, <2>2, WorkIs
<1> QED
  BY <1>1, <1>2, <1>3, <1>5, ThreadLeaves

\* A thread adds the matches of its unit to its own buffers.
LEMMA ProbeUnitStep == ASSUME Inv, NEW t \in Threads, ProbeUnit(t) PROVE Inv'
<1> DEFINE u == unit[t]
           m == Matches(u)
           more == [c \in Outputs |-> threadResults[t][c] \o [i \in DOMAIN m |-> OutputValue(c, m[i])]]
<1>1. /\ t \in running /\ u \in 0 .. NumUnits - 1
      /\ threadResults' = Put(threadResults, t, more)
      /\ unit' = Put(unit, t, NoUnit)
      /\ UNCHANGED <<calls, todo, running, caller>> /\ UNCHANGED treeVars
      /\ UNCHANGED <<phase, chain>> /\ workCounter' = workCounter
  BY DEF ProbeUnit, poolVars, Put
<1>2. /\ phase = "probe" /\ NumUnits \in Nat /\ todo \cap running = {} /\ JoinReady
      /\ UnitsHeld(NumUnits, workCounter, unit, todo, running)
      /\ DOMAIN threadResults = Threads
      /\ Gathered(build, probe, OutputMaps, threadResults, Probed(NumUnits, workCounter, unit))
  BY <1>1, ThreadIsInProbe
<1>3. todo \subseteq Threads /\ running \subseteq Threads
  BY DEF Inv, PoolInv
<1> DEFINE U == Probed(NumUnits, workCounter, unit)
<1>4. /\ UnitsHeld(NumUnits, workCounter, unit', todo, running)
      /\ Probed(NumUnits, workCounter, unit') = U \cup {u}
      /\ u \notin U
  <2>1. unit[t] \in 0 .. NumUnits - 1 /\ t \in Threads /\ t \in running
    BY <1>1
  <2> QED
    BY <1>1, <1>2, <2>1, ProbedHeld
<1>5. IsListing(m, PairsOf(build, probe, {u}))
  <2>1. IsTableOf(chain, build)
    BY <1>2, PhaseOfJoin
  <2>2. IsColumn(build) /\ IsKeyColumn(probe) /\ Len(probe.units) = NumUnits
    BY <1>2, JoinSides
  <2>3. u \in 0 .. Len(probe.units) - 1
    BY <1>1, <2>2
  <2> HIDE DEF u
  <2> QED
    BY <2>1, <2>2, <2>3, MatchesListPairs
<1>6. MapsFit(OutputMaps, build, probe) /\ DOMAIN OutputMaps = Outputs
  BY <1>2, MapsOfJoin
<1> HIDE DEF m, u, U
<1>7. \A c \in Outputs : [i \in DOMAIN m |-> OutputValue(c, m[i])] = Image(OutputMaps[c], m)
  <2>1. \A i \in DOMAIN m : m[i] \in AllPairs
    <3>1. \A i \in DOMAIN m : m[i] \in PairsOf(build, probe, {u})
      BY <1>5, LenProperties DEF IsListing
    <3> QED
      BY <3>1 DEF PairsOf, AllPairs
  <2> TAKE c \in Outputs
  <2>2. OutputMaps[c] = ColumnMap(c)
    BY DEF OutputMaps
  <2>3. \A i \in DOMAIN m : ColumnMap(c)[m[i]] = OutputValue(c, m[i])
    BY <2>1 DEF ColumnMap
  <2>4. DOMAIN m = 1 .. Len(m)
    BY <1>5, LenProperties DEF IsListing
  <2> QED
    BY <2>2, <2>3, <2>4 DEF Image
<1>8. more = [c \in DOMAIN OutputMaps |-> threadResults[t][c] \o Image(OutputMaps[c], m)]
  BY <1>6, <1>7
<1> HIDE DEF more
<1>9. Gathered(build, probe, OutputMaps, threadResults', U \cup {u})
  <2>1. Gathered(build, probe, OutputMaps, threadResults, U)
    BY <1>2 DEF U
  <2> QED
    BY <1>1, <1>2, <1>4, <1>5, <1>6, <1>8, <2>1, OneMoreGathered
<1>10. WorkInv'
  <2>1. Working' /\ UNCHANGED <<query, stack>>
    BY <1>1, <1>2 DEF Working, treeVars
  <2>2. DOMAIN threadResults' = Threads
    BY <1>1, <1>2 DEF Put
  <2>3. UnitsHeld(NumUnits, workCounter', unit', todo', running')
    BY <1>1, <1>4
  <2>4. Gathered(build, probe, OutputMaps, threadResults', Probed(NumUnits, workCounter', unit'))
    BY <1>1, <1>4, <1>9
  <2> QED
    BY <2>1, <2>2, <2>3, <2>4, WorkIs
<1> QED
  BY <1>1, <1>2, <1>3, <1>10, ThreadLeaves

\* A thread finds no more units.
LEMMA EndProbeStep == ASSUME Inv, NEW t \in Threads, EndProbe(t) PROVE Inv'
<1>1. /\ t \in running /\ running' = running \ {t} /\ unit[t] >= NumUnits
      /\ UNCHANGED <<calls, todo, caller>> /\ UNCHANGED treeVars
      /\ UNCHANGED <<phase, chain>> /\ UNCHANGED <<workCounter, unit, threadResults>>
  BY DEF EndProbe, Pool!End
<1>2. /\ phase = "probe" /\ NumUnits \in Nat /\ todo \cap running = {}
      /\ UnitsHeld(NumUnits, workCounter, unit, todo, running)
      /\ DOMAIN threadResults = Threads
      /\ Gathered(build, probe, OutputMaps, threadResults, Probed(NumUnits, workCounter, unit))
  BY <1>1, ThreadIsInProbe
<1>3. todo \subseteq Threads /\ running \subseteq Threads
  BY DEF Inv, PoolInv
<1>4. UnitsHeld(NumUnits, workCounter', unit', todo', running')
  BY <1>1, <1>2, EndedHeld
<1>5. WorkInv'
  <2>1. Working' /\ UNCHANGED <<query, stack>>
    BY <1>1, <1>2 DEF Working, treeVars
  <2> QED
    BY <1>1, <1>2, <1>4, <2>1, WorkIs
<1> QED
  BY <1>1, <1>2, <1>3, <1>5, ThreadLeaves

\* All threads have left.
LEMMA ReturnProbeStep == ASSUME Inv, ReturnProbe PROVE Inv'
<1>1. /\ phase = "probe" /\ phase' = "merge" /\ caller = "blocked" /\ todo = {} /\ running = {}
      /\ caller' = "idle" /\ UNCHANGED <<calls, todo, running>>
      /\ UNCHANGED treeVars /\ UNCHANGED <<chain, workCounter, unit, threadResults>>
  BY DEF ReturnProbe, Pool!Return
<1>2. UNCHANGED <<query, stack, result>>
  BY <1>1 DEF treeVars
<1>3. PoolInv'
  BY <1>1 DEF Inv, PoolInv
<1>4. TreeInv'
  BY <1>1, <1>2, TreeStays DEF Inv
<1>5. JoinInv'
  BY <1>1, <1>2, JoinStays DEF Inv
<1>6. WorkInv'
  <2>1. Working /\ Working'
    BY <1>1 DEF Working
  <2>2. /\ UnitsHeld(NumUnits, workCounter, unit, todo, running)
        /\ DOMAIN threadResults = Threads
        /\ Gathered(build, probe, OutputMaps, threadResults, Probed(NumUnits, workCounter, unit))
    BY <2>1 DEF Inv, WorkInv
  <2> QED
    BY <1>1, <1>2, <2>1, <2>2, WorkIs
<1> QED
  BY <1>3, <1>4, <1>5, <1>6 DEF Inv

\* All units have been gone through: the merged columns answer the join.
LEMMA MergeStep == ASSUME Inv, Merge PROVE Inv'
<1> DEFINE res == [c \in Outputs |-> Merged(c)]
<1>1. /\ phase = "merge" /\ ReturnResult(res) /\ UNCHANGED poolVars
      /\ chain' = NoChain /\ workCounter' = 0 /\ unit' = NoUnits /\ threadResults' = NoResults
  BY DEF Merge
<1>2. JoinReady
  BY <1>1, PhaseOfJoin
<1>3. NumUnits \in Nat /\ MapsFit(OutputMaps, build, probe) /\ DOMAIN OutputMaps = Outputs
  BY <1>2, JoinSides, MapsOfJoin
<1>4. /\ UnitsHeld(NumUnits, workCounter, unit, {}, {})
      /\ Gathered(build, probe, OutputMaps, threadResults, Probed(NumUnits, workCounter, unit))
  BY <1>1 DEF Inv, WorkInv, PoolInv, Working
<1>5. Probed(NumUnits, workCounter, unit) = AllUnits
  BY <1>3, <1>4, AllProbed DEF AllUnits
<1>6. PICK M : /\ IsListing(M, PairsOf(build, probe, AllUnits))
               /\ \A c \in DOMAIN OutputMaps :
                    FlattenSeq([i \in 1 .. NumThreads |-> threadResults[i - 1][c]])
                      = Image(OutputMaps[c], M)
  BY <1>3, <1>4, <1>5, AllGathered
<1>7. \A c \in Outputs : Merged(c) = Buffered(Image(ColumnMap(c), M))
  BY <1>3, <1>6 DEF Merged, OutputMaps
<1>8. res = [c \in Outputs |-> Buffered(Image(ColumnMap(c), M))]
  BY <1>7
<1> HIDE DEF res
<1>9. Answered(query, frame.node, res)
  BY <1>2, <1>6, <1>8, JoinAnswered
<1> QED
  BY <1>1, <1>9, ReturnStep

\* Every step keeps the invariant.
LEMMA StepInv == ASSUME Inv, [Next]_vars PROVE Inv'
<1>1. CASE UNCHANGED vars
  BY <1>1, StutterStep
<1>2. ASSUME NEW t \in Threads, WorkerStep(t) PROVE Inv'
  BY <1>2, BeginProbeStep, FetchUnitStep, ProbeUnitStep, EndProbeStep DEF WorkerStep
<1>3. CASE CallerStep
  BY <1>3, EvaluateChildStep, ScanStep, EmptyJoinStep, BuildTableStep, DispatchProbeStep,
     ReturnProbeStep, MergeStep DEF CallerStep
<1>4. CASE Done
  BY <1>4, StutterStep DEF Done
<1> QED
  BY <1>1, <1>2, <1>3, <1>4 DEF Next

-----------------------------------------------------------------------------
(* What the invariant says *)

\* The buffers of a thread are as the type invariant says.
LEMMA FilledType ==
  ASSUME NEW bld, NEW prb, NEW maps, MapsFit(maps, bld, prb),
         NEW C \in Nat, DOMAIN maps = 1 .. C,
         NEW out, NEW D, Filled(bld, prb, maps, out, D)
  PROVE  out \in Seq(Seq(Values))
<1>1. PICK m : /\ IsListing(m, PairsOf(bld, prb, D))
               /\ out = [c \in DOMAIN maps |-> Image(maps[c], m)]
  BY DEF Filled
<1> DEFINE S == PairSet(bld, prb)
<1>2. m \in Seq(S)
  <2>1. m \in Seq(PairsOf(bld, prb, D)) /\ PairsOf(bld, prb, D) \subseteq S
    BY <1>1, PairsSubset DEF IsListing
  <2> HIDE DEF S
  <2> QED
    BY <2>1, SeqMonotonic
<1>3. \A c \in 1 .. C : out[c] \in Seq(Values)
  <2> TAKE c \in 1 .. C
  <2> DEFINE h == maps[c]
  <2>1. Maps(h, S, Values)
    BY DEF MapsFit, S
  <2> HIDE DEF h, S
  <2>2. Image(h, m) \in Seq(Values)
    BY <1>2, <2>1, ImageType
  <2> QED
    BY <1>1, <2>2 DEF h
<1>4. Maps(out, 1 .. C, Seq(Values))
  <2>1. out = [c \in 1 .. C |-> out[c]]
    BY <1>1
  <2> QED
    BY <1>3, <2>1 DEF Maps
<1> QED
  BY <1>4, SequenceOf

\* The invariant implies the type invariant, ...
LEMMA InvType == ASSUME Inv PROVE TypeOK
<1>1. Pool!TypeOK
  <2>1. calls \in 0 .. MaxDispatches /\ todo \subseteq Threads /\ running \subseteq Threads
        /\ caller \in {"idle", "blocked"}
    BY DEF Inv, PoolInv
  <2> QED
    BY <2>1 DEF Pool!TypeOK, Pool!Workers, Threads
<1>2. /\ phase \in {"plan", "build", "probe", "merge", "done"}
      /\ query \in Queries /\ StackFits(query, stack)
      /\ (phase = "done") <=> (stack = <<>>)
  BY DEF Inv, TreeInv
<1>3. ASSUME NEW d \in DOMAIN stack
      PROVE  /\ stack[d].node \in DOMAIN query.nodes
             /\ Len(stack[d].args) <= 2
             /\ \A i \in DOMAIN stack[d].args : IsResult(stack[d].args[i])
  <2>1. FrameFits(query, stack[d]) /\ stack[d].args \in Seq(Results)
    <3>1. stack \in Seq(Frames)
      BY <1>2 DEF StackFits
    <3>2. d \in 1 .. Len(stack) /\ stack[d] \in Frames
      <4> HIDE DEF Frames
      <4> QED
        BY <3>1, LenProperties
    <3>3. stack[d].args \in Seq(Results)
      BY <3>2 DEF Frames
    <3> QED
      BY <1>2, <3>2, <3>3 DEF StackFits
  <2> DEFINE args == stack[d].args
  <2>2. args \in Seq(Results)
    BY <2>1
  <2> HIDE DEF args
  <2>3. DOMAIN args = 1 .. Len(args)
    BY <2>2, LenProperties
  <2>4. \A i \in 1 .. Len(args) : Answered(query, ChildOf(query, stack[d].node, i), args[i])
    BY <2>1 DEF FrameFits, args
  <2>5. \A i \in DOMAIN args : IsResult(args[i])
    BY <2>3, <2>4, AnsweredIsResult
  <2> QED
    BY <2>1, <2>5 DEF FrameFits, args
<1>4. IsResult(result)
  <2>1. CASE phase = "done"
    BY <2>1, AnsweredIsResult DEF Inv, TreeInv
  <2>2. CASE phase # "done"
    <3>1. result = <<>>
      BY <2>2 DEF Inv, TreeInv
    <3> QED
      BY <3>1 DEF IsResult
  <2> QED
    BY <2>1, <2>2
<1>5. chain \in [Keys -> Seq(Nat)]
  <2>1. CASE phase \in {"build", "probe", "merge"}
    BY <2>1 DEF Inv, JoinInv
  <2>2. CASE phase \notin {"build", "probe", "merge"}
    <3>1. chain = NoChain
      BY <2>2 DEF Inv, JoinInv
    <3>2. <<>> \in Seq(Nat)
      BY EmptySeq
    <3> QED
      BY <3>1, <3>2 DEF NoChain
  <2> QED
    BY <2>1, <2>2
<1>6. ASSUME NEW t \in Threads
      PROVE  threadResults[t] \in Seq(Seq(Values))
  <2>1. CASE Working
    <3>1. JoinReady
      BY <2>1, PhaseOfJoin DEF Working
    <3>2. PICK C \in Nat : Outputs = 1 .. C
      BY <3>1, MapsOfJoin
    <3>3. MapsFit(OutputMaps, build, probe) /\ DOMAIN OutputMaps = 1 .. C
      BY <3>1, <3>2, MapsOfJoin
    <3>4. Gathered(build, probe, OutputMaps, threadResults, Probed(NumUnits, workCounter, unit))
      BY <2>1 DEF Inv, WorkInv
    <3>5. PICK D : Filled(build, probe, OutputMaps, threadResults[t], D)
      BY <3>4 DEF Gathered
    <3> QED
      BY <3>3, <3>5, FilledType
  <2>2. CASE ~Working
    <3>1. threadResults[t] = <<>>
      BY <2>2 DEF Inv, WorkInv, NoResults
    <3> QED
      BY <3>1, EmptySeq
  <2> QED
    BY <2>1, <2>2
<1>7. ASSUME phase \in {"build", "probe", "merge"}
      PROVE  /\ Joining
             /\ workCounter \in 0 .. NumUnits + NumThreads
             /\ unit \in [Threads -> NoUnit .. NumUnits + NumThreads - 1]
  <2>1. Joining /\ JoinReady
    BY <1>7, PhaseOfJoin
  <2>2. NumUnits \in Nat /\ NumThreads \in Nat \ {0}
    BY <2>1, JoinSides, SizesFacts
  <2>3. CASE Working
    <3>1. UnitsHeld(NumUnits, workCounter, unit, todo, running)
      BY <2>3 DEF Inv, WorkInv
    <3> QED
      BY <2>1, <2>2, <3>1, CounterBound
  <2>4. CASE ~Working
    <3>1. workCounter = 0 /\ unit = NoUnits
      BY <2>4 DEF Inv, WorkInv
    <3> QED
      BY <2>1, <2>2, <3>1 DEF NoUnits, NoUnit
  <2> QED
    BY <2>3, <2>4
<1> QED
  BY <1>1, <1>2, <1>3, <1>4, <1>5, <1>6, <1>7 DEF TypeOK

\* ... that every call answers its node, ...
LEMMA InvExact == ASSUME Inv PROVE QueryExact
<1>1. query \in Queries /\ StackFits(query, stack)
  BY DEF Inv, TreeInv
<1>2. ASSUME NEW d \in DOMAIN stack, NEW i \in DOMAIN stack[d].args
      PROVE  Answers(stack[d].args[i], Child(stack[d].node, i))
  <2> DEFINE fr == stack[d]
             args == fr.args
             n == fr.node
  <2>1. d \in 1 .. Len(stack) /\ fr \in Frames
    <3>1. stack \in Seq(Frames)
      BY <1>1 DEF StackFits
    <3> HIDE DEF Frames
    <3> QED
      BY <3>1, LenProperties
  <2>2. FrameFits(query, fr) /\ args \in Seq(Results)
    BY <1>1, <2>1 DEF StackFits, Frames
  <2>3. i \in 1 .. Len(args)
    <3> HIDE DEF args
    <3> QED
      BY <1>2, <2>2, LenProperties DEF args
  <2>4. Answered(query, ChildOf(query, n, i), args[i]) /\ n \in DOMAIN query.nodes
        /\ (IsScan(query.nodes[n]) => args = <<>>)
    BY <2>2, <2>3 DEF FrameFits
  <2>5. ~IsScan(query.nodes[n])
    <3>1. args # <<>>
      BY <2>3, EmptySeq
    <3> QED
      BY <2>4, <3>1
  <2> DEFINE k == ChildOf(query, n, i)
  <2>6. k \in DOMAIN query.nodes
    BY <1>1, <2>4, <2>5, ChildIsNode
  <2>7. Child(n, i) = k
    BY DEF Child, ChildOf
  <2> HIDE DEF k, n, args
  <2>8. Answers(args[i], k)
    <3>1. Answered(query, k, args[i])
      BY <2>4 DEF k
    <3> QED
      BY <1>1, <2>6, <3>1, AnsweredAnswers
  <2> QED
    BY <2>7, <2>8 DEF args, n
<1>3. ASSUME phase = "done"
      PROVE  Answers(result, Len(query.nodes))
  <2> DEFINE n == Len(query.nodes)
  <2>1. Answered(query, n, result)
    BY <1>3 DEF Inv, TreeInv
  <2>2. n \in DOMAIN query.nodes
    BY <1>1, RootIsNode
  <2> HIDE DEF n
  <2>3. Answers(result, n)
    BY <1>1, <2>1, <2>2, AnsweredAnswers
  <2> QED
    BY <2>3 DEF n
<1> QED
  BY <1>2, <1>3 DEF QueryExact

\* ... and that no unit is taken twice or dropped.
LEMMA InvTakenOnce == ASSUME Inv PROVE UnitsTakenOnce
<1>1. \A t, u \in Threads : t # u /\ unit[t] # NoUnit => unit[t] # unit[u]
  <2>1. CASE Working
    BY <2>1 DEF Inv, WorkInv, UnitsHeld
  <2>2. CASE ~Working
    BY <2>2 DEF Inv, WorkInv, NoUnits
  <2> QED
    BY <2>1, <2>2
<1> DEFINE taken == 0 .. Min({workCounter, NumUnits}) - 1
           inHand == {unit[t] : t \in Threads}
           U == Probed(NumUnits, workCounter, unit)
<1>2. ASSUME phase = "probe", NEW c \in Outputs
      PROVE  SumFunction([u \in taken \ inHand |-> Len(Matches(u))])
               = SumFunction([t \in Threads |-> Len(threadResults[t][c])])
  <2>1. JoinReady /\ IsTableOf(chain, build) /\ Working
    BY <1>2, PhaseOfJoin DEF Working
  <2>2. NumUnits \in Nat /\ DOMAIN OutputMaps = Outputs
    BY <2>1, JoinSides, MapsOfJoin
  <2>3. workCounter \in Nat /\ Gathered(build, probe, OutputMaps, threadResults, U)
    BY <2>1 DEF Inv, WorkInv, UnitsHeld
  <2>4. taken \ inHand = U
    <3>1. Min({workCounter, NumUnits}) = IF workCounter <= NumUnits THEN workCounter ELSE NumUnits
      BY <2>2, <2>3, TwoMin
    <3>2. \A u : u \in taken <=> u \in 0 .. NumUnits - 1 /\ u < workCounter
      BY <2>2, <2>3, <3>1
    <3> HIDE DEF taken
    <3> QED
      BY <3>2 DEF Probed
  <2>5. U \in SUBSET AllUnits
    BY DEF Probed, AllUnits
  <2> HIDE DEF U, taken, inHand
  <2> DEFINE f == [u \in U |-> Len(Matches(u))]
             g == [t \in Threads |-> Len(threadResults[t][c])]
  <2>6. SumFunction(f) = Cardinality(PairsOf(build, probe, U))
    <3>1. f = [u \in U |-> Len(Matches(u))]
      OBVIOUS
    <3> HIDE DEF f
    <3> QED
      BY <2>1, <2>5, <3>1, MatchesSize
  <2>7. SumFunction(g) = Cardinality(PairsOf(build, probe, U))
    <3>1. g = [t \in Threads |-> Len(threadResults[t][c])]
      OBVIOUS
    <3> HIDE DEF g
    <3> QED
      BY <1>2, <2>2, <2>3, <3>1, GatheredSize
  <2> QED
    BY <2>4, <2>6, <2>7
<1> QED
  BY <1>1, <1>2 DEF UnitsTakenOnce

-----------------------------------------------------------------------------
(* Theorems *)

\* Inv holds from the call for the root to the last return.
THEOREM Invariant == Spec => []Inv
BY InitInv, StepInv, PTL DEF Spec

\* Every result has as many values as it says, the stack is empty exactly when
\* the plan is done, and work_counter runs past the last unit by at most one
\* per thread.
THEOREM TypeCorrect == Spec => []TypeOK
BY Invariant, InvType, PTL

\* Whatever the plan, the tables, the sizes of buffers and pages, the order of
\* equal keys in the hash table and the order in which the threads take units:
\* what execute_impl returns for a node, at the root as on the way, are the rows
\* the node asks for, each as often as it asks for it.
THEOREM QueriesExact == Spec => []QueryExact
BY Invariant, InvExact, PTL

\* No two threads have the same unit, and all matches of the units that have
\* been taken and are not in hand are in the threads' buffers, once.
THEOREM UnitsOnce == Spec => []UnitsTakenOnce
BY Invariant, InvTakenOnce, PTL
=============================================================================
