----------------------- MODULE Materialization_proofs -----------------------
(***************************************************************************)
(* Columns on pages and the way of a column through a query, for every     *)
(* size of pages, values and strings, every column, any choice of rows by  *)
(* the joins, and any number of workers.                                   *)
(*                                                                         *)
(* Integers, provided insert sets aside at least the width of the value it *)
(* stores: the values and the bitmap of a page never meet, the decoders    *)
(* read back the column that was encoded, and a direct scan of a column    *)
(* without NULLs finds each value at the page and place that a division by *)
(* the rows of the first page gives.  What the pages read and the current  *)
(* page hold together is what has been inserted (Content); and pages       *)
(* without NULLs are all full, so have the same number of rows, but for    *)
(* the last (AllFilled, FilledButLast).                                    *)
(*                                                                         *)
(* Strings: a page has a string for each bit that is set, below its bitmap *)
(* (GoodPage), a long one has its pages one behind the other (ReadLong),   *)
(* and the pages of an encoder hold its rows (Holds): they are read back,  *)
(* and each handle is placed where its row is (Placed), apart from others. *)
(*                                                                         *)
(* The query: the values of the result column are those of the rows that   *)
(* were picked (ColumnInv), the pages of a worker that is done are read as *)
(* its part of them (SharesInv), and the parts together are the whole.     *)
(***************************************************************************)
EXTENDS Materialization, Counting

-----------------------------------------------------------------------------
(* Integers on pages                                                       *)

\* The encoder sets aside at least sizeof(T): to_columnar for every type,
\* ColumnInserter for int32_t only.
WideEnough == Reserve >= Width

\* An inserter of pages, whatever they hold.
Inserter ==
  [pages : Seq([bits : Seq(BOOLEAN), values : Seq(Nat)]),
   bits : Seq(BOOLEAN), values : Seq(Nat)]

\* Sequences, and pages that fit: what each step preserves.
FitInv ==
  /\ inserter \in Inserter
  /\ input \in Seq(Nat)
  /\ PagesFit

\* Rounding up to whole bytes: one row more than n fills n \div b + 1 bytes.
LEMMA BytesOfOneMore ==
  ASSUME NEW n \in Nat, NEW b \in Nat \ {0}
  PROVE  (n + 1 + b - 1) \div b = (n \div b) + 1
<1> DEFINE q == n \div b
           r == n % b
<1>1. /\ q \in Nat /\ r \in 0 .. b - 1
      /\ n = b * q + r
  OBVIOUS
<1>2. n + b = b * (q + 1) + r
  BY <1>1
<1>3. (b * (q + 1) + r) \div b = q + 1
  BY <1>1
<1> QED BY <1>2, <1>3

\* The terms of the encoders' conditions are natural numbers.
LEMMA DivisionAndProduct ==
  ASSUME NEW n \in Nat, NEW b \in Nat \ {0}, NEW w \in Nat
  PROVE  n \div b \in Nat /\ w * n \in Nat
OBVIOUS

\* The bitmap of so many rows, in bytes.
BytesOf(n) == (n + BitsPerByte - 1) \div BitsPerByte

\* What the assumption on the sizes leaves room for on an empty page.
LEMMA PageFacts ==
  /\ PageSize \in Nat \ {0}
  /\ BitsPerByte \in Nat \ {0}
  /\ Width \in Nat \ {0}
  /\ DataBegin \in Nat \ {0}
  /\ Reserve \in Nat \ {0}
  /\ MaxRows \in Nat
  /\ PageSize > DataBegin + Width + Reserve
BY PageAssumption

\* A page that insert or insert_null has just begun: one row, and one value
\* or none.
LEMMA FreshPageFits ==
  ASSUME WideEnough
  PROVE  /\ DataBegin + Width * 1 + BytesOf(1) <= PageSize
         /\ DataBegin + Width * 0 + BytesOf(1) <= PageSize
<1> USE PageFacts
<1>1. BytesOf(1) = (0 \div BitsPerByte) + 1
  BY BytesOfOneMore DEF BytesOf
<1>2. 0 \div BitsPerByte = 0
  OBVIOUS
<1>3. Width * 1 = Width /\ Width * 0 = 0
  OBVIOUS
<1>4. DataBegin + Width + 1 <= PageSize
  OBVIOUS
<1> QED
  BY <1>1, <1>2, <1>3, <1>4

\* An inserter whose current page is empty fits if its saved pages do.
LEMMA EmptyPageFits ==
  ASSUME NEW ins \in Inserter, ins.bits = <<>>, ins.values = <<>>
  PROVE  Fits(CurrentPage(ins))
<1> USE PageFacts
<1>1. NumNonNull(CurrentPage(ins)) = 0 /\ NumRows(CurrentPage(ins)) = 0
  BY DEF CurrentPage, NumNonNull, NumRows
<1>2. BitmapSize(CurrentPage(ins)) = 0
  <2>1. BitmapSize(CurrentPage(ins)) = (0 + BitsPerByte - 1) \div BitsPerByte
    BY <1>1 DEF BitmapSize
  <2> QED
    BY <2>1
<1>3. Width * 0 = 0
  OBVIOUS
<1> QED
  BY <1>1, <1>2, <1>3 DEF Fits

\* A new inserter has saved nothing and its page is empty.
LEMMA NewInserterFits == NewInserter \in Inserter /\ InserterFits(NewInserter)
<1>1. NewInserter \in Inserter
  BY DEF NewInserter, Inserter
<1>2. \A p \in DOMAIN NewInserter.pages : Fits(NewInserter.pages[p])
  BY DEF NewInserter
<1>3. Fits(CurrentPage(NewInserter))
  BY <1>1, EmptyPageFits DEF NewInserter
<1> QED
  BY <1>1, <1>2, <1>3 DEF InserterFits

\* save_page keeps the pages in order: the current one fits already.
LEMMA SavePageFits ==
  ASSUME NEW ins \in Inserter, InserterFits(ins)
  PROVE  /\ SavePage(ins) \in Inserter
         /\ SavePage(ins).bits = <<>> /\ SavePage(ins).values = <<>>
         /\ InserterFits(SavePage(ins))
<1> DEFINE saved == SavePage(ins)
<1>1. CurrentPage(ins) \in [bits : Seq(BOOLEAN), values : Seq(Nat)]
  BY DEF Inserter, CurrentPage
<1>2. ins.pages \in Seq([bits : Seq(BOOLEAN), values : Seq(Nat)])
  BY DEF Inserter
<1>3. /\ saved.pages \in Seq([bits : Seq(BOOLEAN), values : Seq(Nat)])
      /\ Len(saved.pages) = Len(ins.pages) + 1
      /\ \A p \in 1 .. Len(ins.pages) : saved.pages[p] = ins.pages[p]
      /\ saved.pages[Len(ins.pages) + 1] = CurrentPage(ins)
  BY <1>1, <1>2, AppendProperties DEF SavePage
<1>4. saved \in Inserter /\ saved.bits = <<>> /\ saved.values = <<>>
  BY <1>3 DEF SavePage, Inserter
<1>5. ASSUME NEW p \in DOMAIN saved.pages PROVE Fits(saved.pages[p])
  <2>1. p \in 1 .. Len(ins.pages) + 1 /\ Len(ins.pages) \in Nat
    BY <1>2, <1>3, LenProperties
  <2>2. CASE p \in 1 .. Len(ins.pages)
    BY <2>2, <1>2, <1>3 DEF InserterFits
  <2>3. CASE p = Len(ins.pages) + 1
    BY <2>3, <1>3 DEF InserterFits
  <2> QED
    BY <2>1, <2>2, <2>3
<1>6. Fits(CurrentPage(saved))
  BY <1>4, EmptyPageFits
<1> QED
  BY <1>4, <1>5, <1>6 DEF InserterFits

\* A page with one row more fits if its values and its bitmap have the room.
LEMMA GrownFits ==
  ASSUME NEW ins \in Inserter, InserterFits(ins),
         NEW bit \in BOOLEAN, NEW vals \in Seq(Nat),
         DataBegin + Width * Len(vals) + BytesOf(Len(ins.bits) + 1) <= PageSize
  PROVE  LET grown == [pages |-> ins.pages, bits |-> Append(ins.bits, bit), values |-> vals]
         IN  grown \in Inserter /\ InserterFits(grown)
<1> DEFINE grown == [pages |-> ins.pages, bits |-> Append(ins.bits, bit), values |-> vals]
<1>1. ins.bits \in Seq(BOOLEAN) /\ Len(Append(ins.bits, bit)) = Len(ins.bits) + 1
      /\ Append(ins.bits, bit) \in Seq(BOOLEAN)
  BY AppendProperties DEF Inserter
<1>2. grown \in Inserter
  BY <1>1 DEF Inserter
<1>3. Fits(CurrentPage(grown))
  BY <1>1 DEF Fits, BitmapSize, BytesOf, CurrentPage, NumRows, NumNonNull
<1> QED
  BY <1>2, <1>3 DEF InserterFits

\* What is left after insert has set its bytes aside is enough for the value.
LEMMA RoomForOneMore ==
  ASSUME WideEnough, NEW size \in Nat, NEW bytes \in Nat,
         ~(DataBegin + size + Reserve + bytes + 1 > PageSize)
  PROVE  DataBegin + (size + Width) + (bytes + 1) <= PageSize
BY PageFacts DEF WideEnough

\* So is what insert_null leaves, for the bit of a NULL.
LEMMA RoomForOneBit ==
  ASSUME NEW size \in Nat, NEW bytes \in Nat,
         ~(DataBegin + size + bytes + 1 > PageSize)
  PROVE  DataBegin + size + (bytes + 1) <= PageSize
BY PageFacts

\* insert: the condition under which it saves first bounds the page it leaves.
LEMMA WithValueFits ==
  ASSUME WideEnough, NEW ins \in Inserter, InserterFits(ins), NEW value \in Nat
  PROVE  WithValue(ins, value) \in Inserter /\ InserterFits(WithValue(ins, value))
<1> USE PageFacts
<1>1. CASE FullForValue(ins)
  <2> DEFINE room == SavePage(ins)
  <2>1. room \in Inserter /\ room.bits = <<>> /\ room.values = <<>> /\ InserterFits(room)
    BY SavePageFits
  <2>2. Append(room.values, value) \in Seq(Nat) /\ Len(Append(room.values, value)) = 1
        /\ Len(room.bits) + 1 = 1
    BY <2>1, AppendProperties
  <2>3. DataBegin + Width * Len(Append(room.values, value)) + BytesOf(Len(room.bits) + 1) <= PageSize
    BY <2>2, FreshPageFits
  <2>4. WithValue(ins, value)
          = [pages |-> room.pages, bits |-> Append(room.bits, TRUE),
             values |-> Append(room.values, value)]
    BY <1>1 DEF WithValue
  <2> HIDE DEF room
  <2> QED
    BY <2>1, <2>2, <2>3, <2>4, GrownFits
<1>2. CASE ~FullForValue(ins)
  <2>1. /\ ins.bits \in Seq(BOOLEAN) /\ ins.values \in Seq(Nat)
        /\ Len(ins.bits) \in Nat /\ Len(ins.values) \in Nat
    BY LenProperties DEF Inserter
  <2>2. Append(ins.values, value) \in Seq(Nat)
        /\ Len(Append(ins.values, value)) = Len(ins.values) + 1
    BY <2>1, AppendProperties
  <2>3. DataBegin + Width * (Len(ins.values) + 1) + BytesOf(Len(ins.bits) + 1) <= PageSize
    <3>1. BytesOf(Len(ins.bits) + 1) = (Len(ins.bits) \div BitsPerByte) + 1
      BY <2>1, BytesOfOneMore DEF BytesOf
    <3>2. Width * (Len(ins.values) + 1) = Width * Len(ins.values) + Width
      BY <2>1
    <3>3. /\ Width * Len(ins.values) \in Nat
          /\ Len(ins.bits) \div BitsPerByte \in Nat
      BY <2>1, DivisionAndProduct
    <3>4. DataBegin + (Width * Len(ins.values) + Width)
            + ((Len(ins.bits) \div BitsPerByte) + 1) <= PageSize
      BY <1>2, <3>3, RoomForOneMore DEF FullForValue, DataEnd
    <3> QED
      BY <3>1, <3>2, <3>4
  <2>4. WithValue(ins, value)
          = [pages |-> ins.pages, bits |-> Append(ins.bits, TRUE),
             values |-> Append(ins.values, value)]
    BY <1>2 DEF WithValue
  <2> QED
    BY <2>2, <2>3, <2>4, GrownFits
<1> QED
  BY <1>1, <1>2

\* insert_null: no value, one row more, and the same argument.
LEMMA WithNullFits ==
  ASSUME WideEnough, NEW ins \in Inserter, InserterFits(ins)
  PROVE  WithNull(ins) \in Inserter /\ InserterFits(WithNull(ins))
<1> USE PageFacts
<1>1. CASE FullForNull(ins)
  <2> DEFINE room == SavePage(ins)
  <2>1. room \in Inserter /\ room.bits = <<>> /\ room.values = <<>> /\ InserterFits(room)
    BY SavePageFits
  <2>2. room.values \in Seq(Nat) /\ Len(room.values) = 0 /\ Len(room.bits) + 1 = 1
    BY <2>1
  <2>3. DataBegin + Width * Len(room.values) + BytesOf(Len(room.bits) + 1) <= PageSize
    BY <2>2, FreshPageFits
  <2>4. WithNull(ins)
          = [pages |-> room.pages, bits |-> Append(room.bits, FALSE), values |-> room.values]
    BY <1>1 DEF WithNull
  <2> HIDE DEF room
  <2> QED
    BY <2>1, <2>2, <2>3, <2>4, GrownFits
<1>2. CASE ~FullForNull(ins)
  <2>1. /\ ins.bits \in Seq(BOOLEAN) /\ ins.values \in Seq(Nat)
        /\ Len(ins.bits) \in Nat /\ Len(ins.values) \in Nat
    BY LenProperties DEF Inserter
  <2>2. DataBegin + Width * Len(ins.values) + BytesOf(Len(ins.bits) + 1) <= PageSize
    <3>1. BytesOf(Len(ins.bits) + 1) = (Len(ins.bits) \div BitsPerByte) + 1
      BY <2>1, BytesOfOneMore DEF BytesOf
    <3>2. /\ Width * Len(ins.values) \in Nat
          /\ Len(ins.bits) \div BitsPerByte \in Nat
      BY <2>1, DivisionAndProduct
    <3>3. DataBegin + Width * Len(ins.values) + ((Len(ins.bits) \div BitsPerByte) + 1) <= PageSize
      BY <1>2, <3>2, RoomForOneBit DEF FullForNull, DataEnd
    <3> QED
      BY <3>1, <3>3
  <2>3. WithNull(ins)
          = [pages |-> ins.pages, bits |-> Append(ins.bits, FALSE), values |-> ins.values]
    BY <1>2 DEF WithNull
  <2> QED
    BY <2>1, <2>2, <2>3, GrownFits
<1> QED
  BY <1>1, <1>2

\* finalize saves the page that fits and leaves an empty one.
LEMMA FinishedFits ==
  ASSUME NEW ins \in Inserter, InserterFits(ins)
  PROVE  Finished(ins) \in Inserter /\ InserterFits(Finished(ins))
BY SavePageFits DEF Finished

\* Every page that is saved, and the page being filled, has room for its
\* values and its bitmap, if insert reserves the width of a value.
THEOREM NumericPagesFit ==
  ASSUME WideEnough
  PROVE  Spec => []PagesFit
<1>1. Init => FitInv
  BY NewInserterFits DEF Init, FitInv, PagesFit
<1>2. FitInv /\ [Next]_vars => FitInv'
  <2> SUFFICES ASSUME FitInv, [Next]_vars PROVE FitInv'
    OBVIOUS
  <2>1. inserter \in Inserter /\ InserterFits(inserter) /\ input \in Seq(Nat)
        /\ Len(input) \in Nat
    BY LenProperties DEF FitInv, PagesFit
  <2>2. CASE Insert
    <3>1. inserter' = WithValue(inserter, Len(input) + 1)
          /\ input' = Append(input, Len(input) + 1)
      BY <2>2 DEF Insert
    <3>2. inserter' \in Inserter /\ InserterFits(inserter')
      BY <3>1, <2>1, WithValueFits
    <3> QED
      BY <3>1, <3>2, <2>1 DEF FitInv, PagesFit
  <2>3. CASE InsertNull
    <3>1. inserter' = WithNull(inserter) /\ input' = Append(input, 0)
      BY <2>3, NullAssumption DEF InsertNull
    <3>2. inserter' \in Inserter /\ InserterFits(inserter')
      BY <3>1, <2>1, WithNullFits
    <3> QED
      BY <3>1, <3>2, <2>1 DEF FitInv, PagesFit
  <2>4. CASE Finalize
    <3>1. inserter' = Finished(inserter) /\ input' = input
      BY <2>4 DEF Finalize
    <3>2. inserter' \in Inserter /\ InserterFits(inserter')
      BY <3>1, <2>1, FinishedFits
    <3> QED
      BY <3>1, <3>2, <2>1 DEF FitInv, PagesFit
  <2>5. CASE UNCHANGED vars
    BY <2>5, <2>1 DEF vars, FitInv, PagesFit
  <2> QED
    BY <2>2, <2>3, <2>4, <2>5 DEF Next, Done
<1>3. FitInv => PagesFit
  BY DEF FitInv
<1> QED
  BY <1>1, <1>2, <1>3, PTL DEF Spec

-----------------------------------------------------------------------------
(* What the decoders read                                                  *)

PageType == [bits : Seq(BOOLEAN), values : Seq(Nat)]

\* The rows, of the first i, that have a value.
Set(bits, i) == {j \in 1 .. i : bits[j]}

\* A page has a value for each bit that is set.
WellCounted(page) == Len(page.values) = Cardinality(Set(page.bits, Len(page.bits)))

\* There are no more bits set than bits.
LEMMA SetSize ==
  ASSUME NEW bits \in Seq(BOOLEAN), NEW i \in 0 .. Len(bits)
  PROVE  /\ IsFiniteSet(Set(bits, i))
         /\ Cardinality(Set(bits, i)) \in Nat
         /\ Cardinality(Set(bits, i)) <= i
         /\ Cardinality(Set(bits, i)) <= Cardinality(Set(bits, Len(bits)))
         /\ i # 0 /\ bits[i] => Cardinality(Set(bits, i)) # 0
         /\ Cardinality(Set(bits, i)) = i => \A j \in 1 .. i : bits[j]
<1> DEFINE n == Len(bits)
           A == Set(bits, i)
           B == Set(bits, n)
<1>1. n \in Nat /\ i \in Nat /\ i <= n
  BY LenProperties
<1> HIDE DEF n
<1>2. IsFiniteSet(1 .. n) /\ IsFiniteSet(1 .. i) /\ Cardinality(1 .. i) = i
  BY <1>1, FS_Interval
<1>3. B \in SUBSET (1 .. n) /\ A \in SUBSET (1 .. i) /\ A \in SUBSET B
  BY <1>1 DEF Set
<1>4. IsFiniteSet(A) /\ IsFiniteSet(B)
  BY <1>2, <1>3, FS_Subset
<1>5. Cardinality(A) \in Nat
  BY <1>4, FS_CardinalityType
<1>6. Cardinality(A) <= i /\ (i = Cardinality(A) => 1 .. i = A) /\ Cardinality(A) <= Cardinality(B)
  BY <1>2, <1>3, <1>4, FS_Subset
<1>7. ASSUME i # 0, bits[i] PROVE Cardinality(A) # 0
  <2>1. i \in A
    BY <1>1, <1>7 DEF Set
  <2> HIDE DEF A
  <2> QED
    BY <1>4, <2>1, FS_EmptySet
<1>8. 1 .. i = A => \A j \in 1 .. i : bits[j]
  BY DEF Set
<1> QED
  BY <1>4, <1>5, <1>6, <1>7, <1>8 DEF n

\* One bit more.
LEMMA SetGrown ==
  ASSUME NEW bits \in Seq(BOOLEAN), NEW bit \in BOOLEAN
  PROVE  LET more == Append(bits, bit)
         IN  /\ \A i \in 0 .. Len(bits) : Set(more, i) = Set(bits, i)
             /\ Cardinality(Set(more, Len(bits) + 1))
                  = Cardinality(Set(bits, Len(bits))) + (IF bit THEN 1 ELSE 0)
<1> DEFINE more == Append(bits, bit)
           n == Len(bits)
<1>1. /\ n \in Nat
      /\ \A i \in 1 .. n : more[i] = bits[i]
      /\ more[n + 1] = bit
  BY LenProperties, AppendProperties
<1> HIDE DEF more
<1>2. ASSUME NEW i \in 0 .. n
      PROVE  Set(more, i) = Set(bits, i)
  <2>1. \A j \in 1 .. i : j \in 1 .. n
    BY <1>1
  <2> QED
    BY <1>1, <2>1 DEF Set
<1>3. n \in 0 .. n
  BY <1>1
<1>4. IsFiniteSet(Set(bits, n)) /\ Cardinality(Set(bits, n)) \in Nat
  BY <1>3, SetSize
<1>5. n + 1 \notin Set(bits, n)
  BY <1>1 DEF Set
<1>6. \A j : j \in 1 .. n + 1 <=> j \in 1 .. n \/ j = n + 1
  BY <1>1
<1>7. Set(more, n + 1) = IF bit THEN Set(bits, n) \cup {n + 1} ELSE Set(bits, n)
  <2>1. \A j : j \in Set(more, n + 1) <=> j \in Set(bits, n) \/ (j = n + 1 /\ bit)
    BY <1>1, <1>6 DEF Set
  <2> QED
    BY <2>1
<1>8. Cardinality(Set(bits, n) \cup {n + 1}) = Cardinality(Set(bits, n)) + 1
  BY <1>4, <1>5, FS_AddElement
<1>9. Cardinality(Set(more, n + 1)) = Cardinality(Set(bits, n)) + (IF bit THEN 1 ELSE 0)
  BY <1>4, <1>7, <1>8
<1> QED
  BY <1>2, <1>9 DEF more, n

\* A page that fits is read as it was written: no value lies under the bitmap.
LEMMA ReadPlainly ==
  ASSUME NEW page \in PageType, Fits(page), NEW k \in 0 .. Len(page.values)
  PROVE  ReadValue(page, k) = page.values[k]
<1> DEFINE n == Len(page.values)
           b == BitmapSize(page)
<1>1. n \in Nat /\ k \in Nat /\ k <= n
  BY LenProperties DEF PageType
<1>2. b \in Nat
  <2>1. Len(page.bits) \in Nat
    BY LenProperties DEF PageType
  <2> DEFINE r == Len(page.bits)
             x == r + BitsPerByte - 1
  <2>2. x \in Nat /\ b = x \div BitsPerByte
    BY <2>1, PageFacts DEF BitmapSize, NumRows
  <2> HIDE DEF x, b
  <2> QED
    BY <2>2, PageFacts, Division
<1>3. DataBegin + Width * n + b <= PageSize
  BY DEF Fits, NumNonNull
<1> HIDE DEF n, b
<1>4. k * Width <= n * Width /\ k * Width \in Nat /\ n * Width \in Nat
  BY <1>1, Monotone, PageFacts
<1>5. DataBegin + Width * k <= PageSize - b
  <2>1. Width * k = k * Width /\ Width * n = n * Width
    BY <1>1, PageFacts
  <2> DEFINE x == k * Width
             y == n * Width
  <2>2. x \in Nat /\ y \in Nat /\ x <= y /\ DataBegin + y + b <= PageSize
    BY <1>3, <1>4, <2>1
  <2> HIDE DEF x, y
  <2>3. DataBegin + x <= PageSize - b
    BY <1>2, <2>2, PageFacts
  <2> QED
    BY <2>1, <2>3 DEF x
<1> QED
  BY <1>5 DEF ReadValue, b

\* What is read of a row: a value of the page, or NULL.
LEMMA ReadRowPlainly ==
  ASSUME NEW page \in PageType, Fits(page), WellCounted(page), NEW i \in 1 .. Len(page.bits)
  PROVE  /\ Len(page.bits) \in Nat
         /\ page.bits[i] => /\ Cardinality(Set(page.bits, i)) \in 1 .. Len(page.values)
                            /\ ReadRow(page, i) = page.values[Cardinality(Set(page.bits, i))]
         /\ ~page.bits[i] => ReadRow(page, i) = Null
         /\ ReadRow(page, i) \in Nat
<1> DEFINE k == Cardinality(Set(page.bits, i))
<1>1. /\ page.bits \in Seq(BOOLEAN) /\ page.values \in Seq(Nat)
      /\ Len(page.bits) \in Nat /\ Len(page.values) \in Nat
  BY LenProperties DEF PageType
<1>2. i \in 0 .. Len(page.bits) /\ i # 0
  BY <1>1
<1>3. k \in Nat /\ k <= Len(page.values) /\ (page.bits[i] => k # 0)
  BY <1>1, <1>2, SetSize DEF WellCounted
<1> HIDE DEF k
<1>4. k \in 0 .. Len(page.values) /\ (page.bits[i] => k \in 1 .. Len(page.values))
  BY <1>1, <1>3
<1>5. ReadValue(page, k) = page.values[k]
  BY <1>4, ReadPlainly
<1>6. ReadRow(page, i) = IF page.bits[i] THEN ReadValue(page, k) ELSE Null
  BY DEF ReadRow, Set, k
<1>7. page.bits[i] => page.values[k] \in Nat
  BY <1>1, <1>4, ElementOfSeq
<1>8. Null \in Nat
  BY NullAssumption
<1> QED
  BY <1>1, <1>4, <1>5, <1>6, <1>7, <1>8 DEF k

\* A page is read as one value for each row.
LEMMA ReadPageType ==
  ASSUME NEW page \in PageType, Fits(page), WellCounted(page)
  PROVE  /\ ReadPage(page) \in Seq(Nat)
         /\ Len(ReadPage(page)) = Len(page.bits)
         /\ \A i \in 1 .. Len(page.bits) : ReadPage(page)[i] = ReadRow(page, i)
<1>1. Len(page.bits) \in Nat
  BY LenProperties DEF PageType
<1>2. \A i \in 1 .. Len(page.bits) : ReadRow(page, i) \in Nat
  BY ReadRowPlainly
<1>3. ReadPage(page) = [i \in 1 .. Len(page.bits) |-> ReadRow(page, i)]
  BY DEF ReadPage, NumRows
<1>4. Maps(ReadPage(page), 1 .. Len(page.bits), Nat)
  BY <1>2, <1>3 DEF Maps
<1> QED
  BY <1>1, <1>3, <1>4, SequenceOf

\* The page with one row more: a value, or a NULL.
Grown(page, bit, value) ==
  [bits |-> Append(page.bits, bit),
   values |-> IF bit THEN Append(page.values, value) ELSE page.values]

\* One row more is read at the end, and the others as before.
LEMMA ReadGrown ==
  ASSUME NEW page \in PageType, Fits(page), WellCounted(page),
         NEW bit \in BOOLEAN, NEW value \in Nat, Fits(Grown(page, bit, value))
  PROVE  /\ Grown(page, bit, value) \in PageType
         /\ WellCounted(Grown(page, bit, value))
         /\ ReadPage(Grown(page, bit, value))
              = Append(ReadPage(page), IF bit THEN value ELSE Null)
<1> DEFINE more == Grown(page, bit, value)
           n == Len(page.bits)
           m == Len(page.values)
           row == IF bit THEN value ELSE Null
<1>1. /\ page.bits \in Seq(BOOLEAN) /\ page.values \in Seq(Nat)
      /\ n \in Nat /\ m \in Nat
  BY LenProperties DEF PageType
<1>2. /\ more.bits = Append(page.bits, bit)
      /\ more.bits \in Seq(BOOLEAN)
      /\ Len(more.bits) = n + 1
      /\ \A i \in 1 .. n : more.bits[i] = page.bits[i]
      /\ more.bits[n + 1] = bit
  BY <1>1, AppendProperties DEF Grown
<1>3. /\ more.values = IF bit THEN Append(page.values, value) ELSE page.values
      /\ more.values \in Seq(Nat)
      /\ Len(more.values) = m + (IF bit THEN 1 ELSE 0)
      /\ \A i \in 1 .. m : more.values[i] = page.values[i]
      /\ bit => more.values[m + 1] = value
  <2> DEFINE v == page.values
             w == more.values
  <2>1. w = IF bit THEN Append(v, value) ELSE v
    BY DEF Grown
  <2>2. v \in Seq(Nat) /\ Len(v) = m /\ m \in Nat
    BY <1>1
  <2> HIDE DEF v, w, m
  <2>3. /\ w \in Seq(Nat)
        /\ Len(w) = m + (IF bit THEN 1 ELSE 0)
        /\ \A i \in 1 .. m : w[i] = v[i]
        /\ bit => w[m + 1] = value
    <3>1. CASE bit
      <4>1. w = Append(v, value)
        BY <2>1, <3>1
      <4>2. /\ w \in Seq(Nat) /\ Len(w) = m + 1
            /\ \A i \in 1 .. m : w[i] = v[i]
            /\ w[m + 1] = value
        BY <2>2, <4>1, AppendProperties
      <4> QED
        BY <3>1, <4>2
    <3>2. CASE ~bit
      <4>1. w = v
        BY <2>1, <3>2
      <4> QED
        BY <2>2, <3>2, <4>1
    <3> QED
      BY <3>1, <3>2
  <2> QED
    BY <2>1, <2>3 DEF v, w
<1>4. more \in PageType
  BY <1>2, <1>3 DEF Grown, PageType
<1>5. /\ \A i \in 0 .. n : Set(more.bits, i) = Set(page.bits, i)
      /\ Cardinality(Set(more.bits, n + 1)) = m + (IF bit THEN 1 ELSE 0)
  BY <1>1, <1>2, SetGrown DEF WellCounted
<1>6. WellCounted(more)
  BY <1>2, <1>3, <1>5 DEF WellCounted
<1>7. Fits(more)
  OBVIOUS
<1> HIDE DEF more, n, m
<1>8. \A i \in 1 .. n : ReadRow(more, i) = ReadRow(page, i)
  <2> SUFFICES ASSUME NEW i \in 1 .. n PROVE ReadRow(more, i) = ReadRow(page, i)
    OBVIOUS
  <2>1. i \in 0 .. n /\ i \in 1 .. n + 1
    BY <1>1
  <2>2. more.bits[i] = page.bits[i] /\ Set(more.bits, i) = Set(page.bits, i)
    BY <1>2, <1>5, <2>1
  <2>3. CASE page.bits[i]
    <3>1. /\ Cardinality(Set(page.bits, i)) \in 1 .. m
          /\ ReadRow(page, i) = page.values[Cardinality(Set(page.bits, i))]
      BY <2>3, ReadRowPlainly DEF n, m
    <3>2. ReadRow(more, i) = more.values[Cardinality(Set(more.bits, i))]
      BY <1>2, <1>4, <1>6, <1>7, <2>1, <2>2, <2>3, ReadRowPlainly
    <3> QED
      BY <1>3, <2>2, <3>1, <3>2
  <2>4. CASE ~page.bits[i]
    <3>1. ReadRow(page, i) = Null
      BY <2>4, ReadRowPlainly DEF n
    <3>2. ReadRow(more, i) = Null
      BY <1>2, <1>4, <1>6, <1>7, <2>1, <2>2, <2>4, ReadRowPlainly
    <3> QED
      BY <3>1, <3>2
  <2> QED
    BY <2>3, <2>4
<1>9. ReadRow(more, n + 1) = row
  <2>1. n + 1 \in 1 .. Len(more.bits)
    BY <1>1, <1>2
  <2>2. CASE bit
    <3>1. ReadRow(more, n + 1) = more.values[Cardinality(Set(more.bits, n + 1))]
      BY <1>2, <1>4, <1>6, <1>7, <2>1, <2>2, ReadRowPlainly
    <3> QED
      BY <1>3, <1>5, <2>2, <3>1
  <2>3. CASE ~bit
    BY <1>2, <1>4, <1>6, <1>7, <2>1, <2>3, ReadRowPlainly
  <2> QED
    BY <2>2, <2>3
<1>10. /\ ReadPage(page) \in Seq(Nat)
       /\ Len(ReadPage(page)) = n
       /\ \A i \in 1 .. n : ReadPage(page)[i] = ReadRow(page, i)
  BY ReadPageType DEF n
<1>11. /\ ReadPage(more) \in Seq(Nat)
       /\ Len(ReadPage(more)) = n + 1
       /\ \A i \in 1 .. n + 1 : ReadPage(more)[i] = ReadRow(more, i)
  BY <1>2, <1>4, <1>6, <1>7, ReadPageType
<1>12. row \in Nat
  BY NullAssumption
<1> HIDE DEF row
<1>13. /\ Append(ReadPage(page), row) \in Seq(Nat)
       /\ Len(Append(ReadPage(page), row)) = n + 1
       /\ \A i \in 1 .. n : Append(ReadPage(page), row)[i] = ReadPage(page)[i]
       /\ Append(ReadPage(page), row)[n + 1] = row
  BY <1>10, <1>12, AppendProperties
<1>14. \A i \in 1 .. n + 1 : ReadPage(more)[i] = Append(ReadPage(page), row)[i]
  <2> TAKE i \in 1 .. n + 1
  <2>1. i \in 1 .. n \/ i = n + 1
    BY <1>1
  <2>2. i \in 1 .. n => ReadPage(more)[i] = Append(ReadPage(page), row)[i]
    BY <1>8, <1>10, <1>11, <1>13
  <2>3. ReadPage(more)[n + 1] = Append(ReadPage(page), row)[n + 1]
    <3>1. n + 1 \in 1 .. n + 1
      BY <1>1
    <3> QED
      BY <1>9, <1>11, <1>13, <3>1
  <2> QED
    BY <2>1, <2>2, <2>3
<1>15. ReadPage(more) = Append(ReadPage(page), row)
  BY <1>11, <1>13, <1>14, SeqEqual
<1> QED
  BY <1>4, <1>6, <1>15 DEF more, row

-----------------------------------------------------------------------------
(* Nothing is lost between the encoder and the decoder                     *)

\* The pages saved and the current one hold what they count.
AllCounted(ins) ==
  /\ \A p \in DOMAIN ins.pages : WellCounted(ins.pages[p])
  /\ WellCounted(CurrentPage(ins))

\* What an inserter is between two calls.
Orderly(ins) == ins \in Inserter /\ InserterFits(ins) /\ AllCounted(ins)

\* The rows an inserter holds.
Content(ins) == ReadColumn(ins.pages) \o ReadPage(CurrentPage(ins))

PagesRead(pages) == [p \in DOMAIN pages |-> ReadPage(pages[p])]

\* The pages of an inserter are read as sequences of rows.
LEMMA PagesReadType ==
  ASSUME NEW pages \in Seq(PageType),
         \A p \in DOMAIN pages : Fits(pages[p]) /\ WellCounted(pages[p])
  PROVE  /\ Len(pages) \in Nat
         /\ DOMAIN pages = 1 .. Len(pages)
         /\ PagesRead(pages) \in Seq(Seq(Nat))
         /\ Len(PagesRead(pages)) = Len(pages)
         /\ \A p \in 1 .. Len(pages) : /\ PagesRead(pages)[p] = ReadPage(pages[p])
                                       /\ Len(PagesRead(pages)[p]) = Len(pages[p].bits)
<1>1. Len(pages) \in Nat /\ DOMAIN pages = 1 .. Len(pages)
  BY LenProperties
<1>2. \A p \in 1 .. Len(pages) :
        ReadPage(pages[p]) \in Seq(Nat) /\ Len(ReadPage(pages[p])) = Len(pages[p].bits)
  <2> TAKE p \in 1 .. Len(pages)
  <2>1. pages[p] \in PageType
    BY ElementOfSeq
  <2>2. Fits(pages[p]) /\ WellCounted(pages[p])
    BY <1>1
  <2> QED
    BY <2>1, <2>2, ReadPageType
<1>3. PagesRead(pages) = [p \in 1 .. Len(pages) |-> ReadPage(pages[p])]
  BY <1>1 DEF PagesRead
<1>4. Maps(PagesRead(pages), 1 .. Len(pages), Seq(Nat))
  BY <1>2, <1>3 DEF Maps
<1> QED
  BY <1>1, <1>2, <1>3, <1>4, SequenceOf

\* The parts of an orderly inserter.
LEMMA OrderlyParts ==
  ASSUME NEW ins, Orderly(ins)
  PROVE  /\ ins.pages \in Seq(PageType)
         /\ \A p \in DOMAIN ins.pages : Fits(ins.pages[p]) /\ WellCounted(ins.pages[p])
         /\ CurrentPage(ins) \in PageType
         /\ Fits(CurrentPage(ins)) /\ WellCounted(CurrentPage(ins))
         /\ ReadColumn(ins.pages) \in Seq(Nat)
         /\ ReadPage(CurrentPage(ins)) \in Seq(Nat)
<1>1. /\ ins.pages \in Seq(PageType)
      /\ CurrentPage(ins) \in PageType
  BY DEF Orderly, Inserter, PageType, CurrentPage
<1>2. \A p \in DOMAIN ins.pages : Fits(ins.pages[p]) /\ WellCounted(ins.pages[p])
  BY DEF Orderly, InserterFits, AllCounted
<1>3. Fits(CurrentPage(ins)) /\ WellCounted(CurrentPage(ins))
  BY DEF Orderly, InserterFits, AllCounted
<1>4. PagesRead(ins.pages) \in Seq(Seq(Nat))
  BY <1>1, <1>2, PagesReadType
<1>5. FlattenSeq(PagesRead(ins.pages)) \in Seq(Nat)
  BY <1>4, FlattenPlaces
<1>6. ReadColumn(ins.pages) = FlattenSeq(PagesRead(ins.pages))
  BY DEF ReadColumn, PagesRead
<1>7. ReadPage(CurrentPage(ins)) \in Seq(Nat)
  BY <1>1, <1>3, ReadPageType
<1> QED
  BY <1>1, <1>2, <1>3, <1>5, <1>6, <1>7

\* Nothing is set among no bits.
LEMMA EmptyCounted ==
  ASSUME NEW page, page.bits = <<>>, page.values = <<>>
  PROVE  WellCounted(page) /\ ReadPage(page) = <<>>
<1>1. Len(page.bits) = 0 /\ Len(page.values) = 0
  BY EmptySeq
<1>2. Set(page.bits, 0) = {}
  BY DEF Set
<1>3. Cardinality({}) = 0
  BY FS_EmptySet
<1>4. ReadPage(page) = [i \in 1 .. 0 |-> ReadRow(page, i)]
  BY <1>1 DEF ReadPage, NumRows
<1> QED
  BY <1>1, <1>2, <1>3, <1>4 DEF WellCounted

\* save_page moves the rows, and all stay.
LEMMA SavePageContent ==
  ASSUME NEW ins, Orderly(ins)
  PROVE  /\ Orderly(SavePage(ins))
         /\ Content(SavePage(ins)) = Content(ins)
         /\ ReadColumn(SavePage(ins).pages) = Content(ins)
<1> DEFINE saved == SavePage(ins)
           current == CurrentPage(ins)
           n == Len(ins.pages)
<1>1. /\ ins.pages \in Seq(PageType)
      /\ \A p \in DOMAIN ins.pages : Fits(ins.pages[p]) /\ WellCounted(ins.pages[p])
      /\ current \in PageType /\ Fits(current) /\ WellCounted(current)
      /\ ReadColumn(ins.pages) \in Seq(Nat) /\ ReadPage(current) \in Seq(Nat)
  BY OrderlyParts
<1>2. /\ saved \in Inserter /\ InserterFits(saved)
      /\ saved.bits = <<>> /\ saved.values = <<>>
  BY SavePageFits DEF Orderly
<1>3. saved.pages = Append(ins.pages, current)
  BY DEF SavePage
<1> HIDE DEF saved, current
<1>4. /\ n \in Nat /\ DOMAIN ins.pages = 1 .. n
      /\ saved.pages \in Seq(PageType)
      /\ Len(saved.pages) = n + 1
      /\ \A p \in 1 .. n : saved.pages[p] = ins.pages[p]
      /\ saved.pages[n + 1] = current
  BY <1>1, <1>3, AppendProperties, LenProperties
<1>5. DOMAIN saved.pages = 1 .. n + 1
  BY <1>4, LenProperties
<1> HIDE DEF n
<1>6. \A p \in DOMAIN saved.pages : WellCounted(saved.pages[p])
  <2> TAKE p \in DOMAIN saved.pages
  <2>1. p \in 1 .. n \/ p = n + 1
    BY <1>4, <1>5
  <2> QED
    BY <1>1, <1>4, <2>1
<1>7. CurrentPage(saved).bits = <<>> /\ CurrentPage(saved).values = <<>>
  BY <1>2 DEF CurrentPage
<1>8. WellCounted(CurrentPage(saved)) /\ ReadPage(CurrentPage(saved)) = <<>>
  BY <1>7, EmptyCounted
<1>9. Orderly(saved)
  BY <1>2, <1>6, <1>8 DEF Orderly, AllCounted
<1>10. PagesRead(saved.pages) = Append(PagesRead(ins.pages), ReadPage(current))
  <2> DEFINE s == PagesRead(saved.pages)
             t == Append(PagesRead(ins.pages), ReadPage(current))
  <2>1. \A p \in DOMAIN saved.pages : Fits(saved.pages[p])
    BY <1>2 DEF InserterFits
  <2>2. /\ s \in Seq(Seq(Nat)) /\ Len(s) = n + 1
        /\ \A p \in 1 .. n + 1 : s[p] = ReadPage(saved.pages[p])
    BY <1>4, <1>6, <2>1, PagesReadType
  <2>3. /\ PagesRead(ins.pages) \in Seq(Seq(Nat)) /\ Len(PagesRead(ins.pages)) = n
        /\ \A p \in 1 .. n : PagesRead(ins.pages)[p] = ReadPage(ins.pages[p])
    BY <1>1, PagesReadType DEF n
  <2>4. /\ t \in Seq(Seq(Nat)) /\ Len(t) = n + 1
        /\ \A p \in 1 .. n : t[p] = PagesRead(ins.pages)[p]
        /\ t[n + 1] = ReadPage(current)
    BY <1>1, <2>3, AppendProperties
  <2> HIDE DEF s, t
  <2>5. \A p \in 1 .. n + 1 : s[p] = t[p]
    <3> TAKE p \in 1 .. n + 1
    <3>1. p \in 1 .. n \/ p = n + 1
      BY <1>4
    <3> QED
      BY <1>4, <2>2, <2>3, <2>4, <3>1
  <2>6. s = t
    BY <2>2, <2>4, <2>5, SeqEqual
  <2> QED
    BY <2>6 DEF s, t
<1>11. PagesRead(ins.pages) \in Seq(Seq(Nat))
  BY <1>1, PagesReadType
<1>12. FlattenSeq(PagesRead(saved.pages)) = FlattenSeq(PagesRead(ins.pages)) \o ReadPage(current)
  BY <1>1, <1>10, <1>11, FlattenAppend
<1>13. ReadColumn(saved.pages) = ReadColumn(ins.pages) \o ReadPage(current)
  BY <1>12 DEF ReadColumn, PagesRead
<1>14. ReadColumn(saved.pages) = Content(ins)
  BY <1>13 DEF Content, current
<1>15. Content(saved) = ReadColumn(saved.pages) \o <<>>
  BY <1>8 DEF Content
<1>16. ReadColumn(saved.pages) \in Seq(Nat)
  BY <1>9, OrderlyParts
<1>17. Content(saved) = ReadColumn(saved.pages)
  BY <1>15, <1>16, ConcatEmptySeq
<1> QED
  BY <1>9, <1>14, <1>17 DEF saved

\* A row more on the current page is a row more at the end.
LEMMA GrownContent ==
  ASSUME NEW ins, Orderly(ins), NEW bit \in BOOLEAN, NEW value \in Nat,
         NEW more, more \in Inserter, InserterFits(more),
         more = [pages |-> ins.pages,
                 bits |-> Append(ins.bits, bit),
                 values |-> IF bit THEN Append(ins.values, value) ELSE ins.values]
  PROVE  /\ Orderly(more)
         /\ Content(more) = Append(Content(ins), IF bit THEN value ELSE Null)
<1> DEFINE current == CurrentPage(ins)
           row == IF bit THEN value ELSE Null
<1>1. /\ current \in PageType /\ Fits(current) /\ WellCounted(current)
      /\ ReadColumn(ins.pages) \in Seq(Nat) /\ ReadPage(current) \in Seq(Nat)
  BY OrderlyParts
<1>2. CurrentPage(more) = Grown(current, bit, value) /\ more.pages = ins.pages
  BY DEF CurrentPage, Grown
<1>3. Fits(CurrentPage(more))
  BY DEF InserterFits
<1> HIDE DEF current
<1>4. /\ WellCounted(CurrentPage(more))
      /\ ReadPage(CurrentPage(more)) = Append(ReadPage(current), row)
  <2> DEFINE last == Grown(current, bit, value)
  <2>1. CurrentPage(more) = last /\ Fits(last)
    BY <1>2, <1>3
  <2>2. WellCounted(last) /\ ReadPage(last) = Append(ReadPage(current), row)
    BY <1>1, <2>1, ReadGrown, Zenon
  <2> HIDE DEF last
  <2> QED
    BY <2>1, <2>2
<1>5. Orderly(more)
  BY <1>2, <1>4 DEF Orderly, AllCounted
<1>6. row \in Nat
  BY NullAssumption
<1> HIDE DEF row
<1>7. Content(more) = ReadColumn(ins.pages) \o Append(ReadPage(current), row)
  BY <1>2, <1>4 DEF Content
<1>8. Append(ReadPage(current), row) = ReadPage(current) \o <<row>> /\ <<row>> \in Seq(Nat)
  <2>1. <<row>> \in Seq(Nat)
    BY <1>6
  <2> DEFINE r == ReadPage(current)
  <2>2. r \in Seq(Nat)
    BY <1>1
  <2> HIDE DEF r
  <2>3. Append(r, row) = r \o <<row>>
    BY <1>6, <2>2, AppendIsConcat
  <2> QED
    BY <2>1, <2>3 DEF r
<1>9. ReadColumn(ins.pages) \o (ReadPage(current) \o <<row>>)
        = (ReadColumn(ins.pages) \o ReadPage(current)) \o <<row>>
  BY <1>1, <1>8, ConcatAssociative
<1>10. Content(ins) = ReadColumn(ins.pages) \o ReadPage(current) /\ Content(ins) \in Seq(Nat)
  BY <1>1, ConcatProperties DEF Content, current
<1>11. Append(Content(ins), row) = Content(ins) \o <<row>>
  BY <1>6, <1>10, AppendIsConcat
<1> QED
  BY <1>5, <1>7, <1>8, <1>9, <1>10, <1>11 DEF row

\* insert adds the value at the end.
LEMMA WithValueContent ==
  ASSUME WideEnough, NEW ins, Orderly(ins), NEW value \in Nat
  PROVE  /\ Orderly(WithValue(ins, value))
         /\ Content(WithValue(ins, value)) = Append(Content(ins), value)
<1> DEFINE room == IF FullForValue(ins) THEN SavePage(ins) ELSE ins
           more == WithValue(ins, value)
<1>1. Orderly(room) /\ Content(room) = Content(ins)
  BY SavePageContent
<1>2. more \in Inserter /\ InserterFits(more)
  BY WithValueFits DEF Orderly
<1>3. more = [pages |-> room.pages, bits |-> Append(room.bits, TRUE),
              values |-> IF TRUE THEN Append(room.values, value) ELSE room.values]
  BY DEF WithValue
<1> HIDE DEF room, more
<1>4. /\ Orderly(more)
      /\ Content(more) = Append(Content(room), IF TRUE THEN value ELSE Null)
  BY <1>1, <1>2, <1>3, GrownContent
<1> QED
  BY <1>1, <1>4 DEF more

\* insert_null adds a NULL at the end.
LEMMA WithNullContent ==
  ASSUME WideEnough, NEW ins, Orderly(ins)
  PROVE  /\ Orderly(WithNull(ins))
         /\ Content(WithNull(ins)) = Append(Content(ins), Null)
<1> DEFINE room == IF FullForNull(ins) THEN SavePage(ins) ELSE ins
           more == WithNull(ins)
<1>1. Orderly(room) /\ Content(room) = Content(ins)
  BY SavePageContent
<1>2. more \in Inserter /\ InserterFits(more)
  BY WithNullFits DEF Orderly
<1>3. more = [pages |-> room.pages, bits |-> Append(room.bits, FALSE),
              values |-> IF FALSE THEN Append(room.values, 0) ELSE room.values]
  BY DEF WithNull
<1> HIDE DEF room, more
<1>4. /\ Orderly(more)
      /\ Content(more) = Append(Content(room), IF FALSE THEN 0 ELSE Null)
  BY <1>1, <1>2, <1>3, GrownContent
<1> QED
  BY <1>1, <1>4 DEF more

-----------------------------------------------------------------------------
(* Pages without NULLs are filled alike                                    *)

\* insert saves a page of n rows, all with values, before it adds another.
Full(n) == DataBegin + Width * n + Reserve + (n \div BitsPerByte) + 1 > PageSize

\* A page can have got to n such rows.
Reached(n) == \A m \in 0 .. n - 1 : ~Full(m)

WithoutNulls(page) == NumRows(page) = NumNonNull(page)

\* A page as it is saved because it is full.
Filled(page) ==
  /\ NumRows(page) # 0
  /\ WithoutNulls(page) => Full(NumRows(page)) /\ Reached(NumRows(page))

\* While rows are inserted, the saved pages are full.
AllFilled(ins) ==
  /\ \A p \in DOMAIN ins.pages : Filled(ins.pages[p])
  /\ WithoutNulls(CurrentPage(ins)) => Reached(NumRows(CurrentPage(ins)))

\* When the column is finished, all are but the last.
FilledButLast(pages) ==
  \A p \in DOMAIN pages :
    /\ NumRows(pages[p]) # 0
    /\ WithoutNulls(pages[p]) => Reached(NumRows(pages[p]))
    /\ p # Len(pages) => Filled(pages[p])

\* An empty page takes a row of either kind.
LEMMA EmptyNotFull == ~Full(0) /\ \A bytes \in Nat : ~(DataBegin + Width * 0 + 0 + 1 > PageSize)
<1>1. 0 \div BitsPerByte = 0 /\ Width * 0 = 0
  BY PageFacts
<1>2. ~(DataBegin + 0 + Reserve + 0 + 1 > PageSize) /\ ~(DataBegin + 0 + 0 + 1 > PageSize)
  BY PageFacts
<1> QED
  BY <1>1, <1>2 DEF Full

\* The numbers of rows and of values of the current page.
LEMMA CurrentCounts ==
  ASSUME NEW ins, Orderly(ins)
  PROVE  /\ NumRows(CurrentPage(ins)) = Len(ins.bits) /\ Len(ins.bits) \in Nat
         /\ NumNonNull(CurrentPage(ins)) = Len(ins.values) /\ Len(ins.values) \in Nat
         /\ Len(ins.values) <= Len(ins.bits)
         /\ ins.bits \in Seq(BOOLEAN) /\ ins.values \in Seq(Nat)
<1>1. ins.bits \in Seq(BOOLEAN) /\ ins.values \in Seq(Nat) /\ WellCounted(CurrentPage(ins))
  BY DEF Orderly, AllCounted, Inserter
<1>2. Len(ins.bits) \in Nat /\ Len(ins.values) \in Nat
  BY <1>1, LenProperties
<1>3. Len(ins.values) = Cardinality(Set(ins.bits, Len(ins.bits)))
  BY <1>1 DEF WellCounted, CurrentPage
<1>4. Len(ins.bits) \in 0 .. Len(ins.bits)
  BY <1>2
<1>5. Len(ins.values) <= Len(ins.bits)
  BY <1>1, <1>3, <1>4, SetSize
<1> QED
  BY <1>1, <1>2, <1>5 DEF CurrentPage, NumRows, NumNonNull

\* insert and insert_null save a page only when it is full.
LEMMA SavedFilled ==
  ASSUME NEW ins, Orderly(ins), AllFilled(ins), FullForValue(ins) \/ FullForNull(ins)
  PROVE  Filled(CurrentPage(ins))
<1> DEFINE n == Len(ins.bits)
           m == Len(ins.values)
           x == Width * m
           y == n \div BitsPerByte
<1>1. /\ NumRows(CurrentPage(ins)) = n /\ NumNonNull(CurrentPage(ins)) = m
      /\ n \in Nat /\ m \in Nat /\ m <= n
  BY CurrentCounts
<1>2. DataBegin + x + Reserve + y + 1 > PageSize \/ DataBegin + x + y + 1 > PageSize
  BY DEF FullForValue, FullForNull, DataEnd
<1> HIDE DEF n, m
<1>3. x \in Nat /\ y \in Nat
  BY <1>1, PageFacts, DivisionAndProduct
<1> HIDE DEF x, y
<1>4. DataBegin + x + Reserve + y + 1 > PageSize
  BY <1>2, <1>3, PageFacts
<1>5. n = m => Full(n)
  BY <1>4 DEF Full, x, y
<1>6. n # 0
  <2>1. n = 0 => m = n
    BY <1>1
  <2> QED
    BY <1>5, <2>1, EmptyNotFull
<1>7. n = m => Reached(n)
  BY <1>1 DEF AllFilled, WithoutNulls
<1> QED
  BY <1>1, <1>5, <1>6, <1>7 DEF Filled, WithoutNulls

\* A full page saved leaves all full, and an empty one.
LEMMA SaveFilled ==
  ASSUME NEW ins, Orderly(ins), AllFilled(ins), Filled(CurrentPage(ins))
  PROVE  \A p \in DOMAIN SavePage(ins).pages : Filled(SavePage(ins).pages[p])
<1> DEFINE n == Len(ins.pages)
           current == CurrentPage(ins)
           saved == SavePage(ins).pages
<1>1. ins.pages \in Seq(PageType) /\ current \in PageType
  BY OrderlyParts
<1>2. saved = Append(ins.pages, current)
  BY DEF SavePage
<1> HIDE DEF saved, current
<1>3. /\ n \in Nat /\ DOMAIN ins.pages = 1 .. n
      /\ saved \in Seq(PageType) /\ Len(saved) = n + 1
      /\ \A p \in 1 .. n : saved[p] = ins.pages[p]
      /\ saved[n + 1] = current
  BY <1>1, <1>2, AppendProperties, LenProperties
<1>4. DOMAIN saved = 1 .. n + 1
  BY <1>3, LenProperties
<1> HIDE DEF n
<1>5. \A p \in 1 .. n : Filled(ins.pages[p])
  BY <1>3 DEF AllFilled
<1>6. Filled(current)
  BY DEF current
<1>7. ASSUME NEW p \in DOMAIN saved PROVE Filled(saved[p])
  <2>1. p \in 1 .. n \/ p = n + 1
    BY <1>3, <1>4
  <2> QED
    BY <1>3, <1>5, <1>6, <2>1
<1> QED
  BY <1>7 DEF saved

\* insert keeps the saved pages full.
LEMMA WithValueFilled ==
  ASSUME WideEnough, NEW ins, Orderly(ins), AllFilled(ins), NEW value \in Nat
  PROVE  AllFilled(WithValue(ins, value))
<1> DEFINE more == WithValue(ins, value)
           a == Len(more.bits)
           b == Len(more.values)
<1>1. Orderly(more)
  BY WithValueContent
<1>2. NumRows(CurrentPage(more)) = a /\ NumNonNull(CurrentPage(more)) = b
  BY <1>1, CurrentCounts
<1>3. /\ ins.bits \in Seq(BOOLEAN) /\ ins.values \in Seq(Nat)
      /\ NumRows(CurrentPage(ins)) = Len(ins.bits) /\ NumNonNull(CurrentPage(ins)) = Len(ins.values)
      /\ Len(ins.bits) \in Nat /\ Len(ins.values) \in Nat
  BY CurrentCounts
<1>4. CASE FullForValue(ins)
  <2>1. more.pages = SavePage(ins).pages /\ more.bits = Append(<<>>, TRUE)
    BY <1>4 DEF WithValue, SavePage
  <2>2. \A p \in DOMAIN more.pages : Filled(more.pages[p])
    BY <1>4, <2>1, SavedFilled, SaveFilled
  <2>3. a = 1
    BY <2>1
  <2>4. Reached(1)
    BY EmptyNotFull DEF Reached
  <2> QED
    BY <1>2, <2>2, <2>3, <2>4 DEF AllFilled
<1>5. CASE ~FullForValue(ins)
  <2> DEFINE n == Len(ins.bits)
             m == Len(ins.values)
  <2>1. /\ more.pages = ins.pages /\ more.bits = Append(ins.bits, TRUE)
        /\ more.values = Append(ins.values, value)
    BY <1>5 DEF WithValue
  <2>2. a = n + 1 /\ b = m + 1
    BY <1>3, <2>1, AppendProperties
  <2>3. n = m => ~Full(n)
    BY <1>5 DEF FullForValue, DataEnd, Full
  <2>4. n = m => Reached(n)
    BY <1>3 DEF AllFilled, WithoutNulls
  <2>5. n \in Nat /\ m \in Nat
    BY <1>3
  <2> HIDE DEF more, a, b, n, m
  <2>6. a = b => Reached(a)
    <3> SUFFICES ASSUME a = b, NEW k \in 0 .. a - 1 PROVE ~Full(k)
      BY DEF Reached
    <3>1. n = m /\ (k \in 0 .. n - 1 \/ k = n)
      <4>1. n + 1 = m + 1 /\ k \in 0 .. (n + 1) - 1
        BY <2>2
      <4> QED
        BY <2>5, <4>1
    <3> QED
      BY <2>3, <2>4, <3>1 DEF Reached
  <2>7. \A p \in DOMAIN more.pages : Filled(more.pages[p])
    BY <2>1 DEF AllFilled
  <2>8. AllFilled(more)
    BY <1>2, <2>6, <2>7 DEF AllFilled, WithoutNulls
  <2> QED
    BY <2>8 DEF more
<1> QED
  BY <1>4, <1>5 DEF more

\* So does insert_null: the page it adds to has a NULL from then on.
LEMMA WithNullFilled ==
  ASSUME WideEnough, NEW ins, Orderly(ins), AllFilled(ins)
  PROVE  AllFilled(WithNull(ins))
<1> DEFINE more == WithNull(ins)
           a == Len(more.bits)
           b == Len(more.values)
<1>1. Orderly(more)
  BY WithNullContent
<1>2. NumRows(CurrentPage(more)) = a /\ NumNonNull(CurrentPage(more)) = b
  BY <1>1, CurrentCounts
<1>3. /\ ins.bits \in Seq(BOOLEAN) /\ ins.values \in Seq(Nat)
      /\ Len(ins.bits) \in Nat /\ Len(ins.values) \in Nat
      /\ Len(ins.values) <= Len(ins.bits)
  BY CurrentCounts
<1>4. CASE FullForNull(ins)
  <2>1. /\ more.pages = SavePage(ins).pages
        /\ more.bits = Append(<<>>, FALSE) /\ more.values = <<>>
    BY <1>4 DEF WithNull, SavePage
  <2>2. \A p \in DOMAIN more.pages : Filled(more.pages[p])
    BY <1>4, <2>1, SavedFilled, SaveFilled
  <2>3. a = 1 /\ b = 0
    BY <2>1
  <2> QED
    BY <1>2, <2>2, <2>3 DEF AllFilled, WithoutNulls
<1>5. CASE ~FullForNull(ins)
  <2>1. /\ more.pages = ins.pages /\ more.bits = Append(ins.bits, FALSE)
        /\ more.values = ins.values
    BY <1>5 DEF WithNull
  <2>2. a = Len(ins.bits) + 1 /\ b = Len(ins.values)
    BY <1>3, <2>1, AppendProperties
  <2>3. a # b
    BY <1>3, <2>2
  <2> HIDE DEF more, a, b
  <2>4. \A p \in DOMAIN more.pages : Filled(more.pages[p])
    BY <2>1 DEF AllFilled
  <2>5. AllFilled(more)
    BY <1>2, <2>3, <2>4 DEF AllFilled, WithoutNulls
  <2> QED
    BY <2>5 DEF more
<1> QED
  BY <1>4, <1>5 DEF more

\* finalize saves one page more, or has none to save.
LEMMA FinishedFilled ==
  ASSUME NEW ins, Orderly(ins), AllFilled(ins)
  PROVE  FilledButLast(Finished(ins).pages)
<1> DEFINE n == Len(ins.pages)
           current == CurrentPage(ins)
           pages == Finished(ins).pages
<1>1. ins.pages \in Seq(PageType) /\ current \in PageType
  BY OrderlyParts
<1>2. \A p \in DOMAIN ins.pages : Filled(ins.pages[p])
  BY DEF AllFilled
<1>3. CASE ins.bits = <<>>
  <2>1. pages = ins.pages
    BY <1>3 DEF Finished
  <2> HIDE DEF pages
  <2>2. FilledButLast(pages)
    BY <1>2, <2>1 DEF FilledButLast, Filled
  <2> QED
    BY <2>2 DEF pages
<1>4. CASE ins.bits # <<>>
  <2>1. pages = Append(ins.pages, current)
    BY <1>4 DEF Finished, SavePage
  <2>2. NumRows(current) # 0
    BY <1>4, CurrentCounts, EmptySeq
  <2>3. WithoutNulls(current) => Reached(NumRows(current))
    BY DEF AllFilled
  <2> HIDE DEF pages, current
  <2>4. /\ n \in Nat /\ DOMAIN ins.pages = 1 .. n
        /\ pages \in Seq(PageType) /\ Len(pages) = n + 1
        /\ \A p \in 1 .. n : pages[p] = ins.pages[p]
        /\ pages[n + 1] = current
    BY <1>1, <2>1, AppendProperties, LenProperties
  <2>5. DOMAIN pages = 1 .. n + 1
    BY <2>4, LenProperties
  <2> HIDE DEF n
  <2>6. ASSUME NEW p \in DOMAIN pages
        PROVE  /\ NumRows(pages[p]) # 0
               /\ WithoutNulls(pages[p]) => Reached(NumRows(pages[p]))
               /\ p # Len(pages) => Filled(pages[p])
    <3>1. p \in 1 .. n \/ p = n + 1
      BY <2>4, <2>5
    <3>2. CASE p \in 1 .. n
      <4>1. Filled(pages[p])
        BY <1>2, <2>4, <3>2
      <4> QED
        BY <4>1 DEF Filled
    <3>3. CASE p = n + 1
      BY <2>2, <2>3, <2>4, <3>3
    <3> QED
      BY <3>1, <3>2, <3>3
  <2>7. FilledButLast(pages)
    BY <2>6 DEF FilledButLast
  <2> QED
    BY <2>7 DEF pages
<1> QED
  BY <1>3, <1>4

-----------------------------------------------------------------------------
(* Theorems about integers                                                *)

\* The inserter holds the rows inserted, and finalize leaves none unsaved.
ReadInv ==
  /\ Orderly(inserter)
  /\ input = Content(inserter)
  /\ ~finalized => AllFilled(inserter)
  /\ finalized => FilledButLast(inserter.pages) /\ ReadColumn(inserter.pages) = input

\* A new inserter holds nothing.
LEMMA NewInserterContent ==
  /\ Orderly(NewInserter)
  /\ Content(NewInserter) = <<>>
  /\ AllFilled(NewInserter)
<1>1. NewInserter \in Inserter /\ InserterFits(NewInserter)
  BY NewInserterFits
<1>2. CurrentPage(NewInserter).bits = <<>> /\ CurrentPage(NewInserter).values = <<>>
      /\ NewInserter.pages = <<>>
  BY DEF NewInserter, CurrentPage
<1>3. WellCounted(CurrentPage(NewInserter)) /\ ReadPage(CurrentPage(NewInserter)) = <<>>
  BY <1>2, EmptyCounted
<1>4. \A p \in DOMAIN NewInserter.pages : FALSE
  BY <1>2
<1>5. Orderly(NewInserter)
  BY <1>1, <1>3, <1>4 DEF Orderly, AllCounted
<1>6. ReadColumn(<<>>) = <<>>
  <2>1. [p \in DOMAIN <<>> |-> ReadPage((<<>>)[p])] = <<>>
    OBVIOUS
  <2>2. FlattenSeq(<<>>) = <<>>
    BY EmptySeq DEF FlattenSeq
  <2> QED
    BY <2>1, <2>2 DEF ReadColumn
<1>7. <<>> \o <<>> = <<>>
  BY EmptySeq, ConcatEmptySeq
<1>8. Content(NewInserter) = <<>>
  BY <1>2, <1>3, <1>6, <1>7 DEF Content
<1>9. NumRows(CurrentPage(NewInserter)) = 0
  BY <1>2, EmptySeq DEF NumRows
<1>10. Reached(0)
  BY DEF Reached
<1>11. AllFilled(NewInserter)
  BY <1>4, <1>9, <1>10 DEF AllFilled
<1> QED
  BY <1>5, <1>8, <1>11

\* finalize leaves nothing on the current page.
LEMMA FinishedContent ==
  ASSUME NEW ins, Orderly(ins)
  PROVE  /\ Orderly(Finished(ins))
         /\ Content(Finished(ins)) = Content(ins)
         /\ ReadColumn(Finished(ins).pages) = Content(ins)
<1>1. CASE ins.bits # <<>>
  BY <1>1, SavePageContent DEF Finished
<1>2. CASE ins.bits = <<>>
  <2>1. Finished(ins) = ins
    BY <1>2 DEF Finished
  <2>2. ReadPage(CurrentPage(ins)) = <<>>
    <3>1. CurrentPage(ins).bits = <<>> /\ Len(<<>>) = 0
      BY <1>2, EmptySeq DEF CurrentPage
    <3> QED
      BY <3>1 DEF ReadPage, NumRows
  <2>3. ReadColumn(ins.pages) \in Seq(Nat)
    BY OrderlyParts
  <2>4. Content(ins) = ReadColumn(ins.pages)
    BY <2>2, <2>3, ConcatEmptySeq DEF Content
  <2> QED
    BY <2>1, <2>4
<1> QED
  BY <1>1, <1>2

\* Every step keeps it.
LEMMA ReadInductive ==
  ASSUME WideEnough
  PROVE  (Init => ReadInv) /\ (ReadInv /\ [Next]_vars => ReadInv')
<1>1. Init => ReadInv
  BY NewInserterContent DEF Init, ReadInv
<1>2. ReadInv /\ [Next]_vars => ReadInv'
  <2> SUFFICES ASSUME ReadInv, [Next]_vars PROVE ReadInv'
    OBVIOUS
  <2>1. Orderly(inserter) /\ input = Content(inserter) /\ Content(inserter) \in Seq(Nat)
    <3>1. Orderly(inserter) /\ input = Content(inserter)
      BY DEF ReadInv
    <3>2. ReadColumn(inserter.pages) \in Seq(Nat) /\ ReadPage(CurrentPage(inserter)) \in Seq(Nat)
      BY <3>1, OrderlyParts
    <3> QED
      BY <3>1, <3>2, ConcatProperties DEF Content
  <2>2. CASE Insert
    <3>1. /\ inserter' = WithValue(inserter, Len(input) + 1)
          /\ input' = Append(input, Len(input) + 1)
          /\ ~finalized /\ finalized' = finalized
      BY <2>2 DEF Insert
    <3>2. Len(input) + 1 \in Nat
      BY <2>1, LenProperties
    <3>3. Orderly(inserter') /\ Content(inserter') = input'
      BY <2>1, <3>1, <3>2, WithValueContent
    <3>4. AllFilled(inserter')
      BY <2>1, <3>1, <3>2, WithValueFilled DEF ReadInv
    <3> QED
      BY <3>1, <3>3, <3>4 DEF ReadInv
  <2>3. CASE InsertNull
    <3>1. /\ inserter' = WithNull(inserter)
          /\ input' = Append(input, Null)
          /\ ~finalized /\ finalized' = finalized
      BY <2>3 DEF InsertNull
    <3>2. Orderly(inserter') /\ Content(inserter') = input'
      BY <2>1, <3>1, WithNullContent
    <3>3. AllFilled(inserter')
      BY <2>1, <3>1, WithNullFilled DEF ReadInv
    <3> QED
      BY <3>1, <3>2, <3>3 DEF ReadInv
  <2>4. CASE Finalize
    <3>1. inserter' = Finished(inserter) /\ input' = input /\ ~finalized /\ finalized'
      BY <2>4 DEF Finalize
    <3>2. /\ Orderly(inserter') /\ Content(inserter') = input'
          /\ ReadColumn(inserter'.pages) = input'
      BY <2>1, <3>1, FinishedContent
    <3>3. FilledButLast(inserter'.pages)
      BY <2>1, <3>1, FinishedFilled DEF ReadInv
    <3> QED
      BY <3>1, <3>2, <3>3 DEF ReadInv
  <2>5. CASE UNCHANGED vars
    <3>1. inserter' = inserter /\ input' = input /\ finalized' = finalized
      BY <2>5 DEF vars
    <3> QED
      BY <3>1 DEF ReadInv
  <2> QED
    BY <2>2, <2>3, <2>4, <2>5 DEF Next, Done
<1> QED
  BY <1>1, <1>2

\* from_columnar reads back what was inserted, whatever the sizes of pages
\* and values, if insert reserves the width of a value.
THEOREM NumericReadBack ==
  ASSUME WideEnough
  PROVE  Spec => []ReadBack
<1>1. Init => ReadInv
  BY ReadInductive
<1>2. ReadInv /\ [Next]_vars => ReadInv'
  BY ReadInductive
<1>3. ReadInv => ReadBack
  BY DEF ReadInv, ReadBack
<1> QED
  BY <1>1, <1>2, <1>3, PTL DEF Spec

\* Pages without NULLs, filled alike.
Alike(pages) == FilledButLast(pages) /\ \A p \in DOMAIN pages : WithoutNulls(pages[p])

\* All pages but the last have as many rows as the first, and the last no more.
LEMMA AlikeRows ==
  ASSUME NEW pages \in Seq(PageType), pages # <<>>, Alike(pages)
  PROVE  /\ FirstPageRows(pages) \in Nat \ {0}
         /\ \A p \in 1 .. Len(pages) - 1 : NumRows(pages[p]) = FirstPageRows(pages)
         /\ NumRows(pages[Len(pages)]) <= FirstPageRows(pages)
<1> DEFINE n == Len(pages)
           rows == [p \in 1 .. n |-> NumRows(pages[p])]
<1>1. n \in Nat /\ n # 0 /\ DOMAIN pages = 1 .. n
  BY EmptySeq, LenProperties
<1>2. \A p \in 1 .. n : rows[p] = NumRows(pages[p]) /\ rows[p] \in Nat \ {0}
  <2> TAKE p \in 1 .. n
  <2>1. pages[p] \in PageType
    BY ElementOfSeq
  <2>2. Len(pages[p].bits) \in Nat
    BY <2>1, LenProperties DEF PageType
  <2>3. NumRows(pages[p]) # 0
    BY <1>1 DEF Alike, FilledButLast
  <2> QED
    BY <2>2, <2>3 DEF NumRows
<1>3. \A p \in 1 .. n : Reached(rows[p])
  BY <1>1, <1>2 DEF Alike, FilledButLast
<1>4. \A p \in 1 .. n : p # n => Full(rows[p])
  BY <1>1, <1>2 DEF Alike, FilledButLast, Filled
<1>5. 1 \in 1 .. n /\ n \in 1 .. n /\ rows[1] = FirstPageRows(pages)
  BY <1>1, <1>2 DEF FirstPageRows
<1> HIDE DEF rows, n
<1>6. \A p, q \in 1 .. n : Full(rows[p]) => rows[q] <= rows[p]
  <2> SUFFICES ASSUME NEW p \in 1 .. n, NEW q \in 1 .. n, Full(rows[p]), ~(rows[q] <= rows[p])
               PROVE  FALSE
    OBVIOUS
  <2>1. rows[p] \in 0 .. rows[q] - 1
    <3> DEFINE x == rows[p]
               y == rows[q]
    <3>1. x \in Nat /\ y \in Nat /\ ~(y <= x)
      BY <1>2
    <3> HIDE DEF x, y
    <3>2. x \in 0 .. y - 1
      BY <3>1
    <3> QED
      BY <3>2 DEF x, y
  <2> QED
    BY <1>3, <2>1 DEF Reached
<1>7. \A p \in 1 .. n - 1 : rows[p] = rows[1]
  <2> TAKE p \in 1 .. n - 1
  <2>1. p \in 1 .. n /\ p # n /\ 1 # n
    BY <1>1
  <2>2. rows[p] <= rows[1] /\ rows[1] <= rows[p]
    BY <1>4, <1>5, <1>6, <2>1
  <2> DEFINE x == rows[p]
             y == rows[1]
  <2>3. x \in Nat /\ y \in Nat /\ x <= y /\ y <= x
    BY <1>2, <1>5, <2>1, <2>2
  <2> HIDE DEF x, y
  <2>4. x = y
    BY <2>3
  <2> QED
    BY <2>4 DEF x, y
<1>8. rows[n] <= rows[1]
  <2>1. CASE n = 1
    <3>1. rows[1] \in Nat
      BY <1>2, <1>5
    <3> QED
      BY <2>1, <3>1
  <2>2. CASE n # 1
    BY <1>4, <1>5, <1>6, <2>2
  <2> QED
    BY <2>1, <2>2
<1>9. \A p \in 1 .. n - 1 : p \in 1 .. n
  BY <1>1
<1>10. \A p \in 1 .. n - 1 : NumRows(pages[p]) = FirstPageRows(pages)
  BY <1>2, <1>5, <1>7, <1>9
<1> QED
  BY <1>2, <1>5, <1>8, <1>10 DEF n

\* A page without NULLs has its values in the order of its rows.
LEMMA PlainRow ==
  ASSUME NEW page \in PageType, Fits(page), WellCounted(page), WithoutNulls(page),
         NEW k \in 1 .. Len(page.bits)
  PROVE  ReadPage(page)[k] = ReadValue(page, k)
<1> DEFINE n == Len(page.bits)
<1>1. page.bits \in Seq(BOOLEAN) /\ n \in Nat
  BY LenProperties DEF PageType
<1>2. Cardinality(Set(page.bits, n)) = n
  BY DEF WellCounted, WithoutNulls, NumRows, NumNonNull
<1>3. n \in 0 .. n
  BY <1>1
<1>4. \A j \in 1 .. n : page.bits[j]
  BY <1>1, <1>2, <1>3, SetSize
<1> HIDE DEF n
<1>5. k \in Nat /\ \A j \in 1 .. k : j \in 1 .. n
  BY <1>1 DEF n
<1>6. Set(page.bits, k) = 1 .. k
  BY <1>4, <1>5 DEF Set
<1>7. Cardinality(1 .. k) = k
  BY <1>5, FS_Interval
<1>8. ReadPage(page)[k] = ReadRow(page, k) /\ k \in 1 .. n
  BY ReadPageType DEF n
<1>9. ReadRow(page, k) = ReadValue(page, Cardinality(Set(page.bits, k)))
  BY <1>4, <1>8 DEF ReadRow, Set
<1> QED
  BY <1>6, <1>7, <1>8, <1>9

\* A row of n pages of w rows each, but the last, which has no more.
InColumn(n, w, last, row) ==
  /\ n \in Nat \ {0} /\ w \in Nat \ {0} /\ last \in Nat /\ last <= w
  /\ row \in Nat /\ row < (n - 1) * w + last

\* The row is row r of page q, both from zero.
AtPlace(n, w, last, row, q, r) ==
  /\ q \in Nat /\ r \in Nat
  /\ q + 1 \in 1 .. n
  /\ r < w
  /\ q + 1 = n => r < last
  /\ row + 1 = ((q + 1) - 1) * w + (r + 1)

\* Where get_value looks is where the row is.
LEMMA DirectPlace ==
  ASSUME NEW n, NEW w, NEW last, NEW row, InColumn(n, w, last, row)
  PROVE  AtPlace(n, w, last, row, row \div w, row % w)
<1> USE DEF InColumn
<1> DEFINE q == row \div w
           r == row % w
<1>1. q \in Nat /\ r \in Nat /\ r < w /\ row = w * q + r
  BY Division
<1>2. (n - 1) * w + w = n * w /\ (n - 1) * w \in Nat /\ n * w \in Nat
  <2>1. n - 1 \in Nat
    OBVIOUS
  <2> QED
    BY <2>1
<1>3. row < n * w
  BY <1>2
<1>4. 0 * w <= row
  OBVIOUS
<1>5. q < n
  BY <1>3, <1>4, QuotientBetween
<1> HIDE DEF q, r
<1>6. q + 1 \in 1 .. n /\ (q + 1) - 1 = q
  BY <1>1, <1>5
<1>7. w * q = q * w /\ q * w \in Nat
  BY <1>1
<1>8. row + 1 = q * w + (r + 1)
  BY <1>1, <1>7
<1>9. q + 1 = n => r < last
  <2> SUFFICES ASSUME q + 1 = n PROVE r < last
    OBVIOUS
  <2>1. q * w + r < q * w + last
    <3>1. n - 1 = q
      BY <1>1
    <3> QED
      BY <1>1, <1>7, <3>1
  <2> QED
    BY <1>1, <1>7, <2>1
<1> QED
  BY <1>1, <1>6, <1>8, <1>9 DEF q, r, AtPlace

\* A direct column is read where its row is.
LEMMA DirectExact ==
  ASSUME NEW pages \in Seq(PageType),
         \A p \in DOMAIN pages : Fits(pages[p]) /\ WellCounted(pages[p]),
         FilledButLast(pages), IsDirect(pages),
         NEW row \in 0 .. Len(ReadColumn(pages)) - 1
  PROVE  GetDirect(pages, row) = ReadColumn(pages)[row + 1]
<1> DEFINE n == Len(pages)
           w == FirstPageRows(pages)
           s == PagesRead(pages)
           all == ReadColumn(pages)
           last == NumRows(pages[n])
<1>1. /\ n \in Nat /\ DOMAIN pages = 1 .. n
      /\ s \in Seq(Seq(Nat)) /\ Len(s) = n
      /\ \A p \in 1 .. n : s[p] = ReadPage(pages[p]) /\ Len(s[p]) = NumRows(pages[p])
  BY PagesReadType DEF NumRows
<1>2. n # 0
  BY <1>1, EmptySeq DEF IsDirect
<1>3. \A p \in DOMAIN pages : WithoutNulls(pages[p])
  BY DEF IsDirect, HasNulls, WithoutNulls
<1>4. Alike(pages) /\ pages # <<>>
  BY <1>3 DEF Alike, IsDirect
<1>5. /\ w \in Nat \ {0}
      /\ \A p \in 1 .. n - 1 : NumRows(pages[p]) = w
      /\ last <= w
  BY <1>4, AlikeRows
<1>6. all = FlattenSeq(s)
  BY DEF ReadColumn, PagesRead
<1> HIDE DEF s, w, n, all
<1>7. \A p \in 1 .. n - 1 : Len(s[p]) = w /\ p \in 1 .. n
  BY <1>1, <1>5
<1>8. /\ \A p \in 1 .. n : \A k \in 1 .. Len(s[p]) : all[(p - 1) * w + k] = s[p][k]
      /\ Len(all) = (n - 1) * w + Len(s[n])
  <2>1. /\ s \in Seq(Seq(Nat)) /\ w \in Nat
        /\ \A i \in 1 .. Len(s) - 1 : Len(s[i]) = w
    BY <1>1, <1>5, <1>7
  <2>2. \A p \in 1 .. Len(s) : \A k \in 1 .. Len(s[p]) : FlattenSeq(s)[(p - 1) * w + k] = s[p][k]
    BY <2>1, FlattenUniform
  <2>3. Len(s) # 0 => Len(FlattenSeq(s)) = (Len(s) - 1) * w + Len(s[Len(s)])
    BY <2>1, FlattenUniform
  <2> QED
    BY <1>1, <1>2, <1>6, <2>2, <2>3
<1>9. n \in 1 .. n /\ Len(s[n]) = last
  BY <1>1, <1>2
<1>10. last \in Nat
  <2>1. s[n] \in Seq(Nat)
    BY <1>1, <1>9, ElementOfSeq
  <2> QED
    BY <1>9, <2>1, LenProperties
<1> HIDE DEF last
<1> DEFINE q == row \div w
           r == row % w
           p == q + 1
           k == r + 1
<1>11. row \in Nat /\ row < (n - 1) * w + last
  <2>1. Len(all) \in Nat
    <3>1. all \in Seq(Nat)
      BY <1>1, <1>6, FlattenPlaces
    <3> QED
      BY <3>1, LenProperties
  <2>2. row \in Nat /\ row < Len(all)
    BY <2>1 DEF all
  <2> QED
    BY <1>8, <1>9, <2>2
<1>12. /\ q \in Nat /\ r \in Nat /\ p \in 1 .. n /\ r < w
       /\ p = n => r < last
       /\ row + 1 = (p - 1) * w + k
  <2>1. n \in Nat \ {0} /\ w \in Nat \ {0} /\ last \in Nat /\ last <= w
    BY <1>1, <1>2, <1>5, <1>10
  <2>2. InColumn(n, w, last, row)
    BY <1>11, <2>1 DEF InColumn
  <2>3. AtPlace(n, w, last, row, q, r)
    BY <2>2, DirectPlace, Zenon
  <2> HIDE DEF q, r
  <2> QED
    BY <2>3 DEF AtPlace
<1>13. GetDirect(pages, row) = ReadValue(pages[p], k)
  BY DEF GetDirect, w
<1> HIDE DEF q, r, p
<1>14. k \in 1 .. Len(s[p])
  <2>1. CASE p = n
    <3>1. Len(s[p]) = last
      BY <1>9, <2>1
    <3> QED
      BY <1>10, <1>12, <2>1, <3>1
  <2>2. CASE p # n
    <3>1. p \in 1 .. n - 1
      BY <1>1, <1>12, <2>2
    <3>2. Len(s[p]) = w
      BY <1>7, <3>1
    <3> QED
      BY <1>5, <1>12, <3>2
  <2> QED
    BY <2>1, <2>2
<1> HIDE DEF k
<1>15. all[row + 1] = s[p][k]
  BY <1>8, <1>12, <1>14
<1>16. s[p] = ReadPage(pages[p]) /\ Len(s[p]) = Len(pages[p].bits) /\ p \in DOMAIN pages
  BY <1>1, <1>12 DEF NumRows
<1>17. pages[p] \in PageType
  BY <1>1, <1>12, ElementOfSeq DEF n
<1>18. ReadPage(pages[p])[k] = ReadValue(pages[p], k)
  BY <1>3, <1>14, <1>16, <1>17, PlainRow
<1> QED
  BY <1>13, <1>15, <1>16, <1>18 DEF all

\* num_rows of a scanned column is the number of rows read.
LEMMA ScannedRowsExact ==
  ASSUME NEW pages \in Seq(PageType),
         \A p \in DOMAIN pages : Fits(pages[p]) /\ WellCounted(pages[p])
  PROVE  ScannedRows(pages) = Len(ReadColumn(pages))
<1> DEFINE n == Len(pages)
           s == PagesRead(pages)
           c == [p \in DOMAIN pages |-> NumRows(pages[p])]
<1>1. /\ n \in Nat /\ DOMAIN pages = 1 .. n
      /\ s \in Seq(Seq(Nat)) /\ Len(s) = n
      /\ \A p \in 1 .. n : Len(s[p]) = NumRows(pages[p])
  BY PagesReadType DEF NumRows
<1>2. ReadColumn(pages) = FlattenSeq(s)
  BY DEF ReadColumn, PagesRead
<1> HIDE DEF s
<1>3. c = [p \in 1 .. Len(s) |-> Len(s[p])] /\ DOMAIN c = 1 .. Len(s)
  BY <1>1
<1>4. ScannedRows(pages) = SumFunctionOnSet(c, DOMAIN c)
  BY DEF ScannedRows, SumFunction
<1> HIDE DEF c
<1>5. Len(FlattenSeq(s)) = SumFunctionOnSet([p \in 1 .. Len(s) |-> Len(s[p])], 1 .. Len(s))
  BY <1>1, FlattenLength
<1> QED
  BY <1>2, <1>3, <1>4, <1>5

\* What the scan relies on.
LEMMA ReadInvScans == ReadInv => ScanExact
<1> SUFFICES ASSUME ReadInv, finalized PROVE ScanExact
  BY DEF ScanExact
<1> DEFINE pages == inserter.pages
<1>1. /\ pages \in Seq(PageType)
      /\ \A p \in DOMAIN pages : Fits(pages[p]) /\ WellCounted(pages[p])
  BY OrderlyParts DEF ReadInv
<1>2. FilledButLast(pages) /\ ReadColumn(pages) = input
  BY DEF ReadInv
<1> HIDE DEF pages
<1>3. ScannedRows(pages) = Len(input)
  BY <1>1, <1>2, ScannedRowsExact
<1>4. ASSUME NEW row \in 0 .. Len(input) - 1
      PROVE  GetValue(pages, row) = input[row + 1]
  <2>1. CASE IsDirect(pages)
    <3>1. GetDirect(pages, row) = input[row + 1]
      BY <1>1, <1>2, <2>1, DirectExact
    <3> QED
      BY <2>1, <3>1 DEF GetValue
  <2>2. CASE ~IsDirect(pages)
    BY <1>2, <2>2 DEF GetValue
  <2> QED
    BY <2>1, <2>2
<1> QED
  BY <1>3, <1>4 DEF ScanExact, pages

\* A scanned column answers get_value with the row that was inserted, though
\* it looks at no bitmap and at no page but the first for their size.
THEOREM NumericScanExact ==
  ASSUME WideEnough
  PROVE  Spec => []ScanExact
<1>1. Init => ReadInv
  BY ReadInductive
<1>2. ReadInv /\ [Next]_vars => ReadInv'
  BY ReadInductive
<1>3. ReadInv => ScanExact
  BY ReadInvScans
<1> QED
  BY <1>1, <1>2, <1>3, PTL DEF Spec

-----------------------------------------------------------------------------
(* Columns of strings                                                      *)

\* The rows that have a string, and the pages that the encoder makes.
RealStr == [id : 1 .. MaxStrRows, size : Nat]
ShortPage == [kind : {"short"}, bits : Seq(BOOLEAN), strings : Seq(RealStr)]
LongPage == [kind : {"first", "next"}, id : 1 .. MaxStrRows, chars : Nat]
StrPage == ShortPage \union LongPage

\* from_columnar: one page on top of the rows so far.
AddTo(rows, page) == Strings!AddPage(rows, page)

\* What is assumed of the constants.
LEMMA StringFacts ==
  /\ StrPageSize \in Nat /\ StrPageSize > 7
  /\ BitsPerByte \in Nat \ {0}
  /\ PageIds \in Nat \ {0}
  /\ Sizes \subseteq Nat
  /\ MaxStrRows \in Nat
BY StringAssumption DEF Strings!Bounds

\* A row has a string or is NULL.
LEMMA RowTypes ==
  /\ RealStr \subseteq Strings!Str
  /\ Strings!NoString \in Strings!Str
  /\ Strings!NoString \notin RealStr
BY StringFacts DEF RealStr, Strings!Str, Strings!NoString

\* The pages of the encoder are pages.
LEMMA PageTypes == StrPage \subseteq Strings!Page
<1>1. Seq(RealStr) \subseteq Seq(Strings!Str)
  <2> SUFFICES ASSUME NEW s \in Seq(RealStr) PROVE s \in Seq(Strings!Str)
    OBVIOUS
  <2> QED
    BY RowTypes, SeqMonotonic
<1>2. ShortPage \subseteq Strings!Page
  BY <1>1 DEF ShortPage, Strings!Page
<1>3. LongPage \subseteq Strings!Page
  BY DEF LongPage, Strings!Page
<1> QED
  BY <1>2, <1>3 DEF StrPage

-----------------------------------------------------------------------------
(* The bytes of strings                                                    *)

StringSizes(strs) == [i \in 1 .. Len(strs) |-> strs[i].size]

\* data_size is a sum.
LEMMA DataSizeIsSum ==
  ASSUME NEW strs \in Seq(RealStr)
  PROVE  /\ Len(strs) \in Nat
         /\ Numbered(StringSizes(strs), Len(strs))
         /\ Strings!DataSize(strs) = SumFunctionOnSet(StringSizes(strs), 1 .. Len(strs))
<1>1. Len(strs) \in Nat /\ DOMAIN strs = 1 .. Len(strs)
  BY LenProperties
<1>2. \A i \in 1 .. Len(strs) : strs[i].size \in Nat
  <2> TAKE i \in 1 .. Len(strs)
  <2>1. strs[i] \in RealStr
    BY ElementOfSeq
  <2> QED
    BY <2>1 DEF RealStr
<1>3. Numbered(StringSizes(strs), Len(strs))
  BY <1>2 DEF Numbered, StringSizes
<1>4. Strings!DataSize(strs)
        = SumFunctionOnSet([i \in DOMAIN strs |-> strs[i].size], DOMAIN strs)
  BY DEF Strings!DataSize, Strings!SumFunction, Strings!SumFunctionOnSet,
         Strings!FoldFunctionOnSet, Strings!MapThenFoldSet,
         SumFunctionOnSet, FoldFunctionOnSet, MapThenFoldSet
<1> QED
  BY <1>1, <1>3, <1>4 DEF StringSizes

\* No strings have no bytes.
LEMMA DataSizeEmpty == Strings!DataSize(<<>>) = 0
<1>1. <<>> \in Seq(RealStr) /\ Len(<<>>) = 0
  BY EmptySeq
<1> DEFINE strs == <<>>
<1>2. strs \in Seq(RealStr) /\ Len(strs) = 0
  BY <1>1
<1> HIDE DEF strs
<1>3. Strings!DataSize(strs) = SumFunctionOnSet(StringSizes(strs), 1 .. 0)
  BY <1>2, DataSizeIsSum
<1>4. Strings!DataSize(strs) = 0
  BY <1>3, SumOfNone
<1> QED
  BY <1>4 DEF strs

\* One string more adds its bytes.
LEMMA DataSizeAppend ==
  ASSUME NEW strs \in Seq(RealStr), NEW str \in RealStr
  PROVE  /\ Append(strs, str) \in Seq(RealStr)
         /\ Strings!DataSize(strs) \in Nat
         /\ str.size \in Nat
         /\ Strings!DataSize(Append(strs, str)) = Strings!DataSize(strs) + str.size
<1> DEFINE n == Len(strs)
           more == Append(strs, str)
           c == StringSizes(more)
           d == StringSizes(strs)
<1>1. /\ n \in Nat /\ more \in Seq(RealStr) /\ Len(more) = n + 1
      /\ \A i \in 1 .. n : more[i] = strs[i]
      /\ more[n + 1] = str
  BY LenProperties, AppendProperties
<1> HIDE DEF more
<1>2. /\ Numbered(c, n + 1)
      /\ Strings!DataSize(more) = SumFunctionOnSet(c, 1 .. n + 1)
  <2>1. /\ Numbered(c, Len(more))
        /\ Strings!DataSize(more) = SumFunctionOnSet(c, 1 .. Len(more))
    BY <1>1, DataSizeIsSum
  <2> QED
    BY <1>1, <2>1
<1>3. /\ Numbered(d, n)
      /\ Strings!DataSize(strs) = SumFunctionOnSet(d, 1 .. n)
  BY DataSizeIsSum
<1>4. /\ \A i \in 1 .. n : c[i] = d[i]
      /\ c[n + 1] = str.size
  <2>1. \A i \in 1 .. n : i \in 1 .. n + 1
    BY <1>1
  <2>2. n + 1 \in 1 .. n + 1
    BY <1>1
  <2>3. c = [i \in 1 .. n + 1 |-> more[i].size] /\ d = [i \in 1 .. n |-> strs[i].size]
    BY <1>1 DEF StringSizes
  <2> HIDE DEF c, d
  <2> QED
    BY <1>1, <2>1, <2>2, <2>3
<1> HIDE DEF c, d, n
<1>5. /\ SumFunctionOnSet(c, 1 .. n) \in Nat
      /\ SumFunctionOnSet(c, 1 .. n + 1) = SumFunctionOnSet(c, 1 .. n) + c[n + 1]
  BY <1>1, <1>2, SumOfOneMore
<1>6. SumFunctionOnSet(c, 1 .. n) = SumFunctionOnSet(d, 1 .. n)
  <2>1. SumFunctionOnSet(d, 1 .. n) = SumFunctionOnSet(c, 1 .. n)
    BY <1>1, <1>3, <1>4, SumSame
  <2> QED
    BY <2>1
<1>7. str.size \in Nat
  BY DEF RealStr
<1> QED
  BY <1>1, <1>2, <1>3, <1>4, <1>5, <1>6, <1>7 DEF more

\* The first strings have no more bytes than all of them.
LEMMA DataSizePrefix ==
  ASSUME NEW strs \in Seq(RealStr), NEW k \in 0 .. Len(strs)
  PROVE  /\ Strings!DataSize(SubSeq(strs, 1, k)) \in Nat
         /\ Strings!DataSize(strs) \in Nat
         /\ Strings!DataSize(SubSeq(strs, 1, k)) <= Strings!DataSize(strs)
<1> DEFINE n == Len(strs)
           D(j) == Strings!DataSize(SubSeq(strs, 1, j))
           T == {j \in 0 .. n : D(j) \in Nat /\ (k <= j => D(k) <= D(j))}
<1>1. n \in Nat /\ SubSeq(strs, 1, 0) = <<>> /\ SubSeq(strs, 1, n) = strs
  BY PrefixEnds
<1>2. 0 \in 0 .. n /\ D(0) = 0
  <2>1. D(0) = Strings!DataSize(<<>>)
    BY <1>1, Zenon
  <2>2. 0 \in 0 .. n
    BY <1>1
  <2> HIDE DEF D
  <2> QED
    BY <2>1, <2>2, DataSizeEmpty
<1>3. ASSUME NEW j \in 0 .. n - 1
      PROVE  D(j) \in Nat /\ D(j + 1) \in Nat /\ D(j) <= D(j + 1)
  <2>1. j \in Nat /\ j < Len(strs)
    BY <1>1
  <2>2. /\ SubSeq(strs, 1, j) \in Seq(RealStr) /\ strs[j + 1] \in RealStr
        /\ SubSeq(strs, 1, j + 1) = Append(SubSeq(strs, 1, j), strs[j + 1])
    BY <2>1, PrefixGrows
  <2>3. D(j) \in Nat /\ strs[j + 1].size \in Nat /\ D(j + 1) = D(j) + strs[j + 1].size
    BY <2>2, DataSizeAppend
  <2> HIDE DEF D
  <2> QED
    BY <2>3
<1>4. D(n) = Strings!DataSize(strs)
  BY <1>1
<1> HIDE DEF D
<1>5. 0 \in T
  <2>1. k <= 0 => k = 0
    BY <1>1
  <2> QED
    BY <1>2, <2>1
<1>6. ASSUME NEW j \in 0 .. n - 1, j \in T
      PROVE  j + 1 \in T
  <2>1. j + 1 \in 0 .. n /\ D(j + 1) \in Nat /\ D(j) \in Nat /\ D(j) <= D(j + 1)
    BY <1>1, <1>3
  <2>2. CASE k <= j
    <3>1. D(k) <= D(j)
      BY <1>6, <2>2
    <3>2. D(k) <= D(j + 1)
      <4>1. D(k) \in Nat
        <5>1. k \in 0 .. n - 1 \/ k = n
          <6>1. n \in Nat /\ k \in 0 .. n
            BY <1>1
          <6> HIDE DEF n
          <6> QED
            BY <6>1
        <5>2. CASE k \in 0 .. n - 1
          BY <1>3, <5>2
        <5>3. CASE k = n
          BY <1>1, <2>2, <5>3
        <5> QED
          BY <5>1, <5>2, <5>3
      <4> QED
        BY <2>1, <3>1, <4>1
    <3> QED
      BY <2>1, <3>2
  <2>3. CASE ~(k <= j)
    <3>1. k <= j + 1 => k = j + 1
      BY <1>1, <2>3
    <3> QED
      BY <2>1, <3>1
  <2> QED
    BY <2>2, <2>3
<1> HIDE DEF T
<1>7. \A j \in 0 .. n : j \in T
  BY <1>1, <1>5, <1>6, PrefixInduction
<1>8. n \in T /\ k \in T /\ k <= n
  BY <1>1, <1>7
<1>9. D(n) \in Nat /\ D(k) \in Nat /\ D(k) <= D(n)
  BY <1>8 DEF T
<1> QED
  BY <1>4, <1>9 DEF D

-----------------------------------------------------------------------------
(* What is read of a page of short strings                                 *)

\* The offsets, the characters and the bitmap have room.
Roomy(page) ==
  Strings!OffsetEnd(Len(page.strings)) + Strings!DataSize(page.strings)
    + BytesOf(Len(page.bits)) <= StrPageSize

\* A page as save_page leaves it: it has a string for each bit that is set.
GoodPage(page) ==
  /\ page \in ShortPage
  /\ Roomy(page)
  /\ Len(page.strings) = Cardinality(Set(page.bits, Len(page.bits)))

\* The row that a bit stands for.
StringAt(page, i) == page.strings[Cardinality(Set(page.bits, i))]
RowAt(page, i) == IF page.bits[i] THEN StringAt(page, i) ELSE Strings!NoString
RowsOf(page) == [i \in 1 .. Len(page.bits) |-> RowAt(page, i)]

\* The parts of a page.
LEMMA ShortParts ==
  ASSUME NEW page \in ShortPage
  PROVE  /\ page.bits \in Seq(BOOLEAN) /\ page.strings \in Seq(RealStr)
         /\ Len(page.bits) \in Nat /\ Len(page.strings) \in Nat
         /\ page.kind = "short"
         /\ BytesOf(Len(page.bits)) \in Nat
         /\ Strings!DataSize(page.strings) \in Nat
<1>1. page.bits \in Seq(BOOLEAN) /\ page.strings \in Seq(RealStr) /\ page.kind = "short"
  BY DEF ShortPage
<1>2. Len(page.bits) \in Nat /\ Len(page.strings) \in Nat
  BY <1>1, LenProperties
<1>3. BytesOf(Len(page.bits)) \in Nat
  <2> DEFINE x == Len(page.bits) + BitsPerByte - 1
  <2>1. x \in Nat
    BY <1>2, StringFacts
  <2> HIDE DEF x
  <2>2. x \div BitsPerByte \in Nat
    BY <2>1, StringFacts, Division
  <2> QED
    BY <2>2 DEF BytesOf, x
<1>4. Strings!DataSize(page.strings) \in Nat
  <2>1. Len(page.strings) \in 0 .. Len(page.strings)
    BY <1>2
  <2> QED
    BY <1>1, <2>1, DataSizePrefix
<1> QED
  BY <1>1, <1>2, <1>3, <1>4

\* The bits set up to a row count the strings up to it.
LEMMA CountedAt ==
  ASSUME NEW page, GoodPage(page), NEW i \in 1 .. Len(page.bits)
  PROVE  /\ Cardinality(Set(page.bits, i)) \in Nat
         /\ Cardinality(Set(page.bits, i)) <= Len(page.strings)
         /\ page.bits[i] => Cardinality(Set(page.bits, i)) \in 1 .. Len(page.strings)
         /\ page.bits[i] \in BOOLEAN
<1>1. /\ page.bits \in Seq(BOOLEAN) /\ Len(page.bits) \in Nat /\ Len(page.strings) \in Nat
  BY ShortParts DEF GoodPage
<1>2. i \in 0 .. Len(page.bits) /\ i # 0
  BY <1>1
<1> DEFINE k == Cardinality(Set(page.bits, i))
<1>3. k \in Nat /\ k <= Len(page.strings) /\ (page.bits[i] => k # 0)
  BY <1>1, <1>2, SetSize DEF GoodPage
<1>4. page.bits[i] \in BOOLEAN
  BY <1>1, ElementOfSeq
<1> HIDE DEF k
<1>5. page.bits[i] => k \in 1 .. Len(page.strings)
  BY <1>1, <1>3
<1> QED
  BY <1>3, <1>4, <1>5 DEF k

\* The rows of a page.
LEMMA RowsOfType ==
  ASSUME NEW page, GoodPage(page)
  PROVE  /\ RowsOf(page) \in Seq(Strings!Str)
         /\ Len(RowsOf(page)) = Len(page.bits)
         /\ \A i \in 1 .. Len(page.bits) :
              /\ RowsOf(page)[i] = RowAt(page, i)
              /\ page.bits[i] => RowAt(page, i) \in RealStr
<1>1. Len(page.bits) \in Nat /\ page.strings \in Seq(RealStr)
  BY ShortParts DEF GoodPage
<1>2. ASSUME NEW i \in 1 .. Len(page.bits)
      PROVE  /\ RowAt(page, i) \in Strings!Str
             /\ page.bits[i] => RowAt(page, i) \in RealStr
  <2>1. CASE page.bits[i]
    <3> DEFINE k == Cardinality(Set(page.bits, i))
    <3>1. k \in 1 .. Len(page.strings)
      BY <2>1, CountedAt
    <3> HIDE DEF k
    <3>2. page.strings[k] \in RealStr
      BY <1>1, <3>1, ElementOfSeq
    <3> QED
      BY <2>1, <3>2, RowTypes DEF RowAt, StringAt, k
  <2>2. CASE ~page.bits[i]
    BY <2>2, RowTypes DEF RowAt
  <2> QED
    BY <2>1, <2>2
<1>3. Maps(RowsOf(page), 1 .. Len(page.bits), Strings!Str)
  BY <1>2 DEF Maps, RowsOf
<1>4. RowsOf(page) \in Seq(Strings!Str) /\ Len(RowsOf(page)) = Len(page.bits)
  BY <1>1, <1>3, SequenceOf
<1> QED
  BY <1>2, <1>4 DEF RowsOf

\* A string is read as it was written: it does not lie under the bitmap.
LEMMA ReadShortPlainly ==
  ASSUME NEW page, GoodPage(page), NEW k \in 1 .. Len(page.strings)
  PROVE  Strings!ReadShort(page, k, Strings!OffsetEnd(Len(page.strings))) = page.strings[k]
<1> DEFINE n == Len(page.strings)
           base == Strings!OffsetEnd(n)
           d == Strings!DataSize(SubSeq(page.strings, 1, k))
           b == BytesOf(Len(page.bits))
<1>1. page.strings \in Seq(RealStr) /\ n \in Nat /\ b \in Nat
  BY ShortParts DEF GoodPage
<1>2. k \in 0 .. Len(page.strings)
  BY <1>1
<1>3. /\ d \in Nat /\ Strings!DataSize(page.strings) \in Nat
      /\ d <= Strings!DataSize(page.strings)
  BY <1>1, <1>2, DataSizePrefix
<1>4. base \in Nat
  BY <1>1 DEF Strings!OffsetEnd, Strings!HeaderSize
<1>5. base + Strings!DataSize(page.strings) + b <= StrPageSize
  BY DEF GoodPage, Roomy
<1> HIDE DEF d, b, base
<1>6. base + d <= StrPageSize - b
  BY <1>1, <1>3, <1>4, <1>5, StringFacts
<1>7. Strings!BitmapSize(page) = b
  BY DEF Strings!BitmapSize, Strings!NumRows, BytesOf, b
<1>8. base = Strings!OffsetEnd(Strings!NumNonNull(page))
  BY DEF base, Strings!NumNonNull
<1>9. Strings!ReadShort(page, k, base)
        = IF page.strings[k].size = 0
             \/ (base = Strings!OffsetEnd(Strings!NumNonNull(page))
                  /\ base + d <= StrPageSize - Strings!BitmapSize(page))
          THEN page.strings[k]
          ELSE Strings!Corrupt
  BY DEF Strings!ReadShort, d
<1> QED
  BY <1>6, <1>7, <1>8, <1>9 DEF base

\* from_columnar adds the rows of the page.
LEMMA AddShort ==
  ASSUME NEW page, GoodPage(page), NEW rows
  PROVE  AddTo(rows, page) = rows \o RowsOf(page)
<1>1. page.kind = "short"
  BY ShortParts DEF GoodPage
<1> DEFINE read == [i \in 1 .. Strings!NumRows(page) |->
                     IF page.bits[i]
                     THEN Strings!ReadShort(page, Strings!IndexOf(page, i),
                                            Strings!OffsetEnd(Strings!NumNonNull(page)))
                     ELSE Strings!NoString]
<1>2. AddTo(rows, page) = rows \o read
  BY <1>1 DEF AddTo, Strings!AddPage
<1>3. ASSUME NEW i \in 1 .. Len(page.bits), page.bits[i]
      PROVE  Strings!ReadShort(page, Strings!IndexOf(page, i),
                               Strings!OffsetEnd(Strings!NumNonNull(page)))
               = StringAt(page, i)
  <2> DEFINE k == Cardinality(Set(page.bits, i))
  <2>1. k \in 1 .. Len(page.strings)
    BY <1>3, CountedAt
  <2>2. Strings!IndexOf(page, i) = k
    BY DEF Strings!IndexOf, Set, Strings!Cardinality, Cardinality
  <2> HIDE DEF k
  <2>3. Strings!ReadShort(page, k, Strings!OffsetEnd(Len(page.strings))) = page.strings[k]
    BY <2>1, ReadShortPlainly
  <2> QED
    BY <2>2, <2>3 DEF Strings!NumNonNull, StringAt, k
<1>4. read = RowsOf(page)
  BY <1>3 DEF RowsOf, RowAt, Strings!NumRows
<1> QED
  BY <1>2, <1>4

\* A page with a row more, which has a string if its bit is set.
WithRow(page, bit, str) ==
  [kind |-> "short", bits |-> Append(page.bits, bit),
   strings |-> IF bit THEN Append(page.strings, str) ELSE page.strings]

\* One row more comes at the end.
LEMMA RowsGrown ==
  ASSUME NEW page, GoodPage(page), NEW bit \in BOOLEAN, NEW str, bit => str \in RealStr,
         Roomy(WithRow(page, bit, str))
  PROVE  /\ GoodPage(WithRow(page, bit, str))
         /\ RowsOf(WithRow(page, bit, str))
              = Append(RowsOf(page), IF bit THEN str ELSE Strings!NoString)
<1> DEFINE more == WithRow(page, bit, str)
           n == Len(page.bits)
           m == Len(page.strings)
           row == IF bit THEN str ELSE Strings!NoString
<1>1. /\ page.bits \in Seq(BOOLEAN) /\ page.strings \in Seq(RealStr)
      /\ n \in Nat /\ m \in Nat
  BY ShortParts DEF GoodPage
<1>2. /\ more.bits \in Seq(BOOLEAN)
      /\ Len(more.bits) = n + 1
      /\ \A i \in 1 .. n : more.bits[i] = page.bits[i]
      /\ more.bits[n + 1] = bit
      /\ more.bits = Append(page.bits, bit)
  BY <1>1, AppendProperties DEF WithRow
<1>3. /\ more.strings \in Seq(RealStr)
      /\ Len(more.strings) = m + (IF bit THEN 1 ELSE 0)
      /\ \A i \in 1 .. m : more.strings[i] = page.strings[i]
      /\ bit => more.strings[m + 1] = str
  <2> DEFINE v == page.strings
             w == more.strings
  <2>1. w = IF bit THEN Append(v, str) ELSE v
    BY DEF WithRow
  <2>2. v \in Seq(RealStr) /\ Len(v) = m /\ m \in Nat
    BY <1>1
  <2> HIDE DEF v, w, m
  <2>3. /\ w \in Seq(RealStr)
        /\ Len(w) = m + (IF bit THEN 1 ELSE 0)
        /\ \A i \in 1 .. m : w[i] = v[i]
        /\ bit => w[m + 1] = str
    <3>1. CASE bit
      <4>1. w = Append(v, str)
        BY <2>1, <3>1
      <4>2. str \in RealStr
        BY <3>1
      <4>3. /\ w \in Seq(RealStr) /\ Len(w) = m + 1
            /\ \A i \in 1 .. m : w[i] = v[i]
            /\ w[m + 1] = str
        BY <2>2, <4>1, <4>2, AppendProperties
      <4> QED
        BY <3>1, <4>3
    <3>2. CASE ~bit
      <4>1. w = v
        BY <2>1, <3>2
      <4> QED
        BY <2>2, <3>2, <4>1
    <3> QED
      BY <3>1, <3>2
  <2> QED
    BY <2>3 DEF v, w
<1>4. /\ \A i \in 0 .. n : Set(more.bits, i) = Set(page.bits, i)
      /\ Cardinality(Set(more.bits, n + 1)) = m + (IF bit THEN 1 ELSE 0)
  BY <1>1, <1>2, SetGrown DEF GoodPage
<1>5. GoodPage(more)
  <2>1. more \in ShortPage
    BY <1>2, <1>3 DEF ShortPage, WithRow
  <2>2. Len(more.strings) = Cardinality(Set(more.bits, Len(more.bits)))
    BY <1>2, <1>3, <1>4
  <2> QED
    BY <2>1, <2>2 DEF GoodPage
<1> HIDE DEF more, n, m
<1>6. \A i \in 1 .. n : RowAt(more, i) = RowAt(page, i)
  <2> SUFFICES ASSUME NEW i \in 1 .. n PROVE RowAt(more, i) = RowAt(page, i)
    OBVIOUS
  <2>1. i \in 0 .. n
    BY <1>1
  <2>2. more.bits[i] = page.bits[i] /\ Set(more.bits, i) = Set(page.bits, i)
    BY <1>2, <1>4, <2>1
  <2>3. page.bits[i] => Cardinality(Set(page.bits, i)) \in 1 .. m
    BY CountedAt DEF n, m
  <2> QED
    BY <1>3, <2>2, <2>3 DEF RowAt, StringAt
<1>7. RowAt(more, n + 1) = row
  <2>1. CASE bit
    <3>1. more.bits[n + 1] /\ Cardinality(Set(more.bits, n + 1)) = m + 1
      BY <1>2, <1>4, <2>1
    <3> QED
      BY <1>3, <2>1, <3>1 DEF RowAt, StringAt
  <2>2. CASE ~bit
    BY <1>2, <2>2 DEF RowAt
  <2> QED
    BY <2>1, <2>2
<1>8. /\ RowsOf(page) \in Seq(Strings!Str) /\ Len(RowsOf(page)) = n
      /\ \A i \in 1 .. n : RowsOf(page)[i] = RowAt(page, i)
  BY RowsOfType DEF n
<1>9. /\ RowsOf(more) \in Seq(Strings!Str) /\ Len(RowsOf(more)) = n + 1
      /\ \A i \in 1 .. n + 1 : RowsOf(more)[i] = RowAt(more, i)
  BY <1>2, <1>5, RowsOfType
<1>10. row \in Strings!Str
  BY RowTypes
<1> HIDE DEF row
<1> DEFINE u == RowsOf(page)
           v == Append(u, row)
<1>11. /\ v \in Seq(Strings!Str) /\ Len(v) = n + 1
       /\ \A i \in 1 .. n : v[i] = u[i]
       /\ v[n + 1] = row
  BY <1>8, <1>10, AppendProperties
<1>12. \A i \in 1 .. n : u[i] = RowAt(page, i)
  BY <1>8
<1> HIDE DEF u, v
<1>13. \A i \in 1 .. n + 1 : RowsOf(more)[i] = v[i]
  <2> TAKE i \in 1 .. n + 1
  <2>1. i \in 1 .. n \/ i = n + 1
    BY <1>1
  <2>2. RowsOf(more)[i] = RowAt(more, i)
    BY <1>9
  <2> QED
    BY <1>6, <1>7, <1>11, <1>12, <2>1, <2>2
<1>14. RowsOf(more) = v
  BY <1>9, <1>11, <1>13, SeqEqual
<1> QED
  BY <1>5, <1>14 DEF more, row, u, v

-----------------------------------------------------------------------------
(* Long strings                                                            *)

\* The pages of a long string, and how much of it the first j of them hold.
Pieces(str) == (str.size + Strings!PieceSize - 1) \div Strings!PieceSize
Covered(str, j) == IF j * Strings!PieceSize <= str.size THEN j * Strings!PieceSize ELSE str.size

IsLong(str) == str \in RealStr /\ str.size > Strings!LongLimit

\* All but the last page are full, and the last is not empty.
LEMMA PiecesFacts ==
  ASSUME NEW str, IsLong(str)
  PROVE  /\ str.size \in Nat /\ str.id \in 1 .. MaxStrRows
         /\ Strings!PieceSize \in Nat \ {0}
         /\ Pieces(str) \in Nat \ {0}
         /\ (Pieces(str) - 1) * Strings!PieceSize < str.size
         /\ str.size <= Pieces(str) * Strings!PieceSize
<1> DEFINE d == Strings!PieceSize
           x == str.size + d - 1
           m == Pieces(str)
<1>1. str.size \in Nat /\ str.id \in 1 .. MaxStrRows /\ str.size > StrPageSize - 7
  BY DEF IsLong, RealStr, Strings!LongLimit
<1>2. d \in Nat \ {0} /\ str.size > 0
  BY <1>1, StringFacts DEF Strings!PieceSize, Strings!HeaderSize
<1> HIDE DEF d
<1>3. x \in Nat /\ m = x \div d
  BY <1>1, <1>2 DEF Pieces, d
<1> HIDE DEF m
<1>4. m \in Nat /\ m * d <= x /\ x < (m + 1) * d
  <2> HIDE DEF x
  <2>1. x \div d \in Nat
    BY <1>2, <1>3, Division
  <2>2. m \in Nat /\ x \div d = m
    BY <1>3, <2>1
  <2> QED
    BY <1>2, <1>3, <2>2, Enclosed
<1>5. (m + 1) * d = m * d + d /\ (m - 1) * d = m * d - d /\ m * d \in Nat
  BY <1>2, <1>4
<1>6. m # 0
  <2>1. SUFFICES ASSUME m = 0 PROVE FALSE
    OBVIOUS
  <2>2. m * d = 0
    BY <1>2, <2>1
  <2> QED
    BY <1>1, <1>2, <1>4, <1>5, <2>2
<1>7. (m - 1) * d < str.size /\ str.size <= m * d
  BY <1>1, <1>2, <1>4, <1>5
<1> QED
  BY <1>1, <1>2, <1>4, <1>6, <1>7 DEF d, m

\* How much the first pages hold, page by page.
LEMMA CoveredSteps ==
  ASSUME NEW str, IsLong(str)
  PROVE  /\ \A j \in 0 .. Pieces(str) : Covered(str, j) \in Nat
         /\ Covered(str, 0) = 0
         /\ Covered(str, Pieces(str)) = str.size
         /\ \A j \in 1 .. Pieces(str) :
              /\ Min({Strings!PieceSize, str.size - (j - 1) * Strings!PieceSize}) \in Nat
              /\ Covered(str, j)
                   = Covered(str, j - 1)
                       + Min({Strings!PieceSize, str.size - (j - 1) * Strings!PieceSize})
<1> DEFINE d == Strings!PieceSize
           m == Pieces(str)
           z == str.size
<1>1. /\ z \in Nat /\ d \in Nat \ {0} /\ m \in Nat \ {0}
      /\ (m - 1) * d < z /\ z <= m * d
  BY PiecesFacts
<1>2. \A j : Covered(str, j) = IF j * d <= z THEN j * d ELSE z
  BY DEF Covered
<1> HIDE DEF d, m, z
<1>3. \A j \in Nat : j * d \in Nat
  BY <1>1
<1>4. \A j \in 0 .. m : Covered(str, j) \in Nat
  BY <1>1, <1>2, <1>3
<1>5. Covered(str, 0) = 0
  <2>1. 0 * d = 0
    BY <1>1
  <2> QED
    BY <1>1, <1>2, <2>1
<1>6. Covered(str, m) = z
  <2>1. m * d \in Nat
    BY <1>1, <1>3
  <2> QED
    BY <1>1, <1>2, <2>1
<1>7. ASSUME NEW j \in 1 .. m
      PROVE  /\ Min({d, z - (j - 1) * d}) \in Nat
             /\ Covered(str, j) = Covered(str, j - 1) + Min({d, z - (j - 1) * d})
  <2> DEFINE before == (j - 1) * d
  <2>1. j - 1 \in Nat /\ j - 1 <= m - 1 /\ m - 1 \in Nat
    BY <1>1
  <2>2. before \in Nat /\ j * d = before + d
    BY <1>1, <2>1
  <2>3. before <= (m - 1) * d /\ (m - 1) * d \in Nat
    BY <1>1, <2>1, Monotone
  <2> HIDE DEF before
  <2>4. before < z
    BY <1>1, <2>2, <2>3
  <2>5. Min({d, z - before}) = IF d <= z - before THEN d ELSE z - before
    BY <1>1, <2>2, TwoMin
  <2>6. Covered(str, j - 1) = before
    <3>1. Covered(str, j - 1) = IF before <= z THEN before ELSE z
      BY <1>2 DEF before
    <3> QED
      BY <1>1, <2>2, <2>4, <3>1
  <2>7. Covered(str, j) = IF before + d <= z THEN before + d ELSE z
    BY <1>2, <2>2
  <2>8. /\ Min({d, z - before}) \in Nat
        /\ Covered(str, j) = Covered(str, j - 1) + Min({d, z - before})
    BY <1>1, <2>2, <2>4, <2>5, <2>6, <2>7
  <2> QED
    BY <2>8 DEF before
<1> QED
  BY <1>4, <1>5, <1>6, <1>7 DEF d, m, z

\* The pages of a long string.
LEMMA LongPagesType ==
  ASSUME NEW str, IsLong(str)
  PROVE  /\ Strings!LongPages(str) \in Seq(StrPage)
         /\ Len(Strings!LongPages(str)) = Pieces(str)
         /\ \A j \in 1 .. Pieces(str) :
              LET page == Strings!LongPages(str)[j]
              IN  /\ page.kind = (IF j = 1 THEN "first" ELSE "next")
                  /\ page.id = str.id
                  /\ page.chars \in Nat
                  /\ page \in LongPage
                  /\ Covered(str, j) = Covered(str, j - 1) + page.chars
<1> DEFINE m == Pieces(str)
           p == Strings!LongPages(str)
           chars(j) == Min({Strings!PieceSize, str.size - (j - 1) * Strings!PieceSize})
<1>1. m \in Nat /\ str.id \in 1 .. MaxStrRows
  BY PiecesFacts
<1>2. \A j \in 1 .. m : chars(j) \in Nat /\ Covered(str, j) = Covered(str, j - 1) + chars(j)
  BY CoveredSteps
<1>3. p = [j \in 1 .. m |-> [kind |-> IF j = 1 THEN "first" ELSE "next", id |-> str.id,
                             chars |-> chars(j)]]
  BY DEF Strings!LongPages, Pieces, Strings!Min, Min
<1> HIDE DEF chars, m, p
<1>4. ASSUME NEW j \in 1 .. m
      PROVE  /\ p[j].kind = (IF j = 1 THEN "first" ELSE "next")
             /\ p[j].id = str.id
             /\ p[j].chars = chars(j)
             /\ p[j] \in LongPage
  <2>1. p[j] = [kind |-> IF j = 1 THEN "first" ELSE "next", id |-> str.id, chars |-> chars(j)]
    BY <1>3
  <2>2. chars(j) \in Nat
    BY <1>2
  <2>3. (IF j = 1 THEN "first" ELSE "next") \in {"first", "next"}
    OBVIOUS
  <2> QED
    BY <1>1, <2>1, <2>2, <2>3 DEF LongPage
<1>5. Maps(p, 1 .. m, StrPage)
  BY <1>3, <1>4 DEF Maps, StrPage
<1>6. p \in Seq(StrPage) /\ Len(p) = m
  BY <1>1, <1>5, SequenceOf
<1>7. \A j \in 1 .. m : p[j].chars \in Nat /\ Covered(str, j) = Covered(str, j - 1) + p[j].chars
  BY <1>2, <1>4
<1> QED
  BY <1>4, <1>6, <1>7 DEF m, p

\* The pages hold the whole string.
LEMMA CharsAddUp ==
  ASSUME NEW str, IsLong(str), NEW c,
         \A j \in 1 .. Pieces(str) : c[j] = Strings!LongPages(str)[j].chars
  PROVE  SumFunctionOnSet(c, 1 .. Pieces(str)) = str.size
<1> DEFINE m == Pieces(str)
           T == {j \in 0 .. m : SumFunctionOnSet(c, 1 .. j) = Covered(str, j)}
<1>1. m \in Nat
  BY PiecesFacts
<1>2. /\ Covered(str, 0) = 0 /\ Covered(str, m) = str.size
      /\ \A j \in 0 .. m : Covered(str, j) \in Nat
  BY CoveredSteps
<1>3. \A j \in 1 .. m : c[j] \in Nat /\ Covered(str, j) = Covered(str, j - 1) + c[j]
  BY LongPagesType
<1> HIDE DEF m
<1>4. 0 \in T
  BY <1>1, <1>2, SumOfNone
<1>5. ASSUME NEW j \in 0 .. m - 1, j \in T
      PROVE  j + 1 \in T
  <2>1. j \in Nat /\ j + 1 \in 1 .. m /\ j + 1 \in 0 .. m /\ (j + 1) - 1 = j
    BY <1>1
  <2>2. Numbered(c, j + 1)
    <3>1. \A i \in 1 .. j + 1 : i \in 1 .. m
      BY <1>1, <2>1
    <3> QED
      BY <1>3, <3>1 DEF Numbered
  <2>3. SumFunctionOnSet(c, 1 .. j + 1) = SumFunctionOnSet(c, 1 .. j) + c[j + 1]
    BY <2>1, <2>2, SumOfOneMore
  <2>4. Covered(str, j + 1) = Covered(str, j) + c[j + 1]
    BY <1>3, <2>1
  <2>5. SumFunctionOnSet(c, 1 .. j) = Covered(str, j)
    BY <1>5
  <2> QED
    BY <2>1, <2>3, <2>4, <2>5
<1> HIDE DEF T
<1>6. \A j \in 0 .. m : j \in T
  BY <1>1, <1>4, <1>5, PrefixInduction
<1>7. m \in T
  BY <1>1, <1>6
<1>8. SumFunctionOnSet(c, 1 .. m) = Covered(str, m)
  BY <1>7 DEF T
<1> QED
  BY <1>2, <1>8 DEF m

\* from_columnar: the first page begins a row, ...
LEMMA AddFirst ==
  ASSUME NEW page \in LongPage, page.kind = "first", NEW rows
  PROVE  AddTo(rows, page) = Append(rows, [id |-> page.id, size |-> page.chars])
BY DEF AddTo, Strings!AddPage

\* ... and the others lengthen it.
LEMMA AddNext ==
  ASSUME NEW page \in LongPage, page.kind = "next",
         NEW rows \in Seq(Strings!Str), NEW size \in Nat
  PROVE  AddTo(Append(rows, [id |-> page.id, size |-> size]), page)
           = Append(rows, [id |-> page.id, size |-> size + page.chars])
<1> DEFINE str == [id |-> page.id, size |-> size]
           all == Append(rows, str)
<1>1. str \in Strings!Str
  BY StringFacts DEF Strings!Str, LongPage
<1>2. str.id = page.id /\ str.size = size
  OBVIOUS
<1> HIDE DEF str
<1>3. /\ all \in Seq(Strings!Str) /\ all # <<>>
      /\ Len(all) = Len(rows) + 1 /\ Len(rows) \in Nat
      /\ all[Len(rows) + 1] = str
      /\ \A i \in 1 .. Len(rows) : all[i] = rows[i]
  BY <1>1, AppendProperties, LenProperties
<1> HIDE DEF all
<1>4. Strings!Last(all) = str
  BY <1>3 DEF Strings!Last
<1>5. Strings!Front(all) = rows
  <2>1. Strings!Front(all) = SubSeq(all, 1, Len(rows))
    BY <1>3 DEF Strings!Front
  <2> DEFINE front == SubSeq(all, 1, Len(rows))
             n == Len(rows)
  <2>2. \A i \in 1 .. n : all[i] \in Strings!Str
    BY <1>3, ElementOfSeq
  <2>3. n \in Nat /\ (1 <= n \/ n = 0)
    BY <1>3
  <2>4. /\ front \in Seq(Strings!Str)
        /\ Len(front) = (IF 1 <= n THEN n - 1 + 1 ELSE 0)
        /\ \A i \in 1 .. n - 1 + 1 : front[i] = all[1 + i - 1]
    BY <2>2, <2>3, SubSeqProperties
  <2> HIDE DEF front, n
  <2>5. Len(front) = n
    BY <2>3, <2>4
  <2>6. \A i \in 1 .. n : front[i] = rows[i]
    <3> TAKE i \in 1 .. n
    <3>1. i \in 1 .. n - 1 + 1 /\ 1 + i - 1 = i
      BY <2>3
    <3> QED
      BY <1>3, <2>4, <3>1 DEF n
  <2>7. front = rows
    BY <2>4, <2>5, <2>6, SeqEqual DEF n
  <2> QED
    BY <2>1, <2>7 DEF front
<1>6. AddTo(all, page) = Append(rows, [id |-> page.id, size |-> str.size + page.chars])
  BY <1>2, <1>3, <1>4, <1>5 DEF AddTo, Strings!AddPage
<1> QED
  BY <1>2, <1>6 DEF all, str

Added == INSTANCE Counting WITH Op <- AddTo

\* The fold of from_columnar, of no pages.
LEMMA AddedEmpty ==
  ASSUME NEW rows
  PROVE  FoldLeft(AddTo, rows, <<>>) = rows
<1>1. FoldLeft(AddTo, rows, <<>>) = Added!FoldLeft(AddTo, rows, <<>>)
  BY DEF FoldLeft, MapThenFoldSet, Added!FoldLeft, Added!MapThenFoldSet, Max, Added!Max
<1> QED
  BY <1>1, Added!FoldLeftEmpty

\* The same, of one page more.
LEMMA AddedAppend ==
  ASSUME NEW rows, NEW pages \in Seq(StrPage), NEW page \in StrPage
  PROVE  FoldLeft(AddTo, rows, Append(pages, page)) = AddTo(FoldLeft(AddTo, rows, pages), page)
<1>1. \A s : FoldLeft(AddTo, rows, s) = Added!FoldLeft(AddTo, rows, s)
  BY DEF FoldLeft, MapThenFoldSet, Added!FoldLeft, Added!MapThenFoldSet, Max, Added!Max
<1>2. Added!FoldLeft(AddTo, rows, Append(pages, page))
        = AddTo(Added!FoldLeft(AddTo, rows, pages), page)
  BY Added!FoldLeftAppend
<1> QED
  BY <1>1, <1>2

\* The same, of pages and more pages.
LEMMA AddedConcat ==
  ASSUME NEW rows, NEW p \in Seq(StrPage), NEW q \in Seq(StrPage)
  PROVE  FoldLeft(AddTo, rows, p \o q) = FoldLeft(AddTo, FoldLeft(AddTo, rows, p), q)
<1>1. \A b : \A s : FoldLeft(AddTo, b, s) = Added!FoldLeft(AddTo, b, s)
  BY DEF FoldLeft, MapThenFoldSet, Added!FoldLeft, Added!MapThenFoldSet, Max, Added!Max
<1>2. Added!FoldLeft(AddTo, rows, p \o q)
        = Added!FoldLeft(AddTo, Added!FoldLeft(AddTo, rows, p), q)
  BY Added!FoldLeftConcat
<1> QED
  BY <1>1, <1>2

\* from_columnar is that fold.
LEMMA ReadColumnIsFold ==
  ASSUME NEW pages
  PROVE  Strings!ReadColumn(pages) = FoldLeft(AddTo, <<>>, pages)
BY DEF Strings!ReadColumn, Strings!FoldLeft, Strings!MapThenFoldSet, Strings!Max,
       FoldLeft, MapThenFoldSet, Max, AddTo

\* A long string comes back whole, from however many pages.
LEMMA ReadLong ==
  ASSUME NEW str, IsLong(str), NEW rows \in Seq(Strings!Str)
  PROVE  FoldLeft(AddTo, rows, Strings!LongPages(str)) = Append(rows, str)
<1> DEFINE m == Pieces(str)
           p == Strings!LongPages(str)
           Read(j) == FoldLeft(AddTo, rows, SubSeq(p, 1, j))
           Part(j) == Append(rows, [id |-> str.id, size |-> Covered(str, j)])
           T == {j \in 0 .. m : j = 0 \/ Read(j) = Part(j)}
<1>1. m \in Nat \ {0} /\ str.id \in 1 .. MaxStrRows
  BY PiecesFacts
<1>2. /\ p \in Seq(StrPage) /\ Len(p) = m
      /\ \A j \in 1 .. m : /\ p[j].kind = (IF j = 1 THEN "first" ELSE "next")
                           /\ p[j].id = str.id
                           /\ p[j].chars \in Nat
                           /\ p[j] \in LongPage
                           /\ Covered(str, j) = Covered(str, j - 1) + p[j].chars
  BY LongPagesType
<1>3. /\ Covered(str, 0) = 0 /\ Covered(str, m) = str.size
      /\ \A j \in 0 .. m : Covered(str, j) \in Nat
  BY CoveredSteps
<1>4. SubSeq(p, 1, 0) = <<>> /\ SubSeq(p, 1, m) = p
  <2>1. SubSeq(p, 1, Len(p)) = p /\ SubSeq(p, 1, 0) = <<>>
    BY <1>2, PrefixEnds
  <2> QED
    BY <1>2, <2>1
<1> HIDE DEF m, p
<1>5. 0 \in T
  BY <1>1
<1>6. ASSUME NEW j \in 0 .. m - 1, j \in T
      PROVE  j + 1 \in T
  <2>1. /\ j \in Nat /\ j < Len(p) /\ j + 1 \in 1 .. m /\ j + 1 \in 0 .. m
        /\ (j + 1) - 1 = j /\ j \in 0 .. m
    BY <1>1, <1>2
  <2> DEFINE u == SubSeq(p, 1, j)
             e == p[j + 1]
  <2>2. u \in Seq(StrPage) /\ e \in StrPage /\ SubSeq(p, 1, j + 1) = Append(u, e)
    BY <1>2, <2>1, PrefixGrows
  <2>3. /\ e.kind = (IF j + 1 = 1 THEN "first" ELSE "next")
        /\ e.id = str.id /\ e.chars \in Nat /\ e \in LongPage
        /\ Covered(str, j + 1) = Covered(str, j) + e.chars
    BY <1>2, <2>1
  <2>4. Read(j + 1) = AddTo(Read(j), e)
    <3> HIDE DEF e
    <3>1. FoldLeft(AddTo, rows, Append(u, e)) = AddTo(FoldLeft(AddTo, rows, u), e)
      BY <2>2, AddedAppend
    <3> QED
      BY <2>2, <3>1
  <2>5. CASE j = 0
    <3>1. Read(0) = rows
      BY <1>4, AddedEmpty
    <3> HIDE DEF e, Read
    <3>2. Read(1) = Append(rows, [id |-> e.id, size |-> e.chars])
      BY <2>3, <2>4, <2>5, <3>1, AddFirst
    <3>3. Covered(str, 1) = e.chars
      BY <1>3, <2>3, <2>5
    <3>4. Read(1) = Part(1)
      BY <2>3, <3>2, <3>3
    <3> HIDE DEF Part
    <3> QED
      BY <2>1, <2>5, <3>4
  <2>6. CASE j # 0
    <3> HIDE DEF e, Read
    <3>1. Read(j) = Append(rows, [id |-> e.id, size |-> Covered(str, j)])
      BY <1>6, <2>3, <2>6
    <3>2. e.kind = "next" /\ Covered(str, j) \in Nat
      BY <1>3, <2>1, <2>3, <2>6
    <3>3. AddTo(Append(rows, [id |-> e.id, size |-> Covered(str, j)]), e)
            = Append(rows, [id |-> e.id, size |-> Covered(str, j) + e.chars])
      BY <2>3, <3>2, AddNext
    <3>4. Read(j + 1) = Part(j + 1)
      BY <2>3, <2>4, <3>1, <3>3
    <3> HIDE DEF Part
    <3> QED
      BY <2>1, <3>4
  <2> QED
    BY <2>5, <2>6
<1> HIDE DEF T
<1>7. \A j \in 0 .. m : j \in T
  BY <1>1, <1>5, <1>6, PrefixInduction
<1>8. m \in T
  BY <1>1, <1>7
<1>9. Read(m) = Part(m)
  <2> HIDE DEF Read, Part
  <2> QED
    BY <1>1, <1>8 DEF T
<1>10. [id |-> str.id, size |-> str.size] = str
  BY DEF IsLong, RealStr
<1> QED
  BY <1>3, <1>4, <1>9, <1>10 DEF p

-----------------------------------------------------------------------------
(* Handles                                                                 *)

HandleType == [page : Nat, offset : Nat]

\* The handles of pages that come behind n others.
HandlesBehind(n, pages) ==
  FlattenSeq([p \in 1 .. Len(pages) |-> Strings!PageHandles(pages[p], n + p)])

\* A place of a string on a page is not the mark of a NULL.
LEMMA OffsetFacts ==
  ASSUME NEW i \in Nat
  PROVE  /\ Strings!OffsetEnd(i) \in Nat
         /\ Strings!OffsetEnd(i) = 4 + 2 * i
         /\ Strings!OffsetEnd(i) # Strings!NullOffset
         /\ Strings!OffsetEnd(0) = 4
         /\ Strings!HeaderSize = 4 /\ Strings!NullOffset = 65535
BY DEF Strings!OffsetEnd, Strings!HeaderSize, Strings!NullOffset

\* The string at a place.
LEMMA OffsetIndex ==
  ASSUME NEW i \in Nat
  PROVE  (Strings!OffsetEnd(i) - Strings!HeaderSize) \div 2 + 1 = i + 1
BY DEF Strings!OffsetEnd, Strings!HeaderSize

\* A handle is one, and has the page's number as far as a handle can hold it.
LEMMA HandleTypes ==
  ASSUME NEW p \in Nat \ {0}, NEW offset \in Nat
  PROVE  /\ Strings!Handle(p, offset) \in HandleType
         /\ Strings!Handle(p, offset).page = (p - 1) % PageIds
         /\ Strings!Handle(p, offset).offset = offset
         /\ p <= PageIds => Strings!Handle(p, offset).page = p - 1
<1>1. p - 1 \in Nat /\ PageIds \in Nat \ {0}
  BY StringFacts
<1>2. (p - 1) % PageIds \in Nat
  BY <1>1, Division
<1>3. p <= PageIds => (p - 1) % PageIds = p - 1
  BY <1>1
<1> QED
  BY <1>2, <1>3 DEF Strings!Handle, HandleType

\* The handles of a page of short strings: one for each row.
LEMMA ShortHandles ==
  ASSUME NEW page, GoodPage(page), NEW p \in Nat \ {0}
  PROVE  LET hs == Strings!PageHandles(page, p)
         IN  /\ hs \in Seq(HandleType)
             /\ Len(hs) = Len(page.bits)
             /\ \A i \in 1 .. Len(page.bits) :
                  hs[i] = Strings!Handle(p, IF page.bits[i]
                                            THEN Strings!OffsetEnd(Cardinality(Set(page.bits, i)) - 1)
                                            ELSE Strings!NullOffset)
<1> DEFINE hs == Strings!PageHandles(page, p)
           n == Len(page.bits)
           offset(i) == IF page.bits[i]
                        THEN Strings!OffsetEnd(Cardinality(Set(page.bits, i)) - 1)
                        ELSE Strings!NullOffset
<1>1. page.kind = "short" /\ n \in Nat
  BY ShortParts DEF GoodPage
<1>2. hs = [i \in 1 .. n |-> Strings!Handle(p, offset(i))]
  BY <1>1 DEF Strings!PageHandles, Strings!NumRows, Strings!IndexOf, Set,
              Strings!Cardinality, Cardinality
<1>3. ASSUME NEW i \in 1 .. n
      PROVE  offset(i) \in Nat
  <2> DEFINE k == Cardinality(Set(page.bits, i))
  <2>1. page.bits[i] => k \in 1 .. Len(page.strings)
    BY CountedAt
  <2>2. Len(page.strings) \in Nat
    BY ShortParts DEF GoodPage
  <2>3. Strings!NullOffset \in Nat
    BY DEF Strings!NullOffset
  <2> HIDE DEF k
  <2>4. page.bits[i] => k - 1 \in Nat
    BY <2>1, <2>2
  <2>5. page.bits[i] => Strings!OffsetEnd(k - 1) \in Nat
    BY <2>4, OffsetFacts
  <2> QED
    BY <2>3, <2>5 DEF k
<1> HIDE DEF offset, n, hs
<1>4. \A i \in 1 .. n : Strings!Handle(p, offset(i)) \in HandleType
  BY <1>3, HandleTypes
<1>5. Maps(hs, 1 .. n, HandleType)
  BY <1>2, <1>4 DEF Maps
<1>6. hs \in Seq(HandleType) /\ Len(hs) = n
  BY <1>1, <1>5, SequenceOf
<1>7. \A i \in 1 .. n : hs[i] = Strings!Handle(p, offset(i))
  BY <1>2
<1> QED
  BY <1>6, <1>7 DEF hs, n, offset

\* A page of a long string has a handle if it is the first.
LEMMA LongHandles ==
  ASSUME NEW page \in LongPage, NEW p \in Nat \ {0}
  PROVE  /\ Strings!PageHandles(page, p)
              = IF page.kind = "first"
                THEN <<Strings!Handle(p, Strings!HeaderSize)>>
                ELSE <<>>
         /\ Strings!PageHandles(page, p) \in Seq(HandleType)
<1>1. page.kind = "first" \/ page.kind = "next"
  BY DEF LongPage
<1>2. Strings!Handle(p, Strings!HeaderSize) \in HandleType
  BY HandleTypes DEF Strings!HeaderSize
<1> QED
  BY <1>1, <1>2 DEF Strings!PageHandles

\* What can be said of any page that the encoder makes.
AnyPage(page) == GoodPage(page) \/ page \in LongPage

\* Such a page gives handles.
LEMMA AnyHandles ==
  ASSUME NEW page, AnyPage(page), NEW p \in Nat \ {0}
  PROVE  Strings!PageHandles(page, p) \in Seq(HandleType)
BY ShortHandles, LongHandles DEF AnyPage

\* Sequences of such pages.
AllPages(pages) ==
  pages \in Seq(StrPage) /\ \A p \in 1 .. Len(pages) : AnyPage(pages[p])

\* So do the pages behind page n.
LEMMA HandlesBehindType ==
  ASSUME NEW n \in Nat, NEW pages, AllPages(pages)
  PROVE  LET s == [p \in 1 .. Len(pages) |-> Strings!PageHandles(pages[p], n + p)]
         IN  /\ s \in Seq(Seq(HandleType))
             /\ Len(s) = Len(pages)
             /\ Len(pages) \in Nat
             /\ HandlesBehind(n, pages) \in Seq(HandleType)
<1> DEFINE m == Len(pages)
           s == [p \in 1 .. m |-> Strings!PageHandles(pages[p], n + p)]
<1>1. m \in Nat
  BY LenProperties DEF AllPages
<1>2. \A p \in 1 .. m : Strings!PageHandles(pages[p], n + p) \in Seq(HandleType)
  <2> TAKE p \in 1 .. m
  <2>1. n + p \in Nat \ {0}
    BY <1>1
  <2> QED
    BY <2>1, AnyHandles DEF AllPages
<1>3. Maps(s, 1 .. m, Seq(HandleType))
  BY <1>2 DEF Maps
<1> HIDE DEF s
<1>4. s \in Seq(Seq(HandleType)) /\ Len(s) = m
  BY <1>1, <1>3, SequenceOf
<1>5. FlattenSeq(s) \in Seq(HandleType)
  BY <1>4, FlattenPlaces
<1> QED
  BY <1>1, <1>4, <1>5 DEF HandlesBehind, s

\* A scan's handles.
LEMMA HandlesAreBehindNone ==
  ASSUME NEW pages, AllPages(pages)
  PROVE  Strings!Handles(pages) = HandlesBehind(0, pages)
<1>1. DOMAIN pages = 1 .. Len(pages) /\ Len(pages) \in Nat
  BY LenProperties DEF AllPages
<1>2. \A p \in 1 .. Len(pages) : 0 + p = p
  BY <1>1
<1>3. [p \in DOMAIN pages |-> Strings!PageHandles(pages[p], p)]
        = [p \in 1 .. Len(pages) |-> Strings!PageHandles(pages[p], 0 + p)]
  BY <1>1, <1>2
<1>4. \A s : Strings!FlattenSeq(s) = FlattenSeq(s)
  BY DEF Strings!FlattenSeq, FlattenSeq
<1> QED
  BY <1>3, <1>4 DEF Strings!Handles, HandlesBehind

\* More pages have their handles behind those of the others.
LEMMA HandlesConcat ==
  ASSUME NEW p, AllPages(p), NEW q, AllPages(q)
  PROVE  /\ AllPages(p \o q)
         /\ Strings!Handles(p \o q) = Strings!Handles(p) \o HandlesBehind(Len(p), q)
         /\ Strings!Handles(p) \in Seq(HandleType)
         /\ HandlesBehind(Len(p), q) \in Seq(HandleType)
<1> DEFINE m == Len(p)
           n == Len(q)
           u == p \o q
           a == [i \in 1 .. m |-> Strings!PageHandles(p[i], 0 + i)]
           b == [i \in 1 .. n |-> Strings!PageHandles(q[i], m + i)]
           c == [i \in 1 .. Len(u) |-> Strings!PageHandles(u[i], 0 + i)]
<1>1. p \in Seq(StrPage) /\ q \in Seq(StrPage) /\ m \in Nat /\ n \in Nat
  BY LenProperties DEF AllPages
<1>2. /\ u \in Seq(StrPage) /\ Len(u) = m + n
      /\ \A i \in 1 .. m + n : u[i] = IF i <= m THEN p[i] ELSE q[i - m]
  BY <1>1, ConcatProperties
<1> HIDE DEF u
<1>3. AllPages(u)
  <2>1. ASSUME NEW i \in 1 .. m + n
        PROVE  AnyPage(u[i])
    <3>1. CASE i <= m
      <4>1. i \in 1 .. m
        BY <1>1, <3>1
      <4> QED
        BY <1>2, <3>1, <4>1 DEF AllPages
    <3>2. CASE ~(i <= m)
      <4>1. i - m \in 1 .. n
        BY <1>1, <3>2
      <4> QED
        BY <1>2, <3>2, <4>1 DEF AllPages
    <3> QED
      BY <3>1, <3>2
  <2> QED
    BY <1>2, <2>1 DEF AllPages
<1>4. a \in Seq(Seq(HandleType)) /\ Len(a) = m /\ HandlesBehind(0, p) = FlattenSeq(a)
  BY HandlesBehindType DEF HandlesBehind
<1>5. b \in Seq(Seq(HandleType)) /\ Len(b) = n /\ HandlesBehind(m, q) = FlattenSeq(b)
  BY <1>1, HandlesBehindType DEF HandlesBehind
<1>6. c \in Seq(Seq(HandleType)) /\ Len(c) = m + n /\ HandlesBehind(0, u) = FlattenSeq(c)
  BY <1>2, <1>3, HandlesBehindType DEF HandlesBehind
<1>7. /\ \A i \in 1 .. m : a[i] = Strings!PageHandles(p[i], i)
      /\ \A i \in 1 .. n : b[i] = Strings!PageHandles(q[i], m + i)
      /\ \A i \in 1 .. m + n : c[i] = Strings!PageHandles(u[i], i)
  BY <1>1, <1>2
<1> HIDE DEF a, b, c
<1>8. a \o b = c
  <2>1. /\ a \o b \in Seq(Seq(HandleType)) /\ Len(a \o b) = m + n
        /\ \A i \in 1 .. m + n : (a \o b)[i] = IF i <= m THEN a[i] ELSE b[i - m]
    <3>1. a \in Seq(Seq(HandleType)) /\ b \in Seq(Seq(HandleType)) /\ Len(a) = m /\ Len(b) = n
      BY <1>4, <1>5
    <3> HIDE DEF m, n
    <3>2. /\ a \o b \in Seq(Seq(HandleType)) /\ Len(a \o b) = Len(a) + Len(b)
          /\ \A i \in 1 .. Len(a) + Len(b) :
               (a \o b)[i] = IF i <= Len(a) THEN a[i] ELSE b[i - Len(a)]
      BY <3>1, ConcatProperties
    <3> QED
      BY <3>1, <3>2
  <2>2. \A i \in 1 .. m + n : (a \o b)[i] = c[i]
    <3> TAKE i \in 1 .. m + n
    <3>1. CASE i <= m
      <4>1. i \in 1 .. m
        BY <1>1, <3>1
      <4> QED
        BY <1>2, <1>7, <2>1, <3>1, <4>1
    <3>2. CASE ~(i <= m)
      <4>1. i - m \in 1 .. n /\ m + (i - m) = i
        BY <1>1, <3>2
      <4> QED
        BY <1>2, <1>7, <2>1, <3>2, <4>1
    <3> QED
      BY <3>1, <3>2
  <2> QED
    BY <1>6, <2>1, <2>2, SeqEqual
<1>9. FlattenSeq(a \o b) = FlattenSeq(a) \o FlattenSeq(b)
  BY <1>4, <1>5, FlattenConcat
<1>10. HandlesBehind(0, u) = HandlesBehind(0, p) \o HandlesBehind(m, q)
  BY <1>4, <1>5, <1>6, <1>8, <1>9, Zenon
<1>11. Strings!Handles(u) = HandlesBehind(0, u) /\ Strings!Handles(p) = HandlesBehind(0, p)
  BY <1>3, HandlesAreBehindNone
<1>12. HandlesBehind(0, p) \in Seq(HandleType) /\ HandlesBehind(m, q) \in Seq(HandleType)
  BY <1>1, HandlesBehindType
<1> QED
  BY <1>3, <1>10, <1>11, <1>12 DEF u, m

\* No pages have no handles.
LEMMA HandlesOfNone ==
  /\ AllPages(<<>>)
  /\ Strings!Handles(<<>>) = <<>>
<1>1. <<>> \in Seq(StrPage) /\ Len(<<>>) = 0
  BY EmptySeq
<1>2. AllPages(<<>>)
  BY <1>1 DEF AllPages
<1>3. [p \in 1 .. Len(<<>>) |-> Strings!PageHandles(<<>>[p], 0 + p)] = <<>>
  <2> DEFINE s == [p \in 1 .. Len(<<>>) |-> Strings!PageHandles(<<>>[p], 0 + p)]
  <2>1. s \in Seq(Seq(HandleType)) /\ Len(s) = 0
    BY <1>1, <1>2, HandlesBehindType
  <2> HIDE DEF s
  <2>2. s = <<>>
    BY <2>1, EmptySeq
  <2> QED
    BY <2>2 DEF s
<1>4. HandlesBehind(0, <<>>) = <<>>
  BY <1>3, FlattenEmpty DEF HandlesBehind
<1> QED
  BY <1>2, <1>4, HandlesAreBehindNone

\* The handles of one page of short strings.
LEMMA HandlesOfShort ==
  ASSUME NEW page, GoodPage(page), NEW n \in Nat
  PROVE  /\ AllPages(<<page>>)
         /\ HandlesBehind(n, <<page>>) = Strings!PageHandles(page, n + 1)
<1> DEFINE q == <<page>>
           h == Strings!PageHandles(page, n + 1)
           s == [p \in 1 .. Len(q) |-> Strings!PageHandles(q[p], n + p)]
<1>1. page \in StrPage
  BY DEF GoodPage, StrPage
<1>2. q \in Seq(StrPage) /\ Len(q) = 1 /\ q[1] = page
  BY <1>1
<1>3. AllPages(q)
  BY <1>2 DEF AllPages, AnyPage
<1>4. h \in Seq(HandleType)
  BY ShortHandles
<1>5. s \in Seq(Seq(HandleType)) /\ Len(s) = 1
  BY <1>2, <1>3, HandlesBehindType
<1>6. s[1] = h
  BY <1>2
<1> HIDE DEF s, h, q
<1>7. s = Append(<<>>, h)
  <2>1. <<>> \in Seq(Seq(HandleType)) /\ Len(<<>>) = 0
    BY EmptySeq
  <2>2. /\ Append(<<>>, h) \in Seq(Seq(HandleType)) /\ Len(Append(<<>>, h)) = 1
        /\ Append(<<>>, h)[1] = h
    BY <1>4, <2>1, AppendProperties
  <2> QED
    BY <1>5, <1>6, <2>2, SeqEqual
<1>8. FlattenSeq(Append(<<>>, h)) = FlattenSeq(<<>>) \o h
  <2>1. <<>> \in Seq(Seq(HandleType))
    BY EmptySeq
  <2> QED
    BY <1>4, <2>1, FlattenAppend
<1>9. FlattenSeq(s) = h
  BY <1>4, <1>7, <1>8, FlattenEmpty, ConcatEmptySeq
<1> QED
  BY <1>3, <1>9 DEF HandlesBehind, s, h, q

\* The handle of a long string, on however many pages.
LEMMA HandlesOfLong ==
  ASSUME NEW str, IsLong(str), NEW n \in Nat
  PROVE  /\ AllPages(Strings!LongPages(str))
         /\ HandlesBehind(n, Strings!LongPages(str))
              = <<Strings!Handle(n + 1, Strings!HeaderSize)>>
<1> DEFINE m == Pieces(str)
           q == Strings!LongPages(str)
           h == <<Strings!Handle(n + 1, Strings!HeaderSize)>>
           s == [p \in 1 .. Len(q) |-> Strings!PageHandles(q[p], n + p)]
           F(j) == FlattenSeq(SubSeq(s, 1, j))
           T == {j \in 0 .. m : F(j) = IF j = 0 THEN <<>> ELSE h}
<1>1. m \in Nat \ {0}
  BY PiecesFacts
<1>2. /\ q \in Seq(StrPage) /\ Len(q) = m
      /\ \A j \in 1 .. m : q[j].kind = (IF j = 1 THEN "first" ELSE "next") /\ q[j] \in LongPage
  BY LongPagesType
<1>3. AllPages(q)
  BY <1>2 DEF AllPages, AnyPage
<1>4. h \in Seq(HandleType)
  <2>1. Strings!Handle(n + 1, Strings!HeaderSize) \in HandleType
    BY HandleTypes DEF Strings!HeaderSize
  <2> QED
    BY <2>1
<1>5. s \in Seq(Seq(HandleType)) /\ Len(s) = m
  BY <1>2, <1>3, HandlesBehindType
<1> HIDE DEF q, m
<1>6. ASSUME NEW j \in 1 .. m
      PROVE  s[j] = IF j = 1 THEN h ELSE <<>>
  <2>1. n + j \in Nat \ {0} /\ q[j] \in LongPage
    BY <1>1, <1>2
  <2>2. Strings!PageHandles(q[j], n + j)
          = IF q[j].kind = "first"
            THEN <<Strings!Handle(n + j, Strings!HeaderSize)>>
            ELSE <<>>
    BY <2>1, LongHandles
  <2>3. s[j] = Strings!PageHandles(q[j], n + j)
    BY <1>2
  <2>4. CASE j = 1
    BY <1>2, <2>2, <2>3, <2>4
  <2>5. CASE j # 1
    <3>1. q[j].kind = "next"
      BY <1>2, <2>5
    <3> QED
      BY <2>2, <2>3, <2>5, <3>1
  <2> QED
    BY <2>4, <2>5
<1> HIDE DEF s, h
<1>7. SubSeq(s, 1, 0) = <<>> /\ SubSeq(s, 1, m) = s
  <2>1. SubSeq(s, 1, 0) = <<>> /\ SubSeq(s, 1, Len(s)) = s
    BY <1>5, PrefixEnds
  <2> QED
    BY <1>5, <2>1
<1>8. 0 \in T
  <2>1. F(0) = <<>>
    BY <1>7, FlattenEmpty
  <2>2. 0 \in 0 .. m
    BY <1>1
  <2> HIDE DEF F
  <2> QED
    BY <2>1, <2>2
<1>9. ASSUME NEW j \in 0 .. m - 1, j \in T
      PROVE  j + 1 \in T
  <2>1. j \in Nat /\ j < Len(s) /\ j + 1 \in 1 .. m /\ j + 1 \in 0 .. m
    BY <1>1, <1>5
  <2>2. /\ SubSeq(s, 1, j) \in Seq(Seq(HandleType)) /\ s[j + 1] \in Seq(HandleType)
        /\ SubSeq(s, 1, j + 1) = Append(SubSeq(s, 1, j), s[j + 1])
    BY <1>5, <2>1, PrefixGrows
  <2>3. F(j + 1) = F(j) \o s[j + 1]
    <3>1. FlattenSeq(Append(SubSeq(s, 1, j), s[j + 1])) = FlattenSeq(SubSeq(s, 1, j)) \o s[j + 1]
      BY <2>2, FlattenAppend
    <3> QED
      BY <2>2, <3>1
  <2> HIDE DEF F
  <2>4. F(j + 1) = h
    <3>1. CASE j = 0
      <4>1. F(j) = <<>>
        BY <1>9, <3>1
      <4>2. s[j + 1] = h
        BY <1>6, <2>1, <3>1
      <4> QED
        BY <1>4, <2>3, <4>1, <4>2, ConcatEmptySeq
    <3>2. CASE j # 0
      <4>1. F(j) = h
        BY <1>9, <3>2
      <4>2. s[j + 1] = <<>>
        BY <1>6, <2>1, <3>2
      <4> QED
        BY <1>4, <2>3, <4>1, <4>2, ConcatEmptySeq
    <3> QED
      BY <3>1, <3>2
  <2>5. j + 1 # 0
    BY <2>1
  <2> QED
    BY <2>1, <2>4, <2>5
<1> HIDE DEF T
<1>10. \A j \in 0 .. m : j \in T
  BY <1>1, <1>8, <1>9, PrefixInduction
<1>11. m \in T
  BY <1>1, <1>10
<1>12. F(m) = h
  <2> HIDE DEF F
  <2> QED
    BY <1>1, <1>11 DEF T
<1>13. FlattenSeq(s) = h
  BY <1>7, <1>12
<1> QED
  BY <1>3, <1>13 DEF HandlesBehind, s, h, q

-----------------------------------------------------------------------------
(* Pages that hold rows                                                    *)

\* A handle's page has the string at the handle's place, ...
OnShort(pages, p, handle, row) ==
  /\ GoodPage(pages[p])
  /\ \E k \in 1 .. Len(pages[p].strings) :
       handle.offset = Strings!OffsetEnd(k - 1) /\ pages[p].strings[k] = row

\* ... or is the first of the string's own.
OnLong(pages, p, handle, row) ==
  /\ IsLong(row)
  /\ handle.offset = Strings!HeaderSize
  /\ p + Pieces(row) - 1 <= Len(pages)
  /\ \A j \in 1 .. Pieces(row) : pages[p + j - 1] = Strings!LongPages(row)[j]
  /\ p + Pieces(row) <= Len(pages) => pages[p + Pieces(row)].kind # "next"

PlacedAt(pages, p, handle, row) ==
  /\ handle.page = (p - 1) % PageIds
  /\ \/ row = Strings!NoString /\ handle.offset = Strings!NullOffset
     \/ row \in RealStr /\ OnShort(pages, p, handle, row)
     \/ row \in RealStr /\ OnLong(pages, p, handle, row)

Placed(pages, handle, row) == \E p \in 1 .. Len(pages) : PlacedAt(pages, p, handle, row)

\* The handle of a string is that of no other row.
Apart(hs, rows) ==
  \A i, j \in 1 .. Len(rows) : i # j /\ rows[i] # Strings!NoString => hs[i] # hs[j]

\* The handles of rows that are on the pages from the one behind n on.
Marks(n, pages, hs, rows) ==
  /\ hs \in Seq(HandleType) /\ rows \in Seq(Strings!Str) /\ Len(hs) = Len(rows)
  /\ \A i \in 1 .. Len(rows) : Placed(pages, hs[i], rows[i])
  /\ Len(pages) <= PageIds =>
       /\ \A i \in 1 .. Len(rows) : n <= hs[i].page /\ hs[i].page < Len(pages)
       /\ Apart(hs, rows)

\* from_columnar adds the rows to those it has.
Reads(pages, rows) ==
  \A base \in Seq(Strings!Str) : FoldLeft(AddTo, base, pages) = base \o rows

\* The pages of an encoder, and the rows it was given.
Holds(pages, rows) ==
  /\ AllPages(pages)
  /\ rows \in Seq(Strings!Str)
  /\ Reads(pages, rows)
  /\ Marks(0, pages, Strings!Handles(pages), rows)

\* Pages behind others that do not go on with their last string.
Begins(pages) == AllPages(pages) /\ Len(pages) # 0 /\ pages[1].kind # "next"

\* A handle stays good when such pages come behind.
LEMMA PlacedStays ==
  ASSUME NEW pages, AllPages(pages), NEW more, Begins(more),
         NEW handle, NEW row, Placed(pages, handle, row)
  PROVE  Placed(pages \o more, handle, row)
<1> DEFINE m == Len(pages)
           n == Len(more)
           u == pages \o more
<1>1. /\ pages \in Seq(StrPage) /\ more \in Seq(StrPage) /\ m \in Nat /\ n \in Nat \ {0}
      /\ more[1].kind # "next"
  BY LenProperties DEF AllPages, Begins
<1>2. /\ Len(u) = m + n
      /\ \A i \in 1 .. m + n : u[i] = IF i <= m THEN pages[i] ELSE more[i - m]
  BY <1>1, ConcatProperties
<1>3. PICK p \in 1 .. m : PlacedAt(pages, p, handle, row)
  BY DEF Placed
<1> HIDE DEF u, m, n
<1>4. p \in 1 .. Len(u) /\ u[p] = pages[p]
  BY <1>1, <1>2
<1>5. OnShort(pages, p, handle, row) => OnShort(u, p, handle, row)
  BY <1>4 DEF OnShort
<1>6. ASSUME OnLong(pages, p, handle, row)
      PROVE  OnLong(u, p, handle, row)
  <2> DEFINE d == Pieces(row)
  <2>1. /\ IsLong(row) /\ handle.offset = Strings!HeaderSize
        /\ p + d - 1 <= m
        /\ \A j \in 1 .. d : pages[p + j - 1] = Strings!LongPages(row)[j]
        /\ p + d <= m => pages[p + d].kind # "next"
    BY <1>6 DEF OnLong, m
  <2>2. d \in Nat \ {0}
    BY <2>1, PiecesFacts
  <2> HIDE DEF d
  <2>3. p + d - 1 <= Len(u)
    BY <1>1, <1>2, <2>1, <2>2
  <2>4. \A j \in 1 .. d : u[p + j - 1] = Strings!LongPages(row)[j]
    <3> TAKE j \in 1 .. d
    <3>1. p + j - 1 \in 1 .. m + n /\ p + j - 1 <= m
      BY <1>1, <2>1, <2>2
    <3> QED
      BY <1>2, <2>1, <3>1
  <2>5. ASSUME p + d <= Len(u)
        PROVE  u[p + d].kind # "next"
    <3>1. p + d \in 1 .. m + n
      BY <1>1, <1>2, <2>2, <2>5
    <3>2. CASE p + d <= m
      BY <1>2, <2>1, <3>1, <3>2
    <3>3. CASE ~(p + d <= m)
      <4>1. (p + d) - m = 1
        BY <1>1, <2>1, <2>2, <3>3
      <4> QED
        BY <1>1, <1>2, <3>1, <3>3, <4>1
    <3> QED
      BY <3>2, <3>3
  <2> QED
    BY <2>1, <2>3, <2>4, <2>5 DEF OnLong, d
<1>7. PlacedAt(u, p, handle, row)
  BY <1>3, <1>5, <1>6 DEF PlacedAt
<1> QED
  BY <1>4, <1>7 DEF Placed, u

\* The handles of more rows on more pages.
LEMMA MarksMore ==
  ASSUME NEW pages, AllPages(pages), NEW more, Begins(more),
         NEW hs, NEW rows, Marks(0, pages, hs, rows),
         NEW ht, NEW new, Marks(Len(pages), pages \o more, ht, new)
  PROVE  Marks(0, pages \o more, hs \o ht, rows \o new)
<1> DEFINE u == pages \o more
           l == Len(pages)
           m == Len(rows)
           n == Len(new)
           h == hs \o ht
           r == rows \o new
<1>1. /\ hs \in Seq(HandleType) /\ ht \in Seq(HandleType)
      /\ rows \in Seq(Strings!Str) /\ new \in Seq(Strings!Str)
      /\ m \in Nat /\ n \in Nat /\ Len(hs) = m /\ Len(ht) = n
  BY LenProperties DEF Marks
<1>2. l \in Nat /\ Len(u) \in Nat /\ l <= Len(u)
  <2>1. pages \in Seq(StrPage) /\ more \in Seq(StrPage)
    BY DEF AllPages, Begins
  <2> QED
    BY <2>1, LenProperties, ConcatProperties
<1>3. /\ h \in Seq(HandleType) /\ Len(h) = m + n
      /\ \A i \in 1 .. m + n : h[i] = IF i <= m THEN hs[i] ELSE ht[i - m]
  <2>1. /\ h \in Seq(HandleType) /\ Len(h) = Len(hs) + Len(ht)
        /\ \A i \in 1 .. Len(hs) + Len(ht) : h[i] = IF i <= Len(hs) THEN hs[i] ELSE ht[i - Len(hs)]
    BY <1>1, ConcatProperties
  <2> QED
    BY <1>1, <2>1
<1>4. /\ r \in Seq(Strings!Str) /\ Len(r) = m + n
      /\ \A i \in 1 .. m + n : r[i] = IF i <= m THEN rows[i] ELSE new[i - m]
  BY <1>1, ConcatProperties
<1>5. \A i \in 1 .. m : Placed(u, hs[i], rows[i])
  BY PlacedStays DEF Marks
<1>6. \A i \in 1 .. n : Placed(u, ht[i], new[i])
  BY DEF Marks
<1>7. Len(u) <= PageIds =>
        /\ \A i \in 1 .. m : hs[i].page \in Nat /\ hs[i].page < l
        /\ \A i \in 1 .. n : l <= ht[i].page /\ ht[i].page < Len(u)
        /\ Apart(hs, rows) /\ Apart(ht, new)
  <2>1. \A i \in 1 .. m : hs[i].page \in Nat
    <3> TAKE i \in 1 .. m
    <3>1. hs[i] \in HandleType
      BY <1>1, ElementOfSeq
    <3> QED
      BY <3>1 DEF HandleType
  <2>2. Len(u) <= PageIds => l <= PageIds
    BY <1>2, StringFacts
  <2> QED
    BY <2>1, <2>2 DEF Marks
<1> HIDE DEF u, l, m, n, h, r
<1>8. \A i \in 1 .. m + n : i \in 1 .. m \/ (~(i <= m) /\ i - m \in 1 .. n)
  BY <1>1
<1>9. \A i \in 1 .. m + n : Placed(u, h[i], r[i])
  <2> TAKE i \in 1 .. m + n
  <2>1. CASE i \in 1 .. m
    <3>1. i <= m
      BY <1>1, <2>1
    <3>2. h[i] = hs[i] /\ r[i] = rows[i]
      BY <1>3, <1>4, <3>1
    <3> QED
      BY <1>5, <2>1, <3>2
  <2>2. CASE ~(i <= m) /\ i - m \in 1 .. n
    <3>1. h[i] = ht[i - m] /\ r[i] = new[i - m]
      BY <1>3, <1>4, <2>2
    <3> QED
      BY <1>6, <2>2, <3>1
  <2> QED
    BY <1>8, <2>1, <2>2
<1>10. ASSUME Len(u) <= PageIds
       PROVE  /\ \A i \in 1 .. m + n : 0 <= h[i].page /\ h[i].page < Len(u)
              /\ \A i, j \in 1 .. m + n : i # j /\ r[i] # Strings!NoString => h[i] # h[j]
  <2>1. \A i \in 1 .. m : hs[i].page \in Nat /\ hs[i].page < l
    BY <1>7, <1>10
  <2>2. \A i \in 1 .. n : l <= ht[i].page /\ ht[i].page < Len(u)
    BY <1>7, <1>10
  <2>3. /\ \A i, j \in 1 .. m : i # j /\ rows[i] # Strings!NoString => hs[i] # hs[j]
        /\ \A i, j \in 1 .. n : i # j /\ new[i] # Strings!NoString => ht[i] # ht[j]
    BY <1>7, <1>10 DEF Apart, m, n
  <2>4. \A i \in 1 .. n : ht[i].page \in Nat
    <3> TAKE i \in 1 .. n
    <3>1. ht[i] \in HandleType
      BY <1>1, ElementOfSeq
    <3> QED
      BY <3>1 DEF HandleType
  <2>5. \A i \in 1 .. m : h[i] = hs[i] /\ r[i] = rows[i]
    BY <1>1, <1>3, <1>4
  <2>6. \A i \in 1 .. m + n : ~(i <= m) => h[i] = ht[i - m] /\ r[i] = new[i - m]
    BY <1>3, <1>4
  <2>7. \A i \in 1 .. m + n : 0 <= h[i].page /\ h[i].page < Len(u)
    <3> TAKE i \in 1 .. m + n
    <3>1. CASE i \in 1 .. m
      BY <1>2, <2>1, <2>5, <3>1
    <3>2. CASE ~(i <= m) /\ i - m \in 1 .. n
      BY <2>2, <2>4, <2>6, <3>2
    <3> QED
      BY <1>8, <3>1, <3>2
  <2>8. \A i \in 1 .. m : \A j \in 1 .. n : hs[i] # ht[j]
    <3> TAKE i \in 1 .. m
    <3> TAKE j \in 1 .. n
    <3>1. hs[i].page < l /\ l <= ht[j].page /\ hs[i].page \in Nat /\ ht[j].page \in Nat
      BY <2>1, <2>2, <2>4
    <3>2. hs[i].page # ht[j].page
      BY <1>2, <3>1
    <3> QED
      BY <3>2
  <2>9. \A i, j \in 1 .. m + n : i # j /\ r[i] # Strings!NoString => h[i] # h[j]
    <3> SUFFICES ASSUME NEW i \in 1 .. m + n, NEW j \in 1 .. m + n, i # j,
                        r[i] # Strings!NoString
                 PROVE  h[i] # h[j]
      OBVIOUS
    <3>1. CASE i \in 1 .. m /\ j \in 1 .. m
      BY <2>3, <2>5, <3>1
    <3>2. CASE i \in 1 .. m /\ ~(j <= m) /\ j - m \in 1 .. n
      BY <2>5, <2>6, <2>8, <3>2
    <3>3. CASE ~(i <= m) /\ i - m \in 1 .. n /\ j \in 1 .. m
      BY <2>5, <2>6, <2>8, <3>3
    <3>4. CASE ~(i <= m) /\ i - m \in 1 .. n /\ ~(j <= m) /\ j - m \in 1 .. n
      <4>1. i - m # j - m
        BY <1>1
      <4>2. new[i - m] # Strings!NoString
        BY <2>6, <3>4
      <4>3. ht[i - m] # ht[j - m]
        BY <2>3, <3>4, <4>1, <4>2
      <4> QED
        BY <2>6, <3>4, <4>3
    <3> QED
      BY <1>8, <3>1, <3>2, <3>3, <3>4
  <2> QED
    BY <2>7, <2>9
<1>11. Len(u) <= PageIds =>
         (\A i \in 1 .. Len(r) : 0 <= h[i].page /\ h[i].page < Len(u)) /\ Apart(h, r)
  BY <1>4, <1>10 DEF Apart
<1>12. \A i \in 1 .. Len(r) : Placed(u, h[i], r[i])
  BY <1>4, <1>9
<1>13. Marks(0, u, h, r)
  BY <1>3, <1>4, <1>11, <1>12 DEF Marks
<1> QED
  BY <1>13 DEF u, h, r

\* More rows on more pages.
LEMMA HoldsMore ==
  ASSUME NEW pages, NEW rows, Holds(pages, rows), NEW more, Begins(more),
         NEW new \in Seq(Strings!Str), Reads(more, new),
         Marks(Len(pages), pages \o more, HandlesBehind(Len(pages), more), new)
  PROVE  Holds(pages \o more, rows \o new)
<1>1. AllPages(pages) /\ AllPages(more) /\ rows \in Seq(Strings!Str)
  BY DEF Holds, Begins
<1>2. pages \in Seq(StrPage) /\ more \in Seq(StrPage)
  BY <1>1 DEF AllPages
<1>3. /\ AllPages(pages \o more)
      /\ Strings!Handles(pages \o more)
           = Strings!Handles(pages) \o HandlesBehind(Len(pages), more)
  BY <1>1, HandlesConcat
<1>4. Reads(pages \o more, rows \o new)
  <2> SUFFICES ASSUME NEW base \in Seq(Strings!Str)
               PROVE  FoldLeft(AddTo, base, pages \o more) = base \o (rows \o new)
    BY DEF Reads
  <2>1. FoldLeft(AddTo, base, pages \o more)
          = FoldLeft(AddTo, FoldLeft(AddTo, base, pages), more)
    BY <1>2, AddedConcat
  <2>2. FoldLeft(AddTo, base, pages) = base \o rows
    BY DEF Holds, Reads
  <2>3. base \o rows \in Seq(Strings!Str)
    BY <1>1, ConcatProperties
  <2>4. FoldLeft(AddTo, base \o rows, more) = (base \o rows) \o new
    BY <2>3 DEF Reads
  <2>5. (base \o rows) \o new = base \o (rows \o new)
    BY <1>1, ConcatAssociative
  <2> QED
    BY <2>1, <2>2, <2>4, <2>5
<1>5. rows \o new \in Seq(Strings!Str)
  BY <1>1, ConcatProperties
<1>6. Marks(0, pages, Strings!Handles(pages), rows)
  BY DEF Holds
<1>7. Marks(0, pages \o more,
            Strings!Handles(pages) \o HandlesBehind(Len(pages), more), rows \o new)
  BY <1>1, <1>6, MarksMore
<1> QED
  BY <1>3, <1>4, <1>5, <1>7 DEF Holds

\* No pages hold no rows.
LEMMA HoldsNone == Holds(<<>>, <<>>)
<1>1. /\ <<>> \in Seq(StrPage) /\ <<>> \in Seq(HandleType) /\ <<>> \in Seq(Strings!Str)
      /\ Len(<<>>) = 0
  BY EmptySeq
<1>2. AllPages(<<>>) /\ Strings!Handles(<<>>) = <<>>
  BY HandlesOfNone
<1>3. Reads(<<>>, <<>>)
  BY AddedEmpty, ConcatEmptySeq DEF Reads
<1>4. Marks(0, <<>>, <<>>, <<>>)
  BY <1>1 DEF Marks, Apart
<1> QED
  BY <1>1, <1>2, <1>3, <1>4 DEF Holds

\* The strings of two rows of a page are not the same one.
LEMMA CountsApart ==
  ASSUME NEW page, GoodPage(page), NEW i \in 1 .. Len(page.bits), NEW j \in 1 .. Len(page.bits),
         i # j, page.bits[i], page.bits[j]
  PROVE  Cardinality(Set(page.bits, i)) # Cardinality(Set(page.bits, j))
<1>1. page.bits \in Seq(BOOLEAN) /\ Len(page.bits) \in Nat
  BY ShortParts DEF GoodPage
<1>2. ASSUME NEW a \in 1 .. Len(page.bits), NEW b \in 1 .. Len(page.bits), a < b,
             page.bits[b]
      PROVE  Cardinality(Set(page.bits, a)) # Cardinality(Set(page.bits, b))
  <2>1. b \in 0 .. Len(page.bits)
    BY <1>1
  <2>2. IsFiniteSet(Set(page.bits, b))
    BY <1>1, <2>1, SetSize
  <2>3. Set(page.bits, a) \subseteq Set(page.bits, b)
    BY <1>1, <1>2 DEF Set
  <2>4. b \in Set(page.bits, b) /\ b \notin Set(page.bits, a)
    BY <1>1, <1>2 DEF Set
  <2>5. Cardinality(Set(page.bits, a)) = Cardinality(Set(page.bits, b))
          => Set(page.bits, a) = Set(page.bits, b)
    BY <2>2, <2>3, FS_Subset
  <2> QED
    BY <2>4, <2>5
<1>3. i < j \/ j < i
  BY <1>1
<1> QED
  BY <1>2, <1>3

\* A page of short strings holds its rows.
LEMMA HoldsShort ==
  ASSUME NEW pages, NEW rows, Holds(pages, rows), NEW page, GoodPage(page)
  PROVE  Holds(Append(pages, page), rows \o RowsOf(page))
<1> DEFINE n == Len(pages)
           more == <<page>>
           u == pages \o more
           new == RowsOf(page)
           hs == HandlesBehind(n, more)
           m == Len(page.bits)
           count(i) == Cardinality(Set(page.bits, i))
           offset(i) == IF page.bits[i] THEN Strings!OffsetEnd(count(i) - 1)
                        ELSE Strings!NullOffset
<1>1. /\ AllPages(pages) /\ pages \in Seq(StrPage) /\ n \in Nat
      /\ page \in StrPage /\ page.kind = "short" /\ m \in Nat
  BY LenProperties, ShortParts DEF Holds, AllPages, GoodPage, StrPage
<1>2. u = Append(pages, page)
  BY <1>1
<1>3. Len(u) = n + 1 /\ u[n + 1] = page
  BY <1>1, <1>2, AppendProperties
<1>4. Begins(more)
  <2>1. AllPages(more)
    BY HandlesOfShort
  <2> QED
    BY <1>1, <2>1 DEF Begins
<1>5. /\ new \in Seq(Strings!Str) /\ Len(new) = m
      /\ \A i \in 1 .. m : /\ new[i] = RowAt(page, i)
                           /\ page.bits[i] => RowAt(page, i) \in RealStr
  BY RowsOfType
<1>6. Reads(more, new)
  <2> SUFFICES ASSUME NEW base \in Seq(Strings!Str)
               PROVE  FoldLeft(AddTo, base, more) = base \o new
    BY DEF Reads
  <2>1. <<>> \in Seq(StrPage) /\ more = Append(<<>>, page)
    BY <1>1
  <2>2. FoldLeft(AddTo, base, Append(<<>>, page)) = AddTo(FoldLeft(AddTo, base, <<>>), page)
    BY <1>1, <2>1, AddedAppend
  <2>3. FoldLeft(AddTo, base, <<>>) = base
    BY AddedEmpty
  <2>4. AddTo(base, page) = base \o new
    BY AddShort
  <2> QED
    BY <2>1, <2>2, <2>3, <2>4
<1>7. /\ hs \in Seq(HandleType) /\ Len(hs) = m
      /\ \A i \in 1 .. m : hs[i] = Strings!Handle(n + 1, offset(i))
  <2>1. hs = Strings!PageHandles(page, n + 1)
    BY <1>1, HandlesOfShort
  <2>2. n + 1 \in Nat \ {0}
    BY <1>1
  <2> QED
    BY <2>1, <2>2, ShortHandles
<1>8. ASSUME NEW i \in 1 .. m
      PROVE  /\ page.bits[i] => count(i) \in 1 .. Len(page.strings)
             /\ page.bits[i] => count(i) - 1 \in Nat
             /\ page.bits[i] \in BOOLEAN
             /\ offset(i) \in Nat
  <2>1. page.bits[i] \in BOOLEAN /\ (page.bits[i] => count(i) \in 1 .. Len(page.strings))
    BY CountedAt
  <2>2. Len(page.strings) \in Nat
    BY ShortParts DEF GoodPage
  <2> HIDE DEF count
  <2>3. page.bits[i] => count(i) - 1 \in Nat
    BY <2>1, <2>2
  <2>4. Strings!NullOffset \in Nat
    BY DEF Strings!NullOffset
  <2>5. page.bits[i] => Strings!OffsetEnd(count(i) - 1) \in Nat
    BY <2>3, OffsetFacts
  <2> QED
    BY <2>1, <2>3, <2>4, <2>5
<1>9. ASSUME NEW i \in 1 .. m
      PROVE  /\ hs[i].page = ((n + 1) - 1) % PageIds
             /\ hs[i].offset = offset(i)
             /\ n + 1 <= PageIds => hs[i].page = n
  <2>1. n + 1 \in Nat \ {0} /\ (n + 1) - 1 = n
    BY <1>1
  <2>2. offset(i) \in Nat
    BY <1>8
  <2> HIDE DEF offset
  <2>3. hs[i] = Strings!Handle(n + 1, offset(i))
    BY <1>7
  <2> QED
    BY <2>1, <2>2, <2>3, HandleTypes
<1> HIDE DEF u, more, hs
<1>10. ASSUME NEW i \in 1 .. m
       PROVE  Placed(u, hs[i], new[i])
  <2>1. n + 1 \in 1 .. Len(u)
    BY <1>1, <1>3
  <2>2. CASE page.bits[i]
    <3>1. count(i) \in 1 .. Len(u[n + 1].strings)
      BY <1>3, <1>8, <2>2
    <3>2. new[i] = u[n + 1].strings[count(i)] /\ new[i] \in RealStr
      BY <1>3, <1>5, <2>2 DEF RowAt, StringAt
    <3>3. hs[i].offset = Strings!OffsetEnd(count(i) - 1)
      BY <1>9, <2>2
    <3> HIDE DEF count
    <3>4. OnShort(u, n + 1, hs[i], new[i])
      BY <1>3, <3>1, <3>2, <3>3 DEF OnShort
    <3>5. PlacedAt(u, n + 1, hs[i], new[i])
      BY <1>9, <3>2, <3>4 DEF PlacedAt
    <3> QED
      BY <2>1, <3>5 DEF Placed
  <2>3. CASE ~page.bits[i]
    <3>1. new[i] = Strings!NoString /\ hs[i].offset = Strings!NullOffset
      BY <1>5, <1>9, <2>3 DEF RowAt
    <3>2. PlacedAt(u, n + 1, hs[i], new[i])
      BY <1>9, <3>1 DEF PlacedAt
    <3> QED
      BY <2>1, <3>2 DEF Placed
  <2> QED
    BY <2>2, <2>3
<1>11. ASSUME NEW i \in 1 .. m, NEW j \in 1 .. m, i # j, new[i] # Strings!NoString
       PROVE  hs[i] # hs[j]
  <2>1. page.bits[i]
    BY <1>5, <1>11 DEF RowAt
  <2>2. hs[i].offset = offset(i) /\ hs[j].offset = offset(j)
    BY <1>9
  <2>3. offset(i) # offset(j)
    <3>1. count(i) - 1 \in Nat
      BY <1>8, <2>1
    <3>2. CASE page.bits[j]
      <4>1. count(j) - 1 \in Nat
        BY <1>8, <3>2
      <4>2. count(i) # count(j)
        BY <1>11, <2>1, <3>2, CountsApart
      <4>3. count(i) \in Int /\ count(j) \in Int
        <5>1. Len(page.strings) \in Nat
          BY ShortParts DEF GoodPage
        <5>2. count(i) \in 1 .. Len(page.strings) /\ count(j) \in 1 .. Len(page.strings)
          BY <1>8, <2>1, <3>2
        <5> HIDE DEF count
        <5> QED
          BY <5>1, <5>2
      <4> HIDE DEF count
      <4>4. Strings!OffsetEnd(count(i) - 1) = 4 + 2 * (count(i) - 1)
        BY <3>1, OffsetFacts
      <4>5. Strings!OffsetEnd(count(j) - 1) = 4 + 2 * (count(j) - 1)
        BY <4>1, OffsetFacts
      <4>6. 4 + 2 * (count(i) - 1) # 4 + 2 * (count(j) - 1)
        BY <4>2, <4>3
      <4>7. Strings!OffsetEnd(count(i) - 1) # Strings!OffsetEnd(count(j) - 1)
        BY <4>4, <4>5, <4>6
      <4> QED
        BY <2>1, <3>2, <4>7
    <3>3. CASE ~page.bits[j]
      <4> HIDE DEF count
      <4>1. Strings!OffsetEnd(count(i) - 1) # Strings!NullOffset
        BY <3>1, OffsetFacts
      <4> QED
        BY <2>1, <3>3, <4>1
    <3> QED
      BY <3>2, <3>3
  <2> QED
    BY <2>2, <2>3
<1> HIDE DEF offset, count, m, new
<1>12. Marks(n, u, hs, new)
  <2>1. Apart(hs, new)
    BY <1>5, <1>11 DEF Apart
  <2>2. Len(u) <= PageIds =>
          \A i \in 1 .. Len(new) : n <= hs[i].page /\ hs[i].page < Len(u)
    BY <1>1, <1>3, <1>5, <1>9
  <2> QED
    BY <1>5, <1>7, <1>10, <2>1, <2>2 DEF Marks
<1>13. Holds(u, rows \o new)
  <2> HIDE DEF n
  <2> QED
    BY <1>4, <1>5, <1>6, <1>12, HoldsMore DEF u, hs, n
<1> QED
  BY <1>2, <1>13 DEF new, u

\* The pages of a long string hold one row.
LEMMA HoldsLong ==
  ASSUME NEW pages, NEW rows, Holds(pages, rows), NEW str, IsLong(str)
  PROVE  Holds(pages \o Strings!LongPages(str), Append(rows, str))
<1> DEFINE n == Len(pages)
           m == Pieces(str)
           more == Strings!LongPages(str)
           u == pages \o more
           new == <<str>>
           hs == HandlesBehind(n, more)
           h == Strings!Handle(n + 1, Strings!HeaderSize)
<1>1. AllPages(pages) /\ pages \in Seq(StrPage) /\ n \in Nat /\ rows \in Seq(Strings!Str)
  BY LenProperties DEF Holds, AllPages
<1>2. m \in Nat \ {0}
  BY PiecesFacts
<1>3. /\ more \in Seq(StrPage) /\ Len(more) = m
      /\ \A j \in 1 .. m : more[j].kind = IF j = 1 THEN "first" ELSE "next"
  BY LongPagesType
<1>4. str \in RealStr /\ str \in Strings!Str
  BY RowTypes DEF IsLong
<1>5. new \in Seq(Strings!Str) /\ Len(new) = 1 /\ new[1] = str /\ rows \o new = Append(rows, str)
  BY <1>1, <1>4
<1>6. AllPages(more) /\ hs = <<h>>
  BY <1>1, HandlesOfLong
<1>7. Begins(more)
  <2>1. 1 \in 1 .. m
    BY <1>2
  <2> QED
    BY <1>2, <1>3, <1>6, <2>1 DEF Begins
<1>8. Reads(more, new)
  <2> SUFFICES ASSUME NEW base \in Seq(Strings!Str)
               PROVE  FoldLeft(AddTo, base, more) = base \o new
    BY DEF Reads
  <2>1. FoldLeft(AddTo, base, more) = Append(base, str)
    BY ReadLong
  <2>2. Append(base, str) = base \o new
    BY <1>4
  <2> QED
    BY <2>1, <2>2
<1>9. /\ Len(u) = n + m
      /\ \A i \in 1 .. n + m : u[i] = IF i <= n THEN pages[i] ELSE more[i - n]
  <2>1. /\ Len(u) = Len(pages) + Len(more)
        /\ \A i \in 1 .. Len(pages) + Len(more) :
             u[i] = IF i <= Len(pages) THEN pages[i] ELSE more[i - Len(pages)]
    BY <1>1, <1>3, ConcatProperties
  <2> QED
    BY <1>3, <2>1
<1>10. /\ h \in HandleType /\ h.page = ((n + 1) - 1) % PageIds /\ h.offset = Strings!HeaderSize
       /\ n + 1 <= PageIds => h.page = n
  <2>1. n + 1 \in Nat \ {0} /\ Strings!HeaderSize \in Nat /\ (n + 1) - 1 = n
    BY <1>1 DEF Strings!HeaderSize
  <2> QED
    BY <2>1, HandleTypes
<1>11. hs \in Seq(HandleType) /\ Len(hs) = 1 /\ hs[1] = h
  <2> HIDE DEF h, hs
  <2> QED
    BY <1>6, <1>10
<1> HIDE DEF u, more, hs, h, m
<1>12. Placed(u, h, str)
  <2>1. n + 1 \in 1 .. Len(u)
    BY <1>1, <1>2, <1>9
  <2>2. \A j \in 1 .. m : u[(n + 1) + j - 1] = more[j]
    <3> TAKE j \in 1 .. m
    <3>1. (n + 1) + j - 1 \in 1 .. n + m /\ ~((n + 1) + j - 1 <= n)
          /\ ((n + 1) + j - 1) - n = j
      BY <1>1, <1>2
    <3> QED
      BY <1>9, <3>1
  <2>3. (n + 1) + m - 1 <= Len(u) /\ ~((n + 1) + m <= Len(u))
    BY <1>1, <1>2, <1>9
  <2>4. OnLong(u, n + 1, h, str)
    BY <1>10, <2>2, <2>3 DEF OnLong, more, m
  <2>5. PlacedAt(u, n + 1, h, str)
    BY <1>4, <1>10, <2>4 DEF PlacedAt
  <2> QED
    BY <2>1, <2>5 DEF Placed
<1>13. Marks(n, u, hs, new)
  <2>1. \A i \in 1 .. Len(new) : i = 1
    BY <1>5
  <2>2. Apart(hs, new)
    BY <2>1 DEF Apart
  <2>3. \A i \in 1 .. Len(new) : Placed(u, hs[i], new[i])
    BY <1>5, <1>11, <1>12, <2>1
  <2>4. Len(u) <= PageIds =>
          \A i \in 1 .. Len(new) : n <= hs[i].page /\ hs[i].page < Len(u)
    <3>1. Len(u) <= PageIds => n + 1 <= PageIds
      BY <1>1, <1>2, <1>9, StringFacts
    <3>2. n < Len(u) /\ n <= n
      BY <1>1, <1>2, <1>9
    <3> QED
      BY <1>10, <1>11, <2>1, <3>1, <3>2
  <2> QED
    BY <1>5, <1>11, <2>2, <2>3, <2>4 DEF Marks
<1>14. Holds(u, rows \o new)
  <2> HIDE DEF n, new
  <2> QED
    BY <1>5, <1>7, <1>8, <1>13, HoldsMore DEF u, hs, n
<1> QED
  BY <1>5, <1>14 DEF u, more

-----------------------------------------------------------------------------
(* The inserter of strings                                                 *)

StrInserter == [pages : Seq(StrPage), bits : Seq(BOOLEAN), strings : Seq(RealStr)]

\* The rows that an inserter was given are on its pages and on the current one.
StrOrderly(ins, rows) ==
  /\ ins \in StrInserter
  /\ GoodPage(Strings!CurrentPage(ins))
  /\ \E saved : Holds(ins.pages, saved)
                  /\ rows = saved \o RowsOf(Strings!CurrentPage(ins))

EmptyPage == [kind |-> "short", bits |-> <<>>, strings |-> <<>>]

\* A page has room for nothing, for a NULL, and for a string that is not long.
LEMMA FreshRoom ==
  /\ BytesOf(0) = 0
  /\ BytesOf(1) = 1
  /\ Strings!OffsetEnd(0) + 0 + 0 <= StrPageSize
  /\ Strings!OffsetEnd(0) + 0 + 1 <= StrPageSize
  /\ \A size \in Nat : ~(size > Strings!LongLimit) =>
       Strings!OffsetEnd(0) + 2 + (0 + size) + 1 <= StrPageSize
<1>1. BitsPerByte \in Nat \ {0} /\ StrPageSize \in Nat /\ StrPageSize > 7
  BY StringFacts
<1>2. BytesOf(0) = 0
  <2>1. BitsPerByte - 1 \in Nat /\ BitsPerByte - 1 < BitsPerByte
    BY <1>1
  <2>2. (0 + BitsPerByte - 1) \div BitsPerByte = 0
    BY <1>1, <2>1
  <2> QED
    BY <2>2 DEF BytesOf
<1>3. BytesOf(1) = 1
  <2>1. (0 + 1 + BitsPerByte - 1) \div BitsPerByte = (0 \div BitsPerByte) + 1
    BY <1>1, BytesOfOneMore
  <2>2. 0 \div BitsPerByte = 0
    BY <1>1
  <2> QED
    BY <2>1, <2>2 DEF BytesOf
<1>4. Strings!OffsetEnd(0) = 4
  BY DEF Strings!OffsetEnd, Strings!HeaderSize
<1>5. \A size \in Nat : ~(size > Strings!LongLimit) => 4 + 2 + (0 + size) + 1 <= StrPageSize
  BY <1>1 DEF Strings!LongLimit
<1> QED
  BY <1>1, <1>2, <1>3, <1>4, <1>5

\* The page of an inserter that has saved.
LEMMA EmptyPageGood ==
  /\ GoodPage(EmptyPage)
  /\ RowsOf(EmptyPage) = <<>>
<1> DEFINE page == EmptyPage
<1>1. /\ page.kind = "short" /\ page.bits = <<>> /\ page.strings = <<>>
      /\ <<>> \in Seq(BOOLEAN) /\ <<>> \in Seq(RealStr) /\ Len(<<>>) = 0
  BY EmptySeq DEF EmptyPage
<1>2. page \in ShortPage
  BY <1>1 DEF EmptyPage, ShortPage
<1>3. Roomy(page)
  BY <1>1, FreshRoom, DataSizeEmpty DEF Roomy
<1>4. Cardinality(Set(<<>>, 0)) = 0
  <2>1. Set(<<>>, 0) = {}
    BY DEF Set
  <2> QED
    BY <2>1, FS_EmptySet
<1>5. GoodPage(page)
  BY <1>1, <1>2, <1>3, <1>4 DEF GoodPage
<1>6. RowsOf(page) = <<>>
  <2>1. RowsOf(page) \in Seq(Strings!Str) /\ Len(RowsOf(page)) = 0
    BY <1>1, <1>5, RowsOfType
  <2> QED
    BY <2>1, EmptySeq
<1> QED
  BY <1>5, <1>6

\* The rows are rows, and a page of rows is put into the saved ones.
LEMMA StrOrderlyType ==
  ASSUME NEW ins, NEW rows, StrOrderly(ins, rows)
  PROVE  rows \in Seq(Strings!Str)
<1>1. PICK saved : Holds(ins.pages, saved)
                     /\ rows = saved \o RowsOf(Strings!CurrentPage(ins))
  BY DEF StrOrderly
<1>2. saved \in Seq(Strings!Str)
  BY <1>1 DEF Holds
<1>3. RowsOf(Strings!CurrentPage(ins)) \in Seq(Strings!Str)
  BY RowsOfType DEF StrOrderly
<1> QED
  BY <1>1, <1>2, <1>3, ConcatProperties

\* A new inserter holds nothing.
LEMMA StrNewOrderly == StrOrderly(Strings!NewInserter, <<>>)
<1>1. /\ <<>> \in Seq(BOOLEAN) /\ <<>> \in Seq(RealStr) /\ <<>> \in Seq(StrPage)
      /\ <<>> \in Seq(Strings!Str)
  BY EmptySeq
<1>2. Strings!NewInserter \in StrInserter /\ Strings!NewInserter.pages = <<>>
  BY <1>1 DEF StrInserter, Strings!NewInserter
<1>3. Strings!CurrentPage(Strings!NewInserter) = EmptyPage
  BY DEF Strings!NewInserter, Strings!CurrentPage, EmptyPage
<1>4. <<>> = <<>> \o RowsOf(EmptyPage)
  BY <1>1, EmptyPageGood, ConcatEmptySeq
<1> QED
  BY <1>2, <1>3, <1>4, HoldsNone, EmptyPageGood DEF StrOrderly

\* save_page moves the rows of the current page, and all stay.
LEMMA StrSaveOrderly ==
  ASSUME NEW ins, NEW rows, StrOrderly(ins, rows)
  PROVE  /\ StrOrderly(Strings!SavePage(ins), rows)
         /\ Holds(Strings!SavePage(ins).pages, rows)
         /\ Strings!CurrentPage(Strings!SavePage(ins)) = EmptyPage
<1> DEFINE page == Strings!CurrentPage(ins)
           ins2 == Strings!SavePage(ins)
<1>1. /\ ins \in StrInserter /\ GoodPage(page)
      /\ page.bits = ins.bits /\ page.strings = ins.strings
  BY DEF StrOrderly, Strings!CurrentPage
<1>2. /\ ins.pages \in Seq(StrPage) /\ ins.bits \in Seq(BOOLEAN) /\ ins.strings \in Seq(RealStr)
      /\ ins = [pages |-> ins.pages, bits |-> ins.bits, strings |-> ins.strings]
  BY <1>1 DEF StrInserter
<1>3. PICK saved : Holds(ins.pages, saved) /\ rows = saved \o RowsOf(page)
  BY DEF StrOrderly
<1>4. saved \in Seq(Strings!Str) /\ rows \in Seq(Strings!Str)
  BY <1>3, StrOrderlyType DEF Holds
<1>5. /\ ins2 \in StrInserter /\ Holds(ins2.pages, rows)
      /\ Strings!CurrentPage(ins2) = EmptyPage
  <2>1. CASE ins.bits = <<>>
    <3>1. ins2 = ins
      BY <2>1 DEF Strings!SavePage
    <3>2. ins.strings = <<>>
      <4>1. Len(ins.strings) = Cardinality(Set(<<>>, Len(<<>>)))
        BY <1>1, <2>1 DEF GoodPage
      <4>2. Set(<<>>, Len(<<>>)) = {}
        BY DEF Set
      <4>3. Len(ins.strings) = 0
        BY <4>1, <4>2, FS_EmptySet
      <4> QED
        BY <1>2, <4>3, EmptySeq
    <3>3. page = EmptyPage
      BY <2>1, <3>2 DEF Strings!CurrentPage, EmptyPage
    <3>4. rows = saved
      BY <1>3, <1>4, <3>3, EmptyPageGood, ConcatEmptySeq
    <3> QED
      BY <1>1, <1>3, <3>1, <3>3, <3>4
  <2>2. CASE ins.bits # <<>>
    <3>1. ins2 = [pages |-> Append(ins.pages, page), bits |-> <<>>, strings |-> <<>>]
      BY <2>2 DEF Strings!SavePage
    <3>2. Holds(Append(ins.pages, page), rows)
      BY <1>1, <1>3, HoldsShort
    <3>3. Append(ins.pages, page) \in Seq(StrPage)
      BY <3>2 DEF Holds, AllPages
    <3>4. <<>> \in Seq(BOOLEAN) /\ <<>> \in Seq(RealStr)
      BY EmptySeq
    <3> HIDE DEF ins2, page
    <3>5. ins2 \in StrInserter /\ ins2.pages = Append(ins.pages, page)
      BY <3>1, <3>3, <3>4 DEF StrInserter
    <3>6. Strings!CurrentPage(ins2) = EmptyPage
      BY <3>1 DEF Strings!CurrentPage, EmptyPage
    <3> QED
      BY <3>2, <3>5, <3>6
  <2> QED
    BY <2>1, <2>2
<1>6. rows = rows \o RowsOf(EmptyPage)
  BY <1>4, EmptyPageGood, ConcatEmptySeq
<1>7. StrOrderly(ins2, rows)
  BY <1>5, <1>6, EmptyPageGood DEF StrOrderly
<1> QED
  BY <1>5, <1>7

\* A row more on the current page is a row more at the end.
LEMMA StrGrown ==
  ASSUME NEW ins, NEW rows, StrOrderly(ins, rows), NEW bit \in BOOLEAN,
         NEW str, bit => str \in RealStr,
         Roomy(WithRow(Strings!CurrentPage(ins), bit, str)),
         NEW more, more = [pages |-> ins.pages,
                           bits |-> Append(ins.bits, bit),
                           strings |-> IF bit THEN Append(ins.strings, str) ELSE ins.strings]
  PROVE  StrOrderly(more, Append(rows, IF bit THEN str ELSE Strings!NoString))
<1> DEFINE page == Strings!CurrentPage(ins)
           grown == WithRow(page, bit, str)
           row == IF bit THEN str ELSE Strings!NoString
<1>1. GoodPage(page) /\ ins \in StrInserter
  BY DEF StrOrderly
<1>2. GoodPage(grown) /\ RowsOf(grown) = Append(RowsOf(page), row)
  BY <1>1, RowsGrown
<1>3. Strings!CurrentPage(more) = grown /\ more.pages = ins.pages
  BY DEF Strings!CurrentPage, WithRow
<1>4. more \in StrInserter
  <2>1. grown.bits \in Seq(BOOLEAN) /\ grown.strings \in Seq(RealStr)
    BY <1>2, ShortParts DEF GoodPage
  <2>2. more = [pages |-> ins.pages, bits |-> grown.bits, strings |-> grown.strings]
    BY DEF WithRow, Strings!CurrentPage
  <2>3. ins.pages \in Seq(StrPage)
    BY <1>1 DEF StrInserter
  <2> HIDE DEF grown
  <2>4. [pages |-> ins.pages, bits |-> grown.bits, strings |-> grown.strings] \in StrInserter
    BY <2>1, <2>3 DEF StrInserter
  <2> QED
    BY <2>2, <2>4
<1>5. PICK saved : Holds(ins.pages, saved) /\ rows = saved \o RowsOf(page)
  BY DEF StrOrderly
<1>6. saved \in Seq(Strings!Str) /\ RowsOf(page) \in Seq(Strings!Str) /\ row \in Strings!Str
  BY <1>1, <1>5, RowsOfType, RowTypes DEF Holds
<1>7. Append(rows, row) = saved \o RowsOf(grown)
  <2> HIDE DEF row, grown, page
  <2>1. saved \o Append(RowsOf(page), row) = Append(saved \o RowsOf(page), row)
    BY <1>6, ConcatAppend
  <2> QED
    BY <1>2, <1>5, <2>1
<1> QED
  BY <1>2, <1>3, <1>4, <1>5, <1>7 DEF StrOrderly

\* What insert and insert_null set aside is what the page needs.
LEMMA RoomCounted ==
  ASSUME NEW end \in Nat, NEW data \in Nat, NEW bytes \in Nat, NEW size \in Nat
  PROVE  /\ ~(end + data + bytes + 1 > StrPageSize) => end + data + (bytes + 1) <= StrPageSize
         /\ ~(end + 2 + data + size + bytes + 1 > StrPageSize)
              => end + 2 + (data + size) + (bytes + 1) <= StrPageSize
BY StringFacts

\* A record like an inserter, and what bits it may have.
IsRecord(r, bits) ==
  \E A, B, C : r \in [pages : A, bits : B, strings : C] /\ bits \in B

\* A record with other parts.
LEMMA RecordFields ==
  ASSUME NEW r, NEW bits, IsRecord(r, bits), NEW strs
  PROVE  /\ [r EXCEPT !.bits = bits] = [pages |-> r.pages, bits |-> bits,
                                        strings |-> r.strings]
         /\ [r EXCEPT !.bits = bits, !.strings = strs]
              = [pages |-> r.pages, bits |-> bits, strings |-> strs]
<1> DEFINE first == [r EXCEPT !.bits = bits]
<1> PICK A, B, C : r \in [pages : A, bits : B, strings : C] /\ bits \in B
  BY DEF IsRecord
<1>1. first = [pages |-> r.pages, bits |-> bits, strings |-> r.strings]
  OBVIOUS
<1>2. [r EXCEPT !.bits = bits, !.strings = strs] = [first EXCEPT !.strings = strs]
  OBVIOUS
<1>3. first \in [pages : A, bits : B, strings : C]
  BY <1>1
<1>4. first.pages = r.pages /\ first.bits = bits
  BY <1>1
<1> HIDE DEF first
<1>5. [first EXCEPT !.strings = strs]
        = [pages |-> first.pages, bits |-> first.bits, strings |-> strs]
  BY <1>3
<1>6. [first EXCEPT !.strings = strs] = [pages |-> r.pages, bits |-> bits, strings |-> strs]
  BY <1>4, <1>5
<1> QED
  BY <1>1, <1>2, <1>6 DEF first

\* The parts of an inserter that insert and insert_null change.
LEMMA InserterFields ==
  ASSUME NEW ins \in StrInserter, NEW bits \in Seq(BOOLEAN), NEW strs
  PROVE  /\ [ins EXCEPT !.bits = bits] = [pages |-> ins.pages, bits |-> bits,
                                          strings |-> ins.strings]
         /\ [ins EXCEPT !.bits = bits, !.strings = strs]
              = [pages |-> ins.pages, bits |-> bits, strings |-> strs]
<1>1. ins \in [pages : Seq(StrPage), bits : Seq(BOOLEAN), strings : Seq(RealStr)]
  BY DEF StrInserter
<1>2. IsRecord(ins, bits)
  BY <1>1 DEF IsRecord
<1> QED
  BY <1>2, RecordFields

\* The sizes that the encoder adds up for the current page.
LEMMA CurrentSizes ==
  ASSUME NEW ins, NEW rows, StrOrderly(ins, rows)
  PROVE  /\ ins.pages \in Seq(StrPage)
         /\ ins.bits \in Seq(BOOLEAN) /\ ins.strings \in Seq(RealStr)
         /\ Len(ins.bits) \in Nat /\ Len(ins.strings) \in Nat
         /\ Strings!DataSize(ins.strings) \in Nat
         /\ Len(ins.bits) \div BitsPerByte \in Nat
         /\ BytesOf(Len(ins.bits) + 1) = (Len(ins.bits) \div BitsPerByte) + 1
<1>1. ins.pages \in Seq(StrPage) /\ ins.bits \in Seq(BOOLEAN) /\ ins.strings \in Seq(RealStr)
  BY DEF StrOrderly, StrInserter
<1>2. Len(ins.bits) \in Nat /\ Len(ins.strings) \in Nat
  BY <1>1, LenProperties
<1>3. Len(ins.strings) \in 0 .. Len(ins.strings)
  BY <1>2
<1>4. Strings!DataSize(ins.strings) \in Nat
  BY <1>1, <1>3, DataSizePrefix
<1>5. Len(ins.bits) \div BitsPerByte \in Nat
  BY <1>2, StringFacts, Division
<1>6. BytesOf(Len(ins.bits) + 1) = (Len(ins.bits) \div BitsPerByte) + 1
  BY <1>2, StringFacts, BytesOfOneMore DEF BytesOf
<1> QED
  BY <1>1, <1>2, <1>4, <1>5, <1>6

\* insert_null adds a NULL at the end.
LEMMA StrWithNull ==
  ASSUME NEW ins, NEW rows, StrOrderly(ins, rows)
  PROVE  StrOrderly(Strings!WithNull(ins), Append(rows, Strings!NoString))
<1> DEFINE room == IF Strings!FullForNull(ins) THEN Strings!SavePage(ins) ELSE ins
           more == Strings!WithNull(ins)
           page == Strings!CurrentPage(room)
           grown == WithRow(page, FALSE, Strings!NoString)
<1>1. StrOrderly(room, rows)
  BY StrSaveOrderly
<1>2. /\ room.bits \in Seq(BOOLEAN) /\ Len(room.bits) \in Nat
      /\ Len(room.strings) \in Nat /\ Strings!DataSize(room.strings) \in Nat
      /\ room \in StrInserter
      /\ BytesOf(Len(room.bits) + 1) = (Len(room.bits) \div BitsPerByte) + 1
      /\ Len(room.bits) \div BitsPerByte \in Nat
  <2> HIDE DEF room
  <2> QED
    BY <1>1, CurrentSizes DEF StrOrderly
<1>3. /\ page.bits = room.bits /\ page.strings = room.strings
      /\ grown.bits = Append(room.bits, FALSE) /\ grown.strings = room.strings
      /\ Len(grown.bits) = Len(room.bits) + 1
  <2>1. page.bits = room.bits /\ page.strings = room.strings
    BY DEF Strings!CurrentPage
  <2> HIDE DEF page, room
  <2>2. grown.bits = Append(room.bits, FALSE) /\ grown.strings = room.strings
    BY <2>1 DEF WithRow
  <2>3. Len(Append(room.bits, FALSE)) = Len(room.bits) + 1
    BY <1>2, AppendProperties
  <2> QED
    BY <2>1, <2>2, <2>3
<1>4. Roomy(grown)
  <2>1. Strings!OffsetEnd(Len(room.strings)) + Strings!DataSize(room.strings)
          + BytesOf(Len(room.bits) + 1) <= StrPageSize
    <3>1. CASE Strings!FullForNull(ins)
      <4>1. Strings!CurrentPage(room) = EmptyPage
        BY <3>1, StrSaveOrderly
      <4>2. room.bits = <<>> /\ room.strings = <<>>
        BY <1>3, <4>1 DEF EmptyPage
      <4>3. Len(<<>>) = 0
        BY EmptySeq
      <4> HIDE DEF room
      <4> QED
        BY <4>2, <4>3, FreshRoom, DataSizeEmpty
    <3>2. CASE ~Strings!FullForNull(ins)
      <4>1. room = ins
        BY <3>2
      <4> HIDE DEF room
      <4>2. ~(Strings!OffsetEnd(Len(ins.strings)) + Strings!DataSize(ins.strings)
                + (Len(ins.bits) \div BitsPerByte) + 1 > StrPageSize)
        BY <3>2 DEF Strings!FullForNull
      <4>3. Strings!OffsetEnd(Len(room.strings)) \in Nat
        <5>1. Len(room.strings) \in Nat
          BY <1>2
        <5> QED
          BY <5>1 DEF Strings!OffsetEnd, Strings!HeaderSize
      <4> QED
        BY <1>2, <4>1, <4>2, <4>3, RoomCounted
    <3> QED
      BY <3>1, <3>2
  <2> HIDE DEF room, grown
  <2> QED
    BY <1>3, <2>1 DEF Roomy
<1>7. Append(room.bits, FALSE) \in Seq(BOOLEAN)
  <2> HIDE DEF room
  <2> QED
    BY <1>2, AppendProperties
<1>5. more = [pages |-> room.pages, bits |-> Append(room.bits, FALSE),
              strings |-> IF FALSE THEN Append(room.strings, Strings!NoString)
                          ELSE room.strings]
  <2> DEFINE e == [room EXCEPT !.bits = Append(@, FALSE)]
  <2>1. more = e
    BY DEF Strings!WithNull
  <2> HIDE DEF room, more
  <2>2. room \in StrInserter
    BY <1>2
  <2>3. e = [pages |-> room.pages, bits |-> Append(room.bits, FALSE), strings |-> room.strings]
    BY <1>7, <2>2, InserterFields, Zenon
  <2> QED
    BY <2>1, <2>3
<1> HIDE DEF room, more
<1>6. StrOrderly(more, Append(rows, IF FALSE THEN Strings!NoString ELSE Strings!NoString))
  BY <1>1, <1>4, <1>5, StrGrown
<1> QED
  BY <1>6 DEF more

\* insert adds a string at the end, one that fits a page ...
LEMMA StrWithShort ==
  ASSUME NEW ins, NEW rows, StrOrderly(ins, rows), NEW str \in RealStr,
         ~(str.size > Strings!LongLimit)
  PROVE  StrOrderly(Strings!WithShort(ins, str), Append(rows, str))
<1> DEFINE room == IF Strings!FullForString(ins, str) THEN Strings!SavePage(ins) ELSE ins
           more == Strings!WithShort(ins, str)
           page == Strings!CurrentPage(room)
           grown == WithRow(page, TRUE, str)
<1>1. StrOrderly(room, rows)
  BY StrSaveOrderly
<1>2. /\ room.bits \in Seq(BOOLEAN) /\ Len(room.bits) \in Nat
      /\ room.strings \in Seq(RealStr)
      /\ Len(room.strings) \in Nat /\ Strings!DataSize(room.strings) \in Nat
      /\ room \in StrInserter
      /\ BytesOf(Len(room.bits) + 1) = (Len(room.bits) \div BitsPerByte) + 1
      /\ Len(room.bits) \div BitsPerByte \in Nat
  <2> HIDE DEF room
  <2> QED
    BY <1>1, CurrentSizes DEF StrOrderly
<1>3. str.size \in Nat
  BY DEF RealStr
<1>4. /\ page.bits = room.bits /\ page.strings = room.strings
      /\ grown.bits = Append(room.bits, TRUE) /\ grown.strings = Append(room.strings, str)
      /\ Len(grown.bits) = Len(room.bits) + 1
      /\ Len(grown.strings) = Len(room.strings) + 1
      /\ Strings!DataSize(grown.strings) = Strings!DataSize(room.strings) + str.size
  <2>1. page.bits = room.bits /\ page.strings = room.strings
    BY DEF Strings!CurrentPage
  <2> HIDE DEF page, room
  <2>2. grown.bits = Append(room.bits, TRUE) /\ grown.strings = Append(room.strings, str)
    BY <2>1 DEF WithRow
  <2>3. /\ Len(Append(room.bits, TRUE)) = Len(room.bits) + 1
        /\ Len(Append(room.strings, str)) = Len(room.strings) + 1
    BY <1>2, AppendProperties
  <2>4. Strings!DataSize(Append(room.strings, str)) = Strings!DataSize(room.strings) + str.size
    BY <1>2, DataSizeAppend
  <2> HIDE DEF grown
  <2> QED
    BY <2>1, <2>2, <2>3, <2>4
<1>5. Roomy(grown)
  <2>1. Strings!OffsetEnd(Len(room.strings)) + 2 + (Strings!DataSize(room.strings) + str.size)
          + BytesOf(Len(room.bits) + 1) <= StrPageSize
    <3>1. CASE Strings!FullForString(ins, str)
      <4>1. Strings!CurrentPage(room) = EmptyPage
        BY <3>1, StrSaveOrderly
      <4>2. room.bits = <<>> /\ room.strings = <<>>
        BY <1>4, <4>1 DEF EmptyPage
      <4>3. Len(<<>>) = 0
        BY EmptySeq
      <4>4. Strings!OffsetEnd(0) + 2 + (0 + str.size) + 1 <= StrPageSize
        BY <1>3, FreshRoom
      <4>5. BytesOf(0 + 1) = 1
        BY FreshRoom
      <4> HIDE DEF room
      <4> QED
        BY <4>2, <4>3, <4>4, <4>5, DataSizeEmpty
    <3>2. CASE ~Strings!FullForString(ins, str)
      <4>1. room = ins
        BY <3>2
      <4> HIDE DEF room
      <4>2. ~(Strings!OffsetEnd(Len(ins.strings)) + 2 + Strings!DataSize(ins.strings) + str.size
                + (Len(ins.bits) \div BitsPerByte) + 1 > StrPageSize)
        BY <3>2 DEF Strings!FullForString
      <4>3. Strings!OffsetEnd(Len(room.strings)) \in Nat
        <5>1. Len(room.strings) \in Nat
          BY <1>2
        <5> QED
          BY <5>1 DEF Strings!OffsetEnd, Strings!HeaderSize
      <4> QED
        BY <1>2, <1>3, <4>1, <4>2, <4>3, RoomCounted
    <3> QED
      BY <3>1, <3>2
  <2> HIDE DEF room, grown
  <2>2. Strings!OffsetEnd(Len(room.strings) + 1) = Strings!OffsetEnd(Len(room.strings)) + 2
    BY <1>2 DEF Strings!OffsetEnd, Strings!HeaderSize
  <2> QED
    BY <1>4, <2>1, <2>2 DEF Roomy
<1>7. Append(room.bits, TRUE) \in Seq(BOOLEAN)
  <2> HIDE DEF room
  <2> QED
    BY <1>2, AppendProperties
<1>6. more = [pages |-> room.pages, bits |-> Append(room.bits, TRUE),
              strings |-> IF TRUE THEN Append(room.strings, str) ELSE room.strings]
  <2> DEFINE e == [room EXCEPT !.bits = Append(@, TRUE), !.strings = Append(@, str)]
  <2>1. more = e
    BY DEF Strings!WithShort
  <2> HIDE DEF room, more
  <2>2. room \in StrInserter
    BY <1>2
  <2>3. e = [pages |-> room.pages, bits |-> Append(room.bits, TRUE),
             strings |-> Append(room.strings, str)]
    BY <1>7, <2>2, InserterFields, Zenon
  <2> QED
    BY <2>1, <2>3
<1> HIDE DEF room, more
<1>8. StrOrderly(more, Append(rows, IF TRUE THEN str ELSE Strings!NoString))
  BY <1>1, <1>5, <1>6, StrGrown
<1> QED
  BY <1>8 DEF more

\* ... or a long one, on pages behind what was on the current page.
LEMMA StrWithLong ==
  ASSUME NEW ins, NEW rows, StrOrderly(ins, rows), NEW str, IsLong(str)
  PROVE  StrOrderly(Strings!WithLong(ins, str), Append(rows, str))
<1> DEFINE saved == Strings!SavePage(ins)
           more == Strings!WithLong(ins, str)
           pages == saved.pages \o Strings!LongPages(str)
<1>1. /\ StrOrderly(saved, rows) /\ Holds(saved.pages, rows)
      /\ Strings!CurrentPage(saved) = EmptyPage /\ saved \in StrInserter
  BY StrSaveOrderly DEF StrOrderly
<1>2. Holds(pages, Append(rows, str))
  BY <1>1, HoldsLong
<1>3. more = [saved EXCEPT !.pages = pages]
  BY DEF Strings!WithLong
<1> HIDE DEF saved, more
<1>4. pages \in Seq(StrPage) /\ Append(rows, str) \in Seq(Strings!Str)
  BY <1>2 DEF Holds, AllPages
<1> HIDE DEF pages
<1>5. more = [pages |-> pages, bits |-> saved.bits, strings |-> saved.strings]
  BY <1>1, <1>3 DEF StrInserter
<1>6. more \in StrInserter /\ more.pages = pages
  BY <1>1, <1>4, <1>5 DEF StrInserter
<1>7. Strings!CurrentPage(more) = EmptyPage
  BY <1>1, <1>5 DEF Strings!CurrentPage
<1>8. Append(rows, str) = Append(rows, str) \o RowsOf(EmptyPage)
  BY <1>4, EmptyPageGood, ConcatEmptySeq
<1> QED
  BY <1>2, <1>6, <1>7, <1>8, EmptyPageGood DEF StrOrderly, more

\* Either way.
LEMMA StrWithString ==
  ASSUME NEW ins, NEW rows, StrOrderly(ins, rows), NEW str \in RealStr
  PROVE  StrOrderly(Strings!WithString(ins, str), Append(rows, str))
BY StrWithShort, StrWithLong DEF Strings!WithString, IsLong

\* finalize leaves no row unsaved.
LEMMA StrFinished ==
  ASSUME NEW ins, NEW rows, StrOrderly(ins, rows)
  PROVE  /\ StrOrderly(Strings!Finished(ins), rows)
         /\ Holds(Strings!Finished(ins).pages, rows)
BY StrSaveOrderly DEF Strings!Finished

\* What the pages of an encoder are read as.
LEMMA HoldsRead ==
  ASSUME NEW pages, NEW rows, Holds(pages, rows)
  PROVE  Strings!ReadColumn(pages) = rows
<1>1. <<>> \in Seq(Strings!Str) /\ rows \in Seq(Strings!Str)
  BY EmptySeq DEF Holds
<1>2. FoldLeft(AddTo, <<>>, pages) = <<>> \o rows
  BY <1>1 DEF Holds, Reads
<1> QED
  BY <1>1, <1>2, ReadColumnIsFold, ConcatEmptySeq

-----------------------------------------------------------------------------
(* Late materialization                                                    *)

\* A handle is that of a NULL just when its row is.
LEMMA NullMark ==
  ASSUME NEW pages, NEW handle, NEW row, Placed(pages, handle, row)
  PROVE  /\ row = Strings!NoString <=> handle.offset = Strings!NullOffset
         /\ row = Strings!NoString <=> IsNull(handle)
         /\ row # Strings!NoString => row \in RealStr
<1>1. PICK p \in 1 .. Len(pages) : PlacedAt(pages, p, handle, row)
  BY DEF Placed
<1>2. Strings!NoString \notin RealStr
  BY RowTypes
<1>3. Strings!NullOffset # 0 /\ Strings!HeaderSize # 0 /\ Strings!HeaderSize # Strings!NullOffset
  BY DEF Strings!NullOffset, Strings!HeaderSize
<1>4. CASE row = Strings!NoString /\ handle.offset = Strings!NullOffset
  BY <1>2, <1>4 DEF IsNull
<1>5. CASE row \in RealStr /\ OnShort(pages, p, handle, row)
  <2>1. PICK k \in 1 .. Len(pages[p].strings) : handle.offset = Strings!OffsetEnd(k - 1)
    BY <1>5 DEF OnShort
  <2>2. Len(pages[p].strings) \in Nat
    BY <1>5, ShortParts DEF OnShort, GoodPage
  <2>3. k - 1 \in Nat
    BY <2>2
  <2> DEFINE j == k - 1
  <2>4. j \in Nat /\ handle.offset = Strings!OffsetEnd(j)
    BY <2>1, <2>3
  <2> HIDE DEF j
  <2>5. /\ Strings!OffsetEnd(j) # Strings!NullOffset
        /\ Strings!OffsetEnd(j) # 0
    BY <2>4 DEF Strings!OffsetEnd, Strings!HeaderSize, Strings!NullOffset
  <2> QED
    BY <1>2, <1>5, <2>4, <2>5 DEF IsNull
<1>6. CASE row \in RealStr /\ OnLong(pages, p, handle, row)
  BY <1>2, <1>3, <1>6 DEF OnLong, IsNull
<1> QED
  BY <1>1, <1>4, <1>5, <1>6 DEF PlacedAt

\* The handle's page, where handles can tell the pages apart.
LEMMA PageOfHandle ==
  ASSUME NEW pages, AllPages(pages), Len(pages) <= PageIds,
         NEW p \in 1 .. Len(pages)
  PROVE  /\ Len(pages) \in Nat /\ p \in Nat \ {0}
         /\ (p - 1) % PageIds = p - 1
         /\ \A k \in Nat : p - 1 + k < Len(pages) => (p - 1 + k) % PageIds = p - 1 + k
<1>1. Len(pages) \in Nat /\ PageIds \in Nat \ {0}
  BY LenProperties, StringFacts DEF AllPages
<1>2. \A n \in Nat : n < PageIds => n % PageIds = n
  BY <1>1
<1>3. p - 1 \in Nat /\ p - 1 < PageIds
  BY <1>1
<1>4. \A k \in Nat : p - 1 + k \in Nat /\ (p - 1 + k < Len(pages) => p - 1 + k < PageIds)
  BY <1>1
<1> QED
  BY <1>1, <1>2, <1>3, <1>4

\* A string comes back from a page that has no NULLs ...
LEMMA MaterializeShort ==
  ASSUME NEW pages, AllPages(pages), Len(pages) <= PageIds,
         NEW p \in 1 .. Len(pages), NEW handle, handle.page = p - 1,
         NEW row, OnShort(pages, p, handle, row),
         Strings!NumRows(pages[p]) = Strings!NumNonNull(pages[p])
  PROVE  Strings!Materialize(pages, handle) = row
<1> DEFINE page == pages[p]
           n == Len(page.strings)
<1>1. GoodPage(page)
  BY DEF OnShort
<1>2. PICK k \in 1 .. n : handle.offset = Strings!OffsetEnd(k - 1) /\ page.strings[k] = row
  BY DEF OnShort
<1>3. n \in Nat /\ page.kind = "short" /\ page.strings \in Seq(RealStr) /\ DOMAIN page.strings = 1 .. n
  BY <1>1, ShortParts, LenProperties DEF GoodPage
<1>4. k - 1 \in Nat /\ (k - 1) + 1 = k
  BY <1>3
<1>5. (handle.offset - Strings!HeaderSize) \div 2 + 1 = k
  <2>1. (Strings!OffsetEnd(k - 1) - Strings!HeaderSize) \div 2 + 1 = (k - 1) + 1
    BY <1>4, OffsetIndex
  <2> QED
    BY <1>2, <1>4, <2>1
<1>6. handle.page + 1 = p
  BY PageOfHandle
<1>7. Strings!OffsetEnd(Strings!NumRows(page)) = Strings!OffsetEnd(n)
  BY DEF Strings!NumNonNull
<1>8. Strings!ReadShort(page, k, Strings!OffsetEnd(n)) = page.strings[k]
  BY <1>1, ReadShortPlainly
<1>9. Strings!Materialize(pages, handle)
        = IF k \in DOMAIN page.strings
          THEN Strings!ReadShort(page, k, Strings!OffsetEnd(Strings!NumRows(page)))
          ELSE Strings!Corrupt
  BY <1>3, <1>5, <1>6 DEF Strings!Materialize
<1> HIDE DEF page
<1> QED
  BY <1>2, <1>3, <1>7, <1>8, <1>9

\* ... and from the pages of its own, if another page comes behind them.
LEMMA MaterializeFromLong ==
  ASSUME NEW pages, AllPages(pages), Len(pages) <= PageIds,
         NEW p \in 1 .. Len(pages), NEW handle, handle.page = p - 1,
         NEW row, OnLong(pages, p, handle, row),
         \E q \in p + 1 .. Len(pages) : pages[q].kind # "next"
  PROVE  Strings!Materialize(pages, handle) = row
<1> DEFINE l == Len(pages)
           m == Pieces(row)
           piece(j) == Strings!LongPages(row)[j]
           PageAt(k) == (p - 1 + k) % PageIds
           Beyond(k) == PageAt(k) >= l
           S == {k \in 1 .. PageIds : Beyond(k) \/ pages[PageAt(k) + 1].kind # "next"}
           c == [k \in 1 .. m |-> pages[PageAt(k - 1) + 1].chars]
<1>1. /\ IsLong(row) /\ p + m - 1 <= l
      /\ \A j \in 1 .. m : pages[p + j - 1] = piece(j)
      /\ p + m <= l => pages[p + m].kind # "next"
  BY DEF OnLong
<1>2. l \in Nat /\ p \in Nat \ {0} /\ PageIds \in Nat \ {0} /\ l <= PageIds
  BY PageOfHandle, StringFacts
<1>3. m \in Nat \ {0}
  BY <1>1, PiecesFacts
<1>4. \A j \in 1 .. m : /\ piece(j).kind = (IF j = 1 THEN "first" ELSE "next")
                        /\ piece(j).id = row.id
  BY <1>1, LongPagesType
<1>5. \A k \in Nat : p - 1 + k < l => PageAt(k) = p - 1 + k
  BY PageOfHandle
<1> HIDE DEF l, m, piece, PageAt
<1>6. \A j \in 1 .. m : j # 1 => pages[p + j - 1].kind = "next"
  BY <1>1, <1>4
<1>7. 1 \in 1 .. m /\ p + 1 - 1 = p
  BY <1>2, <1>3
<1>8. pages[p].kind = "first" /\ pages[p].id = row.id
  BY <1>1, <1>4, <1>7
<1>9. p + m <= l
  <2>1. PICK q \in p + 1 .. l : pages[q].kind # "next"
    BY DEF l
  <2>2. SUFFICES ASSUME ~(p + m <= l) PROVE FALSE
    OBVIOUS
  <2>3. q - p + 1 \in 1 .. m /\ q - p + 1 # 1 /\ p + (q - p + 1) - 1 = q
    BY <1>1, <1>2, <1>3, <2>2
  <2> QED
    BY <1>6, <2>1, <2>3
<1>10. /\ \A k \in 1 .. m : PageAt(k) = p - 1 + k /\ ~Beyond(k) /\ PageAt(k) + 1 = p + k
       /\ \A k \in 1 .. m : PageAt(k - 1) + 1 = p + k - 1
  <2>1. ASSUME NEW k \in 1 .. m
        PROVE  k \in Nat /\ p - 1 + k < l /\ k - 1 \in Nat /\ p - 1 + (k - 1) < l
    BY <1>2, <1>3, <1>9
  <2>2. \A k \in 1 .. m : PageAt(k) = p - 1 + k /\ PageAt(k - 1) = p - 1 + (k - 1)
    BY <1>5, <2>1
  <2>3. \A k \in 1 .. m : ~(p - 1 + k >= l) /\ p - 1 + k + 1 = p + k
                            /\ p - 1 + (k - 1) + 1 = p + k - 1
    <3> TAKE k \in 1 .. m
    <3>1. k \in Nat /\ p - 1 + k < l
      BY <2>1
    <3> QED
      BY <1>2, <3>1
  <2> QED
    BY <2>2, <2>3
<1>11. Min(S) = m
  <2>1. m \in S
    <3>1. m \in 1 .. PageIds /\ m \in 1 .. m
      BY <1>2, <1>3, <1>9
    <3>2. pages[PageAt(m) + 1].kind # "next"
      BY <1>1, <1>9, <1>10, <3>1
    <3> QED
      BY <3>1, <3>2
  <2>2. ASSUME NEW k \in S
        PROVE  m <= k
    <3>1. SUFFICES ASSUME ~(m <= k) PROVE FALSE
      OBVIOUS
    <3>2. k \in 1 .. m /\ k + 1 \in 1 .. m /\ k + 1 # 1 /\ p + (k + 1) - 1 = p + k
      BY <1>2, <1>3, <3>1
    <3>3. ~Beyond(k) /\ pages[PageAt(k) + 1].kind = "next"
      BY <1>6, <1>10, <3>2
    <3> QED
      BY <3>3
  <2>3. \A x, y \in S : x <= y /\ y <= x => x = y
    BY <1>2
  <2> HIDE DEF S
  <2> QED
    BY <2>1, <2>2, <2>3 DEF Min
<1>12. Strings!Min(S) = m
  BY <1>11 DEF Strings!Min, Min
<1>13. DOMAIN c = 1 .. m /\ \A j \in 1 .. m : c[j] = piece(j).chars
  BY <1>1, <1>10
<1>14. Strings!SumFunction(c) = SumFunctionOnSet(c, 1 .. m)
  <2>1. DOMAIN c = 1 .. m
    BY <1>13
  <2> HIDE DEF c
  <2>2. Strings!SumFunction(c) = SumFunctionOnSet(c, DOMAIN c)
    BY DEF Strings!SumFunction, Strings!SumFunctionOnSet, Strings!FoldFunctionOnSet,
           Strings!MapThenFoldSet, SumFunctionOnSet, FoldFunctionOnSet, MapThenFoldSet
  <2> QED
    BY <2>1, <2>2
<1>15. SumFunctionOnSet(c, 1 .. m) = row.size
  <2> HIDE DEF c
  <2> QED
    BY <1>1, <1>13, CharsAddUp DEF m, piece
<1>16. ~Beyond(m)
  <2>1. m \in 1 .. m
    BY <1>3
  <2> QED
    BY <1>10, <2>1
<1>17. handle.page + 1 = p /\ p - 1 + 1 = p
  BY <1>2
<1>18. Strings!Materialize(pages, handle) = Strings!MaterializeLong(pages, p - 1)
  BY <1>8, <1>17 DEF Strings!Materialize
<1>19. Strings!MaterializeLong(pages, p - 1)
         = IF Beyond(Strings!Min(S))
           THEN Strings!Corrupt
           ELSE [id |-> pages[p - 1 + 1].id,
                 size |-> Strings!SumFunction([k \in 1 .. Strings!Min(S) |->
                                                 pages[PageAt(k - 1) + 1].chars])]
  BY DEF Strings!MaterializeLong, PageAt, l
<1>20. Strings!MaterializeLong(pages, p - 1)
         = IF Beyond(m) THEN Strings!Corrupt
           ELSE [id |-> pages[p].id, size |-> Strings!SumFunction(c)]
  <2> HIDE DEF S
  <2> QED
    BY <1>12, <1>17, <1>19
<1>21. row = [id |-> row.id, size |-> row.size]
  BY <1>1 DEF IsLong, RealStr
<1> HIDE DEF S, c, Beyond
<1> QED
  BY <1>8, <1>14, <1>15, <1>16, <1>18, <1>20, <1>21

\* A handle comes back as the string of the row that it was made for.
LEMMA MaterializePlainly ==
  ASSUME NEW pages, AllPages(pages), Len(pages) <= PageIds,
         NEW handle, NEW row, Placed(pages, handle, row), row # Strings!NoString,
         Strings!Plain(pages, handle)
  PROVE  Strings!Materialize(pages, handle) = row
<1>1. PICK p \in 1 .. Len(pages) : PlacedAt(pages, p, handle, row)
  BY DEF Placed
<1>2. handle.page = p - 1 /\ handle.page + 1 = p
  BY <1>1, PageOfHandle DEF PlacedAt
<1>3. handle.offset # Strings!NullOffset
  BY NullMark
<1>4. \/ pages[p].kind = "short" /\ Strings!NumRows(pages[p]) = Strings!NumNonNull(pages[p])
      \/ pages[p].kind = "first" /\ \E q \in p + 1 .. Len(pages) : pages[q].kind # "next"
  BY <1>2, <1>3 DEF Strings!Plain
<1>5. CASE OnShort(pages, p, handle, row)
  <2>1. pages[p].kind = "short"
    BY <1>5, ShortParts DEF OnShort, GoodPage
  <2>2. Strings!NumRows(pages[p]) = Strings!NumNonNull(pages[p])
    BY <1>4, <2>1
  <2> QED
    BY <1>2, <1>5, <2>2, MaterializeShort
<1>6. CASE OnLong(pages, p, handle, row)
  <2>1. pages[p].kind = "first"
    <3>1. IsLong(row) /\ \A j \in 1 .. Pieces(row) : pages[p + j - 1] = Strings!LongPages(row)[j]
      BY <1>6 DEF OnLong
    <3>2. Pieces(row) \in Nat \ {0}
      BY <3>1, PiecesFacts
    <3>3. 1 \in 1 .. Pieces(row) /\ p + 1 - 1 = p
      BY <3>2, PageOfHandle
    <3>4. Strings!LongPages(row)[1].kind = "first"
      BY <3>1, <3>3, LongPagesType
    <3> QED
      BY <3>1, <3>3, <3>4
  <2>2. \E q \in p + 1 .. Len(pages) : pages[q].kind # "next"
    BY <1>4, <2>1
  <2> QED
    BY <1>2, <1>6, <2>2, MaterializeFromLong
<1> QED
  BY <1>1, <1>5, <1>6 DEF PlacedAt

-----------------------------------------------------------------------------
(* Encoding a share                                                        *)

Encoded == INSTANCE Counting WITH Op <- Encode

\* The worker's loop, row by row.
LEMMA EncodeNothing ==
  ASSUME NEW base
  PROVE  FoldLeft(Encode, base, <<>>) = base
<1>1. FoldLeft(Encode, base, <<>>) = Encoded!FoldLeft(Encode, base, <<>>)
  BY DEF FoldLeft, MapThenFoldSet, Encoded!FoldLeft, Encoded!MapThenFoldSet, Max, Encoded!Max
<1>2. Encoded!FoldLeft(Encode, base, <<>>) = base
  BY Encoded!FoldLeftEmpty
<1> QED
  BY <1>1, <1>2

\* The same, of one row more.
LEMMA EncodeAppend ==
  ASSUME NEW base, NEW S, NEW vals \in Seq(S), NEW val \in S
  PROVE  FoldLeft(Encode, base, Append(vals, val))
           = Encode(FoldLeft(Encode, base, vals), val)
<1>1. \A s : FoldLeft(Encode, base, s) = Encoded!FoldLeft(Encode, base, s)
  BY DEF FoldLeft, MapThenFoldSet, Encoded!FoldLeft, Encoded!MapThenFoldSet, Max, Encoded!Max
<1>2. Encoded!FoldLeft(Encode, base, Append(vals, val))
        = Encode(Encoded!FoldLeft(Encode, base, vals), val)
  BY Encoded!FoldLeftAppend
<1> QED
  BY <1>1, <1>2

\* A value_t stands for a row.
StandsFor(val, row) ==
  IF isString
  THEN /\ row \in Strings!Str
       /\ IsNull(val) <=> row = Strings!NoString
       /\ row # Strings!NoString => /\ row \in RealStr
                                    /\ Strings!Materialize(basePages, val) = row
  ELSE /\ row \in Nat
       /\ IsNull(val) => row = Null
       /\ ~IsNull(val) => val.val = row

\* An inserter holds rows.
InserterHas(ins, rows) ==
  IF isString THEN StrOrderly(ins, rows) ELSE Orderly(ins) /\ Content(ins) = rows

\* A row of the result is a row more in its inserter.
LEMMA EncodeOne ==
  ASSUME WideEnough, NEW ins, NEW rows, InserterHas(ins, rows),
         NEW val, NEW row, StandsFor(val, row)
  PROVE  InserterHas(Encode(ins, val), Append(rows, row))
<1>1. CASE isString
  <2>1. StrOrderly(ins, rows)
    BY <1>1 DEF InserterHas
  <2>2. CASE IsNull(val)
    <3>1. row = Strings!NoString
      BY <1>1, <2>2 DEF StandsFor
    <3>2. Encode(ins, val) = Strings!WithNull(ins)
      BY <1>1, <2>2 DEF Encode
    <3>3. StrOrderly(Strings!WithNull(ins), Append(rows, Strings!NoString))
      BY <2>1, StrWithNull
    <3> QED
      BY <1>1, <3>1, <3>2, <3>3 DEF InserterHas
  <2>3. CASE ~IsNull(val)
    <3>1. row \in RealStr /\ Strings!Materialize(basePages, val) = row
      BY <1>1, <2>3 DEF StandsFor
    <3>2. Encode(ins, val) = Strings!WithString(ins, row)
      BY <1>1, <2>3, <3>1 DEF Encode
    <3>3. StrOrderly(Strings!WithString(ins, row), Append(rows, row))
      BY <2>1, <3>1, StrWithString
    <3> QED
      BY <1>1, <3>2, <3>3 DEF InserterHas
  <2> QED
    BY <2>2, <2>3
<1>2. CASE ~isString
  <2>1. Orderly(ins) /\ Content(ins) = rows
    BY <1>2 DEF InserterHas
  <2>2. CASE IsNull(val)
    <3>1. row = Null
      BY <1>2, <2>2 DEF StandsFor
    <3>2. Encode(ins, val) = WithNull(ins)
      BY <1>2, <2>2 DEF Encode
    <3>3. Orderly(WithNull(ins)) /\ Content(WithNull(ins)) = Append(Content(ins), Null)
      BY <2>1, WithNullContent
    <3> QED
      BY <1>2, <2>1, <3>1, <3>2, <3>3 DEF InserterHas
  <2>3. CASE ~IsNull(val)
    <3>1. row \in Nat /\ val.val = row
      BY <1>2, <2>3 DEF StandsFor
    <3>2. Encode(ins, val) = WithValue(ins, row)
      BY <1>2, <2>3, <3>1 DEF Encode
    <3>3. Orderly(WithValue(ins, row)) /\ Content(WithValue(ins, row)) = Append(Content(ins), row)
      BY <2>1, <3>1, WithValueContent
    <3> QED
      BY <1>2, <2>1, <3>2, <3>3 DEF InserterHas
  <2> QED
    BY <2>2, <2>3
<1> QED
  BY <1>1, <1>2

\* from_columnar reads the rows of the pages.
StrDecodes(pages, rows) ==
  pages \in Seq(StrPage) /\ rows \in Seq(Strings!Str) /\ Reads(pages, rows)

NumDecodes(pages, rows) ==
  /\ pages \in Seq(PageType) /\ rows \in Seq(Nat)
  /\ \A p \in DOMAIN pages : Fits(pages[p]) /\ WellCounted(pages[p])
  /\ ReadColumn(pages) = rows

Decodes(column_type, pages, rows) ==
  IF column_type = "VARCHAR" THEN StrDecodes(pages, rows) ELSE NumDecodes(pages, rows)

NewIns == IF isString THEN Strings!NewInserter ELSE NewInserter

\* What the inserters hold when all the values are in.
LEMMA EncodeAll ==
  ASSUME WideEnough, NEW S, NEW vals \in Seq(S), NEW V, NEW rows \in Seq(V),
         Len(vals) = Len(rows), \A i \in 1 .. Len(rows) : StandsFor(vals[i], rows[i])
  PROVE  InserterHas(FoldLeft(Encode, NewIns, vals), rows)
<1> DEFINE n == Len(rows)
           Ins(k) == FoldLeft(Encode, NewIns, SubSeq(vals, 1, k))
           T == {k \in 0 .. n : InserterHas(Ins(k), SubSeq(rows, 1, k))}
<1>1. n \in Nat /\ Len(vals) = n
  BY LenProperties
<1>2. /\ SubSeq(vals, 1, 0) = <<>> /\ SubSeq(vals, 1, n) = vals
      /\ SubSeq(rows, 1, 0) = <<>> /\ SubSeq(rows, 1, n) = rows
  <2>1. SubSeq(rows, 1, 0) = <<>> /\ SubSeq(rows, 1, Len(rows)) = rows
    BY PrefixEnds
  <2>2. SubSeq(vals, 1, 0) = <<>> /\ SubSeq(vals, 1, Len(vals)) = vals
    BY PrefixEnds
  <2> QED
    BY <2>1, <2>2
<1>3. 0 \in T
  <2>1. Ins(0) = NewIns
    BY <1>2, EncodeNothing
  <2>2. InserterHas(NewIns, <<>>)
    BY StrNewOrderly, NewInserterContent DEF InserterHas, NewIns
  <2>3. 0 \in 0 .. n
    BY <1>1
  <2> HIDE DEF Ins
  <2> QED
    BY <1>2, <2>1, <2>2, <2>3
<1>4. ASSUME NEW k \in 0 .. n - 1, k \in T
      PROVE  k + 1 \in T
  <2>1. k \in Nat /\ k < Len(rows) /\ k < Len(vals) /\ k + 1 \in 1 .. n /\ k + 1 \in 0 .. n
    BY <1>1
  <2>2. SubSeq(rows, 1, k + 1) = Append(SubSeq(rows, 1, k), rows[k + 1])
    BY <2>1, PrefixGrows
  <2>3. /\ SubSeq(vals, 1, k) \in Seq(S) /\ vals[k + 1] \in S
        /\ SubSeq(vals, 1, k + 1) = Append(SubSeq(vals, 1, k), vals[k + 1])
    BY <2>1, PrefixGrows
  <2>4. Ins(k + 1) = Encode(Ins(k), vals[k + 1])
    <3>1. FoldLeft(Encode, NewIns, Append(SubSeq(vals, 1, k), vals[k + 1]))
            = Encode(FoldLeft(Encode, NewIns, SubSeq(vals, 1, k)), vals[k + 1])
      <4> DEFINE u == SubSeq(vals, 1, k)
                 val == vals[k + 1]
      <4>1. u \in Seq(S) /\ val \in S
        BY <2>3
      <4> HIDE DEF u, val
      <4>2. FoldLeft(Encode, NewIns, Append(u, val)) = Encode(FoldLeft(Encode, NewIns, u), val)
        BY <4>1, EncodeAppend
      <4> QED
        BY <4>2 DEF u, val
    <3> QED
      BY <2>3, <3>1
  <2> HIDE DEF Ins
  <2>5. InserterHas(Ins(k), SubSeq(rows, 1, k))
    BY <1>4
  <2>6. StandsFor(vals[k + 1], rows[k + 1])
    BY <2>1
  <2>7. InserterHas(Encode(Ins(k), vals[k + 1]), Append(SubSeq(rows, 1, k), rows[k + 1]))
    BY <2>5, <2>6, EncodeOne
  <2> QED
    BY <2>1, <2>2, <2>4, <2>7
<1> HIDE DEF T
<1>5. \A k \in 0 .. n : k \in T
  BY <1>1, <1>3, <1>4, PrefixInduction
<1>6. n \in T
  BY <1>1, <1>5
<1>7. InserterHas(Ins(n), SubSeq(rows, 1, n))
  <2> HIDE DEF Ins
  <2> QED
    BY <1>6 DEF T
<1> QED
  BY <1>2, <1>7

\* The pages of a worker are read as the rows its values stand for.
LEMMA EncodedExact ==
  ASSUME WideEnough, NEW S, NEW vals \in Seq(S), NEW V, NEW rows \in Seq(V),
         Len(vals) = Len(rows), \A i \in 1 .. Len(rows) : StandsFor(vals[i], rows[i])
  PROVE  Decodes(type, EncodedPages(vals), rows)
<1> DEFINE ins == FoldLeft(Encode, NewIns, vals)
<1>1. InserterHas(ins, rows)
  BY EncodeAll
<1>2. CASE isString
  <2>1. EncodedPages(vals) = Strings!Finished(ins).pages
    BY <1>2 DEF EncodedPages, NewIns
  <2> HIDE DEF ins
  <2>2. Holds(Strings!Finished(ins).pages, rows)
    BY <1>1, <1>2, StrFinished DEF InserterHas
  <2> QED
    BY <1>2, <2>1, <2>2 DEF Holds, AllPages, Decodes, StrDecodes, isString
<1>3. CASE ~isString
  <2>1. EncodedPages(vals) = Finished(ins).pages
    BY <1>3 DEF EncodedPages, NewIns
  <2> HIDE DEF ins
  <2>2. Orderly(ins) /\ Content(ins) = rows
    BY <1>1, <1>3 DEF InserterHas
  <2>3. Orderly(Finished(ins)) /\ ReadColumn(Finished(ins).pages) = rows
    BY <2>2, FinishedContent
  <2>4. /\ Finished(ins).pages \in Seq(PageType)
        /\ \A p \in DOMAIN Finished(ins).pages :
             Fits(Finished(ins).pages[p]) /\ WellCounted(Finished(ins).pages[p])
        /\ ReadColumn(Finished(ins).pages) \in Seq(Nat)
    BY <2>3, OrderlyParts
  <2> QED
    BY <1>3, <2>1, <2>3, <2>4 DEF Decodes, NumDecodes, isString
<1> QED
  BY <1>2, <1>3

-----------------------------------------------------------------------------
(* Shares                                                                  *)

\* The part of a sequence that thread t takes.
PartOf(s, t) ==
  LET rows_per_thread == (Len(s) + NumThreads - 1) \div NumThreads
  IN  SubSeq(s, t * rows_per_thread + 1, Min({(t + 1) * rows_per_thread, Len(s)}))

Parts(s) == [i \in 1 .. NumThreads |-> PartOf(s, i - 1)]

\* Where a share lies.
Bound(n, t) ==
  LET rows_per_thread == (n + NumThreads - 1) \div NumThreads
  IN  IF t * rows_per_thread <= n THEN t * rows_per_thread ELSE n

\* A worker's part lies between two bounds, the first not above the second.
LEMMA PartIs ==
  ASSUME NEW S, NEW s \in Seq(S), NEW t \in Threads
  PROVE  /\ Len(s) \in Nat /\ t \in Nat
         /\ Bound(Len(s), t) \in 0 .. Len(s)
         /\ Bound(Len(s), t + 1) \in Bound(Len(s), t) .. Len(s)
         /\ PartOf(s, t) = SubSeq(s, Bound(Len(s), t) + 1, Bound(Len(s), t + 1))
         /\ PartOf(s, t) \in Seq(S)
<1> DEFINE n == Len(s)
           r == (n + NumThreads - 1) \div NumThreads
           a == t * r
           b == (t + 1) * r
<1>1. n \in Nat /\ NumThreads \in Nat \ {0} /\ t \in Nat
  BY LenProperties, PoolAssumption DEF Threads
<1>2. n + NumThreads - 1 \in Nat
  BY <1>1
<1>3. r \in Nat
  BY <1>1, <1>2, Division
<1> HIDE DEF r, n
<1>4. a \in Nat /\ b \in Nat /\ a <= b
  BY <1>1, <1>3
<1>5. Bound(n, t) = (IF a <= n THEN a ELSE n) /\ Bound(n, t + 1) = (IF b <= n THEN b ELSE n)
  BY DEF Bound, r
<1>6. PartOf(s, t) = SubSeq(s, a + 1, Min({b, n}))
  BY DEF PartOf, r, n
<1> HIDE DEF a, b
<1>7. Min({b, n}) = IF b <= n THEN b ELSE n
  BY <1>1, <1>4, TwoMin
<1>8. Bound(n, t) \in 0 .. n /\ Bound(n, t + 1) \in Bound(n, t) .. n
  BY <1>1, <1>4, <1>5
<1>9. PartOf(s, t) = SubSeq(s, Bound(n, t) + 1, Bound(n, t + 1))
  <2>1. CASE a <= n
    BY <1>5, <1>6, <1>7, <2>1
  <2>2. CASE ~(a <= n)
    <3>1. Min({b, n}) = n /\ Bound(n, t) = n /\ Bound(n, t + 1) = n
      BY <1>1, <1>4, <1>5, <1>7, <2>2
    <3>2. SubSeq(s, a + 1, n) = <<>>
      BY <1>1, <1>4, <2>2, SubSeqEmpty
    <3>3. SubSeq(s, n + 1, n) = <<>>
      BY <1>1, SubSeqEmpty
    <3> QED
      BY <1>6, <3>1, <3>2, <3>3
  <2> QED
    BY <2>1, <2>2
<1>10. PartOf(s, t) \in Seq(S)
  <2> DEFINE c == Bound(n, t) + 1
             d == Bound(n, t + 1)
  <2>1. c \in 1 .. n + 1 /\ d \in 0 .. n
    BY <1>1, <1>8
  <2> HIDE DEF c, d
  <2>2. c \in Int /\ d \in Int /\ \A i \in c .. d : i \in 1 .. n
    BY <1>1, <2>1
  <2>3. \A i \in c .. d : s[i] \in S
    <3> TAKE i \in c .. d
    <3>1. i \in 1 .. Len(s)
      BY <2>2 DEF n
    <3> QED
      BY <3>1, ElementOfSeq
  <2>4. SubSeq(s, c, d) \in Seq(S)
    BY <2>2, <2>3, SubSeqProperties
  <2> QED
    BY <1>9, <2>4 DEF c, d
<1> QED
  BY <1>1, <1>8, <1>9, <1>10 DEF n

\* The shares of all threads are the whole.
LEMMA PartsAreWhole ==
  ASSUME NEW S, NEW s \in Seq(S)
  PROVE  /\ Parts(s) \in Seq(Seq(S)) /\ Len(Parts(s)) = NumThreads
         /\ FlattenSeq(Parts(s)) = s
<1> DEFINE n == Len(s)
           k == NumThreads
           r == (n + NumThreads - 1) \div NumThreads
           u == Parts(s)
           F(j) == FlattenSeq(SubSeq(u, 1, j))
           T == {j \in 0 .. k : F(j) = SubSeq(s, 1, Bound(n, j))}
<1>1. n \in Nat /\ k \in Nat \ {0}
  BY LenProperties, PoolAssumption
<1>2. r \in Nat /\ n <= k * r /\ k * r \in Nat
  <2> DEFINE x == n + NumThreads - 1
  <2>1. x \in Nat
    BY <1>1
  <2> HIDE DEF x, k, n
  <2>2. r = x \div k
    BY DEF x, k
  <2> HIDE DEF r
  <2>3. r \in Nat
    BY <1>1, <2>1, <2>2, Division
  <2>4. x < (r + 1) * k
    BY <1>1, <2>1, <2>2, <2>3, Enclosed
  <2>5. (r + 1) * k = k * r + k /\ k * r \in Nat
    BY <1>1, <2>3
  <2>6. x = n + k - 1
    BY DEF x, k
  <2> QED
    BY <1>1, <2>3, <2>4, <2>5, <2>6
<1>3. ASSUME NEW i \in 1 .. k
      PROVE  /\ i - 1 \in Threads
             /\ PartOf(s, i - 1) \in Seq(S)
             /\ PartOf(s, i - 1) = SubSeq(s, Bound(n, i - 1) + 1, Bound(n, i))
             /\ Bound(n, i - 1) \in 0 .. n
             /\ Bound(n, i) \in Bound(n, i - 1) .. n
  <2>1. i - 1 \in Threads /\ (i - 1) + 1 = i
    BY <1>1 DEF Threads
  <2>2. /\ Bound(n, i - 1) \in 0 .. n
        /\ Bound(n, (i - 1) + 1) \in Bound(n, i - 1) .. n
        /\ PartOf(s, i - 1) = SubSeq(s, Bound(n, i - 1) + 1, Bound(n, (i - 1) + 1))
        /\ PartOf(s, i - 1) \in Seq(S)
    BY <2>1, PartIs
  <2> QED
    BY <2>1, <2>2
<1>4. u \in Seq(Seq(S)) /\ Len(u) = k /\ \A i \in 1 .. k : u[i] = PartOf(s, i - 1)
  <2>1. u = [i \in 1 .. k |-> PartOf(s, i - 1)]
    BY DEF Parts
  <2>2. Maps(u, 1 .. k, Seq(S))
    BY <1>3, <2>1 DEF Maps
  <2>3. u \in Seq(Seq(S)) /\ Len(u) = k
    BY <1>1, <2>2, SequenceOf
  <2> QED
    BY <2>1, <2>3
<1>5. Bound(n, 0) = 0 /\ Bound(n, k) = n
  <2>1. 0 * r = 0 /\ 0 <= n
    BY <1>1, <1>2
  <2>2. Bound(n, 0) = (IF 0 * r <= n THEN 0 * r ELSE n) /\ Bound(n, k) = (IF k * r <= n THEN k * r ELSE n)
    BY DEF Bound
  <2> HIDE DEF r, k, n
  <2> QED
    BY <1>1, <1>2, <2>1, <2>2
<1> HIDE DEF u, r
<1>6. SubSeq(u, 1, 0) = <<>> /\ SubSeq(u, 1, k) = u /\ SubSeq(s, 1, 0) = <<>> /\ SubSeq(s, 1, n) = s
  <2>1. SubSeq(u, 1, 0) = <<>> /\ SubSeq(u, 1, Len(u)) = u
    BY <1>4, PrefixEnds
  <2>2. SubSeq(s, 1, 0) = <<>> /\ SubSeq(s, 1, Len(s)) = s
    BY PrefixEnds
  <2> QED
    BY <1>4, <2>1, <2>2
<1>7. 0 \in T
  <2>1. F(0) = <<>>
    BY <1>6, FlattenEmpty
  <2>2. 0 \in 0 .. k
    BY <1>1
  <2> HIDE DEF F
  <2> QED
    BY <1>5, <1>6, <2>1, <2>2
<1>8. ASSUME NEW j \in 0 .. k - 1, j \in T
      PROVE  j + 1 \in T
  <2>1. j \in Nat /\ j < Len(u) /\ j + 1 \in 1 .. k /\ j + 1 \in 0 .. k /\ (j + 1) - 1 = j
    BY <1>1, <1>4
  <2>2. /\ SubSeq(u, 1, j) \in Seq(Seq(S)) /\ u[j + 1] \in Seq(S)
        /\ SubSeq(u, 1, j + 1) = Append(SubSeq(u, 1, j), u[j + 1])
    BY <1>4, <2>1, PrefixGrows
  <2>3. F(j + 1) = F(j) \o u[j + 1]
    <3>1. FlattenSeq(Append(SubSeq(u, 1, j), u[j + 1])) = FlattenSeq(SubSeq(u, 1, j)) \o u[j + 1]
      BY <2>2, FlattenAppend
    <3> QED
      BY <2>2, <3>1
  <2>4. /\ u[j + 1] = SubSeq(s, Bound(n, j) + 1, Bound(n, j + 1))
        /\ Bound(n, j) \in 0 .. n
        /\ Bound(n, j + 1) \in Bound(n, j) .. n
    BY <1>3, <1>4, <2>1
  <2> HIDE DEF F
  <2>5. F(j) = SubSeq(s, 1, Bound(n, j))
    BY <1>8
  <2>6. SubSeq(s, 1, Bound(n, j)) \o SubSeq(s, Bound(n, j) + 1, Bound(n, j + 1))
          = SubSeq(s, 1, Bound(n, j + 1))
    <3>1. /\ 1 \in 1 .. Len(s) + 1 /\ Bound(n, j) \in 1 - 1 .. Len(s)
          /\ Bound(n, j + 1) \in Bound(n, j) .. Len(s)
      BY <1>1, <2>4
    <3> QED
      BY <3>1, ConcatAdjacentSubSeq
  <2> QED
    BY <2>1, <2>3, <2>4, <2>5, <2>6
<1> HIDE DEF T
<1>9. \A j \in 0 .. k : j \in T
  BY <1>1, <1>7, <1>8, PrefixInduction
<1>10. k \in T
  BY <1>1, <1>9
<1>11. F(k) = SubSeq(s, 1, Bound(n, k))
  <2> HIDE DEF F
  <2> QED
    BY <1>10 DEF T
<1> QED
  BY <1>4, <1>5, <1>6, <1>11 DEF u

\* Two sequences of one length are shared out alike.
LEMMA PartsAlike ==
  ASSUME NEW S, NEW s \in Seq(S), NEW V, NEW v \in Seq(V), Len(s) = Len(v), NEW t \in Threads
  PROVE  /\ Len(PartOf(s, t)) = Len(PartOf(v, t))
         /\ \A i \in 1 .. Len(PartOf(v, t)) :
              \E j \in 1 .. Len(v) : PartOf(s, t)[i] = s[j] /\ PartOf(v, t)[i] = v[j]
<1> DEFINE n == Len(v)
           a == Bound(n, t)
           b == Bound(n, t + 1)
<1>1. n \in Nat /\ a \in 0 .. n /\ b \in a .. n /\ PartOf(v, t) = SubSeq(v, a + 1, b)
  BY PartIs
<1>2. PartOf(s, t) = SubSeq(s, a + 1, b)
  <2>1. PartOf(s, t) = SubSeq(s, Bound(Len(s), t) + 1, Bound(Len(s), t + 1))
    BY PartIs
  <2> QED
    BY <2>1
<1> HIDE DEF a, b, n
<1>3. a + 1 \in Int /\ b \in Int /\ \A i \in a + 1 .. b : i \in 1 .. n
  BY <1>1
<1>4. /\ \A i \in a + 1 .. b : v[i] \in V
      /\ \A i \in a + 1 .. b : s[i] \in S
  BY <1>3, ElementOfSeq DEF n
<1>5. /\ Len(SubSeq(v, a + 1, b)) = (IF a + 1 <= b THEN b - (a + 1) + 1 ELSE 0)
      /\ \A i \in 1 .. b - (a + 1) + 1 : SubSeq(v, a + 1, b)[i] = v[(a + 1) + i - 1]
  BY <1>3, <1>4, SubSeqProperties
<1>6. /\ Len(SubSeq(s, a + 1, b)) = (IF a + 1 <= b THEN b - (a + 1) + 1 ELSE 0)
      /\ \A i \in 1 .. b - (a + 1) + 1 : SubSeq(s, a + 1, b)[i] = s[(a + 1) + i - 1]
  BY <1>3, <1>4, SubSeqProperties
<1>7. Len(SubSeq(v, a + 1, b)) = b - a
  BY <1>1, <1>5
<1>8. ASSUME NEW i \in 1 .. b - a
      PROVE  \E j \in 1 .. n : SubSeq(s, a + 1, b)[i] = s[j] /\ SubSeq(v, a + 1, b)[i] = v[j]
  <2>1. i \in 1 .. b - (a + 1) + 1 /\ (a + 1) + i - 1 = a + i /\ a + i \in 1 .. n
    BY <1>1
  <2> QED
    BY <1>5, <1>6, <2>1
<1> QED
  BY <1>1, <1>2, <1>5, <1>6, <1>7, <1>8 DEF n

\* Pages of rows put together are pages of the rows put together.
LEMMA DecodesConcat ==
  ASSUME NEW ty, NEW p, NEW v, Decodes(ty, p, v), NEW q, NEW w, Decodes(ty, q, w)
  PROVE  Decodes(ty, p \o q, v \o w)
<1>1. CASE ty = "VARCHAR"
  <2>1. /\ p \in Seq(StrPage) /\ v \in Seq(Strings!Str) /\ Reads(p, v)
        /\ q \in Seq(StrPage) /\ w \in Seq(Strings!Str) /\ Reads(q, w)
    BY <1>1 DEF Decodes, StrDecodes
  <2>2. p \o q \in Seq(StrPage) /\ v \o w \in Seq(Strings!Str)
    BY <2>1, ConcatProperties
  <2>3. ASSUME NEW base \in Seq(Strings!Str)
        PROVE  FoldLeft(AddTo, base, p \o q) = base \o (v \o w)
    <3>1. FoldLeft(AddTo, base, p \o q) = FoldLeft(AddTo, FoldLeft(AddTo, base, p), q)
      BY <2>1, AddedConcat
    <3>2. FoldLeft(AddTo, base, p) = base \o v /\ base \o v \in Seq(Strings!Str)
      BY <2>1, ConcatProperties DEF Reads
    <3>3. FoldLeft(AddTo, base \o v, q) = (base \o v) \o w
      BY <2>1, <3>2 DEF Reads
    <3>4. (base \o v) \o w = base \o (v \o w)
      <4>1. base \in Seq(Strings!Str) /\ v \in Seq(Strings!Str) /\ w \in Seq(Strings!Str)
        BY <2>1
      <4> QED
        BY <4>1, ConcatAssociative
    <3> QED
      BY <3>1, <3>2, <3>3, <3>4
  <2> QED
    BY <1>1, <2>2, <2>3 DEF Decodes, StrDecodes, Reads
<1>2. CASE ty # "VARCHAR"
  <2> DEFINE m == Len(p)
             n == Len(q)
             u == p \o q
  <2>1. /\ p \in Seq(PageType) /\ v \in Seq(Nat) /\ ReadColumn(p) = v
        /\ \A i \in DOMAIN p : Fits(p[i]) /\ WellCounted(p[i])
        /\ q \in Seq(PageType) /\ w \in Seq(Nat) /\ ReadColumn(q) = w
        /\ \A i \in DOMAIN q : Fits(q[i]) /\ WellCounted(q[i])
    BY <1>2 DEF Decodes, NumDecodes
  <2>2. /\ m \in Nat /\ n \in Nat /\ DOMAIN p = 1 .. m /\ DOMAIN q = 1 .. n
        /\ PagesRead(p) \in Seq(Seq(Nat)) /\ Len(PagesRead(p)) = m
        /\ \A i \in 1 .. m : PagesRead(p)[i] = ReadPage(p[i])
        /\ PagesRead(q) \in Seq(Seq(Nat)) /\ Len(PagesRead(q)) = n
        /\ \A i \in 1 .. n : PagesRead(q)[i] = ReadPage(q[i])
    BY <2>1, PagesReadType
  <2>3. /\ u \in Seq(PageType) /\ Len(u) = m + n
        /\ \A i \in 1 .. m + n : u[i] = IF i <= m THEN p[i] ELSE q[i - m]
    BY <2>1, ConcatProperties
  <2>4. DOMAIN u = 1 .. m + n
    BY <2>3, LenProperties
  <2> HIDE DEF u, m, n
  <2>5. \A i \in 1 .. m + n : i \in 1 .. m \/ (~(i <= m) /\ i - m \in 1 .. n)
    BY <2>2
  <2>6. \A i \in 1 .. m : i <= m /\ i \in 1 .. m + n
    BY <2>2
  <2>7. \A i \in DOMAIN u : Fits(u[i]) /\ WellCounted(u[i])
    BY <2>1, <2>2, <2>3, <2>4, <2>5, <2>6
  <2>8. PagesRead(u) = PagesRead(p) \o PagesRead(q)
    <3>1. /\ PagesRead(u) \in Seq(Seq(Nat)) /\ Len(PagesRead(u)) = m + n
          /\ \A i \in 1 .. m + n : PagesRead(u)[i] = ReadPage(u[i])
      BY <2>3, <2>7, PagesReadType
    <3> DEFINE a == PagesRead(p)
               b == PagesRead(q)
    <3>2. /\ a \in Seq(Seq(Nat)) /\ Len(a) = m /\ b \in Seq(Seq(Nat)) /\ Len(b) = n
          /\ \A i \in 1 .. m : a[i] = ReadPage(p[i])
          /\ \A i \in 1 .. n : b[i] = ReadPage(q[i])
      BY <2>2
    <3> HIDE DEF a, b
    <3>3. /\ a \o b \in Seq(Seq(Nat)) /\ Len(a \o b) = m + n
          /\ \A i \in 1 .. m + n : (a \o b)[i] = IF i <= m THEN a[i] ELSE b[i - m]
      <4>1. /\ a \o b \in Seq(Seq(Nat)) /\ Len(a \o b) = Len(a) + Len(b)
            /\ \A i \in 1 .. Len(a) + Len(b) : (a \o b)[i] = IF i <= Len(a) THEN a[i] ELSE b[i - Len(a)]
        BY <3>2, ConcatProperties
      <4> QED
        BY <3>2, <4>1
    <3>4. \A i \in 1 .. m + n : PagesRead(u)[i] = (a \o b)[i]
      <4> TAKE i \in 1 .. m + n
      <4>1. CASE i \in 1 .. m
        <5>1. i <= m
          BY <2>6, <4>1
        <5>2. u[i] = p[i] /\ (a \o b)[i] = a[i]
          BY <2>3, <3>3, <5>1
        <5>3. PagesRead(u)[i] = ReadPage(u[i]) /\ a[i] = ReadPage(p[i])
          BY <3>1, <3>2, <4>1
        <5> QED
          BY <5>2, <5>3
      <4>2. CASE ~(i <= m) /\ i - m \in 1 .. n
        BY <2>3, <3>1, <3>2, <3>3, <4>2
      <4> QED
        BY <2>5, <4>1, <4>2
    <3>5. PagesRead(u) = a \o b
      BY <3>1, <3>3, <3>4, SeqEqual
    <3> QED
      BY <3>5 DEF a, b
  <2>9. FlattenSeq(PagesRead(p) \o PagesRead(q)) = FlattenSeq(PagesRead(p)) \o FlattenSeq(PagesRead(q))
    BY <2>2, FlattenConcat
  <2>10. \A pages : ReadColumn(pages) = FlattenSeq(PagesRead(pages))
    BY DEF ReadColumn, PagesRead
  <2>11. ReadColumn(u) = v \o w
    BY <2>1, <2>8, <2>9, <2>10
  <2>12. v \o w \in Seq(Nat)
    BY <2>1, ConcatProperties
  <2> QED
    BY <1>2, <2>3, <2>7, <2>11, <2>12 DEF Decodes, NumDecodes, u
<1> QED
  BY <1>1, <1>2

\* No pages, no rows.
LEMMA DecodesNone == ASSUME NEW ty PROVE Decodes(ty, <<>>, <<>>)
<1>1. /\ <<>> \in Seq(StrPage) /\ <<>> \in Seq(Strings!Str)
      /\ <<>> \in Seq(PageType) /\ <<>> \in Seq(Nat)
  BY EmptySeq
<1>2. Reads(<<>>, <<>>)
  BY HoldsNone DEF Holds
<1>3. Orderly(NewInserter) /\ Content(NewInserter) = <<>> /\ NewInserter.pages = <<>>
  BY NewInserterContent DEF NewInserter
<1>4. ReadColumn(<<>>) = <<>>
  <2>1. [p \in DOMAIN <<>> |-> ReadPage((<<>>)[p])] = <<>>
    OBVIOUS
  <2> QED
    BY <2>1, FlattenEmpty DEF ReadColumn
<1>5. \A p \in DOMAIN <<>> : Fits((<<>>)[p]) /\ WellCounted((<<>>)[p])
  OBVIOUS
<1> QED
  BY <1>1, <1>2, <1>4, <1>5 DEF Decodes, StrDecodes, NumDecodes

\* The caller puts the pages of the threads together.
LEMMA DecodesFlatten ==
  ASSUME NEW ty, NEW P, NEW s \in Seq(Seq(P)), NEW V, NEW t \in Seq(Seq(V)),
         Len(s) = Len(t), \A i \in 1 .. Len(s) : Decodes(ty, s[i], t[i])
  PROVE  Decodes(ty, FlattenSeq(s), FlattenSeq(t))
<1> DEFINE R == {pv \in Seq(P) \X Seq(V) : Decodes(ty, pv[1], pv[2])}
<1>1. <<<<>>, <<>>>> \in R
  BY DecodesNone, EmptySeq
<1>2. ASSUME NEW p \in Seq(P), NEW q \in Seq(P), NEW v \in Seq(V), NEW w \in Seq(V),
             <<p, v>> \in R, <<q, w>> \in R
      PROVE  <<p \o q, v \o w>> \in R
  <2>1. Decodes(ty, p, v) /\ Decodes(ty, q, w)
    BY <1>2
  <2>2. Decodes(ty, p \o q, v \o w)
    BY <2>1, DecodesConcat
  <2>3. p \o q \in Seq(P) /\ v \o w \in Seq(V)
    BY ConcatProperties
  <2> QED
    BY <2>2, <2>3
<1>3. \A i \in 1 .. Len(s) : <<s[i], t[i]>> \in R
  <2> TAKE i \in 1 .. Len(s)
  <2>1. s[i] \in Seq(P) /\ t[i] \in Seq(V)
    BY ElementOfSeq
  <2>2. Decodes(ty, s[i], t[i])
    OBVIOUS
  <2> QED
    BY <2>1, <2>2
<1> HIDE DEF R
<1>4. <<FlattenSeq(s), FlattenSeq(t)>> \in R
  BY <1>1, <1>2, <1>3, FlattenRelated
<1> QED
  BY <1>4 DEF R

-----------------------------------------------------------------------------
(* The column of a query                                                   *)

\* The rows that the joins hand on.
Target(rows, pk) == [i \in DOMAIN pk |-> rows[pk[i]]]

\* What a scan makes of a row of integers.
IntOf(row) == IF row = Null THEN IntNull ELSE IntValue(row)

ColumnType == [val : Row, page : Nat, offset : Nat] \union [page : Nat, offset : Nat]

\* A value_t is that of a row on the pages.
ValueOf(column_type, pages, val, row) ==
  IF column_type = "VARCHAR"
  THEN val \in HandleType /\ row \in Strings!Str /\ Placed(pages, val, row)
  ELSE row \in Row /\ val = IntOf(row)

Matches(column_type, pages, rows, col) ==
  /\ Len(col) = Len(rows)
  /\ \A i \in 1 .. Len(rows) : ValueOf(column_type, pages, col[i], rows[i])

\* What the two findings and the 16 bits of a handle leave alone.
AllPlain(column_type, pages, col) ==
  column_type = "VARCHAR" =>
    /\ Len(pages) <= PageIds
    /\ \A i \in DOMAIN col : Strings!Plain(pages, col[i])

\* The rows handed on are rows.
LEMMA TargetType ==
  ASSUME NEW V, NEW rows \in Seq(V), NEW pk \in Seq(1 .. Len(rows))
  PROVE  /\ Target(rows, pk) \in Seq(V) /\ Len(Target(rows, pk)) = Len(pk)
         /\ Len(pk) \in Nat /\ DOMAIN pk = 1 .. Len(pk)
         /\ \A i \in 1 .. Len(pk) : pk[i] \in 1 .. Len(rows) /\ Target(rows, pk)[i] = rows[pk[i]]
<1>1. Len(pk) \in Nat /\ DOMAIN pk = 1 .. Len(pk)
  BY LenProperties
<1>2. \A i \in 1 .. Len(pk) : pk[i] \in 1 .. Len(rows)
  BY ElementOfSeq
<1>3. \A i \in 1 .. Len(pk) : rows[pk[i]] \in V
  BY <1>2, ElementOfSeq
<1>4. Target(rows, pk) = [i \in 1 .. Len(pk) |-> rows[pk[i]]]
  BY <1>1 DEF Target
<1>5. Maps(Target(rows, pk), 1 .. Len(pk), V)
  BY <1>3, <1>4 DEF Maps
<1> QED
  BY <1>1, <1>2, <1>4, <1>5, SequenceOf

\* A value_t of an integer.
LEMMA IntOfType ==
  ASSUME NEW row \in Row
  PROVE  /\ IntOf(row) \in ColumnType
         /\ row \in Nat
         /\ IsNull(IntOf(row)) => row = Null
         /\ ~IsNull(IntOf(row)) => IntOf(row).val = row
<1>1. MaxRows \in Nat /\ Null \in Row /\ row \in Nat
  BY PageAssumption, NullAssumption DEF Row
<1>2. Strings!NullOffset # 0
  BY DEF Strings!NullOffset
<1>3. CASE row = Null
  <2>1. IntOf(row) = [val |-> Null, page |-> 0, offset |-> 0]
    BY <1>3 DEF IntOf, IntNull
  <2>2. IsNull(IntOf(row))
    BY <2>1 DEF IsNull
  <2> QED
    BY <1>1, <1>3, <2>1, <2>2 DEF ColumnType
<1>4. CASE row # Null
  <2>1. IntOf(row) = [val |-> row, page |-> 1, offset |-> 0]
    BY <1>4 DEF IntOf, IntValue
  <2>2. ~IsNull(IntOf(row))
    BY <1>2, <2>1 DEF IsNull
  <2> QED
    BY <1>1, <2>1, <2>2 DEF ColumnType
<1> QED
  BY <1>3, <1>4

\* The values of a column have their types.
LEMMA MatchesType ==
  ASSUME NEW column_type, NEW pages, NEW V, NEW rows \in Seq(V), NEW col,
         DOMAIN col = 1 .. Len(col), col = [i \in DOMAIN col |-> col[i]],
         Matches(column_type, pages, rows, col)
  PROVE  col \in Seq(ColumnType)
<1> DEFINE n == Len(rows)
<1>1. n \in Nat /\ DOMAIN col = 1 .. n /\ col = [i \in 1 .. n |-> col[i]]
  BY LenProperties DEF Matches
<1>2. \A i \in 1 .. n : col[i] \in ColumnType
  <2> TAKE i \in 1 .. n
  <2>1. ValueOf(column_type, pages, col[i], rows[i])
    BY DEF Matches
  <2>2. CASE column_type = "VARCHAR"
    <3>1. col[i] \in HandleType
      BY <2>1, <2>2 DEF ValueOf
    <3> QED
      BY <3>1 DEF HandleType, ColumnType
  <2>3. CASE column_type # "VARCHAR"
    BY <2>1, <2>3, IntOfType DEF ValueOf
  <2> QED
    BY <2>2, <2>3
<1> HIDE DEF n
<1>3. Maps(col, 1 .. n, ColumnType)
  BY <1>1, <1>2 DEF Maps
<1> QED
  BY <1>1, <1>3, SequenceOf

\* A value_t of a row stands for it when it is materialized.
LEMMA ValueStands ==
  ASSUME NEW val, NEW row, ValueOf(type, basePages, val, row),
         isString => /\ AllPages(basePages) /\ Len(basePages) <= PageIds
                     /\ Strings!Plain(basePages, val)
  PROVE  StandsFor(val, row)
<1>1. CASE isString
  <2> DEFINE pages == basePages
  <2>1. row \in Strings!Str /\ Placed(pages, val, row)
    BY <1>1 DEF ValueOf, isString
  <2>2. AllPages(pages) /\ Len(pages) <= PageIds /\ Strings!Plain(pages, val)
    BY <1>1
  <2> HIDE DEF pages
  <2>3. /\ row = Strings!NoString <=> IsNull(val)
        /\ row # Strings!NoString => row \in RealStr
    BY <2>1, NullMark
  <2>4. row # Strings!NoString => Strings!Materialize(pages, val) = row
    BY <2>1, <2>2, MaterializePlainly
  <2> QED
    BY <1>1, <2>1, <2>3, <2>4 DEF StandsFor, pages
<1>2. CASE ~isString
  <2>1. row \in Row /\ val = IntOf(row)
    BY <1>2 DEF ValueOf, isString
  <2> QED
    BY <1>2, <2>1, IntOfType DEF StandsFor
<1> QED
  BY <1>1, <1>2

\* The pages of a worker are read as its part of the rows.
LEMMA ShareExact ==
  ASSUME WideEnough, NEW V, NEW rows \in Seq(V), column \in Seq(ColumnType),
         Matches(type, basePages, rows, column),
         isString => AllPages(basePages), AllPlain(type, basePages, column),
         NEW t \in Threads
  PROVE  Decodes(type, EncodedPages(Share(t)), PartOf(rows, t))
<1> DEFINE u == PartOf(column, t)
           v == PartOf(rows, t)
<1>1. Share(t) = u
  BY DEF Share, PartOf, RowsPerThread
<1>2. Len(column) = Len(rows)
  BY DEF Matches
<1>3. u \in Seq(ColumnType) /\ v \in Seq(V)
  BY PartIs
<1>4. /\ Len(u) = Len(v)
      /\ \A i \in 1 .. Len(v) : \E j \in 1 .. Len(rows) : u[i] = column[j] /\ v[i] = rows[j]
  BY <1>2, PartsAlike
<1>5. ASSUME NEW j \in 1 .. Len(rows)
      PROVE  StandsFor(column[j], rows[j])
  <2>1. ValueOf(type, basePages, column[j], rows[j])
    BY DEF Matches
  <2>2. DOMAIN column = 1 .. Len(rows)
    BY <1>2, LenProperties
  <2>3. isString => /\ AllPages(basePages) /\ Len(basePages) <= PageIds
                    /\ Strings!Plain(basePages, column[j])
    BY <2>2 DEF AllPlain, isString
  <2> QED
    BY <2>1, <2>3, ValueStands
<1> HIDE DEF u, v
<1>6. \A i \in 1 .. Len(v) : StandsFor(u[i], v[i])
  BY <1>4, <1>5
<1>7. Decodes(type, EncodedPages(u), v)
  BY <1>3, <1>4, <1>6, EncodedExact
<1> QED
  BY <1>1, <1>7 DEF v

\* The caller's result is read as the rows, if the threads' pages are as
\* their parts.
LEMMA CollectExact ==
  ASSUME NEW column_type, NEW V, NEW rows \in Seq(V), NEW pages,
         \A t \in Threads : Decodes(column_type, pages[t], PartOf(rows, t))
  PROVE  Decodes(column_type, FlattenSeq([i \in 1 .. NumThreads |-> pages[i - 1]]), rows)
<1> DEFINE s == [i \in 1 .. NumThreads |-> pages[i - 1]]
           P == IF column_type = "VARCHAR" THEN StrPage ELSE PageType
<1>1. Parts(rows) \in Seq(Seq(V)) /\ Len(Parts(rows)) = NumThreads /\ FlattenSeq(Parts(rows)) = rows
  BY PartsAreWhole
<1>2. NumThreads \in Nat
  BY PoolAssumption
<1>3. ASSUME NEW i \in 1 .. NumThreads
      PROVE  /\ Decodes(column_type, pages[i - 1], PartOf(rows, i - 1))
             /\ pages[i - 1] \in Seq(P)
             /\ Parts(rows)[i] = PartOf(rows, i - 1)
  <2>1. i - 1 \in Threads
    BY <1>2 DEF Threads
  <2>2. Decodes(column_type, pages[i - 1], PartOf(rows, i - 1))
    BY <2>1
  <2>3. pages[i - 1] \in Seq(P)
    BY <2>2 DEF Decodes, StrDecodes, NumDecodes
  <2> QED
    BY <2>2, <2>3 DEF Parts
<1> HIDE DEF P
<1>4. s \in Seq(Seq(P)) /\ Len(s) = NumThreads
  <2>1. Maps(s, 1 .. NumThreads, Seq(P))
    BY <1>3 DEF Maps
  <2> HIDE DEF s
  <2> QED
    BY <1>2, <2>1, SequenceOf
<1>5. \A i \in 1 .. Len(s) : Decodes(column_type, s[i], Parts(rows)[i])
  BY <1>3, <1>4
<1> HIDE DEF s
<1>6. Decodes(column_type, FlattenSeq(s), FlattenSeq(Parts(rows)))
  BY <1>1, <1>4, <1>5, DecodesFlatten
<1> QED
  BY <1>1, <1>6 DEF s

-----------------------------------------------------------------------------
(* The table                                                               *)

NumInserter == [pages : Seq(Page), bits : Seq(BOOLEAN), values : Seq(Row)]

NumTyped ==
  /\ inserter \in NumInserter
  /\ input \in Seq(Row) /\ Len(input) <= MaxRows
  /\ finalized \in BOOLEAN

\* The column of integers, while it is loaded and after.
NumInv == ReadInv /\ NumTyped

\* The column of strings.
StrInv ==
  /\ StrOrderly(strInserter, strInput) /\ Len(strInput) <= MaxStrRows
  /\ strFinalized \in BOOLEAN
  /\ strFinalized => Holds(strInserter.pages, strInput)

\* save_page, insert and insert_null make pages of rows.
LEMMA NumInserterGrown ==
  ASSUME NEW ins \in NumInserter
  PROVE  /\ SavePage(ins) \in NumInserter
         /\ \A value \in Row : WithValue(ins, value) \in NumInserter
         /\ WithNull(ins) \in NumInserter
         /\ Finished(ins) \in NumInserter
<1>1. /\ ins.pages \in Seq(Page) /\ ins.bits \in Seq(BOOLEAN) /\ ins.values \in Seq(Row)
      /\ CurrentPage(ins) \in Page
  BY DEF NumInserter, CurrentPage, Page
<1>2. SavePage(ins) \in NumInserter
  <2>1. Append(ins.pages, CurrentPage(ins)) \in Seq(Page)
    BY <1>1, AppendProperties
  <2>2. <<>> \in Seq(BOOLEAN) /\ <<>> \in Seq(Row)
    BY EmptySeq
  <2> QED
    BY <2>1, <2>2 DEF SavePage, NumInserter
<1>3. ASSUME NEW room \in NumInserter, NEW bit \in BOOLEAN
      PROVE  /\ room.pages \in Seq(Page) /\ Append(room.bits, bit) \in Seq(BOOLEAN)
             /\ room.values \in Seq(Row)
             /\ \A value \in Row : Append(room.values, value) \in Seq(Row)
  <2>1. room.pages \in Seq(Page) /\ room.bits \in Seq(BOOLEAN) /\ room.values \in Seq(Row)
    BY DEF NumInserter
  <2> QED
    BY <2>1, AppendProperties
<1>4. ASSUME NEW value \in Row
      PROVE  WithValue(ins, value) \in NumInserter
  <2> DEFINE room == IF FullForValue(ins) THEN SavePage(ins) ELSE ins
  <2>1. room \in NumInserter
    BY <1>2
  <2>2. WithValue(ins, value) = [pages |-> room.pages, bits |-> Append(room.bits, TRUE),
                                 values |-> Append(room.values, value)]
    BY DEF WithValue
  <2> HIDE DEF room
  <2> QED
    BY <1>3, <2>1, <2>2 DEF NumInserter
<1>5. WithNull(ins) \in NumInserter
  <2> DEFINE room == IF FullForNull(ins) THEN SavePage(ins) ELSE ins
  <2>1. room \in NumInserter
    BY <1>2
  <2>2. WithNull(ins) = [pages |-> room.pages, bits |-> Append(room.bits, FALSE),
                         values |-> room.values]
    BY DEF WithNull
  <2> HIDE DEF room
  <2> QED
    BY <1>3, <2>1, <2>2 DEF NumInserter
<1> QED
  BY <1>2, <1>4, <1>5 DEF Finished

\* The column of integers stays in order.
LEMMA NumInductive ==
  ASSUME WideEnough
  PROVE  (Init => NumInv) /\ (NumInv /\ [Next]_vars => NumInv')
<1>1. MaxRows \in Nat /\ Null \in Row
  BY PageAssumption, NullAssumption DEF Row
<1>2. Init => NumInv
  <2> SUFFICES ASSUME Init PROVE NumInv
    OBVIOUS
  <2>1. <<>> \in Seq(Page) /\ <<>> \in Seq(BOOLEAN) /\ <<>> \in Seq(Row) /\ Len(<<>>) = 0
    BY EmptySeq
  <2>2. inserter \in NumInserter /\ input = <<>> /\ finalized = FALSE
    BY <2>1 DEF Init, NewInserter, NumInserter
  <2>3. ReadInv
    BY ReadInductive
  <2>4. input \in Seq(Row) /\ Len(input) <= MaxRows
    BY <1>1, <2>1, <2>2
  <2>5. finalized \in BOOLEAN
    BY <2>2
  <2> QED
    BY <2>2, <2>3, <2>4, <2>5 DEF NumInv, NumTyped
<1>3. ASSUME NumInv, [Next]_vars
      PROVE  NumInv'
  <2>1. ReadInv /\ ReadInv'
    BY <1>3, ReadInductive DEF NumInv
  <2>2. inserter \in NumInserter /\ input \in Seq(Row) /\ Len(input) <= MaxRows
        /\ Len(input) \in Nat /\ finalized \in BOOLEAN
    BY <1>3, LenProperties DEF NumInv, NumTyped
  <2>3. CASE Insert
    <3>1. Len(input) + 1 \in Row /\ Len(input) + 1 <= MaxRows
      BY <1>1, <2>2, <2>3 DEF Insert, Row
    <3>2. input' \in Seq(Row) /\ Len(input') = Len(input) + 1
      BY <2>2, <2>3, <3>1, AppendProperties DEF Insert
    <3>3. inserter' \in NumInserter
      BY <2>2, <2>3, <3>1, NumInserterGrown DEF Insert
    <3> QED
      BY <2>1, <2>2, <2>3, <3>1, <3>2, <3>3 DEF NumInv, NumTyped, Insert
  <2>4. CASE InsertNull
    <3>1. Len(input) + 1 <= MaxRows
      BY <1>1, <2>2, <2>4 DEF InsertNull
    <3>2. input' \in Seq(Row) /\ Len(input') = Len(input) + 1
      BY <1>1, <2>2, <2>4, AppendProperties DEF InsertNull
    <3>3. inserter' \in NumInserter
      BY <2>2, <2>4, NumInserterGrown DEF InsertNull
    <3> QED
      BY <2>1, <2>2, <2>4, <3>1, <3>2, <3>3 DEF NumInv, NumTyped, InsertNull
  <2>5. CASE Finalize
    <3>1. inserter' \in NumInserter
      BY <2>2, <2>5, NumInserterGrown DEF Finalize
    <3> QED
      BY <2>1, <2>2, <2>5, <3>1 DEF NumInv, NumTyped, Finalize
  <2>6. CASE UNCHANGED vars
    BY <2>1, <2>2, <2>6 DEF NumInv, NumTyped, vars
  <2> QED
    BY <1>3, <2>3, <2>4, <2>5, <2>6 DEF Next, Done
<1> QED
  BY <1>2, <1>3

\* The column of strings stays in order.
LEMMA StrInductive ==
  /\ Strings!Init => StrInv
  /\ StrInv /\ [Strings!Next]_stringVars => StrInv'
<1>1. MaxStrRows \in Nat /\ Sizes \subseteq Nat
  BY StringFacts
<1>2. Strings!Init => StrInv
  <2> SUFFICES ASSUME Strings!Init PROVE StrInv
    OBVIOUS
  <2>1. strInserter = Strings!NewInserter /\ strInput = <<>> /\ strFinalized = FALSE
    BY DEF Strings!Init
  <2>2. StrOrderly(strInserter, strInput)
    BY <2>1, StrNewOrderly
  <2>3. Len(strInput) <= MaxStrRows
    BY <1>1, <2>1, EmptySeq
  <2>4. strFinalized \in BOOLEAN /\ ~strFinalized
    BY <2>1
  <2> QED
    BY <2>2, <2>3, <2>4 DEF StrInv
<1>3. ASSUME StrInv, [Strings!Next]_stringVars
      PROVE  StrInv'
  <2>1. /\ StrOrderly(strInserter, strInput) /\ Len(strInput) <= MaxStrRows
        /\ strFinalized \in BOOLEAN
        /\ strFinalized => Holds(strInserter.pages, strInput)
    BY <1>3 DEF StrInv
  <2>2. strInput \in Seq(Strings!Str) /\ Len(strInput) \in Nat
    BY <2>1, StrOrderlyType, LenProperties
  <2>3. CASE Strings!Insert
    <3>1. PICK size \in Sizes :
            /\ strInput' = Append(strInput, [id |-> Len(strInput) + 1, size |-> size])
            /\ strInserter' = Strings!WithString(strInserter, [id |-> Len(strInput) + 1, size |-> size])
      BY <2>3 DEF Strings!Insert
    <3>2. /\ ~strFinalized /\ strFinalized' = strFinalized
          /\ Len(strInput) < MaxStrRows
      BY <2>3 DEF Strings!Insert
    <3> DEFINE str == [id |-> Len(strInput) + 1, size |-> size]
    <3>3. str \in RealStr
      <4>1. Len(strInput) + 1 \in 1 .. MaxStrRows /\ size \in Nat
        BY <1>1, <2>2, <3>2
      <4> QED
        BY <4>1 DEF RealStr
    <3>4. strInput' = Append(strInput, str) /\ strInserter' = Strings!WithString(strInserter, str)
      BY <3>1
    <3> HIDE DEF str
    <3>5. StrOrderly(strInserter', strInput')
      BY <2>1, <3>3, <3>4, StrWithString
    <3>6. Len(strInput') = Len(strInput) + 1
      <4>1. str \in Strings!Str
        BY <3>3, RowTypes
      <4> QED
        BY <2>2, <3>4, <4>1, AppendProperties
    <3>7. Len(strInput') <= MaxStrRows
      BY <1>1, <2>2, <3>2, <3>6
    <3>8. strFinalized' \in BOOLEAN /\ ~strFinalized'
      BY <2>1, <3>2
    <3> QED
      BY <3>5, <3>7, <3>8 DEF StrInv
  <2>4. CASE Strings!InsertNull
    <3>1. /\ ~strFinalized /\ strFinalized' = strFinalized
          /\ Len(strInput) < MaxStrRows
          /\ strInput' = Append(strInput, Strings!NoString)
          /\ strInserter' = Strings!WithNull(strInserter)
      BY <2>4 DEF Strings!InsertNull
    <3>2. StrOrderly(strInserter', strInput')
      BY <2>1, <3>1, StrWithNull
    <3>3. Len(strInput') = Len(strInput) + 1
      BY <2>2, <3>1, RowTypes, AppendProperties
    <3>4. Len(strInput') <= MaxStrRows
      BY <1>1, <2>2, <3>1, <3>3
    <3>5. strFinalized' \in BOOLEAN /\ ~strFinalized'
      BY <2>1, <3>1
    <3> QED
      BY <3>2, <3>4, <3>5 DEF StrInv
  <2>5. CASE Strings!Finalize
    <3>1. /\ strFinalized' = TRUE /\ strInput' = strInput
          /\ strInserter' = Strings!Finished(strInserter)
      BY <2>5 DEF Strings!Finalize
    <3>2. StrOrderly(strInserter', strInput') /\ Holds(strInserter'.pages, strInput')
      BY <2>1, <3>1, StrFinished
    <3> QED
      BY <2>1, <3>1, <3>2 DEF StrInv
  <2>6. CASE UNCHANGED stringVars
    <3>1. strInserter' = strInserter /\ strInput' = strInput /\ strFinalized' = strFinalized
      BY <2>6 DEF stringVars
    <3> QED
      BY <2>1, <3>1 DEF StrInv
  <2> QED
    BY <1>3, <2>3, <2>4, <2>5, <2>6 DEF Strings!Next, Strings!Done, Strings!vars, stringVars
<1> QED
  BY <1>2, <1>3

-----------------------------------------------------------------------------
(* The way of the column through the query                                 *)

targetRows == Target(baseRows, picked)
isLoaded == IF isString THEN strFinalized ELSE finalized
rowTypes == IF isString THEN Strings!Str ELSE Row

TableInv ==
  /\ NumInv
  /\ StrInv
  /\ type \in {"INT32", "VARCHAR"}

\* The result column holds the value_t's of the rows that were picked.
ColumnInv ==
  /\ picked \in Seq(1 .. Len(baseRows))
  /\ column \in Seq(ColumnType)
  /\ phase = "load" => picked = <<>>
  /\ phase # "load" => isLoaded /\ Matches(type, basePages, targetRows, column)

\* Nobody is called but while the shares are encoded.
CallInv ==
  /\ Pool!TypeOK
  /\ phase \in {"load", "result", "encode", "collect", "done"}
  /\ phase # "encode" => todo = {} /\ running = {}

\* The pages of the workers that have left the task are read as their parts,
\* and the result as the whole.
SharesInv ==
  /\ threadPages = [t \in Threads |-> threadPages[t]]
  /\ phase # "done" => result = <<>>
  /\ AllPlain(type, basePages, column) =>
       /\ phase \in {"encode", "collect"} =>
            \A t \in Threads \ (todo \union running) :
              Decodes(type, threadPages[t], PartOf(targetRows, t))
       /\ phase = "done" => Decodes(type, result, targetRows)

MInv == TableInv /\ ColumnInv /\ CallInv /\ SharesInv

\* The rows of the table have the type of its column.
LEMMA TableRows ==
  ASSUME TableInv
  PROVE  /\ baseRows \in Seq(rowTypes)
         /\ Len(baseRows) \in Nat /\ DOMAIN baseRows = 1 .. Len(baseRows)
         /\ Len(baseRows) \in (0 .. MaxRows) \union (0 .. MaxStrRows)
<1>1. CASE isString
  <2>1. strInput \in Seq(Strings!Str)
    BY StrOrderlyType DEF TableInv, StrInv
  <2>2. Len(strInput) \in Nat /\ DOMAIN strInput = 1 .. Len(strInput)
    BY <2>1, LenProperties
  <2>3. Len(strInput) <= MaxStrRows /\ MaxStrRows \in Nat
    BY StringFacts DEF TableInv, StrInv
  <2>4. Len(strInput) \in 0 .. MaxStrRows
    BY <2>2, <2>3
  <2> QED
    BY <1>1, <2>1, <2>2, <2>4 DEF baseRows, rowTypes
<1>2. CASE ~isString
  <2>1. input \in Seq(Row) /\ Len(input) <= MaxRows
    BY DEF TableInv, NumInv, NumTyped
  <2>2. Len(input) \in Nat /\ DOMAIN input = 1 .. Len(input) /\ MaxRows \in Nat
    BY <2>1, LenProperties, PageAssumption
  <2>3. Len(input) \in 0 .. MaxRows
    BY <2>1, <2>2
  <2> QED
    BY <1>2, <2>1, <2>2, <2>3 DEF baseRows, rowTypes
<1> QED
  BY <1>1, <1>2

\* The scan makes each row a value_t.
LEMMA ScannedRow ==
  ASSUME TableInv, isLoaded, NEW i \in 1 .. Len(baseRows)
  PROVE  ValueOf(type, basePages, Scanned[i], baseRows[i])
<1>1. CASE isString
  <2>1. Holds(strInserter.pages, strInput)
    BY <1>1 DEF TableInv, StrInv, isLoaded
  <2>2. basePages = strInserter.pages /\ baseRows = strInput /\ Scanned = Strings!Handles(strInserter.pages)
    BY <1>1 DEF basePages, baseRows, Scanned
  <2> DEFINE pages == strInserter.pages
             hs == Strings!Handles(pages)
  <2>3. /\ strInput \in Seq(Strings!Str)
        /\ hs \in Seq(HandleType) /\ Len(hs) = Len(strInput)
        /\ \A j \in 1 .. Len(strInput) : Placed(pages, hs[j], strInput[j])
    BY <2>1 DEF Holds, Marks
  <2> HIDE DEF hs, pages
  <2>4. i \in 1 .. Len(strInput) /\ i \in 1 .. Len(hs)
    BY <2>2, <2>3
  <2>5. hs[i] \in HandleType /\ strInput[i] \in Strings!Str /\ Placed(pages, hs[i], strInput[i])
    BY <2>3, <2>4, ElementOfSeq
  <2> QED
    BY <1>1, <2>2, <2>5 DEF ValueOf, isString, hs, pages
<1>2. CASE ~isString
  <2>1. baseRows = input /\ basePages = inserter.pages /\ finalized
    BY <1>2 DEF baseRows, basePages, isLoaded
  <2>2. input \in Seq(Row) /\ i \in 1 .. Len(input)
    BY <2>1 DEF TableInv, NumInv, NumTyped
  <2>3. Len(input) \in Nat /\ DOMAIN input = 1 .. Len(input) /\ input[i] \in Row
    BY <2>2, LenProperties, ElementOfSeq
  <2>4. i - 1 \in 0 .. Len(input) - 1 /\ (i - 1) + 1 = i
    BY <2>2, <2>3
  <2>5. ScanExact
    BY ReadInvScans DEF TableInv, NumInv
  <2>6. GetValue(inserter.pages, i - 1) = input[i]
    BY <2>1, <2>4, <2>5 DEF ScanExact
  <2>7. Scanned[i] = IntOf(input[i])
    BY <1>2, <2>1, <2>2, <2>3, <2>6 DEF Scanned, IntOf
  <2> QED
    BY <1>2, <2>1, <2>3, <2>7 DEF ValueOf, isString
<1> QED
  BY <1>1, <1>2

\* The joins hand value_t's on.
LEMMA QueryMatches ==
  ASSUME TableInv, isLoaded, NEW pk \in Seq(1 .. Len(baseRows)),
         NEW col, col = [i \in DOMAIN pk |-> Scanned[pk[i]]]
  PROVE  /\ Matches(type, basePages, Target(baseRows, pk), col)
         /\ col \in Seq(ColumnType)
<1> DEFINE n == Len(pk)
           rows == Target(baseRows, pk)
<1>1. baseRows \in Seq(rowTypes)
  BY TableRows
<1>2. /\ rows \in Seq(rowTypes) /\ Len(rows) = n /\ n \in Nat /\ DOMAIN pk = 1 .. n
      /\ \A i \in 1 .. n : pk[i] \in 1 .. Len(baseRows) /\ rows[i] = baseRows[pk[i]]
  BY <1>1, TargetType
<1> HIDE DEF rows, n
<1>3. col = [i \in 1 .. n |-> Scanned[pk[i]]]
  BY <1>2
<1> DEFINE all == {Scanned[pk[i]] : i \in 1 .. n}
<1>4. Maps(col, 1 .. n, all)
  BY <1>3 DEF Maps
<1>5. col \in Seq(all) /\ Len(col) = n
  BY <1>2, <1>4, SequenceOf
<1>6. \A i \in 1 .. n : ValueOf(type, basePages, col[i], rows[i])
  <2> TAKE i \in 1 .. n
  <2>1. ValueOf(type, basePages, Scanned[pk[i]], baseRows[pk[i]])
    BY <1>2, ScannedRow
  <2> QED
    BY <1>2, <1>3, <2>1
<1>7. Matches(type, basePages, rows, col)
  BY <1>2, <1>5, <1>6 DEF Matches
<1>8. DOMAIN col = 1 .. Len(col) /\ col = [i \in DOMAIN col |-> col[i]]
  BY <1>3, <1>5
<1>9. col \in Seq(ColumnType)
  BY <1>2, <1>7, <1>8, MatchesType
<1> QED
  BY <1>7, <1>9 DEF rows

\* What a step leaves alone.
LEMMA TableKept ==
  ASSUME TableInv, UNCHANGED <<numericVars, stringVars, type>>
  PROVE  /\ TableInv'
         /\ isString' = isString /\ basePages' = basePages /\ baseRows' = baseRows
         /\ isLoaded' = isLoaded
<1>1. /\ inserter' = inserter /\ input' = input /\ finalized' = finalized
      /\ strInserter' = strInserter /\ strInput' = strInput /\ strFinalized' = strFinalized
      /\ type' = type
  BY DEF numericVars, vars, stringVars
<1>2. NumInv'
  BY <1>1 DEF TableInv, NumInv, ReadInv, NumTyped
<1>3. StrInv'
  BY <1>1 DEF TableInv, StrInv
<1>4. type' \in {"INT32", "VARCHAR"}
  BY <1>1 DEF TableInv
<1> QED
  BY <1>1, <1>2, <1>3, <1>4 DEF TableInv, isString, basePages, baseRows, isLoaded

\* A step that leaves the table and the column alone keeps what holds of them.
LEMMA ColumnKept ==
  ASSUME TableInv, ColumnInv, UNCHANGED <<numericVars, stringVars, type, picked, column>>,
         phase = phase' \/ (phase # "load" /\ phase' # "load")
  PROVE  /\ ColumnInv' /\ targetRows' = targetRows
         /\ AllPlain(type, basePages, column)' = AllPlain(type, basePages, column)
<1>1. /\ basePages' = basePages /\ baseRows' = baseRows /\ isLoaded' = isLoaded
      /\ type' = type /\ picked' = picked /\ column' = column
  BY TableKept
<1>2. targetRows' = targetRows
  BY <1>1 DEF targetRows
<1> QED
  BY <1>1, <1>2 DEF ColumnInv

\* Nothing is loaded yet.
LEMMA MInit == ASSUME WideEnough, MaterializationInit PROVE MInv
<1>1. TableInv
  BY NumInductive, StrInductive DEF MaterializationInit, TableInv
<1>2. /\ phase = "load" /\ picked = <<>> /\ column = <<>>
      /\ threadPages = [t \in Threads |-> <<>>] /\ result = <<>>
  BY DEF MaterializationInit
<1>3. <<>> \in Seq(1 .. Len(baseRows)) /\ <<>> \in Seq(ColumnType)
  BY EmptySeq
<1>4. ColumnInv
  BY <1>2, <1>3 DEF ColumnInv
<1>5. CallInv
  BY <1>2, PoolAssumption DEF MaterializationInit, CallInv, Pool!Init, Pool!TypeOK
<1>6. SharesInv
  BY <1>2 DEF SharesInv
<1> QED
  BY <1>1, <1>4, <1>5, <1>6 DEF MInv

\* A row more, or the last page saved.
LEMMA LoadStep == ASSUME WideEnough, MInv, Load PROVE MInv'
<1>1. /\ phase = "load" /\ phase' = "load" /\ type' = type
      /\ picked' = picked /\ column' = column
      /\ threadPages' = threadPages /\ result' = result
      /\ UNCHANGED poolVars
  BY DEF Load, resultVars
<1>2. NumInv /\ StrInv
  BY DEF MInv, TableInv
<1>3. [Next]_vars /\ [Strings!Next]_stringVars
  BY DEF Load, Next, Strings!Next, numericVars
<1>4. NumInv' /\ StrInv'
  BY <1>2, <1>3, NumInductive, StrInductive
<1>5. TableInv'
  BY <1>1, <1>4 DEF MInv, TableInv
<1>6. picked' = <<>>
  BY <1>1 DEF MInv, ColumnInv
<1>7. <<>> \in Seq(1 .. Len(baseRows'))
  BY EmptySeq
<1>8. ColumnInv'
  BY <1>1, <1>6, <1>7 DEF MInv, ColumnInv
<1>9. CallInv'
  BY <1>1 DEF MInv, CallInv, poolVars, Pool!TypeOK
<1>10. SharesInv'
  BY <1>1 DEF MInv, SharesInv
<1> QED
  BY <1>5, <1>8, <1>9, <1>10 DEF MInv

\* The joins hand on rows of the table.
LEMMA QueryStep == ASSUME MInv, Query PROVE MInv'
<1>1. /\ phase = "load" /\ phase' = "result" /\ isLoaded
      /\ picked' \in Picks(Len(baseRows))
      /\ column' = [i \in DOMAIN picked' |-> Scanned[picked'[i]]]
      /\ UNCHANGED <<numericVars, stringVars, type>> /\ UNCHANGED poolVars
      /\ threadPages' = threadPages /\ result' = result
  BY DEF Query, isLoaded
<1>2. TableInv
  BY DEF MInv
<1>3. /\ TableInv' /\ basePages' = basePages /\ baseRows' = baseRows
      /\ isLoaded' = isLoaded /\ type' = type
  BY <1>1, <1>2, TableKept
<1>4. Len(baseRows) \in (0 .. MaxRows) \union (0 .. MaxStrRows)
  BY <1>2, TableRows
<1>5. picked' \in Seq(1 .. Len(baseRows))
  BY <1>1, <1>4, PicksAssumption
<1>6. /\ Matches(type, basePages, Target(baseRows, picked'), column')
      /\ column' \in Seq(ColumnType)
  BY <1>1, <1>2, <1>5, QueryMatches
<1>7. ColumnInv'
  BY <1>1, <1>3, <1>5, <1>6 DEF ColumnInv, targetRows
<1>8. CallInv'
  BY <1>1 DEF MInv, CallInv, poolVars, Pool!TypeOK
<1>9. SharesInv'
  BY <1>1 DEF MInv, SharesInv
<1> QED
  BY <1>3, <1>7, <1>8, <1>9 DEF MInv

\* The rows that came out of the joins.
LEMMA TargetRows ==
  ASSUME MInv
  PROVE  /\ targetRows \in Seq(rowTypes)
         /\ Len(targetRows) = Len(picked) /\ Len(picked) \in Nat
         /\ DOMAIN picked = 1 .. Len(picked)
<1>1. baseRows \in Seq(rowTypes)
  BY TableRows DEF MInv
<1>2. picked \in Seq(1 .. Len(baseRows))
  BY DEF MInv, ColumnInv
<1> QED
  BY <1>1, <1>2, TargetType DEF targetRows

\* A result of no rows has no pages.
LEMMA EmptyStep == ASSUME MInv, MaterializeEmpty PROVE MInv'
<1>1. /\ phase = "result" /\ column = <<>> /\ phase' = "done"
      /\ UNCHANGED <<numericVars, stringVars, type>> /\ UNCHANGED poolVars
      /\ picked' = picked /\ column' = column
      /\ threadPages' = threadPages /\ result' = result
  BY DEF MaterializeEmpty, resultVars
<1>2. TableInv /\ ColumnInv /\ CallInv /\ SharesInv
  BY DEF MInv
<1>3. TableInv' /\ type' = type
  BY <1>1, <1>2, TableKept
<1>4. ColumnInv' /\ targetRows' = targetRows
  BY <1>1, <1>2, ColumnKept
<1>5. targetRows = <<>>
  <2>1. Len(column) = Len(targetRows)
    BY <1>1, <1>2 DEF ColumnInv, Matches
  <2>2. Len(targetRows) = 0 /\ targetRows \in Seq(rowTypes)
    BY <1>1, <2>1, TargetRows, EmptySeq
  <2> QED
    BY <2>2, EmptySeq
<1>6. result' = <<>>
  BY <1>1, <1>2 DEF SharesInv
<1>7. Decodes(type, <<>>, <<>>)
  BY DecodesNone
<1>8. SharesInv'
  BY <1>1, <1>2, <1>3, <1>4, <1>5, <1>6, <1>7 DEF SharesInv
<1>9. CallInv'
  BY <1>1, <1>2 DEF CallInv, poolVars, Pool!TypeOK
<1> QED
  BY <1>3, <1>4, <1>8, <1>9 DEF MInv

\* Every worker has its share before it.
LEMMA DispatchStep == ASSUME MInv, DispatchShares PROVE MInv'
<1>1. /\ phase = "result" /\ phase' = "encode"
      /\ UNCHANGED <<numericVars, stringVars, type>>
      /\ picked' = picked /\ column' = column
      /\ threadPages' = threadPages /\ result' = result
      /\ Pool!Dispatch
  BY DEF DispatchShares, resultVars
<1>2. TableInv /\ ColumnInv /\ CallInv /\ SharesInv
  BY DEF MInv
<1>3. TableInv' /\ type' = type
  BY <1>1, <1>2, TableKept
<1>4. ColumnInv'
  BY <1>1, <1>2, ColumnKept
<1>5. todo' = Threads
  BY <1>1 DEF Pool!Dispatch, Pool!Workers, Threads
<1>6. SharesInv'
  BY <1>1, <1>2, <1>5 DEF SharesInv
<1>7. CallInv'
  BY <1>1, <1>2, PoolAssumption DEF CallInv, Pool!Dispatch, Pool!TypeOK
<1> QED
  BY <1>3, <1>4, <1>6, <1>7 DEF MInv

\* A worker begins.
LEMMA BeginStep == ASSUME MInv, NEW t \in Threads, BeginShare(t) PROVE MInv'
<1>1. /\ phase' = phase
      /\ UNCHANGED <<numericVars, stringVars, type>>
      /\ picked' = picked /\ column' = column
      /\ threadPages' = threadPages /\ result' = result
      /\ Pool!Begin(t)
  BY DEF BeginShare, resultVars
<1>2. TableInv /\ ColumnInv /\ CallInv /\ SharesInv
  BY DEF MInv
<1>3. TableInv' /\ type' = type
  BY <1>1, <1>2, TableKept
<1>4. /\ ColumnInv' /\ targetRows' = targetRows
      /\ AllPlain(type, basePages, column)' = AllPlain(type, basePages, column)
  BY <1>1, <1>2, ColumnKept
<1>5. todo' \union running' = todo \union running
  BY <1>1 DEF Pool!Begin
<1>6. SharesInv'
  BY <1>1, <1>2, <1>3, <1>4, <1>5 DEF SharesInv
<1>7. CallInv'
  BY <1>1, <1>2 DEF CallInv, Pool!Begin, Pool!TypeOK
<1> QED
  BY <1>3, <1>4, <1>6, <1>7 DEF MInv

\* A worker's pages are read as its part of the rows.
LEMMA EncodeStep == ASSUME WideEnough, MInv, NEW t \in Threads, EncodeShare(t) PROVE MInv'
<1>1. /\ phase' = phase
      /\ UNCHANGED <<numericVars, stringVars, type>>
      /\ picked' = picked /\ column' = column /\ result' = result
      /\ threadPages' = [threadPages EXCEPT ![t] = EncodedPages(Share(t))]
      /\ Pool!End(t)
  BY DEF EncodeShare
<1>2. TableInv /\ ColumnInv /\ CallInv /\ SharesInv
  BY DEF MInv
<1>3. phase = "encode"
  BY <1>1, <1>2 DEF CallInv, Pool!End
<1>4. TableInv' /\ type' = type
  BY <1>1, <1>2, TableKept
<1>5. /\ ColumnInv' /\ targetRows' = targetRows
      /\ AllPlain(type, basePages, column)' = AllPlain(type, basePages, column)
  BY <1>1, <1>2, ColumnKept
<1>6. /\ \A s \in Threads : s \notin todo' \union running' => s = t \/ s \notin todo \union running
      /\ phase' = "encode"
  BY <1>1, <1>3 DEF Pool!End
<1>7. /\ threadPages' = [s \in Threads |-> threadPages'[s]]
      /\ threadPages'[t] = EncodedPages(Share(t))
      /\ \A s \in Threads : s # t => threadPages'[s] = threadPages[s]
  <2>1. threadPages = [s \in Threads |-> threadPages[s]]
    BY <1>2 DEF SharesInv
  <2> QED
    BY <1>1, <2>1
<1>8. ASSUME AllPlain(type, basePages, column)
      PROVE  Decodes(type, EncodedPages(Share(t)), PartOf(targetRows, t))
  <2>1. targetRows \in Seq(rowTypes)
    BY TargetRows
  <2>2. column \in Seq(ColumnType) /\ Matches(type, basePages, targetRows, column) /\ isLoaded
    BY <1>2, <1>3 DEF ColumnInv
  <2>3. isString => AllPages(basePages)
    BY <1>2, <2>2 DEF TableInv, StrInv, isLoaded, basePages, Holds
  <2> QED
    BY <1>8, <2>1, <2>2, <2>3, ShareExact
<1>9. ASSUME AllPlain(type, basePages, column), NEW s \in Threads \ (todo' \union running')
      PROVE  Decodes(type, threadPages'[s], PartOf(targetRows, s))
  <2>1. CASE s = t
    BY <1>7, <1>8, <1>9, <2>1
  <2>2. CASE s # t
    <3>1. s \in Threads \ (todo \union running)
      BY <1>6, <2>2
    <3>2. Decodes(type, threadPages[s], PartOf(targetRows, s))
      BY <1>2, <1>3, <1>9, <3>1 DEF SharesInv
    <3> QED
      BY <1>7, <2>2, <3>2
  <2> QED
    BY <2>1, <2>2
<1>10. SharesInv'
  BY <1>1, <1>2, <1>3, <1>4, <1>5, <1>7, <1>9 DEF SharesInv
<1>11. CallInv'
  BY <1>1, <1>2, <1>3 DEF CallInv, Pool!End, Pool!TypeOK
<1> QED
  BY <1>4, <1>5, <1>10, <1>11 DEF MInv

\* run_parallel returns: all have left.
LEMMA ReturnStep == ASSUME MInv, ReturnShares PROVE MInv'
<1>1. /\ phase = "encode" /\ phase' = "collect"
      /\ UNCHANGED <<numericVars, stringVars, type>>
      /\ picked' = picked /\ column' = column
      /\ threadPages' = threadPages /\ result' = result
      /\ Pool!Return
  BY DEF ReturnShares, resultVars
<1>2. TableInv /\ ColumnInv /\ CallInv /\ SharesInv
  BY DEF MInv
<1>3. TableInv' /\ type' = type
  BY <1>1, <1>2, TableKept
<1>4. /\ ColumnInv' /\ targetRows' = targetRows
      /\ AllPlain(type, basePages, column)' = AllPlain(type, basePages, column)
  BY <1>1, <1>2, ColumnKept
<1>5. todo' = todo /\ running' = running
  BY <1>1 DEF Pool!Return
<1>6. SharesInv'
  BY <1>1, <1>2, <1>3, <1>4, <1>5 DEF SharesInv
<1>7. CallInv'
  BY <1>1, <1>2 DEF CallInv, Pool!Return, Pool!TypeOK
<1> QED
  BY <1>3, <1>4, <1>6, <1>7 DEF MInv

\* The caller puts the pages together.
LEMMA CollectStep == ASSUME MInv, Collect PROVE MInv'
<1>1. /\ phase = "collect" /\ phase' = "done"
      /\ UNCHANGED <<numericVars, stringVars, type>> /\ UNCHANGED poolVars
      /\ picked' = picked /\ column' = column /\ threadPages' = threadPages
      /\ result' = FlattenSeq([i \in 1 .. NumThreads |-> threadPages[i - 1]])
  BY DEF Collect
<1>2. TableInv /\ ColumnInv /\ CallInv /\ SharesInv
  BY DEF MInv
<1>3. TableInv' /\ type' = type
  BY <1>1, <1>2, TableKept
<1>4. /\ ColumnInv' /\ targetRows' = targetRows
      /\ AllPlain(type, basePages, column)' = AllPlain(type, basePages, column)
  BY <1>1, <1>2, ColumnKept
<1>5. todo = {} /\ running = {}
  BY <1>1, <1>2 DEF CallInv
<1>6. ASSUME AllPlain(type, basePages, column)
      PROVE  Decodes(type, result', targetRows)
  <2>1. targetRows \in Seq(rowTypes)
    BY TargetRows
  <2>2. \A t \in Threads : Decodes(type, threadPages[t], PartOf(targetRows, t))
    BY <1>1, <1>2, <1>5, <1>6 DEF SharesInv
  <2>3. Decodes(type, FlattenSeq([i \in 1 .. NumThreads |-> threadPages[i - 1]]), targetRows)
    BY <2>1, <2>2, CollectExact
  <2> QED
    BY <1>1, <2>3
<1>7. SharesInv'
  BY <1>1, <1>2, <1>3, <1>4, <1>6 DEF SharesInv
<1>8. CallInv'
  BY <1>1, <1>2 DEF CallInv, poolVars, Pool!TypeOK
<1> QED
  BY <1>3, <1>4, <1>7, <1>8 DEF MInv

\* Nothing happens.
LEMMA StutterStep == ASSUME MInv, UNCHANGED allVars PROVE MInv'
<1>1. /\ phase' = phase
      /\ UNCHANGED <<numericVars, stringVars, type>> /\ UNCHANGED poolVars
      /\ picked' = picked /\ column' = column
      /\ threadPages' = threadPages /\ result' = result
  BY DEF allVars, resultVars
<1>2. TableInv /\ ColumnInv /\ CallInv /\ SharesInv
  BY DEF MInv
<1>3. TableInv' /\ type' = type
  BY <1>1, <1>2, TableKept
<1>4. /\ ColumnInv' /\ targetRows' = targetRows
      /\ AllPlain(type, basePages, column)' = AllPlain(type, basePages, column)
  BY <1>1, <1>2, ColumnKept
<1>5. todo' = todo /\ running' = running
  BY <1>1 DEF poolVars
<1>6. SharesInv'
  BY <1>1, <1>2, <1>3, <1>4, <1>5 DEF SharesInv
<1>7. CallInv'
  BY <1>1, <1>2 DEF CallInv, poolVars, Pool!TypeOK
<1> QED
  BY <1>3, <1>4, <1>6, <1>7 DEF MInv

\* Every step keeps the invariant.
LEMMA MInductive ==
  ASSUME WideEnough, MInv, [MaterializationNext]_allVars
  PROVE  MInv'
<1>1. CASE Load
  BY <1>1, LoadStep
<1>2. CASE Query
  BY <1>2, QueryStep
<1>3. CASE MaterializeEmpty
  BY <1>3, EmptyStep
<1>4. CASE DispatchShares
  BY <1>4, DispatchStep
<1>5. CASE \E t \in Threads : BeginShare(t) \/ EncodeShare(t)
  BY <1>5, BeginStep, EncodeStep
<1>6. CASE ReturnShares
  BY <1>6, ReturnStep
<1>7. CASE Collect
  BY <1>7, CollectStep
<1>8. CASE UNCHANGED allVars
  BY <1>8, StutterStep
<1> QED
  BY <1>1, <1>2, <1>3, <1>4, <1>5, <1>6, <1>7, <1>8 DEF MaterializationNext, Finish

-----------------------------------------------------------------------------
(* Theorems about the query                                                *)

\* The invariant of the whole query.
LEMMA MInvariant == ASSUME WideEnough PROVE MaterializationSpec => []MInv
<1>1. MaterializationInit => MInv
  BY MInit
<1>2. MInv /\ [MaterializationNext]_allVars => MInv'
  BY MInductive
<1> QED
  BY <1>1, <1>2, PTL DEF MaterializationSpec

\* A page of the encoder has as many strings as bits that are set.
LEMMA StrTyped == ASSUME StrInv PROVE Strings!TypeOK
<1> DEFINE page == Strings!CurrentPage(strInserter)
<1>1. strInserter \in StrInserter /\ GoodPage(page) /\ strInput \in Seq(Strings!Str)
  BY StrOrderlyType DEF StrInv, StrOrderly
<1>2. page.bits = strInserter.bits /\ page.strings = strInserter.strings
  BY DEF Strings!CurrentPage
<1> HIDE DEF page
<1>3. /\ strInserter.pages \in Seq(StrPage)
      /\ strInserter.bits \in Seq(BOOLEAN) /\ strInserter.strings \in Seq(RealStr)
      /\ strInserter = [pages |-> strInserter.pages, bits |-> strInserter.bits,
                        strings |-> strInserter.strings]
  BY <1>1 DEF StrInserter
<1>4. strInserter.pages \in Seq(Strings!Page) /\ strInserter.strings \in Seq(Strings!Str)
  BY <1>3, PageTypes, RowTypes, SeqMonotonic
<1>5. strInserter \in [pages : Seq(Strings!Page), bits : Seq(BOOLEAN), strings : Seq(Strings!Str)]
  BY <1>3, <1>4
<1>6. {i \in DOMAIN strInserter.bits : strInserter.bits[i]}
        = Set(strInserter.bits, Len(strInserter.bits))
  BY <1>3, LenProperties DEF Set
<1>7. Len(strInserter.strings) = Cardinality(Set(strInserter.bits, Len(strInserter.bits)))
  BY <1>1, <1>2 DEF GoodPage
<1>8. \A S : Strings!Cardinality(S) = Cardinality(S)
  BY DEF Strings!Cardinality, Cardinality
<1>9. strFinalized \in BOOLEAN
  BY DEF StrInv
<1> QED
  BY <1>1, <1>5, <1>6, <1>7, <1>8, <1>9 DEF Strings!TypeOK

\* An inserter of integers keeps its types.
LEMMA NumTypeOK == ASSUME NumInv PROVE TypeOK
<1>1. inserter \in NumInserter /\ input \in Seq(Row) /\ finalized \in BOOLEAN
  BY DEF NumInv, NumTyped
<1>2. WellCounted(CurrentPage(inserter))
  BY OrderlyParts DEF NumInv, ReadInv
<1>3. Len(inserter.values) = Cardinality(Set(inserter.bits, Len(inserter.bits)))
  BY <1>2 DEF WellCounted, CurrentPage
<1>4. {i \in DOMAIN inserter.bits : inserter.bits[i]} = Set(inserter.bits, Len(inserter.bits))
  BY <1>1, LenProperties DEF Set, NumInserter
<1> QED
  BY <1>1, <1>3, <1>4 DEF TypeOK, NumInserter

\* The encoders' pages, the pool's variables and the query's have their types,
\* and there is a value_t for every row that was picked.
THEOREM MaterializationTypeCorrect ==
  ASSUME WideEnough
  PROVE  MaterializationSpec => []PartsTypeOK
<1>1. MInv => PartsTypeOK
  <2> SUFFICES ASSUME MInv PROVE PartsTypeOK
    OBVIOUS
  <2>1. TypeOK /\ Strings!TypeOK
    BY NumTypeOK, StrTyped DEF MInv, TableInv
  <2>2. /\ Pool!TypeOK
        /\ phase \in {"load", "result", "encode", "collect", "done"}
    BY DEF MInv, CallInv
  <2>3. picked \in Seq(DOMAIN baseRows)
    <3>1. DOMAIN baseRows = 1 .. Len(baseRows)
      BY TableRows DEF MInv
    <3> QED
      BY <3>1 DEF MInv, ColumnInv
  <2>4. column \in Seq([val : Row, page : Nat, offset : Nat] \union [page : Nat, offset : Nat])
    BY DEF MInv, ColumnInv, ColumnType
  <2>5. phase = "load" \/ Len(column) = Len(picked)
    BY TargetRows DEF MInv, ColumnInv, Matches
  <2> QED
    BY <2>1, <2>2, <2>3, <2>4, <2>5 DEF PartsTypeOK
<1> QED
  BY <1>1, MInvariant, PTL

\* from_columnar reads back the strings that were inserted, long ones and
\* NULLs among them, whatever the sizes of pages and strings.
THEOREM StringReadBack ==
  ASSUME WideEnough
  PROVE  MaterializationSpec => []StringsReadBack
<1>1. MInv => StringsReadBack
  <2> SUFFICES ASSUME MInv, strFinalized
               PROVE  Strings!ReadColumn(strInserter.pages) = strInput
    BY DEF StringsReadBack, Strings!ReadBack
  <2> QED
    BY HoldsRead DEF MInv, TableInv, StrInv
<1> QED
  BY <1>1, MInvariant, PTL

\* A scan makes a handle for each row, NULL where the row is, and no two rows
\* with strings share one while the pages can be told apart.
THEOREM StringHandlesExact ==
  ASSUME WideEnough
  PROVE  MaterializationSpec => []HandlesExact
<1>1. MInv => HandlesExact
  <2> DEFINE pages == strInserter.pages
             hs == Strings!Handles(pages)
  <2> SUFFICES ASSUME MInv, strFinalized, Len(pages) <= PageIds
               PROVE  /\ Len(hs) = Len(strInput)
                      /\ \A i \in DOMAIN strInput :
                           (strInput[i] = Strings!NoString) <=> (hs[i].offset = Strings!NullOffset)
                      /\ \A i, j \in DOMAIN strInput :
                           i # j /\ strInput[i] # Strings!NoString => hs[i] # hs[j]
    BY DEF HandlesExact, Strings!HandlesExact
  <2>1. Holds(pages, strInput)
    BY DEF MInv, TableInv, StrInv
  <2> HIDE DEF hs
  <2>2. /\ strInput \in Seq(Strings!Str) /\ Len(hs) = Len(strInput)
        /\ \A i \in 1 .. Len(strInput) : Placed(pages, hs[i], strInput[i])
        /\ Apart(hs, strInput)
    BY <2>1 DEF Holds, Marks, hs
  <2>3. DOMAIN strInput = 1 .. Len(strInput)
    BY <2>2, LenProperties
  <2> HIDE DEF pages
  <2>4. \A i \in 1 .. Len(strInput) :
          (strInput[i] = Strings!NoString) <=> (hs[i].offset = Strings!NullOffset)
    BY <2>2, NullMark
  <2> QED
    BY <2>2, <2>3, <2>4 DEF Apart
<1> QED
  BY <1>1, MInvariant, PTL

\* What is decoded are the rows.
LEMMA DecodesRead ==
  ASSUME NEW pages, NEW rows, Decodes(type, pages, rows)
  PROVE  (IF isString THEN Strings!ReadColumn(pages) ELSE ReadColumn(pages)) = rows
<1>1. CASE isString
  <2>1. rows \in Seq(Strings!Str) /\ Reads(pages, rows)
    BY <1>1 DEF Decodes, StrDecodes, isString
  <2>2. <<>> \in Seq(Strings!Str)
    BY EmptySeq
  <2>3. FoldLeft(AddTo, <<>>, pages) = <<>> \o rows
    BY <2>1, <2>2 DEF Reads
  <2>4. Strings!ReadColumn(pages) = rows
    BY <2>1, <2>3, ReadColumnIsFold, ConcatEmptySeq
  <2> QED
    BY <1>1, <2>4
<1>2. CASE ~isString
  BY <1>2 DEF Decodes, NumDecodes, isString
<1> QED
  BY <1>1, <1>2

\* A result column holds the rows that the joins have picked, in their order,
\* whatever their number and that of the workers and whoever ends first.
THEOREM QueryResultExact ==
  ASSUME WideEnough
  PROVE  MaterializationSpec => []ResultExact
<1>1. MInv => ResultExact
  <2> SUFFICES ASSUME MInv, phase = "done",
                      isString => /\ Len(basePages) <= PageIds
                                  /\ \A i \in DOMAIN column : Strings!Plain(basePages, column[i])
               PROVE  ResultRows = [i \in DOMAIN picked |-> baseRows[picked[i]]]
    BY DEF ResultExact
  <2>1. AllPlain(type, basePages, column)
    BY DEF AllPlain, isString
  <2>2. Decodes(type, result, targetRows)
    BY <2>1 DEF MInv, SharesInv
  <2>3. ResultRows = targetRows
    BY <2>2, DecodesRead DEF ResultRows
  <2> QED
    BY <2>3 DEF targetRows, Target
<1> QED
  BY <1>1, MInvariant, PTL

\* The table of integers too is read back and scanned exactly while the query
\* runs on it, and its pages fit.
THEOREM QueryTableExact ==
  ASSUME WideEnough
  PROVE  MaterializationSpec => [](ReadBack /\ ScanExact /\ PagesFit)
<1>1. MInv => ReadBack /\ ScanExact /\ PagesFit
  <2> SUFFICES ASSUME MInv PROVE ReadBack /\ ScanExact /\ PagesFit
    OBVIOUS
  <2>1. ReadInv
    BY DEF MInv, TableInv, NumInv
  <2>2. ReadBack
    BY <2>1 DEF ReadInv, ReadBack
  <2>3. ScanExact
    BY <2>1, ReadInvScans
  <2>4. PagesFit
    BY <2>1 DEF ReadInv, Orderly, PagesFit
  <2> QED
    BY <2>2, <2>3, <2>4
<1> QED
  BY <1>1, MInvariant, PTL

=============================================================================
