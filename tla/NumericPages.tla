---------------------------- MODULE NumericPages ----------------------------
(***************************************************************************)
(* Columns of fixed-width values on pages: the two encoders,               *)
(* ColumnInserter<T> (plan.h) and to_columnar (build_table.cpp), and the   *)
(* two decoders, from_columnar (build_table.cpp) and the scan with its     *)
(* direct page access (execute.cpp, utils.h).                              *)
(*                                                                         *)
(* A page holds its number of rows and of values, the values from          *)
(* DataBegin up, and a bitmap of the rows that have one at its very end.   *)
(* The encoders differ in Reserve, the bytes insert sets aside for the     *)
(* value: 4 in ColumnInserter whatever T is, sizeof(T) in to_columnar.     *)
(***************************************************************************)
EXTENDS Naturals, Sequences, SequencesExt, FiniteSets, FiniteSetsExt

CONSTANTS
  PageSize,     \* PAGE_SIZE
  BitsPerByte,  \* rows a byte of the bitmap holds: 8
  Width,        \* sizeof(T)
  DataBegin,    \* data_begin()
  Reserve,      \* bytes set aside for a value
  Null,         \* a row without a value
  MaxRows       \* bound: rows of the column

ASSUME PageAssumption ==
  /\ {PageSize, BitsPerByte, Width, DataBegin, Reserve} \subseteq Nat \ {0}
  /\ MaxRows \in Nat
  /\ PageSize > DataBegin + Width + Reserve
\* Values are row numbers, so that no two are alike.
ASSUME NullAssumption == Null = 0

VARIABLES
  inserter,  \* the pages saved, and of the current page the rows (the bitmap
             \* as far as it is in use) and the values
  input,     \* the rows inserted so far
  finalized  \* finalize has run

vars == <<inserter, input, finalized>>

Row == 0 .. MaxRows
Corrupt == MaxRows + 1

Page == [bits : Seq(BOOLEAN), values : Seq(Row)]

TypeOK ==
  /\ inserter \in [pages : Seq(Page), bits : Seq(BOOLEAN), values : Seq(Row)]
  /\ input \in Seq(Row)
  /\ finalized \in BOOLEAN
  /\ Len(inserter.values) = Cardinality({i \in DOMAIN inserter.bits : inserter.bits[i]})

-----------------------------------------------------------------------------
(* The encoders *)

NewInserter == [pages |-> <<>>, bits |-> <<>>, values |-> <<>>]

DataEnd(ins) == DataBegin + Width * Len(ins.values)

\* The conditions under which insert and insert_null save the page first.
FullForValue(ins) == DataEnd(ins) + Reserve + (Len(ins.bits) \div BitsPerByte) + 1 > PageSize

\* Variant: no check, as a NULL takes no room for a value.
FullForNullNever(ins) == FALSE

FullForNull(ins) == DataEnd(ins) + (Len(ins.bits) \div BitsPerByte) + 1 > PageSize

CurrentPage(ins) == [bits |-> ins.bits, values |-> ins.values]

\* Variant: data_end stays where it is when a page is saved.
SavePageNoReset(ins) ==
  [pages |-> Append(ins.pages, CurrentPage(ins)), bits |-> <<>>, values |-> ins.values]

SavePage(ins) ==
  [pages |-> Append(ins.pages, CurrentPage(ins)), bits |-> <<>>, values |-> <<>>]

\* insert
WithValue(ins, value) ==
  LET room == IF FullForValue(ins) THEN SavePage(ins) ELSE ins
  IN  [pages |-> room.pages, bits |-> Append(room.bits, TRUE),
       values |-> Append(room.values, value)]

\* insert_null
WithNull(ins) ==
  LET room == IF FullForNull(ins) THEN SavePage(ins) ELSE ins
  IN  [pages |-> room.pages, bits |-> Append(room.bits, FALSE), values |-> room.values]

\* finalize
Finished(ins) == IF ins.bits # <<>> THEN SavePage(ins) ELSE ins

Init ==
  /\ inserter = NewInserter
  /\ input = <<>>
  /\ finalized = FALSE

Insert ==
  /\ ~finalized
  /\ Len(input) < MaxRows
  /\ input' = Append(input, Len(input) + 1)
  /\ inserter' = WithValue(inserter, Len(input) + 1)
  /\ UNCHANGED finalized

InsertNull ==
  /\ ~finalized
  /\ Len(input) < MaxRows
  /\ input' = Append(input, Null)
  /\ inserter' = WithNull(inserter)
  /\ UNCHANGED finalized

Finalize ==
  /\ ~finalized
  /\ finalized' = TRUE
  /\ inserter' = Finished(inserter)
  /\ UNCHANGED input

\* The column is complete.
Done ==
  /\ finalized
  /\ UNCHANGED vars

Next == Insert \/ InsertNull \/ Finalize \/ Done

Spec == Init /\ [][Next]_vars

-----------------------------------------------------------------------------
(* The decoders *)

NumRows(page) == Len(page.bits)
NumNonNull(page) == Len(page.values)
BitmapSize(page) == (NumRows(page) + BitsPerByte - 1) \div BitsPerByte

\* save_page copies the bitmap to the end of the page, over what is there.
ReadValue(page, k) ==
  IF DataBegin + Width * k <= PageSize - BitmapSize(page) THEN page.values[k] ELSE Corrupt

\* Row i of a page: data_idx counts the bits set so far.
ReadRow(page, i) ==
  IF page.bits[i]
  THEN ReadValue(page, Cardinality({j \in 1 .. i : page.bits[j]}))
  ELSE Null

ReadPage(page) == [i \in 1 .. NumRows(page) |-> ReadRow(page, i)]

\* from_columnar, and the copying path of build_column_inserter.
ReadColumn(pages) == FlattenSeq([p \in DOMAIN pages |-> ReadPage(pages[p])])

HasNulls(pages) == \E p \in DOMAIN pages : NumRows(pages[p]) # NumNonNull(pages[p])

\* first_page_rows of build_column_inserter: the first that is not zero.
FirstPageRows(pages) == NumRows(pages[1])

IsDirect(pages) == ~HasNulls(pages) /\ pages # <<>>

\* new_column.num_rows
ScannedRows(pages) == SumFunction([p \in DOMAIN pages |-> NumRows(pages[p])])

\* Variant: the pages are taken to hold as many rows as the last one.
GetDirectLast(pages, row) ==
  LET last == NumRows(pages[Len(pages)])
  IN  ReadValue(pages[(row \div last) + 1], (row % last) + 1)

\* get_value of a direct column: it looks at no bitmap and no page header.
GetDirect(pages, row) ==
  ReadValue(pages[(row \div FirstPageRows(pages)) + 1], (row % FirstPageRows(pages)) + 1)

GetValue(pages, row) ==
  IF IsDirect(pages) THEN GetDirect(pages, row) ELSE ReadColumn(pages)[row + 1]

-----------------------------------------------------------------------------
(* Properties *)

\* What from_columnar reads back is what was inserted, row by row: the values
\* and the bitmap, which grow towards each other, never meet.
ReadBack == finalized => ReadColumn(inserter.pages) = input

\* A scanned column answers get_value with the row that was inserted, also
\* where it divides by the first page's rows and trusts the others to be
\* filled alike (utils.h:140).
ScanExact ==
  finalized =>
    /\ ScannedRows(inserter.pages) = Len(input)
    /\ \A row \in 0 .. Len(input) - 1 : GetValue(inserter.pages, row) = input[row + 1]

Fits(page) == DataBegin + Width * NumNonNull(page) + BitmapSize(page) <= PageSize

InserterFits(ins) ==
  /\ \A p \in DOMAIN ins.pages : Fits(ins.pages[p])
  /\ Fits(CurrentPage(ins))

\* Every saved page, and the current one, has room for its values and bitmap.
PagesFit == InserterFits(inserter)

\* "Parse CSV data into columnar storage" (README.md:50): the table
\* that from_csv stores by way of ColumnInserter holds the rows inserted.
LoadedExact == ReadBack
=============================================================================
