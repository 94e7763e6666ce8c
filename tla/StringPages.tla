----------------------------- MODULE StringPages -----------------------------
(***************************************************************************)
(* VARCHAR columns on pages: the encoder, ColumnInserter<std::string>      *)
(* (plan.h; to_columnar in build_table.cpp does the same), and its two     *)
(* decoders, from_columnar (build_table.cpp), page by page, and the late   *)
(* materialization (execute.cpp), which goes back to the page by a handle  *)
(* of page number and offset once the joins are done.                      *)
(*                                                                         *)
(* A page of short strings holds its number of rows, its number of         *)
(* strings, their end offsets from byte 4 up, the characters, and a bitmap *)
(* at its very end.  A long string takes pages of its own, the first       *)
(* marked 0xffff and the others 0xfffe.  A string is its identity and its  *)
(* size; where a decoder would take other bytes it gets Corrupt.           *)
(***************************************************************************)
EXTENDS Naturals, Sequences, SequencesExt, FiniteSets, FiniteSetsExt

CONSTANTS
  PageSize,     \* PAGE_SIZE
  BitsPerByte,  \* rows a byte of the bitmap holds: 8
  PageIds,      \* how many page numbers a handle can hold: 2^16
  Sizes,        \* the sizes of the strings
  WithNulls,    \* are there rows without a string
  MaxRows       \* bound: rows of the column

\* What Materialization assumes of them.
Bounds ==
  /\ PageSize \in Nat /\ PageSize > 7
  /\ BitsPerByte \in Nat \ {0}
  /\ PageIds \in Nat \ {0}
  /\ Sizes \subseteq Nat
  /\ WithNulls \in BOOLEAN
  /\ MaxRows \in Nat

VARIABLES
  inserter,  \* the pages saved, and of the current page the rows (the bitmap
             \* as far as it is in use) and the strings
  input,     \* the rows inserted so far
  finalized  \* finalize has run

vars == <<inserter, input, finalized>>

\* id tells strings apart; 0 is no string, and what else is not right.
Str == [id : 0 .. MaxRows, size : Nat]
NoString == [id |-> 0, size |-> 0]
Corrupt == [id |-> 0, size |-> 1]

Page ==
  [kind : {"short"}, bits : Seq(BOOLEAN), strings : Seq(Str)]
    \union [kind : {"first", "next"}, id : 1 .. MaxRows, chars : Nat]

TypeOK ==
  /\ inserter \in [pages : Seq(Page), bits : Seq(BOOLEAN), strings : Seq(Str)]
  /\ input \in Seq(Str)
  /\ finalized \in BOOLEAN
  /\ Len(inserter.strings) = Cardinality({i \in DOMAIN inserter.bits : inserter.bits[i]})

-----------------------------------------------------------------------------
(* The encoder *)

NewInserter == [pages |-> <<>>, bits |-> <<>>, strings |-> <<>>]

HeaderSize == 4
PieceSize == PageSize - HeaderSize

\* What is longer than this goes to pages of its own.
LongLimit == PageSize - 7

\* offset_end and data_size
OffsetEnd(n) == HeaderSize + 2 * n
DataSize(strs) == SumFunction([i \in DOMAIN strs |-> strs[i].size])

FullForString(ins, str) ==
  OffsetEnd(Len(ins.strings)) + 2 + DataSize(ins.strings) + str.size
    + (Len(ins.bits) \div BitsPerByte) + 1 > PageSize

\* Variant: the room a NULL's bit takes is not looked at.
FullForNullNever(ins) == FALSE

FullForNull(ins) ==
  OffsetEnd(Len(ins.strings)) + DataSize(ins.strings)
    + (Len(ins.bits) \div BitsPerByte) + 1 > PageSize

CurrentPage(ins) == [kind |-> "short", bits |-> ins.bits, strings |-> ins.strings]

\* save_page, if the page has rows; empties the current page.
SavePage(ins) ==
  IF ins.bits = <<>>
  THEN ins
  ELSE [pages |-> Append(ins.pages, CurrentPage(ins)), bits |-> <<>>, strings |-> <<>>]

\* Variant: every piece of a long string is marked as its first.
LongPagesAllFirst(str) ==
  [i \in 1 .. (str.size + PieceSize - 1) \div PieceSize |->
     [kind |-> "first", id |-> str.id,
      chars |-> Min({PieceSize, str.size - (i - 1) * PieceSize})]]

\* save_long_string
LongPages(str) ==
  [i \in 1 .. (str.size + PieceSize - 1) \div PieceSize |->
     [kind |-> IF i = 1 THEN "first" ELSE "next", id |-> str.id,
      chars |-> Min({PieceSize, str.size - (i - 1) * PieceSize})]]

WithLong(ins, str) ==
  LET saved == SavePage(ins)
  IN  [saved EXCEPT !.pages = @ \o LongPages(str)]

\* Variant: save_page leaves the offsets and characters of the saved page.
WithShortNoReset(ins, str) ==
  LET saved == SavePage(ins)
      room == IF FullForString(ins, str) THEN [saved EXCEPT !.strings = ins.strings] ELSE ins
  IN  [room EXCEPT !.bits = Append(@, TRUE), !.strings = Append(@, str)]

WithShort(ins, str) ==
  LET room == IF FullForString(ins, str) THEN SavePage(ins) ELSE ins
  IN  [room EXCEPT !.bits = Append(@, TRUE), !.strings = Append(@, str)]

\* insert
WithString(ins, str) ==
  IF str.size > LongLimit THEN WithLong(ins, str) ELSE WithShort(ins, str)

\* insert_null
WithNull(ins) ==
  LET room == IF FullForNull(ins) THEN SavePage(ins) ELSE ins
  IN  [room EXCEPT !.bits = Append(@, FALSE)]

\* finalize
Finished(ins) == SavePage(ins)

Init ==
  /\ inserter = NewInserter
  /\ input = <<>>
  /\ finalized = FALSE

Insert ==
  /\ ~finalized
  /\ Len(input) < MaxRows
  /\ \E size \in Sizes :
       LET str == [id |-> Len(input) + 1, size |-> size]
       IN  /\ input' = Append(input, str)
           /\ inserter' = WithString(inserter, str)
  /\ UNCHANGED finalized

InsertNull ==
  /\ ~finalized
  /\ WithNulls
  /\ Len(input) < MaxRows
  /\ input' = Append(input, NoString)
  /\ inserter' = WithNull(inserter)
  /\ UNCHANGED finalized

Finalize ==
  /\ ~finalized
  /\ finalized' = TRUE
  /\ inserter' = Finished(inserter)
  /\ UNCHANGED input

\* The column is complete.
Done ==
  /\ finalized
  /\ UNCHANGED vars

Next == Insert \/ InsertNull \/ Finalize \/ Done

Spec == Init /\ [][Next]_vars

-----------------------------------------------------------------------------
(* The decoders *)

NumRows(page) == Len(page.bits)
NumNonNull(page) == Len(page.strings)
BitmapSize(page) == (NumRows(page) + BitsPerByte - 1) \div BitsPerByte

\* String k of a page, its characters taken to start at byte base: the bytes
\* are its own if base is where the encoder put them and no bitmap covers them.
ReadShort(page, k, base) ==
  LET str == page.strings[k]
      end == base + DataSize(SubSeq(page.strings, 1, k))
  IN  IF str.size = 0
         \/ (base = OffsetEnd(NumNonNull(page)) /\ end <= PageSize - BitmapSize(page))
      THEN str
      ELSE Corrupt

\* data_idx, or cur_nv_row + 1: the bits set up to row i.
IndexOf(page, i) == Cardinality({j \in 1 .. i : page.bits[j]})

\* from_columnar, one page on top of the rows so far.
AddPage(rows, page) ==
  CASE page.kind = "first" -> Append(rows, [id |-> page.id, size |-> page.chars])
    [] page.kind = "next" ->
         IF rows # <<>> /\ Last(rows).id = page.id
         THEN Append(Front(rows), [id |-> page.id, size |-> Last(rows).size + page.chars])
         ELSE Append(rows, Corrupt)
    [] page.kind = "short" ->
         rows \o [i \in 1 .. NumRows(page) |->
                    IF page.bits[i]
                    THEN ReadShort(page, IndexOf(page, i), OffsetEnd(NumNonNull(page)))
                    ELSE NoString]

ReadColumn(pages) == FoldLeft(AddPage, <<>>, pages)

\* A handle, string_struct: the page number, cut to 16 bits, and the place
\* of the string's offset in the page.
NullOffset == 65535

Handle(p, offset) == [page |-> (p - 1) % PageIds, offset |-> offset]

PageHandles(page, p) ==
  CASE page.kind = "first" -> <<Handle(p, HeaderSize)>>
    [] page.kind = "next" -> <<>>
    [] page.kind = "short" ->
         [i \in 1 .. NumRows(page) |->
            Handle(p, IF page.bits[i] THEN OffsetEnd(IndexOf(page, i) - 1) ELSE NullOffset)]

\* build_column_inserter
Handles(pages) == FlattenSeq([p \in DOMAIN pages |-> PageHandles(pages[p], p)])

\* The long string from page p on: pages are appended until one that is not
\* marked 0xfffe.  The loop counts in 16 bits and looks at no page count:
\* behind the last page it reads what is not a page.
MaterializeLong(pages, p) ==
  LET PageAt(k) == (p + k) % PageIds
      Beyond(k) == PageAt(k) >= Len(pages)
      pieces == Min({k \in 1 .. PageIds : Beyond(k) \/ pages[PageAt(k) + 1].kind # "next"})
  IN  IF Beyond(pieces)
      THEN Corrupt
      ELSE [id |-> pages[p + 1].id,
            size |-> SumFunction([k \in 1 .. pieces |-> pages[PageAt(k - 1) + 1].chars])]

\* materialize_columnar_table_parallel: base_offset is 4 + nr * 2.  A page
\* number that was cut may lead to a page that has no such string.
Materialize(pages, handle) ==
  LET page == pages[handle.page + 1]
      index == (handle.offset - HeaderSize) \div 2 + 1
  IN  CASE page.kind = "first" -> MaterializeLong(pages, handle.page)
        [] page.kind = "next" -> Corrupt
        [] page.kind = "short" ->
             IF index \in DOMAIN page.strings
             THEN ReadShort(page, index, OffsetEnd(NumRows(page)))
             ELSE Corrupt

\* Handles that the two findings leave alone: not of a string on a page with
\* NULLs, and not of a long string behind which no page comes.
Plain(pages, handle) ==
  LET p == handle.page + 1
  IN  \/ handle.offset = NullOffset
      \/ pages[p].kind = "short" /\ NumRows(pages[p]) = NumNonNull(pages[p])
      \/ pages[p].kind = "first" /\ \E q \in p + 1 .. Len(pages) : pages[q].kind # "next"

-----------------------------------------------------------------------------
(* Properties *)

\* What from_columnar reads back is what was inserted: the offsets, the
\* characters and the bitmap of a page never meet, long strings come back
\* whole, and no row is lost or moved between the pages.
ReadBack == finalized => ReadColumn(inserter.pages) = input

\* A scan makes one handle per row, NULL where the row is, and the handles of
\* a column's rows are all different: 0xfffe pages get none, and 16 bits tell
\* the pages apart up to the last that they can count.
HandlesExact ==
  finalized /\ Len(inserter.pages) <= PageIds =>
    LET handles == Handles(inserter.pages)
    IN  /\ Len(handles) = Len(input)
        /\ \A i \in DOMAIN input : (input[i] = NoString) <=> (handles[i].offset = NullOffset)
        /\ \A i, j \in DOMAIN input :
             i # j /\ input[i] # NoString => handles[i] # handles[j]

\* "function to materialize the final ExecuteResult into the corresponding
\* ColumnarTable" (execute.cpp:438): a handle comes back as the string of the
\* row it was made for.
MaterializeExact ==
  finalized =>
    \A i \in DOMAIN input :
      LET handle == Handles(inserter.pages)[i]
      IN  input[i] # NoString => Materialize(inserter.pages, handle) = input[i]
=============================================================================
