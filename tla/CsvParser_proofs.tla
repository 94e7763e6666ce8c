--------------------------- MODULE CsvParser_proofs ---------------------------
(***************************************************************************)
(* The CSV parser loads what the file says, whatever the file, the chunks  *)
(* it arrives in, the escape and the trailing comma.                       *)
(***************************************************************************)
EXTENDS CsvParser, Counting, Integers, TLAPS

\* What has been read is a state of the format's reader.
Field == Seq(Bytes)
Line == Seq(Field)
Result == [cells : Line, ok : BOOLEAN]
Reader == [mode : {"plain", "cr", "quoted", "esc"}, rows : Seq(Result), row : Line,
           fld : Field, begun : BOOLEAN, bare : BOOLEAN]

\* A reader with these parts.
Is(s, mode, rows, row, fld, begun, bare) ==
  /\ s \in Reader
  /\ s.mode = mode /\ s.rows = rows /\ s.row = row /\ s.fld = fld
  /\ (s.begun <=> begun) /\ (s.bare <=> bare)

\* The row that a line end closes.
RowOf(s) ==
  IF HasTrailingComma
  THEN [cells |-> s.row, ok |-> s.bare /\ s.row # <<>>]
  ELSE [cells |-> Append(s.row, s.fld), ok |-> TRUE]

Reading(s, b) == Read(s, b)

\* The reader after k bytes of the file.
After(k) == FoldLeft(Reading, Start, SubSeq(csvFile, 1, k))

\* The reader at the end of the file, which may lack its last line end.
AtEnd == After(Len(csvFile))
AllRows == IF AtEnd.begun THEN CloseRow(AtEnd).rows ELSE AtEnd.rows
Unclosed == AtEnd.mode = "quoted" \/ (AtEnd.mode = "esc" /\ Escape # "quote")
ReaderEscape == AtEnd.mode = "esc" /\ Escape = "quote"

\* A row that cannot be loaded, or not with the first one.
Bad(rows) ==
  \E r \in DOMAIN rows : ~rows[r].ok \/ Len(rows[r].cells) # Len(rows[1].cells)

\* The reader, as it is in front of a byte that is read as any outside quotes.
Outwards(s) == [s EXCEPT !.mode = "plain"]

\* The parser has handed on the rows that the reader has, and is in the same
\* row with the same column; bytes are those of its field.
SameRows(s) ==
  /\ csvOut = Append([r \in DOMAIN s.rows |-> s.rows[r].cells], s.row)
  /\ colIdx = Len(s.row)
  /\ numCols = IF s.rows = <<>> THEN 0 ELSE Len(s.rows[1].cells)
  /\ ~Bad(s.rows)
  /\ s.rows # <<>> => s.rows[1].cells # <<>>

\* after_field_sep_ is stale behind a row that a carriage return at the end of
\* a chunk has closed.
SameFlags(s) ==
  /\ s.row # <<>> => (afterSep <=> s.bare)
  /\ afterSep => s.row # <<>> \/ s.rows # <<>>
  /\ afterRec <=> ~s.begun
  /\ s.bare => s.fld = <<>>
  /\ ~s.begun => s.row = <<>>

Agrees(s, bytes) == SameRows(s) /\ SameFlags(s) /\ field = bytes

\* The next byte is in this chunk, and is not one of these.
NextNot(bytes) == pos < end /\ csvFile[pos + 1] \notin bytes

\* Where the parser is, and the reader after the same bytes.  The parser looks
\* one byte ahead behind an escape or a carriage return, and so may be a step
\* further; at the end of a chunk it keeps in mind that it could not.
OutsideQuotes(s) ==
  /\ ~quoted /\ ~escaping /\ ~newlining
  /\ \/ s.mode = "plain"
     \/ s.mode = "cr" /\ (csvStage = "finish" \/ NextNot({"nl"}))
     \/ s.mode = "esc" /\ Escape = "quote" /\ NextNot({"quote"}) /\ s.begun
  /\ Agrees(s, s.fld)

InsideQuotes(s) ==
  /\ quoted /\ ~escaping /\ ~newlining
  /\ s.begun /\ ~s.bare
  /\ \/ s.mode = "quoted" /\ Agrees(s, s.fld)
     \/ /\ s.mode = "esc" /\ Escape = "backslash" /\ NextNot({"quote", "backslash"})
        /\ Agrees(s, Append(s.fld, "backslash"))

BehindEscape(s) ==
  /\ quoted /\ escaping /\ ~newlining
  /\ s.begun /\ ~s.bare
  /\ s.mode = "esc"
  /\ Agrees(s, s.fld)

\* The reader has closed the row, the parser has not.
BehindReturn(s) ==
  /\ ~quoted /\ ~escaping /\ newlining
  /\ \E last \in Reader :
       /\ Agrees(last, last.fld)
       /\ Is(s, "cr", Append(last.rows, RowOf(last)), <<>>, <<>>, FALSE, TRUE)

FollowsAs(s) == OutsideQuotes(s) \/ InsideQuotes(s) \/ BehindEscape(s) \/ BehindReturn(s)
Follows == \E s \in Reader : s = After(pos) /\ FollowsAs(s)

\* finish has nothing left to do.
Loads ==
  /\ ~Unclosed /\ ~Bad(AllRows)
  /\ csvOut = Append([r \in DOMAIN AllRows |-> AllRows[r].cells], <<>>)
  /\ ~quoted /\ ~newlining /\ afterRec

Refused == ReaderEscape \/ Unclosed \/ Bad(AllRows)

-----------------------------------------------------------------------------
(* The reader                                                              *)

\* The constructor's arguments.
Configured == Escape \in {"quote", "backslash"} /\ HasTrailingComma \in BOOLEAN

LEMMA ConfiguredParser ==
  ASSUME ParsersAssumption, parser \in Parsers
  PROVE  Configured
BY DEF ParsersAssumption, Configured, Escape, HasTrailingComma

\* The parts of any reader.
LEMMA ReaderParts ==
  ASSUME NEW s \in Reader
  PROVE  /\ Is(s, s.mode, s.rows, s.row, s.fld, s.begun, s.bare)
         /\ s.mode \in {"plain", "cr", "quoted", "esc"}
         /\ s.rows \in Seq(Result) /\ s.row \in Line /\ s.fld \in Field
         /\ s.begun \in BOOLEAN /\ s.bare \in BOOLEAN
BY DEF Reader, Is

\* A byte that is added to the field.
LEMMA AddIs ==
  ASSUME NEW s \in Reader, NEW bytes \in Field
  PROVE  Is(Add(s, bytes), s.mode, s.rows, s.row, s.fld \o bytes, TRUE, FALSE)
<1>1. s.fld \o bytes \in Field
  BY ReaderParts DEF Field
<1> QED
  BY <1>1 DEF Add, Reader, Is

\* The end of a field.
LEMMA CloseFieldIs ==
  ASSUME NEW s \in Reader
  PROVE  Is(CloseField(s), s.mode, s.rows, Append(s.row, s.fld), <<>>, s.begun, s.bare)
<1>1. Append(s.row, s.fld) \in Line /\ <<>> \in Field
  BY ReaderParts DEF Line, Field
<1> QED
  BY <1>1 DEF CloseField, Reader, Is

\* The end of a row.
LEMMA CloseRowIs ==
  ASSUME NEW s \in Reader
  PROVE  /\ RowOf(s) \in Result
         /\ Is(CloseRow(s), s.mode, Append(s.rows, RowOf(s)), <<>>, <<>>, FALSE, TRUE)
<1>1. Append(s.row, s.fld) \in Line /\ <<>> \in Line
  BY ReaderParts DEF Line, Field
<1>2. RowOf(s) \in Result
  <2>1. (s.bare /\ s.row # <<>>) \in BOOLEAN
    OBVIOUS
  <2>2. s.row \in Line
    BY ReaderParts
  <2> QED
    BY <1>1, <2>1, <2>2 DEF RowOf, Result
<1>3. Append(s.rows, RowOf(s)) \in Seq(Result)
  BY <1>2, ReaderParts
<1> DEFINE c == CloseField(s)
           rows == Append(s.rows, RowOf(s))
<1>4. c \in Reader /\ c.mode = s.mode /\ c.rows = s.rows /\ c.fld = <<>>
  BY CloseFieldIs DEF Is
<1>5. CloseRow(s) = [c EXCEPT !.rows = rows, !.row = <<>>, !.begun = FALSE, !.bare = TRUE]
  BY <1>4 DEF CloseRow, RowOf
<1> HIDE DEF c, rows
<1>6. rows \in Seq(Result)
  BY <1>3 DEF rows
<1>7. Is([c EXCEPT !.rows = rows, !.row = <<>>, !.begun = FALSE, !.bare = TRUE],
         s.mode, rows, <<>>, <<>>, FALSE, TRUE)
  BY <1>1, <1>4, <1>6 DEF Reader, Is
<1> QED
  BY <1>2, <1>5, <1>7 DEF rows

\* The reader in another mode.
InMode(s, m) == [s EXCEPT !.mode = m]

LEMMA InModeIs ==
  ASSUME NEW s \in Reader, NEW m \in {"plain", "cr", "quoted", "esc"}
  PROVE  Is(InMode(s, m), m, s.rows, s.row, s.fld, s.begun, s.bare)
BY DEF InMode, Reader, Is

\* What the reader does outside quotes, byte by byte.
LEMMA OutsideIs ==
  ASSUME NEW s \in Reader, NEW b \in Bytes
  PROVE  /\ b = "comma" =>
              Is(Outside(s, b), s.mode, s.rows, Append(s.row, s.fld), <<>>, TRUE, TRUE)
         /\ b = "nl" =>
              Is(Outside(s, b), s.mode, Append(s.rows, RowOf(s)), <<>>, <<>>, FALSE, TRUE)
         /\ b = "cr" =>
              Is(Outside(s, b), "cr", Append(s.rows, RowOf(s)), <<>>, <<>>, FALSE, TRUE)
         /\ b = "quote" =>
              Is(Outside(s, b), "quoted", s.rows, s.row, s.fld, TRUE, FALSE)
         /\ b \in {"x", "backslash"} =>
              Is(Outside(s, b), s.mode, s.rows, s.row, Append(s.fld, b), TRUE, FALSE)
         /\ RowOf(s) \in Result
<1>1. CASE b = "comma"
  <2> DEFINE c == CloseField(s)
  <2>1. Is(c, s.mode, s.rows, Append(s.row, s.fld), <<>>, s.begun, s.bare)
    BY CloseFieldIs
  <2>2. Outside(s, b) = [c EXCEPT !.begun = TRUE, !.bare = TRUE]
    BY <1>1 DEF Outside
  <2> HIDE DEF c
  <2>3. Is([c EXCEPT !.begun = TRUE, !.bare = TRUE],
           s.mode, s.rows, Append(s.row, s.fld), <<>>, TRUE, TRUE)
    BY <2>1 DEF Is, Reader
  <2> QED
    BY <1>1, <2>2, <2>3, CloseRowIs
<1>2. CASE b = "nl"
  <2>1. Outside(s, b) = CloseRow(s)
    BY <1>2 DEF Outside
  <2> QED
    BY <1>2, <2>1, CloseRowIs
<1>3. CASE b = "cr"
  <2>1. Outside(s, b) = InMode(CloseRow(s), "cr")
    BY <1>3 DEF Outside, InMode
  <2>2. Is(CloseRow(s), s.mode, Append(s.rows, RowOf(s)), <<>>, <<>>, FALSE, TRUE)
    BY CloseRowIs
  <2>3. Is(InMode(CloseRow(s), "cr"), "cr", Append(s.rows, RowOf(s)), <<>>, <<>>, FALSE, TRUE)
    BY <2>2, InModeIs DEF Is
  <2> QED
    BY <1>3, <2>1, <2>3, CloseRowIs
<1>4. CASE b = "quote"
  <2>1. Outside(s, b) = InMode(Add(s, <<>>), "quoted")
    BY <1>4 DEF Outside, InMode
  <2>2. <<>> \in Field /\ s.fld \o <<>> = s.fld
    BY ReaderParts DEF Field
  <2>3. Is(Add(s, <<>>), s.mode, s.rows, s.row, s.fld, TRUE, FALSE)
    BY <2>2, AddIs
  <2>4. Is(InMode(Add(s, <<>>), "quoted"), "quoted", s.rows, s.row, s.fld, TRUE, FALSE)
    BY <2>3, InModeIs DEF Is
  <2> QED
    BY <1>4, <2>1, <2>4, CloseRowIs
<1>5. CASE b \in {"x", "backslash"}
  <2>1. Outside(s, b) = Add(s, <<b>>)
    BY <1>5 DEF Outside
  <2>2. <<b>> \in Field /\ s.fld \o <<b>> = Append(s.fld, b)
    BY ReaderParts DEF Field
  <2>3. Is(Add(s, <<b>>), s.mode, s.rows, s.row, Append(s.fld, b), TRUE, FALSE)
    BY <2>2, AddIs
  <2> QED
    BY <1>5, <2>1, <2>3, CloseRowIs
<1> QED
  BY <1>1, <1>2, <1>3, <1>4, <1>5, CloseRowIs DEF Bytes

\* What the reader does with any byte.
LEMMA ReadIs ==
  ASSUME NEW s \in Reader, NEW b \in Bytes, Configured
  PROVE  /\ s.mode = "plain" \/ (s.mode = "cr" /\ b # "nl")
               \/ (s.mode = "esc" /\ Escape = "quote" /\ b # "quote")
             => Reading(s, b) = Outside(Outwards(s), b)
         /\ s.mode = "cr" /\ b = "nl" =>
              Is(Reading(s, b), "plain", s.rows, s.row, s.fld, s.begun, s.bare)
         /\ s.mode = "quoted" /\ b = Escape =>
              Is(Reading(s, b), "esc", s.rows, s.row, s.fld, s.begun, s.bare)
         /\ s.mode = "quoted" /\ b # Escape /\ b = "quote" =>
              Is(Reading(s, b), "plain", s.rows, s.row, s.fld, s.begun, s.bare)
         /\ s.mode = "quoted" /\ b # Escape /\ b # "quote" =>
              Is(Reading(s, b), "quoted", s.rows, s.row, Append(s.fld, b), TRUE, FALSE)
         /\ s.mode = "esc" /\ b \in {"quote", Escape} =>
              Is(Reading(s, b), "quoted", s.rows, s.row, Append(s.fld, b), TRUE, FALSE)
         /\ s.mode = "esc" /\ b \notin {"quote", Escape} /\ Escape = "backslash" =>
              Is(Reading(s, b), "quoted", s.rows, s.row,
                 Append(Append(s.fld, "backslash"), b), TRUE, FALSE)
<1>1. /\ Is(InMode(s, "plain"), "plain", s.rows, s.row, s.fld, s.begun, s.bare)
      /\ Is(InMode(s, "esc"), "esc", s.rows, s.row, s.fld, s.begun, s.bare)
  BY InModeIs
<1>2. /\ <<b>> \in Field /\ s.fld \o <<b>> = Append(s.fld, b)
      /\ <<"backslash", b>> \in Field
      /\ s.fld \o <<"backslash", b>> = Append(Append(s.fld, "backslash"), b)
  BY ReaderParts DEF Field, Bytes
<1>3. Is(Add(s, <<b>>), s.mode, s.rows, s.row, Append(s.fld, b), TRUE, FALSE)
  BY <1>2, AddIs
<1>4. Is(Add(s, <<"backslash", b>>), s.mode, s.rows, s.row,
         Append(Append(s.fld, "backslash"), b), TRUE, FALSE)
  BY <1>2, AddIs
<1>5. Is(InMode(Add(s, <<b>>), "quoted"), "quoted", s.rows, s.row, Append(s.fld, b), TRUE, FALSE)
  BY <1>3, InModeIs DEF Is
<1>6. Is(InMode(Add(s, <<"backslash", b>>), "quoted"), "quoted", s.rows, s.row,
         Append(Append(s.fld, "backslash"), b), TRUE, FALSE)
  BY <1>4, InModeIs DEF Is
<1>7. CASE s.mode = "plain"
  <2>1. Reading(s, b) = Outside(s, b)
    BY <1>7 DEF Reading, Read
  <2>2. Outwards(s) = s
    BY <1>7 DEF Outwards, Reader
  <2> QED
    BY <1>7, <2>1, <2>2
<1>8. CASE s.mode = "cr"
  <2>1. b = "nl" => Reading(s, b) = InMode(s, "plain")
    BY <1>8 DEF Reading, Read, InMode
  <2>2. b # "nl" => Reading(s, b) = Outside(Outwards(s), b)
    BY <1>8 DEF Reading, Read, Outwards
  <2> QED
    BY <1>1, <1>8, <2>1, <2>2
<1>9. CASE s.mode = "quoted"
  <2>1. Reading(s, b) = Inside(s, b)
    BY <1>9 DEF Reading, Read
  <2>2. b = Escape => Reading(s, b) = InMode(s, "esc")
    BY <2>1 DEF Inside, InMode
  <2>3. b # Escape /\ b = "quote" => Reading(s, b) = InMode(s, "plain")
    BY <2>1 DEF Inside, InMode
  <2>4. b # Escape /\ b # "quote" => Reading(s, b) = Add(s, <<b>>)
    BY <2>1 DEF Inside
  <2> QED
    BY <1>1, <1>3, <1>9, <2>2, <2>3, <2>4
<1>10. CASE s.mode = "esc"
  <2>1. Reading(s, b) = AfterEscape(s, b)
    BY <1>10 DEF Reading, Read
  <2>2. b \in {"quote", Escape} => Reading(s, b) = InMode(Add(s, <<b>>), "quoted")
    BY <2>1 DEF AfterEscape, InMode
  <2>3. b \notin {"quote", Escape} /\ Escape = "quote" =>
          Reading(s, b) = Outside(Outwards(s), b)
    BY <2>1 DEF AfterEscape, Outwards
  <2>4. b \notin {"quote", Escape} /\ Escape = "backslash" =>
          Reading(s, b) = InMode(Add(s, <<"backslash", b>>), "quoted")
    BY <2>1 DEF AfterEscape, InMode
  <2> QED
    BY <1>5, <1>6, <1>10, <2>2, <2>3, <2>4
<1> QED
  BY <1>7, <1>8, <1>9, <1>10, ReaderParts

\* A byte adds one row, or none.
LEMMA ReadRows ==
  ASSUME NEW s \in Reader, NEW b \in Bytes, Configured
  PROVE  /\ Reading(s, b) \in Reader
         /\ Reading(s, b).rows = s.rows
              \/ \E r \in Result : Reading(s, b).rows = Append(s.rows, r)
<1> DEFINE plain == Outwards(s)
           t == Outside(plain, b)
<1>1. plain \in Reader /\ plain.rows = s.rows
  BY InModeIs DEF InMode, Outwards, Is
<1>2. /\ t \in Reader
      /\ t.rows = s.rows \/ \E r \in Result : t.rows = Append(s.rows, r)
  <2> HIDE DEF plain
  <2>1. CASE b = "comma"
    BY <1>1, <2>1, OutsideIs DEF Is
  <2>2. CASE b \in {"nl", "cr"}
    <3>1. t.rows = Append(s.rows, RowOf(plain)) /\ t \in Reader /\ RowOf(plain) \in Result
      BY <1>1, <2>2, OutsideIs DEF Is
    <3> QED
      BY <3>1
  <2>3. CASE b \in {"quote", "x", "backslash"}
    BY <1>1, <2>3, OutsideIs DEF Is
  <2> QED
    BY <2>1, <2>2, <2>3 DEF Bytes
<1>3. CASE Reading(s, b) = t
  BY <1>2, <1>3
<1>4. CASE Reading(s, b) # t
  BY <1>4, ReadIs, ReaderParts DEF Is, Configured
<1> QED
  BY <1>3, <1>4

-----------------------------------------------------------------------------
(* The reader along the file                                               *)

Folded == INSTANCE Counting WITH Op <- Reading
ReadAll(bytes) == FoldLeft(Reading, Start, bytes)

\* The fold over one byte more.
LEMMA FoldedAppend ==
  ASSUME NEW S, NEW s \in Seq(S), NEW e \in S
  PROVE  ReadAll(Append(s, e)) = Reading(ReadAll(s), e)
<1>1. \A z : FoldLeft(Reading, Start, z) = Folded!FoldLeft(Reading, Start, z)
  BY DEF FoldLeft, MapThenFoldSet, Folded!FoldLeft, Folded!MapThenFoldSet, Max, Folded!Max
<1>2. \A base : Folded!FoldLeft(Reading, base, Append(s, e))
                  = Reading(Folded!FoldLeft(Reading, base, s), e)
  BY Folded!FoldLeftAppend
<1> QED
  BY <1>1, <1>2 DEF ReadAll

\* Before the first byte.
LEMMA StartIs ==
  ASSUME Configured
  PROVE  Is(Start, "plain", <<>>, <<>>, <<>>, TRUE, TRUE)
BY DEF Start, Is, Reader, Line, Field, Result

\* From one byte to the next.
AfterLaw ==
  csvFile \in Seq(Bytes) =>
    /\ After(0) = Start
    /\ \A k \in 0 .. Len(csvFile) - 1 :
         csvFile[k + 1] \in Bytes /\ After(k + 1) = Reading(After(k), csvFile[k + 1])

LEMMA AfterStep == AfterLaw
<1> SUFFICES ASSUME csvFile \in Seq(Bytes)
             PROVE  /\ After(0) = Start
                    /\ \A k \in 0 .. Len(csvFile) - 1 :
                         csvFile[k + 1] \in Bytes /\ After(k + 1) = Reading(After(k), csvFile[k + 1])
  BY DEF AfterLaw
<1>1. \A k : After(k) = ReadAll(SubSeq(csvFile, 1, k))
  BY DEF After, ReadAll
<1>2. After(0) = Start
  <2>1. SubSeq(csvFile, 1, 0) = <<>>
    OBVIOUS
  <2>2. FoldLeft(Reading, Start, <<>>) = Folded!FoldLeft(Reading, Start, <<>>)
    BY DEF FoldLeft, MapThenFoldSet, Folded!FoldLeft, Folded!MapThenFoldSet, Max, Folded!Max
  <2>3. Folded!FoldLeft(Reading, Start, <<>>) = Start
    BY Folded!FoldLeftEmpty
  <2> QED
    BY <2>1, <2>2, <2>3 DEF After
<1>3. ASSUME NEW k \in 0 .. Len(csvFile) - 1
      PROVE  csvFile[k + 1] \in Bytes /\ After(k + 1) = Reading(After(k), csvFile[k + 1])
  <2>1. k \in Nat /\ k < Len(csvFile)
    BY LenProperties
  <2>2. /\ SubSeq(csvFile, 1, k) \in Seq(Bytes)
        /\ csvFile[k + 1] \in Bytes
        /\ SubSeq(csvFile, 1, k + 1) = Append(SubSeq(csvFile, 1, k), csvFile[k + 1])
    BY <2>1, PrefixGrows
  <2>3. ReadAll(Append(SubSeq(csvFile, 1, k), csvFile[k + 1]))
          = Reading(ReadAll(SubSeq(csvFile, 1, k)), csvFile[k + 1])
    BY <2>2, FoldedAppend
  <2> QED
    BY <1>1, <2>2, <2>3
<1> QED
  BY <1>2, <1>3

\* The same, where it is known what the file is.
LEMMA AfterSteps ==
  ASSUME csvFile \in Seq(Bytes)
  PROVE  /\ After(0) = Start
         /\ \A k \in 0 .. Len(csvFile) - 1 :
              csvFile[k + 1] \in Bytes /\ After(k + 1) = Reading(After(k), csvFile[k + 1])
BY AfterStep DEF AfterLaw

\* A step of the parser leaves what the file says.
LEMMA AfterKept ==
  ASSUME parser' = parser, csvFile' = csvFile, csvFile \in Seq(Bytes)
  PROVE  \A k \in 0 .. Len(csvFile) : After(k)' = After(k)
<1> DEFINE T == {k \in Nat : After(k)' = After(k)}
<1>1. AfterLaw'
  BY AfterStep, PTL
<1>2. /\ After(0)' = Start
      /\ \A k \in 0 .. Len(csvFile) - 1 : After(k + 1)' = Reading(After(k), csvFile[k + 1])'
  BY <1>1 DEF AfterLaw, Start, Bytes
<1>3. 0 \in T
  BY <1>2, AfterSteps
<1>4. ASSUME NEW k \in 0 .. Len(csvFile) - 1, k \in T
      PROVE  k + 1 \in T
  <2>1. After(k + 1) = Reading(After(k), csvFile[k + 1])
    BY AfterSteps
  <2>2. Reading(After(k), csvFile[k + 1])' = Reading(After(k), csvFile[k + 1])
    <3>1. After(k)' = After(k)
      BY <1>4
    <3> QED
      BY <3>1 DEF Reading, Read, Outside, Inside, AfterEscape, Add,
                  CloseField, CloseRow, Escape, HasTrailingComma
  <2> QED
    BY <1>2, <2>1, <2>2
<1> HIDE DEF T
<1>5. \A k \in 0 .. Len(csvFile) : k \in T
  BY <1>3, <1>4, LenProperties, PrefixInduction
<1> QED
  BY <1>5 DEF T

\* The reader is one at every byte.
LEMMA AfterReads ==
  ASSUME Configured, csvFile \in Seq(Bytes)
  PROVE  \A k \in 0 .. Len(csvFile) : After(k) \in Reader
<1> DEFINE T == {k \in Nat : After(k) \in Reader}
<1>1. Len(csvFile) \in Nat
  BY LenProperties
<1>2. 0 \in T
  BY AfterSteps, StartIs DEF Is
<1>3. ASSUME NEW k \in 0 .. Len(csvFile) - 1, k \in T
      PROVE  k + 1 \in T
  <2>1. After(k) \in Reader /\ k + 1 \in Nat
    BY <1>3
  <2>2. csvFile[k + 1] \in Bytes /\ After(k + 1) = Reading(After(k), csvFile[k + 1])
    BY AfterSteps
  <2>3. Reading(After(k), csvFile[k + 1]) \in Reader
    BY <2>1, <2>2, ReadRows
  <2> QED
    BY <2>1, <2>2, <2>3
<1> HIDE DEF T
<1>4. \A k \in 0 .. Len(csvFile) : k \in T
  BY <1>1, <1>2, <1>3, PrefixInduction
<1> QED
  BY <1>4 DEF T

\* A row more mends no bad one.
LEMMA BadMore ==
  ASSUME NEW rows \in Seq(Result), NEW r \in Result, Bad(rows)
  PROVE  Bad(Append(rows, r))
<1>1. PICK q \in DOMAIN rows : ~rows[q].ok \/ Len(rows[q].cells) # Len(rows[1].cells)
  BY DEF Bad
<1> DEFINE z == Append(rows, r)
<1>2. Len(rows) \in Nat /\ DOMAIN rows = 1 .. Len(rows) /\ DOMAIN z = 1 .. Len(rows) + 1
  BY LenProperties
<1>3. q \in DOMAIN z /\ 1 \in 1 .. Len(rows) /\ \A k \in 1 .. Len(rows) : z[k] = rows[k]
  BY <1>2
<1>4. z[q] = rows[q] /\ z[1] = rows[1]
  BY <1>2, <1>3
<1> HIDE DEF z
<1>5. ~z[q].ok \/ Len(z[q].cells) # Len(z[1].cells)
  BY <1>1, <1>4
<1>6. Bad(z)
  BY <1>3, <1>5 DEF Bad
<1> QED
  BY <1>6 DEF z

\* A bad row stays: the file is not well formed.
LEMMA BadStays ==
  ASSUME Configured, csvFile \in Seq(Bytes), NEW k \in 0 .. Len(csvFile), Bad(After(k).rows)
  PROVE  Bad(After(Len(csvFile)).rows)
<1> DEFINE T == {n \in Nat : k <= n => Bad(After(n).rows)}
<1>1. Len(csvFile) \in Nat /\ k \in Nat
  BY LenProperties
<1>2. 0 \in T
  BY <1>1
<1>3. ASSUME NEW n \in 0 .. Len(csvFile) - 1, n \in T
      PROVE  n + 1 \in T
  <2>1. CASE k <= n
    <3>1. Bad(After(n).rows) /\ After(n) \in Reader /\ csvFile[n + 1] \in Bytes
          /\ After(n + 1) = Reading(After(n), csvFile[n + 1])
      BY <1>1, <1>3, <2>1, AfterSteps, AfterReads
    <3>2. After(n).rows \in Seq(Result)
      BY <3>1, ReaderParts
    <3>3. Bad(Reading(After(n), csvFile[n + 1]).rows)
      BY <3>1, <3>2, ReadRows, BadMore
    <3> QED
      BY <1>1, <3>1, <3>3
  <2>2. CASE ~(k <= n)
    <3>1. ~(k <= n + 1) \/ k = n + 1
      BY <1>1, <2>2
    <3> QED
      BY <1>1, <3>1
  <2> QED
    BY <2>1, <2>2
<1> HIDE DEF T
<1>4. \A n \in 0 .. Len(csvFile) : n \in T
  BY <1>1, <1>2, <1>3, PrefixInduction
<1> QED
  BY <1>1, <1>4 DEF T

\* What the file says, in terms of the reader at its end.
LEMMA WholeFile ==
  ASSUME Configured, csvFile \in Seq(Bytes)
  PROVE  /\ AtEnd \in Reader
         /\ AllRows \in Seq(Result)
         /\ AtEnd.begun => AllRows = Append(AtEnd.rows, RowOf(AtEnd))
         /\ ~AtEnd.begun => AllRows = AtEnd.rows
         /\ WellFormed <=> ~Unclosed /\ ~Bad(AllRows)
         /\ Cells = [r \in DOMAIN AllRows |-> AllRows[r].cells]
         /\ EndsWithEscapeQuote <=> ReaderEscape
<1>1. SubSeq(csvFile, 1, Len(csvFile)) = csvFile
  OBVIOUS
<1>2. FoldLeft(Read, Start, csvFile) = AtEnd
  BY <1>1 DEF AtEnd, After, Reading, FoldLeft, MapThenFoldSet
<1>3. FoldLeft(Read, Start, csvFile) = AtEnd
  BY <1>2 DEF FoldLeft, MapThenFoldSet, FoldLeft, MapThenFoldSet, Max, Max
<1>4. AtEnd \in Reader
  BY AfterReads, LenProperties DEF AtEnd
<1>5. /\ AtEnd.begun => AllRows = Append(AtEnd.rows, RowOf(AtEnd))
      /\ ~AtEnd.begun => AllRows = AtEnd.rows
      /\ AllRows \in Seq(Result)
  BY <1>4, CloseRowIs, ReaderParts DEF Is, AllRows
<1>6. Content = [open |-> Unclosed, rows |-> AllRows]
  BY <1>3 DEF Content, Unclosed, AllRows
<1>7. Content.open = Unclosed /\ Content.rows = AllRows
  BY <1>6
<1>8. Cells = [r \in DOMAIN AllRows |-> AllRows[r].cells]
  BY <1>7 DEF Cells
<1>9. WellFormed <=> ~Unclosed /\ ~Bad(AllRows)
  <2>1. DOMAIN Cells = DOMAIN AllRows /\ \A r \in DOMAIN AllRows : Cells[r] = AllRows[r].cells
    BY <1>8
  <2>2. \A r \in DOMAIN AllRows : 1 \in DOMAIN AllRows
    BY <1>5
  <2>3. (\A r \in DOMAIN Cells : Len(Cells[r]) = Len(Cells[1]))
          <=> (\A r \in DOMAIN AllRows : Len(AllRows[r].cells) = Len(AllRows[1].cells))
    BY <2>1, <2>2
  <2> QED
    BY <1>7, <2>3 DEF WellFormed, Bad
<1>10. EndsWithEscapeQuote <=> ReaderEscape
  BY <1>3 DEF EndsWithEscapeQuote, ReaderEscape
<1> QED
  BY <1>4, <1>5, <1>8, <1>9, <1>10

-----------------------------------------------------------------------------
(* The steps of the parser                                                 *)

\* What no step changes.
Fixed == UNCHANGED <<parser, csvFile>>

LEMMA FileKept ==
  ASSUME Configured, csvFile \in Seq(Bytes), Fixed
  PROVE  /\ \A k \in 0 .. Len(csvFile) : After(k)' = After(k)
         /\ Escape' = Escape /\ HasTrailingComma' = HasTrailingComma
         /\ AllRows' = AllRows
         /\ (Unclosed \/ Bad(AllRows))' <=> Unclosed \/ Bad(AllRows)
         /\ Refused' <=> Refused
<1>1. \A k \in 0 .. Len(csvFile) : After(k)' = After(k)
  BY AfterKept DEF Fixed
<1>2. AtEnd' = AtEnd
  BY <1>1, LenProperties DEF AtEnd, Fixed
<1>3. Escape' = Escape /\ HasTrailingComma' = HasTrailingComma
  BY DEF Escape, HasTrailingComma, Fixed
<1>4. AllRows' = AllRows
  BY <1>2, <1>3 DEF AllRows, CloseRow, CloseField
<1>5. Unclosed' = Unclosed /\ ReaderEscape' = ReaderEscape
  BY <1>2, <1>3 DEF Unclosed, ReaderEscape
<1>6. Bad(AllRows)' = Bad(AllRows)
  BY <1>4 DEF Bad
<1> QED
  BY <1>1, <1>3, <1>4, <1>5, <1>6 DEF Refused

\* Rows and bytes are handed on alike.
LEMMA RowsKept ==
  ASSUME NEW s, SameRows(s), UNCHANGED <<csvOut, colIdx, numCols>>, NEW t, t.rows = s.rows, t.row = s.row
  PROVE  SameRows(t)'
BY DEF SameRows, Bad

\* A row without an error is as the first one, if there is one.
RowFits(rows, row) ==
  row.ok /\ row.cells # <<>> /\ (rows # <<>> => Len(row.cells) = Len(rows[1].cells))

LEMMA FittingRow ==
  ASSUME NEW rows \in Seq(Result), NEW row \in Result, ~Bad(rows),
         rows # <<>> => rows[1].cells # <<>>
  PROVE  /\ RowFits(rows, row) => /\ ~Bad(Append(rows, row))
                                  /\ Append(rows, row)[1].cells # <<>>
                                  /\ Len(Append(rows, row)[1].cells) = Len(row.cells)
         /\ ~RowFits(rows, row) => Bad(Append(rows, row)) \/ (row.ok /\ row.cells = <<>>)
<1> DEFINE n == Len(rows)
           z == Append(rows, row)
<1>1. n \in Nat /\ DOMAIN rows = 1 .. n /\ DOMAIN z = 1 .. n + 1 /\ (rows = <<>> <=> n = 0)
      /\ z[n + 1] = row /\ \A k \in 1 .. n : z[k] = rows[k]
  BY LenProperties, EmptySeq
<1> HIDE DEF n, z
<1>2. n = 0 => z[1] = row
  BY <1>1
<1>3. n # 0 => 1 \in 1 .. n /\ z[1] = rows[1]
  BY <1>1
<1>4. ASSUME RowFits(rows, row)
      PROVE  /\ ~Bad(z)
             /\ z[1].cells # <<>>
             /\ Len(z[1].cells) = Len(row.cells)
  <2>1. z[1].cells # <<>> /\ Len(z[1].cells) = Len(row.cells)
    BY <1>1, <1>2, <1>3, <1>4 DEF RowFits
  <2>2. ASSUME NEW k \in 1 .. n + 1
        PROVE  z[k].ok /\ Len(z[k].cells) = Len(z[1].cells)
    <3>1. CASE k = n + 1
      BY <1>1, <1>4, <2>1, <3>1 DEF RowFits
    <3>2. CASE k # n + 1
      <4>1. k \in 1 .. n
        BY <1>1, <3>2
      <4>2. rows[k].ok /\ Len(rows[k].cells) = Len(rows[1].cells)
        BY <1>1, <4>1 DEF Bad
      <4>3. n # 0
        BY <1>1, <4>1
      <4> QED
        BY <1>1, <1>3, <4>1, <4>2, <4>3
    <3> QED
      BY <3>1, <3>2
  <2> QED
    BY <1>1, <2>1, <2>2 DEF Bad
<1>5. ASSUME ~RowFits(rows, row), ~(row.ok /\ row.cells = <<>>)
      PROVE  Bad(z)
  <2>1. ~row.ok \/ (n # 0 /\ Len(row.cells) # Len(rows[1].cells))
    BY <1>1, <1>5 DEF RowFits
  <2>2. n + 1 \in DOMAIN z
    BY <1>1
  <2> QED
    BY <1>1, <1>3, <2>1, <2>2 DEF Bad
<1> QED
  BY <1>4, <1>5 DEF z

\* A byte inside a field, of any kind.
LEMMA FieldGrows ==
  ASSUME NEW s \in Reader, NEW b, NEW t, NEW mode,
         SameRows(s), UNCHANGED <<csvOut, colIdx, numCols>>,
         Is(t, mode, s.rows, s.row, b, TRUE, FALSE),
         afterRec' = FALSE, s.row # <<>> => afterSep' = FALSE,
         afterSep' => s.row # <<>> \/ s.rows # <<>>
  PROVE  SameRows(t)' /\ SameFlags(t)'
<1>1. SameRows(t)'
  BY RowsKept DEF Is
<1>2. SameFlags(t)'
  BY DEF SameFlags, Is
<1> QED
  BY <1>1, <1>2

\* What execute makes of a field at the end of a row.
LEMMA FieldAdded ==
  ASSUME NEW S, NEW front \in Seq(Seq(S)), NEW last \in Seq(S), NEW e \in S,
         csvOut = Append(front, last), field = e
  PROVE  WithField = Append(front, Append(last, e))
<1> DEFINE n == Len(front)
<1>1. n \in Nat /\ Len(csvOut) = n + 1 /\ csvOut[n + 1] = last /\ csvOut \in Seq(Seq(S))
  OBVIOUS
<1>2. \A k \in 1 .. n : csvOut[k] = front[k]
  OBVIOUS
<1> DEFINE z == [csvOut EXCEPT ![n + 1] = Append(last, e)]
           y == Append(front, Append(last, e))
<1>3. WithField = z
  BY <1>1 DEF WithField
<1>4. Append(last, e) \in Seq(S)
  OBVIOUS
<1>5. z \in Seq(Seq(S)) /\ Len(z) = n + 1
  BY <1>1, <1>4, ExceptSeq
<1>6. y \in Seq(Seq(S)) /\ Len(y) = n + 1 /\ y[n + 1] = Append(last, e)
      /\ \A k \in 1 .. n : y[k] = front[k]
  BY <1>4
<1>7. z[n + 1] = Append(last, e) /\ \A k \in 1 .. n : z[k] = csvOut[k]
  <2>1. DOMAIN csvOut = 1 .. n + 1
    BY <1>1, LenProperties
  <2>2. n \in Nat
    BY <1>1
  <2> HIDE DEF n
  <2>3. /\ n + 1 \in DOMAIN csvOut /\ z[n + 1] = Append(last, e)
        /\ \A k \in DOMAIN csvOut : k # n + 1 => z[k] = csvOut[k]
    BY ONLY <2>1, <2>2
  <2> HIDE DEF z
  <2> QED
    BY ONLY <2>1, <2>2, <2>3
<1>8. z = y
  <2> HIDE DEF z, y, n
  <2>1. ASSUME NEW k \in 1 .. n + 1
        PROVE  z[k] = y[k]
    <3>1. CASE k = n + 1
      BY <1>6, <1>7, <3>1
    <3>2. CASE k # n + 1
      <4>1. k \in 1 .. n
        BY <1>1, <3>2
      <4> QED
        BY <1>2, <1>6, <1>7, <4>1
    <3> QED
      BY <3>1, <3>2
  <2> QED
    BY <1>1, <1>5, <1>6, <2>1, SeqEqual
<1> QED
  BY <1>3, <1>8

\* The cells of the rows and of one row more.
CellsOf(rows) == [r \in DOMAIN rows |-> rows[r].cells]

LEMMA CellsAppend ==
  ASSUME NEW rows \in Seq(Result), NEW row \in Result
  PROVE  /\ CellsOf(rows) \in Seq(Line)
         /\ CellsOf(Append(rows, row)) = Append(CellsOf(rows), row.cells)
<1> DEFINE n == Len(rows)
           z == Append(rows, row)
<1>1. n \in Nat /\ DOMAIN rows = 1 .. n /\ DOMAIN z = 1 .. n + 1 /\ z[n + 1] = row
      /\ \A k \in 1 .. n : z[k] = rows[k] /\ rows[k] \in Result
  BY ElementOfSeq, LenProperties
<1>2. row.cells \in Line /\ \A k \in 1 .. n : rows[k].cells \in Line
  BY <1>1 DEF Result
<1>3. CellsOf(rows) = [k \in 1 .. n |-> rows[k].cells]
  BY <1>1 DEF CellsOf
<1>4. CellsOf(rows) \in Seq(Line) /\ Len(CellsOf(rows)) = n
  BY <1>1, <1>2, <1>3, SequenceOf
<1>5. CellsOf(z) = [k \in 1 .. n + 1 |-> z[k].cells]
  BY <1>1 DEF CellsOf
<1> HIDE DEF n, z
<1>6. \A k \in 1 .. n + 1 : z[k].cells \in Line
  BY <1>1, <1>2
<1>7. CellsOf(z) \in Seq(Line) /\ Len(CellsOf(z)) = n + 1
  BY <1>1, <1>5, <1>6, SequenceOf
<1> DEFINE y == Append(CellsOf(rows), row.cells)
<1>8. y \in Seq(Line) /\ Len(y) = n + 1 /\ y[n + 1] = row.cells
      /\ \A k \in 1 .. n : y[k] = CellsOf(rows)[k]
  BY <1>2, <1>4
<1>9. ASSUME NEW k \in 1 .. n + 1
      PROVE  CellsOf(z)[k] = y[k]
  BY <1>1, <1>3, <1>5, <1>8
<1> HIDE DEF y
<1>10. CellsOf(z) = y
  BY <1>1, <1>7, <1>8, <1>9, SeqEqual
<1> QED
  BY <1>4, <1>10 DEF y, z

\* A line end, for the parser and for the reader.
LEMMA RowEnds ==
  ASSUME Configured, NEW s \in Reader, Agrees(s, s.fld), EndRow,
         NEW mode, NEW t, Is(t, mode, Append(s.rows, RowOf(s)), <<>>, <<>>, FALSE, TRUE)
  PROVE  /\ error' = "Ok" /\ afterRec' => SameRows(t)' /\ SameFlags(t)' /\ field' = <<>>
         /\ error' # "Ok" => Bad(t.rows)
<1> DEFINE row == RowOf(s)
<1>1. /\ s.rows \in Seq(Result) /\ row \in Result
      /\ s.row \in Line /\ s.fld \in Field /\ Len(s.row) \in Nat
  <2>1. s.row \in Line
    BY ReaderParts
  <2>2. Len(s.row) \in Nat
    BY <2>1, LenProperties DEF Line
  <2> QED
    BY <2>1, <2>2, ReaderParts, CloseRowIs
<1>2. SameRows(s) /\ SameFlags(s) /\ field = s.fld
  BY DEF Agrees
<1>3. /\ ~Bad(s.rows)
      /\ s.rows # <<>> => s.rows[1].cells # <<>>
  BY <1>2 DEF SameRows
<1>4. s.rows # <<>> => numCols = Len(s.rows[1].cells) /\ numCols # 0
  <2>1. s.rows # <<>> => s.rows[1] \in Result
    BY <1>1
  <2> QED
    BY <1>2, <1>3, <2>1 DEF SameRows, Result, Line
<1>5. s.rows = <<>> => numCols = 0
  BY <1>2 DEF SameRows
<1>6. RowCols = Len(row.cells)
  <2>1. colIdx = Len(s.row)
    BY <1>2 DEF SameRows
  <2>2. CASE HasTrailingComma
    BY <2>1, <2>2 DEF RowCols, RowOf
  <2>3. CASE ~HasTrailingComma
    <3>1. Len(Append(s.row, s.fld)) = Len(s.row) + 1
      BY <1>1 DEF Line
    <3>2. row.cells = Append(s.row, s.fld)
      BY <2>3 DEF RowOf
    <3> QED
      BY <2>1, <2>3, <3>1, <3>2 DEF RowCols
  <2> QED
    BY <2>2, <2>3
<1>7. row.ok => row.cells # <<>>
  <2>1. CASE HasTrailingComma
    BY <2>1 DEF RowOf
  <2>2. CASE ~HasTrailingComma
    <3>1. Append(s.row, s.fld) # <<>>
      BY <1>1 DEF Line
    <3> QED
      BY <2>2, <3>1 DEF RowOf
  <2> QED
    BY <2>1, <2>2
<1>8. RowError = "Ok" <=> RowFits(s.rows, row)
  <2>1. CASE ~HasTrailingComma
    <3>1. row.ok
      BY <2>1 DEF RowOf
    <3> QED
      BY <2>1, <3>1, <1>4, <1>5, <1>6, <1>7 DEF RowError, RowFits
  <2>2. CASE HasTrailingComma /\ ~afterSep
    <3>1. ~row.ok
      BY <2>2, <1>2 DEF RowOf, SameFlags
    <3> QED
      BY <2>2, <3>1 DEF RowError, RowFits
  <2>3. CASE HasTrailingComma /\ afterSep
    <3>1. RowError = "Ok" <=> ~(numCols # 0 /\ RowCols # numCols)
      BY <2>3 DEF RowError
    <3>2. row.ok <=> s.row # <<>>
      BY <2>3, <1>2 DEF RowOf, SameFlags
    <3>3. row.cells = s.row
      BY <2>3 DEF RowOf
    <3>4. s.row = <<>> => Len(row.cells) = 0 /\ s.rows # <<>>
      BY <2>3, <3>3, <1>2 DEF SameFlags
    <3> QED
      BY <3>1, <3>2, <3>3, <3>4, <1>4, <1>5, <1>6 DEF RowFits
  <2> QED
    BY <2>1, <2>2, <2>3
<1>9. error' = RowError
  BY DEF EndRow
<1>10. t.rows = Append(s.rows, row) /\ t.row = <<>> /\ t.fld = <<>> /\ ~t.begun /\ t.bare
  BY DEF Is
<1>11. ASSUME error' # "Ok"
       PROVE  Bad(t.rows)
  <2> HIDE DEF row
  <2>1. ~RowFits(s.rows, row)
    BY <1>8, <1>9, <1>11
  <2>2. Bad(Append(s.rows, row)) \/ (row.ok /\ row.cells = <<>>)
    BY <1>1, <1>3, <2>1, FittingRow
  <2> QED
    BY <1>7, <1>10, <2>2
<1>12. ASSUME error' = "Ok", afterRec'
       PROVE  SameRows(t)' /\ SameFlags(t)' /\ field' = <<>>
  <2>1. RowFits(s.rows, row) /\ RowError = "Ok"
    BY <1>8, <1>9, <1>12
  <2>2. /\ numCols' = RowCols
        /\ csvOut' = (IF HasTrailingComma THEN csvOut ELSE WithField) \o << <<>> >>
        /\ field' = IF HasTrailingComma THEN field ELSE <<>>
        /\ colIdx' = 0
    BY <2>1 DEF EndRow
  <2>3. /\ CellsOf(s.rows) \in Seq(Line)
        /\ CellsOf(Append(s.rows, row)) = Append(CellsOf(s.rows), row.cells)
    BY <1>1, CellsAppend
  <2>4. csvOut = Append(CellsOf(s.rows), s.row)
    BY <1>2 DEF SameRows, CellsOf
  <2>5. ~HasTrailingComma => WithField = Append(CellsOf(s.rows), row.cells)
    <3>1. ASSUME ~HasTrailingComma
          PROVE  row.cells = Append(s.row, s.fld)
      BY <3>1 DEF RowOf
    <3>2. /\ CellsOf(s.rows) \in Seq(Seq(Field)) /\ s.row \in Seq(Field)
          /\ s.fld \in Field /\ field = s.fld
      BY <1>1, <1>2, <2>3 DEF Line
    <3>3. WithField = Append(CellsOf(s.rows), Append(s.row, s.fld))
      BY <2>4, <3>2, FieldAdded
    <3> QED
      BY <3>1, <3>3
  <2>6. HasTrailingComma => csvOut = Append(CellsOf(s.rows), row.cells)
    BY <2>4 DEF RowOf
  <2>7. csvOut' = CellsOf(t.rows) \o << <<>> >>
    BY <1>10, <2>2, <2>3, <2>5, <2>6
  <2>8. CellsOf(t.rows) \in Seq(Line)
    BY <1>1, <1>10, <2>1, <2>3 DEF Result
  <2>9. csvOut' = Append(CellsOf(t.rows), <<>>)
    BY <2>7, <2>8, AppendIsConcat DEF Line
  <2>10. /\ ~Bad(t.rows) /\ t.rows[1].cells # <<>>
         /\ Len(t.rows[1].cells) = Len(row.cells)
    <3> HIDE DEF row
    <3> QED
      BY <1>1, <1>3, <1>10, <2>1, FittingRow
  <2>11. t.rows # <<>>
    BY <1>1, <1>10
  <2>12. SameRows(t)'
    BY <1>6, <1>10, <2>2, <2>9, <2>10, <2>11 DEF SameRows, CellsOf, Bad
  <2>13. field' = <<>>
    <3>1. CASE HasTrailingComma
      <4>1. row.ok
        BY <2>1 DEF RowFits
      <4>2. s.bare
        BY <3>1, <4>1 DEF RowOf
      <4> QED
        BY <1>2, <2>2, <3>1, <4>2 DEF SameFlags
    <3> QED
      BY <2>2, <3>1
  <2>14. SameFlags(t)'
    BY <1>10, <1>12, <2>11 DEF SameFlags
  <2> QED
    BY <2>12, <2>13, <2>14
<1> QED
  BY <1>11, <1>12

\* The reader after the step.
LEMMA NextReader ==
  ASSUME Configured, csvFile \in Seq(Bytes), Fixed,
         NEW n \in Nat, pos \in Nat, pos + n <= Len(csvFile), pos' = pos + n
  PROVE  After(pos)' = After(pos + n)
<1>1. Len(csvFile) \in Nat
  BY LenProperties
<1>2. pos' \in 0 .. Len(csvFile)
  BY <1>1
<1>3. \A k \in 0 .. Len(csvFile) : After(k)' = After(k)
  BY FileKept
<1>4. After(pos)' = After(pos + n)
  BY <1>1, <1>3
<1> QED
  BY <1>4

\* A bad row, wherever, and the file is refused.
LEMMA BadRefused ==
  ASSUME Configured, csvFile \in Seq(Bytes), NEW k \in 0 .. Len(csvFile), Bad(After(k).rows)
  PROVE  Refused
<1>1. Bad(AtEnd.rows)
  BY BadStays DEF AtEnd
<1>2. AtEnd \in Reader
  BY WholeFile
<1>3. Bad(AllRows)
  <2>1. CASE AtEnd.begun
    <3>1. AtEnd.rows \in Seq(Result) /\ RowOf(AtEnd) \in Result
      BY <1>2, ReaderParts, CloseRowIs
    <3> QED
      BY <1>1, <2>1, <3>1, BadMore, WholeFile
  <2>2. CASE ~AtEnd.begun
    BY <1>1, <2>2, WholeFile
  <2> QED
    BY <2>1, <2>2
<1> QED
  BY <1>3 DEF Refused

\* Outside quotes a byte is read as one.
LEMMA OutsideReads ==
  ASSUME Configured, NEW s \in Reader, OutsideQuotes(s), csvStage = "execute",
         NEW b \in Bytes, b = csvFile[pos + 1]
  PROVE  \E o \in Reader :
           /\ Is(o, "plain", s.rows, s.row, s.fld, s.begun, s.bare)
           /\ Agrees(o, s.fld) /\ RowOf(o) = RowOf(s)
           /\ Reading(s, b) = Outside(o, b)
<1> DEFINE o == Outwards(s)
<1>1. Is(o, "plain", s.rows, s.row, s.fld, s.begun, s.bare)
  BY InModeIs DEF Outwards, InMode
<1>2. Agrees(s, s.fld)
  BY DEF OutsideQuotes
<1>3. Reading(s, b) = Outside(o, b)
  BY ReadIs DEF OutsideQuotes, NextNot
<1> HIDE DEF o
<1>4. Agrees(o, s.fld)
  BY <1>1, <1>2 DEF Agrees, SameRows, SameFlags, Bad, Is
<1>5. RowOf(o) = RowOf(s)
  BY <1>1 DEF RowOf, Is, Reader
<1>6. o \in Reader
  BY <1>1 DEF Is
<1> QED
  BY <1>1, <1>3, <1>4, <1>5, <1>6

\* Inside quotes a byte other than a quote or an escape joins the field.
LEMMA InsideReads ==
  ASSUME Configured, NEW s \in Reader, InsideQuotes(s),
         NEW b \in Bytes, b = csvFile[pos + 1], b \notin {"quote", Escape}
  PROVE  Is(Reading(s, b), "quoted", s.rows, s.row, Append(field, b), TRUE, FALSE)
<1>1. CASE s.mode = "quoted"
  <2>1. field = s.fld
    BY <1>1 DEF InsideQuotes, Agrees
  <2> QED
    BY <1>1, <2>1, ReadIs
<1>2. CASE s.mode = "esc"
  <2>1. field = Append(s.fld, "backslash") /\ Escape = "backslash"
    BY <1>2 DEF InsideQuotes, Agrees
  <2> QED
    BY <1>2, <2>1, ReadIs
<1> QED
  BY <1>1, <1>2 DEF InsideQuotes

\* Behind it, an escape is the next byte's affair.
LEMMA InsideQuoted ==
  ASSUME Configured, NEW s, InsideQuotes(s), csvFile[pos + 1] \in {"quote", Escape}
  PROVE  s.mode = "quoted" /\ Agrees(s, s.fld) /\ s.begun /\ ~s.bare
BY DEF InsideQuotes, NextNot, Configured

\* The parser in execute, and the reader as far as it is.
Parsing(s) ==
  /\ Configured /\ csvFile \in Seq(Bytes)
  /\ pos \in Nat /\ end \in Nat /\ pos <= end /\ end <= Len(csvFile)
  /\ field \in Field
  /\ csvStage = "execute" /\ error = "Ok"
  /\ s \in Reader /\ s = After(pos) /\ FollowsAs(s)

\* A step takes both on alike, or finds a row that is bad.
Together ==
  \E t \in Reader :
    /\ t = After(pos)'
    /\ error' = "Ok" => FollowsAs(t)'
    /\ error' # "Ok" => Bad(t.rows)

\* One byte further, or two.
LEMMA OneByte ==
  ASSUME NEW s, Parsing(s), Advance(1), pos < end
  PROVE  /\ \E b \in Bytes, t \in Reader :
              b = csvFile[pos + 1] /\ t = Reading(s, b) /\ t = After(pos)'
         /\ Fixed /\ csvStage' = csvStage /\ end' = end /\ pos' = pos + 1
<1>1. Fixed /\ csvStage' = csvStage /\ end' = end /\ pos' = pos + 1
  BY DEF Advance, Fixed
<1>2. Configured /\ csvFile \in Seq(Bytes) /\ pos \in Nat /\ s \in Reader /\ s = After(pos)
      /\ Len(csvFile) \in Nat /\ pos + 1 <= Len(csvFile) /\ pos \in 0 .. Len(csvFile) - 1
  BY LenProperties DEF Parsing
<1>3. After(pos)' = After(pos + 1)
  BY <1>1, <1>2, NextReader
<1>4. csvFile[pos + 1] \in Bytes /\ After(pos + 1) = Reading(After(pos), csvFile[pos + 1])
  BY <1>2, AfterSteps
<1>5. Reading(s, csvFile[pos + 1]) \in Reader
  BY <1>2, <1>4, ReadRows
<1> QED
  BY <1>1, <1>2, <1>3, <1>4, <1>5

LEMMA TwoBytes ==
  ASSUME NEW s, Parsing(s), Advance(2), pos + 1 < end
  PROVE  /\ \E b, c \in Bytes, u, t \in Reader :
              /\ b = csvFile[pos + 1] /\ u = Reading(s, b)
              /\ c = csvFile[pos + 2] /\ t = Reading(u, c) /\ t = After(pos)'
         /\ Fixed /\ csvStage' = csvStage /\ end' = end /\ pos' = pos + 2
<1>1. Fixed /\ csvStage' = csvStage /\ end' = end /\ pos' = pos + 2
  BY DEF Advance, Fixed
<1>2. Configured /\ csvFile \in Seq(Bytes) /\ pos \in Nat /\ s \in Reader /\ s = After(pos)
      /\ Len(csvFile) \in Nat /\ pos + 2 <= Len(csvFile)
      /\ pos \in 0 .. Len(csvFile) - 1 /\ pos + 1 \in 0 .. Len(csvFile) - 1
  BY LenProperties DEF Parsing
<1>3. After(pos)' = After(pos + 2)
  BY <1>1, <1>2, NextReader
<1>4. csvFile[pos + 1] \in Bytes /\ After(pos + 1) = Reading(After(pos), csvFile[pos + 1])
  BY <1>2, AfterSteps
<1>5. csvFile[pos + 1 + 1] \in Bytes /\ After(pos + 1 + 1) = Reading(After(pos + 1), csvFile[pos + 1 + 1])
  BY <1>2, AfterSteps
<1>6. pos + 1 + 1 = pos + 2
  BY <1>2
<1>7. Reading(s, csvFile[pos + 1]) \in Reader
  BY <1>2, <1>4, ReadRows
<1>8. Reading(Reading(s, csvFile[pos + 1]), csvFile[pos + 2]) \in Reader
  BY <1>2, <1>5, <1>6, <1>7, ReadRows
<1> QED
  BY <1>1, <1>2, <1>3, <1>4, <1>5, <1>6, <1>7, <1>8

\* No byte further.
LEMMA NoByte ==
  ASSUME NEW s, Parsing(s), Advance(0)
  PROVE  After(pos)' = s /\ Fixed /\ csvStage' = csvStage /\ end' = end /\ pos' = pos
<1>1. Fixed /\ csvStage' = csvStage /\ end' = end /\ pos' = pos + 0
  BY DEF Advance, Fixed
<1>2. Configured /\ csvFile \in Seq(Bytes) /\ pos \in Nat /\ pos + 0 = pos /\ s = After(pos)
      /\ pos + 0 <= Len(csvFile)
  BY LenProperties DEF Parsing
<1>3. After(pos)' = After(pos + 0)
  BY <1>1, <1>2, NextReader
<1> QED
  BY <1>1, <1>2, <1>3

\* What goes into the field, and nothing else.
LEMMA Pushed ==
  ASSUME NEW b \in Bytes, Push(<<b>>), field \in Field
  PROVE  field' = Append(field, b) /\ error' = error /\ UNCHANGED <<csvOut, colIdx, numCols>>
BY DEF Push, Field

\* Where the parser is in its loop.
LEMMA InTheLoop ==
  ASSUME NEW s, Parsing(s), InLoop
  PROVE  /\ quoted => InsideQuotes(s)
         /\ ~quoted => OutsideQuotes(s)
         /\ ~escaping /\ ~newlining /\ pos < end
         /\ s \in Reader /\ Configured /\ csvStage = "execute"
BY DEF Parsing, InLoop, FollowsAs, InsideQuotes, OutsideQuotes, BehindEscape, BehindReturn

\* Of a byte that is not special.
LEMMA StepPlain ==
  ASSUME NEW s, Parsing(s), PlainByte \/ QuotedByte \/ BareEscape
  PROVE  Together
<1>1. /\ InLoop
      /\ Advance(1) /\ Push(<<csvFile[pos + 1]>>) /\ Flags(FALSE, FALSE)
      /\ UNCHANGED <<quoted, escaping, newlining>>
      /\ IF quoted THEN csvFile[pos + 1] \notin {"quote", Escape}
         ELSE csvFile[pos + 1] \notin {"comma", "nl", "cr", "quote"}
  BY DEF Parsing, PlainByte, QuotedByte, BareEscape, InLoop, At, Configured
<1>2. /\ quoted => InsideQuotes(s)
      /\ ~quoted => OutsideQuotes(s)
      /\ ~escaping /\ ~newlining /\ pos < end
      /\ s \in Reader /\ Configured /\ csvStage = "execute"
  BY <1>1, InTheLoop
<1>3. PICK b \in Bytes, t \in Reader :
        b = csvFile[pos + 1] /\ t = Reading(s, b) /\ t = After(pos)'
  BY <1>1, <1>2, OneByte
<1>4. field' = Append(field, b) /\ error' = "Ok" /\ UNCHANGED <<csvOut, colIdx, numCols>>
  BY <1>1, <1>3, Pushed DEF Parsing
<1>5. afterSep' = FALSE /\ afterRec' = FALSE
  BY <1>1 DEF Flags
<1>6. PICK f : f = field'
  OBVIOUS
<1>7. CASE quoted
  <2>1. Is(t, "quoted", s.rows, s.row, f, TRUE, FALSE)
    BY <1>1, <1>2, <1>3, <1>4, <1>6, <1>7, InsideReads
  <2>2. SameRows(s)
    BY <1>2, <1>7 DEF InsideQuotes, Agrees
  <2>3. SameRows(t)' /\ SameFlags(t)'
    BY <1>2, <1>4, <1>5, <2>1, <2>2, FieldGrows
  <2>4. InsideQuotes(t)'
    BY <1>1, <1>2, <1>6, <1>7, <2>1, <2>3 DEF InsideQuotes, Agrees, Is
  <2> QED
    BY <1>3, <1>4, <2>4 DEF Together, FollowsAs
<1>8. CASE ~quoted
  <2>1. PICK o \in Reader : /\ Is(o, "plain", s.rows, s.row, s.fld, s.begun, s.bare)
                            /\ Agrees(o, s.fld) /\ RowOf(o) = RowOf(s)
                            /\ t = Outside(o, b)
    BY <1>2, <1>3, <1>8, OutsideReads
  <2>2. b \in {"x", "backslash"}
    BY <1>1, <1>3, <1>8 DEF Bytes
  <2>3. o.mode = "plain" /\ o.fld = field /\ SameRows(o)
    BY <2>1 DEF Is, Agrees
  <2>4. Is(t, "plain", o.rows, o.row, f, TRUE, FALSE)
    BY <1>3, <1>4, <1>6, <2>1, <2>2, <2>3, OutsideIs
  <2>5. SameRows(t)' /\ SameFlags(t)'
    BY <1>4, <1>5, <2>3, <2>4, FieldGrows
  <2>6. OutsideQuotes(t)'
    BY <1>1, <1>2, <1>6, <1>8, <2>4, <2>5 DEF OutsideQuotes, Agrees, Is
  <2> QED
    BY <1>3, <1>4, <2>6 DEF Together, FollowsAs
<1> QED
  BY <1>7, <1>8

\* Of a comma.
LEMMA StepComma ==
  ASSUME NEW s, Parsing(s), Comma
  PROVE  Together
<1>1. /\ InLoop /\ ~quoted /\ csvFile[pos + 1] = "comma"
      /\ Advance(1) /\ Flags(TRUE, FALSE)
      /\ csvOut' = WithField /\ field' = <<>> /\ colIdx' = colIdx + 1
      /\ UNCHANGED <<error, numCols, quoted, escaping, newlining>>
  BY DEF Comma, At
<1>2. /\ OutsideQuotes(s)
      /\ ~escaping /\ ~newlining /\ pos < end
      /\ s \in Reader /\ Configured /\ csvStage = "execute"
  BY <1>1, InTheLoop
<1>3. PICK b \in Bytes, t \in Reader :
        b = csvFile[pos + 1] /\ t = Reading(s, b) /\ t = After(pos)'
  BY <1>1, <1>2, OneByte
<1>4. PICK o \in Reader : /\ Is(o, "plain", s.rows, s.row, s.fld, s.begun, s.bare)
                          /\ Agrees(o, s.fld) /\ RowOf(o) = RowOf(s)
                          /\ t = Outside(o, b)
  BY <1>2, <1>3, OutsideReads
<1>5. o.mode = "plain" /\ o.fld = field /\ SameRows(o)
  BY <1>4 DEF Is, Agrees
<1>6. o.rows \in Seq(Result) /\ o.row \in Seq(Field) /\ o.fld \in Field
  BY ReaderParts DEF Line
<1>7. Is(t, "plain", o.rows, Append(o.row, o.fld), <<>>, TRUE, TRUE)
  BY <1>1, <1>3, <1>4, <1>5, OutsideIs
<1>8. csvOut = Append(CellsOf(o.rows), o.row) /\ CellsOf(o.rows) \in Seq(Seq(Field))
  BY <1>5, <1>6, CloseRowIs, CellsAppend DEF SameRows, CellsOf, Line
<1>9. WithField = Append(CellsOf(o.rows), Append(o.row, o.fld))
  BY <1>5, <1>6, <1>8, FieldAdded
<1>10. Append(o.row, o.fld) # <<>> /\ Len(Append(o.row, o.fld)) = Len(o.row) + 1
  <2>1. o.row \in Seq(Field) /\ o.fld \in Field
    BY <1>6
  <2> QED
    BY ONLY <2>1
<1>11. SameRows(t)'
  <2>1. csvOut' = Append([r \in DOMAIN t.rows |-> t.rows[r].cells], t.row)
    BY <1>1, <1>7, <1>9 DEF CellsOf, Is
  <2>2. colIdx' = Len(t.row)
    BY <1>1, <1>5, <1>7, <1>10 DEF SameRows, Is
  <2> QED
    BY ONLY <1>1, <1>5, <1>7, <2>1, <2>2 DEF SameRows, Is, Bad
<1>12. SameFlags(t)'
  BY <1>1, <1>7, <1>10 DEF SameFlags, Is, Flags
<1>13. OutsideQuotes(t)'
  BY <1>1, <1>2, <1>7, <1>11, <1>12 DEF OutsideQuotes, Agrees, Is
<1> QED
  BY <1>1, <1>3, <1>13 DEF Together, FollowsAs, Parsing

\* Of a line end, which closes the row for both.
LEMMA StepNewline ==
  ASSUME NEW s, Parsing(s), Newline
  PROVE  Together
<1>1. /\ InLoop /\ ~quoted /\ EndRow
      /\ error' = "Ok" => afterRec' /\ Flags(FALSE, TRUE)
      /\ UNCHANGED <<quoted, escaping, newlining>>
  BY DEF Newline, Flags
<1>2. /\ OutsideQuotes(s)
      /\ ~escaping /\ ~newlining /\ pos < end
      /\ s \in Reader /\ Configured /\ csvStage = "execute"
  BY <1>1, InTheLoop
<1>3. \/ csvFile[pos + 1] = "nl" /\ Advance(1)
      \/ /\ csvFile[pos + 1] = "cr" /\ pos + 1 # end
         /\ IF csvFile[pos + 2] = "nl" THEN Advance(2) ELSE Advance(1)
  BY DEF Newline, At, LastOfChunk
<1>4. pos \in Nat /\ end \in Nat /\ field \in Field
  BY DEF Parsing
<1>5. ASSUME NEW o \in Reader, Agrees(o, o.fld),
             NEW t \in Reader, t = After(pos)', NEW mode \in {"plain", "cr"},
             Is(t, mode, Append(o.rows, RowOf(o)), <<>>, <<>>, FALSE, TRUE),
             mode = "cr" => NextNot({"nl"})'
      PROVE  Together
  <2>1. /\ error' = "Ok" /\ afterRec' => SameRows(t)' /\ SameFlags(t)' /\ field' = <<>>
        /\ error' # "Ok" => Bad(t.rows)
    BY <1>1, <1>2, <1>5, RowEnds
  <2>2. error' = "Ok" => OutsideQuotes(t)'
    BY <1>1, <1>2, <1>5, <2>1 DEF OutsideQuotes, Agrees, Is
  <2> QED
    BY <1>5, <2>1, <2>2 DEF Together, FollowsAs
<1>6. CASE csvFile[pos + 1] = "nl"
  <2>1. Advance(1)
    BY <1>3, <1>6
  <2>2. PICK b \in Bytes, t \in Reader :
          b = csvFile[pos + 1] /\ t = Reading(s, b) /\ t = After(pos)'
    BY <1>2, <2>1, OneByte
  <2>3. PICK o \in Reader : /\ Is(o, "plain", s.rows, s.row, s.fld, s.begun, s.bare)
                            /\ Agrees(o, s.fld) /\ RowOf(o) = RowOf(s)
                            /\ t = Outside(o, b)
    BY <1>2, <2>2, OutsideReads
  <2>4. o.mode = "plain" /\ Agrees(o, o.fld)
    BY <2>3 DEF Is
  <2>5. Is(t, "plain", Append(o.rows, RowOf(o)), <<>>, <<>>, FALSE, TRUE)
    BY <1>6, <2>2, <2>3, <2>4, OutsideIs
  <2> QED
    BY <1>5, <2>2, <2>4, <2>5
<1>7. CASE csvFile[pos + 1] = "cr" /\ csvFile[pos + 2] = "nl"
  <2>1. Advance(2) /\ pos + 1 < end
    BY <1>2, <1>3, <1>4, <1>7
  <2>2. PICK b \in Bytes, c \in Bytes, u \in Reader, t \in Reader :
          /\ b = csvFile[pos + 1] /\ u = Reading(s, b)
          /\ c = csvFile[pos + 2] /\ t = Reading(u, c) /\ t = After(pos)'
    BY <2>1, TwoBytes
  <2>3. PICK o \in Reader : /\ Is(o, "plain", s.rows, s.row, s.fld, s.begun, s.bare)
                            /\ Agrees(o, s.fld) /\ RowOf(o) = RowOf(s)
                            /\ u = Outside(o, b)
    BY <1>2, <2>2, OutsideReads
  <2>4. Agrees(o, o.fld)
    BY <2>3 DEF Is
  <2>5. Is(u, "cr", Append(o.rows, RowOf(o)), <<>>, <<>>, FALSE, TRUE)
    BY <1>7, <2>2, <2>3, OutsideIs
  <2>6. Is(t, "plain", u.rows, u.row, u.fld, u.begun, u.bare)
    BY <1>2, <1>7, <2>2, <2>5, ReadIs DEF Is
  <2>7. Is(t, "plain", Append(o.rows, RowOf(o)), <<>>, <<>>, FALSE, TRUE)
    BY <2>5, <2>6 DEF Is
  <2> QED
    BY <1>5, <2>2, <2>4, <2>7
<1>8. CASE csvFile[pos + 1] = "cr" /\ csvFile[pos + 2] # "nl"
  <2>1. Advance(1) /\ pos + 1 < end
    BY <1>2, <1>3, <1>4, <1>8
  <2>2. PICK b \in Bytes, t \in Reader :
          b = csvFile[pos + 1] /\ t = Reading(s, b) /\ t = After(pos)'
    BY <1>2, <2>1, OneByte
  <2>3. PICK o \in Reader : /\ Is(o, "plain", s.rows, s.row, s.fld, s.begun, s.bare)
                            /\ Agrees(o, s.fld) /\ RowOf(o) = RowOf(s)
                            /\ t = Outside(o, b)
    BY <1>2, <2>2, OutsideReads
  <2>4. Agrees(o, o.fld)
    BY <2>3 DEF Is
  <2>5. Is(t, "cr", Append(o.rows, RowOf(o)), <<>>, <<>>, FALSE, TRUE)
    BY <1>8, <2>2, <2>3, OutsideIs
  <2>6. NextNot({"nl"})'
    <3>1. Fixed /\ end' = end /\ pos' = pos + 1
      BY <1>2, <2>1, OneByte
    <3>2. pos + 1 + 1 = pos + 2
      BY <1>4
    <3> QED
      BY <1>8, <2>1, <3>1, <3>2 DEF NextNot, Fixed
  <2> QED
    BY <1>5, <2>2, <2>4, <2>5, <2>6
<1> QED
  BY <1>3, <1>6, <1>7, <1>8

\* Of a carriage return that the next chunk may complete.
LEMMA StepNewlineAtEnd ==
  ASSUME NEW s, Parsing(s), NewlineAtEnd
  PROVE  Together
<1>1. /\ InLoop /\ ~quoted /\ csvFile[pos + 1] = "cr"
      /\ newlining' = TRUE /\ Advance(1) /\ Keep
      /\ UNCHANGED <<quoted, afterSep, afterRec, escaping>>
  BY DEF NewlineAtEnd, At
<1>2. /\ OutsideQuotes(s)
      /\ ~escaping /\ ~newlining /\ pos < end
      /\ s \in Reader /\ Configured /\ csvStage = "execute"
  BY <1>1, InTheLoop
<1>3. PICK b \in Bytes, t \in Reader :
        b = csvFile[pos + 1] /\ t = Reading(s, b) /\ t = After(pos)'
  BY <1>1, <1>2, OneByte
<1>4. PICK o \in Reader : /\ Is(o, "plain", s.rows, s.row, s.fld, s.begun, s.bare)
                          /\ Agrees(o, s.fld) /\ RowOf(o) = RowOf(s)
                          /\ t = Outside(o, b)
  BY <1>2, <1>3, OutsideReads
<1>5. Agrees(o, o.fld)
  BY <1>4 DEF Is
<1>6. Is(t, "cr", Append(o.rows, RowOf(o)), <<>>, <<>>, FALSE, TRUE)
  BY <1>1, <1>3, <1>4, OutsideIs
<1>7. RowOf(o)' = RowOf(o)
  BY <1>1 DEF RowOf, HasTrailingComma, Advance
<1>8. Agrees(o, o.fld)'
  BY <1>1, <1>5 DEF Agrees, SameRows, SameFlags, Bad, Keep
<1>9. BehindReturn(t)'
  BY <1>1, <1>2, <1>6, <1>7, <1>8 DEF BehindReturn, Is
<1> QED
  BY <1>1, <1>3, <1>9 DEF Together, FollowsAs, Parsing, Keep

\* Of a quote that opens or closes.
LEMMA StepQuote ==
  ASSUME NEW s, Parsing(s), Quote
  PROVE  Together
<1>1. /\ InLoop /\ csvFile[pos + 1] = "quote"
      /\ Escape # "quote" \/ ~quoted
      /\ quoted' = ~quoted /\ Advance(1) /\ Keep /\ Flags(FALSE, FALSE)
      /\ UNCHANGED <<escaping, newlining>>
  BY DEF Quote, At
<1>2. /\ quoted => InsideQuotes(s)
      /\ ~quoted => OutsideQuotes(s)
      /\ ~escaping /\ ~newlining /\ pos < end
      /\ s \in Reader /\ Configured /\ csvStage = "execute"
  BY <1>1, InTheLoop
<1>3. PICK b \in Bytes, t \in Reader :
        b = csvFile[pos + 1] /\ t = Reading(s, b) /\ t = After(pos)'
  BY <1>1, <1>2, OneByte
<1>4. error' = "Ok" /\ UNCHANGED <<csvOut, colIdx, numCols, field>>
  BY <1>1 DEF Keep, Parsing
<1>5. afterSep' = FALSE /\ afterRec' = FALSE
  BY <1>1 DEF Flags
<1>6. CASE quoted
  <2>1. s.mode = "quoted" /\ Agrees(s, s.fld) /\ s.begun /\ ~s.bare
    BY <1>1, <1>2, <1>6, InsideQuoted
  <2>2. Is(t, "plain", s.rows, s.row, s.fld, TRUE, FALSE)
    BY <1>1, <1>2, <1>3, <1>6, <2>1, ReadIs DEF Is
  <2>3. SameRows(t)' /\ SameFlags(t)'
    BY <1>2, <1>4, <1>5, <2>1, <2>2, FieldGrows DEF Agrees
  <2>4. OutsideQuotes(t)'
    BY <1>1, <1>2, <1>4, <1>6, <2>1, <2>2, <2>3 DEF OutsideQuotes, Agrees, Is
  <2> QED
    BY <1>3, <1>4, <2>4 DEF Together, FollowsAs
<1>7. CASE ~quoted
  <2>1. PICK o \in Reader : /\ Is(o, "plain", s.rows, s.row, s.fld, s.begun, s.bare)
                            /\ Agrees(o, s.fld) /\ RowOf(o) = RowOf(s)
                            /\ t = Outside(o, b)
    BY <1>2, <1>3, <1>7, OutsideReads
  <2>2. o.fld = field /\ SameRows(o)
    BY <2>1 DEF Is, Agrees
  <2>3. Is(t, "quoted", o.rows, o.row, o.fld, TRUE, FALSE)
    BY <1>1, <1>3, <2>1, OutsideIs
  <2>4. SameRows(t)' /\ SameFlags(t)'
    BY <1>4, <1>5, <2>2, <2>3, FieldGrows
  <2>5. InsideQuotes(t)'
    BY <1>1, <1>2, <1>4, <1>7, <2>2, <2>3, <2>4 DEF InsideQuotes, Agrees, Is
  <2> QED
    BY <1>3, <1>4, <2>5 DEF Together, FollowsAs
<1> QED
  BY <1>6, <1>7

\* Of an escape that the next chunk may complete.
LEMMA StepEscapeAtEnd ==
  ASSUME NEW s, Parsing(s), EscapeAtEnd
  PROVE  Together
<1>1. /\ InLoop /\ quoted /\ csvFile[pos + 1] = Escape
      /\ escaping' = TRUE /\ Advance(1) /\ Keep
      /\ UNCHANGED <<quoted, afterSep, afterRec, newlining>>
  BY DEF EscapeAtEnd, At
<1>2. /\ InsideQuotes(s)
      /\ ~escaping /\ ~newlining /\ pos < end
      /\ s \in Reader /\ Configured /\ csvStage = "execute"
  BY <1>1, InTheLoop
<1>3. PICK b \in Bytes, t \in Reader :
        b = csvFile[pos + 1] /\ t = Reading(s, b) /\ t = After(pos)'
  BY <1>1, <1>2, OneByte
<1>4. s.mode = "quoted" /\ Agrees(s, s.fld) /\ s.begun /\ ~s.bare
  BY <1>1, <1>2, InsideQuoted
<1>5. Is(t, "esc", s.rows, s.row, s.fld, s.begun, s.bare)
  BY <1>1, <1>2, <1>3, <1>4, ReadIs
<1>6. BehindEscape(t)'
  BY <1>1, <1>2, <1>4, <1>5 DEF BehindEscape, Agrees, SameRows, SameFlags, Bad, Is, Keep
<1> QED
  BY <1>1, <1>3, <1>6 DEF Together, FollowsAs, Parsing, Keep

\* Of an escape and the byte behind it, in one chunk.
LEMMA StepEscaped ==
  ASSUME NEW s, Parsing(s), EscapedByte
  PROVE  Together
<1>1. /\ InLoop /\ quoted /\ csvFile[pos + 1] = Escape
      /\ pos + 1 # end
      /\ Flags(FALSE, FALSE) /\ UNCHANGED <<escaping, newlining>>
  BY DEF EscapedByte, At, LastOfChunk
<1>2. /\ InsideQuotes(s)
      /\ ~escaping /\ ~newlining /\ pos < end
      /\ s \in Reader /\ Configured /\ csvStage = "execute"
  BY <1>1, InTheLoop
<1>3. pos \in Nat /\ end \in Nat /\ field \in Field /\ error = "Ok" /\ pos + 1 < end
      /\ pos + 1 + 1 = pos + 2
  BY <1>1, <1>2 DEF Parsing
<1>4. s.mode = "quoted" /\ Agrees(s, s.fld) /\ s.begun /\ ~s.bare
  BY <1>1, <1>2, InsideQuoted
<1>5. SameRows(s) /\ field = s.fld
  BY <1>4 DEF Agrees
<1>6. afterSep' = FALSE /\ afterRec' = FALSE
  BY <1>1 DEF Flags
<1>7. CASE csvFile[pos + 2] \in {"quote", Escape}
  <2>1. Advance(2) /\ Push(<<csvFile[pos + 2]>>) /\ quoted' = quoted
    BY <1>7 DEF EscapedByte, At
  <2>2. PICK b \in Bytes, c \in Bytes, u \in Reader, t \in Reader :
          /\ b = csvFile[pos + 1] /\ u = Reading(s, b)
          /\ c = csvFile[pos + 2] /\ t = Reading(u, c) /\ t = After(pos)'
    BY <1>3, <2>1, TwoBytes
  <2>3. Is(u, "esc", s.rows, s.row, s.fld, s.begun, s.bare)
    BY <1>1, <1>2, <1>4, <2>2, ReadIs
  <2>4. Is(t, "quoted", u.rows, u.row, Append(u.fld, c), TRUE, FALSE)
    <3>1. u.mode = "esc"
      BY <2>3 DEF Is
    <3> QED
      BY <1>2, <1>7, <2>2, <3>1, ReadIs
  <2>5. Is(t, "quoted", s.rows, s.row, Append(s.fld, c), TRUE, FALSE)
    BY <2>3, <2>4 DEF Is
  <2>6. field' = Append(s.fld, c) /\ error' = "Ok" /\ UNCHANGED <<csvOut, colIdx, numCols>>
    BY <1>3, <1>5, <2>1, <2>2, Pushed
  <2>7. SameRows(t)' /\ SameFlags(t)'
    BY <1>2, <1>5, <1>6, <2>5, <2>6, FieldGrows
  <2>8. InsideQuotes(t)'
    BY <1>1, <1>2, <2>1, <2>5, <2>6, <2>7 DEF InsideQuotes, Agrees, Is
  <2> QED
    BY <2>2, <2>6, <2>8 DEF Together, FollowsAs
<1>8. CASE csvFile[pos + 2] \notin {"quote", Escape}
  <2>1. /\ Advance(1)
        /\ IF Escape = "quote" THEN Keep /\ quoted' = FALSE
           ELSE Push(<<Escape>>) /\ quoted' = quoted
    BY <1>8 DEF EscapedByte, At
  <2>2. PICK b \in Bytes, t \in Reader :
          b = csvFile[pos + 1] /\ t = Reading(s, b) /\ t = After(pos)'
    BY <1>2, <2>1, OneByte
  <2>3. Is(t, "esc", s.rows, s.row, s.fld, TRUE, FALSE)
    <3>1. Is(t, "esc", s.rows, s.row, s.fld, s.begun, s.bare)
      BY <1>1, <1>2, <1>4, <2>2, ReadIs
    <3> QED
      BY <1>4, <3>1 DEF Is
  <2>4. error' = "Ok" /\ UNCHANGED <<csvOut, colIdx, numCols>>
        /\ field' = (IF Escape = "quote" THEN s.fld ELSE Append(s.fld, "backslash"))
    <3>1. CASE Escape = "quote"
      BY <1>3, <1>5, <2>1, <3>1 DEF Keep
    <3>2. CASE Escape # "quote"
      <4>1. Push(<<"backslash">>) /\ "backslash" \in Bytes
        BY <1>2, <2>1, <3>2 DEF Configured, Bytes
      <4> QED
        BY <1>3, <1>5, <3>2, <4>1, Pushed
    <3> QED
      BY <3>1, <3>2
  <2>5. SameRows(t)' /\ SameFlags(t)'
    BY <1>2, <1>5, <1>6, <2>3, <2>4, FieldGrows
  <2>6. NextNot({"quote", Escape})' /\ Escape' = Escape
    <3>1. Fixed /\ end' = end /\ pos' = pos + 1
      BY <1>2, <2>1, OneByte
    <3> QED
      BY <1>3, <1>8, <3>1 DEF NextNot, Fixed, Escape
  <2>7. CASE Escape = "quote"
    <3>1. OutsideQuotes(t)'
      BY <1>1, <1>2, <2>1, <2>3, <2>4, <2>5, <2>6, <2>7 DEF OutsideQuotes, Agrees, Is, NextNot
    <3> QED
      BY <2>2, <2>4, <3>1 DEF Together, FollowsAs
  <2>8. CASE Escape # "quote"
    <3>1. Escape = "backslash"
      BY <1>2, <2>8 DEF Configured
    <3>2. InsideQuotes(t)'
      BY <1>1, <1>2, <2>1, <2>3, <2>4, <2>5, <2>6, <2>8, <3>1 DEF InsideQuotes, Agrees, Is, NextNot
    <3> QED
      BY <2>2, <2>4, <3>2 DEF Together, FollowsAs
  <2> QED
    BY <2>7, <2>8
<1> QED
  BY <1>7, <1>8

\* Of the first byte of a chunk, behind an escape.
LEMMA StepResumeEscape ==
  ASSUME NEW s, Parsing(s), ResumeEscape
  PROVE  Together
<1>1. /\ pos < end /\ escaping /\ escaping' = FALSE
      /\ UNCHANGED <<afterSep, afterRec, newlining>>
  BY DEF ResumeEscape
<1>2. BehindEscape(s) /\ s \in Reader /\ Configured /\ field \in Field /\ error = "Ok"
  BY <1>1 DEF Parsing, FollowsAs, OutsideQuotes, InsideQuotes, BehindReturn
<1>3. /\ quoted /\ ~newlining /\ s.mode = "esc" /\ s.begun /\ ~s.bare
      /\ SameRows(s) /\ SameFlags(s) /\ field = s.fld
  BY <1>2 DEF BehindEscape, Agrees
<1>4. CASE csvFile[pos + 1] \in {"quote", Escape}
  <2>1. Advance(1) /\ Push(<<csvFile[pos + 1]>>) /\ quoted' = quoted
    BY <1>4 DEF ResumeEscape, At
  <2>2. PICK b \in Bytes, t \in Reader :
          b = csvFile[pos + 1] /\ t = Reading(s, b) /\ t = After(pos)'
    BY <1>1, <2>1, OneByte
  <2>3. Is(t, "quoted", s.rows, s.row, Append(s.fld, b), TRUE, FALSE)
    BY <1>2, <1>3, <1>4, <2>2, ReadIs
  <2>4. field' = Append(s.fld, b) /\ error' = "Ok" /\ UNCHANGED <<csvOut, colIdx, numCols>>
    BY <1>2, <1>3, <2>1, <2>2, Pushed
  <2>5. afterRec' = FALSE /\ (s.row # <<>> => afterSep' = FALSE)
        /\ (afterSep' => s.row # <<>> \/ s.rows # <<>>)
    BY <1>1, <1>3 DEF SameFlags
  <2>6. SameRows(t)' /\ SameFlags(t)'
    BY <1>2, <1>3, <2>3, <2>4, <2>5, FieldGrows
  <2>7. InsideQuotes(t)'
    BY <1>1, <1>3, <2>1, <2>3, <2>4, <2>6 DEF InsideQuotes, Agrees, Is
  <2> QED
    BY <2>2, <2>4, <2>7 DEF Together, FollowsAs
<1>5. CASE csvFile[pos + 1] \notin {"quote", Escape}
  <2>1. /\ Advance(0)
        /\ IF Escape = "quote" THEN Keep /\ quoted' = FALSE
           ELSE Push(<<Escape>>) /\ quoted' = quoted
    BY <1>5 DEF ResumeEscape, At
  <2>2. s = After(pos)' /\ Fixed /\ end' = end /\ pos' = pos
    BY <2>1, NoByte
  <2>3. error' = "Ok" /\ UNCHANGED <<csvOut, colIdx, numCols>>
        /\ field' = (IF Escape = "quote" THEN s.fld ELSE Append(s.fld, "backslash"))
    <3>1. CASE Escape = "quote"
      BY <1>2, <1>3, <2>1, <3>1 DEF Keep
    <3>2. CASE Escape # "quote"
      <4>1. Push(<<"backslash">>) /\ "backslash" \in Bytes
        BY <1>2, <2>1, <3>2 DEF Configured, Bytes
      <4> QED
        BY <1>2, <1>3, <3>2, <4>1, Pushed
    <3> QED
      BY <3>1, <3>2
  <2>4. SameRows(s)' /\ SameFlags(s)'
    BY <1>1, <1>3, <2>3 DEF SameRows, SameFlags, Bad
  <2>5. NextNot({"quote", Escape})' /\ Escape' = Escape
    BY <1>1, <1>5, <2>2 DEF NextNot, Fixed, Escape
  <2>6. CASE Escape = "quote"
    <3>1. OutsideQuotes(s)'
      BY <1>1, <1>3, <2>1, <2>3, <2>4, <2>5, <2>6 DEF OutsideQuotes, Agrees, NextNot
    <3> QED
      BY <1>2, <2>2, <2>3, <3>1 DEF Together, FollowsAs
  <2>7. CASE Escape # "quote"
    <3>1. Escape = "backslash"
      BY <1>2, <2>7 DEF Configured
    <3>2. InsideQuotes(s)'
      BY <1>1, <1>3, <2>1, <2>3, <2>4, <2>5, <2>7, <3>1 DEF InsideQuotes, Agrees, NextNot
    <3> QED
      BY <1>2, <2>2, <2>3, <3>2 DEF Together, FollowsAs
  <2> QED
    BY <2>6, <2>7
<1> QED
  BY <1>4, <1>5

\* What is known behind a carriage return.
LEMMA RowBehindReturn ==
  ASSUME Configured, NEW s \in Reader, BehindReturn(s), EndRow,
         NEW mode, NEW t, Is(t, mode, s.rows, <<>>, <<>>, FALSE, TRUE)
  PROVE  /\ error' = "Ok" /\ afterRec' => SameRows(t)' /\ SameFlags(t)' /\ field' = <<>>
         /\ error' # "Ok" => Bad(t.rows)
<1>1. PICK last \in Reader : /\ Agrees(last, last.fld)
                            /\ Is(s, "cr", Append(last.rows, RowOf(last)), <<>>, <<>>, FALSE, TRUE)
  BY DEF BehindReturn
<1>2. Is(t, mode, Append(last.rows, RowOf(last)), <<>>, <<>>, FALSE, TRUE)
  BY <1>1 DEF Is
<1> QED
  BY <1>1, <1>2, RowEnds

\* Of the first byte of a chunk, behind a carriage return.
LEMMA StepResumeNewline ==
  ASSUME NEW s, Parsing(s), ResumeNewline
  PROVE  Together
<1>1. /\ newlining /\ pos < end /\ EndRow
      /\ IF csvFile[pos + 1] = "nl" THEN Advance(1) ELSE Advance(0)
      /\ error' = "Ok" => newlining' = FALSE /\ afterRec' = TRUE
      /\ UNCHANGED <<quoted, afterSep, escaping>>
  BY DEF ResumeNewline, Parsing, At
<1>2. BehindReturn(s) /\ s \in Reader /\ Configured
  BY <1>1 DEF Parsing, FollowsAs, OutsideQuotes, InsideQuotes, BehindEscape
<1>3. ~quoted /\ ~escaping /\ Is(s, "cr", s.rows, <<>>, <<>>, FALSE, TRUE)
  BY <1>2 DEF BehindReturn, Is
<1>4. ASSUME NEW t \in Reader, t = After(pos)', NEW mode \in {"plain", "cr"},
             Is(t, mode, s.rows, <<>>, <<>>, FALSE, TRUE),
             mode = "cr" => NextNot({"nl"})'
      PROVE  Together
  <2>1. /\ error' = "Ok" /\ afterRec' => SameRows(t)' /\ SameFlags(t)' /\ field' = <<>>
        /\ error' # "Ok" => Bad(t.rows)
    BY <1>1, <1>2, <1>4, RowBehindReturn
  <2>2. error' = "Ok" => OutsideQuotes(t)'
    BY <1>1, <1>3, <1>4, <2>1 DEF OutsideQuotes, Agrees, Is
  <2> QED
    BY <1>4, <2>1, <2>2 DEF Together, FollowsAs
<1>5. CASE csvFile[pos + 1] = "nl"
  <2>1. PICK b \in Bytes, t \in Reader :
          b = csvFile[pos + 1] /\ t = Reading(s, b) /\ t = After(pos)'
    BY <1>1, <1>5, OneByte
  <2>2. Is(t, "plain", s.rows, s.row, s.fld, s.begun, s.bare)
    BY <1>2, <1>3, <1>5, <2>1, ReadIs DEF Is
  <2>3. Is(t, "plain", s.rows, <<>>, <<>>, FALSE, TRUE)
    BY <1>3, <2>2 DEF Is
  <2> QED
    BY <1>4, <2>1, <2>3
<1>6. CASE csvFile[pos + 1] # "nl"
  <2>1. s = After(pos)' /\ Fixed /\ end' = end /\ pos' = pos
    BY <1>1, <1>6, NoByte
  <2>2. NextNot({"nl"})'
    BY <1>1, <1>6, <2>1 DEF NextNot, Fixed
  <2> QED
    BY <1>2, <1>3, <1>4, <2>1, <2>2
<1> QED
  BY <1>5, <1>6

\* Of any byte of execute.
LEMMA StepByte ==
  ASSUME NEW s, Parsing(s), Byte
  PROVE  Together
BY StepPlain, StepComma, StepNewline, StepNewlineAtEnd, StepQuote, StepEscapeAtEnd,
   StepEscaped, StepResumeEscape, StepResumeNewline DEF Byte

-----------------------------------------------------------------------------
(* The types                                                               *)

\* Where the parser is in the file.
Place ==
  /\ parser \in Parsers
  /\ csvFile \in Seq(Bytes) /\ Len(csvFile) <= MaxLen
  /\ pos \in 0 .. Len(csvFile) /\ end \in pos .. Len(csvFile)
  /\ csvStage \in {"ready", "execute", "finish", "done"}
  /\ csvStage \in {"ready", "finish"} => pos = end
  /\ csvStage = "finish" => pos = Len(csvFile)

\* What it has in mind.
Marks ==
  /\ quoted \in BOOLEAN /\ afterSep \in BOOLEAN /\ afterRec \in BOOLEAN
  /\ escaping \in BOOLEAN /\ newlining \in BOOLEAN
  /\ escaping => quoted /\ ~newlining
  /\ newlining => ~quoted

\* What it has handed on, and is about to.
HandedOn ==
  /\ error \in Errors
  /\ field \in Field
  /\ csvOut \in Seq(Line) /\ csvOut # <<>>
  /\ colIdx = Len(Last(csvOut)) /\ colIdx <= pos
  /\ numCols \in 0 .. MaxLen + 1

LEMMA TypedParts == Place /\ Marks /\ HandedOn => CsvTypeOK
BY DEF Place, Marks, HandedOn, CsvTypeOK, Line, Field

\* A byte of execute is in the chunk.
LEMMA ByteAdvances ==
  ASSUME Place, Byte
  PROVE  /\ csvStage = "execute" /\ error = "Ok" /\ pos < end
         /\ \/ Advance(0) \/ Advance(1)
            \/ Advance(2) /\ pos + 1 < end
<1>0. pos \in Nat /\ end \in Nat
  BY LenProperties DEF Place
<1>1. error = "Ok"
  BY DEF Byte
<1>2. ASSUME ResumeEscape \/ (csvStage = "execute" /\ ResumeNewline)
      PROVE  csvStage = "execute" /\ pos < end /\ (Advance(0) \/ Advance(1))
  BY <1>2 DEF ResumeEscape, ResumeNewline
<1>3. ASSUME PlainByte \/ QuotedByte \/ Comma \/ NewlineAtEnd
               \/ Quote \/ EscapeAtEnd \/ BareEscape
      PROVE  csvStage = "execute" /\ pos < end /\ Advance(1)
  BY <1>3 DEF PlainByte, QuotedByte, Comma, NewlineAtEnd, Quote,
              EscapeAtEnd, BareEscape, InLoop
<1>4. ASSUME Newline \/ EscapedByte
      PROVE  csvStage = "execute" /\ pos < end
             /\ (Advance(1) \/ (Advance(2) /\ pos + 1 < end))
  <2>1. csvStage = "execute" /\ pos < end
    BY <1>4 DEF Newline, EscapedByte, InLoop
  <2>2. Advance(1) \/ (Advance(2) /\ pos + 1 # end)
    BY <1>4 DEF Newline, EscapedByte, LastOfChunk
  <2> QED
    BY <1>0, <2>1, <2>2
<1> QED
  BY <1>1, <1>2, <1>3, <1>4 DEF Byte

LEMMA PlaceKept ==
  ASSUME Place, [CsvNext]_(csvVars)
  PROVE  Place' /\ Fixed
<1>0. Len(csvFile) \in Nat /\ pos \in Nat /\ end \in Nat
  BY LenProperties DEF Place
<1>1. CASE NextChunk
  BY <1>0, <1>1 DEF Place, Fixed, NextChunk
<1>2. CASE Byte
  <2>1. /\ csvStage = "execute" /\ pos < end
        /\ Advance(0) \/ Advance(1) \/ (Advance(2) /\ pos + 1 < end)
    BY <1>2, ByteAdvances
  <2>2. UNCHANGED <<parser, csvFile, end, csvStage>> /\ pos' \in Nat /\ pos' <= end
    BY <1>0, <2>1 DEF Advance
  <2> QED
    BY <1>0, <2>1, <2>2 DEF Place, Fixed
<1>3. CASE ChunkDone
  BY <1>3 DEF Place, Fixed, ChunkDone, input
<1>4. CASE Finish
  BY <1>4 DEF Place, Fixed, Finish, input
<1>5. CASE FinishQuoted
  BY <1>5 DEF Place, Fixed, FinishQuoted, input
<1>6. CASE FinishNewline
  <2>1. UNCHANGED <<parser, csvFile, pos, end, csvStage>>
    BY <1>6 DEF FinishNewline, ResumeNewline
  <2> QED
    BY <2>1 DEF Place, Fixed
<1>7. CASE FinishRow
  BY <1>7 DEF Place, Fixed, FinishRow, input
<1>8. CASE Done
  BY <1>8 DEF Place, Fixed, Done, input
<1>9. CASE Loaded \/ UNCHANGED csvVars
  BY <1>9 DEF Place, Fixed, Loaded, csvVars
<1> QED
  BY <1>1, <1>2, <1>3, <1>4, <1>5, <1>6, <1>7, <1>8, <1>9 DEF CsvNext

LEMMA MarksKept ==
  ASSUME Marks, [CsvNext]_(csvVars)
  PROVE  Marks'
<1>1. CASE NextChunk \/ ChunkDone \/ Finish \/ FinishQuoted \/ Done
             \/ Loaded \/ UNCHANGED csvVars
  <2>1. UNCHANGED <<quoted, afterSep, afterRec, escaping, newlining>>
    BY <1>1 DEF NextChunk, ChunkDone, Finish, FinishQuoted, Done,
                Loaded, csvVars
  <2> QED
    BY <2>1 DEF Marks
<1>2. CASE ResumeEscape
  BY <1>2 DEF Marks, ResumeEscape
<1>3. CASE ResumeNewline
  <2>1. /\ newlining' = FALSE \/ newlining' = newlining
        /\ afterRec' = TRUE \/ afterRec' = afterRec
        /\ UNCHANGED <<quoted, afterSep, escaping>>
    BY <1>3 DEF ResumeNewline
  <2>2. afterRec' \in BOOLEAN
    <3>1. CASE afterRec' = TRUE
      BY <3>1
    <3>2. CASE afterRec' = afterRec
      BY <3>2 DEF Marks
    <3> QED
      BY <2>1, <3>1, <3>2
  <2>3. CASE newlining' = FALSE
    BY <2>1, <2>2, <2>3 DEF Marks
  <2>4. CASE newlining' = newlining
    BY <2>1, <2>2, <2>4 DEF Marks
  <2> QED
    BY <2>1, <2>3, <2>4
<1>4. CASE PlainByte \/ QuotedByte \/ Comma \/ BareEscape
  <2>1. /\ afterRec' = FALSE /\ afterSep' \in BOOLEAN
        /\ UNCHANGED <<quoted, escaping, newlining>>
    BY <1>4 DEF PlainByte, QuotedByte, Comma, BareEscape, Flags
  <2> QED
    BY <2>1 DEF Marks
<1>5. CASE Newline \/ FinishRow
  <2>1. /\ UNCHANGED <<quoted, escaping, newlining>>
        /\ (afterSep' = FALSE /\ afterRec' = TRUE) \/ UNCHANGED <<afterSep, afterRec>>
    BY <1>5 DEF Newline, FinishRow, Flags
  <2>2. CASE afterSep' = FALSE /\ afterRec' = TRUE
    BY <2>1, <2>2 DEF Marks
  <2>3. CASE UNCHANGED <<afterSep, afterRec>>
    BY <2>1, <2>3 DEF Marks
  <2> QED
    BY <2>1, <2>2, <2>3
<1>6. CASE NewlineAtEnd
  BY <1>6 DEF Marks, NewlineAtEnd, InLoop
<1>7. CASE Quote
  BY <1>7 DEF Marks, Quote, InLoop, Flags
<1>8. CASE EscapedByte
  BY <1>8 DEF Marks, EscapedByte, InLoop, Flags
<1>9. CASE EscapeAtEnd
  BY <1>9 DEF Marks, EscapeAtEnd, InLoop
<1> QED
  BY <1>1, <1>2, <1>3, <1>4, <1>5, <1>6, <1>7, <1>8, <1>9 DEF CsvNext, Byte, FinishNewline

\* A field more in the row that is open.
LEMMA WithFieldTyped ==
  ASSUME csvOut \in Seq(Line), csvOut # <<>>, field \in Field
  PROVE  /\ WithField \in Seq(Line) /\ WithField # <<>>
         /\ Len(Last(WithField)) = Len(Last(csvOut)) + 1
<1> DEFINE n == Len(csvOut)
<1>1. n \in Nat /\ n # 0 /\ n \in DOMAIN csvOut
  BY LenProperties, EmptySeq
<1>2. csvOut[n] \in Line
  BY <1>1, ElementOfSeq
<1>3. Append(csvOut[n], field) \in Line /\ Len(Append(csvOut[n], field)) = Len(csvOut[n]) + 1
  BY <1>2 DEF Line
<1> DEFINE z == [csvOut EXCEPT ![n] = Append(csvOut[n], field)]
<1>4. WithField = z
  BY DEF WithField
<1>5. z \in Seq(Line) /\ Len(z) = n
  BY <1>1, <1>3, ExceptSeq
<1>6. z[n] = Append(csvOut[n], field)
  <2> HIDE DEF n
  <2> QED
    BY ONLY <1>1
<1>7. z # <<>>
  BY <1>1, <1>5, EmptySeq
<1> QED
  BY <1>3, <1>4, <1>5, <1>6, <1>7 DEF Last

\* The end of a row leaves one that is empty.
LEMMA EndRowTyped ==
  ASSUME Place, HandedOn, EndRow, MaxLen \in Nat, pos' \in Nat, pos <= pos'
  PROVE  HandedOn'
<1>0. Len(csvFile) \in Nat /\ pos \in Nat /\ colIdx \in Nat /\ colIdx <= MaxLen
  <2>2. Len(csvOut) \in DOMAIN csvOut
    BY LenProperties, EmptySeq DEF HandedOn
  <2>3. csvOut[Len(csvOut)] \in Line
    BY <2>2, ElementOfSeq DEF HandedOn
  <2>4. colIdx \in Nat
    BY <2>3, LenProperties DEF HandedOn, Last, Line
  <2> QED
    BY <2>4, LenProperties DEF Place, HandedOn
<1>1. CASE RowError = "Ok"
  <2>1. /\ numCols' = RowCols
        /\ csvOut' = (IF HasTrailingComma THEN csvOut ELSE WithField) \o << <<>> >>
        /\ field' = IF HasTrailingComma THEN field ELSE <<>>
        /\ colIdx' = 0 /\ error' = "Ok"
    BY <1>1 DEF EndRow
  <2>2. PICK rows \in Seq(Line) : csvOut' = rows \o << <<>> >>
    BY <2>1, WithFieldTyped DEF HandedOn
  <2>3. <<>> \in Line
    BY DEF Line
  <2>4. csvOut' = Append(rows, <<>>)
    BY <2>2, <2>3, AppendIsConcat
  <2>5. Append(rows, <<>>) \in Seq(Line) /\ Append(rows, <<>>) # <<>>
        /\ Last(Append(rows, <<>>)) = <<>>
    <3>1. \A r \in Line : Append(rows, r) \in Seq(Line) /\ Append(rows, r) # <<>>
                          /\ Last(Append(rows, r)) = r
      BY DEF Last
    <3> QED
      BY <2>3, <3>1
  <2>6. RowCols \in 0 .. MaxLen + 1
    BY <1>0 DEF RowCols
  <2>7. field' \in Field
    BY <2>1 DEF HandedOn, Field
  <2>8. csvOut' \in Seq(Line) /\ csvOut' # <<>> /\ Last(csvOut') = <<>>
    BY <2>4, <2>5
  <2>9. Last(csvOut)' = <<>>
    BY <2>8 DEF Last
  <2>10. error' \in Errors /\ colIdx' = 0 /\ colIdx' <= pos' /\ numCols' \in 0 .. MaxLen + 1
    BY <2>1, <2>6 DEF Errors
  <2>11. Len(<<>>) = 0
    OBVIOUS
  <2> QED
    BY <2>7, <2>8, <2>9, <2>10, <2>11 DEF HandedOn, Errors
<1>2. CASE RowError # "Ok"
  <2>1. UNCHANGED <<numCols, csvOut, field, colIdx>> /\ error' = RowError
    BY <1>2 DEF EndRow
  <2>2. error' \in Errors
    BY <2>1 DEF RowError, Errors
  <2> QED
    BY <1>0, <2>1, <2>2 DEF HandedOn
<1> QED
  BY <1>1, <1>2

LEMMA HandedOnKept ==
  ASSUME Place, HandedOn, Configured, MaxLen \in Nat, [CsvNext]_(csvVars)
  PROVE  HandedOn'
<1>0. pos \in Nat /\ pos' \in Nat
  <2>1. Place'
    BY PlaceKept
  <2>2. Len(csvFile) \in Nat /\ Len(csvFile)' \in Nat
    BY <2>1, LenProperties DEF Place
  <2> QED
    BY <2>1, <2>2 DEF Place
<1>1. CASE NextChunk \/ ChunkDone \/ Finish \/ Done
             \/ Loaded \/ UNCHANGED csvVars
  <2>1. UNCHANGED <<pos, error, field, colIdx, numCols, csvOut>>
    BY <1>1 DEF NextChunk, ChunkDone, Finish, Done, Loaded, csvVars, input
  <2> QED
    BY <2>1 DEF HandedOn
<1>2. CASE FinishQuoted
  <2>1. UNCHANGED <<pos, field, colIdx, numCols, csvOut>> /\ error' = "QuoteNotClosed"
    BY <1>2 DEF FinishQuoted, input
  <2> QED
    BY <2>1 DEF HandedOn, Errors
<1>3. CASE FinishNewline \/ FinishRow
  <2>1. EndRow /\ pos' = pos
    BY <1>3 DEF FinishNewline, FinishRow, ResumeNewline, input
  <2> QED
    BY <1>0, <2>1, EndRowTyped
<1>4. CASE Byte
  <2>1. pos <= pos'
    BY <1>0, <1>4, ByteAdvances DEF Advance
  <2>2. colIdx \in Nat
    <3>1. Len(csvOut) \in DOMAIN csvOut
      BY LenProperties, EmptySeq DEF HandedOn
    <3>2. csvOut[Len(csvOut)] \in Line
      BY <3>1, ElementOfSeq DEF HandedOn
    <3> QED
      BY <3>2, LenProperties DEF HandedOn, Last, Line
  <2>3. CASE Keep
    BY <1>0, <2>1, <2>2, <2>3 DEF Keep, HandedOn
  <2>4. ASSUME NEW b \in Bytes, Push(<<b>>)
        PROVE  HandedOn'
    <3>1. field' = Append(field, b) /\ error' = error /\ UNCHANGED <<csvOut, colIdx, numCols>>
      BY <2>4, Pushed DEF HandedOn
    <3>2. field' \in Field
      BY <3>1 DEF HandedOn, Field
    <3> QED
      BY <1>0, <2>1, <2>2, <3>1, <3>2 DEF HandedOn
  <2>5. CASE EndRow
    BY <1>0, <2>1, <2>5, EndRowTyped
  <2>6. CASE Comma
    <3>1. /\ csvOut' = WithField /\ field' = <<>> /\ colIdx' = colIdx + 1 /\ pos' = pos + 1
          /\ UNCHANGED <<error, numCols>>
      BY <2>6 DEF Comma, Advance
    <3>2. /\ csvOut' \in Seq(Line) /\ csvOut' # <<>>
          /\ Len(Last(csvOut')) = colIdx + 1
      BY <3>1, WithFieldTyped DEF HandedOn
    <3>3. <<>> \in Field
      BY DEF Field
    <3> QED
      BY <1>0, <2>2, <3>1, <3>2, <3>3 DEF HandedOn, Last
  <2>7. csvFile[pos + 1] \in Bytes
    <3>1. pos + 1 \in 1 .. Len(csvFile)
      BY <1>0, <1>4, ByteAdvances, LenProperties DEF Place
    <3> QED
      BY <3>1, ElementOfSeq DEF Place
  <2>8. EscapedByte => Keep \/ \E b \in Bytes : Push(<<b>>)
    BY DEF EscapedByte, At, Bytes, Configured
  <2>9. ResumeEscape => Keep \/ \E b \in Bytes : Push(<<b>>)
    BY <2>7 DEF ResumeEscape, At, Bytes, Configured
  <2>10. PlainByte \/ QuotedByte \/ BareEscape => \E b \in Bytes : Push(<<b>>)
    BY <2>7 DEF PlainByte, QuotedByte, BareEscape, At
  <2>11. NewlineAtEnd \/ Quote \/ EscapeAtEnd => Keep
    BY DEF NewlineAtEnd, Quote, EscapeAtEnd
  <2>12. Newline \/ ResumeNewline => EndRow
    BY DEF Newline, ResumeNewline
  <2> QED
    BY <1>4, <2>3, <2>4, <2>5, <2>6, <2>8, <2>9, <2>10, <2>11, <2>12 DEF Byte
<1> QED
  BY <1>1, <1>2, <1>3, <1>4 DEF CsvNext

-----------------------------------------------------------------------------
(* The invariant                                                           *)

\* The reader, after a step that stays in the file.
LEMMA ReaderThen ==
  ASSUME Configured, csvFile \in Seq(Bytes), Fixed, pos' \in 0 .. Len(csvFile)
  PROVE  \E k \in 0 .. Len(csvFile) : k = pos' /\ After(pos)' = After(k)
BY FileKept

\* In front of a step that reads nothing, where the parser waits.
LEMMA IdleFollows ==
  ASSUME NEW s, FollowsAs(s), pos = end, pos \in Nat, csvStage = "finish" => csvStage' = "finish", Fixed,
         UNCHANGED <<field, colIdx, numCols, quoted, afterSep, afterRec, escaping, newlining, csvOut>>
  PROVE  FollowsAs(s)'
<1>1. \A q : Agrees(q, q.fld) => Agrees(q, q.fld)'
  BY DEF Agrees, SameRows, SameFlags, Bad
<1>2. \A q : RowOf(q)' = RowOf(q)
  BY DEF RowOf, HasTrailingComma, Fixed
<1>3. ~(pos < end)
  OBVIOUS
<1>4. CASE OutsideQuotes(s)
  <2>1. OutsideQuotes(s)'
    BY <1>1, <1>3, <1>4 DEF OutsideQuotes, NextNot
  <2> QED
    BY <2>1 DEF FollowsAs
<1>5. CASE InsideQuotes(s)
  <2>1. InsideQuotes(s)'
    BY <1>1, <1>3, <1>5 DEF InsideQuotes, NextNot
  <2> QED
    BY <2>1 DEF FollowsAs
<1>6. CASE BehindEscape(s)
  <2>1. BehindEscape(s)'
    BY <1>1, <1>6 DEF BehindEscape
  <2> QED
    BY <2>1 DEF FollowsAs
<1>7. CASE BehindReturn(s)
  <2>1. PICK last \in Reader : /\ Agrees(last, last.fld)
                              /\ Is(s, "cr", Append(last.rows, RowOf(last)), <<>>, <<>>, FALSE, TRUE)
    BY <1>7 DEF BehindReturn
  <2>2. Agrees(last, last.fld)' /\ RowOf(last)' = RowOf(last)
    BY <1>1, <1>2, <2>1
  <2>3. BehindReturn(s)'
    BY <1>7, <2>1, <2>2 DEF BehindReturn, Is
  <2> QED
    BY <2>3 DEF FollowsAs
<1> QED
  BY <1>4, <1>5, <1>6, <1>7 DEF FollowsAs

\* Of a step that reads nothing and hands on nothing.
LEMMA IdleKept ==
  ASSUME Configured, Place, Place', Follows, pos = end, csvStage = "finish" => csvStage' = "finish", Fixed,
         UNCHANGED <<pos, field, colIdx, numCols, quoted, afterSep, afterRec, escaping, newlining, csvOut>>
  PROVE  Follows'
<1>1. PICK s \in Reader : s = After(pos) /\ FollowsAs(s)
  BY DEF Follows
<1>2. pos \in Nat /\ csvFile \in Seq(Bytes) /\ pos' \in 0 .. Len(csvFile) /\ Len(csvFile) \in Nat
  BY LenProperties DEF Place
<1>3. s = After(pos)'
  BY <1>1, <1>2, ReaderThen
<1>4. FollowsAs(s)'
  BY <1>1, <1>2, IdleFollows
<1> QED
  BY <1>3, <1>4 DEF Follows

LEMMA LoadsKept ==
  ASSUME Configured, Place, Loads, Fixed, UNCHANGED <<csvOut, quoted, newlining, afterRec>>
  PROVE  Loads'
<1>1. /\ AllRows' = AllRows
      /\ (Unclosed \/ Bad(AllRows))' <=> Unclosed \/ Bad(AllRows)
  BY FileKept DEF Place
<1>2. (~Unclosed /\ ~Bad(AllRows))'
  BY <1>1 DEF Loads
<1> QED
  BY <1>1, <1>2 DEF Loads

\* What finish finds.
LEMMA AtTheEnd ==
  ASSUME Place, csvStage = "finish", Follows
  PROVE  /\ AtEnd \in Reader /\ FollowsAs(AtEnd)
         /\ OutsideQuotes(AtEnd) => AtEnd.mode \in {"plain", "cr"}
         /\ InsideQuotes(AtEnd) => AtEnd.mode = "quoted"
         /\ Len(csvFile) \in 0 .. Len(csvFile) /\ AtEnd = After(Len(csvFile))
<1>1. pos = Len(csvFile) /\ pos = end /\ pos \in Nat
  BY LenProperties DEF Place
<1>2. AtEnd = After(pos) /\ AtEnd = After(Len(csvFile))
  BY <1>1 DEF AtEnd
<1>3. ~(pos < end)
  BY <1>1
<1>4. AtEnd \in Reader /\ FollowsAs(AtEnd)
  BY <1>2 DEF Follows
<1> QED
  BY <1>1, <1>2, <1>3, <1>4 DEF OutsideQuotes, InsideQuotes, NextNot

\* What the parser promises: it follows the reader, or has loaded the rows, or
\* has found why it cannot.
Promise ==
  /\ error = "Ok" => \/ csvStage \in {"ready", "execute", "finish"} /\ Follows
                     \/ csvStage \in {"finish", "done"} /\ Loads
  /\ error # "Ok" => csvStage # "ready" /\ Refused

\* A byte of execute.
LEMMA BytePromise ==
  ASSUME Configured, Place, Place', Fixed, HandedOn, Promise, Byte
  PROVE  Promise'
<1>1. /\ csvStage = "execute" /\ csvStage' = "execute" /\ error = "Ok"
  BY ByteAdvances DEF Advance
<1>2. PICK s \in Reader : s = After(pos) /\ FollowsAs(s)
  BY <1>1 DEF Promise, Follows
<1>3. Parsing(s)
  BY <1>1, <1>2, LenProperties DEF Parsing, Place, HandedOn
<1>4. PICK t \in Reader : /\ t = After(pos)'
                          /\ error' = "Ok" => FollowsAs(t)'
                          /\ error' # "Ok" => Bad(t.rows)
  BY <1>3, StepByte DEF Together
<1>5. CASE error' = "Ok"
  <2>1. Follows'
    BY <1>4, <1>5 DEF Follows
  <2> QED
    BY <1>1, <1>5, <2>1 DEF Promise
<1>6. CASE error' # "Ok"
  <2>1. csvFile \in Seq(Bytes) /\ pos' \in 0 .. Len(csvFile)
    BY DEF Place, Fixed
  <2>2. PICK k \in 0 .. Len(csvFile) : After(pos)' = After(k)
    BY <2>1, ReaderThen
  <2>3. Bad(After(k).rows)
    BY <1>4, <1>6, <2>2
  <2>4. Refused
    BY <2>1, <2>3, BadRefused
  <2>5. Refused'
    BY <2>1, <2>4, FileKept
  <2> QED
    BY <1>1, <1>6, <2>5 DEF Promise
<1> QED
  BY <1>5, <1>6

\* The steps between the chunks.
LEMMA ChunkPromise ==
  ASSUME Configured, Place, Place', Fixed, Promise,
         NextChunk \/ ChunkDone \/ Finish
  PROVE  Promise'
<1>1. /\ error = "Ok" /\ csvStage \in {"ready", "execute"} /\ csvStage' \in {"ready", "execute", "finish"}
      /\ UNCHANGED <<pos, error, field, colIdx, numCols, quoted, afterSep, afterRec,
                     escaping, newlining, csvOut>>
      /\ pos = end
  BY DEF NextChunk, ChunkDone, Finish, input, Promise, Place
<1>2. Follows
  BY <1>1 DEF Promise
<1>3. Follows'
  BY <1>1, <1>2, IdleKept
<1> QED
  BY <1>1, <1>3 DEF Promise

\* A quote is open.
LEMMA FinishQuotedPromise ==
  ASSUME Configured, Place, Fixed, Promise, FinishQuoted
  PROVE  Promise'
<1>1. csvStage = "finish" /\ error = "Ok" /\ quoted /\ error' = "QuoteNotClosed" /\ csvStage' = "finish"
  BY DEF FinishQuoted
<1>2. Follows
  BY <1>1 DEF Promise, Loads
<1>3. /\ FollowsAs(AtEnd)
      /\ InsideQuotes(AtEnd) => AtEnd.mode = "quoted"
  BY <1>1, <1>2, AtTheEnd
<1>4. InsideQuotes(AtEnd) \/ BehindEscape(AtEnd)
  BY <1>1, <1>3 DEF FollowsAs, OutsideQuotes, BehindReturn
<1>5. AtEnd.mode = "quoted" \/ AtEnd.mode = "esc"
  BY <1>3, <1>4 DEF BehindEscape
<1>6. Refused
  BY <1>5 DEF Refused, Unclosed, ReaderEscape
<1>7. Refused'
  BY <1>6, FileKept DEF Place
<1> QED
  BY <1>1, <1>7 DEF Promise

\* The row behind a carriage return that ends the file.
LEMMA FinishNewlinePromise ==
  ASSUME Configured, Place, Place', Fixed, Promise, FinishNewline
  PROVE  Promise'
<1>1. /\ csvStage = "finish" /\ error = "Ok" /\ ~quoted /\ newlining /\ EndRow
      /\ UNCHANGED <<parser, csvFile, pos, end, csvStage>>
      /\ error' = "Ok" => newlining' = FALSE /\ afterRec' = TRUE
      /\ UNCHANGED <<quoted, afterSep, escaping>>
  BY DEF FinishNewline, ResumeNewline
<1>2. Follows
  BY <1>1 DEF Promise, Loads
<1>3. PICK s \in Reader : s = After(pos) /\ FollowsAs(s)
  BY <1>2 DEF Follows
<1>4. BehindReturn(s)
  BY <1>1, <1>3 DEF FollowsAs, OutsideQuotes, InsideQuotes, BehindEscape
<1>5. ~quoted /\ ~escaping /\ Is(s, "cr", s.rows, <<>>, <<>>, FALSE, TRUE)
  BY <1>4 DEF BehindReturn, Is
<1>6. /\ error' = "Ok" /\ afterRec' => SameRows(s)' /\ SameFlags(s)' /\ field' = <<>>
      /\ error' # "Ok" => Bad(s.rows)
  BY <1>1, <1>4, <1>5, RowBehindReturn
<1>7. pos \in 0 .. Len(csvFile) /\ csvFile \in Seq(Bytes) /\ pos' \in 0 .. Len(csvFile) /\ pos' = pos
  BY <1>1 DEF Place
<1>8. CASE error' = "Ok"
  <2>1. OutsideQuotes(s)'
    BY <1>1, <1>5, <1>6, <1>8 DEF OutsideQuotes, Agrees, Is
  <2>2. s = After(pos)'
    BY <1>3, <1>7, ReaderThen
  <2>3. Follows'
    BY <2>1, <2>2 DEF Follows, FollowsAs
  <2> QED
    BY <1>1, <1>8, <2>3 DEF Promise
<1>9. CASE error' # "Ok"
  <2>1. Bad(After(pos).rows)
    BY <1>3, <1>6, <1>9
  <2>2. Refused
    BY <1>7, <2>1, BadRefused
  <2>3. Refused'
    BY <1>7, <2>2, FileKept
  <2> QED
    BY <1>1, <1>9, <2>3 DEF Promise
<1> QED
  BY <1>8, <1>9

\* The row that the file does not end.
LEMMA FinishRowPromise ==
  ASSUME Configured, Place, Fixed, Promise, Marks, FinishRow
  PROVE  Promise'
<1>1. /\ csvStage = "finish" /\ error = "Ok" /\ ~quoted /\ ~newlining /\ ~afterRec /\ EndRow
      /\ error' = "Ok" => afterRec' = TRUE
      /\ UNCHANGED <<csvStage, quoted, newlining>>
  BY DEF FinishRow, Flags
<1>2. Follows
  BY <1>1 DEF Promise, Loads
<1>3. /\ AtEnd \in Reader /\ FollowsAs(AtEnd)
      /\ OutsideQuotes(AtEnd) => AtEnd.mode \in {"plain", "cr"}
      /\ Len(csvFile) \in 0 .. Len(csvFile) /\ AtEnd = After(Len(csvFile))
  BY <1>1, <1>2, AtTheEnd
<1>4. PICK s \in Reader : s = AtEnd
  BY <1>3
<1>5. OutsideQuotes(s) /\ s.mode \in {"plain", "cr"}
  BY <1>1, <1>3, <1>4 DEF FollowsAs, InsideQuotes, BehindEscape, BehindReturn
<1>6. Agrees(s, s.fld) /\ s.begun
  BY <1>1, <1>5 DEF OutsideQuotes, Agrees, SameFlags
<1>7. PICK t : t = CloseRow(s)
  OBVIOUS
<1>8. Is(t, s.mode, Append(s.rows, RowOf(s)), <<>>, <<>>, FALSE, TRUE)
  BY <1>7, CloseRowIs
<1>9. AllRows = t.rows /\ ~Unclosed /\ csvFile \in Seq(Bytes)
  BY <1>4, <1>5, <1>6, <1>7 DEF AllRows, Unclosed, Place
<1>10. /\ error' = "Ok" /\ afterRec' => SameRows(t)' /\ SameFlags(t)' /\ field' = <<>>
       /\ error' # "Ok" => Bad(t.rows)
  BY <1>1, <1>6, <1>8, RowEnds
<1>11. /\ AllRows' = AllRows
       /\ (Unclosed \/ Bad(AllRows))' <=> Unclosed \/ Bad(AllRows)
       /\ Refused' <=> Refused
  BY <1>9, FileKept
<1>12. CASE error' = "Ok"
  <2>1. SameRows(t)' /\ t.row = <<>>
    BY <1>1, <1>8, <1>10, <1>12 DEF Is
  <2>2. csvOut' = Append([r \in DOMAIN t.rows |-> t.rows[r].cells], <<>>) /\ ~Bad(t.rows)
    BY <2>1 DEF SameRows, Bad
  <2>3. (~Unclosed /\ ~Bad(AllRows))'
    BY <1>9, <1>11, <2>2
  <2>4. Loads'
    BY <1>1, <1>9, <1>11, <1>12, <2>2, <2>3 DEF Loads
  <2> QED
    BY <1>1, <1>12, <2>4 DEF Promise
<1>13. CASE error' # "Ok"
  <2>1. Refused
    BY <1>9, <1>10, <1>13 DEF Refused
  <2> QED
    BY <1>1, <1>11, <1>13, <2>1 DEF Promise
<1> QED
  BY <1>12, <1>13

\* The end of the load.
LEMMA DonePromise ==
  ASSUME Configured, Place, Fixed, Promise, Marks, Done
  PROVE  Promise'
<1>1. /\ error = "Ok" => csvStage = "finish" /\ ~quoted /\ ~newlining /\ afterRec
      /\ csvStage' = "done"
      /\ UNCHANGED <<error, quoted, newlining, afterRec, csvOut>>
  BY DEF Done
<1>2. csvFile \in Seq(Bytes)
  BY DEF Place
<1>3. CASE error # "Ok"
  <2>1. Refused'
    BY <1>2, <1>3, FileKept DEF Promise
  <2> QED
    BY <1>1, <1>3, <2>1 DEF Promise
<1>4. CASE error = "Ok"
  <2>1. ASSUME Follows
        PROVE  Loads
    <3>1. /\ AtEnd \in Reader /\ FollowsAs(AtEnd)
          /\ OutsideQuotes(AtEnd) => AtEnd.mode \in {"plain", "cr"}
      BY <1>1, <1>4, <2>1, AtTheEnd
    <3>2. PICK s \in Reader : s = AtEnd
      BY <3>1
    <3>3. OutsideQuotes(s) /\ s.mode \in {"plain", "cr"}
      BY <1>1, <1>4, <3>1, <3>2 DEF FollowsAs, InsideQuotes, BehindEscape, BehindReturn
    <3>4. SameRows(s) /\ SameFlags(s)
      BY <3>3 DEF OutsideQuotes, Agrees
    <3>5. ~s.begun /\ s.row = <<>>
      BY <1>1, <1>4, <3>4 DEF SameFlags
    <3>6. AllRows = s.rows /\ ~Unclosed
      BY <3>2, <3>3, <3>5 DEF AllRows, Unclosed
    <3> QED
      BY <1>1, <1>4, <3>4, <3>5, <3>6 DEF Loads, SameRows
  <2>2. Loads
    BY <1>4, <2>1 DEF Promise
  <2>3. Loads'
    BY <1>1, <2>2, LoadsKept
  <2> QED
    BY <1>1, <1>4, <2>3 DEF Promise
<1> QED
  BY <1>3, <1>4

\* A step that changes nothing.
LEMMA StutterPromise ==
  ASSUME Configured, Place, Fixed, Promise, UNCHANGED csvVars
  PROVE  Promise'
<1>1. UNCHANGED <<parser, csvFile, pos, end, csvStage, error, field, colIdx, numCols,
                  quoted, afterSep, afterRec, escaping, newlining, csvOut>>
  BY DEF csvVars
<1>2. csvFile \in Seq(Bytes) /\ pos' \in 0 .. Len(csvFile)
  BY <1>1 DEF Place
<1>3. Refused' <=> Refused
  BY <1>2, FileKept
<1>4. Loads => Loads'
  BY <1>1, LoadsKept
<1>5. ASSUME Follows
      PROVE  Follows'
  <2>1. PICK s \in Reader : s = After(pos) /\ FollowsAs(s)
    BY <1>5 DEF Follows
  <2>2. s = After(pos)'
    BY <1>1, <1>2, <2>1, ReaderThen
  <2>3. Escape' = Escape /\ HasTrailingComma' = HasTrailingComma
    BY <1>1 DEF Escape, HasTrailingComma
  <2>4. \A q : Agrees(q, q.fld) => Agrees(q, q.fld)'
    BY <1>1 DEF Agrees, SameRows, SameFlags, Bad
  <2>5. \A q : RowOf(q)' = RowOf(q)
    BY <2>3 DEF RowOf
  <2>6. Agrees(s, Append(s.fld, "backslash")) => Agrees(s, Append(s.fld, "backslash"))'
    BY <1>1 DEF Agrees, SameRows, SameFlags, Bad
  <2>7. OutsideQuotes(s) => OutsideQuotes(s)'
    BY <1>1, <2>3, <2>4 DEF OutsideQuotes, NextNot
  <2>8. InsideQuotes(s) => InsideQuotes(s)'
    BY <1>1, <2>3, <2>4, <2>6 DEF InsideQuotes, NextNot
  <2>9. BehindEscape(s) => BehindEscape(s)'
    BY <1>1, <2>4 DEF BehindEscape
  <2>10. ASSUME BehindReturn(s)
         PROVE  BehindReturn(s)'
    <3>1. PICK last \in Reader : /\ Agrees(last, last.fld)
                                /\ Is(s, "cr", Append(last.rows, RowOf(last)), <<>>, <<>>, FALSE, TRUE)
      BY <2>10 DEF BehindReturn
    <3>2. Agrees(last, last.fld)' /\ RowOf(last)' = RowOf(last)
      BY <2>4, <2>5, <3>1
    <3> QED
      BY <1>1, <2>10, <3>1, <3>2 DEF BehindReturn, Is
  <2>11. FollowsAs(s)'
    BY <2>1, <2>7, <2>8, <2>9, <2>10 DEF FollowsAs
  <2> QED
    BY <2>2, <2>11 DEF Follows
<1> QED
  BY <1>1, <1>3, <1>4, <1>5 DEF Promise

LEMMA PromiseStart ==
  ASSUME Configured, CsvInit, Place
  PROVE  Promise
<1>1. Is(Start, "plain", <<>>, <<>>, <<>>, TRUE, TRUE)
  BY StartIs
<1>2. PICK s \in Reader : s = Start
  BY <1>1 DEF Is
<1>3. /\ pos = 0 /\ csvStage = "ready" /\ error = "Ok" /\ field = <<>> /\ colIdx = 0 /\ numCols = 0
      /\ quoted = FALSE /\ afterSep = FALSE /\ afterRec = FALSE
      /\ escaping = FALSE /\ newlining = FALSE /\ csvOut = << <<>> >>
  BY DEF CsvInit
<1>4. s = After(pos)
  BY <1>2, <1>3, AfterSteps DEF Place
<1>5. Is(s, "plain", <<>>, <<>>, <<>>, TRUE, TRUE)
  BY <1>1, <1>2
<1>6. SameRows(s)
  <2>1. s.rows = <<>> /\ s.row = <<>>
    BY <1>5 DEF Is
  <2>2. CellsOf(<<>>) = <<>>
    BY DEF CellsOf
  <2>3. csvOut = Append(CellsOf(s.rows), s.row)
    BY <1>3, <2>1, <2>2
  <2>4. ~Bad(<<>>)
    BY DEF Bad
  <2> QED
    BY <1>3, <2>1, <2>3, <2>4 DEF SameRows, CellsOf
<1>7. SameFlags(s)
  BY <1>3, <1>5 DEF SameFlags, Is
<1>8. OutsideQuotes(s)
  BY <1>3, <1>5, <1>6, <1>7 DEF OutsideQuotes, Agrees, Is
<1> QED
  BY <1>2, <1>3, <1>4, <1>8 DEF Promise, Follows, FollowsAs

LEMMA TypedStart ==
  ASSUME CsvInit, MaxLen \in Nat
  PROVE  Place /\ Marks /\ HandedOn
<1>1. csvFile \in Seq(Bytes) /\ Len(csvFile) <= MaxLen /\ Len(csvFile) \in Nat
  <2>1. PICK n \in 0 .. MaxLen : csvFile \in [1 .. n -> Bytes]
    BY DEF CsvInit
  <2>2. csvFile \in Seq(Bytes) /\ Len(csvFile) = n
    BY <2>1
  <2> QED
    BY <2>2
<1>2. Place
  BY <1>1 DEF Place, CsvInit
<1>3. Marks
  BY DEF Marks, CsvInit
<1>4. csvOut \in Seq(Line) /\ csvOut # <<>> /\ Last(csvOut) = <<>> /\ field \in Field
  BY DEF CsvInit, Last, Line, Field
<1>5. Len(<<>>) = 0
  OBVIOUS
<1>6. HandedOn
  BY <1>4, <1>5 DEF HandedOn, CsvInit, Errors
<1> QED
  BY <1>2, <1>3, <1>6

\* The parser's invariant, for any files and chunks.
ParserIInv == Place /\ Marks /\ HandedOn /\ Promise

LEMMA ParserInductive ==
  ASSUME ParsersAssumption, LengthAssumption
  PROVE  CsvSpec => []ParserIInv
<1>1. MaxLen \in Nat
  BY DEF LengthAssumption
<1>2. CsvInit => ParserIInv
  <2> SUFFICES ASSUME CsvInit PROVE ParserIInv
    OBVIOUS
  <2>1. Place /\ Marks /\ HandedOn
    BY <1>1, TypedStart
  <2>2. Configured
    BY <2>1, ConfiguredParser DEF Place
  <2> QED
    BY <2>1, <2>2, PromiseStart DEF ParserIInv
<1>3. ParserIInv /\ [CsvNext]_(csvVars) => ParserIInv'
  <2> SUFFICES ASSUME ParserIInv, [CsvNext]_(csvVars)
               PROVE  ParserIInv'
    OBVIOUS
  <2>1. Place /\ Marks /\ HandedOn /\ Promise
    BY DEF ParserIInv
  <2>2. Configured
    BY <2>1, ConfiguredParser DEF Place
  <2>3. Place' /\ Fixed
    BY <2>1, PlaceKept
  <2>4. Marks'
    BY <2>1, MarksKept
  <2>5. HandedOn'
    BY <1>1, <2>1, <2>2, HandedOnKept
  <2>6. Promise'
    <3>1. CASE Byte
      BY <2>1, <2>2, <2>3, <3>1, BytePromise
    <3>2. CASE NextChunk \/ ChunkDone \/ Finish
      BY <2>1, <2>2, <2>3, <3>2, ChunkPromise
    <3>3. CASE FinishQuoted
      BY <2>1, <2>2, <2>3, <3>3, FinishQuotedPromise
    <3>4. CASE FinishNewline
      BY <2>1, <2>2, <2>3, <3>4, FinishNewlinePromise
    <3>5. CASE FinishRow
      BY <2>1, <2>2, <2>3, <3>5, FinishRowPromise
    <3>6. CASE Done
      BY <2>1, <2>2, <2>3, <3>6, DonePromise
    <3>7. CASE Loaded \/ UNCHANGED csvVars
      <4>1. UNCHANGED csvVars
        BY <3>7 DEF Loaded
      <4> QED
        BY <2>1, <2>2, <2>3, <4>1, StutterPromise
    <3> QED
      BY <3>1, <3>2, <3>3, <3>4, <3>5, <3>6, <3>7 DEF CsvNext
  <2> QED
    BY <2>3, <2>4, <2>5, <2>6 DEF ParserIInv
<1> QED
  BY <1>2, <1>3, PTL DEF CsvSpec

\* Every load keeps to the types, for any configurations and any bound on the
\* file: csv_parser.cpp indexes no column that was not counted, escaping_ is
\* set inside quotes only, and never with newlining_.
THEOREM CsvTypeCorrect ==
  ASSUME ParsersAssumption, LengthAssumption
  PROVE  CsvSpec => []CsvTypeOK
<1>1. ParserIInv => CsvTypeOK
  BY TypedParts DEF ParserIInv
<1> QED
  BY <1>1, ParserInductive, PTL

\* Wherever fread cuts a file of any length, execute and finish load the rows
\* that it says byte by byte, and refuse it exactly if it is not well formed; a
\* file that ends with the quote that closes its last field is the exception.
THEOREM CsvChunksInvisible ==
  ASSUME ParsersAssumption, LengthAssumption
  PROVE  CsvSpec => []ChunksInvisible
<1>1. ASSUME ParserIInv
      PROVE  ChunksInvisible
  <2>1. Configured /\ csvFile \in Seq(Bytes) /\ Promise
    BY <1>1, ConfiguredParser DEF ParserIInv, Place
  <2>2. /\ WellFormed <=> ~Unclosed /\ ~Bad(AllRows)
        /\ Cells = [r \in DOMAIN AllRows |-> AllRows[r].cells]
        /\ EndsWithEscapeQuote <=> ReaderEscape
    BY <2>1, WholeFile
  <2>3. CASE csvStage = "done" /\ error = "Ok"
    <3>1. Loads
      BY <2>1, <2>3 DEF Promise
    <3>2. WellFormed /\ csvOut = Append(Cells, <<>>)
      BY <2>2, <3>1 DEF Loads
    <3> QED
      BY <2>3, <3>2 DEF ChunksInvisible
  <2>4. CASE csvStage = "done" /\ error # "Ok" /\ ~EndsWithEscapeQuote
    <3>1. ~WellFormed
      BY <2>1, <2>2, <2>4 DEF Promise, Refused
    <3>2. WellFormed \in BOOLEAN
      BY DEF WellFormed
    <3> QED
      BY <2>4, <3>1, <3>2 DEF ChunksInvisible
  <2> QED
    BY <2>3, <2>4 DEF ChunksInvisible
<1>2. ParserIInv => ChunksInvisible
  BY <1>1
<1> QED
  BY <1>2, ParserInductive, PTL
=============================================================================
