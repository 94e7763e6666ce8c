----------------------------- MODULE CsvParser -----------------------------
(***************************************************************************)
(* The CSV parser of the load path (csv_parser.cpp): execute is called on  *)
(* one chunk of the file after the other, as fread returns them, then      *)
(* finish.  A chunk may end between the two bytes of an escape or of a     *)
(* line end, or inside a quoted field; the parser's flags carry what the   *)
(* next chunk must know.                                                   *)
(*                                                                         *)
(* A byte is one of six: the others are like "x".  The constructor's       *)
(* escape_ is "quote" or "backslash", its comma_ is "comma".               *)
(***************************************************************************)
EXTENDS Naturals, Sequences, SequencesExt

CONSTANTS
  Parsers,  \* the configurations a CSVParser is constructed with
  MaxLen    \* bound: bytes in the file

Bytes == {"x", "comma", "nl", "cr", "quote", "backslash"}

ASSUME ParsersAssumption ==
  Parsers \subseteq [escape : {"quote", "backslash"}, hasTrailingComma : BOOLEAN]
ASSUME LengthAssumption == MaxLen \in Nat

VARIABLES
  parser,    \* escape_ and has_trailing_comma_
  csvFile,   \* what fread delivers
  pos,       \* bytes read so far, over all chunks
  end,       \* where the chunk in execute ends; pos, if none is
  csvStage,  \* "ready" for a chunk, in "execute", in "finish", or "done"
  error,     \* what execute or finish returned
  field,     \* current_field_
  colIdx,    \* col_idx_
  numCols,   \* num_cols_, 0 while not after_first_row_
  quoted,    \* quoted_
  afterSep,  \* after_field_sep_
  afterRec,  \* after_record_sep_
  escaping,  \* escaping_
  newlining, \* newlining_
  csvOut     \* what on_field was given: the rows, the last of them open

input == <<parser, csvFile, pos, end>>
csvVars == <<parser, csvFile, pos, end, csvStage, error, field, colIdx, numCols,
          quoted, afterSep, afterRec, escaping, newlining, csvOut>>

Escape == parser.escape
HasTrailingComma == parser.hasTrailingComma

Errors == {"Ok", "QuoteNotClosed", "InconsistentColumns", "NoTrailingComma"}

CsvTypeOK ==
  /\ parser \in Parsers
  /\ csvFile \in Seq(Bytes) /\ Len(csvFile) <= MaxLen
  /\ pos \in 0 .. Len(csvFile) /\ end \in pos .. Len(csvFile)
  /\ csvStage \in {"ready", "execute", "finish", "done"}
  /\ error \in Errors
  /\ field \in Seq(Bytes)
  /\ colIdx = Len(Last(csvOut))
  /\ numCols \in 0 .. MaxLen + 1
  /\ {quoted, afterSep, afterRec, escaping, newlining} \subseteq BOOLEAN
  /\ escaping => quoted /\ ~newlining
  /\ csvOut \in Seq(Seq(Seq(Bytes))) /\ csvOut # <<>>

CsvInit ==
  /\ parser \in Parsers
  /\ csvFile \in UNION {[1 .. n -> Bytes] : n \in 0 .. MaxLen}
  /\ pos = 0 /\ end = 0
  /\ csvStage = "ready"
  /\ error = "Ok"
  /\ field = <<>>
  /\ colIdx = 0
  /\ numCols = 0
  /\ quoted = FALSE
  /\ afterSep = FALSE /\ afterRec = FALSE
  /\ escaping = FALSE /\ newlining = FALSE
  /\ csvOut = << <<>> >>

-----------------------------------------------------------------------------
(* The two things a byte can end *)

\* on_field for current_field_, which is cleared.
WithField == [csvOut EXCEPT ![Len(csvOut)] = Append(@, field)]

\* The columns of the row a line end closes.
RowCols == IF HasTrailingComma THEN colIdx ELSE colIdx + 1

RowError ==
  IF HasTrailingComma /\ ~afterSep THEN "NoTrailingComma"
  ELSE IF numCols # 0 /\ RowCols # numCols THEN "InconsistentColumns"
  ELSE "Ok"

\* A line end outside quotes: the row is checked, its last field handed on
\* unless a trailing comma already did, and the next row begins.
EndRow ==
  /\ error' = RowError
  /\ IF RowError = "Ok"
     THEN /\ numCols' = RowCols
          /\ csvOut' = (IF HasTrailingComma THEN csvOut ELSE WithField) \o << <<>> >>
          /\ field' = IF HasTrailingComma THEN field ELSE <<>>
          /\ colIdx' = 0
     ELSE UNCHANGED <<numCols, csvOut, field, colIdx>>

Push(bytes) ==
  /\ field' = field \o bytes
  /\ UNCHANGED <<error, numCols, csvOut, colIdx>>

Keep == UNCHANGED <<error, numCols, csvOut, field, colIdx>>

-----------------------------------------------------------------------------
(* execute *)

\* The program reads the next chunk, of any length.
NextChunk ==
  /\ csvStage = "ready"
  /\ end' \in pos + 1 .. Len(csvFile)
  /\ csvStage' = "execute"
  /\ UNCHANGED <<parser, csvFile, pos, error, field, colIdx, numCols, quoted, afterSep,
                 afterRec, escaping, newlining, csvOut>>

InLoop == csvStage = "execute" /\ pos < end /\ ~newlining /\ ~escaping
At(k) == csvFile[pos + k]
LastOfChunk == pos + 1 = end
Advance(n) == pos' = pos + n /\ UNCHANGED <<parser, csvFile, end, csvStage>>
Flags(sep, rec) == afterSep' = sep /\ afterRec' = rec

\* The first block: the chunk before ended behind an escape.
ResumeEscape ==
  /\ csvStage = "execute" /\ pos < end
  /\ escaping
  /\ escaping' = FALSE
  /\ IF Escape = "quote"
     THEN IF At(1) = "quote"
          THEN Advance(1) /\ Push(<<"quote">>) /\ UNCHANGED quoted
          ELSE Advance(0) /\ Keep /\ quoted' = FALSE
     ELSE /\ IF At(1) \in {"quote", Escape}
             THEN Advance(1) /\ Push(<<At(1)>>)
             ELSE Advance(0) /\ Push(<<Escape>>)
          /\ UNCHANGED quoted
  /\ UNCHANGED <<afterSep, afterRec, newlining>>

\* Variant: a line feed that opens the chunk is left for the loop.
ResumeNewlineKeepsLF ==
  /\ newlining
  /\ \/ csvStage = "execute" /\ pos < end /\ Advance(0)
     \/ csvStage = "finish" /\ UNCHANGED <<parser, csvFile, pos, end, csvStage>>
  /\ EndRow
  /\ newlining' = FALSE
  /\ afterRec' = TRUE
  /\ UNCHANGED <<quoted, afterSep, escaping>>

\* The second: it ended behind a carriage return.  finish calls execute for
\* it on an empty chunk.  after_field_sep_ stays as it was.
ResumeNewline ==
  /\ newlining
  /\ \/ csvStage = "execute" /\ pos < end /\ Advance(IF At(1) = "nl" THEN 1 ELSE 0)
     \/ csvStage = "finish" /\ UNCHANGED <<parser, csvFile, pos, end, csvStage>>
  /\ EndRow
  /\ IF error' = "Ok"
     THEN newlining' = FALSE /\ afterRec' = TRUE
     ELSE UNCHANGED <<newlining, afterRec>>
  /\ UNCHANGED <<quoted, afterSep, escaping>>

PlainByte ==
  /\ InLoop
  /\ At(1) \notin {"comma", "nl", "cr", "quote", Escape}
  /\ Advance(1)
  /\ Push(<<At(1)>>)
  /\ Flags(FALSE, FALSE)
  /\ UNCHANGED <<quoted, escaping, newlining>>

\* Quotes make commas and line ends plain.
QuotedByte ==
  /\ InLoop
  /\ quoted
  /\ At(1) \in {"comma", "nl", "cr"}
  /\ Advance(1)
  /\ Push(<<At(1)>>)
  /\ Flags(FALSE, FALSE)
  /\ UNCHANGED <<quoted, escaping, newlining>>

\* Variant: the column is not counted.
CommaUncounted ==
  /\ InLoop
  /\ ~quoted
  /\ At(1) = "comma"
  /\ Advance(1)
  /\ csvOut' = WithField
  /\ field' = <<>>
  /\ Flags(TRUE, FALSE)
  /\ UNCHANGED <<error, numCols, colIdx, quoted, escaping, newlining>>

Comma ==
  /\ InLoop
  /\ ~quoted
  /\ At(1) = "comma"
  /\ Advance(1)
  /\ csvOut' = WithField
  /\ field' = <<>>
  /\ colIdx' = colIdx + 1
  /\ Flags(TRUE, FALSE)
  /\ UNCHANGED <<error, numCols, quoted, escaping, newlining>>

\* A carriage return at the end of the chunk: execute returns, and leaves
\* the row to the next call.
NewlineAtEnd ==
  /\ InLoop
  /\ ~quoted
  /\ At(1) = "cr" /\ LastOfChunk
  /\ newlining' = TRUE
  /\ Advance(1)
  /\ Keep
  /\ UNCHANGED <<quoted, afterSep, afterRec, escaping>>

Newline ==
  /\ InLoop
  /\ ~quoted
  /\ \/ At(1) = "nl" /\ Advance(1)
     \/ At(1) = "cr" /\ ~LastOfChunk /\ Advance(IF At(2) = "nl" THEN 2 ELSE 1)
  /\ EndRow
  /\ IF error' = "Ok" THEN Flags(FALSE, TRUE) ELSE UNCHANGED <<afterSep, afterRec>>
  /\ UNCHANGED <<quoted, escaping, newlining>>

\* A quote, where it is not the escape as well or opens the quotes.
Quote ==
  /\ InLoop
  /\ At(1) = "quote"
  /\ Escape # "quote" \/ ~quoted
  /\ quoted' = ~quoted
  /\ Advance(1)
  /\ Keep
  /\ Flags(FALSE, FALSE)
  /\ UNCHANGED <<escaping, newlining>>

\* The escape as the last byte of the chunk: execute returns at once.
EscapeAtEnd ==
  /\ InLoop
  /\ quoted
  /\ At(1) = Escape /\ LastOfChunk
  /\ escaping' = TRUE
  /\ Advance(1)
  /\ Keep
  /\ UNCHANGED <<quoted, afterSep, afterRec, newlining>>

\* The escape before another byte: a doubled quote or the end of the quotes;
\* or a backslash, which stands for itself unless a quote or another follows.
EscapedByte ==
  /\ InLoop
  /\ quoted
  /\ At(1) = Escape /\ ~LastOfChunk
  /\ IF At(2) \in {"quote", Escape}
     THEN Advance(2) /\ Push(<<At(2)>>) /\ UNCHANGED quoted
     ELSE IF Escape = "quote"
          THEN Advance(1) /\ Keep /\ quoted' = FALSE
          ELSE Advance(1) /\ Push(<<Escape>>) /\ UNCHANGED quoted
  /\ Flags(FALSE, FALSE)
  /\ UNCHANGED <<escaping, newlining>>

\* A backslash outside quotes is a plain byte.
BareEscape ==
  /\ InLoop
  /\ ~quoted
  /\ At(1) = Escape /\ Escape # "quote"
  /\ Advance(1)
  /\ Push(<<Escape>>)
  /\ Flags(FALSE, FALSE)
  /\ UNCHANGED <<quoted, escaping, newlining>>

\* One byte, or two, of the chunk; an error ends the load.
Byte ==
  /\ error = "Ok"
  /\ \/ ResumeEscape
     \/ csvStage = "execute" /\ ResumeNewline
     \/ PlainByte \/ QuotedByte \/ Comma
     \/ Newline \/ NewlineAtEnd
     \/ Quote \/ EscapedByte \/ EscapeAtEnd \/ BareEscape

\* execute returns Ok at the end of the chunk.
ChunkDone ==
  /\ csvStage = "execute"
  /\ error = "Ok"
  /\ pos = end
  /\ csvStage' = "ready"
  /\ UNCHANGED <<input, error, field, colIdx, numCols, quoted, afterSep,
                 afterRec, escaping, newlining, csvOut>>

-----------------------------------------------------------------------------
(* finish *)

\* fread has nothing more.
Finish ==
  /\ csvStage = "ready"
  /\ pos = Len(csvFile)
  /\ csvStage' = "finish"
  /\ UNCHANGED <<input, error, field, colIdx, numCols, quoted, afterSep,
                 afterRec, escaping, newlining, csvOut>>

\* A quote is open.
FinishQuoted ==
  /\ csvStage = "finish" /\ error = "Ok"
  /\ quoted
  /\ error' = "QuoteNotClosed"
  /\ UNCHANGED <<input, csvStage, field, colIdx, numCols, quoted, afterSep,
                 afterRec, escaping, newlining, csvOut>>

\* execute("", 0)
FinishNewline ==
  /\ csvStage = "finish" /\ error = "Ok"
  /\ ~quoted
  /\ ResumeNewline

\* execute("\n", 1): the file does not end with a line end.
FinishRow ==
  /\ csvStage = "finish" /\ error = "Ok"
  /\ ~quoted /\ ~newlining /\ ~afterRec
  /\ EndRow
  /\ IF error' = "Ok" THEN Flags(FALSE, TRUE) ELSE UNCHANGED <<afterSep, afterRec>>
  /\ UNCHANGED <<input, csvStage, quoted, escaping, newlining>>

\* The load ends, with the rows or with an error.
Done ==
  /\ \/ error # "Ok"
     \/ csvStage = "finish" /\ ~quoted /\ ~newlining /\ afterRec
  /\ csvStage \in {"execute", "finish"}
  /\ csvStage' = "done"
  /\ UNCHANGED <<input, error, field, colIdx, numCols, quoted, afterSep,
                 afterRec, escaping, newlining, csvOut>>

Loaded ==
  /\ csvStage = "done"
  /\ UNCHANGED csvVars

CsvNext ==
  \/ NextChunk \/ Byte \/ ChunkDone
  \/ Finish \/ FinishQuoted \/ FinishNewline \/ FinishRow
  \/ Done \/ Loaded

CsvSpec == CsvInit /\ [][CsvNext]_csvVars

-----------------------------------------------------------------------------
(* The format, byte by byte: what a file says whatever its chunks          *)

\* mode: outside quotes ("plain"), just behind a carriage return ("cr"),
\* inside quotes ("quoted"), and behind an escape there ("esc").
Start == [mode |-> "plain", rows |-> <<>>, row |-> <<>>, fld |-> <<>>,
          begun |-> TRUE, bare |-> TRUE]

Add(s, bytes) == [s EXCEPT !.fld = @ \o bytes, !.begun = TRUE, !.bare = FALSE]
CloseField(s) == [s EXCEPT !.row = Append(@, s.fld), !.fld = <<>>]

\* A row under a trailing comma ends with a field that is not even empty.
CloseRow(s) ==
  [CloseField(s) EXCEPT
     !.rows = Append(@, IF HasTrailingComma
                        THEN [cells |-> s.row, ok |-> s.bare /\ s.row # <<>>]
                        ELSE [cells |-> Append(s.row, s.fld), ok |-> TRUE]),
     !.row = <<>>, !.begun = FALSE, !.bare = TRUE]

Outside(s, b) ==
  CASE b = "comma" -> [CloseField(s) EXCEPT !.begun = TRUE, !.bare = TRUE]
    [] b = "nl"    -> CloseRow(s)
    [] b = "cr"    -> [CloseRow(s) EXCEPT !.mode = "cr"]
    [] b = "quote" -> [Add(s, <<>>) EXCEPT !.mode = "quoted"]
    [] OTHER       -> Add(s, <<b>>)

Inside(s, b) ==
  CASE b = Escape                -> [s EXCEPT !.mode = "esc"]
    [] b = "quote" /\ b # Escape -> [s EXCEPT !.mode = "plain"]
    [] OTHER                     -> Add(s, <<b>>)

AfterEscape(s, b) ==
  CASE b \in {"quote", Escape}          -> [Add(s, <<b>>) EXCEPT !.mode = "quoted"]
    [] b # "quote" /\ Escape = "quote" -> Outside([s EXCEPT !.mode = "plain"], b)
    [] OTHER                           -> [Add(s, <<Escape, b>>) EXCEPT !.mode = "quoted"]

Read(s, b) ==
  CASE s.mode = "plain"  -> Outside(s, b)
    [] s.mode = "cr"     -> IF b = "nl" THEN [s EXCEPT !.mode = "plain"]
                            ELSE Outside([s EXCEPT !.mode = "plain"], b)
    [] s.mode = "quoted" -> Inside(s, b)
    [] s.mode = "esc"    -> AfterEscape(s, b)

\* A last row without its line end counts, in an empty file too.
Content ==
  LET s == FoldLeft(Read, Start, csvFile)
      open == s.mode = "quoted" \/ (s.mode = "esc" /\ Escape # "quote")
  IN  [open |-> open, rows |-> IF s.begun THEN CloseRow(s).rows ELSE s.rows]

Cells == [r \in DOMAIN Content.rows |-> Content.rows[r].cells]

WellFormed ==
  /\ ~Content.open
  /\ \A r \in DOMAIN Content.rows : Content.rows[r].ok
  /\ \A r \in DOMAIN Cells : Len(Cells[r]) = Len(Cells[1])

\* A file that ends with the closing quote of its last field: the parser
\* keeps it in escaping_, and finish takes the field for open.
EndsWithEscapeQuote ==
  Escape = "quote" /\ FoldLeft(Read, Start, csvFile).mode = "esc"

-----------------------------------------------------------------------------
(* Properties *)

\* from_csv reads the file in pieces of a megabyte (build_table.cpp:301),
\* wherever they fall: the rows it loads, and whether it accepts the file,
\* are those of the file read byte by byte.
ChunksInvisible ==
  csvStage = "done" /\ ~EndsWithEscapeQuote =>
    /\ (error = "Ok") = WellFormed
    /\ error = "Ok" => csvOut = Append(Cells, <<>>)
=============================================================================
