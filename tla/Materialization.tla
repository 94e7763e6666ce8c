--------------------------- MODULE Materialization ---------------------------
(***************************************************************************)
(* One column of a query's result, from the table it comes from to the     *)
(* table it ends in: the column is encoded on pages (NumericPages or       *)
(* StringPages), the scan turns its rows into value_t's, the joins hand    *)
(* some of them on in some order, and the workers of the pool each encode  *)
(* a share of them anew, on pages of their own, which the caller puts      *)
(* together (materialize_columnar_table_parallel, execute.cpp).            *)
(*                                                                         *)
(* The column is of one type: the state of NumericPages or that of         *)
(* StringPages stays as it is at the start.                                *)
(***************************************************************************)
EXTENDS NumericPages

CONSTANTS
  StrPageSize,    \* PAGE_SIZE, for columns of strings
  PageIds,        \* how many page numbers a handle can hold: 2^16
  Sizes,          \* the sizes of the strings
  MaxStrRows,     \* bound: rows of a column of strings
  NumThreads,     \* threads of the pool
  MaxDispatches,  \* bound: columns of the result with rows
  Picks(_)        \* the sequences of rows, of so many, that the joins may hand on

VARIABLES
  strInserter, strInput, strFinalized,  \* of StringPages
  calls, todo, running, caller,         \* the pool: see ForkJoin
  type,         \* column.type
  phase,        \* where the query is
  picked,       \* the rows that come out of the joins
  column,       \* the result column: a value_t for each of them
  threadPages,  \* thread_pages
  result        \* column.pages of the result table

numericVars == vars
stringVars == <<strInserter, strInput, strFinalized>>
poolVars == <<calls, todo, running, caller>>
resultVars == <<picked, column, threadPages, result>>
allVars == <<numericVars, stringVars, poolVars, type, phase, resultVars>>

Strings == INSTANCE StringPages WITH
  PageSize <- StrPageSize, MaxRows <- MaxStrRows, WithNulls <- TRUE,
  inserter <- strInserter, input <- strInput, finalized <- strFinalized

Pool == INSTANCE ForkJoin

ASSUME StringAssumption == Strings!Bounds
ASSUME PoolAssumption == NumThreads \in Nat \ {0} /\ MaxDispatches \in Nat
ASSUME PicksAssumption ==
  \A n \in (0 .. MaxRows) \union (0 .. MaxStrRows) :
    \A rows \in Picks(n) : rows \in Seq(1 .. n)

Threads == 0 .. NumThreads - 1

isString == type = "VARCHAR"
basePages == IF isString THEN strInserter.pages ELSE inserter.pages
baseRows == IF isString THEN strInput ELSE input

-----------------------------------------------------------------------------
(* value_t *)

\* The union's upper half is, of an integer, the status and, of a string, the
\* page number and the offset: the status in its lower and upper 16 bits.
IntValue(v) == [val |-> v, page |-> 1, offset |-> 0]
IntNull == [val |-> Null, page |-> 0, offset |-> 0]

\* offset == 0xFFFF || !status
IsNull(val) == val.offset = Strings!NullOffset \/ (val.page = 0 /\ val.offset = 0)

\* What a scan makes of the column.
Scanned ==
  IF isString
  THEN Strings!Handles(basePages)
  ELSE [i \in DOMAIN input |->
          LET v == GetValue(basePages, i - 1)
          IN  IF v = Null THEN IntNull ELSE IntValue(v)]

-----------------------------------------------------------------------------
MaterializationInit ==
  /\ Init
  /\ Strings!Init
  /\ Pool!Init
  /\ type \in {"INT32", "VARCHAR"}
  /\ phase = "load"
  /\ picked = <<>>
  /\ column = <<>>
  /\ threadPages = [t \in Threads |-> <<>>]
  /\ result = <<>>

\* The table is loaded.
Load ==
  /\ phase = "load"
  /\ \/ /\ ~isString
        /\ Insert \/ InsertNull \/ Finalize
        /\ UNCHANGED stringVars
     \/ /\ isString
        /\ Strings!Insert \/ Strings!InsertNull \/ Strings!Finalize
        /\ UNCHANGED numericVars
  /\ UNCHANGED <<poolVars, type, phase, resultVars>>

\* The scan and the joins.
Query ==
  /\ phase = "load"
  /\ IF isString THEN strFinalized ELSE finalized
  /\ phase' = "result"
  /\ picked' \in Picks(Len(baseRows))
  /\ column' = [i \in DOMAIN picked' |-> Scanned[picked'[i]]]
  /\ UNCHANGED <<numericVars, stringVars, poolVars, type, threadPages, result>>

\* No rows: nobody is called, and the inserters have nothing to save.
MaterializeEmpty ==
  /\ phase = "result"
  /\ column = <<>>
  /\ phase' = "done"
  /\ UNCHANGED <<numericVars, stringVars, poolVars, type, resultVars>>

DispatchShares ==
  /\ phase = "result"
  /\ column # <<>>
  /\ phase' = "encode"
  /\ Pool!Dispatch
  /\ UNCHANGED <<numericVars, stringVars, type, resultVars>>

BeginShare(t) ==
  /\ Pool!Begin(t)
  /\ UNCHANGED <<numericVars, stringVars, type, phase, resultVars>>

RowsPerThread == (Len(column) + NumThreads - 1) \div NumThreads

\* start_row to end_row
Share(t) ==
  SubSeq(column, t * RowsPerThread + 1, Min({(t + 1) * RowsPerThread, Len(column)}))

\* A row of the result, by the inserter of its type.
Encode(ins, val) ==
  IF isString
  THEN IF IsNull(val)
       THEN Strings!WithNull(ins)
       ELSE Strings!WithString(ins, Strings!Materialize(basePages, val))
  ELSE IF IsNull(val) THEN WithNull(ins) ELSE WithValue(ins, val.val)

EncodedPages(vals) ==
  IF isString
  THEN Strings!Finished(FoldLeft(Encode, Strings!NewInserter, vals)).pages
  ELSE Finished(FoldLeft(Encode, NewInserter, vals)).pages

\* The worker's loop, and its pages into their place in thread_pages.
EncodeShare(t) ==
  /\ Pool!End(t)
  /\ threadPages' = [threadPages EXCEPT ![t] = EncodedPages(Share(t))]
  /\ UNCHANGED <<numericVars, stringVars, type, phase, picked, column, result>>

ReturnShares ==
  /\ phase = "encode"
  /\ phase' = "collect"
  /\ Pool!Return
  /\ UNCHANGED <<numericVars, stringVars, type, resultVars>>

\* Variant: the pages are put together from the last thread to the first.
CollectBackwards ==
  /\ phase = "collect"
  /\ phase' = "done"
  /\ result' = FlattenSeq([i \in 1 .. NumThreads |-> threadPages[NumThreads - i]])
  /\ UNCHANGED <<numericVars, stringVars, poolVars, type, picked, column, threadPages>>

Collect ==
  /\ phase = "collect"
  /\ phase' = "done"
  /\ result' = FlattenSeq([i \in 1 .. NumThreads |-> threadPages[i - 1]])
  /\ UNCHANGED <<numericVars, stringVars, poolVars, type, picked, column, threadPages>>

Finish ==
  /\ phase = "done"
  /\ UNCHANGED allVars

MaterializationNext ==
  \/ Load
  \/ Query
  \/ MaterializeEmpty
  \/ DispatchShares
  \/ \E t \in Threads : BeginShare(t) \/ EncodeShare(t)
  \/ ReturnShares
  \/ Collect
  \/ Finish

MaterializationSpec == MaterializationInit /\ [][MaterializationNext]_allVars

-----------------------------------------------------------------------------
(* Properties *)

\* The types of the three parts; the result column is as long as the rows
\* that were picked.
PartsTypeOK ==
  /\ TypeOK
  /\ Strings!TypeOK
  /\ Pool!TypeOK
  /\ phase \in {"load", "result", "encode", "collect", "done"}
  /\ picked \in Seq(DOMAIN baseRows)
  /\ column \in Seq([val : Row, page : Nat, offset : Nat] \union [page : Nat, offset : Nat])
  /\ phase = "load" \/ Len(column) = Len(picked)

StringsReadBack == Strings!ReadBack

HandlesExact == Strings!HandlesExact

\* The rows of the result table, as from_columnar reads them.
ResultRows == IF isString THEN Strings!ReadColumn(result) ELSE ReadColumn(result)

\* A result column holds the rows that the joins have picked, in their order,
\* whatever the shares: through the scan, a handle or a value in the union,
\* the encoding by several workers and the joining of their pages.  Left out
\* are the strings of the two findings, and columns of more pages than a
\* handle can tell apart.
ResultExact ==
  phase = "done"
    /\ (isString => /\ Len(basePages) <= PageIds
                    /\ \A i \in DOMAIN column : Strings!Plain(basePages, column[i]))
  => ResultRows = [i \in DOMAIN picked |-> baseRows[picked[i]]]
=============================================================================
