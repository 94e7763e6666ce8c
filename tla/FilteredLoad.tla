---------------------------- MODULE FilteredLoad ----------------------------
(***************************************************************************)
(* Loading a table for a scan (build_table.cpp): the CSV is parsed once    *)
(* into columns with bitmaps and kept in table_cache; a filter is          *)
(* evaluated column by column into a bitmap over the rows, one kernel      *)
(* after the other, by the workers of the filter pool, each on bytes of    *)
(* its own (statement.cpp, inner_column.h); the columns are then           *)
(* converted, again by the workers.  A table that was loaded without a     *)
(* filter is kept in result_cache as well.                                 *)
(*                                                                         *)
(* A table has an INT32 column "a" and a VARCHAR column "s".  Strings are  *)
(* the numbers of their order, Empty the empty one; the pattern of a LIKE  *)
(* is the set of strings it matches.  A statement is the sequence of its   *)
(* nodes as they are made, the last of them the whole: children come       *)
(* before the operation that takes them, and are their indices there.      *)
(***************************************************************************)
EXTENDS Integers, Sequences, SequencesExt, Shares

CONSTANTS
  Null,           \* an empty field
  Files,          \* what the CSV can hold: sequences of rows
  Filters,        \* the statements a scan can have
  NoFilter,       \* a scan without one
  RowsPerByte,    \* 8
  Int32Half,      \* 2^31
  MaxRuns,        \* bound: calls of filter_tp.run in one call of from_csv
  MaxLoads        \* bound: calls of from_csv

IntRange == -Int32Half .. Int32Half - 1
ColumnNames == <<"a", "s">>
Empty == 0
Record == [a : IntRange \union {Null}, s : (Nat \ {Empty}) \union {Null}]

\* Statement: a Comparison has a column and a value of its type, a
\* LogicalOperation has children.
CompareOps == {"EQ", "NEQ", "LT", "GT", "LEQ", "GEQ"}
LikeOps == {"LIKE", "NOT_LIKE"}
NullOps == {"IS_NULL", "IS_NOT_NULL"}
Comparisons ==
  [op : CompareOps, column : {"a"}, value : Int]
    \union [op : CompareOps, column : {"s"}, value : Nat]
    \union [op : LikeOps, column : {"s"}, value : SUBSET Nat]
    \union [op : NullOps, column : {"a", "s"}]
LogicalOperations(k) ==
  [op : {"AND", "OR"}, children : [1 .. 2 -> 1 .. k - 1]]
    \union [op : {"NOT"}, children : [1 .. 1 -> 1 .. k - 1]]

IsStatement(s) ==
  /\ Len(s) \in Nat \ {0} /\ DOMAIN s = 1 .. Len(s)
  /\ \A k \in DOMAIN s : s[k] \in Comparisons \union LogicalOperations(k)

ASSUME SizesAssumption ==
  /\ {RowsPerByte, Int32Half} \subseteq Nat \ {0}
  /\ {MaxRuns, MaxLoads} \subseteq Nat
ASSUME NullAssumption == Null \notin Int
ASSUME FilesAssumption == Files \subseteq Seq(Record)
ASSUME FiltersAssumption == NoFilter \notin Filters /\ \A f \in Filters : IsStatement(f)

VARIABLES
  runs, todo, running, caller,   \* the pool, filter_tp: see ForkJoin
  file,         \* the CSV
  tableCache,   \* table_cache: the parsed table, or NoTable
  resultCache,  \* result_cache: its conversion, or NoTable
  loads,        \* calls of from_csv so far
  filter,       \* the filter of the call
  stage,        \* where the call is
  code,         \* the nodes whose eval has not returned
  operands,     \* the bitmaps of those that have
  out,          \* the bitmap a kernel is writing
  at,           \* per worker: the task it comes to next
  reg,          \* per worker: the byte it has read, or NoByte
  results,      \* the bitmap of the rows that pass
  ret,          \* the columns converted so far
  retRows       \* ret_rows

poolVars == <<runs, todo, running, caller>>
caches == <<tableCache, resultCache>>
callVars == <<file, loads, filter>>
evalVars == <<code, operands, out, results>>
workVars == <<at, reg>>
retVars == <<ret, retRows>>
loadVars == <<poolVars, caches, callVars, stage, evalVars, workVars, retVars>>

Pool == INSTANCE ForkJoin WITH calls <- runs, MaxDispatches <- MaxRuns

NoTable == <<>>
NoByte == {-1}

-----------------------------------------------------------------------------
(* InnerColumn: the rows' values, and the bits that tell which are not NULL *)

Bits == 0 .. RowsPerByte - 1
BytesFor(rows) == (rows + RowsPerByte - 1) \div RowsPerByte
HasBit(bitmap, r) == (r % RowsPerByte) \in bitmap[(r \div RowsPerByte) + 1]

\* Variant: a byte is added one row late.
BitmapPushBackLate(bitmap, row, notNull) ==
  IF row \div RowsPerByte > Len(bitmap) \/ bitmap = <<>>
  THEN Append(bitmap, IF notNull THEN {0} ELSE {})
  ELSE [bitmap EXCEPT ![Len(bitmap)] =
          IF notNull THEN @ \union {row % RowsPerByte} ELSE @ \ {row % RowsPerByte}]

\* bitmap_push_back for the row of that index: a byte more, or a bit.
BitmapPushBack(bitmap, row, notNull) ==
  IF (row \div RowsPerByte) + 1 > Len(bitmap)
  THEN Append(bitmap, IF notNull THEN {0} ELSE {})
  ELSE [bitmap EXCEPT ![(row \div RowsPerByte) + 1] =
          IF notNull THEN @ \union {row % RowsPerByte} ELSE @ \ {row % RowsPerByte}]

\* An integer column has a value for every row, 0 for a NULL.
PushBackInt(column, value) ==
  [data   |-> Append(column.data, IF value = Null THEN 0 ELSE value),
   bitmap |-> BitmapPushBack(column.bitmap, Len(column.data), value # Null)]

\* A string column has an offset for every row: the end of its characters,
\* here one unit of data for a string and none for a NULL.
PushBackString(column, value) ==
  LET data == IF value = Null THEN column.data ELSE Append(column.data, value)
  IN  [data    |-> data,
       offsets |-> Append(column.offsets, Len(data)),
       bitmap  |-> BitmapPushBack(column.bitmap, Len(column.offsets), value # Null)]

EmptyInts == [data |-> <<>>, bitmap |-> <<>>]
EmptyStrings == [data |-> <<>>, offsets |-> <<>>, bitmap |-> <<>>]

\* Row r of a string column, from the end of the row before to its own.
GetString(column, r) ==
  LET begin == IF r = 0 THEN 0 ELSE column.offsets[r]
      end == column.offsets[r + 1]
  IN  IF begin = end THEN Empty ELSE column.data[end]

\* get
Get(table, c, r) ==
  IF c = "a" THEN table.columns["a"].data[r + 1] ELSE GetString(table.columns["s"], r)

\* add_record, for every record of the file.
AddInt(column, record) == PushBackInt(column, record.a)
AddString(column, record) == PushBackString(column, record.s)
Parse(records) ==
  [rows |-> Len(records),
   columns |-> [a |-> FoldLeft(AddInt, EmptyInts, records),
                s |-> FoldLeft(AddString, EmptyStrings, records)]]

-----------------------------------------------------------------------------
(* The pool: each worker has tasks of its own, bytes or columns             *)

NumTasks == IF stage = "kernel" THEN Len(out) ELSE Len(ColumnNames)

\* Variant: the share's end is taken to belong to it.
EndIdxInclusive(t) == IF BeginIdx(t + 1, NumTasks) < NumTasks
                      THEN BeginIdx(t + 1, NumTasks) + 1
                      ELSE NumTasks

EndIdx(t) == BeginIdx(t + 1, NumTasks)

Begin(t) ==
  /\ Pool!Begin(t)
  /\ at' = [at EXCEPT ![t] = BeginIdx(t, NumTasks)]
  /\ UNCHANGED <<caches, callVars, stage, evalVars, reg, retVars>>

HasTask(t) == t \in running /\ at[t] < EndIdx(t)

End(t) ==
  /\ Pool!End(t)
  /\ ~HasTask(t)
  /\ at' = [at EXCEPT ![t] = 0]
  /\ UNCHANGED <<caches, callVars, stage, evalVars, reg, retVars>>

-----------------------------------------------------------------------------
(* The columnar evaluator                                                   *)

\* The order in which the calls of eval return: the children's first, the
\* left one before the right (C++ leaves that open; no bitmap depends on it).
PostOrder(s) ==
  LET order[k \in DOMAIN s] ==
        CASE s[k].op \in {"AND", "OR"} ->
               order[s[k].children[1]] \o order[s[k].children[2]] \o <<k>>
          [] s[k].op = "NOT" -> order[s[k].children[1]] \o <<k>>
          [] OTHER -> <<k>>
  IN  order[Len(s)]

\* The node whose kernels are next.
Node == filter[Head(code)]

\* static_cast<int32_t> of an int64_t.
ToInt32(n) == ((n + Int32Half) % (2 * Int32Half)) - Int32Half

Compare(op, x, y) ==
  CASE op = "EQ"  -> x = y
    [] op = "NEQ" -> x # y
    [] op = "LT"  -> x < y
    [] op = "GT"  -> x > y
    [] op = "LEQ" -> x <= y
    [] op = "GEQ" -> x >= y

Matches(op, x, y) ==
  CASE op = "LIKE"     -> x \in y
    [] op = "NOT_LIKE" -> x \notin y
    [] OTHER           -> Compare(op, x, y)

\* less, equal, like and the others, on byte b: the bits of the rows that
\* exist, are not NULL, and pass.
PassingBits(s, b) ==
  LET value == IF s.column = "a" THEN ToInt32(s.value) ELSE s.value
      Row(bit) == b * RowsPerByte + bit
  IN  {bit \in tableCache.columns[s.column].bitmap[b + 1] :
         Row(bit) < tableCache.rows /\ Matches(s.op, Get(tableCache, s.column, Row(bit)), value)}

\* What a kernel makes of byte b, having read old from there.
KernelByte(s, b, old) ==
  CASE s.op \in {"NOT", "IS_NULL"} -> Bits \ old
    [] s.op = "AND" -> operands[Len(operands) - 1][b + 1] \intersect Last(operands)[b + 1]
    [] s.op = "OR"  -> operands[Len(operands) - 1][b + 1] \union Last(operands)[b + 1]
    [] OTHER        -> old \union PassingBits(s, b)

\* The bitmaps a logical operation takes from the operands.
Arity(s) == CASE s.op \in {"AND", "OR"} -> 2 [] s.op = "NOT" -> 1 [] OTHER -> 0

\* What a kernel's ret is before it runs: bitmap_not works on a copy.
InitialOut(s) ==
  CASE s.op = "NOT"     -> Last(operands)
    [] s.op = "IS_NULL" -> tableCache.columns[s.column].bitmap
    [] OTHER            -> [b \in 1 .. BytesFor(tableCache.rows) |-> {}]

\* IS_NOT_NULL: the column's own bitmap.
EvalNotNull ==
  /\ stage = "eval"
  /\ code # <<>> /\ Node.op = "IS_NOT_NULL"
  /\ operands' = Append(operands, tableCache.columns[Node.column].bitmap)
  /\ code' = Tail(code)
  /\ UNCHANGED <<poolVars, caches, callVars, stage, out, results, workVars, retVars>>

DispatchKernel ==
  /\ stage = "eval"
  /\ code # <<>> /\ Node.op # "IS_NOT_NULL"
  /\ Pool!Dispatch
  /\ out' = InitialOut(Node)
  /\ stage' = "kernel"
  /\ UNCHANGED <<caches, callVars, code, operands, results, workVars, retVars>>

\* A byte is read and written in two steps: ret[byte] |= is not atomic.
ReadByte(t) ==
  /\ stage = "kernel"
  /\ HasTask(t)
  /\ reg[t] = NoByte
  /\ reg' = [reg EXCEPT ![t] = out[at[t] + 1]]
  /\ UNCHANGED <<poolVars, caches, callVars, stage, evalVars, at, retVars>>

WriteByte(t) ==
  /\ stage = "kernel"
  /\ HasTask(t)
  /\ reg[t] # NoByte
  /\ out' = [out EXCEPT ![at[t] + 1] = KernelByte(Node, at[t], reg[t])]
  /\ reg' = [reg EXCEPT ![t] = NoByte]
  /\ at' = [at EXCEPT ![t] = @ + 1]
  /\ UNCHANGED <<poolVars, caches, callVars, stage, code, operands, results, retVars>>

ReturnKernel ==
  /\ stage = "kernel"
  /\ Pool!Return
  /\ operands' = Append(SubSeq(operands, 1, Len(operands) - Arity(Node)), out)
  /\ code' = Tail(code)
  /\ out' = <<>>
  /\ stage' = "eval"
  /\ UNCHANGED <<caches, callVars, results, workVars, retVars>>

\* The outermost eval has returned.
EvalReturns ==
  /\ stage = "eval"
  /\ code = <<>>
  /\ results' = Last(operands)
  /\ operands' = <<>>
  /\ stage' = "filtered"
  /\ UNCHANGED <<poolVars, caches, callVars, code, out, workVars, retVars>>

-----------------------------------------------------------------------------
(* The other evaluator of the same statements, over a record               *)

\* Comparison::eval on a record.
EvalField(s, record) ==
  CASE s.op = "IS_NULL"     -> record[s.column] = Null
    [] s.op = "IS_NOT_NULL" -> record[s.column] # Null
    [] OTHER -> record[s.column] # Null /\ Matches(s.op, record[s.column], s.value)

\* LogicalOperation::eval on a record.
EvalRecord(s, record) ==
  LET eval[k \in DOMAIN s] ==
        CASE s[k].op = "AND" -> eval[s[k].children[1]] /\ eval[s[k].children[2]]
          [] s[k].op = "OR"  -> eval[s[k].children[1]] \/ eval[s[k].children[2]]
          [] s[k].op = "NOT" -> ~eval[s[k].children[1]]
          [] OTHER           -> EvalField(s[k], record)
  IN  eval[Len(s)]

-----------------------------------------------------------------------------
(* from_csv                                                                 *)

LoadTypeOK ==
  /\ Pool!TypeOK
  /\ file \in Files
  /\ tableCache = NoTable \/ tableCache.rows = Len(file)
  /\ loads \in 0 .. MaxLoads
  /\ filter \in Filters \union {NoFilter}
  /\ stage \in {"idle", "eval", "kernel", "filtered", "convert", "return"}
  /\ \A bitmap \in Range(operands) \union (IF stage = "kernel" THEN {out} ELSE {}) :
       bitmap \in Seq(SUBSET Bits) /\ Len(bitmap) = BytesFor(Len(file))
  /\ stage \in {"filtered", "convert", "return"} => Len(results) \in {0, BytesFor(Len(file))}
  /\ DOMAIN ret \subseteq Range(ColumnNames)
  /\ retRows \in 0 .. Len(file)

LoadInit ==
  /\ Pool!Init
  /\ file \in Files
  /\ tableCache = NoTable
  /\ resultCache = NoTable
  /\ loads = 0
  /\ filter = NoFilter
  /\ stage = "idle"
  /\ code = <<>>
  /\ operands = <<>>
  /\ out = <<>>
  /\ at = [t \in Workers |-> 0]
  /\ reg = [t \in Workers |-> NoByte]
  /\ results = <<>>
  /\ ret = <<>>
  /\ retRows = 0

\* Variant: result_cache is consulted whatever the filter.
ResultHitAny(f) == resultCache # NoTable

\* The first early return.
ResultHit(f) == f = NoFilter /\ resultCache # NoTable

\* A copy of the cached conversion.
FromResultCache(f) ==
  /\ stage = "idle"
  /\ loads < MaxLoads
  /\ ResultHit(f)
  /\ loads' = loads + 1
  /\ filter' = f
  /\ ret' = resultCache.columns
  /\ retRows' = resultCache.rows
  /\ stage' = "return"
  /\ UNCHANGED <<poolVars, caches, file, evalVars, workVars>>

\* The table, from its cache or parsed; without a filter every row passes.
FromTable(f) ==
  /\ stage = "idle"
  /\ loads < MaxLoads
  /\ ~ResultHit(f)
  /\ loads' = loads + 1
  /\ filter' = f
  /\ tableCache' = IF tableCache = NoTable THEN Parse(file) ELSE tableCache
  /\ IF f = NoFilter
     THEN /\ results' = [b \in 1 .. BytesFor(Len(file)) |-> Bits]
          /\ stage' = "filtered"
          /\ UNCHANGED code
     ELSE /\ code' = PostOrder(f)
          /\ stage' = "eval"
          /\ UNCHANGED results
  /\ UNCHANGED <<poolVars, file, resultCache, operands, out, workVars, retVars>>

DispatchConvert ==
  /\ stage = "filtered"
  /\ Pool!Dispatch
  /\ stage' = "convert"
  /\ UNCHANGED <<caches, callVars, evalVars, workVars, retVars>>

\* from_inner_to_column: the values of the rows that passed.
AddRow(passed, r) == IF HasBit(results, r - 1) THEN Append(passed, r - 1) ELSE passed
Passed == FoldLeft(AddRow, <<>>, [r \in 1 .. tableCache.rows |-> r])
FromInner(c) ==
  [n \in DOMAIN Passed |-> IF HasBit(tableCache.columns[c].bitmap, Passed[n])
                           THEN Get(tableCache, c, Passed[n])
                           ELSE Null]

\* A worker converts a column of its share and stores how many rows it has.
Convert(t) ==
  /\ stage = "convert"
  /\ HasTask(t)
  /\ LET c == ColumnNames[at[t] + 1]
         converted == FromInner(c)
     IN  /\ ret' = [d \in DOMAIN ret \union {c} |-> IF d = c THEN converted ELSE ret[d]]
         /\ retRows' = Len(converted)
  /\ at' = [at EXCEPT ![t] = @ + 1]
  /\ UNCHANGED <<poolVars, caches, callVars, stage, evalVars, reg>>

\* The pool's run has returned.
ReturnConvert ==
  /\ stage = "convert"
  /\ Pool!Return
  /\ resultCache' = IF filter = NoFilter /\ resultCache = NoTable
                    THEN [columns |-> ret, rows |-> retRows]
                    ELSE resultCache
  /\ stage' = "return"
  /\ UNCHANGED <<tableCache, callVars, evalVars, workVars, retVars>>

\* The caller has the table.  MaxRuns bounds the calls of each load.
Return ==
  /\ stage = "return"
  /\ stage' = "idle"
  /\ filter' = NoFilter
  /\ results' = <<>>
  /\ ret' = <<>>
  /\ retRows' = 0
  /\ runs' = 0
  /\ UNCHANGED <<todo, running, caller, caches, file, loads, code, operands, out, workVars>>

NoMoreLoads ==
  /\ stage = "idle"
  /\ loads = MaxLoads
  /\ UNCHANGED loadVars

LoadNext ==
  \/ \E f \in Filters \union {NoFilter} : FromResultCache(f) \/ FromTable(f)
  \/ EvalNotNull \/ DispatchKernel \/ ReturnKernel \/ EvalReturns
  \/ \E t \in Workers : Begin(t) \/ ReadByte(t) \/ WriteByte(t) \/ Convert(t) \/ End(t)
  \/ DispatchConvert \/ ReturnConvert
  \/ Return
  \/ NoMoreLoads

LoadSpec == LoadInit /\ [][LoadNext]_loadVars

-----------------------------------------------------------------------------
(* Properties *)

\* The rows the filter of the call lets through, by the evaluator that
\* takes a record.
AddPassing(passing, record) ==
  IF filter = NoFilter \/ EvalRecord(filter, record) THEN Append(passing, record) ELSE passing
Passing == FoldLeft(AddPassing, <<>>, file)

\* Both evaluators of a statement agree on every row, NULLs under NOT and
\* the unused bits of the last byte included, however the workers interleave,
\* and every column of the table from_csv returns has the values of those
\* rows, in the order of the file, whichever cache they come from.
LoadExact ==
  stage = "return" =>
    /\ retRows = Len(Passing)
    /\ \A c \in Range(ColumnNames) : ret[c] = [n \in DOMAIN Passing |-> Passing[n][c]]

\* The kernels' |= on a byte is no atomic operation (inner_column.h:258): no
\* worker may be on a byte that another one has before it, is on, or will
\* come to.  The shares are cut in bytes of rows for that.
BytesApart ==
  stage = "kernel" =>
    \A t, u \in running :
      t # u /\ HasTask(t) /\ HasTask(u) => at[t] .. EndIdx(t) - 1 \intersect at[u] .. EndIdx(u) - 1 = {}
=============================================================================
