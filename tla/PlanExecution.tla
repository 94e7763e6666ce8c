---------------------------- MODULE PlanExecution ----------------------------
(***************************************************************************)
(* The execution of a plan (execute.cpp): execute_impl goes down the tree  *)
(* of nodes, a scan turns columns of a base table into column_t, and a     *)
(* join, JoinAlgorithm::run, works on the results of the two nodes below   *)
(* it.  The smaller side is built, the workers of the pool take the pages  *)
(* or buffers of the other side's key column from a shared counter, look   *)
(* every key up and append the matches to buffers of their own, and the    *)
(* caller merges the buffers column by column.                             *)
(*                                                                         *)
(* A column is a sequence of units, buffers or (a direct column) the pages *)
(* of the base table, and the width get_value divides a row number by.     *)
(* The hash table is what UnchainedHashTable!LookupExact says of it: the   *)
(* rows of a key, each once, in some order (chain).                        *)
(*                                                                         *)
(* Plans are well formed, as those of the query driver and of the tests:   *)
(* attributes are in range, the types in output_attrs are those of the     *)
(* columns, and joins compare INT32 attributes.                            *)
(***************************************************************************)
EXTENDS Integers, Sequences, SequencesExt, FiniteSets, FiniteSetsExt, Functions

CONSTANTS
  NumThreads,     \* threads of the pool
  MaxDispatches,  \* the joins a plan can have
  BufferSize,     \* MAX_PER_BUFFER_ENTRY
  RowsPerPage,    \* rows_per_page of a direct column
  Keys,           \* join keys
  Null,           \* a key whose status is not set
  Queries         \* the plans: their nodes and inputs

\* A node of a plan: its left and right nodes are 0 in a scan, its
\* table is 0 in a join.  Output attributes and the attributes a join
\* compares count from 0, as in plan.h; nodes and tables from 1.
Types == {"INT32", "VARCHAR"}
Node == [table : Nat, left : Nat, right : Nat, leftAttr : Nat, rightAttr : Nat,
         outputs : Seq(Nat), types : Seq(Types)]

IsScan(node) == node.table # 0

\* A base table: columns of one length.  What strings a VARCHAR column has
\* makes no difference to a join.
IsTable(table) ==
  /\ table \in Seq([type : Types, rows : Seq(Keys \union {Null})]) \ {<<>>}
  /\ \A c \in DOMAIN table : Len(table[c].rows) = Len(table[1].rows)

\* A scan of plan q lists columns of its table.
ScanWellFormed(q, n) ==
  LET self == q.nodes[n]
  IN  /\ self.table \in DOMAIN q.inputs
      /\ \A i \in DOMAIN self.outputs :
           /\ self.outputs[i] < Len(q.inputs[self.table])
           /\ self.types[i] = q.inputs[self.table][self.outputs[i] + 1].type

\* A join lists columns of the nodes below it, and compares integers.
JoinWellFormed(q, n) ==
  LET self == q.nodes[n]
      l == q.nodes[self.left]
      r == q.nodes[self.right]
  IN  /\ {self.left, self.right} \subseteq 1 .. n - 1
      /\ self.leftAttr < Len(l.outputs) /\ l.types[self.leftAttr + 1] = "INT32"
      /\ self.rightAttr < Len(r.outputs) /\ r.types[self.rightAttr + 1] = "INT32"
      /\ \A i \in DOMAIN self.outputs :
           /\ self.outputs[i] < Len(l.outputs) + Len(r.outputs)
           /\ self.types[i] = (l.types \o r.types)[self.outputs[i] + 1]

ASSUME ExecutionAssumption ==
  /\ {NumThreads, BufferSize, RowsPerPage} \subseteq Nat \ {0}
  /\ MaxDispatches \in Nat
  /\ Null \notin Keys
  /\ \A q \in Queries :
       /\ q.nodes \in Seq(Node) \ {<<>>}
       /\ \A t \in DOMAIN q.inputs : IsTable(q.inputs[t])
       /\ \A n \in DOMAIN q.nodes :
            /\ Len(q.nodes[n].types) = Len(q.nodes[n].outputs)
            /\ IF IsScan(q.nodes[n]) THEN ScanWellFormed(q, n) ELSE JoinWellFormed(q, n)
       /\ Cardinality({n \in DOMAIN q.nodes : ~IsScan(q.nodes[n])}) <= MaxDispatches

Threads == 0 .. NumThreads - 1

VARIABLES
  calls, todo, running, caller,   \* the pool: see ForkJoin
  query,         \* the plan and its inputs
  stack,         \* calls of execute_impl: per call its node and what its
                 \* children have returned so far
  phase,         \* where the caller is: above run, or in it
  chain,         \* the hash table: per key, its build rows
  workCounter,   \* work_counter
  unit,          \* per thread: page_idx or buf_idx, NoUnit before fetch_add
  threadResults, \* thread_results: per thread, the values of its output columns
  result         \* what the plan's root has returned

poolVars == <<calls, todo, running, caller>>
treeVars == <<query, stack, result>>
vars == <<poolVars, treeVars, phase, chain, workCounter, unit, threadResults>>

Pool == INSTANCE ForkJoin

NoUnit == -1

-----------------------------------------------------------------------------
(* Columns *)

\* Values cut into units of n, all full but the last.
Units(vals, n) ==
  [p \in 1 .. (Len(vals) + n - 1) \div n |->
     SubSeq(vals, (p - 1) * n + 1, Min({p * n, Len(vals)}))]

Column(vals, n, direct) ==
  [units |-> Units(vals, n), numRows |-> Len(vals), width |-> n, direct |-> direct]

\* The loop that appends values and starts a buffer when the last is full.
Buffered(vals) == Column(vals, BufferSize, FALSE)

\* The pages of a base table's INT32 column without nulls.
Direct(vals) == Column(vals, RowsPerPage, TRUE)

\* column_t::get_value
GetValue(col, row) == col.units[(row \div col.width) + 1][(row % col.width) + 1]

\* What the scan makes of column c of table t: a direct column of INT32 when
\* it has rows and no nulls; of a VARCHAR column, the place of each string.
BuildColumn(t, c) ==
  LET column == query.inputs[t][c + 1]
      n == Len(column.rows)
  IN  IF column.type = "VARCHAR"
      THEN Buffered([i \in 1 .. n |-> <<t, c, i - 1>>])
      ELSE IF n # 0 /\ Null \notin Range(column.rows)
           THEN Direct(column.rows)
           ELSE Buffered(column.rows)

-----------------------------------------------------------------------------
(* The call of execute_impl the caller is in *)

frame == Last(stack)
node == query.nodes[frame.node]
left == frame.args[1]
right == frame.args[2]

\* Both children of a join have been evaluated: run works on them.
Joining == ~IsScan(node) /\ Len(frame.args) = 2

LeftCol == left[node.leftAttr + 1]
RightCol == right[node.rightAttr + 1]

buildLeft == LeftCol.numRows <= RightCol.numRows
build == IF buildLeft THEN LeftCol ELSE RightCol
probe == IF buildLeft THEN RightCol ELSE LeftCol

NumUnits == Len(probe.units)

Outputs == DOMAIN node.outputs

Values == Keys \union {Null} \union Nat \X Nat \X Nat

IsResult(res) == \A c \in DOMAIN res : res[c].numRows = Len(FlattenSeq(res[c].units))

TypeOK ==
  /\ Pool!TypeOK
  /\ phase \in {"plan", "build", "probe", "merge", "done"}
  /\ query \in Queries
  /\ \A d \in DOMAIN stack :
       /\ stack[d].node \in DOMAIN query.nodes
       /\ Len(stack[d].args) <= 2
       /\ \A i \in DOMAIN stack[d].args : IsResult(stack[d].args[i])
  /\ IsResult(result)
  /\ (phase = "done") <=> (stack = <<>>)
  /\ chain \in [Keys -> Seq(Nat)]
  /\ \A t \in Threads : threadResults[t] \in Seq(Seq(Values))
  /\ phase \in {"build", "probe", "merge"} =>
       /\ Joining
       /\ workCounter \in 0 .. NumUnits + NumThreads
       /\ unit \in [Threads -> NoUnit .. NumUnits + NumThreads - 1]

NoChain == [k \in Keys |-> <<>>]
NoUnits == [t \in Threads |-> NoUnit]
NoResults == [t \in Threads |-> <<>>]

Init ==
  /\ Pool!Init
  /\ query \in Queries
  /\ stack = <<[node |-> Len(query.nodes), args |-> <<>>]>>
  /\ phase = "plan"
  /\ chain = NoChain
  /\ workCounter = 0
  /\ unit = NoUnits
  /\ threadResults = NoResults
  /\ result = <<>>

-----------------------------------------------------------------------------
(* The recursion of execute_impl *)

joinVars == <<chain, workCounter, unit, threadResults>>

\* execute_hash_join: left, then right.
EvaluateChild ==
  /\ phase = "plan"
  /\ ~IsScan(node) /\ Len(frame.args) < 2
  /\ stack' = Append(stack, [node |-> IF frame.args = <<>> THEN node.left ELSE node.right,
                             args |-> <<>>])
  /\ UNCHANGED <<poolVars, query, result, phase, joinVars>>

\* The call ends with res.
ReturnResult(res) ==
  /\ query' = query
  /\ IF Len(stack) = 1
     THEN stack' = <<>> /\ result' = res /\ phase' = "done"
     ELSE LET parent == Len(stack) - 1
          IN  /\ stack' = [Front(stack) EXCEPT ![parent].args = Append(@, res)]
              /\ result' = result
              /\ phase' = "plan"

\* execute_scan
Scan ==
  /\ phase = "plan"
  /\ IsScan(node)
  /\ ReturnResult([c \in Outputs |-> BuildColumn(node.table, node.outputs[c])])
  /\ UNCHANGED <<poolVars, joinVars>>

-----------------------------------------------------------------------------
(* JoinAlgorithm::run *)

\* An empty side: run returns columns without rows before it builds anything.
EmptyJoin ==
  /\ phase = "plan"
  /\ Joining
  /\ LeftCol.numRows = 0 \/ RightCol.numRows = 0
  /\ ReturnResult([c \in Outputs |-> Buffered(<<>>)])
  /\ UNCHANGED <<poolVars, joinVars>>

\* The build rows of key k.
RowsWith(k) == {r \in 0 .. build.numRows - 1 : GetValue(build, r) = k}

\* The tables a build may leave: UnchainedHashTable!LookupExact.
Chains ==
  LET order == [k \in Keys |-> SetToSeqs(RowsWith(k))]
  IN  {c \in [Keys -> UNION {order[k] : k \in Keys}] : \A k \in Keys : c[k] \in order[k]}

\* build_parallel: UnchainedHashTable goes through the steps.
BuildTable ==
  /\ phase = "plan"
  /\ Joining
  /\ LeftCol.numRows # 0 /\ RightCol.numRows # 0
  /\ phase' = "build"
  /\ chain' \in Chains
  /\ UNCHANGED <<poolVars, treeVars, workCounter, unit, threadResults>>

DispatchProbe ==
  /\ phase = "build"
  /\ phase' = "probe"
  /\ Pool!Dispatch
  /\ threadResults' = [t \in Threads |-> [c \in Outputs |-> <<>>]]
  /\ UNCHANGED <<treeVars, chain, workCounter, unit>>

BeginProbe(t) ==
  /\ Pool!Begin(t)
  /\ UNCHANGED <<treeVars, phase, chain, workCounter, unit, threadResults>>

\* Variant: work_counter is a plain counter, whose increments may get lost.
FetchUnitRacy(t) ==
  /\ t \in running
  /\ unit[t] = NoUnit
  /\ unit' = [unit EXCEPT ![t] = workCounter]
  /\ workCounter' \in {workCounter, workCounter + 1}
  /\ UNCHANGED <<poolVars, treeVars, phase, chain, threadResults>>

\* work_counter.fetch_add(1)
FetchUnit(t) ==
  /\ t \in running
  /\ unit[t] = NoUnit
  /\ unit' = [unit EXCEPT ![t] = workCounter]
  /\ workCounter' = workCounter + 1
  /\ UNCHANGED <<poolVars, treeVars, phase, chain, threadResults>>

\* Variant: as if the unit were a buffer, whatever the column.
BaseRowBuffers(u) == u * BufferSize

\* The row number of a unit's first row: page_rowids, or the buffer's place.
BaseRow(u) ==
  IF probe.direct
  THEN SumFunction([p \in 1 .. u |-> Len(probe.units[p])])
  ELSE u * BufferSize

\* The matches of unit u, as pairs of a build row and a probe row.
Matches(u) ==
  LET keys == probe.units[u + 1]
      Of(i) == IF keys[i] = Null
               THEN <<>>
               ELSE [j \in DOMAIN chain[keys[i]] |->
                       <<chain[keys[i]][j], BaseRow(u) + i - 1>>]
  IN  FlattenSeq([i \in DOMAIN keys |-> Of(i)])

\* mappings, and the choice of the row number by use_left and build_left.
OutputValue(c, match) ==
  LET leftRow == IF buildLeft THEN match[1] ELSE match[2]
      rightRow == IF buildLeft THEN match[2] ELSE match[1]
      attr == node.outputs[c]
  IN  IF attr < Len(left)
      THEN GetValue(left[attr + 1], leftRow)
      ELSE GetValue(right[attr - Len(left) + 1], rightRow)

\* The thread goes through its unit: it only touches its own buffers.
ProbeUnit(t) ==
  /\ t \in running
  /\ unit[t] \in 0 .. NumUnits - 1
  /\ LET matches == Matches(unit[t])
     IN  threadResults' = [threadResults EXCEPT ![t] = [c \in Outputs |->
           @[c] \o [i \in DOMAIN matches |-> OutputValue(c, matches[i])]]]
  /\ unit' = [unit EXCEPT ![t] = NoUnit]
  /\ UNCHANGED <<poolVars, treeVars, phase, chain, workCounter>>

\* Variant: a thread that is out of work looks again.
EndProbeRetry(t) ==
  /\ t \in running
  /\ unit[t] >= NumUnits
  /\ unit' = [unit EXCEPT ![t] = NoUnit]
  /\ workCounter' = NumUnits
  /\ UNCHANGED <<poolVars, treeVars, phase, chain, threadResults>>

\* The counter is past the last unit.
EndProbe(t) ==
  /\ Pool!End(t)
  /\ unit[t] >= NumUnits
  /\ UNCHANGED <<treeVars, phase, chain, workCounter, unit, threadResults>>

ReturnProbe ==
  /\ phase = "probe"
  /\ phase' = "merge"
  /\ Pool!Return
  /\ UNCHANGED <<treeVars, chain, workCounter, unit, threadResults>>

\* Variant: the last, partly filled buffer is not handed on.
MergedNoRemainder(c) ==
  LET all == FlattenSeq([i \in 1 .. NumThreads |-> threadResults[i - 1][c]])
  IN  [Buffered(all) EXCEPT !.units = SelectSeq(@, LAMBDA buf : Len(buf) = BufferSize)]

\* The values of output column c, thread by thread, in buffers of their own.
Merged(c) == Buffered(FlattenSeq([i \in 1 .. NumThreads |-> threadResults[i - 1][c]]))

\* run returns: the hash table, the counter and thread_results are its locals.
Merge ==
  /\ phase = "merge"
  /\ ReturnResult([c \in Outputs |-> Merged(c)])
  /\ chain' = NoChain
  /\ workCounter' = 0
  /\ unit' = NoUnits
  /\ threadResults' = NoResults
  /\ UNCHANGED poolVars

-----------------------------------------------------------------------------
WorkerStep(t) == BeginProbe(t) \/ FetchUnit(t) \/ ProbeUnit(t) \/ EndProbe(t)

CallerStep ==
  EvaluateChild \/ Scan \/ EmptyJoin \/ BuildTable \/ DispatchProbe \/ ReturnProbe \/ Merge

Done ==
  /\ phase = "done"
  /\ UNCHANGED vars

Next ==
  \/ \E t \in Threads : WorkerStep(t)
  \/ CallerStep
  \/ Done

\* ThreadPool schedules its workers and its caller fairly.
Fairness ==
  /\ \A t \in Threads : WF_vars(WorkerStep(t))
  /\ WF_vars(CallerStep)

Spec == Init /\ [][Next]_vars /\ Fairness

-----------------------------------------------------------------------------
(* Properties *)

\* What a scan returns of row r of column c of table t.
BaseValue(q, t, c, r) ==
  LET column == q.inputs[t][c + 1]
  IN  IF column.type = "VARCHAR" THEN <<t, c, r - 1>> ELSE column.rows[r]

\* The rows a scan and a join ask for, each with the numbers of the base
\* rows it is made of, so that equal rows stay apart.
ScanRows(q, self) ==
  {[at |-> r,
    row |-> [i \in DOMAIN self.outputs |-> BaseValue(q, self.table, self.outputs[i], r)]] :
     r \in DOMAIN q.inputs[self.table][1].rows}

JoinRows(self, leftRows, rightRows) ==
  {[at |-> <<lr[1].at, lr[2].at>>,
    row |-> [i \in DOMAIN self.outputs |-> (lr[1].row \o lr[2].row)[self.outputs[i] + 1]]] :
     lr \in {p \in leftRows \X rightRows :
               /\ p[1].row[self.leftAttr + 1] # Null
               /\ p[1].row[self.leftAttr + 1] = p[2].row[self.rightAttr + 1]}}

\* The rows of node n, rowsOf being those of the nodes below it.
NodeRows(q, rowsOf, n) ==
  LET self == q.nodes[n]
  IN  IF IsScan(self)
      THEN ScanRows(q, self)
      ELSE JoinRows(self, rowsOf[self.left], rowsOf[self.right])

\* What a plan asks for, node by node.
Meaning ==
  LET rowsOf[n \in DOMAIN query.nodes] == NodeRows(query, rowsOf, n)
  IN  rowsOf

\* Row i of a result, put together by get_value as the next join or the
\* materialization reads it (execute.cpp:111, 473).
ResultRow(res, i) == [c \in DOMAIN res |-> GetValue(res[c], i)]

\* res has each row that node n asks for, as often as it asks for it.
Answers(res, n) ==
  LET rows == Meaning[n]
      count == Cardinality(rows)
  IN  /\ \A c \in DOMAIN res : res[c].numRows = count
      /\ \A x \in rows :
           Cardinality({y \in rows : y.row = x.row})
             = Cardinality({i \in 0 .. count - 1 : ResultRow(res, i) = x.row})

Child(n, i) == IF i = 1 THEN query.nodes[n].left ELSE query.nodes[n].right

\* Every node of the plan, on the way as at the root, returns the rows of
\* nested loops over the base tables: whichever side is built, whichever
\* thread takes which unit, directly from pages or from buffers.
QueryExact ==
  /\ \A d \in DOMAIN stack : \A i \in DOMAIN stack[d].args :
       Answers(stack[d].args[i], Child(stack[d].node, i))
  /\ phase = "done" => Answers(result, Len(query.nodes))

\* Work stealing is by one relaxed fetch_add (execute.cpp:90, 133): every
\* unit that has been taken is in the hands of one thread, or its matches
\* are in one thread's buffers; none is with two, and none is dropped.
UnitsTakenOnce ==
  /\ \A t, u \in Threads : t # u /\ unit[t] # NoUnit => unit[t] # unit[u]
  /\ phase = "probe" =>
       LET taken == 0 .. Min({workCounter, NumUnits}) - 1
           inHand == {unit[t] : t \in Threads}
       IN  \A c \in Outputs :
             SumFunction([u \in taken \ inHand |-> Len(Matches(u))])
               = SumFunction([t \in Threads |-> Len(threadResults[t][c])])

\* Every query ends.
QueryEnds == <>(phase = "done")
=============================================================================
