------------------------------ MODULE TableCache ------------------------------
(***************************************************************************)
(* The cache of tables and expected results on disk, and who owns the      *)
(* pages of a table in memory.                                             *)
(*                                                                         *)
(* The driver (tests/read_sql.cpp) is built three ways: "build" filters    *)
(* the tables and dumps them, and the results, to files; "cache" maps      *)
(* those files (Table::from_cache) and runs the queries; "csv" filters the *)
(* tables anew each time.  A Column (plan.h) owns its pages, or shares a   *)
(* MappedMemory with the other columns of its file, and moves when the     *)
(* vector it is in grows.  A process may be killed at any step: its memory *)
(* goes, the files stay as they are, half written or not.                  *)
(***************************************************************************)
EXTENDS Integers, Sequences, FiniteSets, SequencesExt

CONSTANTS
  Queries,     \* the queries of the plan file: their scans and their name
  NumPages,    \* for each file, the pages of each of its columns
  Unfiltered,  \* the scans without a filter
  MaxColumns   \* the columns a TableMeta has room for: 16

Files == DOMAIN NumPages

\* TableMeta's arrays are not bounds-checked: no table may have more columns.
ASSUME ColumnsFit ==
  \A f \in Files : NumPages[f] \in Seq(Nat) /\ Len(NumPages[f]) \in 1 .. MaxColumns

ASSUME QueriesKnown ==
  Queries \in Seq([scans : Seq(Files), name : Files]) /\ Queries # <<>>

VARIABLES
  files,    \* the files there are, as sequences of blocks of a page's size
  kind,     \* the build of the running process, or "none"
  pc,       \* its step
  at,       \* the query and the scan it is at
  mem,      \* new'd pages by address, and the mappings that are not released
  local,    \* ColumnarTable being made, or expected
  data,     \* from_cache: the mapping, and the next block in it
  inputs,   \* plan.inputs
  results,  \* of Contest::execute
  forever,  \* tables that live until the process ends: result_cache, and
            \* those DumpTable allocates
  torn,     \* history: files whose builder was killed while it wrote them
  built     \* history: a builder has gone through all queries

memVars == <<mem, local, data, inputs, results, forever>>
diskVars == <<files, torn, built>>
vars == <<memVars, diskVars, kind, pc, at>>

-----------------------------------------------------------------------------
(* Columns, their pages and their mapped memory *)

PastEnd == <<>>
NoMemory == 0
NoData == [map |-> NoMemory, block |-> 0]
NoMem == [heap |-> <<>>, maps |-> <<>>]
Fresh(used) == CHOOSE n \in 1 .. Cardinality(used) + 1 : n \notin used

Column == [mapped |-> NoMemory, pages |-> <<>>]

\* What a page holds; past a file's end there is nothing to read.
Contents(m, c, p) ==
  IF c.mapped = NoMemory THEN m.heap[p]
  ELSE IF p \in DOMAIN m.maps[c.mapped].blocks THEN m.maps[c.mapped].blocks[p]
  ELSE PastEnd
ReadAll(m, columns) ==
  [i \in DOMAIN columns |->
    [j \in DOMAIN columns[i].pages |-> Contents(m, columns[i], columns[i].pages[j])]]

With(f, x, y) == [z \in DOMAIN f \cup {x} |-> IF z = x THEN y ELSE f[z]]
Without(f, S) == [z \in DOMAIN f \ S |-> f[z]]

\* new_page, and what is then written to it
NewPage(s, contents) ==
  LET p == Fresh(DOMAIN s.mem.heap) IN
  [mem |-> [s.mem EXCEPT !.heap = With(@, p, contents)],
   column |-> [s.column EXCEPT !.pages = Append(@, p)]]
NewPages(s, column, contents) ==
  FoldLeft(NewPage, [mem |-> s, column |-> column], contents)

\* ~MappedMemory, when the last reference goes
Release(m, a) ==
  IF a \notin DOMAIN m.maps THEN m
  ELSE IF m.maps[a].refs = 1 THEN [m EXCEPT !.maps = Without(@, {a})]
  ELSE [m EXCEPT !.maps[a].refs = @ - 1]

\* ~Column
Destroy(m, c) ==
  IF c.mapped # NoMemory THEN Release(m, c.mapped)
  ELSE [m EXCEPT !.heap = Without(@, Range(c.pages))]

\* (The other's mapped memory is left as it is.)
MovedFromKeepsMapping(c) == [c EXCEPT !.pages = <<>>]

\* Column(Column&&): the new column has the other's pages and mapped memory,
\* the other has none.
MovedFrom(c) == [c EXCEPT !.pages = <<>>, !.mapped = NoMemory]

\* emplace_back: a full vector moves its columns to a new array, twice as
\* long, and destroys those of the old one.
IsFull(n) == n = 0 \/ \E k \in 0 .. n : n = 2^k
EmplaceBack(s, c) ==
  [columns |-> Append(s.columns, c),
   mem |-> IF IsFull(Len(s.columns))
           THEN FoldLeft(Destroy, s.mem, [i \in DOMAIN s.columns |-> MovedFrom(s.columns[i])])
           ELSE s.mem]
EmptyTable(m) == [columns |-> <<>>, mem |-> m]

-----------------------------------------------------------------------------
(* Making tables of new pages *)

\* What the pages of a table are to hold, column by column.
Truth(f) == [i \in DOMAIN NumPages[f] |-> [j \in 1 .. NumPages[f][i] |-> <<f, i, j>>]]

\* from_csv, copy and to_columnar: all columns first, or one after the other,
\* and their pages.
FillColumn(s, contents) ==
  LET grown == EmplaceBack(s, Column)
      filled == NewPages(grown.mem, Column, contents)
  IN [columns |-> [grown.columns EXCEPT ![Len(grown.columns)] = filled.column],
      mem |-> filled.mem]
NewTable(m, contents) == FoldLeft(FillColumn, EmptyTable(m), contents)

\* One column of the result: the workers' local columns give up their pages
\* before they go, and the column moves into the table.
ResultColumn(s, contents) ==
  LET worker == NewPages(s.mem, Column, contents)
      kept == Destroy(worker.mem, [worker.column EXCEPT !.pages = <<>>])
      column == [Column EXCEPT !.pages = worker.column.pages]
      pushed == EmplaceBack([s EXCEPT !.mem = kept], column)
  IN [pushed EXCEPT !.mem = Destroy(pushed.mem, MovedFrom(column))]
NewResult(m, contents) == FoldLeft(ResultColumn, EmptyTable(m), contents)

-----------------------------------------------------------------------------
(* The process *)

query == Queries[at.query]
scanning == at.scan <= Len(query.scans)
file == IF scanning THEN query.scans[at.scan] ELSE query.name

Idle ==
  /\ kind = "none" /\ pc = "none" /\ at = [query |-> 1, scan |-> 1]
  /\ mem = NoMem /\ local = <<>> /\ data = NoData
  /\ inputs = <<>> /\ results = <<>> /\ forever = <<>>

Init ==
  /\ files = <<>>
  /\ Idle
  /\ torn = {} /\ built = FALSE

Goto(step) == pc' = step /\ UNCHANGED kind

Start(k) ==
  /\ kind = "none"
  /\ kind' = k /\ pc' = "load"
  /\ UNCHANGED <<at, memVars, diskVars>>

\* Whatever ends the process: the memory is the system's again.
ProcessEnds ==
  /\ kind' = "none" /\ pc' = "none" /\ at' = [query |-> 1, scan |-> 1]
  /\ mem' = NoMem /\ local' = <<>> /\ data' = NoData
  /\ inputs' = <<>> /\ results' = <<>> /\ forever' = <<>>
  /\ UNCHANGED files

\* The process is killed, or reads a page past the end of a file.
Crash ==
  /\ kind # "none"
  /\ torn' = IF pc = "dump" THEN torn \cup {file} ELSE torn
  /\ UNCHANGED built
  /\ ProcessEnds

-----------------------------------------------------------------------------
(* load_join_pipeline: the tables of the scans *)

\* result_cache.find(path)
Hits == {t \in Range(forever) : t.file = file /\ file \in Unfiltered}

\* Table::from_csv: the filtered table, or a copy of the one kept; a table
\* without a filter leaves a copy in result_cache.
FromCsv ==
  /\ pc = "load" /\ scanning
  /\ kind = "csv" \/ (kind = "build" /\ file \notin DOMAIN files)
  /\ IF Hits # {}
     THEN \E hit \in Hits :
       LET table == NewTable(mem, ReadAll(mem, hit.columns)) IN
       /\ local' = table.columns /\ mem' = table.mem
       /\ UNCHANGED forever
     ELSE LET table == NewTable(mem, Truth(file))
              copy == NewTable(table.mem, ReadAll(table.mem, table.columns))
          IN /\ local' = table.columns
             /\ IF file \in Unfiltered
                THEN /\ mem' = copy.mem
                     /\ forever' = Append(forever, [file |-> file, columns |-> copy.columns])
                ELSE mem' = table.mem /\ UNCHANGED forever
  /\ Goto(IF kind = "build" THEN "open" ELSE "loaded")
  /\ UNCHANGED <<at, data, inputs, results, diskVars>>

NextScan == at' = [at EXCEPT !.scan = @ + 1]

\* "Table already in cache"
SkipScan ==
  /\ pc = "load" /\ scanning /\ kind = "build" /\ file \in DOMAIN files
  /\ NextScan
  /\ Goto("load")
  /\ UNCHANGED <<memVars, diskVars>>

\* plan.new_input(std::move(table))
NewInput ==
  /\ pc = "loaded" /\ scanning
  /\ inputs' = Append(inputs, [file |-> file, columns |-> local])
  /\ local' = <<>>
  /\ NextScan
  /\ Goto("load")
  /\ UNCHANGED <<mem, data, results, forever, diskVars>>

-----------------------------------------------------------------------------
(* DumpTable *)

\* The header page, then the pages, column by column.
Header(columns) == [numPages |-> [i \in DOMAIN columns |-> Len(columns[i].pages)]]
Blocks(columns) == <<Header(columns)>> \o FlattenSeq(ReadAll(mem, columns))

\* The result of the query as the database gives it, in a table that is
\* never deleted, unless its file is there.
QueryResult ==
  /\ pc = "load" /\ ~scanning /\ kind = "build"
  /\ IF file \in DOMAIN files
     THEN Goto("end") /\ UNCHANGED <<mem, local>>
     ELSE LET table == NewTable(mem, Truth(file)) IN
          local' = table.columns /\ mem' = table.mem /\ Goto("open")
  /\ UNCHANGED <<at, data, inputs, results, forever, diskVars>>

OpenFile ==
  /\ pc = "open"
  /\ files' = With(files, file, <<>>)
  /\ Goto("dump")
  /\ UNCHANGED <<at, memVars, torn, built>>

Dump ==
  /\ pc = "dump" /\ Len(files[file]) < Len(Blocks(local))
  /\ files' = [files EXCEPT ![file] = Append(@, Blocks(local)[Len(@) + 1])]
  /\ Goto("dump")
  /\ UNCHANGED <<at, memVars, torn, built>>

CloseFile ==
  /\ pc = "dump" /\ Len(files[file]) = Len(Blocks(local))
  /\ IF scanning
     THEN Goto("loaded") /\ UNCHANGED <<local, forever>>
     ELSE /\ forever' = Append(forever, [file |-> file, columns |-> local])
          /\ local' = <<>>
          /\ Goto("end")
  /\ UNCHANGED <<at, mem, data, inputs, results, diskVars>>

-----------------------------------------------------------------------------
(* Table::from_cache, of a scan's table and of the expected result *)

atCache == \/ pc = "load" /\ scanning
           \/ pc = "executed"

\* The file does not exist, or is empty.
Throw ==
  /\ kind = "cache" /\ atCache /\ (file \in DOMAIN files => files[file] = <<>>)
  /\ Goto("unwind")
  /\ UNCHANGED <<at, memVars, diskVars>>

MapFile ==
  /\ kind = "cache" /\ atCache /\ file \in DOMAIN files /\ files[file] # <<>>
  /\ LET a == Fresh(DOMAIN mem.maps) IN
     /\ mem' = [mem EXCEPT !.maps = With(@, a, [blocks |-> files[file], refs |-> 0])]
     /\ data' = [map |-> a, block |-> 2]
  /\ local' = <<>>
  /\ Goto("map")
  /\ UNCHANGED <<at, inputs, results, forever, diskVars>>

meta == mem.maps[data.map].blocks[1]

\* (data starts over at every column.)
MapColumnRestarts ==
  /\ pc = "map" /\ Len(local) < Len(meta.numPages)
  /\ LET i == Len(local) + 1
         grown == EmplaceBack([columns |-> local, mem |-> mem], Column)
         pages == [j \in 1 .. meta.numPages[i] |-> data.block + j - 1]
     IN /\ local' = [grown.columns EXCEPT ![i] = [mapped |-> data.map, pages |-> pages]]
        /\ mem' = [grown.mem EXCEPT !.maps[data.map].refs = @ + 1]
  /\ Goto("map")
  /\ UNCHANGED <<at, data, inputs, results, forever, diskVars>>

\* emplace_back, assign_mapped_memory and the column's pages
MapColumn ==
  /\ pc = "map" /\ Len(local) < Len(meta.numPages)
  /\ LET i == Len(local) + 1
         grown == EmplaceBack([columns |-> local, mem |-> mem], Column)
         pages == [j \in 1 .. meta.numPages[i] |-> data.block + j - 1]
     IN /\ local' = [grown.columns EXCEPT ![i] = [mapped |-> data.map, pages |-> pages]]
        /\ mem' = [grown.mem EXCEPT !.maps[data.map].refs = @ + 1]
        /\ data' = [data EXCEPT !.block = @ + meta.numPages[i]]
  /\ Goto("map")
  /\ UNCHANGED <<at, inputs, results, forever, diskVars>>

TableMapped ==
  /\ pc = "map" /\ Len(local) = Len(meta.numPages)
  /\ data' = NoData
  /\ Goto("loaded")
  /\ UNCHANGED <<at, mem, local, inputs, results, forever, diskVars>>

-----------------------------------------------------------------------------
(* run(): the query, and the end of its variables *)

Readable(m, columns) ==
  \A pages \in Range(ReadAll(m, columns)) : PastEnd \notin Range(pages)

Execute ==
  /\ pc = "load" /\ ~scanning /\ kind \in {"cache", "csv"}
  /\ \A t \in Range(inputs) : Readable(mem, t.columns)
  /\ LET table == NewResult(mem, Truth(file)) IN
     results' = table.columns /\ mem' = table.mem
  /\ Goto(IF kind = "cache" THEN "executed" ELSE "end")
  /\ UNCHANGED <<at, local, data, inputs, forever, diskVars>>

Compare ==
  /\ pc = "loaded" /\ ~scanning
  /\ Readable(mem, local)
  /\ Goto("end")
  /\ UNCHANGED <<at, memVars, diskVars>>

ending == pc \in {"end", "unwind"}

\* expected, results and the plan go, last declared first, column by column.
EndTable(columns) ==
  /\ columns # <<>>
  /\ mem' = Destroy(mem, columns[1])

EndQuery ==
  /\ ending
  /\ \/ EndTable(local) /\ local' = Tail(local) /\ UNCHANGED <<results, inputs>>
     \/ /\ local = <<>>
        /\ EndTable(results) /\ results' = Tail(results) /\ UNCHANGED <<local, inputs>>
     \/ /\ local = <<>> /\ results = <<>> /\ inputs # <<>>
        /\ EndTable(inputs[1].columns)
        /\ inputs' = IF Len(inputs[1].columns) = 1 THEN Tail(inputs)
                     ELSE [inputs EXCEPT ![1].columns = Tail(@)]
        /\ UNCHANGED <<local, results>>
  /\ Goto(pc)
  /\ UNCHANGED <<at, data, forever, diskVars>>

ended == local = <<>> /\ results = <<>> /\ inputs = <<>>

\* (The next query starts at the scan the last one ended at.)
NextQueryKeepsScan ==
  /\ pc = "end" /\ ended /\ at.query < Len(Queries)
  /\ at' = [at EXCEPT !.query = @ + 1]
  /\ Goto("load")
  /\ UNCHANGED <<memVars, diskVars>>

NextQuery ==
  /\ pc = "end" /\ ended /\ at.query < Len(Queries)
  /\ at' = [query |-> at.query + 1, scan |-> 1]
  /\ Goto("load")
  /\ UNCHANGED <<memVars, diskVars>>

Exit ==
  /\ ending /\ ended
  /\ pc = "unwind" \/ at.query = Len(Queries)
  /\ built' = (built \/ (kind = "build" /\ pc = "end"))
  /\ UNCHANGED torn
  /\ ProcessEnds

Next ==
  \/ \E k \in {"build", "cache", "csv"} : Start(k)
  \/ Crash
  \/ FromCsv \/ SkipScan \/ NewInput
  \/ QueryResult \/ OpenFile \/ Dump \/ CloseFile
  \/ Throw \/ MapFile \/ MapColumn \/ TableMapped
  \/ Execute \/ Compare \/ EndQuery \/ NextQuery \/ Exit

Spec == Init /\ [][Next]_vars

-----------------------------------------------------------------------------
(* Properties *)

tables == Range(inputs) \cup Range(forever)
\* The columns that are alive, each with a name of its own.
ColumnsOf(name, n, columns) ==
  {[in |-> name, table |-> n, nr |-> i, column |-> columns[i]] : i \in DOMAIN columns}
ColumnsOfTables(name, t) == UNION {ColumnsOf(name, i, t[i].columns) : i \in DOMAIN t}
live ==
  ColumnsOf("local", 0, local) \cup ColumnsOf("results", 0, results)
    \cup ColumnsOfTables("inputs", inputs) \cup ColumnsOfTables("forever", forever)
Mapped == {c \in live : c.column.mapped # NoMemory}

\* Every file is missing or a sequence of at most the blocks of its table, a
\* process is at a step of its own, and history is about existing files.
TypeOK ==
  /\ DOMAIN files \subseteq Files
  /\ \A f \in DOMAIN files : Len(files[f]) <= 1 + SumFunction(NumPages[f])
  /\ kind \in {"none", "build", "cache", "csv"}
  /\ pc \in {"none", "load", "open", "dump", "map", "loaded", "executed", "end", "unwind"}
  /\ (kind = "none") <=> (pc = "none")
  /\ at \in [query : 1 .. Len(Queries), scan : Nat \ {0}]
  /\ at.scan <= Len(query.scans) + 1
  /\ torn \subseteq DOMAIN files

\* A table that was read from the cache, or made anew, has the pages of its
\* source, each in its column and in order, whichever processes were killed
\* before, unless its own file is torn; and once a builder has gone through
\* all the queries, no query fails but for a torn file.
Expected(f, columns) ==
  (f \in torn /\ kind = "cache") \/ ReadAll(mem, columns) = Truth(f)
CacheExact ==
  /\ ~ending => \A t \in tables : Expected(t.file, t.columns)
  /\ pc = "loaded" => Expected(file, local)
  /\ pc = "unwind" /\ built => file \in torn

\* Every page that was allocated belongs to one column that is alive, and
\* every page of such a column is allocated; a mapping lives as long as a
\* column holds it, and counts the columns that do: nothing is freed twice,
\* used after it is freed, or left behind when a query ends.
OwnedOnce ==
  /\ \A p \in DOMAIN mem.heap :
       \E c \in live \ Mapped :
         /\ Cardinality({j \in DOMAIN c.column.pages : c.column.pages[j] = p}) = 1
         /\ \A d \in live \ Mapped : d # c => p \notin Range(d.column.pages)
  /\ \A c \in live \ Mapped : Range(c.column.pages) \subseteq DOMAIN mem.heap
  /\ \A c \in Mapped : c.column.mapped \in DOMAIN mem.maps
  /\ \A a \in DOMAIN mem.maps :
       /\ mem.maps[a].refs = Cardinality({c \in Mapped : c.column.mapped = a})
       /\ mem.maps[a].refs = 0 => pc = "map" /\ local = <<>>
=============================================================================
