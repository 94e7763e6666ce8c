# Verification of the Optimized Hash Join Pipeline

TLA+ models of the engine in `../src`, the TLC runs that check them on small
instances, and proofs checked by TLAPS. Paths below are relative to `src/`.

## 1. Inventory

The engine loads CSV files into columnar tables, runs a plan of scans and
equi-joins on INT32 keys over them, and materializes the result. The
components, the state they keep, and what makes them hard:

| component | source | state | operations | hard because |
|---|---|---|---|---|
| `ThreadPool` | `include/utils.h:306-377` | `mtx_`, `cv_start_`, `cv_done_`, `task_`, `generation_`, `active_count_`, `shutdown_`; per worker `my_generation`, `local_task` | constructor, `worker_loop`, `run_parallel`, destructor | a counter updated outside the mutex and tested inside, a notification outside the mutex, workers of one call late into the next |
| `FilterThreadPool` | `include/inner_column.h:13-105` | per worker: mutex, condition variable, `has_function`, `finished`, `destructed`; shared `function`, `num_tasks` | `run_loop`, `run`, destructor | caller and worker sleep on one variable, `notify_one` without the mutex, `function` written without a mutex |
| Unchained hash table | `include/unchained_ht.h:274-459` | `directory` (address and 16-bit tag per slot, from index -1), `tuples` | `build_parallel`, `postProcessBuild`, `lookup` | two parallel passes without locks; one directory word is a count, then an address, then the end of its range |
| Slab allocator | `include/utils.h:160-297` | arena, `arena_capacity_`, `next_idx_`; per thread level 2, per thread and partition level 3 and `counts` | `reset`, `reserve`, `allocate`, `add_space`, `consume` | shared by all threads and all builds; arena not cleared between builds; heap when it runs out |
| Join | `src/execute.cpp:25-240` | `work_counter`, `thread_results`, `results` | `JoinAlgorithm::run` | threads steal pages; three different ways from a row number to a place |
| Page encodings, scan | `include/plan.h:212-395`, `src/build_table.cpp:513-882`, `src/execute.cpp:244-435` | `column.pages`, the page being filled | `insert`, `insert_null`, `finalize`, `from_columnar`, `build_column_inserter`, `get_value` | two encoders and three decoders of one format; regions of a page that grow towards each other |
| Late materialization | `src/execute.cpp:438-543` | `thread_pages` | `materialize_columnar_table_parallel` | goes back to the page by a handle of page number and offset; rows split over workers whose pages are joined again |
| CSV parser | `include/csv_parser.h`, `src/csv_parser.cpp` | `current_field_`, column and row numbers, six flags | `execute`, `finish` | the file arrives in chunks that may end anywhere |
| Filters and loading | `src/build_table.cpp:99-376`, `src/statement.cpp`, `include/inner_column.h:107-584` | `table_cache`, `result_cache`, columns with bitmaps | `from_csv`, `eval` (two of them), the kernels, `from_inner_to_column` | caches by path; bitmaps with unused bits; bytes of one vector written by several workers without a lock |
| Plan execution | `src/execute.cpp:213-435` | the results of the plan's nodes | `execute_impl`, `execute_hash_join`, `execute_scan`, `build_column_inserter` | columns of two layouts pass from node to node, each read by row numbers |
| Column ownership, mapped files | `include/plan.h:28-166`, `src/build_table.cpp:131-203` | `refs`, `mapped_memory`, `pages` | `new_page`, `assign_mapped_memory`, move, destructor, `copy`, `from_cache` | a count kept by hand; vectors that move their columns when they grow |
| Driver and table cache | `tests/read_sql.cpp:1111-1159, 1313-1464`, `include/table.h:30-35, 128-212` | files `cache/*.tbl`, `plan.inputs`, `results`, `expected` | `load_join_pipeline`, `DumpTable`, `run`, `main` | three builds share one directory; a process may be killed while it writes |
| SQL parser, printing, test data | the rest of `tests/`, `include/hardware*.h`, `plans.json`, `job/` | | | not part of the engine |

How they interact: `from_csv` feeds chunks to the CSV parser, evaluates the
filter and converts the columns on the `FilterThreadPool`; the conversion and
the materialization use `ColumnInserter`. `execute` walks the plan; a join
builds a hash table and probes it, both on the `ThreadPool`; the build takes
its memory from the slab allocator. Joins pass columns of integers and of string
handles upwards; the materialization reads the base tables' pages again.

What makes each correct:

* the pools: `run` and `run_parallel` return when, and only when, every worker
  has done the task once; no wakeup is lost; the destructor ends;
* the hash table: a lookup gives each row of its key, once; two threads never
  touch the same word;
* the allocator: no two entries in one place;
* the join: the nested loop's rows, each once, columns together;
* the encodings: what a decoder reads is what was inserted;
* the parser: chunks do not show;
* loading: the rows that pass the filter, by whichever evaluator and cache; no
  two workers on one byte;
* a plan: at every node the rows of nested loops over the base tables;
* the result: the rows of the plan's root, in their order, whatever the shares;
* the cache on disk: a table read from it is the one that was dumped;
* ownership: every page and mapping is freed once, after its last use.

## 2. Modules

| module | models | built on |
|---|---|---|
| `ForkJoin` | what `ThreadPool` promises: the abstract specification | |
| `ThreadIds` | the threads of a pool: their number, a constant, and their names | |
| `ThreadPool` | the pool, implements `ForkJoin` | `ThreadIds` |
| `Utils_proofs` | the theorems of `ThreadPool` and `SlabAllocator`, which are both `include/utils.h` | `ThreadPool`, `SlabAllocator` |
| `Shares` | how the load path's pool divides tasks over its threads | `ThreadIds` |
| `FilterThreadPool` | the load path's pool, implements `ForkJoin` too | `Shares` |
| `UnchainedHashTable` | parallel build and lookup | actions of `ForkJoin` |
| `UnchainedHashTable_proofs` | its theorems | `UnchainedHashTable`, `Counting` |
| `SlabAllocator` | three levels, several builds | `ThreadIds` |
| `PlanExecution` | a plan of scans and joins | actions of `ForkJoin`; the table as `LookupExact` describes it |
| `PlanExecution_proofs` | its theorems | `PlanExecution`, `Counting` |
| `Counting` | lemmas about numbers, sums over finite sets, listings, flattened sequences and folds, for all that build on it | the libraries' theorems |
| `NumericPages` | fixed-width columns | |
| `StringPages` | VARCHAR columns, handles, and the reading of one | |
| `Materialization` | a column from its base table's pages to the result's | `NumericPages`, `StringPages`, actions of `ForkJoin` |
| `Materialization_proofs` | its theorems, and those of `NumericPages` and `StringPages` | `Materialization`, `Counting` |
| `CsvParser` | `execute` and `finish`, chunk by chunk | |
| `CsvParser_proofs` | its theorems | `CsvParser`, `Counting` |
| `FilteredLoad` | `from_csv` around the parser | rows as the parser delivers them; `Shares`, actions of `ForkJoin` |
| `LoadPath_proofs` | the theorems of `FilterThreadPool` and `FilteredLoad` | `FilterThreadPool`, `FilteredLoad`, `Counting` |
| `TableCache` | the driver's processes, the files they share, who owns pages | tables as `LoadExact` and `ResultExact` describe them |
| `TableCache_proofs` | its theorems | `TableCache`, `Counting` |

The modules fit together by their promises. `ThreadPool` is shown to implement
`ForkJoin`, so `UnchainedHashTable`, `PlanExecution` and `Materialization` use
`ForkJoin`'s four variables instead of mutexes, and so does `FilteredLoad`, whose
pool implements it as well. `UnchainedHashTable!LookupExact` is what
`PlanExecution` assumes of the table (`BuildTable` picks any order of a key's
rows), and `PlanExecution!QueryExact` is why `Materialization` may start from
any choice of rows (the constant `Picks`). The hash
table's chunk lists take each chunk to be private and of unknown content:
`SlabAllocator!NoSharedChunk` and `EntriesApart` justify the first; a reused
arena is why the content is `Garbage`.

### State and actions against the code

**ThreadPool.** One variable per member, one `pcWorker` per worker. A step is
one acquisition of `mtx_`, one evaluation of a predicate, one block, one
notification or one atomic operation. A worker evaluates `cv_start_.wait`'s
predicate with the lock (`"check"`), and releases the lock and blocks in one
step, as the standard guarantees (`"sleep"` to `"waiting"`). `active_count_`
changes outside the lock (`WorkerCountOut`), which is the interesting part. A
task is the number of the call that published it.

**FilterThreadPool.** Same granularity, but a critical section that cannot block
(`CallerSet`, `CallerShut`) is one step; a worker's mutex is held exactly where
`Held` says. `ran` counts how often each task was run.

**UnchainedHashTable.** Both tasks step by step: one row scattered, one entry
counted, one slot summed, one entry copied. A directory word is its address
field and its tag field, whose bits do not overlap in the code
(48 and 16); a hash is its leading bits. The model keeps the code's re-use of one word as count, address and
end, the directory's index -1, and the derivation of the newest chunk's fill
from the count.

**SlabAllocator.** An address is `<<large, small, entry>>`. The `next` pointer
of a chunk takes the place of a piece, so that a LargeChunk of 16 units holds 15
SmallChunks and a SmallChunk of 256 units 255 entries.

**PlanExecution.** `stack` holds the calls of `execute_impl` with what their
children have returned. A column is its units (pages or buffers) and the width
`get_value` divides by; a VARCHAR value is its place, so that equal rows of a
result can be told apart. A thread goes through its unit in one step: it writes to
its own buffers only. The reference, `Meaning`, is the plan as nested loops over
the inputs; its rows carry the numbers of the base rows they are made of, so that they
are a set and equal rows stay apart. `ExecutionAssumption` is what a plan of the
driver and of the tests satisfies: a join's nodes were made before it
(`new_join_node`, `include/plan.h:179`) and the root last, attributes are in range, the types in
`output_attrs` are those of the columns, joins compare INT32, and the columns of a
table are of one length. The code checks none of these.

**NumericPages, StringPages.** A page is its bitmap and its values (or strings);
sizes in bytes decide when it is full, as in the code, and what a decoder reads
where regions overlap is `Corrupt`. Values and strings are row numbers: no
two alike. `NumericPages` has both encoders by its constant `Reserve`. An
inserter is a record and its operations are operators on it, so that the loader
and each worker of the materialization have one of their own.

**Materialization.** The column is of one type; the variables of the other page
module stay as they are at the start. `value_t` keeps the overlap of the union:
an integer's status lies on a string's page number and offset. The constant `Picks`
gives the sequences of rows that the joins may hand on, of so many rows; of it nothing is assumed but
that they are rows (`PicksAssumption`). A worker encodes its share in one step, on pages of its own.

**CsvParser.** One action per branch of `execute`'s loop, one for each of the two
resumptions, and those of `finish`. The reference is `Content`, a
recogniser of the format that knows no chunks.

**FilteredLoad.** A column has `data` and a `bitmap` of bytes (sets of bits). A
statement is the sequence of its nodes in the order they are made, each operation behind its children
(`IsStatement`); its evaluation is a sequence of calls in post order (`PostOrder`). Each kernel is
dispatched to the pool, a worker reads and writes each byte of its share in two
steps, and converts columns one by one. The evaluator on columns is checked against
the one on records, which is the code's other implementation of the same
statements. `Int32Half` is 2^31: integers of the column are INT32 values, and the kernels
narrow a literal to them (`ToInt32`). A pool's calls are counted, and bounded, for each load
apart (`MaxRuns`).

**TableCache.** A process is one of the three builds of the driver, `"build"`,
`"cache"` or `"csv"`; one runs at a time, any number one after the other, and any may
be killed at any step (`Crash`), also by the signal for a page behind the end of a file.
A file is a sequence of blocks of a page's size, the first its `TableMeta`. Pages
from `new` have addresses in `mem.heap`, mappings in `mem.maps` with their `refs`.
`EmplaceBack` is `std::vector`'s: a full one moves its columns and destroys the old.
`EndQuery` destroys the columns of `expected`, `results` and the plan in the
order of the scope's end, for a return and an exception alike. What is never deleted
in the code (`result_cache`, the table `DumpTable` makes of a result) is in `forever`.
`torn` and `built` are history, read by the property only.

Definitions introduced by a comment "Variant:" are not part of a model: each is the
code with one plausible mistake, and is there to show that a property notices it
(PROJECT.json, `mutants`).

## 3. Runs

| run | instance | shows |
|---|---|---|
| `MCThreadPool` | 3 workers, 2 calls, 1 spurious wakeup | types, `TaskFrameAlive`, `CountMatches`, `NoLostWakeup`, both liveness properties, refinement of `ForkJoin` |
| `MCFilterThreadPool` | 3 workers, 2 calls of 0-4 tasks, 1 spurious wakeup | `EveryTaskOnce`, `NoLostWakeup`, liveness, refinement of `ForkJoin` |
| `MCUnchainedHashTable` | 2 threads, 4 partitions, chunks of 2; every column of up to 3 rows, three longer | `LookupExact`, `NoSlotRace`, `CopyTargetFree`, `BuildEnds` |
| `MCSlabAllocator` | 2 threads, 2 partitions, 2 builds of 5 or 24 rows, the latter past the end of the arena | `NoSharedChunk`, `EntriesApart` |
| `MCPlanExecution` | 3 threads, buffers of 2, pages of 3; one join over 9 left and 6 right columns, and left-deep, right-deep and bushy plans of two and three joins | `QueryExact`, `UnitsTakenOnce`, `QueryEnds` |
| `MCMaterialization` | 3 workers; every INT32 column of up to 9 rows on pages of 15 bytes, every VARCHAR column of up to 5 rows of sizes 0, 3, 9 (the most for a page), 10, 30 (three pages) on pages of 16; 6 page numbers; every choice of up to 3 rows in order, of more all or all but the second, and all twice and backwards | `ReadBack`, `StringsReadBack`, `ScanExact`, `PagesFit`, `HandlesExact`, `ResultExact` |
| `MCInt64Inserter` | 8-byte values, 4 reserved | *violated*: `LoadedExact` |
| `MCStringNulls`, `MCStringLast` | NULLs, no long strings; long strings, no NULLs | *violated*: `MaterializeExact` |
| `MCCsvParser` | every file of up to 5 bytes in every cutting; backslash without, doubled quotes with a comma after each row | `ChunksInvisible` |
| `MCFilteredLoad` | every file of up to 3 rows and two of 5, bytes of 2 bits, 2 workers, two loads with 30 filters or none | `LoadExact`, `BytesApart` |
| `MCTableCache` | 3 builds, any number of processes and crashes; 2 queries, 3 scans, a table of 3 columns and one without rows | `CacheExact`, `OwnedOnce` |

Bounds. Three workers give the last one to finish two others to race with; two
calls let a worker late from the first meet the second; more calls repeat the
protocol with a larger number. Chunks, pages, buffers and bytes of the bitmap
are small so that short inputs fill several of them, with the last one full,
partly full and absent. Three columns make a vector grow at its first, second and
third; two queries let tables, mappings and the caches of one meet the next; a table
that two scans share is found in `result_cache` and on disk. Six page numbers are
fewer than the pages of the longest columns, so that handles are cut. Four partitions over two threads give each thread a second
partition by its stride. Five bytes of CSV hold a quoted escape with both of its neighbours, or a
row with CR LF between two others; a chunk may end at every place in them.
`MaxDispatches`, `MaxSpurious`, `MaxBuilds`, `MaxRows`, `MaxLen`, `MaxRuns` and `MaxLoads`
bound otherwise unbounded behaviour and stand in guards (`TableCache` needs none); where a behaviour is complete
(`Terminated`, `Built`, `Done`, `Stop`, `Finish`, `NoMoreLoads`) it stutters, so that
TLC's deadlock check stays on and a deadlock is a thread that waits for ever.

Fairness. `ThreadPool`, `FilterThreadPool`, `UnchainedHashTable` and `PlanExecution`
assume weak fairness of each worker's step and of the caller's: the operating
system runs every thread that can run. Nothing is assumed of `Call`, `Run` and the
destructor (the program need not call) nor of spurious wakeups. Weak
fairness is enough although locks are contended: a worker takes its mutex a bounded number
of times before it sleeps. The other modules have no liveness properties: that their
calls of a pool return is the pools' liveness.

### What the violated properties show

* **`ColumnInserter<int64_t>` and `<double>`** (`include/plan.h:266`) reserve 4 bytes
  for 8: the bitmap overwrites half of a full page's last value.
* **Strings beside a NULL** (`src/execute.cpp:514`): the materialization places
  the characters by the number of rows, not of strings.
* **A long string as the last row of a column** (`src/execute.cpp:496`): the page
  after the last is read.

### What else the models show

* A build can leave the arena (`include/utils.h:259`). The estimate of
  `build_parallel` divides by 16 and 256, chunks hold 15 and 255. The single
  arena of the repository's README is not what a large build gets, and the chunks
  from the heap are never freed. `MCSlabAllocator` checks that entries stay apart there too.
* With doubled quotes as escapes, a file whose last byte is the closing quote of a
  field is rejected (`src/csv_parser.cpp:129` leaves `quoted_` set,
  `src/csv_parser.cpp:166` looks at it). `from_csv` uses the backslash and
  is not affected; `ChunksInvisible` leaves these files out (`EndsWithEscapeQuote`).
* The two evaluators of a filter disagree on literals beyond INT32.
* A builder killed while it dumps leaves a file that later builders take for
  complete ("Table already in cache", `tests/read_sql.cpp:1142`); nothing in a file says
  whether it is whole. `CacheExact` exempts what is read from such a file and shows
  that the damage stays in it.
* `materialize_columnar_table_parallel` adds pages per worker, so that a result's
  pages are not filled alike: it could not be the input of another plan, whose direct
  access divides by the rows of the first page. No caller does that.
* In a builder, the scan of a table that is in the cache already leaves
  `new_input_id` unset (`tests/read_sql.cpp:1130`); the plan it goes into is not executed.

## 4. Proofs

`Utils_proofs` proves of `ThreadPool`, for every number of workers, calls and spurious
wakeups, the type invariant (`TypeCorrect`), that `active_count_` counts the
workers that still owe the call something (`CountCorrect`), that no worker is in
a task whose caller has gone (`FramesAlive`), that no wakeup is lost
(`WakeupsKept`) and that the pool implements `ForkJoin` (`ImplementsForkJoin`).

None of these is inductive alone. The invariant `IInv` adds: the lock is held by
the thread whose place says so (`LockMatches`); nobody is ahead of the caller
and whoever is in a task has the current one (`GenerationsMatch`); the count is
zero outside a call and `shutdown_` is where the destructor says
(`CallerMatches`); and whoever is about to block has found its predicate false
under the lock, or, for the caller and the count, which changes without it, the last worker is on its
way to the lock (`AboutToBlock`). `CountMatches` is the heart: a worker that
counts itself out is one of those counted, so the count cannot pass below zero,
and a zero means that nobody is in a task. The argument over the
cardinality of `Owing` is `CountStep`; the other conjuncts have a lemma each; the
refinement maps publication to `Dispatch`, copying the task to `Begin`, leaving
it to `End`, finding zero to `Return` and setting `shutdown_` to `Destroy`.
Assumptions: `NumThreads` is positive, the bounds are natural numbers.

`LoadPath_proofs` proves the same of the load path's pool for every number of
workers, calls, tasks and spurious wakeups: `TypeCorrect`, `WakeupsKept`,
`ImplementsForkJoin`, and that a call that returns has run each of its tasks once
(`TasksRunOnce`). Its invariant says how far the caller is in its loops and what the
flags then are (`FlagsMatch`); that the caller and a worker are never both inside
one mutex (`MutexMatches`); that whoever is about to block has found its predicate
false under it (`AboutToBlock`); that only a worker that was given the call runs
(`RunningMatch`); and that a task has been run if and only if the worker whose share it is in has
finished (`RanMatches`). The last needs that the shares of `begin_idx` partition the
tasks: they are apart (`TasksDisjoint`), inside (`TasksInside`), and cover them
(`TasksCover`), by the arithmetic of quotient and remainder. Assumption: there is a worker, and
the bounds are natural numbers.

Its other half is the load itself, for every set of files and of statements, every number of
workers, rows to a byte and loads: the types and the sizes of all bitmaps (`LoadTypeCorrect`), that no two
workers are on one byte (`LoadBytesApart`), and that a load returns the rows that pass, from whichever
cache (`LoadsExact`). The last has a hypothesis, `LiteralsFit`: the literals that integers are
compared with are INT32 values, because the kernels narrow them and the evaluator of records
does not. `LoadInv` has these parts.

* `CallMatches`, `CacheMatches`. The parsed table is `Parse(file)` whenever there is one. `Parsed` says
  what that is: a column's values are in their places, and the bits of its bitmap are those of the rows
  that are not NULL. `result_cache` holds the whole file's rows, whatever filters loads have had.
* `EvalMatches`. `Holding` is the set of the nodes of a statement that hold for a record. The bitmaps
  on `operands` are exact for nodes (`ExactBits`: the bit of a row says whether the node holds
  for it), and the calls still to come lead from these nodes to the last one, the whole statement (`Leads`,
  a sequence of reductions of a stack). `OrderLeads` is that post order does so at the start, by
  induction over the nodes; a kernel that returns takes one reduction off (`NodeReturns`). Of the
  unused bits of the last byte nothing is claimed and nothing needed, although NOT sets them: only
  the bits of rows are read.
* `KernelMatches`. Each byte of the bitmap that is being written is as the kernel found it, or as the node
  wants it (`ByteBefore`, `ByteAfter`), according to whether the worker whose share it is in has passed it.
  This is where the bytes are apart: what a worker has read is what is still there when it
  writes (`WorkersMatch`), because the shares are disjoint. When the pool returns all shares are done, and cover
  all bytes, so the bitmap is exact.
* `ResultsMatch`, `ConvertMatches`, `ReturnMatches`. The final bitmap has the rows that pass; each
  column converted has their values (`FromInnerIs`, over all rows in order), and when the pool returns
  every column has been converted by somebody.

`RecordAgrees` says that the other evaluator, on a record, computes whether the last node
is in `Holding`; with it `LoadsExact` follows.

`CsvParser_proofs` has the two theorems about the CSV parser, for every file, every cutting into chunks, every
escape and with or without the trailing comma: `CsvTypeCorrect` and `CsvChunksInvisible`.
`ChunksInvisible` compares the parser with a *reader* that takes the file byte by byte and knows no
chunks (`Start`, `Read`). The reader at byte `pos` is a fold, and folds have one step more for one
byte more (`AfterStep`). The invariant says that the parser follows it (`Follows`):
outside quotes, in quotes, behind an escape, behind a carriage return, the fields it has in
hand are those of the reader. Each branch of the loop is a lemma (`StepPlain` to
`StepResumeNewline`): the parser and the reader take the byte alike, or the file has a bad row
(`Together`). A bad row stays bad whatever follows (`BadStays`), which is why the parser may
give up where it finds one although the definition looks at the whole file. `Marks` says that
`escaping_` is set inside quotes only and never together with `newlining_`, so that of the two
resumptions at the beginning of a chunk one at most applies. Assumption: the parsers' configurations
(`ParsersAssumption`), and a bound on the file that is a number.

`Utils_proofs` proves of `SlabAllocator`, for every size of arena and chunks, and every number of threads,
partitions, rows and builds, the types (`SlabTypeCorrect`), that no SmallChunk has two
users (`ChunksPrivate`) and that every entry goes to a fresh place inside its chunk
(`PlacesFresh`). `NoSharedChunk` alone is not inductive: that two threads have different
SmallChunks rests on their having different LargeChunks (`LargesApart`), but a
partition goes on carving from a SmallChunk whose LargeChunk its thread has long left.
`SmallsCarved` therefore says of every SmallChunk in use that `allocate` has handed out its
LargeChunk, and that whoever still carves from that LargeChunk is past it;
`SmallsApart` that other threads have other LargeChunks. `MemoryBehind` says of
each written entry that every allocator of its chunks is past it. Assumptions
(`SlabAssumption`): the sizes leave room for a piece beside the `next` pointer.

`UnchainedHashTable_proofs` proves all four invariants of the run. `NoSlotRace`
(`SlotsPrivate`) says that the second pass over the directory needs neither locks nor
atomics. Its invariant follows an
entry from the scatter to the directory. Each chunk list holds entries of its
partition only, and its count alone tells how full the newest chunk is (`ListMatches`,
kept by `consume`: `ConsumeKeeps`), so that the iterator passes on entries of the partition and
no garbage (`VisitedHome`). The slot of such an entry lies between the partition's `start` and
`end`, because both shifts take leading bits of one hash (`SlotInPartition`); the
slots of two partitions do not overlap (`PartitionsApart`); and two threads are
never in one partition, because a thread's partitions have its number as their remainder
(`PostMatches`, `StrideKeepsRemainder`).

`TypeCorrect`, `CopiesLandFree` (`CopyTargetFree`) and `LookupsExact` (`LookupExact`) need to know
what the lists and words hold, not only whose they are. `LookupInv` adds: the lists of a thread
pass on exactly the rows it has scattered, each once (`ListsExact`); a partition's
offset is the number of rows before it (`OffsetsMatch`); and each directory word, in the
three roles it plays in turn, is a number of rows, where `Copied` and `Counted` say which rows the
place of the partition's thread has behind it: in the count pass the rows of the slot
counted so far; after the prefix sums the number of rows of smaller slots; in the copy pass
that number plus the rows of the slot copied so far (`Word`). The
tuples between a slot's first and its next are the rows copied (`Holds`), so a copy lands behind them
and before the next slot's (`TargetFacts`). At the end each word is where the next slot begins, which is
what `lookup` reads as the end of one and the beginning of the other (`BuiltSlot`).
Assumptions: the sizes are positive, the number of hashes
is a multiple of every capacity and that one of the number of partitions (powers of
two in the code), hashes are in range, a key's tag has some bit, and every column has a
capacity above its length (the code doubles until it finds one).

`PlanExecution_proofs` proves the three invariants of the run, for every well-formed plan, every
table, number of threads, and size of pages and buffers: `TypeCorrect`,
`UnitsOnce` (`UnitsTakenOnce`) and `QueriesExact` (`QueryExact`), that
`execute_impl` returns for each node the rows it asks for, each as often as it asks for them.

* What a result has to be. `QueryExact` counts equal rows, which no step can be followed by. A
  *listing* of a set is a sequence that has each element once (`IsListing`); a
  result is an answer of its node (`Answered`) if row i of its columns is row i of some listing
  of the node's rows. `AnsweredAnswers` shows that an answer has the right counts.
* Columns. Cutting values into units and reading row r by `width` gives value r again
  (`RowsOfUnit`, `ColumnFacts`); the row number that the probe works out from a place is
  that row's, by whole units or by adding up the pages before it (`BaseRowIs`). A
  scan's columns are answers (`ScanAnswered`), and types go up with the columns, so that a join finds
  keys where it compares them (`AnsweredKeys`).
* A join. The matches of a unit list the pairs of build and probe rows of that unit that
  agree on a key (`MatchesListPairs`), provided the table lists the rows of each key. Pairs
  become rows one to one, whichever side was built (`PairsAreRows`), and the image of a
  listing under a one-to-one map is a listing, so a listing of all pairs gives an answer
  of the join (`JoinAnswered`).
* The threads. `Gathered` says that each thread's buffers are the images, column by column, of one
  listing of the matches of the units it has gone through, that the threads' units are disjoint,
  and that they make up those probed. That the columns are images of *one* listing is
  what keeps rows together. `UnitsHeld` says who has which unit and that, if the counter is past
  the last unit by some number, as many threads have seen it there; so, when all have left, every unit has been
  gone through (`AllProbed`) and the counter is past the end by at most one per thread
  (`CounterBound`). Joining the buffers in the order of threads is a listing of all
  pairs (`AllGathered`).
* The recursion. `StackFits` says that the calls go down from the root and each has the answers of the
  nodes it has evaluated; a return puts one more in its place (`CallReturns`).

`Inv` is the conjunction of these over the pool, the calls, the hash table and the work; it has
one lemma for each action. The assumption is `ExecutionAssumption` (section 2), which TLC evaluates on the
run's plans.

`Counting` has what these proofs need of finite sums and sequences. The induction theorems of the library
take an operator as a parameter, which the provers cannot instantiate. It proves
induction again with a *set* in the place of the predicate (`NumberInduction`,
`PrefixInduction`), from the library's statement that the order of the numbers is well founded. With
it follow that the folds exist and what they do: that a sum of
sizes of disjoint sets is the size of their union (`SumOfDisjoint`), and that concatenating
listings of disjoint sets lists their union (`FlattenListings`), that it has as many elements as
its parts together (`FlattenLength`) and where each of them is (`FlattenPlaces`, and
`FlattenUniform` for parts of one length).

`Materialization_proofs` has the theorems about columns on pages and about the way of a column
through a query. They assume that the encoder reserves at least the width of a value
(`WideEnough`); `MCInt64Inserter` is what happens otherwise. Of the strings, their sizes, the
size of a page (it has room for a string of no bytes) and `PageIds` nothing more is assumed.

* Integers. Values and bitmap of every page fit (`NumericPagesFit`), for every page
  size, width, number of rows and column. On that rest the decoders. `NumericReadBack` follows from what
  an inserter holds (`Content`: the rows of the pages saved, read back, and then those of the current
  page) being the rows inserted, at every step: a decoder's values do not run into the bitmap
  (`ReadPlainly`), a row more leaves those before it as they were (`ReadGrown`), and saving a page
  moves rows, no more (`SavePageContent`). `NumericScanExact` has to show in addition that a direct
  scan, which divides by the rows of the first page, finds the right page: a page is saved only when
  it is full, and pages without NULLs are all full at the same number of rows (`AlikeRows`), so only
  the last one may have fewer (`FilledButLast`), and row `i` of the column is where the division
  says (`DirectPlace`).
* Strings. Three regions of a page grow at once; a page that the encoder saves has as many strings as
  bits that are set (`GoodPage`), and so is read back by the decoder. A long string is cut over pages
  of one kind first and another next, which the decoder adds up again (`ReadLong`). `Holds`
  says of an encoder's pages that they are read as its rows on top of whatever has been read before
  (`Reads`: without this the pages of two encoders could not be joined), and that the handle of each
  row is placed at its row (`Placed`) and is no other's (`Apart`). It survives
  a short page, a long string and another encoder's pages, if these do not
  begin with the continuation of a string (`Begins`). `StringReadBack` and
  `StringHandlesExact` follow.
* The query. `MInv` says: the table is as inserted (`TableInv`); the result column has a value of
  each row that was picked, which leads back to it (`ColumnInv`); the pages of a worker
  that has left the task are read as its part of the rows (`SharesInv`). The parts follow one another up to
  the last row, whether the workers divide the rows or not, or are more than the rows (`Bound`, `PartIs`), and pages
  read as two parts are read, one behind the other, as the rows of both.
  `QueryResultExact` leaves out what `ResultExact` does: the strings that the two findings are
  about, and columns of more pages than a handle can count. `QueryTableExact` says that the table
  is not harmed by queries, `MaterializationTypeCorrect` gives the types.

`TableCache_proofs` proves the three invariants of the run: `TypeCorrect`, `PagesOwnedOnce`
(`OwnedOnce`) and `CacheCorrect` (`CacheExact`), for every plan file, every number of scans,
columns and pages, and every sequence of processes, each killed at any step or none. `Inv` has
the following parts.

* `Ownership`. `Owned(L, m)` says that the columns `L` own the pages of the memory `m`, each page
  in one place of one column, that no page is without owner, and that a mapping's `refs` is the
  number of its holders. It is about named columns and not about variables, so that it survives
  whatever moves a column: `OwnedRenamed` says that it only depends on the columns up to a bijection
  of their names. A table that moves (`TableMoved`), a table that has lost its first column
  (`TailNamed`) and inputs that have lost their first table (`RestNamed`) are such bijections. What
  changes the memory is said once each: a table of new pages (`TableOwned`), a column destroyed
  (`ColumnGone`), a file mapped (`MappingOwned`), a column more that holds a mapping (`HolderOwned`).
  The vector that grows destroys only columns that have been moved from, which own
  nothing (`GrowthFreesNothing`): this is what the move constructor is for.
* `Exactness`. Tables read as their files. New pages have addresses that were not in use, so what other
  columns hold is kept (`MakingKeeps`, `ReadingKept`), and a table reads as its contents
  (`MadeReads`). The builder's table that is being dumped does too, so that what it
  writes is its file.
* `Disk`. Each file is the start of header and pages, column by column (`PartOf`), and the whole
  of it unless it is torn or being written.
* `MapProgress`. `from_cache` has one running block number for all columns. The pages of column `i`
  start in the file at the number of pages of the columns before it (`StartOf`, from
  `FlattenPlaces`); the invariant says that the running number is there. `MappedReads` concludes that
  a whole file, mapped, reads as its table.
* `Progress` and `Control`. A builder has dealt with the files before the one it is at, so that
  those of all queries are there when it ends; and what is empty at which step.

The columns of a table are made by `FoldLeft`s nested in `FoldLeft`s. `Counting` has what a fold does
element by element (`FoldLeftSteps`) for a constant operator, and the proofs instantiate it for each of the
model's. Assumptions: `ColumnsFit` and `QueriesKnown`.

The listed theorems' properties are checked by TLC on the runs' instances as well, and
`ExecutionAssumption` and the other assumptions are evaluated there.

Every invariant that a passing run checks is also proved, as are the action property `EntriesApart` and the
refinements of `ForkJoin`. Checked by TLC only is liveness (the prover has no rules for fairness and
ENABLED here): `CallReturns`, `DestructorEnds` of both pools, `RunReturns`, `BuildEnds` and `QueryEnds`.

## 5. Not modelled

* `Table::copy_scan` (`src/build_table.cpp:384-511`): a third decoder of the page
  formats that nothing calls.
* Move assignment of a `Column` (`include/plan.h:134`) and the moves of
  `MappedMemory`, which nothing calls: the former would delete mapped pages and
  lose a reference.
* Two processes on one cache at a time, two filters with one hash in a
  file's name, and files torn within a page.
* Widths that need columns beyond the benchmark's: 32-bit row numbers, the `int`
  shifts of the table's constructor (both from 2^30 rows on); the literals of
  filters are within INT32, beyond which the two evaluators disagree
  (`src/statement.cpp:56`). Tables of more than 16 columns, for which a `TableMeta`
  has no room, are excluded by `ColumnsFit`.
* INT64 and FP64 in the scan: `build_column_inserter` has no case for them.
* The SQL parser, the JSON plans, sorting and printing of rows, DuckDB, regular
  expressions (a pattern is the set of strings it matches), hashing (a hash is any
  function of the key), `mmap`'s failures, hardware descriptions.
* Memory that runs out, exceptions from allocation.

## 6. Status

Every component of the engine has its module. Proved for every size are the safety of both
pools, of the slab allocator, of the parallel build of the hash table with the exactness of its
lookups, the exactness of plans of joins on top of it, that pages of fixed-width values read
back and scan as the column they were made from, that pages of strings do and that a query's result
is the rows it asked for, that the CSV parser does not notice where its chunks end, that a load with
a filter returns the rows that pass, and that pages in
memory have one owner and the
cache on disk gives back what was put there. Open: liveness for every size (section 4); the move
assignment of a `Column`, once
something calls it, and scans of INT64 and FP64 columns, once the engine has them.
