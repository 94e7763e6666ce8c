------------------------- MODULE UnchainedHashTable -------------------------
(***************************************************************************)
(* The parallel build of the unchained hash table (unchained_ht.h) by one  *)
(* caller and the workers of a pool that keeps ForkJoin's promise.         *)
(*                                                                         *)
(* First task: each thread scatters its range of rows over its own chunk   *)
(* lists, one per partition (ThreadLocalState::consume).  The caller sums  *)
(* the counts.  Second task: each partition is counted into its directory  *)
(* slots, the counts are turned into addresses, the entries are copied.    *)
(*                                                                         *)
(* A directory word is a record of its 48-bit address and its 16-bit tag;  *)
(* addresses are in units of Entry.  A hash is its leading bits, as far as *)
(* the longest slot number needs them; the tag comes from other bits.      *)
(***************************************************************************)
EXTENDS Integers, Sequences, SequencesExt, FiniteSets, FiniteSetsExt

CONSTANTS
  NumThreads,       \* threads of the pool
  NumPartitions,    \* NUM_PARTITIONS
  EntriesPerChunk,  \* ENTRIES_PER_CHUNK: entries in a SmallChunk
  HashRange,        \* crc_hash(key) is in 0 .. HashRange - 1
  Capacities,       \* what the constructor's doubling can reach
  Keys,             \* the keys looked up, in a column or not
  Hash,             \* crc_hash, its leading bits
  Tag,              \* tags[...], as a set of bits
  Columns,          \* the columns a table is built for
  Null,             \* a row whose status is not set
  Tuples            \* address of the tuple storage

MaxDispatches == 2  \* bound: a build dispatches twice

ASSUME SizesAssumption ==
  /\ NumThreads \in Nat \ {0}
  /\ NumPartitions \in Nat \ {0}
  /\ EntriesPerChunk \in Nat \ {0}
  /\ HashRange \in Nat \ {0}
  /\ Tuples \in Nat
\* Both are powers of two, at least NUM_PARTITIONS and at most 2^64.
ASSUME CapacitiesAssumption ==
  \A c \in Capacities : /\ c \in Nat \ {0}
                        /\ HashRange % c = 0
                        /\ c % NumPartitions = 0
ASSUME HashAssumption ==
  /\ Hash \in [Keys -> 0 .. HashRange - 1]
  /\ \A k \in Keys : Tag[k] # {}
ASSUME ColumnsAssumption ==
  /\ Null \notin Keys
  /\ \A col \in Columns : /\ col \in Seq(Keys \union {Null})
                          /\ \E c \in Capacities : c > Len(col)

Threads == 0 .. NumThreads - 1
Partitions == 0 .. NumPartitions - 1

\* Memory that nothing has written since it was obtained.
Garbage == [key |-> Null, row |-> -1]
\* SmallChunks come from an arena that is not cleared between builds.
FreshChunk == [i \in 1 .. EntriesPerChunk |-> Garbage]

VARIABLES
  calls, todo, running, caller,   \* the pool: see ForkJoin
  col,        \* the build column
  capacity,   \* capacity, from the constructor
  phase,      \* where the caller is in build_parallel
  next,       \* per thread: row_idx in the first task
  level3,     \* per thread and partition: small chunks, newest first, and
              \*   how many entries the newest holds
  counts,     \* per thread and partition: counts
  offsets,    \* partition_offsets
  post,       \* per thread: where it is in postProcessBuild
  directory,  \* directory, from index -1
  tuples      \* tuples

poolVars == <<calls, todo, running, caller>>
tableVars == <<directory, tuples>>
vars == <<poolVars, col, capacity, phase, next, level3, counts, offsets, post,
          tableVars>>

Pool == INSTANCE ForkJoin

NumRows == Len(col)
Slots == 0 .. capacity - 1
Entry == [key : Keys, row : 0 .. NumRows - 1]
MayBeEntry == Entry \union {Garbage}

\* hash >> shift, and hash >> (64 - LOG2_NUM_PARTITIONS).
Slot(k) == Hash[k] \div (HashRange \div capacity)
Partition(k) == Hash[k] \div (HashRange \div NumPartitions)

\* The directory slots of a partition: postProcessBuild's start and end.
FirstSlot(p) == (p * capacity) \div NumPartitions
EndSlot(p) == ((p + 1) * capacity) \div NumPartitions

TypeOK ==
  /\ Pool!TypeOK
  /\ col \in Columns
  /\ capacity \in Capacities /\ capacity > NumRows
  /\ phase \in {"new", "partition", "sums", "post", "built"}
  /\ next \in [Threads -> Nat]
  /\ \A t \in Threads, p \in Partitions :
       /\ level3[t][p].used \in 0 .. EntriesPerChunk
       /\ level3[t][p].chunks \in Seq([1 .. EntriesPerChunk -> MayBeEntry])
       /\ counts[t][p] \in 0 .. NumRows
  /\ offsets \in [Partitions -> 0 .. NumRows]
  /\ post \in [Threads -> [part : Nat, stage : {"count", "prefix", "copy"},
                           src : 0 .. NumThreads, pos : Nat, cur : Nat]]
  /\ directory \in [-1 .. capacity - 1 -> [addr : Nat, tag : SUBSET UNION {Tag[k] : k \in Keys}]]
  /\ tuples \in [Slots -> MayBeEntry]

\* The constructor, for a table of Len(col) rows.
Init ==
  /\ Pool!Init
  /\ col \in Columns
  /\ capacity \in {c \in Capacities : c > Len(col)}
  /\ \A c \in Capacities : c > Len(col) => capacity <= c
  /\ phase = "new"
  /\ next = [t \in Threads |-> 0]
  /\ level3 = [t \in Threads |-> [p \in Partitions |->
                 [chunks |-> <<>>, used |-> EntriesPerChunk]]]
  /\ counts = [t \in Threads |-> [p \in Partitions |-> 0]]
  /\ offsets = [p \in Partitions |-> 0]
  /\ post = [t \in Threads |-> [part |-> t, stage |-> "count", src |-> 0, pos |-> 1, cur |-> 0]]
  /\ directory = [s \in -1 .. capacity - 1 |->
                    [addr |-> IF s = -1 THEN Tuples ELSE 0, tag |-> {}]]
  /\ tuples = [s \in Slots |-> Garbage]

-----------------------------------------------------------------------------
(* The first task *)

TuplesPerThread == (NumRows + NumThreads - 1) \div NumThreads

RangeEnd(t) == Min({(t + 1) * TuplesPerThread, NumRows})

DispatchPartition ==
  /\ phase = "new"
  /\ phase' = "partition"
  /\ Pool!Dispatch
  /\ UNCHANGED <<col, capacity, next, level3, counts, offsets, post, tableVars>>

BeginPartition(t) ==
  /\ phase = "partition"
  /\ Pool!Begin(t)
  /\ next' = [next EXCEPT ![t] = t * TuplesPerThread]
  /\ UNCHANGED <<col, capacity, phase, level3, counts, offsets, post, tableVars>>

\* Variant: a list keeps to its first chunk.
ConsumeOverrun(list, e) ==
  IF list.chunks = <<>>
  THEN [chunks |-> <<[FreshChunk EXCEPT ![1] = e]>>, used |-> 1]
  ELSE [chunks |-> <<[list.chunks[1] EXCEPT ![list.used + 1] = e]>>,
        used |-> list.used + 1]

\* ThreadLocalState::consume and the caller's two assignments: a full list
\* gets a chunk in front, then the entry takes the next place in it.
Consume(list, e) ==
  IF list.used = EntriesPerChunk
  THEN [chunks |-> <<[FreshChunk EXCEPT ![1] = e]>> \o list.chunks, used |-> 1]
  ELSE [chunks |-> <<[list.chunks[1] EXCEPT ![list.used + 1] = e]>> \o Tail(list.chunks),
        used |-> list.used + 1]

\* One row of the thread's range; a row whose status is not set is skipped.
Insert(t) ==
  /\ phase = "partition"
  /\ t \in running
  /\ next[t] < RangeEnd(t)
  /\ next' = [next EXCEPT ![t] = next[t] + 1]
  /\ LET val == col[next[t] + 1]
         p == Partition(val)
     IN  IF val = Null
         THEN UNCHANGED <<level3, counts>>
         ELSE /\ level3' = [level3 EXCEPT ![t][p] =
                              Consume(@, [key |-> val, row |-> next[t]])]
              /\ counts' = [counts EXCEPT ![t][p] = @ + 1]
  /\ UNCHANGED <<poolVars, col, capacity, phase, offsets, post, tableVars>>

EndPartition(t) ==
  /\ phase = "partition"
  /\ next[t] >= RangeEnd(t)
  /\ Pool!End(t)
  /\ UNCHANGED <<col, capacity, phase, next, level3, counts, offsets, post, tableVars>>

ReturnPartition ==
  /\ phase = "partition"
  /\ phase' = "sums"
  /\ Pool!Return
  /\ UNCHANGED <<col, capacity, next, level3, counts, offsets, post, tableVars>>

-----------------------------------------------------------------------------
(* The second task *)

\* count_total
CountTotal(p) == SumFunction([t \in Threads |-> counts[t][p]])

\* Variant: the offset of a partition counts the partition itself.
PartitionOffsetInclusive(p) == SumFunction([q \in 0 .. p |-> CountTotal(q)])

\* partition_offsets[p]
PartitionOffset(p) == SumFunction([q \in 0 .. p - 1 |-> CountTotal(q)])

DispatchPost ==
  /\ phase = "sums"
  /\ phase' = "post"
  /\ offsets' = [p \in Partitions |-> PartitionOffset(p)]
  /\ Pool!Dispatch
  /\ UNCHANGED <<col, capacity, next, level3, counts, post, tableVars>>

BeginPost(t) ==
  /\ phase = "post"
  /\ Pool!Begin(t)
  /\ UNCHANGED <<col, capacity, phase, next, level3, counts, offsets, post, tableVars>>

\* Variant: a newest chunk that is full counts as empty.
FirstChunkEntriesNoWrap(total) == total % EntriesPerChunk

\* first_chunk_entries: how many entries of the newest chunk are in use,
\* which the iterator derives from the count alone.
FirstChunkEntries(total) ==
  IF total % EntriesPerChunk = 0 THEN EntriesPerChunk ELSE total % EntriesPerChunk

\* forEachEntryInPartition: the newest chunk as far as it is in use, then the
\* older ones, which are full, until total entries or all chunks are through.
Visited(t, p) ==
  LET total == counts[t][p]
      chunks == level3[t][p].chunks
      held == FirstChunkEntries(total) + (Len(chunks) - 1) * EntriesPerChunk
  IN  IF total = 0 THEN 0 ELSE Min({total, held})

\* The i-th entry it passes on.
EntryOf(t, p, i) ==
  LET chunks == level3[t][p].chunks
      rest == i - FirstChunkEntries(counts[t][p]) - 1
  IN  IF rest < 0
      THEN chunks[1][i]
      ELSE chunks[2 + (rest \div EntriesPerChunk)][1 + (rest % EntriesPerChunk)]

InPost(t, stage) ==
  /\ phase = "post"
  /\ t \in running
  /\ post[t].part < NumPartitions
  /\ post[t].stage = stage

\* The loop over the threads' states, in both passes over the entries.
HasEntry(t) == post[t].src < NumThreads /\ post[t].pos <= Visited(post[t].src, post[t].part)
EntryAt(t) == EntryOf(post[t].src, post[t].part, post[t].pos)

postUnchanged == <<poolVars, col, capacity, phase, next, level3, counts, offsets>>

\* First pass: the slot counts the entry and takes in its tag.
CountEntry(t) ==
  /\ InPost(t, "count")
  /\ HasEntry(t)
  /\ LET k == EntryAt(t).key
     IN  directory' = [directory EXCEPT ![Slot(k)] =
                         [addr |-> @.addr + 1, tag |-> @.tag \union Tag[k]]]
  /\ post' = [post EXCEPT ![t].pos = @ + 1]
  /\ UNCHANGED <<postUnchanged, tuples>>

NextSource(t) ==
  /\ InPost(t, "count") \/ InPost(t, "copy")
  /\ post[t].src < NumThreads
  /\ ~HasEntry(t)
  /\ post' = [post EXCEPT ![t].src = @ + 1, ![t].pos = 1]
  /\ UNCHANGED <<postUnchanged, tableVars>>

StartPrefix(t) ==
  /\ InPost(t, "count")
  /\ post[t].src = NumThreads
  /\ post' = [post EXCEPT ![t].stage = "prefix",
                          ![t].pos = FirstSlot(post[t].part),
                          ![t].cur = Tuples + offsets[post[t].part]]
  /\ UNCHANGED <<postUnchanged, tableVars>>

\* A slot's count becomes the address of its first entry.
PrefixSlot(t) ==
  /\ InPost(t, "prefix")
  /\ post[t].pos < EndSlot(post[t].part)
  /\ directory' = [directory EXCEPT ![post[t].pos].addr = post[t].cur]
  /\ post' = [post EXCEPT ![t].pos = @ + 1,
                          ![t].cur = @ + directory[post[t].pos].addr]
  /\ UNCHANGED <<postUnchanged, tuples>>

StartCopy(t) ==
  /\ InPost(t, "prefix")
  /\ post[t].pos = EndSlot(post[t].part)
  /\ post' = [post EXCEPT ![t].stage = "copy", ![t].src = 0, ![t].pos = 1]
  /\ UNCHANGED <<postUnchanged, tableVars>>

\* Where the next copy goes.
Target(t) == directory[Slot(EntryAt(t).key)].addr - Tuples

\* Second pass: the entry is copied and the slot's address moves past it.
CopyEntry(t) ==
  /\ InPost(t, "copy")
  /\ HasEntry(t)
  /\ tuples' = [tuples EXCEPT ![Target(t)] = EntryAt(t)]
  /\ directory' = [directory EXCEPT ![Slot(EntryAt(t).key)].addr = @ + 1]
  /\ post' = [post EXCEPT ![t].pos = @ + 1]
  /\ UNCHANGED postUnchanged

\* Variants: the thread goes on with its neighbour's partition, or its own.
NextPartitionByOne(t) == post[t].part + 1
NextPartitionSame(t) == post[t].part

\* The stride of the loop over the partitions.
NextPartition(t) == post[t].part + NumThreads

FinishPartition(t) ==
  /\ InPost(t, "copy")
  /\ post[t].src = NumThreads
  /\ post' = [post EXCEPT ![t] = [part |-> NextPartition(t), stage |-> "count",
                                  src |-> 0, pos |-> 1, cur |-> 0]]
  /\ UNCHANGED <<postUnchanged, tableVars>>

EndPost(t) ==
  /\ phase = "post"
  /\ post[t].part >= NumPartitions
  /\ Pool!End(t)
  /\ UNCHANGED <<col, capacity, phase, next, level3, counts, offsets, post, tableVars>>

\* run_parallel returns and the thread states are deleted.
ReturnPost ==
  /\ phase = "post"
  /\ phase' = "built"
  /\ Pool!Return
  /\ level3' = [t \in Threads |-> [p \in Partitions |->
                  [chunks |-> <<>>, used |-> EntriesPerChunk]]]
  /\ counts' = [t \in Threads |-> [p \in Partitions |-> 0]]
  /\ UNCHANGED <<col, capacity, next, offsets, post, tableVars>>

-----------------------------------------------------------------------------
WorkerStep(t) ==
  \/ BeginPartition(t) \/ Insert(t) \/ EndPartition(t)
  \/ BeginPost(t)
  \/ CountEntry(t) \/ NextSource(t) \/ StartPrefix(t)
  \/ PrefixSlot(t) \/ StartCopy(t)
  \/ CopyEntry(t) \/ FinishPartition(t)
  \/ EndPost(t)

CallerStep ==
  \/ DispatchPartition \/ ReturnPartition
  \/ DispatchPost \/ ReturnPost

\* The table is only read from here on.
Built ==
  /\ phase = "built"
  /\ UNCHANGED vars

Next ==
  \/ \E t \in Threads : WorkerStep(t)
  \/ CallerStep
  \/ Built

\* ThreadPool schedules its workers and its caller fairly.
Fairness ==
  /\ \A t \in Threads : WF_vars(WorkerStep(t))
  /\ WF_vars(CallerStep)

Spec == Init /\ [][Next]_vars /\ Fairness

-----------------------------------------------------------------------------
(* Lookup *)

\* couldContain: the slot's tag has every bit of the key's.
CouldContain(tag, k) == Tag[k] \subseteq tag

\* lookup: the cells from the end of the slot before to the end of its own.
Lookup(k) ==
  LET s == Slot(k)
  IN  IF CouldContain(directory[s].tag, k)
      THEN directory[s - 1].addr - Tuples .. directory[s].addr - Tuples - 1
      ELSE {}

-----------------------------------------------------------------------------
(* Properties *)

Rows(k) == {r \in 0 .. NumRows - 1 : col[r + 1] = k}

\* Once built, the range lookup returns for a key (execute.cpp:101, 139) has
\* each row of that key in one cell, no other cell under that key, no cell
\* that was never written, and no NULL row anywhere.
LookupExact ==
  phase = "built" =>
    \A k \in Keys :
      /\ Lookup(k) \subseteq Slots
      /\ \A c \in Lookup(k) : tuples[c] \in Entry
                              /\ col[tuples[c].row + 1] = tuples[c].key
      /\ \A r \in Rows(k) : Cardinality({c \in Lookup(k) : tuples[c].row = r}) = 1

\* The slots a thread's next step in postProcessBuild reads or writes.
SlotsTouched(t) ==
  IF phase = "post" /\ t \in running /\ post[t].part < NumPartitions
  THEN IF post[t].stage = "prefix"
       THEN IF post[t].pos < EndSlot(post[t].part) THEN {post[t].pos} ELSE {}
       ELSE IF HasEntry(t) THEN {Slot(EntryAt(t).key)} ELSE {}
  ELSE {}

\* postProcessBuild takes no lock and uses no atomics: no two threads are
\* ever about to touch the same directory word.
NoSlotRace ==
  \A t, u \in Threads : t # u => SlotsTouched(t) \intersect SlotsTouched(u) = {}

\* A copy goes to a cell of its own partition that no copy has filled.
CopyTargetFree ==
  \A t \in Threads :
    InPost(t, "copy") /\ HasEntry(t) =>
      /\ Target(t) \in Slots
      /\ Target(t) \in offsets[post[t].part] ..
                         offsets[post[t].part] + CountTotal(post[t].part) - 1
      /\ tuples[Target(t)] = Garbage

\* build_parallel returns, whatever the interleaving of its two tasks.
BuildEnds == <>(phase = "built")
=============================================================================
