---------------------------- MODULE SlabAllocator ----------------------------
(***************************************************************************)
(* The three-level slab allocator (utils.h) under the builds that use it   *)
(* one after the other (unchained_ht.h, build_parallel).  Level 1 hands    *)
(* out LargeChunks from one arena, and from the heap once the arena is     *)
(* used up; level 2 carves a thread's LargeChunk into SmallChunks; level 3 *)
(* carves a partition's SmallChunk into entries.                           *)
(*                                                                         *)
(* An address is <<large, small, entry>>.  The next pointer at the head of *)
(* a chunk takes the room of one of the pieces it would otherwise hold:    *)
(* 15 of the 16 SmallChunks of a LargeChunk, 255 of the 256 entries of a   *)
(* SmallChunk.                                                             *)
(***************************************************************************)
EXTENDS Naturals, FiniteSets, FiniteSetsExt, Functions, ThreadIds

CONSTANTS
  NumPartitions,   \* NUM_PARTITIONS
  SmallsPerLarge,  \* SMALLS_PER_LARGE, sizes without the header: 16
  TuplesPerSmall,  \* TUPLES_PER_SMALL, sizes without the header: 256
  Totals,          \* the total_tuples of the builds
  MaxBuilds        \* bound: builds that reuse the arena

ASSUME SlabAssumption ==
  /\ NumPartitions \in Nat \ {0}
  /\ SmallsPerLarge \in Nat /\ SmallsPerLarge > 1
  /\ TuplesPerSmall \in Nat /\ TuplesPerSmall > 1
  /\ Totals \subseteq Nat
  /\ MaxBuilds \in Nat

Partitions == 0 .. NumPartitions - 1

\* What a chunk's data array holds.
SmallsHeld == SmallsPerLarge - 1
EntriesHeld == TuplesPerSmall - 1

VARIABLES
  arenaCapacity,  \* arena_capacity_, in LargeChunks
  nextIdx,        \* next_idx_
  heap,           \* LargeChunks obtained from the heap so far, never given back
  building,       \* is a build between its reserve and its end
  builds,         \* builds so far
  rows,           \* per thread: rows with a key it has still to visit
  level2,         \* per thread: its current LargeChunk and the next SmallChunk
  level3,         \* per thread and partition: its SmallChunk and the next entry
  memory          \* addresses this build has written an entry to

globalVars == <<arenaCapacity, nextIdx, heap>>
slabVars == <<globalVars, building, builds, rows, level2, level3, memory>>

\* The chunks of the two upper levels, "none" for no chunk.
Larges == {"none", "arena", "heap"} \X Nat
Smalls == Larges \X (0 .. SmallsHeld - 1)

\* An allocator without space: current and end are null.
NoLarge == [chunk |-> <<"none", 0>>, current |-> SmallsHeld]
NoSmall == [chunk |-> <<<<"none", 0>>, 0>>, current |-> EntriesHeld]

SlabTypeOK ==
  /\ arenaCapacity \in Nat
  /\ nextIdx \in Nat
  /\ heap \in Nat
  /\ building \in BOOLEAN
  /\ builds \in 0 .. MaxBuilds
  /\ rows \in [Workers -> Nat]
  /\ level2 \in [Workers -> [chunk : Larges, current : 0 .. SmallsHeld]]
  /\ level3 \in [Workers -> [Partitions -> [chunk : Smalls, current : 0 .. EntriesHeld]]]
  /\ memory \subseteq Smalls \X Nat

NewStates ==
  /\ level2' = [t \in Workers |-> NoLarge]
  /\ level3' = [t \in Workers |-> [p \in Partitions |-> NoSmall]]
  /\ memory' = {}

SlabInit ==
  /\ arenaCapacity = 0
  /\ nextIdx = 0
  /\ heap = 0
  /\ building = FALSE
  /\ builds = 0
  /\ rows = [t \in Workers |-> 0]
  /\ level2 = [t \in Workers |-> NoLarge]
  /\ level3 = [t \in Workers |-> [p \in Partitions |-> NoSmall]]
  /\ memory = {}

-----------------------------------------------------------------------------
CeilDiv(n, d) == (n + d - 1) \div d

\* num_large_chunks: what build_parallel takes a build to need.
NumLargeChunks(total) ==
  CeilDiv(total, TuplesPerSmall * SmallsPerLarge)
    + NumThreads * (CeilDiv(NumPartitions, SmallsPerLarge) + 1)

\* The rows of thread t: its share of the total, cut off at the end.
RangeSize(t, total) ==
  LET share == CeilDiv(total, NumThreads)
  IN  Min({(t + 1) * share, total}) - Min({t * share, total})

\* reserve: the arena only grows.
Reserved(n) == IF n <= arenaCapacity THEN arenaCapacity ELSE n

\* reset, reserve, and a fresh ThreadLocalState per thread.  A row that is NULL
\* takes no entry; a thread may find nothing but NULLs in its range.
StartBuild ==
  /\ ~building
  /\ builds < MaxBuilds
  /\ building' = TRUE
  /\ builds' = builds + 1
  /\ \E total \in Totals :
       /\ nextIdx' = 0
       /\ arenaCapacity' = Reserved(NumLargeChunks(total))
       /\ \E keyless \in SUBSET Workers :
            rows' = [t \in Workers |-> IF t \in keyless THEN 0 ELSE RangeSize(t, total)]
  /\ NewStates
  /\ UNCHANGED heap

\* GlobalAllocator::allocate: the chunk that it returns.
LargeChunk ==
  IF nextIdx < arenaCapacity THEN <<"arena", nextIdx>> ELSE <<"heap", heap>>

\* Variant: next_idx_ is a plain counter, whose increments may get lost.
AllocateRacy ==
  /\ nextIdx' \in {nextIdx, nextIdx + 1}
  /\ heap' = IF nextIdx < arenaCapacity THEN heap ELSE heap + 1
  /\ UNCHANGED arenaCapacity

\* next_idx_.fetch_add, and aligned_alloc past the end of the arena.
Allocate ==
  /\ nextIdx' = nextIdx + 1
  /\ heap' = IF nextIdx < arenaCapacity THEN heap ELSE heap + 1
  /\ UNCHANGED arenaCapacity

\* Variant: the entry's place is not taken.
PlaceNoBump(t, p, small, current) ==
  /\ level3' = [level3 EXCEPT ![t][p] = [chunk |-> small, current |-> current]]
  /\ memory' = memory \union {<<small, current>>}

\* The entry goes to the next place of a SmallChunk, and takes it.
Place(t, p, small, current) ==
  /\ level3' = [level3 EXCEPT ![t][p] = [chunk |-> small, current |-> current + 1]]
  /\ memory' = memory \union {<<small, current>>}

\* Variant: level 2 carves one SmallChunk too many.
Level2FullLate(t) == level2[t].current > SmallsHeld

\* free_space() < sizeof(SmallChunk)
Level2Full(t) == level2[t].current = SmallsHeld

\* consume, where the partition's SmallChunk has room, ...
ConsumeInSmall(t, p) ==
  /\ level3[t][p].current < EntriesHeld
  /\ Place(t, p, level3[t][p].chunk, level3[t][p].current)
  /\ UNCHANGED <<globalVars, level2>>

\* ... where it needs another SmallChunk of the thread's LargeChunk, ...
ConsumeNewSmall(t, p) ==
  /\ level3[t][p].current = EntriesHeld
  /\ ~Level2Full(t)
  /\ level2' = [level2 EXCEPT ![t] = [chunk |-> @.chunk, current |-> @.current + 1]]
  /\ Place(t, p, <<level2[t].chunk, level2[t].current>>, 0)
  /\ UNCHANGED globalVars

\* ... and where the thread needs another LargeChunk as well.
ConsumeNewLarge(t, p) ==
  /\ level3[t][p].current = EntriesHeld
  /\ Level2Full(t)
  /\ Allocate
  /\ level2' = [level2 EXCEPT ![t] = [chunk |-> LargeChunk, current |-> 1]]
  /\ Place(t, p, <<LargeChunk, 0>>, 0)

\* The next row of thread t, which belongs to partition p.
Consume(t, p) ==
  /\ rows[t] > 0
  /\ rows' = [rows EXCEPT ![t] = @ - 1]
  /\ ConsumeInSmall(t, p) \/ ConsumeNewSmall(t, p) \/ ConsumeNewLarge(t, p)
  /\ UNCHANGED <<building, builds>>

\* The thread states are deleted; the chunks stay where they are, in the
\* arena for the next build, on the heap for nobody.
EndBuild ==
  /\ building
  /\ \A t \in Workers : rows[t] = 0
  /\ building' = FALSE
  /\ NewStates
  /\ UNCHANGED <<globalVars, builds, rows>>

\* All queries have run.
Stop ==
  /\ ~building
  /\ builds = MaxBuilds
  /\ UNCHANGED slabVars

SlabNext ==
  \/ StartBuild
  \/ \E t \in Workers, p \in Partitions : Consume(t, p)
  \/ EndBuild
  \/ Stop

SlabSpec == SlabInit /\ [][SlabNext]_slabVars

-----------------------------------------------------------------------------
(* Properties *)

\* No two threads, and no two partitions of a thread, ever carve entries out
\* of one SmallChunk: the scatter pass writes without synchronisation.
NoSharedChunk ==
  \A t, u \in Workers, p, q \in Partitions :
    <<t, p>> # <<u, q>> /\ level3[t][p] # NoSmall /\ level3[u][q] # NoSmall
      => level3[t][p].chunk # level3[u][q].chunk

\* An entry is only ever written to a place that holds no entry of the same
\* build, and inside the data of the chunk and arena it was carved from.
EntriesApart ==
  [][\A t \in Workers, p \in Partitions : Consume(t, p) =>
       /\ Cardinality(memory') = Cardinality(memory) + 1
       /\ \A a \in memory' \ memory :
            /\ a[1][2] < SmallsHeld
            /\ a[2] < EntriesHeld
            /\ a[1][1][1] = "arena" => a[1][1][2] < arenaCapacity]_slabVars
=============================================================================
