---------------------- MODULE UnchainedHashTable_proofs ----------------------
(***************************************************************************)
(* The parallel build of the unchained hash table is right, for every      *)
(* number of threads, partitions, rows and keys, every hash function and   *)
(* every capacity.                                                         *)
(*                                                                         *)
(* First, IInv: a key's slot lies in the slots of the partition its entry  *)
(* was scattered to, and a partition has one thread, so that no two        *)
(* threads of postProcessBuild touch the same directory word.              *)
(*                                                                         *)
(* Then, LookupInv: what the lists, the directory and the tuples hold, in  *)
(* terms of the rows of the column.  The cells of a slot begin at the      *)
(* number of rows whose slots come before it; the lists pass on exactly    *)
(* the rows their thread has come past; each place says which rows its     *)
(* partition has counted and copied.  When all have been copied, lookup    *)
(* returns each row of a key once.                                         *)
(***************************************************************************)
EXTENDS UnchainedHashTable, Counting, NaturalsInduction, TLAPS

\* The column, the capacity the constructor chose for it, and row_idx.
ColumnMatches ==
  /\ col \in Columns
  /\ capacity \in Capacities
  /\ next \in [Threads -> Nat]

\* Chunk lists of entries, used or not.
Cell == [key : Keys \union {Null}, row : Int]
Lists == [chunks : Seq([1 .. EntriesPerChunk -> Cell]), used : 1 .. EntriesPerChunk]

\* The entry of a row that belongs to partition p.
HomeEntry(e, p) == e.key \in Keys /\ Partition(e.key) = p

\* A chunk list and its count: the count tells how full the newest chunk is,
\* the older ones are full, and what they hold belongs to the partition.
ListMatches(list, count, p) ==
  /\ IF Len(list.chunks) = 0
     THEN list.used = EntriesPerChunk /\ count = 0
     ELSE count = list.used + (Len(list.chunks) - 1) * EntriesPerChunk
  /\ \A j \in 1 .. Len(list.chunks), x \in 1 .. EntriesPerChunk :
       j > 1 \/ x <= list.used => HomeEntry(list.chunks[j][x], p)

ListsMatch ==
  /\ level3 \in [Threads -> [Partitions -> Lists]]
  /\ counts \in [Threads -> [Partitions -> Nat]]
  /\ \A t \in Threads, p \in Partitions : ListMatches(level3[t][p], counts[t][p], p)

\* A thread keeps to its stride, and to the slots of its partition.
PlaceMatches(r, t) ==
  /\ DOMAIN r = {"part", "stage", "src", "pos", "cur"}
  /\ r.part \in Nat /\ r.part % NumThreads = t
  /\ r.stage \in {"count", "prefix", "copy"}
  /\ r.src \in 0 .. NumThreads
  /\ r.pos \in Nat
  /\ r.pos >= IF r.stage = "prefix" THEN FirstSlot(r.part) ELSE 1

PostMatches ==
  /\ DOMAIN post = Threads
  /\ \A t \in Threads : PlaceMatches(post[t], t)

IInv == ColumnMatches /\ ListsMatch /\ PostMatches

-----------------------------------------------------------------------------
(* Numbers                                                                 *)

LEMMA SizeFacts ==
  /\ NumThreads \in Nat \ {0}
  /\ NumPartitions \in Nat \ {0}
  /\ EntriesPerChunk \in Nat \ {0}
  /\ HashRange \in Nat \ {0}
  /\ Threads = 0 .. NumThreads - 1
  /\ Partitions = 0 .. NumPartitions - 1
BY SizesAssumption DEF Threads, Partitions

\* Factors in any order.
LEMMA ProductOfThree ==
  ASSUME NEW a \in Nat, NEW b \in Nat, NEW c \in Nat
  PROVE  /\ b * c \in Nat
         /\ (a * b) * c = (b * c) * a
         /\ (a * b) * c = a * (b * c)
OBVIOUS

\* The powers of two, by what the assumption says of them: a partition has
\* slots slots, and a slot hashes hashes.
LEMMA Factors ==
  ASSUME NEW c \in Capacities
  PROVE  \E slots \in Nat \ {0}, hashes \in Nat \ {0} :
           /\ c = slots * NumPartitions
           /\ HashRange \div c = hashes
           /\ HashRange \div NumPartitions = slots * hashes
           /\ HashRange = NumPartitions * (slots * hashes)
<1> DEFINE slots == c \div NumPartitions
           hashes == HashRange \div c
<1>1. c \in Nat \ {0} /\ HashRange % c = 0 /\ c % NumPartitions = 0
  BY CapacitiesAssumption
<1>2. slots \in Nat /\ c = NumPartitions * slots
  BY <1>1, SizeFacts, Multiple
<1>3. hashes \in Nat /\ HashRange = c * hashes
  BY <1>1, SizeFacts, Multiple
<1> HIDE DEF slots, hashes
<1>4. slots # 0 /\ hashes # 0
  <2>1. NumPartitions * 0 = 0 /\ c * 0 = 0
    BY <1>1, SizeFacts
  <2> QED
    BY <1>1, <1>2, <1>3, <2>1, SizeFacts
<1>5. c = slots * NumPartitions
  BY <1>2, SizeFacts
<1>6. HashRange = (slots * hashes) * NumPartitions /\ slots * hashes \in Nat
  <2>1. HashRange = (NumPartitions * slots) * hashes
    BY <1>2, <1>3
  <2> QED
    BY <1>2, <1>3, <2>1, SizeFacts, ProductOfThree
<1>7. HashRange \div NumPartitions = slots * hashes
  BY <1>6, SizeFacts, ExactQuotient
<1>8. HashRange = NumPartitions * (slots * hashes)
  <2>1. (slots * hashes) * NumPartitions = NumPartitions * (slots * hashes)
    BY <1>6, SizeFacts
  <2> QED
    BY <1>6, <2>1
<1> QED
  BY <1>2, <1>3, <1>4, <1>5, <1>7, <1>8 DEF hashes

\* Every key has a partition, ...
LEMMA PartitionType ==
  ASSUME capacity \in Capacities, NEW k \in Keys
  PROVE  Partition(k) \in Partitions
<1>1. PICK slots \in Nat \ {0}, hashes \in Nat \ {0} :
        /\ HashRange \div NumPartitions = slots * hashes
        /\ HashRange = NumPartitions * (slots * hashes)
  BY Factors
<1>2. Hash[k] \in Nat /\ Hash[k] < HashRange
  BY HashAssumption, SizeFacts
<1>3. slots * hashes \in Nat \ {0}
  BY <1>1
<1> DEFINE width == slots * hashes
<1>4. /\ width \in Nat \ {0}
      /\ HashRange = NumPartitions * width
      /\ HashRange \div NumPartitions = width
  BY <1>1, <1>3
<1> HIDE DEF width
<1>5. 0 * width <= Hash[k] /\ Hash[k] < NumPartitions * width
  BY <1>2, <1>4
<1>6. 0 <= Hash[k] \div width /\ Hash[k] \div width < NumPartitions
  BY <1>2, <1>4, <1>5, SizeFacts, QuotientBetween
<1>7. Hash[k] \div width \in Nat
  BY <1>2, <1>4, Division
<1> QED
  BY <1>4, <1>6, <1>7, SizeFacts DEF Partition

\* ... and its slot is one of the partition's.
LEMMA SlotInPartition ==
  ASSUME capacity \in Capacities, NEW k \in Keys, NEW p \in Nat, Partition(k) = p
  PROVE  /\ FirstSlot(p) \in Nat /\ EndSlot(p) \in Nat /\ Slot(k) \in Nat
         /\ FirstSlot(p) <= Slot(k) /\ Slot(k) < EndSlot(p)
<1>1. PICK slots \in Nat \ {0}, hashes \in Nat \ {0} :
        /\ capacity = slots * NumPartitions
        /\ HashRange \div capacity = hashes
        /\ HashRange \div NumPartitions = slots * hashes
  BY Factors
<1>2. Hash[k] \in Nat
  BY HashAssumption, SizeFacts
<1>3. slots * hashes \in Nat \ {0}
  BY <1>1
<1>4. p * slots \in Nat /\ (p + 1) * slots \in Nat
  BY <1>1
<1>5. FirstSlot(p) = p * slots
  <2>1. p * (slots * NumPartitions) = (p * slots) * NumPartitions
    BY <1>1, SizeFacts, ProductOfThree
  <2> QED
    BY <1>1, <1>4, <2>1, SizeFacts, ExactQuotient DEF FirstSlot
<1>6. EndSlot(p) = (p + 1) * slots
  <2>1. (p + 1) * (slots * NumPartitions) = ((p + 1) * slots) * NumPartitions
    BY <1>1, SizeFacts, ProductOfThree
  <2> QED
    BY <1>1, <1>4, <2>1, SizeFacts, ExactQuotient DEF EndSlot
<1>7. p * (slots * hashes) <= Hash[k] /\ Hash[k] < (p + 1) * (slots * hashes)
  <2> DEFINE width == slots * hashes
  <2>1. width \in Nat \ {0} /\ Hash[k] \div width = p
    BY <1>1, <1>3 DEF Partition
  <2> HIDE DEF width
  <2>2. p * width <= Hash[k] /\ Hash[k] < (p + 1) * width
    <3> DEFINE h == Hash[k]
    <3>1. h \in Nat /\ h \div width = p
      BY <1>2, <2>1
    <3> HIDE DEF h
    <3>2. p * width <= h /\ h < (p + 1) * width
      BY <2>1, <3>1, Enclosed
    <3> QED
      BY <3>2 DEF h
  <2> QED
    BY <2>2 DEF width
<1>8. (p * slots) * hashes <= Hash[k] /\ Hash[k] < ((p + 1) * slots) * hashes
  <2>1. /\ (p * slots) * hashes = p * (slots * hashes)
        /\ ((p + 1) * slots) * hashes = (p + 1) * (slots * hashes)
    BY <1>1, ProductOfThree
  <2> QED
    BY <1>7, <2>1
<1>9. Slot(k) = Hash[k] \div hashes
  BY <1>1 DEF Slot
<1>10. p * slots <= Slot(k) /\ Slot(k) < (p + 1) * slots
  BY <1>1, <1>2, <1>4, <1>8, <1>9, QuotientBetween
<1>11. Slot(k) \in Nat
  BY <1>1, <1>2, <1>9, Division
<1> QED
  BY <1>4, <1>5, <1>6, <1>10, <1>11

\* The slots of one partition end before those of a later one begin.
LEMMA PartitionsApart ==
  ASSUME capacity \in Capacities, NEW p \in Nat, NEW q \in Nat, p < q
  PROVE  /\ EndSlot(p) \in Nat /\ FirstSlot(q) \in Nat
         /\ EndSlot(p) <= FirstSlot(q)
<1>1. PICK slots \in Nat \ {0} : capacity = slots * NumPartitions
  BY Factors
<1>2. (p + 1) * slots \in Nat /\ q * slots \in Nat
  BY <1>1
<1>3. EndSlot(p) = (p + 1) * slots
  <2>1. (p + 1) * (slots * NumPartitions) = ((p + 1) * slots) * NumPartitions
    BY <1>1, SizeFacts, ProductOfThree
  <2> QED
    BY <1>1, <1>2, <2>1, SizeFacts, ExactQuotient DEF EndSlot
<1>4. FirstSlot(q) = q * slots
  <2>1. q * (slots * NumPartitions) = (q * slots) * NumPartitions
    BY <1>1, SizeFacts, ProductOfThree
  <2> QED
    BY <1>1, <1>2, <2>1, SizeFacts, ExactQuotient DEF FirstSlot
<1>5. (p + 1) * slots <= q * slots
  <2>1. PICK d \in Nat : q = p + 1 + d
    <3>1. q - (p + 1) \in Nat /\ q = p + 1 + (q - (p + 1))
      OBVIOUS
    <3> QED
      BY <3>1
  <2>2. (p + 1 + d) * slots = (p + 1) * slots + d * slots /\ d * slots \in Nat
    BY <1>1
  <2> QED
    BY <1>2, <2>1, <2>2
<1> QED
  BY <1>2, <1>3, <1>4, <1>5

-----------------------------------------------------------------------------
(* Chunk lists                                                             *)

\* The count alone tells how full the newest chunk is.
LEMMA NewestChunk ==
  ASSUME NEW used \in 1 .. EntriesPerChunk, NEW m \in Nat
  PROVE  FirstChunkEntries(used + m * EntriesPerChunk) = used
<1> DEFINE E == EntriesPerChunk
           total == used + m * E
           r == total % E
<1>1. E \in Nat \ {0} /\ used \in 1 .. E
  BY SizeFacts
<1>2. FirstChunkEntries(used + m * EntriesPerChunk) = IF r = 0 THEN E ELSE r
  BY DEF FirstChunkEntries
<1> HIDE DEF E
<1>3. m * E \in Nat /\ (m + 1) * E = m * E + E /\ E * m = m * E /\ E * (m + 1) = m * E + E
  BY <1>1
<1>4. total \in Nat
  BY <1>1, <1>3
<1>5. CASE used = E
  <2>1. total = (m + 1) * E
    BY <1>1, <1>3, <1>5
  <2>2. total \div E = m + 1
    BY <1>1, <2>1, ExactQuotient
  <2>3. r \in 0 .. E - 1 /\ total = E * (m + 1) + r
    BY <1>1, <1>4, <2>2, Division
  <2> HIDE DEF total, r
  <2>4. r = 0
    BY <1>1, <1>3, <2>1, <2>3
  <2> QED
    BY <1>2, <1>5, <2>4
<1>6. CASE used < E
  <2>1. m * E <= total /\ total < (m + 1) * E
    BY <1>1, <1>3, <1>6
  <2> DEFINE q == total \div E
  <2>2. q \in Nat /\ r \in 0 .. E - 1 /\ total = E * q + r
    BY <1>1, <1>4, Division
  <2>3. m <= q /\ q < m + 1
    <3> HIDE DEF total
    <3>1. m + 1 \in Nat
      OBVIOUS
    <3> QED
      BY <1>1, <1>4, <2>1, <3>1, QuotientBetween
  <2> HIDE DEF q, r
  <2>4. q = m
    BY <2>2, <2>3
  <2>5. r = used
    BY <1>1, <1>3, <2>2, <2>4
  <2> QED
    BY <1>1, <1>2, <2>5
<1> QED
  BY <1>1, <1>5, <1>6

\* forEachEntryInPartition passes on entries of the partition only.
LEMMA VisitedHome ==
  ASSUME ListsMatch, NEW s \in Threads, NEW p \in Partitions,
         NEW i \in Nat, 1 <= i, i <= Visited(s, p)
  PROVE  HomeEntry(EntryOf(s, p, i), p)
<1> DEFINE E == EntriesPerChunk
           list == level3[s][p]
           total == counts[s][p]
           n == Len(list.chunks)
           used == list.used
           rest == i - used - 1
<1>1. list \in Lists /\ total \in Nat /\ ListMatches(list, total, p)
  BY DEF ListsMatch
<1>2. E \in Nat \ {0} /\ used \in 1 .. E /\ n \in Nat
  BY <1>1, SizeFacts DEF Lists
<1>3. Visited(s, p) = IF total = 0 THEN 0
                      ELSE Min({total, FirstChunkEntries(total) + (n - 1) * E})
  BY DEF Visited
<1>4. n # 0 /\ total = used + (n - 1) * E
  <2>1. total = 0 => Visited(s, p) = 0
    BY <1>3
  <2>2. n = 0 => total = 0
    BY <1>1 DEF ListMatches
  <2>3. n # 0 => total = used + (n - 1) * E
    BY <1>1 DEF ListMatches
  <2> QED
    BY <2>1, <2>2, <2>3
<1>5. \A j \in 1 .. n, x \in 1 .. E : j > 1 \/ x <= used => HomeEntry(list.chunks[j][x], p)
  BY <1>1 DEF ListMatches
<1>6. FirstChunkEntries(total) = used
  <2>1. n - 1 \in Nat
    BY <1>2, <1>4
  <2>2. FirstChunkEntries(used + (n - 1) * E) = used
    <3> HIDE DEF used, n
    <3> QED
      BY <1>2, <2>1, NewestChunk
  <2> QED
    BY <1>4, <2>2
<1>7. i <= total
  <2> DEFINE T == total
  <2>1. T \in Nat /\ Visited(s, p) = IF T = 0 THEN 0 ELSE Min({T, T})
    BY <1>1, <1>3, <1>4, <1>6
  <2> HIDE DEF T
  <2>2. Min({T, T}) = T
    BY <2>1 DEF Min
  <2>3. i <= T
    BY <2>1, <2>2
  <2> QED
    BY <2>3 DEF T
<1>8. EntryOf(s, p, i) = IF rest < 0 THEN list.chunks[1][i]
                         ELSE list.chunks[2 + (rest \div E)][1 + (rest % E)]
  BY <1>6 DEF EntryOf
<1> HIDE DEF E, list, total, n, used
<1>9. CASE i <= used
  <2>1. 1 \in 1 .. n /\ i \in 1 .. E /\ rest < 0
    BY <1>2, <1>4, <1>9
  <2> QED
    BY <1>5, <1>8, <1>9, <2>1
<1>10. CASE used < i
  <2>1. rest \in Nat /\ ~(rest < 0) /\ rest < (n - 1) * E /\ 0 * E <= rest
    <3>1. n - 1 \in Nat
      BY <1>2, <1>4
    <3>2. (n - 1) * E \in Nat
      BY <1>2, <3>1
    <3> QED
      BY <1>2, <1>4, <1>7, <1>10, <3>2
  <2> HIDE DEF rest
  <2>2. n - 1 \in Nat
    BY <1>2, <1>4
  <2>3. rest \div E \in Nat /\ rest \div E < n - 1 /\ rest % E \in 0 .. E - 1
    BY <1>2, <2>1, <2>2, Division, QuotientBetween
  <2> DEFINE j == 2 + (rest \div E)
             x == 1 + (rest % E)
  <2>4. j \in 1 .. n /\ x \in 1 .. E /\ j > 1
    BY <1>2, <2>2, <2>3
  <2>5. EntryOf(s, p, i) = list.chunks[j][x]
    BY <1>8, <2>1
  <2> HIDE DEF j, x
  <2> QED
    BY <1>5, <2>4, <2>5
<1> QED
  BY <1>2, <1>9, <1>10

\* A chunk in front of the others, ...
LEMMA ChunkInFront ==
  ASSUME NEW S, NEW c \in S, NEW rest \in Seq(S)
  PROVE  /\ <<c>> \o rest \in Seq(S)
         /\ Len(<<c>> \o rest) = Len(rest) + 1
         /\ (<<c>> \o rest)[1] = c
         /\ \A j \in 2 .. Len(rest) + 1 : (<<c>> \o rest)[j] = rest[j - 1]
OBVIOUS

\* ... or in the place of the first.
LEMMA ChunkReplaced ==
  ASSUME NEW S, NEW c \in S, NEW chunks \in Seq(S), Len(chunks) # 0
  PROVE  /\ <<c>> \o Tail(chunks) \in Seq(S)
         /\ Len(<<c>> \o Tail(chunks)) = Len(chunks)
         /\ (<<c>> \o Tail(chunks))[1] = c
         /\ \A j \in 2 .. Len(chunks) : (<<c>> \o Tail(chunks))[j] = chunks[j]
<1>1. /\ Tail(chunks) \in Seq(S)
      /\ Len(Tail(chunks)) = Len(chunks) - 1
      /\ \A j \in 1 .. Len(chunks) - 1 : Tail(chunks)[j] = chunks[j + 1]
  OBVIOUS
<1> DEFINE rest == Tail(chunks)
           all == <<c>> \o rest
<1>2. /\ all \in Seq(S)
      /\ Len(all) = Len(rest) + 1
      /\ all[1] = c
      /\ \A j \in 2 .. Len(rest) + 1 : all[j] = rest[j - 1]
  BY <1>1, ChunkInFront
<1>3. Len(chunks) \in Nat
  OBVIOUS
<1> HIDE DEF rest, all
<1>4. /\ Len(all) = Len(chunks)
      /\ \A j \in 2 .. Len(chunks) : all[j] = chunks[j]
  BY <1>1, <1>2, <1>3 DEF rest
<1> QED
  BY <1>2, <1>4 DEF all, rest

\* A list whose newest chunk holds as much of the partition as its count says.
LEMMA ListOfChunks ==
  ASSUME NEW m \in Nat \ {0}, NEW full \in Seq([1 .. EntriesPerChunk -> Cell]),
         Len(full) = m, NEW taken \in 1 .. EntriesPerChunk, NEW p,
         \A x \in 1 .. EntriesPerChunk : x <= taken => HomeEntry(full[1][x], p),
         \A j \in 2 .. m, x \in 1 .. EntriesPerChunk : HomeEntry(full[j][x], p)
  PROVE  LET list == [chunks |-> full, used |-> taken]
         IN  list \in Lists /\ ListMatches(list, taken + (m - 1) * EntriesPerChunk, p)
<1> DEFINE list == [chunks |-> full, used |-> taken]
<1>1. list.chunks = full /\ list.used = taken /\ list \in Lists
  BY DEF Lists
<1> HIDE DEF list
<1>2. \A j \in 1 .. m, x \in 1 .. EntriesPerChunk :
        j > 1 \/ x <= taken => HomeEntry(full[j][x], p)
  <2> SUFFICES ASSUME NEW j \in 1 .. m, NEW x \in 1 .. EntriesPerChunk, j > 1 \/ x <= taken
               PROVE  HomeEntry(full[j][x], p)
    OBVIOUS
  <2>1. CASE j = 1
    BY <2>1
  <2>2. CASE j # 1
    <3>1. j \in 2 .. m
      BY <2>2
    <3> QED
      BY <3>1
  <2> QED
    BY <2>1, <2>2
<1> QED
  BY <1>1, <1>2 DEF ListMatches, list

\* consume adds one entry of the partition, and forgets none.
LEMMA ConsumeKeeps ==
  ASSUME NEW list \in Lists, NEW count \in Nat, NEW p, ListMatches(list, count, p),
         NEW e \in Cell, HomeEntry(e, p)
  PROVE  Consume(list, e) \in Lists /\ ListMatches(Consume(list, e), count + 1, p)
<1> DEFINE E == EntriesPerChunk
           S == [1 .. E -> Cell]
           chunks == list.chunks
           used == list.used
           n == Len(chunks)
           after == Consume(list, e)
<1>1. E \in Nat \ {0} /\ chunks \in Seq(S) /\ used \in 1 .. E /\ n \in Nat
  BY SizeFacts DEF Lists
<1>2. IF n = 0 THEN used = E /\ count = 0 ELSE count = used + (n - 1) * E
  BY DEF ListMatches
<1>3. \A j \in 1 .. n, x \in 1 .. E : j > 1 \/ x <= used => HomeEntry(chunks[j][x], p)
  BY DEF ListMatches
<1>4. FreshChunk \in S
  <2>1. Garbage \in Cell
    BY DEF Garbage, Cell
  <2> QED
    BY <2>1 DEF FreshChunk
<1>5. CASE used = E
  <2> DEFINE c == [FreshChunk EXCEPT ![1] = e]
             full == <<c>> \o chunks
  <2>1. after = [chunks |-> full, used |-> 1]
    BY <1>5 DEF Consume
  <2>2. c \in S /\ c[1] = e
    BY <1>1, <1>4
  <2> HIDE DEF c
  <2>3. /\ full \in Seq(S)
        /\ Len(full) = n + 1
        /\ full[1] = c
        /\ \A j \in 2 .. n + 1 : full[j] = chunks[j - 1]
    <3> HIDE DEF S
    <3> QED
      BY <1>1, <2>2, ChunkInFront
  <2>4. count + 1 = 1 + ((n + 1) - 1) * E
    <3>1. CASE n = 0
      BY <1>1, <1>2, <3>1
    <3>2. CASE n # 0
      <4>1. count = E + (n - 1) * E /\ n * E = E + (n - 1) * E /\ n * E \in Nat
        BY <1>1, <1>2, <1>5, <3>2
      <4> QED
        BY <1>1, <4>1
    <3> QED
      BY <3>1, <3>2
  <2> HIDE DEF full, after, n, used
  <2>5. \A x \in 1 .. E : x <= 1 => HomeEntry(full[1][x], p)
    <3>1. \A x \in 1 .. E : x <= 1 => x = 1
      BY <1>1
    <3> QED
      BY <2>2, <2>3, <3>1
  <2>6. \A j \in 2 .. n + 1, x \in 1 .. E : HomeEntry(full[j][x], p)
    <3> TAKE j \in 2 .. n + 1, x \in 1 .. E
    <3>1. full[j] = chunks[j - 1]
      BY <2>3
    <3>2. j - 1 \in 1 .. n /\ x <= used
      BY <1>1, <1>5
    <3> QED
      BY <1>3, <3>1, <3>2
  <2>7. n + 1 \in Nat /\ n + 1 # 0 /\ 1 \in 1 .. E
    BY <1>1
  <2>8. /\ [chunks |-> full, used |-> 1] \in Lists
        /\ ListMatches([chunks |-> full, used |-> 1], 1 + ((n + 1) - 1) * E, p)
    <3>1. n + 1 \in Nat \ {0}
      BY <2>7
    <3> QED
      BY <2>3, <2>5, <2>6, <2>7, <3>1, ListOfChunks
  <2> QED
    BY <2>1, <2>4, <2>8 DEF after
<1>6. CASE used # E
  <2> DEFINE c == [chunks[1] EXCEPT ![used + 1] = e]
             full == <<c>> \o Tail(chunks)
  <2>1. after = [chunks |-> full, used |-> used + 1]
    BY <1>6 DEF Consume
  <2>2. n # 0
    BY <1>2, <1>6
  <2>3. used + 1 \in 1 .. E
    BY <1>1, <1>6
  <2>4. chunks[1] \in S
    BY <1>1, <2>2
  <2>5. c \in S /\ c[used + 1] = e /\ \A x \in 1 .. E : x # used + 1 => c[x] = chunks[1][x]
    BY <2>3, <2>4
  <2> HIDE DEF c
  <2>6. /\ full \in Seq(S)
        /\ Len(full) = n
        /\ full[1] = c
        /\ \A j \in 2 .. n : full[j] = chunks[j]
    <3> HIDE DEF S
    <3> QED
      BY <1>1, <2>2, <2>5, ChunkReplaced
  <2>7. count + 1 = (used + 1) + (n - 1) * E
    <3>1. (n - 1) * E \in Int
      BY <1>1
    <3> QED
      BY <1>1, <1>2, <2>2, <3>1
  <2> HIDE DEF full, after, n, used
  <2>8. \A x \in 1 .. E : x <= used + 1 => HomeEntry(full[1][x], p)
    <3> SUFFICES ASSUME NEW x \in 1 .. E, x <= used + 1
                 PROVE  HomeEntry(c[x], p)
      BY <2>6
    <3>1. CASE x = used + 1
      BY <2>5, <3>1
    <3>2. CASE x # used + 1
      <4>1. x <= used /\ 1 \in 1 .. n
        BY <1>1, <2>2, <3>2
      <4> QED
        BY <1>3, <2>5, <3>2, <4>1
    <3> QED
      BY <3>1, <3>2
  <2>9. \A j \in 2 .. n, x \in 1 .. E : HomeEntry(full[j][x], p)
    <3> TAKE j \in 2 .. n, x \in 1 .. E
    <3>1. full[j] = chunks[j] /\ j \in 1 .. n /\ j > 1
      BY <1>1, <2>6
    <3> QED
      BY <1>3, <3>1
  <2>10. /\ [chunks |-> full, used |-> used + 1] \in Lists
         /\ ListMatches([chunks |-> full, used |-> used + 1], (used + 1) + (n - 1) * E, p)
    <3>1. n \in Nat \ {0}
      BY <1>1, <2>2
    <3> QED
      BY <2>3, <2>6, <2>8, <2>9, <3>1, ListOfChunks
  <2> QED
    BY <2>1, <2>7, <2>10 DEF after
<1> QED
  BY <1>5, <1>6

-----------------------------------------------------------------------------
(* Initial states                                                          *)

LEMMA InitColumn == Init => ColumnMatches
<1> SUFFICES ASSUME Init
             PROVE  ColumnMatches
  OBVIOUS
<1>1. next \in [Threads -> Nat]
  BY DEF Init
<1> QED
  BY <1>1 DEF Init, ColumnMatches

\* A list before its first chunk.
LEMMA NoChunks ==
  LET none == [chunks |-> <<>>, used |-> EntriesPerChunk]
  IN  none \in Lists /\ \A p \in Partitions : ListMatches(none, 0, p)
<1> DEFINE none == [chunks |-> <<>>, used |-> EntriesPerChunk]
<1>1. EntriesPerChunk \in 1 .. EntriesPerChunk
  BY SizeFacts
<1>2. none.chunks = <<>> /\ none.used = EntriesPerChunk /\ Len(<<>>) = 0
  OBVIOUS
<1> QED
  BY <1>1, <1>2 DEF Lists, ListMatches

LEMMA InitLists == Init => ListsMatch
<1> SUFFICES ASSUME Init
             PROVE  ListsMatch
  OBVIOUS
<1> DEFINE none == [chunks |-> <<>>, used |-> EntriesPerChunk]
<1>1. none \in Lists /\ \A p \in Partitions : ListMatches(none, 0, p)
  BY NoChunks
<1>2. /\ level3 = [t \in Threads |-> [p \in Partitions |-> none]]
      /\ counts = [t \in Threads |-> [p \in Partitions |-> 0]]
  BY DEF Init
<1> HIDE DEF none
<1> QED
  BY <1>1, <1>2 DEF ListsMatch

LEMMA InitPost == Init => PostMatches
<1> SUFFICES ASSUME Init, NEW t \in Threads
             PROVE  PlaceMatches(post[t], t)
  BY DEF PostMatches, Init
<1> DEFINE r == [part |-> t, stage |-> "count", src |-> 0, pos |-> 1, cur |-> 0]
<1>1. post[t] = r
  BY DEF Init
<1>2. r.part = t /\ r.stage = "count" /\ r.src = 0 /\ r.pos = 1 /\ r.cur = 0
  OBVIOUS
<1>3. t \in Nat /\ t % NumThreads = t /\ 0 \in 0 .. NumThreads
  BY SizeFacts
<1> QED
  BY <1>1, <1>2, <1>3 DEF PlaceMatches

-----------------------------------------------------------------------------
(* The first task                                                          *)

LEMMA BeginKeeps ==
  ASSUME IInv, NEW t \in Threads, BeginPartition(t)
  PROVE  ColumnMatches'
<1>1. NumRows \in Nat
  BY ColumnsAssumption DEF IInv, ColumnMatches, NumRows
<1>2. TuplesPerThread \in Nat
  <2>1. NumRows + NumThreads - 1 \in Nat
    BY <1>1, SizeFacts
  <2> QED
    BY <2>1, SizeFacts, Division DEF TuplesPerThread
<1>3. t * TuplesPerThread \in Nat
  <2> DEFINE q == TuplesPerThread
  <2> HIDE DEF q
  <2>1. t * q \in Nat
    BY <1>2, SizeFacts DEF q
  <2> QED
    BY <2>1 DEF q
<1> DEFINE start == t * TuplesPerThread
<1>4. /\ next' = [next EXCEPT ![t] = start]
      /\ col' = col /\ capacity' = capacity
  BY DEF BeginPartition
<1>5. start \in Nat
  BY <1>3
<1> HIDE DEF start
<1> QED
  BY <1>4, <1>5 DEF IInv, ColumnMatches

LEMMA InsertKeeps ==
  ASSUME IInv, NEW t \in Threads, Insert(t)
  PROVE  ColumnMatches' /\ ListsMatch'
<1> DEFINE val == col[next[t] + 1]
           p == Partition(val)
           e == [key |-> val, row |-> next[t]]
<1>1. next[t] \in Nat /\ capacity \in Capacities /\ col \in Seq(Keys \union {Null})
  BY ColumnsAssumption DEF IInv, ColumnMatches
<1>2. next[t] < RangeEnd(t)
  BY DEF Insert
<1>3. next[t] + 1 \in 1 .. Len(col)
  <2>1. NumRows \in Nat /\ NumRows = Len(col)
    BY <1>1 DEF NumRows
  <2>2. (t + 1) * TuplesPerThread \in Nat
    <3>1. NumRows + NumThreads - 1 \in Nat
      BY <2>1, SizeFacts
    <3> DEFINE q == TuplesPerThread
    <3>2. q \in Nat
      BY <3>1, SizeFacts, Division DEF TuplesPerThread
    <3> HIDE DEF q
    <3>3. (t + 1) * q \in Nat
      BY <3>2, SizeFacts
    <3> QED
      BY <3>3 DEF q
  <2>3. RangeEnd(t) \in Int /\ RangeEnd(t) <= NumRows
    <3> DEFINE a == (t + 1) * TuplesPerThread
               b == NumRows
    <3>1. a \in Int /\ b \in Int /\ RangeEnd(t) = Min({a, b})
      BY <2>1, <2>2 DEF RangeEnd
    <3> HIDE DEF a, b
    <3>2. RangeEnd(t) \in {a, b} /\ RangeEnd(t) <= b
      BY <3>1, LeastOfTwo
    <3> QED
      BY <3>1, <3>2 DEF b
  <2> QED
    BY <1>1, <1>2, <2>1, <2>3
<1>4. val \in Keys \union {Null}
  BY <1>1, <1>3
<1>5. ColumnMatches'
  <2>1. next' = [next EXCEPT ![t] = next[t] + 1] /\ col' = col /\ capacity' = capacity
    BY DEF Insert
  <2> QED
    BY <1>1, <2>1 DEF IInv, ColumnMatches
<1>6. CASE val = Null
  <2>1. level3' = level3 /\ counts' = counts
    BY <1>6 DEF Insert
  <2> QED
    BY <1>5, <2>1 DEF IInv, ListsMatch
<1>7. CASE val # Null
  <2>1. /\ level3' = [level3 EXCEPT ![t][p] = Consume(@, e)]
        /\ counts' = [counts EXCEPT ![t][p] = @ + 1]
    BY <1>7 DEF Insert
  <2>2. e \in Cell /\ p \in Partitions /\ HomeEntry(e, p)
    <3>1. e.key = val /\ val \in Keys
      BY <1>4, <1>7
    <3>2. e \in Cell
      BY <1>1, <3>1 DEF Cell
    <3> QED
      BY <1>1, <3>1, <3>2, PartitionType DEF HomeEntry
  <2> HIDE DEF val, p, e
  <2> DEFINE list == level3[t][p]
             count == counts[t][p]
             after == Consume(list, e)
  <2>3. /\ level3 \in [Threads -> [Partitions -> Lists]]
        /\ counts \in [Threads -> [Partitions -> Nat]]
        /\ \A u \in Threads, q \in Partitions : ListMatches(level3[u][q], counts[u][q], q)
    BY DEF IInv, ListsMatch
  <2>4. list \in Lists /\ count \in Nat /\ ListMatches(list, count, p)
    BY <2>2, <2>3
  <2>5. after \in Lists /\ ListMatches(after, count + 1, p)
    <3> HIDE DEF list, count
    <3> QED
      BY <2>2, <2>4, ConsumeKeeps
  <2>6. /\ level3' = [level3 EXCEPT ![t][p] = after]
        /\ counts' = [counts EXCEPT ![t][p] = count + 1]
    BY <2>1
  <2> HIDE DEF after
  <2>7. /\ level3' \in [Threads -> [Partitions -> Lists]]
        /\ counts' \in [Threads -> [Partitions -> Nat]]
    BY <2>2, <2>3, <2>5, <2>6
  <2>8. ASSUME NEW u \in Threads, NEW q \in Partitions
        PROVE  ListMatches(level3'[u][q], counts'[u][q], q)
    <3>1. CASE u = t /\ q = p
      <4>1. level3'[u][q] = after /\ counts'[u][q] = count + 1
        BY <2>2, <2>3, <2>6, <3>1
      <4> QED
        BY <2>5, <3>1, <4>1
    <3>2. CASE ~(u = t /\ q = p)
      <4>1. level3'[u][q] = level3[u][q] /\ counts'[u][q] = counts[u][q]
        BY <2>2, <2>3, <2>6, <3>2
      <4> QED
        BY <2>3, <4>1
    <3> QED
      BY <3>1, <3>2
  <2>9. ListsMatch'
    BY <2>7, <2>8 DEF ListsMatch
  <2> QED
    BY <1>5, <2>9
<1> QED
  BY <1>6, <1>7

-----------------------------------------------------------------------------
(* The second task                                                         *)

\* The place of one thread changes.
LEMMA PlaceChanges ==
  ASSUME PostMatches, NEW t \in Threads, NEW r,
         post' = [post EXCEPT ![t] = r],
         PlaceMatches(r, t), capacity' = capacity
  PROVE  PostMatches'
<1>1. \A u \in Threads : post'[u] = IF u = t THEN r ELSE post[u]
  BY DEF PostMatches
<1>2. DOMAIN post' = Threads
  BY DEF PostMatches
<1>3. ASSUME NEW u \in Threads
      PROVE  PlaceMatches(post'[u], u)
  BY <1>1 DEF PostMatches
<1>4. PlaceMatches(post[t], t)' = PlaceMatches(post'[t], t)
  BY DEF PlaceMatches, FirstSlot
<1> QED
  BY <1>2, <1>3 DEF PostMatches, PlaceMatches, FirstSlot

\* A place with the fields that matter given.
IsPlace(r, part, stage, src, pos) ==
  /\ DOMAIN r = {"part", "stage", "src", "pos", "cur"}
  /\ r.part = part /\ r.stage = stage /\ r.src = src /\ r.pos = pos

\* What is left of a place when its position, its source or its stage changes.
LEMMA PlaceUpdates ==
  ASSUME NEW r, DOMAIN r = {"part", "stage", "src", "pos", "cur"}, NEW v, NEW w, NEW x
  PROVE  /\ IsPlace([r EXCEPT !.pos = v], r.part, r.stage, r.src, v)
         /\ IsPlace([r EXCEPT !.src = w, !.pos = v], r.part, r.stage, w, v)
         /\ IsPlace([r EXCEPT !.pos = v, !.cur = w], r.part, r.stage, r.src, v)
         /\ IsPlace([r EXCEPT !.stage = x, !.pos = v, !.cur = w], r.part, x, r.src, v)
         /\ IsPlace([r EXCEPT !.stage = x, !.src = w, !.pos = v], r.part, x, w, v)
<1>1. ASSUME NEW s, s = [r EXCEPT !.pos = v]
      PROVE  IsPlace(s, r.part, r.stage, r.src, v)
  BY <1>1 DEF IsPlace
<1>2. ASSUME NEW s, s = [r EXCEPT !.src = w, !.pos = v]
      PROVE  IsPlace(s, r.part, r.stage, w, v)
  BY <1>2 DEF IsPlace
<1>3. ASSUME NEW s, s = [r EXCEPT !.pos = v, !.cur = w]
      PROVE  IsPlace(s, r.part, r.stage, r.src, v)
  BY <1>3 DEF IsPlace
<1>4. ASSUME NEW s, s = [r EXCEPT !.stage = x, !.pos = v, !.cur = w]
      PROVE  IsPlace(s, r.part, x, r.src, v)
  BY <1>4 DEF IsPlace
<1>5. ASSUME NEW s, s = [r EXCEPT !.stage = x, !.src = w, !.pos = v]
      PROVE  IsPlace(s, r.part, x, w, v)
  BY <1>5 DEF IsPlace
<1> QED
  BY <1>1, <1>2, <1>3, <1>4, <1>5, Zenon

\* A step of one thread within its partition.
LEMMA PlaceStep ==
  ASSUME IInv, NEW t \in Threads, capacity' = capacity, NEW r,
         NEW stage \in {"count", "prefix", "copy"}, NEW src \in 0 .. NumThreads, NEW pos \in Nat,
         post' = [post EXCEPT ![t] = r],
         IsPlace(r, post[t].part, stage, src, pos),
         pos >= IF stage = "prefix" THEN FirstSlot(post[t].part) ELSE 1
  PROVE  PostMatches'
<1>1. PlaceMatches(post[t], t)
  BY DEF IInv, PostMatches
<1>2. PlaceMatches(r, t)
  BY <1>1 DEF PlaceMatches, IsPlace
<1> QED
  BY <1>2, PlaceChanges DEF IInv

LEMMA PlaceFacts ==
  ASSUME IInv, NEW t \in Threads
  PROVE  /\ DOMAIN post[t] = {"part", "stage", "src", "pos", "cur"}
         /\ post[t].part \in Nat
         /\ post[t].part % NumThreads = t
         /\ post[t].stage \in {"count", "prefix", "copy"}
         /\ post[t].src \in 0 .. NumThreads
         /\ post[t].pos \in Nat
         /\ post[t].pos >= IF post[t].stage = "prefix" THEN FirstSlot(post[t].part) ELSE 1
BY DEF IInv, PostMatches, PlaceMatches

\* The first slot of a partition is a number.
LEMMA FirstSlotType ==
  ASSUME IInv, NEW p \in Nat
  PROVE  FirstSlot(p) \in Nat
<1>1. p < p + 1 /\ capacity \in Capacities
  BY DEF IInv, ColumnMatches
<1>2. PICK slots \in Nat \ {0} : capacity = slots * NumPartitions
  BY <1>1, Factors
<1>3. p * capacity \in Nat
  <2>1. capacity \in Nat
    BY <1>1, CapacitiesAssumption
  <2> QED
    BY <2>1
<1> QED
  BY <1>3, SizeFacts, Division DEF FirstSlot

LEMMA CountKeeps ==
  ASSUME IInv, NEW t \in Threads, CountEntry(t) \/ CopyEntry(t)
  PROVE  PostMatches'
<1> DEFINE r == [post[t] EXCEPT !.pos = post[t].pos + 1]
<1>1. capacity' = capacity /\ post' = [post EXCEPT ![t].pos = @ + 1]
  BY DEF CountEntry, CopyEntry, postUnchanged
<1>2. post' = [post EXCEPT ![t] = r]
  BY <1>1
<1>3. post[t].stage # "prefix"
  BY DEF CountEntry, CopyEntry, InPost
<1>4. IsPlace(r, post[t].part, post[t].stage, post[t].src, post[t].pos + 1)
  BY PlaceFacts, PlaceUpdates
<1> HIDE DEF r
<1>5. /\ post[t].pos + 1 \in Nat
      /\ post[t].pos + 1 >= IF post[t].stage = "prefix" THEN FirstSlot(post[t].part) ELSE 1
  BY <1>3, PlaceFacts
<1>6. post[t].stage \in {"count", "prefix", "copy"} /\ post[t].src \in 0 .. NumThreads
  BY PlaceFacts
<1> QED
  BY <1>1, <1>2, <1>4, <1>5, <1>6, PlaceStep

LEMMA NextSourceKeeps ==
  ASSUME IInv, NEW t \in Threads, NextSource(t)
  PROVE  PostMatches'
<1> DEFINE r == [post[t] EXCEPT !.src = post[t].src + 1, !.pos = 1]
<1>1. capacity' = capacity /\ post' = [post EXCEPT ![t].src = @ + 1, ![t].pos = 1]
  BY DEF NextSource, postUnchanged
<1>2. post' = [post EXCEPT ![t] = r]
  BY <1>1
<1>3. post[t].stage # "prefix" /\ post[t].src < NumThreads
  BY DEF NextSource, InPost
<1>4. IsPlace(r, post[t].part, post[t].stage, post[t].src + 1, 1)
  BY PlaceFacts, PlaceUpdates
<1> HIDE DEF r
<1>5. post[t].src + 1 \in 0 .. NumThreads /\ post[t].stage \in {"count", "prefix", "copy"}
  BY <1>3, PlaceFacts, SizeFacts
<1>6. 1 \in Nat /\ 1 >= IF post[t].stage = "prefix" THEN FirstSlot(post[t].part) ELSE 1
  BY <1>3
<1> QED
  BY <1>1, <1>2, <1>4, <1>5, <1>6, PlaceStep

LEMMA StartPrefixKeeps ==
  ASSUME IInv, NEW t \in Threads, StartPrefix(t)
  PROVE  PostMatches'
<1> DEFINE first == FirstSlot(post[t].part)
           start == Tuples + offsets[post[t].part]
           r == [post[t] EXCEPT !.stage = "prefix", !.pos = first, !.cur = start]
<1>1. /\ capacity' = capacity
      /\ post' = [post EXCEPT ![t].stage = "prefix", ![t].pos = first, ![t].cur = start]
  BY DEF StartPrefix, postUnchanged
<1>2. first \in Nat
  BY PlaceFacts, FirstSlotType
<1>3. first >= FirstSlot(post[t].part)
  BY <1>2
<1> HIDE DEF first, start
<1>4. post' = [post EXCEPT ![t] = r]
  BY <1>1
<1>5. IsPlace(r, post[t].part, "prefix", post[t].src, first)
  BY PlaceFacts, PlaceUpdates
<1> HIDE DEF r
<1> QED
  BY <1>1, <1>2, <1>3, <1>4, <1>5, PlaceFacts, PlaceStep

LEMMA PrefixKeeps ==
  ASSUME IInv, NEW t \in Threads, PrefixSlot(t)
  PROVE  PostMatches'
<1> DEFINE cur == post[t].cur + directory[post[t].pos].addr
           r == [post[t] EXCEPT !.pos = post[t].pos + 1, !.cur = cur]
<1>1. /\ capacity' = capacity
      /\ post' = [post EXCEPT ![t].pos = @ + 1, ![t].cur = cur]
  BY DEF PrefixSlot, postUnchanged
<1> HIDE DEF cur
<1>2. post' = [post EXCEPT ![t] = r]
  BY <1>1
<1>3. post[t].stage = "prefix"
  BY DEF PrefixSlot, InPost
<1>4. IsPlace(r, post[t].part, post[t].stage, post[t].src, post[t].pos + 1)
  BY PlaceFacts, PlaceUpdates
<1> HIDE DEF r
<1>5. FirstSlot(post[t].part) \in Nat
  BY PlaceFacts, FirstSlotType
<1>6. /\ post[t].pos + 1 \in Nat
      /\ post[t].pos + 1 >= IF post[t].stage = "prefix" THEN FirstSlot(post[t].part) ELSE 1
  BY <1>3, <1>5, PlaceFacts
<1>7. post[t].stage \in {"count", "prefix", "copy"} /\ post[t].src \in 0 .. NumThreads
  BY PlaceFacts
<1> QED
  BY <1>1, <1>2, <1>4, <1>6, <1>7, PlaceStep

LEMMA StartCopyKeeps ==
  ASSUME IInv, NEW t \in Threads, StartCopy(t)
  PROVE  PostMatches'
<1> DEFINE r == [post[t] EXCEPT !.stage = "copy", !.src = 0, !.pos = 1]
<1>1. /\ capacity' = capacity
      /\ post' = [post EXCEPT ![t].stage = "copy", ![t].src = 0, ![t].pos = 1]
  BY DEF StartCopy, postUnchanged
<1>2. post' = [post EXCEPT ![t] = r]
  BY <1>1
<1>3. IsPlace(r, post[t].part, "copy", 0, 1)
  BY PlaceFacts, PlaceUpdates
<1> HIDE DEF r
<1>4. 0 \in 0 .. NumThreads /\ 1 \in Nat /\ "copy" \in {"count", "prefix", "copy"}
  BY SizeFacts
<1>5. 1 >= IF "copy" = "prefix" THEN FirstSlot(post[t].part) ELSE 1
  OBVIOUS
<1> QED
  BY <1>1, <1>2, <1>3, <1>4, <1>5, PlaceStep

\* The stride keeps the remainder.
LEMMA StrideKeepsRemainder ==
  ASSUME NEW n \in Nat, NEW d \in Nat \ {0}
  PROVE  (n + d) % d = n % d
<1> DEFINE q == n \div d
           r == n % d
           m == n + d
           s == m % d
           o == m \div d
<1>1. q \in Nat /\ r \in 0 .. d - 1 /\ n = d * q + r
  BY Division
<1>2. m \in Nat /\ m = n + d
  OBVIOUS
<1> HIDE DEF m
<1>3. q * d <= n /\ n < (q + 1) * d
  BY <1>1, Enclosed
<1>4. (q + 1) * d <= m /\ m < (q + 2) * d
  <2> HIDE DEF q
  <2>1. (q + 1) * d = q * d + d /\ (q + 2) * d = (q + 1) * d + d /\ q * d \in Nat
    BY <1>1
  <2> QED
    BY <1>2, <1>3, <2>1
<1>5. o \in Nat /\ s \in 0 .. d - 1 /\ m = d * o + s
  BY <1>2, Division
<1>6. q + 1 \in Nat /\ q + 2 \in Nat
  BY <1>1
<1>7. q + 1 <= o /\ o < q + 2
  BY <1>2, <1>4, <1>6, QuotientBetween
<1> HIDE DEF q, r, s, o
<1>8. o = q + 1
  BY <1>1, <1>5, <1>7
<1>9. d * (q + 1) = d * q + d /\ d * q \in Nat
  BY <1>1
<1>10. s = r
  BY <1>1, <1>2, <1>5, <1>8, <1>9
<1> QED
  BY <1>10 DEF r, s, m

LEMMA FinishKeeps ==
  ASSUME IInv, NEW t \in Threads, FinishPartition(t)
  PROVE  PostMatches'
<1> DEFINE part == post[t].part + NumThreads
           r == [part |-> part, stage |-> "count", src |-> 0, pos |-> 1, cur |-> 0]
<1>1. capacity' = capacity /\ post' = [post EXCEPT ![t] = r]
  BY DEF FinishPartition, NextPartition, postUnchanged
<1>2. part \in Nat /\ part % NumThreads = t
  <2>1. post[t].part \in Nat /\ post[t].part % NumThreads = t /\ NumThreads \in Nat \ {0}
    BY PlaceFacts, SizeFacts
  <2>2. (post[t].part + NumThreads) % NumThreads = post[t].part % NumThreads
    BY <2>1, StrideKeepsRemainder
  <2> QED
    BY <2>1, <2>2
<1> HIDE DEF part
<1>3. /\ DOMAIN r = {"part", "stage", "src", "pos", "cur"}
      /\ r.part = part /\ r.stage = "count" /\ r.src = 0 /\ r.pos = 1
  OBVIOUS
<1> HIDE DEF r
<1>4. PlaceMatches(r, t)
  BY <1>2, <1>3, SizeFacts DEF PlaceMatches
<1> QED
  BY <1>1, <1>4, PlaceChanges DEF IInv

-----------------------------------------------------------------------------
(* The steps                                                               *)

LEMMA InitInvariant == Init => IInv
BY InitColumn, InitLists, InitPost DEF IInv

\* What no step of the build touches keeps its invariant.
LEMMA Untouched ==
  ASSUME IInv
  PROVE  /\ UNCHANGED <<col, capacity, next>> => ColumnMatches'
         /\ UNCHANGED <<level3, counts>> => ListsMatch'
         /\ UNCHANGED <<post, capacity>> => PostMatches'
<1>1. UNCHANGED <<col, capacity, next>> => ColumnMatches'
  BY DEF IInv, ColumnMatches
<1>2. UNCHANGED <<level3, counts>> => ListsMatch'
  BY DEF IInv, ListsMatch
<1>3. UNCHANGED <<post, capacity>> => PostMatches'
  BY DEF IInv, PostMatches, PlaceMatches, FirstSlot
<1> QED
  BY <1>1, <1>2, <1>3

\* postUnchanged covers all but the place.
LEMMA PostStepKeeps ==
  ASSUME IInv, UNCHANGED postUnchanged, PostMatches'
  PROVE  IInv'
BY Untouched DEF IInv, postUnchanged

LEMMA WorkerKeeps ==
  ASSUME IInv, NEW t \in Threads, WorkerStep(t)
  PROVE  IInv'
<1>1. CASE BeginPartition(t)
  BY <1>1, BeginKeeps, Untouched DEF BeginPartition, IInv
<1>2. CASE Insert(t)
  BY <1>2, InsertKeeps, Untouched DEF Insert, IInv
<1>3. CASE EndPartition(t)
  BY <1>3, Untouched DEF EndPartition, IInv
<1>4. CASE BeginPost(t)
  BY <1>4, Untouched DEF BeginPost, IInv
<1>5. CASE CountEntry(t)
  BY <1>5, CountKeeps, PostStepKeeps DEF CountEntry
<1>6. CASE NextSource(t)
  BY <1>6, NextSourceKeeps, PostStepKeeps DEF NextSource
<1>7. CASE StartPrefix(t)
  BY <1>7, StartPrefixKeeps, PostStepKeeps DEF StartPrefix
<1>8. CASE PrefixSlot(t)
  BY <1>8, PrefixKeeps, PostStepKeeps DEF PrefixSlot
<1>9. CASE StartCopy(t)
  BY <1>9, StartCopyKeeps, PostStepKeeps DEF StartCopy
<1>10. CASE CopyEntry(t)
  BY <1>10, CountKeeps, PostStepKeeps DEF CopyEntry
<1>11. CASE FinishPartition(t)
  BY <1>11, FinishKeeps, PostStepKeeps DEF FinishPartition
<1>12. CASE EndPost(t)
  BY <1>12, Untouched DEF EndPost, IInv
<1> QED
  BY <1>1, <1>2, <1>3, <1>4, <1>5, <1>6, <1>7, <1>8, <1>9, <1>10, <1>11, <1>12
     DEF WorkerStep

LEMMA CallerKeeps ==
  ASSUME IInv, CallerStep
  PROVE  IInv'
<1>1. CASE DispatchPartition
  BY <1>1, Untouched DEF DispatchPartition, IInv
<1>2. CASE ReturnPartition
  BY <1>2, Untouched DEF ReturnPartition, IInv
<1>3. CASE DispatchPost
  BY <1>3, Untouched DEF DispatchPost, IInv
<1>4. CASE ReturnPost
  <2>1. ListsMatch'
    <3> DEFINE none == [chunks |-> <<>>, used |-> EntriesPerChunk]
    <3>1. none \in Lists /\ \A p \in Partitions : ListMatches(none, 0, p)
      BY NoChunks
    <3>2. /\ level3' = [t \in Threads |-> [p \in Partitions |-> none]]
          /\ counts' = [t \in Threads |-> [p \in Partitions |-> 0]]
      BY <1>4 DEF ReturnPost
    <3> HIDE DEF none
    <3> QED
      BY <3>1, <3>2 DEF ListsMatch
  <2> QED
    BY <1>4, <2>1, Untouched DEF ReturnPost, IInv
<1> QED
  BY <1>1, <1>2, <1>3, <1>4 DEF CallerStep

LEMMA StepInvariant == IInv /\ [Next]_vars => IInv'
<1> SUFFICES ASSUME IInv, [Next]_vars
             PROVE  IInv'
  OBVIOUS
<1>1. CASE \E t \in Threads : WorkerStep(t)
  BY <1>1, WorkerKeeps
<1>2. CASE CallerStep
  BY <1>2, CallerKeeps
<1>3. CASE UNCHANGED vars
  BY <1>3, Untouched DEF vars, IInv
<1> QED
  BY <1>1, <1>2, <1>3 DEF Next, Built

-----------------------------------------------------------------------------
(* The directory words of one thread                                       *)

\* A thread touches the slots of its partition only.
LEMMA TouchedInside ==
  ASSUME IInv, NEW t \in Threads, NEW x \in SlotsTouched(t)
  PROVE  /\ FirstSlot(post[t].part) \in Nat /\ EndSlot(post[t].part) \in Nat /\ x \in Nat
         /\ FirstSlot(post[t].part) <= x /\ x < EndSlot(post[t].part)
<1> DEFINE p == post[t].part
           s == post[t].src
           i == post[t].pos
<1>1. p \in Nat /\ s \in 0 .. NumThreads /\ i \in Nat /\ capacity \in Capacities
  BY PlaceFacts DEF IInv, ColumnMatches
<1>2. p < NumPartitions
  BY DEF SlotsTouched
<1>3. CASE post[t].stage = "prefix"
  <2>1. x = i /\ i < EndSlot(p)
    BY <1>3 DEF SlotsTouched
  <2>2. FirstSlot(p) <= i
    BY <1>1, <1>3, PlaceFacts, FirstSlotType
  <2>3. FirstSlot(p) \in Nat /\ EndSlot(p) \in Nat
    <3>1. p + 1 \in Nat /\ p < p + 1
      BY <1>1
    <3> QED
      BY <1>1, <3>1, FirstSlotType, PartitionsApart
  <2> QED
    BY <1>1, <2>1, <2>2, <2>3
<1>4. CASE post[t].stage # "prefix"
  <2>1. s < NumThreads /\ i <= Visited(s, p) /\ x = Slot(EntryOf(s, p, i).key)
    BY <1>4 DEF SlotsTouched, HasEntry, EntryAt
  <2>2. 1 <= i /\ s \in Threads /\ p \in Partitions
    BY <1>1, <1>2, <1>4, <2>1, PlaceFacts, SizeFacts
  <2> HIDE DEF p, s, i
  <2>3. HomeEntry(EntryOf(s, p, i), p)
    BY <1>1, <2>1, <2>2, VisitedHome DEF IInv
  <2> DEFINE k == EntryOf(s, p, i).key
  <2>4. k \in Keys /\ Partition(k) = p /\ x = Slot(k)
    BY <2>1, <2>3 DEF HomeEntry
  <2> HIDE DEF k
  <2>5. /\ FirstSlot(p) \in Nat /\ EndSlot(p) \in Nat /\ x \in Nat
        /\ FirstSlot(p) <= x /\ x < EndSlot(p)
    BY <1>1, <2>4, SlotInPartition
  <2> QED
    BY <2>5 DEF p
<1> QED
  BY <1>3, <1>4

LEMMA InvariantExcludes == IInv => NoSlotRace
<1> SUFFICES ASSUME IInv, NEW t \in Threads, NEW u \in Threads, t # u,
                    NEW x, x \in SlotsTouched(t), x \in SlotsTouched(u)
             PROVE  FALSE
  BY DEF NoSlotRace
<1> DEFINE p == post[t].part
           q == post[u].part
<1>1. p \in Nat /\ q \in Nat /\ p # q /\ capacity \in Capacities
  BY PlaceFacts DEF IInv, ColumnMatches
<1>2. /\ FirstSlot(p) \in Nat /\ EndSlot(p) \in Nat /\ x \in Nat
      /\ FirstSlot(p) <= x /\ x < EndSlot(p)
  BY TouchedInside
<1>3. /\ FirstSlot(q) \in Nat /\ EndSlot(q) \in Nat
      /\ FirstSlot(q) <= x /\ x < EndSlot(q)
  BY TouchedInside
<1> HIDE DEF p, q
<1>4. CASE p < q
  <2>1. EndSlot(p) <= FirstSlot(q)
    BY <1>1, <1>4, PartitionsApart
  <2> QED
    BY <1>2, <1>3, <2>1
<1>5. CASE q < p
  <2>1. EndSlot(q) <= FirstSlot(p)
    BY <1>1, <1>5, PartitionsApart
  <2> QED
    BY <1>2, <1>3, <2>1
<1> QED
  BY <1>1, <1>4, <1>5

\* The second task of the build (unchained_ht.h, postProcessBuild) reads and
\* writes the directory with neither lock nor atomics: no two threads are ever
\* about to touch the same word of it.
THEOREM SlotsPrivate == Spec => []NoSlotRace
<1>1. Spec => []IInv
  BY InitInvariant, StepInvariant, PTL DEF Spec
<1> QED
  BY <1>1, InvariantExcludes, PTL

-----------------------------------------------------------------------------
(* What the build has done so far, in terms of the rows of the column *)

RowSet == 0 .. NumRows - 1

\* The entry of a row, and the rows that have one.
EntryFor(r) == [key |-> col[r + 1], row |-> r]
Filled == {r \in RowSet : col[r + 1] # Null}

\* The rows of a partition, of a slot, and of the slots before one.
Home(p) == {r \in Filled : Partition(col[r + 1]) = p}
InSlot(s) == {r \in Filled : Slot(col[r + 1]) = s}
Below(s) == {r \in Filled : Slot(col[r + 1]) < s}
NumBelow(s) == Cardinality(Below(s))
TagsOf(R) == UNION {Tag[col[r + 1]] : r \in R}

\* The pool is inside a task exactly in the two phases that dispatch one.
PoolMatches ==
  /\ todo \subseteq Threads /\ running \subseteq Threads
  /\ todo \intersect running = {}
  /\ phase = "new" => calls = 0
  /\ phase \in {"partition", "sums"} => calls = 1
  /\ phase \in {"post", "built"} => calls = 2
  /\ phase \in {"new", "partition", "sums", "post", "built"}
  /\ IF phase \in {"partition", "post"}
     THEN caller = "blocked"
     ELSE caller = "idle" /\ todo = {} /\ running = {}

Finished == Threads \ (todo \union running)

\* A thread's range of rows, and how far it has come.
RangeOf(t) == t * TuplesPerThread .. RangeEnd(t) - 1

NextMatches ==
  /\ phase = "new" => \A t \in Threads : next[t] = 0
  /\ phase = "partition" =>
       /\ \A t \in todo : next[t] = 0
       /\ \A t \in running : next[t] >= t * TuplesPerThread
       /\ \A t \in Finished : next[t] >= RangeEnd(t)
  /\ phase \in {"sums", "post"} => \A t \in Threads : next[t] >= RangeEnd(t)

\* What forEachEntryInPartition passes on of a list, the i-th entry.
At(list, count, i) ==
  LET rest == i - FirstChunkEntries(count) - 1
  IN  IF rest < 0
      THEN list.chunks[1][i]
      ELSE list.chunks[2 + (rest \div EntriesPerChunk)][1 + (rest % EntriesPerChunk)]

\* A list passes on exactly the entries of a set, each once.
PassesOn(list, count, entries) ==
  /\ \A i \in 1 .. count : At(list, count, i) \in entries
  /\ \A e \in entries : \E i \in 1 .. count : At(list, count, i) = e
  /\ \A i, j \in 1 .. count : At(list, count, i) = At(list, count, j) => i = j

EntriesOf(rows) == {EntryFor(r) : r \in rows}
Scattered(t, p) == {r \in RangeOf(t) : r < next[t]} \intersect Home(p)

ListsExact ==
  phase # "built" =>
    \A t \in Threads, p \in Partitions :
      PassesOn(level3[t][p], counts[t][p], EntriesOf(Scattered(t, p)))

\* Before the second task nothing of the table is touched.
InitialPost == [t \in Threads |-> [part |-> t, stage |-> "count", src |-> 0, pos |-> 1, cur |-> 0]]

InitialDirectory ==
  [s \in -1 .. capacity - 1 |-> [addr |-> IF s = -1 THEN Tuples ELSE 0, tag |-> {}]]
InitialTuples == [s \in Slots |-> Garbage]

TableFresh ==
  phase \in {"new", "partition", "sums"} =>
    /\ post = InitialPost
    /\ directory = InitialDirectory
    /\ tuples = InitialTuples

\* In it
OffsetsMatch ==
  phase \in {"post", "built"} => offsets = [p \in Partitions |-> NumBelow(FirstSlot(p))]

\* A thread that is out of the second task has no partition left, and the
\* prefix pass goes on where the slots before end.
Places == [part : Nat, stage : {"count", "prefix", "copy"}, src : 0 .. NumThreads,
           pos : Nat, cur : Nat]

PlaceFits(r) ==
  /\ r.part >= NumPartitions => r.stage = "count"
  /\ r.stage = "prefix" =>
       /\ r.src = NumThreads
       /\ r.pos <= EndSlot(r.part)
       /\ r.cur = Tuples + NumBelow(r.pos)

StagesMatch ==
  /\ phase \in {"post", "built"} => \A t \in Finished : post[t].part >= NumPartitions
  /\ post \in [Threads -> Places]
  /\ \A t \in Threads : PlaceFits(post[t])

\* The rows whose entries a pass over partition p has seen, when it is at
\* entry pos of the list of thread src.
Passed(p, src, pos) ==
  {r \in Home(p) : \E s \in Threads : \E i \in 1 .. counts[s][p] :
     /\ s < src \/ (s = src /\ i < pos)
     /\ At(level3[s][p], counts[s][p], i) = EntryFor(r)}

\* What the thread of partition p has done of it, with its place at r: the
\* rows counted, the rows copied, and whether slot s has its address.
Counted(r, p) ==
  IF r.part < p THEN {}
  ELSE IF p < r.part \/ r.stage # "count" THEN Home(p) ELSE Passed(p, r.src, r.pos)
Copied(r, p) ==
  IF p < r.part THEN Home(p)
  ELSE IF r.part < p \/ r.stage # "copy" THEN {} ELSE Passed(p, r.src, r.pos)
Addressed(r, p, s) ==
  \/ p < r.part
  \/ r.part = p /\ (r.stage = "copy" \/ (r.stage = "prefix" /\ s < r.pos))

CopiedTo(r, p, s) == InSlot(s) \intersect Copied(r, p)

\* The directory word of slot s then, ...
Word(r, p, s) ==
  [addr |-> IF Addressed(r, p, s)
            THEN Tuples + NumBelow(s) + Cardinality(CopiedTo(r, p, s))
            ELSE Cardinality(InSlot(s) \intersect Counted(r, p)),
   tag |-> TagsOf(InSlot(s) \intersect Counted(r, p))]

\* ... and its cells, when rows have been copied to them.
Holds(cells, first, end, last, rows) ==
  /\ \A c \in first .. end - 1 : cells[c] \in EntriesOf(rows)
  /\ \A r \in rows : \E c \in first .. end - 1 : cells[c] = EntryFor(r)
  /\ \A c, d \in first .. end - 1 : cells[c] = cells[d] => c = d
  /\ \A c \in end .. last - 1 : cells[c] = Garbage

CellsHold(cells, s, rows) ==
  Holds(cells, NumBelow(s), NumBelow(s) + Cardinality(rows), NumBelow(s + 1), rows)

\* The slots of a partition.
SlotsOf(p) == FirstSlot(p) .. EndSlot(p) - 1

PlaceOf(p) == post[p % NumThreads]

TableMatches ==
  phase \in {"post", "built"} =>
    \A p \in Partitions : \A s \in SlotsOf(p) :
      /\ directory[s] = Word(PlaceOf(p), p, s)
      /\ CellsHold(tuples, s, CopiedTo(PlaceOf(p), p, s))

\* The lists hold entries, until they are deleted.
ListsType ==
  /\ \A t \in Threads, p \in Partitions :
       \A j \in 1 .. Len(level3[t][p].chunks), x \in 1 .. EntriesPerChunk :
         level3[t][p].chunks[j][x] \in MayBeEntry
  /\ phase = "built" => \A t \in Threads, p \in Partitions : counts[t][p] = 0
  /\ offsets \in [Partitions -> 0 .. NumRows]

DirectoryWords == [addr : Nat, tag : SUBSET UNION {Tag[k] : k \in Keys}]

TableType ==
  /\ capacity > NumRows
  /\ directory \in [-1 .. capacity - 1 -> DirectoryWords]
  /\ directory[-1].addr = Tuples
  /\ tuples \in [Slots -> MayBeEntry]

LookupInv ==
  /\ IInv
  /\ PoolMatches
  /\ NextMatches
  /\ ListsExact
  /\ TableFresh
  /\ OffsetsMatch
  /\ StagesMatch
  /\ TableMatches
  /\ TableType
  /\ ListsType

-----------------------------------------------------------------------------
(* Sets of rows                                                            *)

LEMMA RowFacts ==
  ASSUME IInv
  PROVE  /\ NumRows \in Nat
         /\ NumRows = Len(col)
         /\ capacity \in Capacities /\ capacity \in Nat \ {0}
         /\ Filled \subseteq RowSet
         /\ RowSet \subseteq Nat
         /\ \A r \in RowSet : r + 1 \in 1 .. Len(col) /\ col[r + 1] \in Keys \union {Null}
         /\ \A r \in Filled : col[r + 1] \in Keys
<1>1. col \in Seq(Keys \union {Null}) /\ capacity \in Capacities
  BY ColumnsAssumption DEF IInv, ColumnMatches
<1>2. NumRows \in Nat /\ NumRows = Len(col)
  BY <1>1 DEF NumRows
<1>3. \A r \in RowSet : r \in Nat /\ r + 1 \in 1 .. Len(col) /\ col[r + 1] \in Keys \union {Null}
  BY <1>1, <1>2 DEF RowSet
<1>4. capacity \in Nat \ {0}
  BY <1>1, CapacitiesAssumption
<1> QED
  BY <1>1, <1>2, <1>3, <1>4 DEF Filled

\* Rows can be counted.
LEMMA RowsFinite ==
  ASSUME IInv, NEW R, R \subseteq Filled
  PROVE  /\ IsFiniteSet(R)
         /\ Cardinality(R) \in Nat
         /\ Cardinality(R) <= NumRows
<1>1. R \subseteq RowSet /\ NumRows \in Nat
  BY RowFacts
<1>2. IsFiniteSet(RowSet) /\ Cardinality(RowSet) <= NumRows
  <2>1. IsFiniteSet(0 .. NumRows - 1)
    BY <1>1, FS_Interval
  <2>2. Cardinality(0 .. NumRows - 1) = IF 0 > NumRows - 1 THEN 0 ELSE (NumRows - 1) - 0 + 1
    BY <1>1, FS_Interval
  <2> QED
    BY <1>1, <2>1, <2>2 DEF RowSet
<1>3. IsFiniteSet(R) /\ Cardinality(R) <= Cardinality(RowSet)
  BY <1>1, <1>2, FS_Subset
<1>4. Cardinality(R) \in Nat /\ Cardinality(RowSet) \in Nat
  BY <1>2, <1>3, FS_CardinalityType
<1> QED
  BY <1>1, <1>2, <1>3, <1>4

\* One more row.
LEMMA OneMoreRow ==
  ASSUME IInv, NEW R, R \subseteq Filled, NEW r \in Filled, r \notin R
  PROVE  Cardinality(R \union {r}) = Cardinality(R) + 1
<1>1. IsFiniteSet(R)
  BY RowsFinite
<1> QED
  BY <1>1, FS_AddElement

\* Fewer rows.
LEMMA FewerRows ==
  ASSUME IInv, NEW R, R \subseteq Filled, NEW Q, Q \subseteq R
  PROVE  /\ Cardinality(Q) <= Cardinality(R)
         /\ \A r \in R \ Q : Cardinality(Q) < Cardinality(R)
<1>1. IsFiniteSet(R) /\ IsFiniteSet(Q) /\ Cardinality(R) \in Nat /\ Cardinality(Q) \in Nat
  BY RowsFinite
<1>2. Cardinality(Q) <= Cardinality(R) /\ (Cardinality(R) = Cardinality(Q) => R = Q)
  BY <1>1, FS_Subset
<1> QED
  BY <1>1, <1>2

\* Rows apart.
LEMMA RowsApart ==
  ASSUME IInv, NEW R, R \subseteq Filled, NEW Q, Q \subseteq Filled, R \intersect Q = {}
  PROVE  Cardinality(R \union Q) = Cardinality(R) + Cardinality(Q)
<1>1. IsFiniteSet(R) /\ IsFiniteSet(Q) /\ Cardinality(R) \in Nat /\ Cardinality(Q) \in Nat
  BY RowsFinite
<1>2. Cardinality(R \union Q) = Cardinality(R) + Cardinality(Q) - Cardinality({})
  BY <1>1, FS_Union
<1> QED
  BY <1>1, <1>2, FS_EmptySet

\* A row's slot is a number.
LEMMA SlotOfRow ==
  ASSUME IInv, NEW r \in Filled
  PROVE  /\ Slot(col[r + 1]) \in Nat
         /\ Partition(col[r + 1]) \in Partitions
         /\ Slot(col[r + 1]) \in SlotsOf(Partition(col[r + 1]))
<1>1. col[r + 1] \in Keys /\ capacity \in Capacities
  BY RowFacts
<1> DEFINE k == col[r + 1]
           p == Partition(k)
<1>2. k \in Keys /\ p \in Partitions /\ p \in Nat
  BY <1>1, PartitionType, SizeFacts
<1> HIDE DEF k
<1>3. /\ FirstSlot(p) \in Nat /\ EndSlot(p) \in Nat /\ Slot(k) \in Nat
      /\ FirstSlot(p) <= Slot(k) /\ Slot(k) < EndSlot(p)
  BY <1>1, <1>2, SlotInPartition
<1> QED
  BY <1>2, <1>3 DEF SlotsOf, k

\* The cells of a slot follow those of the slots before it.
LEMMA NextCells ==
  ASSUME IInv, NEW s \in Nat
  PROVE  /\ NumBelow(s) \in Nat
         /\ Cardinality(InSlot(s)) \in Nat
         /\ NumBelow(s + 1) = NumBelow(s) + Cardinality(InSlot(s))
<1>1. Below(s) \subseteq Filled /\ InSlot(s) \subseteq Filled
  BY DEF Below, InSlot
<1>2. Below(s + 1) = Below(s) \union InSlot(s) /\ Below(s) \intersect InSlot(s) = {}
  BY SlotOfRow DEF Below, InSlot
<1>3. Cardinality(Below(s + 1)) = Cardinality(Below(s)) + Cardinality(InSlot(s))
  BY <1>1, <1>2, RowsApart
<1> QED
  BY <1>1, <1>3, RowsFinite DEF NumBelow

LEMMA CellsInOrder ==
  ASSUME IInv, NEW s \in Nat, NEW u \in Nat, s <= u
  PROVE  NumBelow(s) <= NumBelow(u) /\ NumBelow(u) <= NumRows
<1>1. Below(u) \subseteq Filled
  BY DEF Below
<1>2. Below(s) \subseteq Below(u)
  BY SlotOfRow DEF Below
<1> QED
  BY <1>1, <1>2, FewerRows, RowsFinite DEF NumBelow

LEMMA FirstCell ==
  ASSUME IInv
  PROVE  NumBelow(0) = 0
<1>1. Below(0) = {}
  BY SlotOfRow DEF Below
<1> QED
  BY <1>1, FS_EmptySet DEF NumBelow

\* A partition has as many slots as any other.
LEMMA SlotsEach ==
  ASSUME IInv
  PROVE  \E w \in Nat \ {0} :
           /\ capacity = w * NumPartitions
           /\ \A p \in Nat : /\ FirstSlot(p) = p * w
                             /\ EndSlot(p) = (p + 1) * w
                             /\ p * w \in Nat
<1>1. PICK w \in Nat \ {0} : capacity = w * NumPartitions
  BY RowFacts, Factors
<1>2. ASSUME NEW p \in Nat
      PROVE  p * w \in Nat /\ (p * capacity) \div NumPartitions = p * w
  <2>1. p * (w * NumPartitions) = (p * w) * NumPartitions /\ p * w \in Nat
    BY <1>1, SizeFacts, ProductOfThree
  <2> QED
    BY <1>1, <2>1, SizeFacts, ExactQuotient
<1>3. ASSUME NEW p \in Nat
      PROVE  /\ FirstSlot(p) = p * w
             /\ EndSlot(p) = (p + 1) * w
             /\ p * w \in Nat
  <2>1. p + 1 \in Nat
    OBVIOUS
  <2> QED
    BY <1>2, <2>1 DEF FirstSlot, EndSlot
<1> QED
  BY <1>1, <1>3

\* A partition's slots are the directory's, those of the next follow them.
LEMMA SlotsInDirectory ==
  ASSUME IInv, NEW p \in Nat
  PROVE  /\ FirstSlot(p) \in Nat /\ EndSlot(p) \in Nat
         /\ FirstSlot(p) <= EndSlot(p)
         /\ EndSlot(p) = FirstSlot(p + 1)
         /\ SlotsOf(p) \subseteq Nat
         /\ p \in Partitions => SlotsOf(p) \subseteq Slots /\ EndSlot(p) <= capacity
<1>1. PICK w \in Nat \ {0} :
           /\ capacity = w * NumPartitions
           /\ \A q \in Nat : /\ FirstSlot(q) = q * w
                             /\ EndSlot(q) = (q + 1) * w
                             /\ q * w \in Nat
  BY SlotsEach
<1>2. p + 1 \in Nat /\ (p + 1) * w = p * w + w
  BY <1>1
<1>3. /\ FirstSlot(p) = p * w /\ EndSlot(p) = (p + 1) * w /\ FirstSlot(p + 1) = (p + 1) * w
      /\ p * w \in Nat /\ (p + 1) * w \in Nat
  BY <1>1, <1>2
<1>4. p \in Partitions => (p + 1) * w <= capacity
  <2> SUFFICES ASSUME p \in Partitions
               PROVE  (p + 1) * w <= capacity
    OBVIOUS
  <2>1. PICK d \in Nat : NumPartitions = p + 1 + d
    <3>1. NumPartitions - (p + 1) \in Nat /\ NumPartitions = p + 1 + (NumPartitions - (p + 1))
      BY SizeFacts
    <3> QED
      BY <3>1
  <2>2. w * (p + 1 + d) = (p + 1) * w + d * w /\ d * w \in Nat
    BY <1>1
  <2>3. capacity = w * (p + 1 + d)
    BY <1>1, <2>1
  <2> QED
    BY <1>2, <1>3, <2>2, <2>3
<1> DEFINE a == FirstSlot(p)
           b == EndSlot(p)
<1>5. capacity \in Nat /\ a \in Nat /\ b \in Nat /\ a <= b /\ b = FirstSlot(p + 1)
  BY <1>1, <1>2, <1>3, RowFacts
<1>6. p \in Partitions => b <= capacity
  BY <1>3, <1>4
<1>7. SlotsOf(p) = a .. b - 1 /\ Slots = 0 .. capacity - 1
  BY DEF SlotsOf, Slots
<1> HIDE DEF a, b
<1>8. SlotsOf(p) \subseteq Nat /\ (b <= capacity => SlotsOf(p) \subseteq Slots)
  BY <1>5, <1>7
<1> QED
  BY <1>5, <1>6, <1>8 DEF a, b

\* The bounds of a slot of a partition.
LEMMA SlotBounds ==
  ASSUME IInv, NEW p \in Nat, NEW s \in SlotsOf(p)
  PROVE  /\ s \in Nat /\ FirstSlot(p) \in Nat /\ EndSlot(p) \in Nat
         /\ FirstSlot(p) <= s /\ s < EndSlot(p)
<1>1. FirstSlot(p) \in Nat /\ EndSlot(p) \in Nat
  BY SlotsInDirectory
<1> QED
  BY <1>1 DEF SlotsOf

\* Every slot is in a partition.
LEMMA SlotHasPartition ==
  ASSUME IInv, NEW s \in Slots
  PROVE  \E p \in Partitions : s \in SlotsOf(p)
<1>1. PICK w \in Nat \ {0} :
           /\ capacity = w * NumPartitions
           /\ \A q \in Nat : /\ FirstSlot(q) = q * w
                             /\ EndSlot(q) = (q + 1) * w
                             /\ q * w \in Nat
  BY SlotsEach
<1> DEFINE p == s \div w
<1>2. s \in Nat /\ s < capacity /\ capacity \in Nat
  BY RowFacts DEF Slots
<1>3. p \in Nat
  BY <1>1, <1>2, Division
<1>4. p * w <= s /\ s < (p + 1) * w
  BY <1>1, <1>2, <1>3, Enclosed
<1>5. p < NumPartitions
  <2>1. 0 * w <= s /\ s < NumPartitions * w
    BY <1>1, <1>2, SizeFacts
  <2> QED
    BY <1>1, <1>2, <2>1, SizeFacts, QuotientBetween
<1> HIDE DEF p
<1>6. FirstSlot(p) = p * w /\ EndSlot(p) = (p + 1) * w /\ p * w \in Nat /\ (p + 1) * w \in Nat
  BY <1>1, <1>3
<1> QED
  BY <1>2, <1>3, <1>4, <1>5, <1>6, SizeFacts DEF SlotsOf

\* The rows before a partition's first slot are those of the partitions before.
LEMMA RowsBefore ==
  ASSUME IInv, NEW p \in Nat
  PROVE  /\ Below(FirstSlot(p)) = UNION {Home(q) : q \in 0 .. p - 1}
         /\ Below(EndSlot(p)) = Below(FirstSlot(p)) \union Home(p)
         /\ Below(FirstSlot(p)) \intersect Home(p) = {}
<1>1. ASSUME NEW q \in Nat, NEW r \in Filled
      PROVE  Slot(col[r + 1]) < FirstSlot(q) <=> Partition(col[r + 1]) < q
  <2> DEFINE o == Partition(col[r + 1])
             s == Slot(col[r + 1])
  <2>1. o \in Nat /\ s \in Nat /\ s \in SlotsOf(o)
    BY SlotOfRow, SizeFacts
  <2> HIDE DEF o, s
  <2>2. FirstSlot(o) <= s /\ s < EndSlot(o) /\ FirstSlot(o) \in Nat /\ EndSlot(o) \in Nat
    BY <2>1, SlotsInDirectory DEF SlotsOf
  <2>3. FirstSlot(q) \in Nat
    BY SlotsInDirectory
  <2>4. CASE o < q
    <3>1. EndSlot(o) <= FirstSlot(q)
      BY <2>1, <2>4, RowFacts, PartitionsApart
    <3> QED
      BY <2>1, <2>2, <2>3, <2>4, <3>1 DEF o, s
  <2>5. CASE o = q
    BY <2>1, <2>2, <2>5 DEF o, s
  <2>6. CASE q < o
    <3>1. EndSlot(q) <= FirstSlot(o) /\ FirstSlot(q) <= EndSlot(q) /\ EndSlot(q) \in Nat
      BY <2>1, <2>6, RowFacts, PartitionsApart, SlotsInDirectory
    <3> QED
      BY <2>1, <2>2, <2>3, <2>6, <3>1 DEF o, s
  <2> QED
    BY <2>1, <2>4, <2>5, <2>6
<1>2. \A r \in Filled : Partition(col[r + 1]) \in Nat
  BY SlotOfRow, SizeFacts
<1>3. Below(FirstSlot(p)) = {r \in Filled : Partition(col[r + 1]) < p}
  BY <1>1 DEF Below
<1>4. Below(EndSlot(p)) = {r \in Filled : Partition(col[r + 1]) < p + 1}
  <2>1. EndSlot(p) = FirstSlot(p + 1) /\ p + 1 \in Nat
    BY SlotsInDirectory
  <2> QED
    BY <1>1, <2>1 DEF Below
<1>5. {r \in Filled : Partition(col[r + 1]) < p} = UNION {Home(q) : q \in 0 .. p - 1}
  BY <1>2 DEF Home
<1>6. \A r \in Filled : Partition(col[r + 1]) < p + 1
                        <=> (Partition(col[r + 1]) < p \/ Partition(col[r + 1]) = p)
  BY <1>2
<1> QED
  BY <1>2, <1>3, <1>4, <1>5, <1>6 DEF Home

\* The slots of a partition are disjoint from those of another.
LEMMA SlotsApart ==
  ASSUME IInv, NEW p \in Nat, NEW q \in Nat, NEW s \in SlotsOf(p), s \in SlotsOf(q)
  PROVE  p = q
<1>1. /\ s \in Nat /\ FirstSlot(p) <= s /\ s < EndSlot(p)
      /\ FirstSlot(q) <= s /\ s < EndSlot(q)
      /\ FirstSlot(p) \in Nat /\ EndSlot(p) \in Nat /\ FirstSlot(q) \in Nat /\ EndSlot(q) \in Nat
  BY SlotBounds
<1>2. CASE p < q
  <2>1. EndSlot(p) <= FirstSlot(q)
    BY <1>2, RowFacts, PartitionsApart
  <2> QED
    BY <1>1, <2>1
<1>3. CASE q < p
  <2>1. EndSlot(q) <= FirstSlot(p)
    BY <1>3, RowFacts, PartitionsApart
  <2> QED
    BY <1>1, <2>1
<1> QED
  BY <1>2, <1>3

\* The rows of one slot are of one partition.
LEMMA SlotAtHome ==
  ASSUME IInv, NEW p \in Nat, NEW s \in SlotsOf(p)
  PROVE  InSlot(s) \subseteq Home(p)
<1> SUFFICES ASSUME NEW r \in InSlot(s)
             PROVE  r \in Home(p)
  OBVIOUS
<1>1. r \in Filled /\ Slot(col[r + 1]) = s
  BY DEF InSlot
<1>2. Partition(col[r + 1]) \in Nat /\ s \in SlotsOf(Partition(col[r + 1]))
  BY <1>1, SlotOfRow, SizeFacts
<1>3. Partition(col[r + 1]) = p
  <2> DEFINE q == Partition(col[r + 1])
  <2> HIDE DEF q
  <2>1. q \in Nat /\ s \in SlotsOf(q)
    BY <1>2 DEF q
  <2>2. p = q
    BY <2>1, SlotsApart
  <2> QED
    BY <2>2 DEF q
<1> QED
  BY <1>1, <1>3 DEF Home

-----------------------------------------------------------------------------
(* What a list passes on                                                   *)

LEMMA EntryIsAt ==
  \A t, p, i : EntryOf(t, p, i) = At(level3[t][p], counts[t][p], i)
BY DEF EntryOf, At

\* One divisor more.
LEMMA QuotientOfMore ==
  ASSUME NEW n \in Nat, NEW d \in Nat \ {0}
  PROVE  (n + d) \div d = (n \div d) + 1 /\ (n + d) % d = n % d
<1> DEFINE q == n \div d
           r == n % d
           m == n + d
<1>1. q \in Nat /\ r \in 0 .. d - 1 /\ n = d * q + r
  BY Division
<1>2. m \in Nat /\ m = n + d
  OBVIOUS
<1>3. q * d <= n /\ n < (q + 1) * d
  BY <1>1, Enclosed
<1>4. (q + 1) * d <= m /\ m < (q + 2) * d
  <2> HIDE DEF q, m
  <2>1. (q + 1) * d = q * d + d /\ (q + 2) * d = (q + 1) * d + d /\ q * d \in Nat
    BY <1>1
  <2> QED
    BY <1>2, <1>3, <2>1
<1>5. m % d = r
  BY StrideKeepsRemainder
<1> HIDE DEF q, r, m
<1>6. q + 1 \in Nat /\ q + 2 \in Nat
  BY <1>1
<1>7. q + 1 <= m \div d /\ m \div d < q + 2
  BY <1>2, <1>4, <1>6, QuotientBetween
<1>8. m \div d \in Nat
  BY <1>2, Division
<1>9. m \div d = q + 1
  BY <1>1, <1>7, <1>8
<1> QED
  BY <1>5, <1>9 DEF q, r, m

\* The numbers below a divisor.
LEMMA QuotientOfLess ==
  ASSUME NEW d \in Nat \ {0}, NEW n \in 0 .. d - 1
  PROVE  n \div d = 0 /\ n % d = n
<1>1. n \in Nat /\ 0 * d <= n /\ n < 1 * d
  OBVIOUS
<1>2. 0 <= n \div d /\ n \div d < 1 /\ n \div d \in Nat
  BY <1>1, QuotientBetween, Division
<1> DEFINE q == n \div d
           r == n % d
<1>3. q \in Nat /\ r \in 0 .. d - 1 /\ n = d * q + r
  BY <1>1, Division
<1>4. q = 0
  BY <1>2
<1> HIDE DEF q, r
<1>5. r = n
  BY <1>3, <1>4
<1> QED
  BY <1>4, <1>5 DEF q, r

\* The count of a list that has chunks, and how full the newest is.
LEMMA CountOfChunks ==
  ASSUME NEW list \in Lists, NEW count \in Nat, NEW p, ListMatches(list, count, p)
  PROVE  /\ Len(list.chunks) \in Nat
         /\ list.used \in 1 .. EntriesPerChunk
         /\ IF Len(list.chunks) = 0
            THEN list.used = EntriesPerChunk /\ count = 0
            ELSE /\ count = list.used + (Len(list.chunks) - 1) * EntriesPerChunk
                 /\ FirstChunkEntries(count) = list.used
<1> DEFINE n == Len(list.chunks)
           used == list.used
<1>1. n \in Nat /\ used \in 1 .. EntriesPerChunk
  BY DEF Lists
<1>2. IF n = 0 THEN used = EntriesPerChunk /\ count = 0
      ELSE count = used + (n - 1) * EntriesPerChunk
  BY DEF ListMatches
<1>3. n # 0 => FirstChunkEntries(count) = used
  <2> SUFFICES ASSUME n # 0
               PROVE  FirstChunkEntries(count) = used
    OBVIOUS
  <2> HIDE DEF n, used
  <2> DEFINE m == n - 1
  <2>1. m \in Nat /\ count = used + m * EntriesPerChunk
    BY <1>1, <1>2
  <2> HIDE DEF m
  <2>2. FirstChunkEntries(used + m * EntriesPerChunk) = used
    BY <1>1, <2>1, NewestChunk
  <2> QED
    BY <2>1, <2>2
<1> QED
  BY <1>1, <1>2, <1>3

\* consume puts the entry at one place of what the list passes on, and moves
\* what follows by one.
LEMMA ConsumeShifts ==
  ASSUME NEW list \in Lists, NEW count \in Nat, NEW p, ListMatches(list, count, p), NEW e
  PROVE  \E k \in 1 .. count + 1 : \A i \in 1 .. count + 1 :
           At(Consume(list, e), count + 1, i)
             = IF i < k THEN At(list, count, i)
               ELSE IF i = k THEN e ELSE At(list, count, i - 1)
<1> DEFINE E == EntriesPerChunk
           chunks == list.chunks
           used == list.used
           n == Len(chunks)
           after == Consume(list, e)
<1>1. E \in Nat \ {0} /\ used \in 1 .. E /\ n \in Nat
  BY SizeFacts, CountOfChunks
<1>2. IF n = 0 THEN used = E /\ count = 0
      ELSE count = used + (n - 1) * E /\ FirstChunkEntries(count) = used
  BY CountOfChunks
<1>3. chunks \in Seq([1 .. E -> Cell])
  BY DEF Lists
<1>4. ASSUME NEW l, NEW c, NEW i, NEW u, FirstChunkEntries(c) = u
      PROVE  At(l, c, i) = IF i - u - 1 < 0 THEN l.chunks[1][i]
                           ELSE l.chunks[2 + ((i - u - 1) \div E)][1 + ((i - u - 1) % E)]
  BY <1>4 DEF At
<1>5. CASE used = E
  <2> DEFINE c == [FreshChunk EXCEPT ![1] = e]
             full == <<c>> \o chunks
  <2>1. after = [chunks |-> full, used |-> 1]
    BY <1>5 DEF Consume
  <2>2. after.chunks = full
    BY <2>1
  <2>3. c[1] = e
    BY <1>1 DEF FreshChunk
  <2> HIDE DEF c
  <2>4. full[1] = c /\ \A j \in 2 .. n + 1 : full[j] = chunks[j - 1]
    BY <1>1, <1>3
  <2> HIDE DEF full
  <2>5. count = n * E
    <3>1. CASE n = 0
      BY <1>1, <1>2, <3>1
    <3>2. CASE n # 0
      <4>1. n * E = E + (n - 1) * E
        BY <1>1, <3>2
      <4> QED
        BY <1>2, <1>5, <3>2, <4>1
    <3> QED
      BY <3>1, <3>2
  <2>6. FirstChunkEntries(count + 1) = 1
    <3> HIDE DEF n
    <3>1. 1 \in 1 .. E /\ n * E \in Nat
      BY <1>1
    <3>2. FirstChunkEntries(1 + n * E) = 1
      BY <1>1, <3>1, NewestChunk
    <3>3. count + 1 = 1 + n * E
      BY <2>5, <3>1
    <3> QED
      BY <3>2, <3>3
  <2> HIDE DEF after, chunks, n, used, E
  <2>7. At(after, count + 1, 1) = e
    <3>1. At(after, count + 1, 1) = full[1][1]
      BY <1>4, <2>2, <2>6
    <3> QED
      BY <2>3, <2>4, <3>1
  <2>8. ASSUME NEW i \in 2 .. count + 1
        PROVE  At(after, count + 1, i) = At(list, count, i - 1)
    <3> DEFINE m == i - 2
    <3>1. m \in Nat /\ i = m + 2 /\ m < n * E
      BY <1>1, <2>5
    <3> HIDE DEF m
    <3>2. m \div E \in Nat /\ m \div E < n /\ m % E \in 0 .. E - 1
      <4>1. 0 * E <= m
        BY <1>1, <3>1
      <4> QED
        BY <1>1, <3>1, <4>1, Division, QuotientBetween
    <3>3. At(after, count + 1, i) = full[2 + (m \div E)][1 + (m % E)]
      <4>1. i - 1 - 1 = m /\ ~(m < 0)
        BY <3>1
      <4> QED
        BY <1>4, <2>2, <2>6, <4>1
    <3>4. full[2 + (m \div E)] = chunks[1 + (m \div E)]
      <4> DEFINE q == m \div E
      <4>1. q \in Nat /\ q < n
        BY <3>2
      <4> HIDE DEF q
      <4>2. 2 + q \in 2 .. n + 1 /\ (2 + q) - 1 = 1 + q
        BY <1>1, <4>1
      <4>3. full[2 + q] = chunks[1 + q]
        BY <2>4, <4>2
      <4> QED
        BY <4>3 DEF q
    <3>5. n # 0
      BY <1>1, <3>1
    <3>6. CASE m < E
      <4>1. m \div E = 0 /\ m % E = m
        <5>1. m \in 0 .. E - 1
          BY <1>1, <3>1, <3>6
        <5> QED
          BY <1>1, <5>1, QuotientOfLess
      <4>2. At(list, count, i - 1) = chunks[1][i - 1]
        <5>1. (i - 1) - used - 1 < 0
          BY <1>1, <1>5, <3>1, <3>6
        <5> QED
          BY <1>2, <1>4, <3>5, <5>1 DEF chunks
      <4> QED
        BY <3>1, <3>3, <3>4, <4>1, <4>2
    <3>7. CASE ~(m < E)
      <4> DEFINE o == m - E
      <4>1. o \in Nat /\ m = o + E /\ (i - 1) - used - 1 = o /\ ~(o < 0)
        BY <1>1, <1>5, <3>1, <3>7
      <4> HIDE DEF o
      <4>2. m \div E = (o \div E) + 1 /\ m % E = o % E
        BY <1>1, <4>1, QuotientOfMore
      <4>3. At(list, count, i - 1) = chunks[2 + (o \div E)][1 + (o % E)]
        BY <1>2, <1>4, <3>5, <4>1 DEF chunks
      <4>4. o \div E \in Nat
        BY <1>1, <4>1, Division
      <4>5. 1 + (m \div E) = 2 + (o \div E)
        <5> DEFINE q == o \div E
        <5>1. q \in Nat /\ m \div E = q + 1
          BY <4>2, <4>4
        <5> HIDE DEF q
        <5>2. 1 + (m \div E) = 2 + q
          BY <5>1
        <5> QED
          BY <5>2 DEF q
      <4> QED
        BY <3>3, <3>4, <4>2, <4>3, <4>5
    <3> QED
      BY <3>6, <3>7
  <2>9. 1 \in 1 .. count + 1 /\ \A i \in 1 .. count + 1 : ~(i < 1) /\ (i # 1 => i \in 2 .. count + 1)
    OBVIOUS
  <2>10. \A i \in 1 .. count + 1 :
           At(after, count + 1, i) = IF i < 1 THEN At(list, count, i)
                                     ELSE IF i = 1 THEN e ELSE At(list, count, i - 1)
    BY <2>7, <2>8, <2>9
  <2> QED
    BY <2>9, <2>10 DEF after
<1>6. CASE used # E
  <2> DEFINE c == [chunks[1] EXCEPT ![used + 1] = e]
             full == <<c>> \o Tail(chunks)
  <2>1. after = [chunks |-> full, used |-> used + 1]
    BY <1>6 DEF Consume
  <2>2. after.chunks = full
    BY <2>1
  <2>3. n # 0 /\ count = used + (n - 1) * E /\ FirstChunkEntries(count) = used
    BY <1>2, <1>6
  <2>4. chunks[1] \in [1 .. E -> Cell] /\ used + 1 \in 1 .. E
    BY <1>1, <1>3, <1>6, <2>3
  <2>5. c[used + 1] = e /\ \A x \in 1 .. E : x # used + 1 => c[x] = chunks[1][x]
    BY <2>4
  <2> HIDE DEF c
  <2>6. full[1] = c /\ \A j \in 2 .. n : full[j] = chunks[j]
    BY <1>1, <1>3, <2>3
  <2> HIDE DEF full
  <2>7. FirstChunkEntries(count + 1) = used + 1
    <3> DEFINE m == n - 1
               v == used + 1
    <3>1. m \in Nat /\ v \in 1 .. E
      BY <1>1, <2>3, <2>4
    <3>2. count + 1 = v + m * E
      <4>1. m * E \in Nat /\ used \in Nat /\ count = used + m * E
        BY <1>1, <2>3, <3>1
      <4> HIDE DEF m, used
      <4> QED
        BY <4>1
    <3> HIDE DEF m, v
    <3>3. FirstChunkEntries(v + m * E) = v
      BY <3>1, NewestChunk
    <3> QED
      BY <3>2, <3>3 DEF v
  <2> HIDE DEF after, chunks, n, used, E
  <2>8. ASSUME NEW i \in 1 .. count + 1, i <= used
        PROVE  At(after, count + 1, i) = At(list, count, i)
    <3>1. i - (used + 1) - 1 < 0 /\ i - used - 1 < 0 /\ i \in 1 .. E /\ i # used + 1
      BY <1>1, <2>8
    <3>2. At(after, count + 1, i) = full[1][i]
      BY <1>4, <2>2, <2>7, <3>1
    <3>3. At(list, count, i) = chunks[1][i]
      BY <1>4, <2>3, <3>1 DEF chunks
    <3> QED
      BY <2>5, <2>6, <3>1, <3>2, <3>3
  <2>9. At(after, count + 1, used + 1) = e
    <3>1. (used + 1) - (used + 1) - 1 < 0
      BY <1>1
    <3>2. At(after, count + 1, used + 1) = full[1][used + 1]
      BY <1>4, <2>2, <2>7, <3>1
    <3> QED
      BY <2>5, <2>6, <3>2
  <2>10. ASSUME NEW i \in 1 .. count + 1, i > used + 1
         PROVE  At(after, count + 1, i) = At(list, count, i - 1)
    <3> DEFINE m == i - used - 2
    <3>1. m \in Nat /\ i - (used + 1) - 1 = m /\ (i - 1) - used - 1 = m /\ ~(m < 0)
      BY <1>1, <2>10
    <3>2. n - 1 \in Nat /\ m < (n - 1) * E
      <4>1. n - 1 \in Nat
        BY <1>1, <2>3
      <4>2. (n - 1) * E \in Nat
        BY <1>1, <4>1
      <4> QED
        BY <1>1, <2>3, <2>10, <4>1, <4>2
    <3> HIDE DEF m
    <3>3. m \div E \in Nat /\ m \div E < n - 1
      <4>1. 0 * E <= m
        BY <1>1, <3>1
      <4> QED
        BY <1>1, <3>1, <3>2, <4>1, Division, QuotientBetween
    <3>4. At(after, count + 1, i) = full[2 + (m \div E)][1 + (m % E)]
      BY <1>4, <2>2, <2>7, <3>1
    <3>5. At(list, count, i - 1) = chunks[2 + (m \div E)][1 + (m % E)]
      BY <1>4, <2>3, <3>1 DEF chunks
    <3>6. 2 + (m \div E) \in 2 .. n
      <4> DEFINE q == m \div E
      <4>1. q \in Nat /\ q < n - 1
        BY <3>3
      <4> HIDE DEF q
      <4>2. 2 + q \in 2 .. n
        BY <1>1, <4>1
      <4> QED
        BY <4>2 DEF q
    <3> QED
      BY <2>6, <3>4, <3>5, <3>6
  <2>11. used + 1 \in 1 .. count + 1
    <3>1. n - 1 \in Nat
      BY <1>1, <2>3
    <3>2. (n - 1) * E \in Nat
      BY <1>1, <3>1
    <3> QED
      BY <1>1, <2>3, <3>2
  <2> DEFINE k == used + 1
  <2>12. \A i \in 1 .. count + 1 :
           At(after, count + 1, i) = IF i < k THEN At(list, count, i)
                                     ELSE IF i = k THEN e ELSE At(list, count, i - 1)
    <3> TAKE i \in 1 .. count + 1
    <3>1. CASE i < k
      BY <1>1, <2>8, <3>1
    <3>2. CASE i = k
      BY <2>9, <3>2
    <3>3. CASE i > k
      <4>1. ~(i < k) /\ i # k /\ i > used + 1
        BY <1>1, <3>3
      <4> QED
        BY <2>10, <4>1
    <3> QED
      BY <1>1, <3>1, <3>2, <3>3
  <2> HIDE DEF k
  <2> QED
    BY <2>11, <2>12 DEF k, after
<1> QED
  BY <1>5, <1>6

\* One more entry.
LEMMA ConsumePassesOn ==
  ASSUME NEW list \in Lists, NEW count \in Nat, NEW p, ListMatches(list, count, p),
         NEW X, PassesOn(list, count, X), NEW e, e \notin X
  PROVE  PassesOn(Consume(list, e), count + 1, X \union {e})
<1> DEFINE after(i) == At(Consume(list, e), count + 1, i)
           before(i) == At(list, count, i)
<1>1. PICK k \in 1 .. count + 1 : \A i \in 1 .. count + 1 :
        after(i) = IF i < k THEN before(i) ELSE IF i = k THEN e ELSE before(i - 1)
  BY ConsumeShifts
<1>2. /\ \A i \in 1 .. count : before(i) \in X
      /\ \A x \in X : \E i \in 1 .. count : before(i) = x
      /\ \A i, j \in 1 .. count : before(i) = before(j) => i = j
  BY DEF PassesOn
<1> HIDE DEF after, before
<1> DEFINE source(i) == IF i < k THEN i ELSE i - 1
<1>3. \A i \in 1 .. count + 1 : i # k => source(i) \in 1 .. count /\ after(i) = before(source(i))
  <2> TAKE i \in 1 .. count + 1
  <2>1. CASE i < k
    BY <1>1, <2>1
  <2>2. CASE i > k
    <3>1. ~(i < k) /\ i # k /\ i - 1 \in 1 .. count
      BY <2>2
    <3> QED
      BY <1>1, <3>1
  <2> QED
    BY <2>1, <2>2
<1>4. after(k) = e
  BY <1>1
<1>5. \A i, j \in 1 .. count + 1 : i # k /\ j # k /\ source(i) = source(j) => i = j
  OBVIOUS
<1>6. \A i \in 1 .. count : \E j \in 1 .. count + 1 : j # k /\ source(j) = i
  <2> TAKE i \in 1 .. count
  <2>1. CASE i < k
    BY <2>1
  <2>2. CASE i >= k
    <3>1. i + 1 \in 1 .. count + 1 /\ i + 1 # k /\ source(i + 1) = i
      BY <2>2
    <3> QED
      BY <3>1
  <2> QED
    BY <2>1, <2>2
<1> HIDE DEF source
<1>7. \A i \in 1 .. count + 1 : after(i) \in X \union {e}
  BY <1>2, <1>3, <1>4
<1>8. \A x \in X \union {e} : \E i \in 1 .. count + 1 : after(i) = x
  <2> SUFFICES ASSUME NEW x \in X
               PROVE  \E i \in 1 .. count + 1 : after(i) = x
    BY <1>4
  <2>1. PICK i \in 1 .. count : before(i) = x
    BY <1>2
  <2>2. PICK j \in 1 .. count + 1 : j # k /\ source(j) = i
    BY <1>6
  <2> QED
    BY <1>3, <2>1, <2>2
<1>9. \A i, j \in 1 .. count + 1 : after(i) = after(j) => i = j
  <2> SUFFICES ASSUME NEW i \in 1 .. count + 1, NEW j \in 1 .. count + 1, after(i) = after(j)
               PROVE  i = j
    OBVIOUS
  <2>1. CASE i = k \/ j = k
    <3>1. \A x \in 1 .. count + 1 : x # k => after(x) # e
      BY <1>2, <1>3
    <3> QED
      BY <1>4, <2>1, <3>1
  <2>2. CASE i # k /\ j # k
    <3>1. before(source(i)) = before(source(j)) /\ source(i) \in 1 .. count /\ source(j) \in 1 .. count
      BY <1>3, <2>2
    <3>2. source(i) = source(j)
      BY <1>2, <3>1
    <3> QED
      BY <1>5, <2>2, <3>2
  <2> QED
    BY <2>1, <2>2
<1> QED
  BY <1>7, <1>8, <1>9 DEF PassesOn, after

\* Two rows have two entries.
LEMMA EntryOfRow ==
  /\ \A r : EntryFor(r).key = col[r + 1] /\ EntryFor(r).row = r
  /\ \A r, s : EntryFor(r) = EntryFor(s) => r = s
<1>1. \A r : EntryFor(r).key = col[r + 1] /\ EntryFor(r).row = r
  BY DEF EntryFor
<1> QED
  BY <1>1

\* How many entries a list passes on.
LEMMA RowsOfList ==
  ASSUME IInv, NEW list, NEW count \in Nat, NEW R, R \subseteq Filled,
         PassesOn(list, count, EntriesOf(R))
  PROVE  Cardinality(R) = count
<1> DEFINE f == [i \in 1 .. count |-> At(list, count, i).row]
<1>1. /\ \A i \in 1 .. count : \E r \in R : At(list, count, i) = EntryFor(r)
      /\ \A r \in R : \E i \in 1 .. count : At(list, count, i) = EntryFor(r)
      /\ \A i, j \in 1 .. count : At(list, count, i) = At(list, count, j) => i = j
  BY DEF PassesOn, EntriesOf
<1>2. f \in [1 .. count -> R]
  BY <1>1, EntryOfRow
<1>3. \A i, j \in 1 .. count : f[i] = f[j] => i = j
  BY <1>1, EntryOfRow
<1>4. \A r \in R : \E i \in 1 .. count : f[i] = r
  BY <1>1, EntryOfRow
<1> HIDE DEF f
<1>5. f \in Bijection(1 .. count, R)
  BY <1>2, <1>3, <1>4 DEF Bijection, Injection, Surjection, IsInjective
<1>6. ExistsBijection(1 .. count, R)
  BY <1>5 DEF ExistsBijection
<1> QED
  BY <1>6, FS_CountingElements

\* Nothing of this changes while the column and the capacity stay.
LEMMA ColumnFixed ==
  ASSUME col' = col, capacity' = capacity
  PROVE  /\ NumRows' = NumRows /\ RowSet' = RowSet /\ Filled' = Filled /\ Slots' = Slots
         /\ \A k : Slot(k)' = Slot(k)
         /\ \A r : EntryFor(r)' = EntryFor(r)
         /\ \A R : EntriesOf(R)' = EntriesOf(R)
         /\ \A R : TagsOf(R)' = TagsOf(R)
         /\ \A p : FirstSlot(p)' = FirstSlot(p)
         /\ \A p : EndSlot(p)' = EndSlot(p)
         /\ \A p : SlotsOf(p)' = SlotsOf(p)
         /\ \A p : Home(p)' = Home(p)
         /\ \A s : InSlot(s)' = InSlot(s)
         /\ \A s : NumBelow(s)' = NumBelow(s)
         /\ TuplesPerThread' = TuplesPerThread
         /\ \A t : RangeEnd(t)' = RangeEnd(t)
         /\ \A t : RangeOf(t)' = RangeOf(t)
<1>1. NumRows' = NumRows /\ Slots' = Slots
  BY DEF NumRows, Slots
<1>2. RowSet' = RowSet /\ \A k : Slot(k)' = Slot(k)
  BY <1>1 DEF RowSet, Slot
<1>3. Filled' = Filled
  BY <1>2 DEF Filled
<1>4. /\ \A r : EntryFor(r)' = EntryFor(r)
      /\ \A R : TagsOf(R)' = TagsOf(R)
  BY DEF EntryFor, TagsOf
<1>5. \A R : EntriesOf(R)' = EntriesOf(R)
  BY <1>4 DEF EntriesOf
<1>6. /\ \A p : FirstSlot(p)' = FirstSlot(p)
      /\ \A p : EndSlot(p)' = EndSlot(p)
  BY DEF FirstSlot, EndSlot
<1>7. \A p : SlotsOf(p)' = SlotsOf(p)
  BY <1>6 DEF SlotsOf
<1>8. /\ \A p : Home(p)' = Home(p)
      /\ \A s : InSlot(s)' = InSlot(s)
      /\ \A s : Below(s)' = Below(s)
  BY <1>2, <1>3 DEF Home, InSlot, Below
<1>9. \A s : NumBelow(s)' = NumBelow(s)
  BY <1>8 DEF NumBelow
<1>10. TuplesPerThread' = TuplesPerThread
  BY <1>1 DEF TuplesPerThread
<1>11. \A t : RangeEnd(t)' = RangeEnd(t)
  BY <1>1, <1>10 DEF RangeEnd
<1>12. \A t : RangeOf(t)' = RangeOf(t)
  BY <1>10, <1>11 DEF RangeOf
<1> QED
  BY <1>1, <1>2, <1>3, <1>4, <1>5, <1>6, <1>7, <1>8, <1>9, <1>10, <1>11, <1>12

-----------------------------------------------------------------------------
(* The ranges of the threads                                               *)

LEMMA RangeFacts ==
  ASSUME IInv, NEW t \in Threads
  PROVE  /\ TuplesPerThread \in Nat
         /\ t * TuplesPerThread \in Nat
         /\ (t + 1) * TuplesPerThread \in Nat
         /\ RangeEnd(t) \in Nat
         /\ RangeEnd(t) <= NumRows /\ RangeEnd(t) <= (t + 1) * TuplesPerThread
         /\ RangeEnd(t) \in {(t + 1) * TuplesPerThread, NumRows}
         /\ RangeOf(t) \subseteq RowSet
<1> DEFINE w == TuplesPerThread
           a == (t + 1) * w
           n == NumRows
<1>1. n \in Nat /\ t \in Nat
  BY RowFacts, SizeFacts
<1>2. w \in Nat
  <2>1. NumRows + NumThreads - 1 \in Nat
    BY <1>1, SizeFacts
  <2> QED
    BY <2>1, SizeFacts, Division DEF TuplesPerThread
<1>3. RangeEnd(t) = Min({a, n})
  BY DEF RangeEnd
<1>4. RangeOf(t) = t * w .. RangeEnd(t) - 1 /\ RowSet = 0 .. n - 1
  BY DEF RangeOf, RowSet
<1> HIDE DEF w, n
<1>5. a \in Nat /\ t * w \in Nat
  BY <1>1, <1>2
<1> HIDE DEF a
<1>6. RangeEnd(t) \in {a, n} /\ RangeEnd(t) <= a /\ RangeEnd(t) <= n
  BY <1>1, <1>3, <1>5, LeastOfTwo
<1>7. RangeEnd(t) \in Nat
  BY <1>1, <1>5, <1>6
<1>8. RangeOf(t) \subseteq RowSet
  BY <1>1, <1>4, <1>5, <1>6, <1>7
<1> QED
  BY <1>2, <1>5, <1>6, <1>7, <1>8 DEF w, n, a

\* The ranges cover the column and do not meet.
LEMMA RowOwner ==
  ASSUME IInv
  PROVE  /\ \A r \in RowSet : \E t \in Threads : r \in RangeOf(t)
         /\ \A t, u \in Threads, r \in RowSet : r \in RangeOf(t) /\ r \in RangeOf(u) => t = u
<1> DEFINE w == TuplesPerThread
           n == NumRows
           N == NumThreads
<1>1. n \in Nat /\ N \in Nat \ {0} /\ Threads = 0 .. N - 1 /\ RowSet = 0 .. n - 1
  BY RowFacts, SizeFacts DEF RowSet
<1>2. w \in Nat /\ n <= N * w
  <2> DEFINE m == n + N - 1
  <2>1. m \in Nat /\ w = m \div N
    BY <1>1 DEF TuplesPerThread
  <2> HIDE DEF w, m
  <2>2. w \in Nat /\ m % N \in 0 .. N - 1 /\ m = N * w + (m % N)
    BY <1>1, <2>1, Division
  <2> DEFINE o == m % N
             q == N * w
  <2>3. q \in Nat /\ o \in 0 .. N - 1 /\ m = q + o
    BY <1>1, <2>2
  <2> HIDE DEF o, q
  <2>4. n <= q
    BY <1>1, <2>3 DEF m
  <2> QED
    BY <2>2, <2>4 DEF q
<1>3. ASSUME NEW r \in RowSet
      PROVE  /\ w # 0
             /\ r \div w \in Threads
             /\ r \in RangeOf(r \div w)
             /\ \A t \in Threads : r \in RangeOf(t) => t = r \div w
  <2>1. r \in Nat /\ r < n
    BY <1>1
  <2>2. w # 0
    <3>1. N * 0 = 0
      BY <1>1
    <3> HIDE DEF w, n, N
    <3> QED
      BY <1>1, <1>2, <2>1, <3>1
  <2> DEFINE q == r \div w
  <2>3. q \in Nat /\ q * w <= r /\ r < (q + 1) * w
    <3> HIDE DEF w
    <3>1. q \in Nat
      BY <1>2, <2>1, <2>2, Division
    <3> QED
      BY <1>2, <2>1, <2>2, <3>1, Enclosed
  <2>4. q < N
    <3> HIDE DEF w, n, N
    <3>1. 0 * w <= r /\ r < N * w
      <4>1. N * w \in Nat /\ 0 * w = 0
        BY <1>1, <1>2
      <4> QED
        BY <1>1, <1>2, <2>1, <4>1
    <3> QED
      BY <1>1, <1>2, <2>1, <2>2, <3>1, QuotientBetween
  <2>5. q \in Threads
    BY <1>1, <2>3, <2>4
  <2>6. ASSUME NEW t \in Threads
        PROVE  /\ RangeOf(t) = t * w .. RangeEnd(t) - 1
               /\ t * w \in Nat /\ (t + 1) * w \in Nat /\ RangeEnd(t) \in Nat
               /\ RangeEnd(t) <= (t + 1) * w
               /\ RangeEnd(t) \in {(t + 1) * w, n}
               /\ t \in Nat
    BY RangeFacts, SizeFacts DEF RangeOf
  <2>7. r \in RangeOf(q)
    <3> HIDE DEF q, w, n
    <3> QED
      BY <2>1, <2>3, <2>5, <2>6
  <2>8. ASSUME NEW t \in Threads, r \in RangeOf(t)
        PROVE  t = q
    <3>1. t * w <= r /\ r < (t + 1) * w /\ t \in Nat /\ t + 1 \in Nat
      <4> HIDE DEF w, q, n
      <4> QED
        BY <2>1, <2>6, <2>8
    <3> HIDE DEF w
    <3>2. t <= r \div w /\ r \div w < t + 1
      BY <1>2, <2>1, <2>2, <3>1, QuotientBetween
    <3> HIDE DEF q
    <3>3. t <= q /\ q < t + 1
      BY <3>2 DEF q
    <3> QED
      BY <2>3, <3>1, <3>3
  <2> QED
    BY <2>2, <2>5, <2>7, <2>8
<1> HIDE DEF w
<1> QED
  BY <1>3

-----------------------------------------------------------------------------
(* The pool, the ranges and the lists                                      *)

\* No step leaves the column, the constructor's choice, or the end behind.
LEMMA StepFrame ==
  ASSUME [Next]_vars
  PROVE  /\ col' = col /\ capacity' = capacity
         /\ phase = "built" => phase' = "built"
<1>1. ASSUME NEW t \in Threads, WorkerStep(t)
      PROVE  col' = col /\ capacity' = capacity /\ phase' = phase
  BY <1>1 DEF WorkerStep, BeginPartition, Insert, EndPartition, BeginPost, CountEntry, NextSource,
              StartPrefix, PrefixSlot, StartCopy, CopyEntry, FinishPartition, EndPost, postUnchanged
<1>2. ASSUME CallerStep
      PROVE  col' = col /\ capacity' = capacity /\ phase # "built"
  BY <1>2 DEF CallerStep, DispatchPartition, ReturnPartition, DispatchPost, ReturnPost
<1> QED
  BY <1>1, <1>2 DEF Next, Built, vars

\* The steps of a thread in the second task that are not the pool's.
PostStep(t) ==
  \/ CountEntry(t) \/ NextSource(t) \/ StartPrefix(t) \/ PrefixSlot(t)
  \/ StartCopy(t) \/ CopyEntry(t) \/ FinishPartition(t)

LEMMA PostStepFrame ==
  ASSUME NEW t \in Threads, PostStep(t)
  PROVE  /\ phase = "post" /\ t \in running
         /\ UNCHANGED postUnchanged
         /\ post[t].part < NumPartitions
BY DEF PostStep, CountEntry, NextSource, StartPrefix, PrefixSlot, StartCopy, CopyEntry,
       FinishPartition, InPost

LEMMA InitPool == Init => PoolMatches /\ NextMatches
BY DEF Init, Pool!Init, PoolMatches, NextMatches

LEMMA PoolStep ==
  ASSUME PoolMatches, [Next]_vars
  PROVE  PoolMatches'
<1>1. /\ todo \subseteq Threads /\ running \subseteq Threads
      /\ todo \intersect running = {}
      /\ phase = "new" => calls = 0
      /\ phase \in {"partition", "sums"} => calls = 1
      /\ phase \in {"post", "built"} => calls = 2
      /\ phase \in {"new", "partition", "sums", "post", "built"}
      /\ IF phase \in {"partition", "post"}
         THEN caller = "blocked"
         ELSE caller = "idle" /\ todo = {} /\ running = {}
  BY DEF PoolMatches
<1>2. Threads = Pool!Workers
  BY DEF Threads, Pool!Workers
<1>3. ASSUME NEW t \in Threads, WorkerStep(t)
      PROVE  PoolMatches'
  <2>1. CASE BeginPartition(t)
    BY <1>1, <2>1 DEF BeginPartition, Pool!Begin, PoolMatches
  <2>2. CASE Insert(t)
    BY <1>1, <2>2 DEF Insert, poolVars, PoolMatches
  <2>3. CASE EndPartition(t)
    BY <1>1, <2>3 DEF EndPartition, Pool!End, PoolMatches
  <2>4. CASE BeginPost(t)
    BY <1>1, <2>4 DEF BeginPost, Pool!Begin, PoolMatches
  <2>5. CASE PostStep(t)
    <3>1. UNCHANGED <<calls, todo, running, caller, phase>>
      BY <2>5, PostStepFrame DEF postUnchanged, poolVars
    <3> QED
      BY <1>1, <3>1 DEF PoolMatches
  <2>6. CASE EndPost(t)
    BY <1>1, <2>6 DEF EndPost, Pool!End, PoolMatches
  <2> QED
    BY <1>3, <2>1, <2>2, <2>3, <2>4, <2>5, <2>6 DEF WorkerStep, PostStep
<1>4. CASE CallerStep
  <2>1. CASE DispatchPartition
    BY <1>1, <1>2, <2>1 DEF DispatchPartition, Pool!Dispatch, PoolMatches
  <2>2. CASE ReturnPartition
    BY <1>1, <2>2 DEF ReturnPartition, Pool!Return, PoolMatches
  <2>3. CASE DispatchPost
    BY <1>1, <1>2, <2>3 DEF DispatchPost, Pool!Dispatch, PoolMatches
  <2>4. CASE ReturnPost
    BY <1>1, <2>4 DEF ReturnPost, Pool!Return, PoolMatches
  <2> QED
    BY <1>4, <2>1, <2>2, <2>3, <2>4 DEF CallerStep
<1>5. CASE UNCHANGED vars
  BY <1>1, <1>5 DEF vars, poolVars, PoolMatches
<1> QED
  BY <1>3, <1>4, <1>5 DEF Next, Built

LEMMA NextStep ==
  ASSUME IInv, PoolMatches, NextMatches, [Next]_vars
  PROVE  NextMatches'
<1>1. next \in [Threads -> Nat] /\ todo \subseteq Threads /\ running \subseteq Threads
  BY DEF IInv, ColumnMatches, PoolMatches
<1>2. /\ TuplesPerThread' = TuplesPerThread
      /\ \A t : RangeEnd(t)' = RangeEnd(t)
  BY StepFrame, ColumnFixed
<1>3. \A t \in Threads : RangeEnd(t) \in Nat /\ t * TuplesPerThread \in Nat
  BY RangeFacts
<1>4. ASSUME NEW t \in Threads, WorkerStep(t)
      PROVE  NextMatches'
  <2>1. CASE BeginPartition(t)
    <3>1. /\ phase = "partition" /\ phase' = "partition"
          /\ t \in todo /\ todo' = todo \ {t} /\ running' = running \union {t}
          /\ next' = [next EXCEPT ![t] = t * TuplesPerThread]
      BY <2>1 DEF BeginPartition, Pool!Begin
    <3>2. Finished' \subseteq Finished /\ t \notin Finished'
      BY <3>1 DEF Finished
    <3>3. /\ next'[t] = t * TuplesPerThread
          /\ \A u \in Threads : u # t => next'[u] = next[u]
      BY <1>1, <3>1
    <3>4. t \notin running
      BY <3>1 DEF PoolMatches
    <3> DEFINE a(u) == u * TuplesPerThread
    <3>5. \A u \in running' : next'[u] >= a(u)
      BY <1>1, <1>3, <3>1, <3>3, <3>4 DEF NextMatches
    <3>6. \A u \in Finished' : next'[u] >= RangeEnd(u)
      BY <3>1, <3>2, <3>3 DEF NextMatches, Finished
    <3>7. \A u \in todo' : next'[u] = 0
      BY <1>1, <3>1, <3>3 DEF NextMatches
    <3> QED
      BY <1>2, <3>1, <3>5, <3>6, <3>7 DEF NextMatches
  <2>2. CASE Insert(t)
    <3>1. /\ phase = "partition" /\ phase' = "partition"
          /\ t \in running /\ todo' = todo /\ running' = running
          /\ next' = [next EXCEPT ![t] = next[t] + 1]
      BY <2>2 DEF Insert, poolVars
    <3>2. Finished' = Finished /\ t \notin Finished /\ t \notin todo
      BY <3>1 DEF Finished, PoolMatches
    <3>3. /\ next'[t] = next[t] + 1
          /\ \A u \in Threads : u # t => next'[u] = next[u]
      BY <1>1, <3>1
    <3> DEFINE a(u) == u * TuplesPerThread
    <3>4. \A u \in Threads : a(u) \in Nat
      BY <1>3
    <3>5. \A u \in running : next[u] >= a(u)
      BY <3>1 DEF NextMatches
    <3>6. \A u \in running' : next'[u] >= a(u)
      <4> HIDE DEF a
      <4> QED
        BY <1>1, <3>1, <3>3, <3>4, <3>5
    <3>7. \A u \in Finished' : next'[u] >= RangeEnd(u)
      BY <3>1, <3>2, <3>3 DEF NextMatches, Finished
    <3>8. \A u \in todo' : next'[u] = 0
      BY <1>1, <3>1, <3>2, <3>3 DEF NextMatches
    <3> QED
      BY <1>2, <3>1, <3>6, <3>7, <3>8 DEF NextMatches
  <2>3. CASE EndPartition(t)
    <3>1. /\ phase = "partition" /\ phase' = "partition" /\ next' = next
          /\ next[t] >= RangeEnd(t)
          /\ t \in running /\ todo' = todo /\ running' = running \ {t}
      BY <2>3 DEF EndPartition, Pool!End
    <3>2. \A u \in Finished' : u \in Finished \/ u = t
      BY <3>1 DEF Finished
    <3> QED
      BY <1>2, <3>1, <3>2 DEF NextMatches
  <2>4. CASE BeginPost(t) \/ EndPost(t)
    <3>1. phase = "post" /\ phase' = "post" /\ next' = next
      BY <2>4 DEF BeginPost, EndPost
    <3> QED
      BY <1>2, <3>1 DEF NextMatches
  <2>5. CASE PostStep(t)
    <3>1. phase = "post" /\ phase' = "post" /\ next' = next
      BY <2>5, PostStepFrame DEF postUnchanged
    <3> QED
      BY <1>2, <3>1 DEF NextMatches
  <2> QED
    BY <1>4, <2>1, <2>2, <2>3, <2>4, <2>5 DEF WorkerStep, PostStep
<1>5. CASE CallerStep
  <2>1. CASE DispatchPartition
    <3>1. /\ phase = "new" /\ phase' = "partition" /\ next' = next
          /\ todo' = Threads /\ running' = running
      BY <2>1 DEF DispatchPartition, Pool!Dispatch, Pool!Workers, Threads
    <3>2. running = {}
      BY <3>1 DEF PoolMatches
    <3>3. Finished' = {}
      BY <3>1 DEF Finished
    <3> QED
      BY <3>1, <3>2, <3>3 DEF NextMatches
  <2>2. CASE ReturnPartition
    <3>1. phase = "partition" /\ phase' = "sums" /\ next' = next /\ todo = {} /\ running = {}
      BY <2>2 DEF ReturnPartition, Pool!Return
    <3>2. Finished = Threads
      BY <3>1 DEF Finished
    <3> QED
      BY <1>2, <3>1, <3>2 DEF NextMatches
  <2>3. CASE DispatchPost
    <3>1. phase = "sums" /\ phase' = "post" /\ next' = next
      BY <2>3 DEF DispatchPost
    <3> QED
      BY <1>2, <3>1 DEF NextMatches
  <2>4. CASE ReturnPost
    <3>1. phase' = "built"
      BY <2>4 DEF ReturnPost
    <3> QED
      BY <3>1 DEF NextMatches
  <2> QED
    BY <1>5, <2>1, <2>2, <2>3, <2>4 DEF CallerStep
<1>6. CASE UNCHANGED vars
  BY <1>2, <1>6 DEF vars, poolVars, NextMatches, Finished
<1> QED
  BY <1>4, <1>5, <1>6 DEF Next, Built

LEMMA InitListsExact == Init => ListsExact
<1> SUFFICES ASSUME Init
             PROVE  ListsExact
  OBVIOUS
<1>1. IInv
  BY InitInvariant
<1> SUFFICES ASSUME NEW t \in Threads, NEW p \in Partitions
             PROVE  PassesOn(level3[t][p], counts[t][p], EntriesOf(Scattered(t, p)))
  BY DEF ListsExact
<1>2. next[t] = 0 /\ counts[t][p] = 0
  BY DEF Init
<1>3. Scattered(t, p) = {}
  BY <1>1, <1>2, RangeFacts, RowFacts DEF Scattered
<1> QED
  BY <1>2, <1>3 DEF PassesOn, EntriesOf

\* The rows of a thread's range it has come past, when it begins ...
LEMMA BeginScattered ==
  ASSUME IInv, PoolMatches, NextMatches, NEW t \in Threads, BeginPartition(t)
  PROVE  \A u \in Threads, p \in Partitions : Scattered(u, p)' = Scattered(u, p)
<1>1. /\ \A p : Home(p)' = Home(p)
      /\ \A u : RangeOf(u)' = RangeOf(u)
      /\ TuplesPerThread' = TuplesPerThread
  <2>1. col' = col /\ capacity' = capacity
    BY DEF BeginPartition
  <2> QED
    BY <2>1, ColumnFixed
<1>2. /\ phase = "partition" /\ t \in todo
      /\ next' = [next EXCEPT ![t] = t * TuplesPerThread]
      /\ next \in [Threads -> Nat]
  BY DEF BeginPartition, Pool!Begin, IInv, ColumnMatches
<1>3. next[t] = 0 /\ next'[t] = t * TuplesPerThread /\ \A u \in Threads : u # t => next'[u] = next[u]
  BY <1>2 DEF NextMatches
<1>4. \A r \in RangeOf(t) : ~(r < 0) /\ ~(r < next'[t])
  <2> DEFINE a == t * TuplesPerThread
  <2>1. a \in Nat /\ RangeEnd(t) \in Nat /\ next'[t] = a /\ RangeOf(t) = a .. RangeEnd(t) - 1
    BY <1>3, RangeFacts DEF RangeOf
  <2> HIDE DEF a
  <2> QED
    BY <2>1
<1>5. ASSUME NEW u \in Threads
      PROVE  {r \in RangeOf(u) : r < next'[u]} = {r \in RangeOf(u) : r < next[u]}
  BY <1>3, <1>4
<1> QED
  BY <1>1, <1>5 DEF Scattered

\* ... and when it goes on to the next.
LEMMA InsertScattered ==
  ASSUME IInv, PoolMatches, NextMatches, NEW t \in Threads, Insert(t)
  PROVE  /\ next[t] \in RowSet /\ next[t] \in RangeOf(t)
         /\ \A u \in Threads, p \in Partitions :
              Scattered(u, p)' = IF u = t /\ next[t] \in Home(p)
                                 THEN Scattered(u, p) \union {next[t]}
                                 ELSE Scattered(u, p)
<1>1. /\ \A p : Home(p)' = Home(p)
      /\ \A u : RangeOf(u)' = RangeOf(u)
  <2>1. col' = col /\ capacity' = capacity
    BY DEF Insert
  <2> QED
    BY <2>1, ColumnFixed
<1>2. /\ phase = "partition" /\ t \in running
      /\ next[t] < RangeEnd(t)
      /\ next' = [next EXCEPT ![t] = next[t] + 1]
      /\ next \in [Threads -> Nat]
  BY DEF Insert, IInv, ColumnMatches
<1>3. next'[t] = next[t] + 1 /\ \A u \in Threads : u # t => next'[u] = next[u]
  BY <1>2
<1>4. next[t] \in RangeOf(t) /\ \A r \in RangeOf(t) : r \in Nat
  <2> DEFINE a == t * TuplesPerThread
  <2>1. a \in Nat /\ RangeEnd(t) \in Nat /\ RangeOf(t) = a .. RangeEnd(t) - 1 /\ next[t] >= a
    BY <1>2, RangeFacts DEF RangeOf, NextMatches
  <2> HIDE DEF a
  <2> QED
    BY <1>2, <2>1
<1>5. {r \in RangeOf(t) : r < next'[t]} = {r \in RangeOf(t) : r < next[t]} \union {next[t]}
  BY <1>2, <1>3, <1>4
<1>6. next[t] \in RowSet
  BY <1>4, RangeFacts
<1>7. \A p \in Partitions : Scattered(t, p)' = IF next[t] \in Home(p)
                                               THEN Scattered(t, p) \union {next[t]}
                                               ELSE Scattered(t, p)
  BY <1>1, <1>5 DEF Scattered
<1>8. \A u \in Threads, p \in Partitions : u # t => Scattered(u, p)' = Scattered(u, p)
  BY <1>1, <1>3 DEF Scattered
<1> QED
  BY <1>4, <1>6, <1>7, <1>8

LEMMA ListsStep ==
  ASSUME IInv, PoolMatches, NextMatches, ListsExact, [Next]_vars
  PROVE  ListsExact'
<1>1. /\ col' = col /\ capacity' = capacity
      /\ phase = "built" => phase' = "built"
  BY StepFrame
<1>2. \A R : EntriesOf(R)' = EntriesOf(R)
  BY <1>1, ColumnFixed
<1>3. ASSUME level3' = level3, counts' = counts,
             \A t \in Threads, p \in Partitions : Scattered(t, p)' = Scattered(t, p)
      PROVE  ListsExact'
  BY <1>1, <1>2, <1>3 DEF ListsExact
<1>4. ASSUME level3' = level3, counts' = counts, next' = next
      PROVE  ListsExact'
  <2>1. \A t \in Threads, p \in Partitions : Scattered(t, p)' = Scattered(t, p)
    BY <1>1, <1>4, ColumnFixed DEF Scattered
  <2> QED
    BY <1>3, <1>4, <2>1
<1>5. ASSUME NEW t \in Threads, BeginPartition(t)
      PROVE  ListsExact'
  <2>1. level3' = level3 /\ counts' = counts
    BY <1>5 DEF BeginPartition
  <2> QED
    BY <1>3, <1>5, <2>1, BeginScattered
<1>6. ASSUME NEW t \in Threads, Insert(t)
      PROVE  ListsExact'
  <2> DEFINE r == next[t]
             val == col[r + 1]
             o == Partition(val)
             e == [key |-> val, row |-> r]
  <2>1. /\ r \in RowSet /\ r \in RangeOf(t)
        /\ \A u \in Threads, p \in Partitions :
             Scattered(u, p)' = IF u = t /\ r \in Home(p)
                                THEN Scattered(u, p) \union {r}
                                ELSE Scattered(u, p)
    BY <1>6, InsertScattered
  <2>2. r \in Nat /\ val \in Keys \union {Null}
    BY <2>1, RowFacts
  <2>3. CASE val = Null
    <3>1. level3' = level3 /\ counts' = counts
      BY <1>6, <2>3 DEF Insert
    <3>2. \A p : r \notin Home(p)
      BY <2>3 DEF Home, Filled
    <3> HIDE DEF r, val
    <3> QED
      BY <1>3, <2>1, <3>1, <3>2
  <2>4. CASE val # Null
    <3>1. /\ level3' = [level3 EXCEPT ![t][o] = Consume(@, e)]
          /\ counts' = [counts EXCEPT ![t][o] = @ + 1]
      BY <1>6, <2>4 DEF Insert
    <3>2. r \in Filled /\ o \in Partitions /\ e = EntryFor(r)
      BY <2>1, <2>4, SlotOfRow DEF Filled, EntryFor
    <3>3. \A p : r \in Home(p) <=> p = o
      BY <3>2 DEF Home
    <3>4. /\ level3 \in [Threads -> [Partitions -> Lists]]
          /\ counts \in [Threads -> [Partitions -> Nat]]
          /\ \A u \in Threads, q \in Partitions : ListMatches(level3[u][q], counts[u][q], q)
      BY DEF IInv, ListsMatch
    <3>5. phase # "built"
      BY <1>6 DEF Insert
    <3>6. \A u \in Threads, p \in Partitions :
            PassesOn(level3[u][p], counts[u][p], EntriesOf(Scattered(u, p)))
      BY <3>5 DEF ListsExact
    <3> HIDE DEF val, o, e
    <3>7. r \notin Scattered(t, o) /\ EntriesOf(Scattered(t, o) \union {r})
                                        = EntriesOf(Scattered(t, o)) \union {e}
      <4>1. ~(r < r)
        BY <2>2
      <4> QED
        BY <3>2, <4>1 DEF Scattered, EntriesOf
    <3> HIDE DEF r
    <3>8. e \notin EntriesOf(Scattered(t, o))
      BY <3>2, <3>7, EntryOfRow DEF EntriesOf
    <3>9. PassesOn(Consume(level3[t][o], e), counts[t][o] + 1, EntriesOf(Scattered(t, o) \union {r}))
      <4> DEFINE list == level3[t][o]
                 count == counts[t][o]
                 X == EntriesOf(Scattered(t, o))
      <4>1. list \in Lists /\ count \in Nat /\ ListMatches(list, count, o) /\ PassesOn(list, count, X)
        BY <3>2, <3>4, <3>6
      <4>2. e \notin X
        BY <3>8
      <4> HIDE DEF list, count, X
      <4>3. PassesOn(Consume(list, e), count + 1, X \union {e})
        BY <4>1, <4>2, ConsumePassesOn
      <4> QED
        BY <3>7, <4>3 DEF list, count, X
    <3>10. ASSUME NEW u \in Threads, NEW p \in Partitions
           PROVE  PassesOn(level3'[u][p], counts'[u][p], EntriesOf(Scattered(u, p)'))
      <4>1. CASE u = t /\ p = o
        <5>1. level3'[u][p] = Consume(level3[t][o], e) /\ counts'[u][p] = counts[t][o] + 1
          BY <3>1, <3>2, <3>4, <4>1
        <5>2. Scattered(u, p)' = Scattered(t, o) \union {r}
          BY <2>1, <3>3, <4>1
        <5> QED
          BY <3>9, <5>1, <5>2
      <4>2. CASE ~(u = t /\ p = o)
        <5>1. level3'[u][p] = level3[u][p] /\ counts'[u][p] = counts[u][p]
          BY <3>1, <3>2, <3>4, <4>2
        <5>2. Scattered(u, p)' = Scattered(u, p)
          BY <2>1, <3>3, <4>2
        <5> QED
          BY <3>6, <5>1, <5>2
      <4> QED
        BY <4>1, <4>2
    <3> QED
      BY <1>2, <3>10 DEF ListsExact
  <2> QED
    BY <2>3, <2>4
<1>7. ASSUME NEW t \in Threads, WorkerStep(t)
      PROVE  ListsExact'
  <2>1. CASE EndPartition(t) \/ BeginPost(t) \/ EndPost(t)
    <3>1. level3' = level3 /\ counts' = counts /\ next' = next
      BY <2>1 DEF EndPartition, BeginPost, EndPost
    <3> QED
      BY <1>4, <3>1
  <2>2. CASE PostStep(t)
    <3>1. level3' = level3 /\ counts' = counts /\ next' = next
      BY <2>2, PostStepFrame DEF postUnchanged
    <3> QED
      BY <1>4, <3>1
  <2> QED
    BY <1>5, <1>6, <1>7, <2>1, <2>2 DEF WorkerStep, PostStep
<1>8. CASE CallerStep
  <2>1. CASE ReturnPost
    BY <2>1 DEF ReturnPost, ListsExact
  <2>2. CASE DispatchPartition \/ ReturnPartition \/ DispatchPost
    <3>1. level3' = level3 /\ counts' = counts /\ next' = next
      BY <2>2 DEF DispatchPartition, ReturnPartition, DispatchPost
    <3> QED
      BY <1>4, <3>1
  <2> QED
    BY <1>8, <2>1, <2>2 DEF CallerStep
<1>9. CASE UNCHANGED vars
  BY <1>4, <1>9 DEF vars
<1> QED
  BY <1>7, <1>8, <1>9 DEF Next, Built

-----------------------------------------------------------------------------
(* The counts and the offsets                                              *)

\* Once the first task is over, a list has every row of its thread and
\* partition.
LEMMA AllScattered ==
  ASSUME IInv, NextMatches, phase \in {"sums", "post"}, NEW t \in Threads, NEW p
  PROVE  /\ Scattered(t, p) = RangeOf(t) \intersect Home(p)
         /\ Scattered(t, p) \subseteq Home(p)
         /\ Home(p) \subseteq Filled
<1>1. next[t] \in Nat /\ next[t] >= RangeEnd(t) /\ RangeEnd(t) \in Nat
  BY RangeFacts DEF IInv, ColumnMatches, NextMatches
<1>2. \A r \in RangeOf(t) : r < next[t]
  <2> DEFINE a == t * TuplesPerThread
  <2>1. a \in Nat /\ RangeOf(t) = a .. RangeEnd(t) - 1
    BY RangeFacts DEF RangeOf
  <2> HIDE DEF a
  <2> QED
    BY <1>1, <2>1
<1> QED
  BY <1>2 DEF Scattered, Home

\* The sum of a function over its domain.
LEMMA SumOverDomain ==
  ASSUME NEW S, NEW f, DOMAIN f = S
  PROVE  SumFunction(f) = SumFunctionOnSet(f, S)
BY DEF SumFunction

\* count_total
LEMMA TotalOfPartition ==
  ASSUME IInv, NextMatches, ListsExact, phase \in {"sums", "post"}, NEW p \in Partitions
  PROVE  CountTotal(p) = Cardinality(Home(p))
<1> DEFINE c == [t \in Threads |-> counts[t][p]]
           parts == [t \in Threads |-> Scattered(t, p)]
<1>1. \A t \in Threads : /\ Scattered(t, p) = RangeOf(t) \intersect Home(p)
                         /\ Scattered(t, p) \subseteq Filled
  BY AllScattered
<1>2. ASSUME NEW t \in Threads
      PROVE  IsFiniteSet(parts[t]) /\ c[t] = Cardinality(parts[t])
  <2>1. PassesOn(level3[t][p], counts[t][p], EntriesOf(Scattered(t, p))) /\ counts[t][p] \in Nat
    BY DEF ListsExact, IInv, ListsMatch
  <2>2. Cardinality(Scattered(t, p)) = counts[t][p] /\ IsFiniteSet(Scattered(t, p))
    BY <1>1, <2>1, RowsOfList, RowsFinite
  <2> QED
    BY <2>2
<1>3. Home(p) \subseteq RowSet
  BY RowFacts DEF Home
<1>4. \A t, u \in Threads : t # u => parts[t] \intersect parts[u] = {}
  <2> SUFFICES ASSUME NEW t \in Threads, NEW u \in Threads, NEW r, r \in parts[t], r \in parts[u]
               PROVE  t = u
    OBVIOUS
  <2>1. r \in RowSet /\ r \in RangeOf(t) /\ r \in RangeOf(u)
    BY <1>1, <1>3
  <2> QED
    BY <2>1, RowOwner
<1>5. \A r : r \in Home(p) <=> \E t \in Threads : r \in parts[t]
  BY <1>1, <1>3, RowOwner
<1>6. IsFiniteSet(Threads)
  BY SizeFacts, FS_Interval
<1>7. DOMAIN c = Threads /\ CountTotal(p) = SumFunction(c)
  BY DEF CountTotal
<1> HIDE DEF c, parts
<1>8. SumFunctionOnSet(c, Threads) = Cardinality(Home(p))
  BY <1>2, <1>4, <1>5, <1>6, SumOfDisjoint
<1> QED
  BY <1>7, <1>8, SumOverDomain

\* partition_offsets
LEMMA OffsetOfPartition ==
  ASSUME IInv, NextMatches, ListsExact, phase \in {"sums", "post"}, NEW p \in Partitions
  PROVE  PartitionOffset(p) = NumBelow(FirstSlot(p))
<1> DEFINE S == 0 .. p - 1
           c == [q \in S |-> CountTotal(q)]
           parts == [q \in S |-> Home(q)]
           U == Below(FirstSlot(p))
<1>1. p \in Nat /\ \A q \in S : q \in Partitions
  BY SizeFacts
<1>2. \A q \in S : IsFiniteSet(parts[q]) /\ c[q] = Cardinality(parts[q])
  <2> TAKE q \in S
  <2>1. Home(q) \subseteq Filled
    BY DEF Home
  <2>2. IsFiniteSet(Home(q)) /\ CountTotal(q) = Cardinality(Home(q))
    BY <1>1, <2>1, RowsFinite, TotalOfPartition
  <2> QED
    BY <2>2
<1>3. \A q, o \in S : q # o => parts[q] \intersect parts[o] = {}
  BY DEF Home
<1>4. \A r : r \in U <=> \E q \in S : r \in parts[q]
  <2>1. Below(FirstSlot(p)) = UNION {Home(q) : q \in S}
    BY <1>1, RowsBefore
  <2> QED
    BY <2>1
<1>5. IsFiniteSet(S)
  BY <1>1, FS_Interval
<1>6. DOMAIN c = S /\ PartitionOffset(p) = SumFunction(c)
  BY DEF PartitionOffset
<1> HIDE DEF S, c, parts, U
<1>7. SumFunctionOnSet(c, S) = Cardinality(U)
  BY <1>2, <1>3, <1>4, <1>5, SumOfDisjoint
<1> QED
  BY <1>6, <1>7, SumOverDomain DEF NumBelow, U

LEMMA InitFresh == Init => TableFresh /\ OffsetsMatch
BY DEF Init, TableFresh, InitialPost, InitialDirectory, InitialTuples, OffsetsMatch

LEMMA FreshStep ==
  ASSUME TableFresh, [Next]_vars
  PROVE  TableFresh'
<1>1. ASSUME capacity' = capacity, post' = post, directory' = directory, tuples' = tuples,
             phase \in {"new", "partition", "sums"}
      PROVE  TableFresh'
  <2>1. /\ post = InitialPost
        /\ directory = InitialDirectory
        /\ tuples = InitialTuples
    BY <1>1 DEF TableFresh
  <2>2. InitialDirectory' = InitialDirectory
    BY <1>1 DEF InitialDirectory
  <2>3. InitialTuples' = InitialTuples
    BY <1>1 DEF InitialTuples, Slots
  <2>4. InitialPost' = InitialPost
    BY DEF InitialPost
  <2> QED
    BY <1>1, <2>1, <2>2, <2>3, <2>4 DEF TableFresh
<1>2. ASSUME NEW t \in Threads, WorkerStep(t)
      PROVE  TableFresh'
  <2>1. CASE BeginPartition(t) \/ Insert(t) \/ EndPartition(t)
    BY <1>1, <2>1 DEF BeginPartition, Insert, EndPartition, tableVars
  <2>2. CASE BeginPost(t) \/ EndPost(t)
    <3>1. phase = "post" /\ phase' = phase
      BY <2>2 DEF BeginPost, EndPost
    <3> QED
      BY <3>1 DEF TableFresh
  <2>3. CASE PostStep(t)
    <3>1. phase = "post" /\ phase' = phase
      BY <2>3, PostStepFrame DEF postUnchanged
    <3> QED
      BY <3>1 DEF TableFresh
  <2> QED
    BY <1>2, <2>1, <2>2, <2>3 DEF WorkerStep, PostStep
<1>3. CASE CallerStep
  <2>1. CASE DispatchPartition \/ ReturnPartition
    BY <1>1, <2>1 DEF DispatchPartition, ReturnPartition, tableVars
  <2>2. CASE DispatchPost \/ ReturnPost
    BY <2>2 DEF DispatchPost, ReturnPost, TableFresh
  <2> QED
    BY <1>3, <2>1, <2>2 DEF CallerStep
<1>4. CASE UNCHANGED vars
  <2>1. CASE phase \in {"new", "partition", "sums"}
    BY <1>1, <1>4, <2>1 DEF vars, tableVars
  <2>2. CASE phase \notin {"new", "partition", "sums"}
    BY <1>4, <2>2 DEF vars, TableFresh
  <2> QED
    BY <2>1, <2>2
<1> QED
  BY <1>2, <1>3, <1>4 DEF Next, Built

LEMMA OffsetsStep ==
  ASSUME IInv, PoolMatches, NextMatches, ListsExact, OffsetsMatch, [Next]_vars
  PROVE  OffsetsMatch'
<1>1. /\ \A s : NumBelow(s)' = NumBelow(s)
      /\ \A p : FirstSlot(p)' = FirstSlot(p)
  BY StepFrame, ColumnFixed
<1>2. ASSUME offsets' = offsets, phase' \in {"post", "built"} => phase \in {"post", "built"}
      PROVE  OffsetsMatch'
  <2> SUFFICES ASSUME phase' \in {"post", "built"}
               PROVE  offsets' = [p \in Partitions |-> NumBelow(FirstSlot(p))']
    BY DEF OffsetsMatch
  <2>1. offsets = [p \in Partitions |-> NumBelow(FirstSlot(p))]
    BY <1>2 DEF OffsetsMatch
  <2>2. \A p \in Partitions : NumBelow(FirstSlot(p))' = NumBelow(FirstSlot(p))
    BY <1>1
  <2> QED
    BY <1>2, <2>1, <2>2
<1>3. ASSUME NEW t \in Threads, WorkerStep(t)
      PROVE  OffsetsMatch'
  <2>1. CASE PostStep(t)
    BY <1>2, <2>1, PostStepFrame DEF postUnchanged
  <2>2. CASE ~PostStep(t)
    <3>1. offsets' = offsets /\ phase' = phase
      BY <1>3, <2>2 DEF WorkerStep, PostStep, BeginPartition, Insert, EndPartition, BeginPost, EndPost
    <3> QED
      BY <1>2, <3>1
  <2> QED
    BY <2>1, <2>2
<1>4. CASE CallerStep
  <2>1. CASE DispatchPartition \/ ReturnPartition \/ ReturnPost
    BY <1>2, <2>1 DEF DispatchPartition, ReturnPartition, ReturnPost
  <2>2. CASE DispatchPost
    <3>1. phase = "sums" /\ offsets' = [p \in Partitions |-> PartitionOffset(p)]
      BY <2>2 DEF DispatchPost
    <3>2. \A p \in Partitions : PartitionOffset(p) = NumBelow(FirstSlot(p))
      BY <3>1, OffsetOfPartition
    <3>3. offsets' = [p \in Partitions |-> NumBelow(FirstSlot(p))]
      BY <3>1, <3>2
    <3> QED
      BY <1>1, <3>3 DEF OffsetsMatch
  <2> QED
    BY <1>4, <2>1, <2>2 DEF CallerStep
<1>5. CASE UNCHANGED vars
  BY <1>2, <1>5 DEF vars
<1> QED
  BY <1>3, <1>4, <1>5 DEF Next, Built

-----------------------------------------------------------------------------
(* The passes over the entries                                             *)

\* forEachEntryInPartition passes on as many entries as were counted.
LEMMA VisitedAll ==
  ASSUME IInv, NEW s \in Threads, NEW p \in Partitions
  PROVE  Visited(s, p) = counts[s][p]
<1> DEFINE list == level3[s][p]
           total == counts[s][p]
           n == Len(list.chunks)
           held == FirstChunkEntries(total) + (n - 1) * EntriesPerChunk
<1>1. list \in Lists /\ total \in Nat /\ ListMatches(list, total, p)
  BY DEF IInv, ListsMatch
<1>2. Visited(s, p) = IF total = 0 THEN 0 ELSE Min({total, held})
  BY DEF Visited
<1>3. IF n = 0 THEN total = 0 ELSE held = total
  <2> HIDE DEF list, total
  <2> QED
    BY <1>1, CountOfChunks
<1> HIDE DEF list, total, n, held
<1>4. CASE total = 0
  BY <1>2, <1>4 DEF total
<1>5. CASE total # 0
  <2>1. Min({total, held}) = total
    BY <1>1, <1>3, <1>5, LeastOfTwo
  <2> QED
    BY <1>2, <1>5, <2>1 DEF total
<1> QED
  BY <1>4, <1>5

\* A pass that has not begun, ...
LEMMA PassedNone ==
  ASSUME IInv
  PROVE  \A p \in Partitions : Passed(p, 0, 1) = {}
<1>1. \A s \in Threads : ~(s < 0)
  BY SizeFacts
<1>2. \A s \in Threads, p \in Partitions : counts[s][p] \in Nat
  BY DEF IInv, ListsMatch
<1>3. \A s \in Threads, p \in Partitions : \A i \in 1 .. counts[s][p] : ~(i < 1)
  BY <1>2
<1> QED
  BY <1>1, <1>3 DEF Passed

\* ... one that is through, ...
LEMMA PassedAll ==
  ASSUME IInv, NextMatches, ListsExact, phase = "post", NEW p \in Partitions, NEW pos
  PROVE  Passed(p, NumThreads, pos) = Home(p)
<1> SUFFICES ASSUME NEW r \in Home(p)
             PROVE  \E s \in Threads : \E i \in 1 .. counts[s][p] :
                      /\ s < NumThreads
                      /\ At(level3[s][p], counts[s][p], i) = EntryFor(r)
  BY DEF Passed
<1>1. r \in RowSet
  BY RowFacts DEF Home
<1>2. PICK s \in Threads : r \in RangeOf(s)
  BY <1>1, RowOwner
<1>3. r \in Scattered(s, p)
  BY <1>2, AllScattered
<1>4. PassesOn(level3[s][p], counts[s][p], EntriesOf(Scattered(s, p)))
  BY DEF ListsExact
<1>5. EntryFor(r) \in EntriesOf(Scattered(s, p))
  BY <1>3 DEF EntriesOf
<1>6. \E i \in 1 .. counts[s][p] : At(level3[s][p], counts[s][p], i) = EntryFor(r)
  BY <1>4, <1>5 DEF PassesOn
<1>7. s < NumThreads
  BY SizeFacts
<1> QED
  BY <1>6, <1>7

\* ... one that goes on to the list of the next thread, ...
LEMMA PassedSource ==
  ASSUME IInv, NEW p \in Partitions, NEW src \in Threads, NEW pos \in Nat, pos > counts[src][p]
  PROVE  Passed(p, src + 1, 1) = Passed(p, src, pos)
<1>1. \A s \in Threads : s \in Nat /\ counts[s][p] \in Nat
  BY SizeFacts DEF IInv, ListsMatch
<1>2. \A s \in Threads : \A i \in 1 .. counts[s][p] :
        (s < src + 1 \/ (s = src + 1 /\ i < 1)) <=> (s < src \/ (s = src /\ i < pos))
  BY <1>1
<1> QED
  BY <1>2 DEF Passed

\* ... and one that goes on to the next entry.
LEMMA PassedEntry ==
  ASSUME IInv, NextMatches, ListsExact, phase = "post", NEW p \in Partitions,
         NEW src \in Threads, NEW pos \in 1 .. counts[src][p]
  PROVE  \E row \in Home(p) :
           /\ At(level3[src][p], counts[src][p], pos) = EntryFor(row)
           /\ row \notin Passed(p, src, pos)
           /\ Passed(p, src, pos + 1) = Passed(p, src, pos) \union {row}
<1> DEFINE entry(s, i) == At(level3[s][p], counts[s][p], i)
<1>1. \A s \in Threads : s \in Nat /\ counts[s][p] \in Nat
  BY SizeFacts DEF IInv, ListsMatch
<1>2. ASSUME NEW s \in Threads
      PROVE  /\ \A i \in 1 .. counts[s][p] : \E r \in RangeOf(s) \intersect Home(p) : entry(s, i) = EntryFor(r)
             /\ \A i, j \in 1 .. counts[s][p] : entry(s, i) = entry(s, j) => i = j
  <2>1. PassesOn(level3[s][p], counts[s][p], EntriesOf(Scattered(s, p)))
    BY DEF ListsExact
  <2>2. Scattered(s, p) = RangeOf(s) \intersect Home(p)
    BY AllScattered
  <2> QED
    BY <2>1, <2>2 DEF PassesOn, EntriesOf
<1> HIDE DEF entry
<1>3. PICK row \in RangeOf(src) \intersect Home(p) : entry(src, pos) = EntryFor(row)
  BY <1>2
<1>4. \A s \in Threads : \A i \in 1 .. counts[s][p] : entry(s, i) = EntryFor(row) => s = src /\ i = pos
  <2> SUFFICES ASSUME NEW s \in Threads, NEW i \in 1 .. counts[s][p], entry(s, i) = EntryFor(row)
               PROVE  s = src /\ i = pos
    OBVIOUS
  <2>1. PICK r \in RangeOf(s) \intersect Home(p) : entry(s, i) = EntryFor(r)
    BY <1>2
  <2>2. r = row
    BY <2>1, EntryOfRow
  <2>3. row \in RowSet
    BY RowFacts DEF Home
  <2>4. s = src
    BY <1>3, <2>1, <2>2, <2>3, RowOwner
  <2> QED
    BY <1>2, <1>3, <2>4
<1>5. Passed(p, src, pos) = {r \in Home(p) : \E s \in Threads : \E i \in 1 .. counts[s][p] :
                               (s < src \/ (s = src /\ i < pos)) /\ entry(s, i) = EntryFor(r)}
  BY DEF Passed, entry
<1>6. Passed(p, src, pos + 1) = {r \in Home(p) : \E s \in Threads : \E i \in 1 .. counts[s][p] :
                                   (s < src \/ (s = src /\ i < pos + 1)) /\ entry(s, i) = EntryFor(r)}
  BY DEF Passed, entry
<1>7. row \notin Passed(p, src, pos)
  <2>1. ~(src < src) /\ ~(pos < pos)
    BY <1>1
  <2> QED
    BY <1>4, <1>5, <2>1
<1>8. \A s \in Threads : \A i \in 1 .. counts[s][p] :
        (s < src \/ (s = src /\ i < pos + 1)) <=> ((s < src \/ (s = src /\ i < pos)) \/ (s = src /\ i = pos))
  BY <1>1
<1>9. ASSUME NEW r \in Home(p)
      PROVE  r \in Passed(p, src, pos + 1) <=> r \in Passed(p, src, pos) \/ r = row
  <2>1. r \in Passed(p, src, pos + 1) => r \in Passed(p, src, pos) \/ r = row
    <3> SUFFICES ASSUME r \in Passed(p, src, pos + 1), r \notin Passed(p, src, pos)
                 PROVE  r = row
      OBVIOUS
    <3>1. PICK s \in Threads : \E i \in 1 .. counts[s][p] :
            (s < src \/ (s = src /\ i < pos + 1)) /\ entry(s, i) = EntryFor(r)
      BY <1>6
    <3>2. PICK i \in 1 .. counts[s][p] :
            (s < src \/ (s = src /\ i < pos + 1)) /\ entry(s, i) = EntryFor(r)
      BY <3>1
    <3>3. s = src /\ i = pos
      BY <1>5, <1>8, <3>1, <3>2
    <3> QED
      BY <1>3, <3>2, <3>3, EntryOfRow
  <2>2. r \in Passed(p, src, pos) => r \in Passed(p, src, pos + 1)
    BY <1>5, <1>6, <1>8
  <2>3. r = row => r \in Passed(p, src, pos + 1)
    BY <1>3, <1>6, <1>8
  <2> QED
    BY <2>1, <2>2, <2>3
<1>10. Passed(p, src, pos + 1) \subseteq Home(p) /\ Passed(p, src, pos) \subseteq Home(p)
  BY DEF Passed
<1>11. Passed(p, src, pos + 1) = Passed(p, src, pos) \union {row}
  BY <1>3, <1>9, <1>10
<1> QED
  BY <1>3, <1>7, <1>11 DEF entry

\* The entry a pass is at.
LEMMA EntryFacts ==
  ASSUME IInv, NextMatches, ListsExact, phase = "post",
         NEW t \in Threads, post[t].part < NumPartitions, post[t].stage # "prefix", HasEntry(t)
  PROVE  \E row \in Home(post[t].part) :
           /\ EntryAt(t) = EntryFor(row)
           /\ row \notin Passed(post[t].part, post[t].src, post[t].pos)
           /\ Passed(post[t].part, post[t].src, post[t].pos + 1)
                = Passed(post[t].part, post[t].src, post[t].pos) \union {row}
<1> DEFINE p == post[t].part
           src == post[t].src
           pos == post[t].pos
<1>1. p \in Partitions /\ src \in Threads
  BY PlaceFacts, SizeFacts DEF HasEntry
<1>2. pos \in 1 .. counts[src][p]
  <2>1. counts[src][p] \in Nat
    BY <1>1 DEF IInv, ListsMatch
  <2>2. pos <= Visited(src, p) /\ pos \in Nat /\ pos >= 1
    BY PlaceFacts DEF HasEntry
  <2>3. Visited(src, p) = counts[src][p]
    BY <1>1, VisitedAll
  <2> QED
    BY <2>1, <2>2, <2>3
<1>3. EntryAt(t) = At(level3[src][p], counts[src][p], pos)
  BY EntryIsAt DEF EntryAt
<1> HIDE DEF p, src, pos
<1>4. \E row \in Home(p) :
        /\ At(level3[src][p], counts[src][p], pos) = EntryFor(row)
        /\ row \notin Passed(p, src, pos)
        /\ Passed(p, src, pos + 1) = Passed(p, src, pos) \union {row}
  BY <1>1, <1>2, PassedEntry
<1> QED
  BY <1>3, <1>4 DEF p, src, pos

-----------------------------------------------------------------------------
(* What a place says of the table                                          *)

\* None of it changes while the lists stay.
LEMMA ListsFixed ==
  ASSUME col' = col, capacity' = capacity, level3' = level3, counts' = counts
  PROVE  /\ \A p, src, pos : Passed(p, src, pos)' = Passed(p, src, pos)
         /\ \A r, p, s : Word(r, p, s)' = Word(r, p, s)
         /\ \A r, p, s : CopiedTo(r, p, s)' = CopiedTo(r, p, s)
<1>1. /\ \A r : EntryFor(r)' = EntryFor(r)
      /\ \A p : Home(p)' = Home(p)
      /\ \A s : InSlot(s)' = InSlot(s)
      /\ \A s : NumBelow(s)' = NumBelow(s)
      /\ \A R : TagsOf(R)' = TagsOf(R)
  BY ColumnFixed
<1>2. \A p, src, pos : Passed(p, src, pos)' = Passed(p, src, pos)
  BY <1>1 DEF Passed
<1>3. /\ \A r, p : Counted(r, p)' = Counted(r, p)
      /\ \A r, p : Copied(r, p)' = Copied(r, p)
  BY <1>1, <1>2 DEF Counted, Copied
<1>4. \A r, p, s : CopiedTo(r, p, s)' = CopiedTo(r, p, s)
  BY <1>1, <1>3 DEF CopiedTo
<1>5. \A r, p, s : Word(r, p, s)' = Word(r, p, s)
  BY <1>1, <1>3, <1>4 DEF Word, Addressed
<1> QED
  BY <1>2, <1>4, <1>5

LEMMA CellsFixed ==
  ASSUME col' = col, capacity' = capacity
  PROVE  \A cells, s, rows : CellsHold(cells, s, rows)' <=> CellsHold(cells, s, rows)
<1>1. /\ \A r : EntryFor(r)' = EntryFor(r)
      /\ \A R : EntriesOf(R)' = EntriesOf(R)
      /\ \A s : NumBelow(s)' = NumBelow(s)
  BY ColumnFixed
<1> QED
  BY <1>1 DEF CellsHold, Holds

\* Two places that say the same of a slot.
LEMMA SameWord ==
  ASSUME NEW r, NEW w, NEW p, NEW s,
         Counted(w, p) = Counted(r, p), Copied(w, p) = Copied(r, p),
         Addressed(w, p, s) <=> Addressed(r, p, s)
  PROVE  Word(w, p, s) = Word(r, p, s) /\ CopiedTo(w, p, s) = CopiedTo(r, p, s)
<1>1. CopiedTo(w, p, s) = CopiedTo(r, p, s)
  BY DEF CopiedTo
<1>2. CASE Addressed(r, p, s)
  BY <1>1, <1>2 DEF Word
<1>3. CASE ~Addressed(r, p, s)
  BY <1>1, <1>3 DEF Word
<1> QED
  BY <1>1, <1>2, <1>3

\* A place says the same of all partitions but the one it is at.
LEMMA WordElsewhere ==
  ASSUME NEW r, NEW w, r.part \in Nat, w.part = r.part, NEW p \in Nat, p # r.part, NEW s
  PROVE  Word(w, p, s) = Word(r, p, s) /\ CopiedTo(w, p, s) = CopiedTo(r, p, s)
<1>1. p < r.part \/ r.part < p
  OBVIOUS
<1>2. Counted(w, p) = Counted(r, p) /\ Copied(w, p) = Copied(r, p)
  BY <1>1 DEF Counted, Copied
<1>3. Addressed(w, p, s) <=> Addressed(r, p, s)
  BY DEF Addressed
<1> QED
  BY <1>2, <1>3, SameWord

\* The cells of a slot hold what they held, ...
LEMMA HoldsKept ==
  ASSUME NEW first \in Nat, NEW end \in Nat, NEW last \in Nat, first <= end, end <= last,
         NEW cells, NEW after, \A c \in first .. last - 1 : after[c] = cells[c],
         NEW rows, Holds(cells, first, end, last, rows)
  PROVE  Holds(after, first, end, last, rows)
<1>1. /\ \A c \in first .. end - 1 : after[c] = cells[c]
      /\ \A c \in end .. last - 1 : after[c] = cells[c]
  OBVIOUS
<1> QED
  BY <1>1 DEF Holds

LEMMA SlotRange ==
  ASSUME IInv, NEW s \in Nat, NEW rows, rows \subseteq InSlot(s)
  PROVE  /\ NumBelow(s) \in Nat /\ NumBelow(s + 1) \in Nat /\ Cardinality(rows) \in Nat
         /\ NumBelow(s) <= NumBelow(s) + Cardinality(rows)
         /\ NumBelow(s) + Cardinality(rows) <= NumBelow(s + 1)
         /\ NumBelow(s + 1) <= NumRows
         /\ rows # InSlot(s) => NumBelow(s) + Cardinality(rows) < NumBelow(s + 1)
<1>1. InSlot(s) \subseteq Filled /\ rows \subseteq Filled
  BY DEF InSlot
<1>2. /\ Cardinality(rows) \in Nat
      /\ Cardinality(rows) <= Cardinality(InSlot(s))
      /\ rows # InSlot(s) => Cardinality(rows) < Cardinality(InSlot(s))
  BY <1>1, FewerRows, RowsFinite
<1>3. /\ NumBelow(s) \in Nat
      /\ Cardinality(InSlot(s)) \in Nat
      /\ NumBelow(s + 1) = NumBelow(s) + Cardinality(InSlot(s))
  BY NextCells
<1>4. NumBelow(s + 1) <= NumRows
  BY CellsInOrder
<1> QED
  BY <1>2, <1>3, <1>4

LEMMA CellsKept ==
  ASSUME IInv, NEW s \in Nat, NEW rows, rows \subseteq InSlot(s), NEW cells, NEW after,
         \A c \in NumBelow(s) .. NumBelow(s + 1) - 1 : after[c] = cells[c],
         CellsHold(cells, s, rows)
  PROVE  CellsHold(after, s, rows)
<1> DEFINE first == NumBelow(s)
           end == NumBelow(s) + Cardinality(rows)
           last == NumBelow(s + 1)
<1>1. first \in Nat /\ end \in Nat /\ last \in Nat /\ first <= end /\ end <= last
  BY SlotRange
<1>2. Holds(cells, first, end, last, rows) /\ \A c \in first .. last - 1 : after[c] = cells[c]
  BY DEF CellsHold
<1> HIDE DEF first, end, last
<1>3. Holds(after, first, end, last, rows)
  BY <1>1, <1>2, HoldsKept
<1> QED
  BY <1>3 DEF CellsHold, first, end, last

\* ... and one entry more.
LEMMA HoldsOneMore ==
  ASSUME NEW first \in Nat, NEW end \in Nat, NEW last \in Nat, first <= end, end < last,
         NEW cells, NEW after, NEW rows, NEW row, row \notin rows,
         \A c \in first .. last - 1 : after[c] = IF c = end THEN EntryFor(row) ELSE cells[c],
         Holds(cells, first, end, last, rows)
  PROVE  Holds(after, first, end + 1, last, rows \union {row})
<1>1. /\ \A c \in first .. end - 1 : after[c] = cells[c]
      /\ \A c \in end + 1 .. last - 1 : after[c] = cells[c] /\ c \in end .. last - 1
      /\ after[end] = EntryFor(row)
  OBVIOUS
<1>2. \A c : c \in first .. end + 1 - 1 <=> c \in first .. end - 1 \/ c = end
  OBVIOUS
<1>3. \A c \in first .. end - 1 : after[c] \in EntriesOf(rows) /\ after[c] # EntryFor(row)
  <2>1. EntryFor(row) \notin EntriesOf(rows)
    BY EntryOfRow DEF EntriesOf
  <2> QED
    BY <1>1, <2>1 DEF Holds
<1>4. \A c \in first .. end + 1 - 1 : after[c] \in EntriesOf(rows \union {row})
  BY <1>1, <1>2, <1>3 DEF EntriesOf
<1>5. \A r \in rows \union {row} : \E c \in first .. end + 1 - 1 : after[c] = EntryFor(r)
  <2>1. \A r \in rows : \E c \in first .. end - 1 : after[c] = EntryFor(r)
    BY <1>1 DEF Holds
  <2> QED
    BY <1>1, <1>2, <2>1
<1>6. \A c, d \in first .. end + 1 - 1 : after[c] = after[d] => c = d
  <2>1. \A c, d \in first .. end - 1 : after[c] = after[d] => c = d
    BY <1>1 DEF Holds
  <2> QED
    BY <1>1, <1>2, <1>3, <2>1
<1>7. \A c \in end + 1 .. last - 1 : after[c] = Garbage
  BY <1>1 DEF Holds
<1> QED
  BY <1>4, <1>5, <1>6, <1>7 DEF Holds

LEMMA CellsOneMore ==
  ASSUME IInv, NEW s \in Nat, NEW rows, rows \subseteq InSlot(s),
         NEW row \in InSlot(s), row \notin rows, NEW cells, NEW after,
         \A c \in NumBelow(s) .. NumBelow(s + 1) - 1 :
           after[c] = IF c = NumBelow(s) + Cardinality(rows) THEN EntryFor(row) ELSE cells[c],
         CellsHold(cells, s, rows)
  PROVE  /\ Cardinality(rows \union {row}) = Cardinality(rows) + 1
         /\ CellsHold(after, s, rows \union {row})
<1> DEFINE first == NumBelow(s)
           end == NumBelow(s) + Cardinality(rows)
           last == NumBelow(s + 1)
<1>1. first \in Nat /\ end \in Nat /\ last \in Nat /\ first <= end /\ end < last
  BY SlotRange
<1>2. /\ Holds(cells, first, end, last, rows)
      /\ \A c \in first .. last - 1 : after[c] = IF c = end THEN EntryFor(row) ELSE cells[c]
  BY DEF CellsHold
<1>3. Cardinality(rows \union {row}) = Cardinality(rows) + 1
  BY OneMoreRow DEF InSlot
<1>4. end + 1 = NumBelow(s) + Cardinality(rows \union {row})
  BY <1>3, SlotRange
<1> HIDE DEF first, end, last
<1>5. Holds(after, first, end + 1, last, rows \union {row})
  BY <1>1, <1>2, HoldsOneMore
<1> QED
  BY <1>3, <1>4, <1>5 DEF CellsHold, first, last

\* A slot without entries.
LEMMA CellsOfNone ==
  ASSUME IInv, NEW s \in Nat, NEW cells,
         \A c \in NumBelow(s) .. NumBelow(s + 1) - 1 : cells[c] = Garbage
  PROVE  CellsHold(cells, s, {})
<1>1. NumBelow(s) \in Nat
  BY NextCells
<1>2. Cardinality({}) = 0
  BY FS_EmptySet
<1>3. NumBelow(s) + Cardinality({}) = NumBelow(s)
  BY <1>1, <1>2
<1>4. \A c : c \notin NumBelow(s) .. NumBelow(s) - 1
  BY <1>1
<1> QED
  BY <1>3, <1>4 DEF CellsHold, Holds

\* A thread's step within its partition, as far as the table goes.
LEMMA TableStep ==
  ASSUME LookupInv, NEW t \in Threads, phase = "post", phase' = "post",
         UNCHANGED <<col, capacity, level3, counts>>,
         NEW w, post' = [post EXCEPT ![t] = w], w.part = post[t].part, post[t].part < NumPartitions,
         \A s \in SlotsOf(post[t].part) :
           /\ directory'[s] = Word(w, post[t].part, s)
           /\ CellsHold(tuples', s, CopiedTo(w, post[t].part, s)),
         \A s \in Slots \ SlotsOf(post[t].part) :
           /\ directory'[s] = directory[s]
           /\ \A c \in NumBelow(s) .. NumBelow(s + 1) - 1 : tuples'[c] = tuples[c]
  PROVE  TableMatches'
<1> DEFINE p == post[t].part
<1>1. IInv /\ TableMatches /\ DOMAIN post = Threads
  BY DEF LookupInv, IInv, PostMatches
<1>2. p \in Partitions /\ p \in Nat /\ p % NumThreads = t
  BY <1>1, PlaceFacts, SizeFacts
<1>3. /\ \A q : SlotsOf(q)' = SlotsOf(q)
      /\ \A r, q, s : Word(r, q, s)' = Word(r, q, s)
      /\ \A r, q, s : CopiedTo(r, q, s)' = CopiedTo(r, q, s)
      /\ \A cells, s, rows : CellsHold(cells, s, rows)' <=> CellsHold(cells, s, rows)
  BY ColumnFixed, ListsFixed, CellsFixed
<1>4. \A u \in Threads : post'[u] = IF u = t THEN w ELSE post[u]
  BY <1>1
<1>5. ASSUME NEW q \in Partitions, NEW s \in SlotsOf(q)
      PROVE  /\ directory'[s] = Word(post'[q % NumThreads], q, s)
             /\ CellsHold(tuples', s, CopiedTo(post'[q % NumThreads], q, s))
  <2> DEFINE u == q % NumThreads
  <2>1. u \in Threads /\ q \in Nat
    BY SizeFacts, Division
  <2>2. CASE q = p
    <3>1. post'[u] = w
      BY <1>2, <1>4, <2>2
    <3> QED
      BY <2>2, <3>1
  <2>3. CASE q # p
    <3>1. s \in Slots \ SlotsOf(p) /\ s \in Nat
      BY <1>1, <1>2, <2>1, <2>3, SlotsApart, SlotsInDirectory
    <3>2. directory[s] = Word(post[u], q, s) /\ CellsHold(tuples, s, CopiedTo(post[u], q, s))
      BY <1>1 DEF TableMatches, PlaceOf
    <3>3. /\ Word(post'[u], q, s) = Word(post[u], q, s)
          /\ CopiedTo(post'[u], q, s) = CopiedTo(post[u], q, s)
      <4>1. CASE u = t
        <5>1. post'[u] = w
          BY <1>4, <2>1, <4>1
        <5>2. /\ Word(w, q, s) = Word(post[t], q, s)
              /\ CopiedTo(w, q, s) = CopiedTo(post[t], q, s)
          BY <1>2, <2>1, <2>3, WordElsewhere
        <5> QED
          BY <4>1, <5>1, <5>2
      <4>2. CASE u # t
        BY <1>4, <2>1, <4>2
      <4> QED
        BY <4>1, <4>2
    <3>4. CopiedTo(post[u], q, s) \subseteq InSlot(s)
      BY DEF CopiedTo
    <3>5. CellsHold(tuples', s, CopiedTo(post[u], q, s))
      <4> DEFINE rows == CopiedTo(post[u], q, s)
      <4>1. rows \subseteq InSlot(s) /\ CellsHold(tuples, s, rows)
        BY <3>2, <3>4
      <4>2. \A c \in NumBelow(s) .. NumBelow(s + 1) - 1 : tuples'[c] = tuples[c]
        BY <3>1
      <4> HIDE DEF rows
      <4>3. ASSUME NEW cells, NEW after, cells = tuples, after = tuples'
            PROVE  CellsHold(after, s, rows)
        BY <1>1, <3>1, <4>1, <4>2, <4>3, CellsKept
      <4> QED
        BY <4>3 DEF rows
    <3> QED
      BY <3>1, <3>2, <3>3, <3>5
  <2> QED
    BY <2>2, <2>3
<1> QED
  BY <1>3, <1>5 DEF TableMatches, PlaceOf

-----------------------------------------------------------------------------
(* The steps of the second task                                            *)

\* What a thread inside its partition finds.
LEMMA InsideFacts ==
  ASSUME LookupInv, NEW t \in Threads, t \in running, phase = "post", post[t].part < NumPartitions
  PROVE  /\ IInv
         /\ post[t] \in Places /\ PlaceFits(post[t])
         /\ DOMAIN post[t] = {"part", "stage", "src", "pos", "cur"}
         /\ post[t].part \in Partitions
         /\ post[t].part \in Nat
         /\ post[t].part % NumThreads = t
         /\ SlotsOf(post[t].part) \subseteq Slots \intersect Nat
         /\ \A s \in SlotsOf(post[t].part) :
              /\ s \in Slots /\ s \in Nat
              /\ InSlot(s) \subseteq Home(post[t].part)
              /\ directory[s] = Word(post[t], post[t].part, s)
              /\ CellsHold(tuples, s, CopiedTo(post[t], post[t].part, s))
<1> DEFINE p == post[t].part
<1>1. IInv /\ StagesMatch /\ TableMatches
  BY DEF LookupInv
<1>2. /\ post[t] \in Places /\ PlaceFits(post[t])
      /\ DOMAIN post[t] = {"part", "stage", "src", "pos", "cur"}
      /\ p \in Nat
      /\ p % NumThreads = t
  BY <1>1, PlaceFacts DEF StagesMatch
<1>3. p \in Partitions
  BY <1>2, SizeFacts
<1>4. SlotsOf(p) \subseteq Slots \intersect Nat
  BY <1>1, <1>2, <1>3, SlotsInDirectory
<1>5. \A s \in SlotsOf(p) :
        /\ directory[s] = Word(post[t], p, s)
        /\ CellsHold(tuples, s, CopiedTo(post[t], p, s))
  BY <1>1, <1>2, <1>3 DEF TableMatches, PlaceOf
<1>6. \A s \in SlotsOf(p) : InSlot(s) \subseteq Home(p)
  BY <1>1, <1>2, SlotAtHome
<1> QED
  BY <1>1, <1>2, <1>3, <1>4, <1>5, <1>6

\* The fields of a changed place.
LEMMA FieldsOfPlace ==
  ASSUME NEW r \in Places, NEW v, NEW w, NEW x
  PROVE  /\ [r EXCEPT !.pos = v].cur = r.cur
         /\ [r EXCEPT !.src = w, !.pos = v].cur = r.cur
         /\ [r EXCEPT !.pos = v, !.cur = w].cur = w
         /\ [r EXCEPT !.stage = x, !.pos = v, !.cur = w].cur = w
         /\ [r EXCEPT !.stage = x, !.src = w, !.pos = v].cur = r.cur
BY DEF Places

LEMMA TypesOfPlace ==
  ASSUME NEW r \in Places, NEW v \in Nat
  PROVE  /\ [r EXCEPT !.pos = v] \in Places
         /\ \A w \in 0 .. NumThreads : [r EXCEPT !.src = w, !.pos = v] \in Places
         /\ \A w \in Nat : [r EXCEPT !.pos = v, !.cur = w] \in Places
         /\ \A w \in Nat, x \in {"count", "prefix", "copy"} :
              [r EXCEPT !.stage = x, !.pos = v, !.cur = w] \in Places
         /\ \A w \in 0 .. NumThreads, x \in {"count", "prefix", "copy"} :
              [r EXCEPT !.stage = x, !.src = w, !.pos = v] \in Places
BY DEF Places

\* A place that fits replaces one of a thread at work.
LEMMA StagesOfStep ==
  ASSUME LookupInv, NEW t \in Threads, t \in running, phase = "post", phase' = "post",
         UNCHANGED <<col, capacity, todo, running>>,
         NEW w \in Places, PlaceFits(w), post' = [post EXCEPT ![t] = w]
  PROVE  StagesMatch'
<1>1. StagesMatch
  BY DEF LookupInv
<1>2. \A r : PlaceFits(r)' <=> PlaceFits(r)
  BY ColumnFixed DEF PlaceFits
<1>3. \A u \in Threads : post'[u] = IF u = t THEN w ELSE post[u]
  BY <1>1 DEF StagesMatch
<1>4. \A u \in Threads : PlaceFits(post'[u])
  BY <1>1, <1>3 DEF StagesMatch
<1>5. \A u \in Threads : PlaceFits(post[u])'
  BY <1>2, <1>4
<1>6. Finished' = Finished /\ t \notin Finished /\ Finished \subseteq Threads
  BY DEF Finished
<1>7. \A u \in Finished' : post'[u].part >= NumPartitions
  BY <1>1, <1>3, <1>6 DEF StagesMatch
<1>8. post' \in [Threads -> Places]
  BY <1>1 DEF StagesMatch
<1> QED
  BY <1>5, <1>7, <1>8 DEF StagesMatch

\* The table keeps its type.
LEMMA TypeOfStep ==
  ASSUME TableType, UNCHANGED <<col, capacity>>,
         \/ directory' = directory
         \/ \E s \in Slots, d \in DirectoryWords : directory' = [directory EXCEPT ![s] = d],
         \/ tuples' = tuples
         \/ \E c \in Slots, e \in Entry : tuples' = [tuples EXCEPT ![c] = e]
  PROVE  TableType'
<1>1. /\ directory \in [-1 .. capacity - 1 -> DirectoryWords]
      /\ directory[-1].addr = Tuples
      /\ tuples \in [Slots -> MayBeEntry]
  BY DEF TableType
<1>2. /\ MayBeEntry' = MayBeEntry /\ Slots' = Slots /\ NumRows' = NumRows
  BY ColumnFixed DEF MayBeEntry, Entry
<1>3. directory' \in [-1 .. capacity - 1 -> DirectoryWords]
  BY <1>1 DEF Slots
<1>4. directory'[-1].addr = Tuples
  <2>1. \A s \in Slots : s # -1
    BY DEF Slots
  <2>2. CASE directory' = directory
    BY <1>1, <2>2
  <2>3. ASSUME NEW s \in Slots, NEW d \in DirectoryWords, directory' = [directory EXCEPT ![s] = d]
        PROVE  directory'[-1].addr = Tuples
    <3>1. directory'[-1] = directory[-1]
      BY <1>1, <2>1, <2>3
    <3> QED
      BY <1>1, <3>1
  <2> QED
    BY <2>2, <2>3
<1>5. tuples' \in [Slots -> MayBeEntry]
  BY <1>1 DEF MayBeEntry
<1> QED
  BY <1>2, <1>3, <1>4, <1>5 DEF TableType

\* A word is one of the directory's.
LEMMA TagsOfKeys ==
  ASSUME IInv, NEW R, R \subseteq Filled
  PROVE  TagsOf(R) \subseteq UNION {Tag[k] : k \in Keys}
<1>1. \A r \in Filled : col[r + 1] \in Keys
  BY RowFacts
<1> QED
  BY <1>1 DEF TagsOf

LEMMA EntryOfFilled ==
  ASSUME IInv, NEW r \in Filled
  PROVE  EntryFor(r) \in Entry
<1>1. r \in RowSet /\ col[r + 1] \in Keys
  BY RowFacts
<1> QED
  BY <1>1 DEF EntryFor, Entry, RowSet

\* What a place within its partition says, pass by pass.
LEMMA PlaceSays ==
  ASSUME NEW r, NEW p \in Nat, r.part = p
  PROVE  /\ Counted(r, p) = IF r.stage # "count" THEN Home(p) ELSE Passed(p, r.src, r.pos)
         /\ Copied(r, p) = IF r.stage # "copy" THEN {} ELSE Passed(p, r.src, r.pos)
         /\ \A s : Addressed(r, p, s) <=> r.stage = "copy" \/ (r.stage = "prefix" /\ s < r.pos)
<1>1. ~(p < p)
  OBVIOUS
<1> QED
  BY <1>1 DEF Counted, Copied, Addressed

LEMMA WordSays ==
  ASSUME NEW r, NEW p, NEW s
  PROVE  /\ Addressed(r, p, s) => Word(r, p, s).addr = Tuples + NumBelow(s) + Cardinality(CopiedTo(r, p, s))
         /\ ~Addressed(r, p, s) => Word(r, p, s).addr = Cardinality(InSlot(s) \intersect Counted(r, p))
         /\ Word(r, p, s).tag = TagsOf(InSlot(s) \intersect Counted(r, p))
         /\ Word(r, p, s) = [addr |-> Word(r, p, s).addr, tag |-> Word(r, p, s).tag]
BY DEF Word

\* A step that leaves the directory and the cells as they are.
LEMMA QuietStep ==
  ASSUME LookupInv, NEW t \in Threads, t \in running, phase = "post", phase' = "post",
         UNCHANGED <<col, capacity, level3, counts, todo, running, directory, tuples>>,
         post[t].part < NumPartitions,
         NEW w \in Places, PlaceFits(w), post' = [post EXCEPT ![t] = w], w.part = post[t].part,
         \A s \in SlotsOf(post[t].part) :
           /\ Word(w, post[t].part, s) = Word(post[t], post[t].part, s)
           /\ CopiedTo(w, post[t].part, s) = CopiedTo(post[t], post[t].part, s)
  PROVE  StagesMatch' /\ TableMatches' /\ TableType'
<1>1. StagesMatch'
  BY StagesOfStep
<1>2. TableType'
  BY TypeOfStep DEF LookupInv
<1>3. \A s \in SlotsOf(post[t].part) :
        /\ directory'[s] = Word(w, post[t].part, s)
        /\ CellsHold(tuples', s, CopiedTo(w, post[t].part, s))
  BY InsideFacts
<1>4. TableMatches'
  BY <1>3, TableStep
<1> QED
  BY <1>1, <1>2, <1>4

LEMMA SourceStep ==
  ASSUME LookupInv, NEW t \in Threads, NextSource(t)
  PROVE  StagesMatch' /\ TableMatches' /\ TableType'
<1> DEFINE r == post[t]
           p == r.part
           w == [r EXCEPT !.src = r.src + 1, !.pos = 1]
<1>1. /\ phase = "post" /\ phase' = "post" /\ t \in running /\ p < NumPartitions
      /\ UNCHANGED <<col, capacity, level3, counts, todo, running, directory, tuples>>
      /\ r.stage \in {"count", "copy"} /\ r.src < NumThreads /\ ~HasEntry(t)
      /\ post' = [post EXCEPT ![t].src = @ + 1, ![t].pos = 1]
  BY DEF NextSource, InPost, postUnchanged, poolVars, tableVars
<1>2. IInv /\ r \in Places /\ p \in Partitions /\ p \in Nat
  BY <1>1, InsideFacts
<1>3. r.src \in Threads /\ r.src + 1 \in 0 .. NumThreads /\ r.pos \in Nat
  BY <1>1, <1>2, SizeFacts DEF Places
<1>4. post' = [post EXCEPT ![t] = w]
  BY <1>1 DEF LookupInv, StagesMatch
<1>5. IsPlace(w, p, r.stage, r.src + 1, 1) /\ w \in Places
  BY <1>2, <1>3, TypesOfPlace, PlaceUpdates, InsideFacts, <1>1
<1> HIDE DEF w
<1>6. w.part = p /\ w.stage = r.stage /\ w.src = r.src + 1 /\ w.pos = 1
  BY <1>5 DEF IsPlace
<1>7. PlaceFits(w)
  BY <1>1, <1>2, <1>6, SizeFacts DEF PlaceFits
<1>8. Passed(p, r.src + 1, 1) = Passed(p, r.src, r.pos)
  <2>1. Visited(r.src, p) = counts[r.src][p] /\ counts[r.src][p] \in Nat
    BY <1>2, <1>3, VisitedAll DEF IInv, ListsMatch
  <2>2. r.pos > counts[r.src][p]
    BY <1>1, <1>3, <2>1 DEF HasEntry
  <2> QED
    BY <1>2, <1>3, <2>2, PassedSource
<1>9. Counted(w, p) = Counted(r, p) /\ Copied(w, p) = Copied(r, p)
  BY <1>2, <1>6, <1>8, PlaceSays
<1>10. \A s : Addressed(w, p, s) <=> Addressed(r, p, s)
  BY <1>1, <1>2, <1>6, PlaceSays
<1>11. \A s : Word(w, p, s) = Word(r, p, s) /\ CopiedTo(w, p, s) = CopiedTo(r, p, s)
  BY <1>9, <1>10, SameWord
<1> QED
  BY <1>1, <1>4, <1>5, <1>6, <1>7, <1>11, QuietStep

LEMMA StartPrefixStep ==
  ASSUME LookupInv, NEW t \in Threads, StartPrefix(t)
  PROVE  StagesMatch' /\ TableMatches' /\ TableType'
<1> DEFINE r == post[t]
           p == r.part
           first == FirstSlot(p)
           start == Tuples + NumBelow(first)
           w == [r EXCEPT !.stage = "prefix", !.pos = first, !.cur = start]
<1>1. /\ phase = "post" /\ phase' = "post" /\ t \in running /\ p < NumPartitions
      /\ UNCHANGED <<col, capacity, level3, counts, todo, running, directory, tuples>>
      /\ r.stage = "count" /\ r.src = NumThreads
      /\ post' = [post EXCEPT ![t].stage = "prefix", ![t].pos = first,
                              ![t].cur = Tuples + offsets[p]]
  BY DEF StartPrefix, InPost, postUnchanged, poolVars, tableVars
<1>2. IInv /\ r \in Places /\ p \in Partitions /\ p \in Nat /\ NextMatches /\ ListsExact
  BY <1>1, InsideFacts DEF LookupInv
<1>3. /\ first \in Nat /\ EndSlot(p) \in Nat /\ first <= EndSlot(p)
      /\ \A s \in SlotsOf(p) : s \in Nat /\ first <= s
  BY <1>2, SlotsInDirectory, SlotBounds
<1>4. start \in Nat
  BY <1>2, <1>3, NextCells, SizesAssumption
<1>5. offsets[p] = NumBelow(first)
  BY <1>1, <1>2 DEF LookupInv, OffsetsMatch
<1>6. post' = [post EXCEPT ![t] = w]
  BY <1>1, <1>5 DEF LookupInv, StagesMatch
<1>7. IsPlace(w, p, "prefix", r.src, first) /\ w \in Places /\ w.cur = start
  <2> HIDE DEF first, start
  <2>1. DOMAIN r = {"part", "stage", "src", "pos", "cur"}
    BY <1>1, InsideFacts
  <2>2. IsPlace(w, p, "prefix", r.src, first)
    BY <2>1, PlaceUpdates
  <2>3. w \in Places
    BY <1>2, <1>3, <1>4, TypesOfPlace
  <2>4. w.cur = start
    BY <1>2, FieldsOfPlace
  <2> QED
    BY <2>2, <2>3, <2>4
<1> HIDE DEF w
<1>8. w.part = p /\ w.stage = "prefix" /\ w.src = NumThreads /\ w.pos = first
  BY <1>1, <1>7 DEF IsPlace
<1>9. PlaceFits(w)
  <2>1. ~(w.part >= NumPartitions)
    BY <1>1, <1>2, <1>8, SizeFacts
  <2> QED
    BY <1>3, <1>7, <1>8, <2>1 DEF PlaceFits
<1>10. Passed(p, r.src, r.pos) = Home(p)
  BY <1>1, <1>2, PassedAll
<1>11. Counted(w, p) = Counted(r, p) /\ Copied(w, p) = Copied(r, p)
  BY <1>1, <1>2, <1>8, <1>10, PlaceSays
<1>12. \A s \in SlotsOf(p) : Addressed(w, p, s) <=> Addressed(r, p, s)
  <2>1. \A s \in SlotsOf(p) : ~(s < first)
    BY <1>3
  <2> QED
    BY <1>1, <1>2, <1>8, <2>1, PlaceSays
<1>13. \A s \in SlotsOf(p) : Word(w, p, s) = Word(r, p, s) /\ CopiedTo(w, p, s) = CopiedTo(r, p, s)
  BY <1>11, <1>12, SameWord
<1> QED
  BY <1>1, <1>6, <1>7, <1>8, <1>9, <1>13, QuietStep

LEMMA StartCopyStep ==
  ASSUME LookupInv, NEW t \in Threads, StartCopy(t)
  PROVE  StagesMatch' /\ TableMatches' /\ TableType'
<1> DEFINE r == post[t]
           p == r.part
           w == [r EXCEPT !.stage = "copy", !.src = 0, !.pos = 1]
<1>1. /\ phase = "post" /\ phase' = "post" /\ t \in running /\ p < NumPartitions
      /\ UNCHANGED <<col, capacity, level3, counts, todo, running, directory, tuples>>
      /\ r.stage = "prefix" /\ r.pos = EndSlot(p)
      /\ post' = [post EXCEPT ![t].stage = "copy", ![t].src = 0, ![t].pos = 1]
  BY DEF StartCopy, InPost, postUnchanged, poolVars, tableVars
<1>2. IInv /\ r \in Places /\ p \in Partitions /\ p \in Nat
  BY <1>1, InsideFacts
<1>3. \A s \in SlotsOf(p) : s < EndSlot(p)
  BY <1>2, SlotBounds
<1>4. post' = [post EXCEPT ![t] = w]
  BY <1>1 DEF LookupInv, StagesMatch
<1>5. 0 \in 0 .. NumThreads /\ 1 \in Nat
  BY SizeFacts
<1>6. IsPlace(w, p, "copy", 0, 1) /\ w \in Places
  BY <1>1, <1>2, <1>5, TypesOfPlace, PlaceUpdates, InsideFacts
<1> HIDE DEF w
<1>7. w.part = p /\ w.stage = "copy" /\ w.src = 0 /\ w.pos = 1
  BY <1>6 DEF IsPlace
<1>8. PlaceFits(w)
  BY <1>1, <1>2, <1>7, SizeFacts DEF PlaceFits
<1>9. Passed(p, 0, 1) = {}
  BY <1>2, PassedNone
<1>10. Counted(w, p) = Counted(r, p) /\ Copied(w, p) = Copied(r, p)
  BY <1>1, <1>2, <1>7, <1>9, PlaceSays
<1>11. \A s \in SlotsOf(p) : Addressed(w, p, s) <=> Addressed(r, p, s)
  BY <1>1, <1>2, <1>3, <1>7, PlaceSays
<1>12. \A s \in SlotsOf(p) : Word(w, p, s) = Word(r, p, s) /\ CopiedTo(w, p, s) = CopiedTo(r, p, s)
  BY <1>10, <1>11, SameWord
<1> QED
  BY <1>1, <1>4, <1>6, <1>7, <1>8, <1>12, QuietStep

\* The first pass takes in one entry.
LEMMA CountStep ==
  ASSUME LookupInv, NEW t \in Threads, CountEntry(t)
  PROVE  StagesMatch' /\ TableMatches' /\ TableType'
<1> DEFINE r == post[t]
           p == r.part
           k == EntryAt(t).key
           o == Slot(k)
           d == [addr |-> directory[o].addr + 1, tag |-> directory[o].tag \union Tag[k]]
           w == [r EXCEPT !.pos = r.pos + 1]
           P == Passed(p, r.src, r.pos)
<1>1. /\ phase = "post" /\ phase' = "post" /\ t \in running /\ p < NumPartitions
      /\ UNCHANGED <<col, capacity, level3, counts, todo, running, tuples>>
      /\ r.stage = "count" /\ HasEntry(t)
      /\ directory' = [directory EXCEPT ![o] = [addr |-> @.addr + 1, tag |-> @.tag \union Tag[k]]]
      /\ post' = [post EXCEPT ![t].pos = @ + 1]
  BY DEF CountEntry, InPost, postUnchanged, poolVars
<1>2. /\ IInv /\ r \in Places /\ p \in Partitions /\ p \in Nat /\ NextMatches /\ ListsExact
      /\ directory \in [-1 .. capacity - 1 -> DirectoryWords]
  BY <1>1, InsideFacts DEF LookupInv, TableType
<1>3. PICK row \in Home(p) :
        /\ EntryAt(t) = EntryFor(row)
        /\ row \notin P
        /\ Passed(p, r.src, r.pos + 1) = P \union {row}
  BY <1>1, <1>2, EntryFacts
<1>4. row \in Filled /\ col[row + 1] = k /\ k \in Keys /\ Partition(k) = p
  BY <1>2, <1>3, EntryOfRow, RowFacts DEF Home
<1>5. o \in SlotsOf(p) /\ o \in Slots /\ row \in InSlot(o)
  <2>1. o \in SlotsOf(p)
    BY <1>2, <1>4, SlotOfRow
  <2> QED
    BY <1>1, <1>4, <2>1, InsideFacts DEF InSlot
<1>6. directory' = [directory EXCEPT ![o] = d]
  BY <1>1
<1>7. o \in -1 .. capacity - 1
  BY <1>5 DEF Slots
<1>8. d \in DirectoryWords
  <2>1. directory[o].addr + 1 \in Nat
    BY <1>2, <1>7 DEF DirectoryWords
  <2>2. directory[o].tag \union Tag[k] \subseteq UNION {Tag[x] : x \in Keys}
    BY <1>2, <1>4, <1>7 DEF DirectoryWords
  <2> QED
    BY <2>1, <2>2 DEF DirectoryWords
<1>9. \A s \in Slots : directory'[s] = IF s = o THEN d ELSE directory[s]
  BY <1>2, <1>6 DEF Slots
<1>10. r.pos + 1 \in Nat /\ r.pos \in Nat
  BY <1>2 DEF Places
<1>11. post' = [post EXCEPT ![t] = w]
  BY <1>1 DEF LookupInv, StagesMatch
<1>12. IsPlace(w, p, "count", r.src, r.pos + 1) /\ w \in Places
  BY <1>1, <1>2, <1>10, TypesOfPlace, PlaceUpdates, InsideFacts
<1> HIDE DEF w
<1>13. w.part = p /\ w.stage = "count" /\ w.src = r.src /\ w.pos = r.pos + 1
  BY <1>12 DEF IsPlace
<1>14. PlaceFits(w)
  BY <1>13 DEF PlaceFits
<1>15. /\ Counted(r, p) = P /\ Counted(w, p) = P \union {row}
       /\ Copied(r, p) = {} /\ Copied(w, p) = {}
       /\ \A s : ~Addressed(r, p, s) /\ ~Addressed(w, p, s)
  BY <1>1, <1>2, <1>3, <1>13, PlaceSays
<1>16. \A s : CopiedTo(r, p, s) = {} /\ CopiedTo(w, p, s) = {}
  BY <1>15 DEF CopiedTo
<1>17. ASSUME NEW s \in SlotsOf(p)
       PROVE  directory'[s] = Word(w, p, s)
  <2> DEFINE X == InSlot(s) \intersect P
             Y == InSlot(s) \intersect (P \union {row})
  <2>1. s \in Slots /\ directory[s] = Word(r, p, s)
    BY <1>1, InsideFacts
  <2>2. Word(r, p, s) = [addr |-> Cardinality(X), tag |-> TagsOf(X)]
    BY <1>15 DEF Word
  <2>3. Word(w, p, s) = [addr |-> Cardinality(Y), tag |-> TagsOf(Y)]
    BY <1>15 DEF Word
  <2>4. CASE s # o
    <3>1. row \notin InSlot(s)
      BY <1>4, <2>4 DEF InSlot
    <3>2. X = Y
      BY <3>1
    <3> QED
      BY <1>9, <2>1, <2>2, <2>3, <2>4, <3>2
  <2>5. CASE s = o
    <3>1. Y = X \union {row} /\ row \notin X /\ X \subseteq Filled
      BY <1>3, <1>5, <2>5 DEF InSlot
    <3>2. Cardinality(Y) = Cardinality(X) + 1
      <4> HIDE DEF X, Y
      <4> QED
        BY <1>2, <1>4, <3>1, OneMoreRow
    <3>3. TagsOf(Y) = TagsOf(X) \union Tag[k]
      <4> HIDE DEF X, Y
      <4> QED
        BY <1>4, <3>1 DEF TagsOf
    <3>4. directory'[s] = d
      BY <1>9, <2>1, <2>5
    <3>5. directory[o].addr = Cardinality(X) /\ directory[o].tag = TagsOf(X)
      BY <2>1, <2>2, <2>5
    <3> QED
      BY <2>3, <3>2, <3>3, <3>4, <3>5
  <2> QED
    BY <2>4, <2>5
<1>18. \A s \in SlotsOf(p) : CellsHold(tuples', s, CopiedTo(w, p, s))
  <2>1. \A s \in SlotsOf(p) : CellsHold(tuples, s, CopiedTo(r, p, s))
    BY <1>1, InsideFacts
  <2> QED
    BY <1>1, <1>16, <2>1
<1>19. \A s \in Slots \ SlotsOf(p) :
         /\ directory'[s] = directory[s]
         /\ \A c \in NumBelow(s) .. NumBelow(s + 1) - 1 : tuples'[c] = tuples[c]
  BY <1>1, <1>5, <1>9
<1>20. TableMatches'
  BY <1>1, <1>11, <1>13, <1>17, <1>18, <1>19, TableStep
<1>21. StagesMatch'
  BY <1>1, <1>11, <1>12, <1>14, StagesOfStep
<1>22. TableType'
  <2>1. TableType
    BY DEF LookupInv
  <2> HIDE DEF o, d
  <2> QED
    BY <1>1, <1>5, <1>6, <1>8, <2>1, TypeOfStep
<1> QED
  BY <1>20, <1>21, <1>22

\* A slot's count becomes its address.
LEMMA PrefixStep ==
  ASSUME LookupInv, NEW t \in Threads, PrefixSlot(t)
  PROVE  StagesMatch' /\ TableMatches' /\ TableType'
<1> DEFINE r == post[t]
           p == r.part
           o == r.pos
           d == [addr |-> r.cur, tag |-> directory[o].tag]
           cur == r.cur + directory[o].addr
           w == [r EXCEPT !.pos = o + 1, !.cur = cur]
<1>1. /\ phase = "post" /\ phase' = "post" /\ t \in running /\ p < NumPartitions
      /\ UNCHANGED <<col, capacity, level3, counts, todo, running, tuples>>
      /\ r.stage = "prefix" /\ o < EndSlot(p)
      /\ directory' = [directory EXCEPT ![o].addr = r.cur]
      /\ post' = [post EXCEPT ![t].pos = @ + 1, ![t].cur = @ + directory[o].addr]
  BY DEF PrefixSlot, InPost, postUnchanged, poolVars
<1>2. /\ IInv /\ r \in Places /\ p \in Partitions /\ p \in Nat /\ PlaceFits(r)
      /\ directory \in [-1 .. capacity - 1 -> DirectoryWords]
  BY <1>1, InsideFacts DEF LookupInv, TableType
<1>3. o \in Nat /\ FirstSlot(p) <= o /\ FirstSlot(p) \in Nat /\ EndSlot(p) \in Nat
  BY <1>1, <1>2, PlaceFacts, SlotsInDirectory
<1>4. o \in SlotsOf(p)
  BY <1>1, <1>3 DEF SlotsOf
<1>5. o \in Slots /\ directory[o] = Word(r, p, o) /\ InSlot(o) \subseteq Home(p)
  BY <1>1, <1>4, InsideFacts
<1>6. o \in -1 .. capacity - 1
  BY <1>5 DEF Slots
<1>7. /\ Counted(r, p) = Home(p) /\ Copied(r, p) = {}
      /\ \A s : Addressed(r, p, s) <=> s < o
  BY <1>1, <1>2, PlaceSays
<1>8. directory[o].addr = Cardinality(InSlot(o)) /\ directory[o].tag = TagsOf(InSlot(o))
  <2>1. InSlot(o) \intersect Home(p) = InSlot(o)
    BY <1>5
  <2>2. ~Addressed(r, p, o)
    BY <1>3, <1>7
  <2>3. /\ Word(r, p, o).addr = Cardinality(InSlot(o) \intersect Counted(r, p))
        /\ Word(r, p, o).tag = TagsOf(InSlot(o) \intersect Counted(r, p))
    BY <2>2, WordSays
  <2>4. /\ Word(r, p, o).addr = Cardinality(InSlot(o))
        /\ Word(r, p, o).tag = TagsOf(InSlot(o))
    BY <1>7, <2>1, <2>3
  <2> QED
    BY <1>5, <2>4
<1>9. r.cur = Tuples + NumBelow(o) /\ o <= EndSlot(p) /\ r.src = NumThreads
  BY <1>1, <1>2 DEF PlaceFits
<1>10. /\ NumBelow(o) \in Nat /\ cur \in Nat /\ Tuples \in Nat
       /\ cur = Tuples + NumBelow(o + 1)
  <2>1. /\ NumBelow(o) \in Nat /\ Cardinality(InSlot(o)) \in Nat
        /\ NumBelow(o + 1) = NumBelow(o) + Cardinality(InSlot(o))
    BY <1>2, <1>3, NextCells
  <2> QED
    BY <1>8, <1>9, <2>1, SizesAssumption
<1>11. directory' = [directory EXCEPT ![o] = d]
  <2>1. directory[o] \in DirectoryWords
    BY <1>2, <1>6
  <2>2. [directory[o] EXCEPT !.addr = r.cur] = d
    BY <2>1 DEF DirectoryWords
  <2> QED
    BY <1>1, <2>2
<1>12. d \in DirectoryWords
  <2>1. r.cur \in Nat
    BY <1>2 DEF Places
  <2> QED
    BY <1>2, <1>6, <2>1 DEF DirectoryWords
<1>13. \A s \in Slots : directory'[s] = IF s = o THEN d ELSE directory[s]
  BY <1>2, <1>11 DEF Slots
<1>14. post' = [post EXCEPT ![t] = w]
  BY <1>1 DEF LookupInv, StagesMatch
<1>15. IsPlace(w, p, "prefix", NumThreads, o + 1) /\ w \in Places /\ w.cur = cur
  <2> HIDE DEF o, cur
  <2>1. DOMAIN r = {"part", "stage", "src", "pos", "cur"}
    BY <1>1, InsideFacts
  <2>2. IsPlace(w, p, "prefix", NumThreads, o + 1)
    BY <1>1, <1>9, <2>1, PlaceUpdates
  <2>3. o + 1 \in Nat
    BY <1>3
  <2>4. w \in Places
    BY <1>2, <1>10, <2>3, TypesOfPlace
  <2>5. w.cur = cur
    BY <1>2, FieldsOfPlace
  <2> QED
    BY <2>2, <2>4, <2>5
<1> HIDE DEF w
<1>16. w.part = p /\ w.stage = "prefix" /\ w.src = NumThreads /\ w.pos = o + 1
  BY <1>15 DEF IsPlace
<1>17. PlaceFits(w)
  <2>1. ~(w.part >= NumPartitions) /\ o + 1 <= EndSlot(p)
    BY <1>1, <1>2, <1>3, <1>16, SizeFacts
  <2> QED
    BY <1>10, <1>15, <1>16, <2>1 DEF PlaceFits
<1>18. /\ Counted(w, p) = Home(p) /\ Copied(w, p) = {}
       /\ \A s : Addressed(w, p, s) <=> s < o + 1
  BY <1>2, <1>16, PlaceSays
<1>19. \A s : CopiedTo(r, p, s) = {} /\ CopiedTo(w, p, s) = {}
  BY <1>7, <1>18 DEF CopiedTo
<1>20. ASSUME NEW s \in SlotsOf(p)
       PROVE  directory'[s] = Word(w, p, s)
  <2>1. s \in Slots /\ s \in Nat /\ directory[s] = Word(r, p, s)
    BY <1>1, InsideFacts
  <2>2. CASE s # o
    <3>1. Addressed(w, p, s) <=> Addressed(r, p, s)
      <4>1. s < o + 1 <=> s < o
        BY <1>3, <2>1, <2>2
      <4> QED
        BY <1>7, <1>18, <4>1
    <3>2. Word(w, p, s) = Word(r, p, s)
      BY <1>7, <1>18, <3>1, SameWord
    <3> QED
      BY <1>13, <2>1, <2>2, <3>2
  <2>3. CASE s = o
    <3>1. Addressed(w, p, o)
      BY <1>3, <1>18
    <3>2. Cardinality({}) = 0
      BY FS_EmptySet
    <3>3. InSlot(o) \intersect Home(p) = InSlot(o)
      BY <1>5
    <3>4. Word(w, p, o) = [addr |-> Tuples + NumBelow(o) + 0, tag |-> TagsOf(InSlot(o))]
      BY <1>18, <1>19, <3>1, <3>2, <3>3 DEF Word
    <3>5. Tuples + NumBelow(o) + 0 = r.cur
      BY <1>9, <1>10
    <3>6. directory'[o] = d
      BY <1>13, <2>1, <2>3
    <3> QED
      BY <1>8, <2>3, <3>4, <3>5, <3>6
  <2> QED
    BY <2>2, <2>3
<1>21. \A s \in SlotsOf(p) : CellsHold(tuples', s, CopiedTo(w, p, s))
  <2>1. \A s \in SlotsOf(p) : CellsHold(tuples, s, CopiedTo(r, p, s))
    BY <1>1, InsideFacts
  <2> QED
    BY <1>1, <1>19, <2>1
<1>22. \A s \in Slots \ SlotsOf(p) :
         /\ directory'[s] = directory[s]
         /\ \A c \in NumBelow(s) .. NumBelow(s + 1) - 1 : tuples'[c] = tuples[c]
  BY <1>1, <1>4, <1>13
<1>23. TableMatches'
  BY <1>1, <1>14, <1>16, <1>20, <1>21, <1>22, TableStep
<1>24. StagesMatch'
  BY <1>1, <1>14, <1>15, <1>17, StagesOfStep
<1>25. TableType'
  <2>1. TableType
    BY DEF LookupInv
  <2> HIDE DEF o, d
  <2> QED
    BY <1>1, <1>5, <1>11, <1>12, <2>1, TypeOfStep
<1> QED
  BY <1>23, <1>24, <1>25

\* Where the second pass puts an entry: behind those its slot has already.
LEMMA TargetFacts ==
  ASSUME LookupInv, NEW t \in Threads, InPost(t, "copy"), HasEntry(t),
         NEW P, P = Passed(post[t].part, post[t].src, post[t].pos)
  PROVE  \E row \in Home(post[t].part) :
           LET o == Slot(EntryAt(t).key)
               X == InSlot(o) \intersect P
           IN  /\ EntryAt(t) = EntryFor(row)
               /\ row \notin P
               /\ Passed(post[t].part, post[t].src, post[t].pos + 1) = P \union {row}
               /\ o \in SlotsOf(post[t].part) /\ o \in Slots /\ o \in Nat
               /\ row \in InSlot(o)
               /\ Target(t) = NumBelow(o) + Cardinality(X)
               /\ Target(t) \in Nat
               /\ directory[o].addr = Tuples + Target(t)
               /\ NumBelow(o) <= Target(t) /\ Target(t) < NumBelow(o + 1)
               /\ Target(t) \in Slots
<1> DEFINE r == post[t]
           p == r.part
           o == Slot(EntryAt(t).key)
           X == InSlot(o) \intersect P
<1>1. phase = "post" /\ t \in running /\ p < NumPartitions /\ r.stage = "copy"
  BY DEF InPost
<1>2. IInv /\ p \in Partitions /\ p \in Nat /\ NextMatches /\ ListsExact /\ capacity > NumRows
  BY <1>1, InsideFacts DEF LookupInv, TableType
<1>3. PICK row \in Home(p) :
        /\ EntryAt(t) = EntryFor(row)
        /\ row \notin P
        /\ Passed(p, r.src, r.pos + 1) = P \union {row}
  BY <1>1, <1>2, EntryFacts
<1>4. row \in Filled /\ Partition(col[row + 1]) = p /\ o = Slot(col[row + 1])
  BY <1>3, EntryOfRow DEF Home
<1>5. o \in SlotsOf(p) /\ row \in InSlot(o)
  <2>1. o \in SlotsOf(p)
    BY <1>2, <1>4, SlotOfRow
  <2> QED
    BY <1>4, <2>1 DEF InSlot
<1>6. o \in Slots /\ o \in Nat /\ directory[o] = Word(r, p, o)
  BY <1>1, <1>5, InsideFacts
<1>7. directory[o].addr = Tuples + NumBelow(o) + Cardinality(X)
  BY <1>1, <1>2, <1>6, PlaceSays DEF Word, CopiedTo
<1>8. X \subseteq InSlot(o) /\ X # InSlot(o)
  BY <1>3, <1>5
<1> HIDE DEF X
<1>9. /\ NumBelow(o) \in Nat /\ NumBelow(o + 1) \in Nat /\ Cardinality(X) \in Nat
      /\ NumBelow(o) <= NumBelow(o) + Cardinality(X)
      /\ NumBelow(o) + Cardinality(X) < NumBelow(o + 1)
      /\ NumBelow(o + 1) <= NumRows
  BY <1>2, <1>6, <1>8, SlotRange
<1>10. Target(t) = NumBelow(o) + Cardinality(X)
  BY <1>7, <1>9, SizesAssumption DEF Target
<1>11. /\ Target(t) \in Nat
       /\ directory[o].addr = Tuples + Target(t)
       /\ NumBelow(o) <= Target(t) /\ Target(t) < NumBelow(o + 1)
       /\ Target(t) \in Slots
  <2>1. NumRows \in Nat /\ capacity \in Nat
    BY <1>2, RowFacts
  <2> QED
    BY <1>2, <1>7, <1>9, <1>10, <2>1, SizesAssumption DEF Slots
<1> QED
  BY <1>3, <1>5, <1>6, <1>10, <1>11 DEF X

\* It is in no other slot's cells.
LEMMA TargetElsewhere ==
  ASSUME IInv, NEW o \in Nat, NEW s \in Nat, s # o, NEW c \in Nat,
         NumBelow(o) <= c, c < NumBelow(o + 1)
  PROVE  c \notin NumBelow(s) .. NumBelow(s + 1) - 1
<1>1. /\ NumBelow(o) \in Nat /\ NumBelow(o + 1) \in Nat
      /\ NumBelow(s) \in Nat /\ NumBelow(s + 1) \in Nat
  <2>1. o + 1 \in Nat /\ s + 1 \in Nat
    OBVIOUS
  <2> QED
    BY <2>1, NextCells
<1>2. CASE s < o
  <2>1. s + 1 \in Nat /\ s + 1 <= o
    BY <1>2
  <2>2. NumBelow(s + 1) <= NumBelow(o)
    BY <2>1, CellsInOrder
  <2> QED
    BY <1>1, <2>2
<1>3. CASE o < s
  <2>1. o + 1 \in Nat /\ o + 1 <= s
    BY <1>3
  <2>2. NumBelow(o + 1) <= NumBelow(s)
    BY <2>1, CellsInOrder
  <2> QED
    BY <1>1, <2>2
<1> QED
  BY <1>2, <1>3

\* The second pass copies one entry.
LEMMA CopyStep ==
  ASSUME LookupInv, NEW t \in Threads, CopyEntry(t)
  PROVE  StagesMatch' /\ TableMatches' /\ TableType'
<1> DEFINE r == post[t]
           p == r.part
           o == Slot(EntryAt(t).key)
           g == Target(t)
           P == Passed(p, r.src, r.pos)
           X == InSlot(o) \intersect P
           d == [addr |-> directory[o].addr + 1, tag |-> directory[o].tag]
           w == [r EXCEPT !.pos = r.pos + 1]
<1>1. /\ phase = "post" /\ phase' = "post" /\ t \in running /\ p < NumPartitions
      /\ UNCHANGED <<col, capacity, level3, counts, todo, running>>
      /\ r.stage = "copy" /\ HasEntry(t) /\ InPost(t, "copy")
      /\ tuples' = [tuples EXCEPT ![g] = EntryAt(t)]
      /\ directory' = [directory EXCEPT ![o].addr = @ + 1]
      /\ post' = [post EXCEPT ![t].pos = @ + 1]
  BY DEF CopyEntry, InPost, postUnchanged, poolVars
<1>2. /\ IInv /\ r \in Places /\ p \in Partitions /\ p \in Nat
      /\ directory \in [-1 .. capacity - 1 -> DirectoryWords]
      /\ tuples \in [Slots -> MayBeEntry]
  BY <1>1, InsideFacts DEF LookupInv, TableType
<1>3. PICK row \in Home(p) :
        /\ EntryAt(t) = EntryFor(row)
        /\ row \notin P
        /\ Passed(p, r.src, r.pos + 1) = P \union {row}
        /\ o \in SlotsOf(p) /\ o \in Slots /\ o \in Nat
        /\ row \in InSlot(o)
        /\ g = NumBelow(o) + Cardinality(X)
        /\ g \in Nat
        /\ directory[o].addr = Tuples + g
        /\ NumBelow(o) <= g /\ g < NumBelow(o + 1)
        /\ g \in Slots
  BY <1>1, TargetFacts
<1>4. o \in -1 .. capacity - 1
  BY <1>3 DEF Slots
<1>5. directory' = [directory EXCEPT ![o] = d]
  <2>1. directory[o] \in DirectoryWords
    BY <1>2, <1>4
  <2>2. [directory[o] EXCEPT !.addr = directory[o].addr + 1] = d
    BY <2>1 DEF DirectoryWords
  <2> QED
    BY <1>1, <2>2
<1>6. d \in DirectoryWords
  BY <1>2, <1>4 DEF DirectoryWords
<1>7. \A s \in Slots : directory'[s] = IF s = o THEN d ELSE directory[s]
  BY <1>2, <1>5 DEF Slots
<1>8. \A c \in Slots : tuples'[c] = IF c = g THEN EntryFor(row) ELSE tuples[c]
  BY <1>1, <1>2, <1>3
<1>9. r.pos + 1 \in Nat /\ r.pos \in Nat
  BY <1>2 DEF Places
<1>10. post' = [post EXCEPT ![t] = w]
  BY <1>1 DEF LookupInv, StagesMatch
<1>11. IsPlace(w, p, "copy", r.src, r.pos + 1) /\ w \in Places
  BY <1>1, <1>2, <1>9, TypesOfPlace, PlaceUpdates, InsideFacts
<1> HIDE DEF w
<1>12. w.part = p /\ w.stage = "copy" /\ w.src = r.src /\ w.pos = r.pos + 1
  BY <1>11 DEF IsPlace
<1>13. PlaceFits(w)
  BY <1>1, <1>2, <1>12, SizeFacts DEF PlaceFits
<1>14. /\ Counted(r, p) = Home(p) /\ Counted(w, p) = Home(p)
       /\ Copied(r, p) = P /\ Copied(w, p) = P \union {row}
       /\ \A s : Addressed(r, p, s) /\ Addressed(w, p, s)
  BY <1>1, <1>2, <1>3, <1>12, PlaceSays
<1>15. \A s : /\ CopiedTo(r, p, s) = InSlot(s) \intersect P
              /\ CopiedTo(w, p, s) = InSlot(s) \intersect (P \union {row})
  BY <1>14 DEF CopiedTo
<1>16. \A s \in Nat : \A c \in NumBelow(s) .. NumBelow(s + 1) - 1 : c \in Slots
  <2> SUFFICES ASSUME NEW s \in Nat
               PROVE  \A c \in NumBelow(s) .. NumBelow(s + 1) - 1 : c \in Slots
    OBVIOUS
  <2>1. {} \subseteq InSlot(s)
    OBVIOUS
  <2>2. /\ NumBelow(s) \in Nat /\ NumBelow(s + 1) \in Nat /\ NumBelow(s + 1) <= NumRows
        /\ NumRows \in Nat /\ capacity \in Nat
    BY <1>2, <2>1, SlotRange, RowFacts
  <2>3. capacity > NumRows
    BY DEF LookupInv, TableType
  <2> QED
    BY <2>2, <2>3 DEF Slots
<1>17. ASSUME NEW s \in Nat, s # o
       PROVE  \A c \in NumBelow(s) .. NumBelow(s + 1) - 1 : tuples'[c] = tuples[c]
  <2>1. g \notin NumBelow(s) .. NumBelow(s + 1) - 1
    <3> HIDE DEF o, g
    <3> QED
      BY <1>2, <1>3, <1>17, TargetElsewhere
  <2> QED
    BY <1>8, <1>16, <2>1
<1>18. ASSUME NEW s \in SlotsOf(p)
       PROVE  /\ directory'[s] = Word(w, p, s)
              /\ CellsHold(tuples', s, CopiedTo(w, p, s))
  <2>1. /\ s \in Slots /\ s \in Nat /\ directory[s] = Word(r, p, s)
        /\ CellsHold(tuples, s, CopiedTo(r, p, s))
    BY <1>1, InsideFacts
  <2>2. CASE s # o
    <3>1. row \notin InSlot(s)
      BY <1>3, <2>2 DEF InSlot
    <3>2. CopiedTo(w, p, s) = CopiedTo(r, p, s)
      BY <1>15, <3>1
    <3>3. Word(w, p, s) = Word(r, p, s)
      BY <1>14, <3>2 DEF Word
    <3>4. directory'[s] = Word(w, p, s)
      BY <1>7, <2>1, <2>2, <3>3
    <3> DEFINE rows == CopiedTo(r, p, s)
    <3>5. rows \subseteq InSlot(s) /\ CellsHold(tuples, s, rows)
      BY <2>1 DEF CopiedTo
    <3> HIDE DEF rows
    <3>6. ASSUME NEW cells, NEW after, cells = tuples, after = tuples'
          PROVE  CellsHold(after, s, rows)
      BY <1>2, <1>17, <2>1, <2>2, <3>5, <3>6, CellsKept
    <3>7. CellsHold(tuples', s, rows)
      BY <3>6
    <3> QED
      BY <3>2, <3>4, <3>7 DEF rows
  <2>3. CASE s = o
    <3>1. X \subseteq InSlot(s) /\ row \in InSlot(s) /\ row \notin X /\ CopiedTo(r, p, s) = X
      BY <1>3, <1>15, <2>3
    <3>2. CopiedTo(w, p, s) = X \union {row}
      BY <1>3, <1>15, <2>3
    <3>3. \A c \in NumBelow(s) .. NumBelow(s + 1) - 1 :
            tuples'[c] = IF c = NumBelow(s) + Cardinality(X) THEN EntryFor(row) ELSE tuples[c]
      BY <1>3, <1>8, <1>16, <2>3
    <3>4. CellsHold(tuples, s, X)
      BY <2>1, <3>1
    <3> HIDE DEF X
    <3>5. ASSUME NEW cells, NEW after, NEW rows, cells = tuples, after = tuples', rows = X
          PROVE  /\ Cardinality(rows \union {row}) = Cardinality(rows) + 1
                 /\ CellsHold(after, s, rows \union {row})
      <4>1. \A c \in NumBelow(s) .. NumBelow(s + 1) - 1 :
              after[c] = IF c = NumBelow(s) + Cardinality(rows) THEN EntryFor(row) ELSE cells[c]
        BY <3>3, <3>5
      <4>2. CellsHold(cells, s, rows) /\ rows \subseteq InSlot(s) /\ row \in InSlot(s) /\ row \notin rows
        BY <3>1, <3>4, <3>5
      <4> QED
        BY <1>2, <2>1, <4>1, <4>2, CellsOneMore
    <3>6. /\ Cardinality(X \union {row}) = Cardinality(X) + 1
          /\ CellsHold(tuples', s, X \union {row})
      BY <3>5
    <3>7. directory'[s] = d
      BY <1>7, <2>1, <2>3
    <3>8. directory[s].tag = TagsOf(InSlot(s) \intersect Home(p))
      <4>1. Word(r, p, s).tag = TagsOf(InSlot(s) \intersect Counted(r, p))
        BY WordSays
      <4>2. Counted(r, p) = Home(p)
        BY <1>14
      <4> QED
        BY <2>1, <4>1, <4>2
    <3>9. Word(w, p, s) = [addr |-> Tuples + NumBelow(s) + Cardinality(X \union {row}),
                           tag |-> TagsOf(InSlot(s) \intersect Home(p))]
      BY <1>14, <3>2 DEF Word
    <3>10. Tuples + NumBelow(s) + Cardinality(X \union {row}) = directory[s].addr + 1
      <4>1. NumBelow(s) \in Nat /\ Cardinality(X) \in Nat
        BY <1>2, <2>1, <3>1, SlotRange
      <4> QED
        BY <1>3, <2>3, <3>6, <4>1, SizesAssumption
    <3>11. directory'[s] = Word(w, p, s)
      BY <2>3, <3>7, <3>8, <3>9, <3>10
    <3> QED
      BY <3>2, <3>6, <3>11
  <2> QED
    BY <2>2, <2>3
<1>19. \A s \in Slots \ SlotsOf(p) :
         /\ directory'[s] = directory[s]
         /\ \A c \in NumBelow(s) .. NumBelow(s + 1) - 1 : tuples'[c] = tuples[c]
  <2>1. \A s \in Slots \ SlotsOf(p) : s # o /\ s \in Nat
    BY <1>3 DEF Slots
  <2> QED
    BY <1>7, <1>17, <2>1
<1>20. TableMatches'
  BY <1>1, <1>10, <1>12, <1>18, <1>19, TableStep
<1>21. StagesMatch'
  BY <1>1, <1>10, <1>11, <1>13, StagesOfStep
<1>22. TableType'
  <2>1. TableType /\ EntryFor(row) \in Entry
    <3>1. row \in Filled
      BY <1>3 DEF Home
    <3> QED
      BY <1>2, <3>1, EntryOfFilled DEF LookupInv
  <2>2. tuples' = [tuples EXCEPT ![g] = EntryFor(row)]
    BY <1>1, <1>3
  <2> HIDE DEF o, d, g
  <2> QED
    BY <1>1, <1>3, <1>5, <1>6, <2>1, <2>2, TypeOfStep
<1> QED
  BY <1>20, <1>21, <1>22

\* The next partition of a stride.
LEMMA NextOfStride ==
  ASSUME NEW a \in Nat, NEW b \in Nat, NEW d \in Nat \ {0}, a % d = b % d, a < b
  PROVE  a + d <= b
<1> DEFINE m == a \div d
           n == b \div d
<1>1. a = d * m + (a % d) /\ b = d * n + (b % d) /\ m \in Nat /\ n \in Nat /\ a % d \in Nat
  <2>1. a = d * m + (a % d) /\ m \in Nat /\ a % d \in 0 .. d - 1
    BY Division
  <2>2. b = d * n + (b % d) /\ n \in Nat
    BY Division
  <2> HIDE DEF m, n
  <2> QED
    BY <2>1, <2>2
<1> HIDE DEF m, n
<1>2. d * m < d * n
  BY <1>1
<1>3. m < n
  <2>1. CASE n <= m
    <3>1. PICK k \in Nat : m = n + k
      BY <1>1, <2>1
    <3>2. d * m = d * n + d * k /\ d * k \in Nat /\ d * n \in Nat
      BY <1>1, <3>1
    <3> QED
      BY <1>2, <3>2
  <2> QED
    BY <1>1, <2>1
<1>4. PICK k \in Nat : n = m + 1 + k
  <2>1. n - m - 1 \in Nat /\ n = m + 1 + (n - m - 1)
    BY <1>1, <1>3
  <2> QED
    BY <2>1
<1>5. d * n = d * m + d + d * k /\ d * k \in Nat /\ d * m \in Nat
  BY <1>1, <1>4
<1> QED
  BY <1>1, <1>5

\* A thread goes on to its next partition.
LEMMA FinishStep ==
  ASSUME LookupInv, NEW t \in Threads, FinishPartition(t)
  PROVE  StagesMatch' /\ TableMatches' /\ TableType'
<1> DEFINE r == post[t]
           p == r.part
           next_p == p + NumThreads
           w == [part |-> next_p, stage |-> "count", src |-> 0, pos |-> 1, cur |-> 0]
<1>1. /\ phase = "post" /\ phase' = "post" /\ t \in running /\ p < NumPartitions
      /\ UNCHANGED <<col, capacity, level3, counts, todo, running, directory, tuples>>
      /\ r.stage = "copy" /\ r.src = NumThreads
      /\ post' = [post EXCEPT ![t] = w]
  BY DEF FinishPartition, NextPartition, InPost, postUnchanged, poolVars, tableVars
<1>2. /\ IInv /\ r \in Places /\ p \in Partitions /\ p \in Nat /\ p % NumThreads = t
      /\ NextMatches /\ ListsExact
  BY <1>1, InsideFacts DEF LookupInv
<1>3. w \in Places
  BY <1>2, SizeFacts DEF Places
<1>4. w.part = next_p /\ w.stage = "count" /\ w.src = 0 /\ w.pos = 1
  OBVIOUS
<1> HIDE DEF w
<1>5. PlaceFits(w)
  BY <1>4 DEF PlaceFits
<1>6. StagesMatch'
  BY <1>1, <1>3, <1>5, StagesOfStep
<1>7. TableType'
  BY <1>1, TypeOfStep DEF LookupInv
<1>8. ASSUME NEW q \in Partitions, q % NumThreads = t, NEW s
      PROVE  Word(w, q, s) = Word(r, q, s) /\ CopiedTo(w, q, s) = CopiedTo(r, q, s)
  <2>1. q \in Nat /\ NumThreads \in Nat \ {0}
    BY SizeFacts
  <2>2. CASE q = p
    <3>1. p < w.part /\ ~(w.part < p)
      BY <1>2, <1>4, <2>1
    <3>2. Counted(w, p) = Home(p) /\ Copied(w, p) = Home(p) /\ Addressed(w, p, s)
      BY <3>1 DEF Counted, Copied, Addressed
    <3>3. Passed(p, r.src, r.pos) = Home(p)
      BY <1>1, <1>2, PassedAll
    <3>4. Counted(r, p) = Home(p) /\ Copied(r, p) = Home(p) /\ Addressed(r, p, s)
      BY <1>1, <1>2, <3>3, PlaceSays
    <3> QED
      BY <2>2, <3>2, <3>4, SameWord
  <2>3. CASE q < p
    <3>1. q < w.part /\ ~(w.part < q) /\ q < r.part /\ ~(r.part < q)
      BY <1>2, <1>4, <2>1, <2>3
    <3>2. /\ Counted(w, q) = Counted(r, q) /\ Copied(w, q) = Copied(r, q)
          /\ Addressed(w, q, s) <=> Addressed(r, q, s)
      BY <3>1 DEF Counted, Copied, Addressed
    <3> QED
      BY <3>2, SameWord
  <2>4. CASE p < q
    <3>1. next_p <= q
      BY <1>2, <1>8, <2>1, <2>4, NextOfStride
    <3>2. r.part < q /\ ~(q < r.part) /\ r.part # q
      BY <1>2, <2>1, <2>4
    <3>3. Counted(r, q) = {} /\ Copied(r, q) = {} /\ ~Addressed(r, q, s)
      BY <3>2 DEF Counted, Copied, Addressed
    <3>4. CASE next_p = q
      <4>1. Passed(q, 0, 1) = {}
        BY <1>2, PassedNone
      <4>2. Counted(w, q) = {} /\ Copied(w, q) = {} /\ ~Addressed(w, q, s)
        BY <1>4, <2>1, <3>4, <4>1, PlaceSays
      <4> QED
        BY <3>3, <4>2, SameWord
    <3>5. CASE next_p < q
      <4>1. w.part < q /\ ~(q < w.part) /\ w.part # q
        BY <1>2, <1>4, <2>1, <3>5
      <4>2. Counted(w, q) = {} /\ Copied(w, q) = {} /\ ~Addressed(w, q, s)
        BY <4>1 DEF Counted, Copied, Addressed
      <4> QED
        BY <3>3, <4>2, SameWord
    <3> QED
      BY <1>2, <2>1, <3>1, <3>4, <3>5
  <2> QED
    BY <1>2, <2>1, <2>2, <2>3, <2>4
<1>9. /\ \A q : SlotsOf(q)' = SlotsOf(q)
      /\ \A x, q, s : Word(x, q, s)' = Word(x, q, s)
      /\ \A x, q, s : CopiedTo(x, q, s)' = CopiedTo(x, q, s)
      /\ \A cells, s, rows : CellsHold(cells, s, rows)' <=> CellsHold(cells, s, rows)
  BY <1>1, ColumnFixed, ListsFixed, CellsFixed
<1>10. \A u \in Threads : post'[u] = IF u = t THEN w ELSE post[u]
  BY <1>1 DEF LookupInv, StagesMatch
<1>11. ASSUME NEW q \in Partitions, NEW s \in SlotsOf(q)
       PROVE  /\ directory'[s] = Word(post'[q % NumThreads], q, s)
              /\ CellsHold(tuples', s, CopiedTo(post'[q % NumThreads], q, s))
  <2>1. q % NumThreads \in Threads
    BY SizeFacts, Division
  <2>2. /\ directory[s] = Word(post[q % NumThreads], q, s)
        /\ CellsHold(tuples, s, CopiedTo(post[q % NumThreads], q, s))
    BY <1>1 DEF LookupInv, TableMatches, PlaceOf
  <2>3. /\ Word(post'[q % NumThreads], q, s) = Word(post[q % NumThreads], q, s)
        /\ CopiedTo(post'[q % NumThreads], q, s) = CopiedTo(post[q % NumThreads], q, s)
    <3>1. CASE q % NumThreads = t
      <4>1. post'[t] = w
        BY <1>10
      <4> QED
        BY <1>8, <3>1, <4>1
    <3>2. CASE q % NumThreads # t
      BY <1>10, <2>1, <3>2
    <3> QED
      BY <3>1, <3>2
  <2> QED
    BY <1>1, <2>2, <2>3
<1>12. TableMatches'
  BY <1>9, <1>11 DEF TableMatches, PlaceOf
<1> QED
  BY <1>6, <1>7, <1>12

-----------------------------------------------------------------------------
(* The other steps                                                         *)

\* Places that stay fit.
LEMMA StagesFixed ==
  ASSUME StagesMatch, UNCHANGED <<col, capacity, post>>,
         phase' \in {"post", "built"} => \A t \in Finished' : post[t].part >= NumPartitions
  PROVE  StagesMatch'
<1>1. \A r : PlaceFits(r)' <=> PlaceFits(r)
  BY ColumnFixed DEF PlaceFits
<1>2. \A t \in Threads : PlaceFits(post[t])'
  BY <1>1 DEF StagesMatch
<1> QED
  BY <1>2 DEF StagesMatch

\* A table nobody touches.
LEMMA TableFixed ==
  ASSUME LookupInv, UNCHANGED <<col, capacity, level3, counts, post, directory, tuples>>,
         phase' \in {"post", "built"} => phase \in {"post", "built"}
  PROVE  TableMatches' /\ TableType'
<1>1. TableType'
  BY TypeOfStep DEF LookupInv
<1>2. /\ \A q : SlotsOf(q)' = SlotsOf(q)
      /\ \A x, q, s : Word(x, q, s)' = Word(x, q, s)
      /\ \A x, q, s : CopiedTo(x, q, s)' = CopiedTo(x, q, s)
      /\ \A cells, s, rows : CellsHold(cells, s, rows)' <=> CellsHold(cells, s, rows)
  BY ColumnFixed, ListsFixed, CellsFixed
<1>3. TableMatches
  BY DEF LookupInv
<1>4. TableMatches'
  BY <1>2, <1>3 DEF TableMatches, PlaceOf
<1> QED
  BY <1>1, <1>4

\* The first task does not touch it.
LEMMA FirstTaskStep ==
  ASSUME LookupInv, UNCHANGED <<col, capacity, post, directory, tuples>>,
         phase' \notin {"post", "built"}
  PROVE  StagesMatch' /\ TableMatches' /\ TableType'
<1>1. StagesMatch'
  BY StagesFixed DEF LookupInv
<1>2. TableType'
  BY TypeOfStep DEF LookupInv
<1>3. TableMatches'
  BY DEF TableMatches
<1> QED
  BY <1>1, <1>2, <1>3

LEMMA RemainderAtMost ==
  ASSUME NEW n \in Nat, NEW d \in Nat \ {0}
  PROVE  n % d <= n
<1> DEFINE m == n \div d
<1>1. n = d * m + (n % d) /\ m \in Nat /\ n % d \in 0 .. d - 1
  BY Division
<1> HIDE DEF m
<1>2. d * m \in Nat
  BY <1>1
<1> QED
  BY <1>1, <1>2

\* When the second task is dispatched every place is at its beginning.
LEMMA DispatchStep ==
  ASSUME LookupInv, DispatchPost
  PROVE  StagesMatch' /\ TableMatches' /\ TableType'
<1>1. /\ phase = "sums" /\ phase' = "post" /\ todo' = Threads
      /\ UNCHANGED <<col, capacity, level3, counts, post, directory, tuples>>
  BY DEF DispatchPost, Pool!Dispatch, Pool!Workers, Threads, tableVars
<1>2. IInv /\ post = InitialPost /\ directory = InitialDirectory /\ tuples = InitialTuples
      /\ capacity > NumRows
  BY <1>1 DEF LookupInv, TableFresh, TableType
<1>3. StagesMatch'
  <2>1. Finished' = {}
    BY <1>1 DEF Finished
  <2> QED
    BY <1>1, <2>1, StagesFixed DEF LookupInv
<1>4. TableType'
  BY <1>1, TypeOfStep DEF LookupInv
<1>5. ASSUME NEW p \in Partitions, NEW s \in SlotsOf(p), NEW r, r = post[p % NumThreads]
      PROVE  directory[s] = Word(r, p, s) /\ CellsHold(tuples, s, CopiedTo(r, p, s))
  <2>1. p \in Nat /\ p % NumThreads \in Threads /\ p % NumThreads <= p
    <3>1. p \in Nat /\ NumThreads \in Nat \ {0}
      BY SizeFacts
    <3>2. p % NumThreads \in 0 .. NumThreads - 1
      BY <3>1, Division
    <3>3. p % NumThreads <= p
      BY <3>1, RemainderAtMost
    <3> QED
      BY <3>1, <3>2, <3>3 DEF Threads
  <2>2. r.part = p % NumThreads /\ r.stage = "count" /\ r.src = 0 /\ r.pos = 1
    BY <1>2, <1>5, <2>1 DEF InitialPost
  <2>3. Counted(r, p) = {} /\ Copied(r, p) = {} /\ ~Addressed(r, p, s)
    <3>1. CASE r.part = p
      <4>1. Passed(p, 0, 1) = {}
        BY <1>2, PassedNone
      <4> QED
        BY <2>1, <2>2, <3>1, <4>1, PlaceSays
    <3>2. CASE r.part # p
      <4>1. r.part < p /\ ~(p < r.part)
        BY <2>1, <2>2, <3>2 DEF Threads
      <4> QED
        BY <3>2, <4>1 DEF Counted, Copied, Addressed
    <3> QED
      BY <3>1, <3>2
  <2>4. CopiedTo(r, p, s) = {} /\ InSlot(s) \intersect Counted(r, p) = {}
    BY <2>3 DEF CopiedTo
  <2>5. Word(r, p, s) = [addr |-> 0, tag |-> {}]
    <3>1. Cardinality({}) = 0 /\ TagsOf({}) = {}
      BY FS_EmptySet DEF TagsOf
    <3> QED
      BY <2>3, <2>4, <3>1 DEF Word
  <2>6. s \in Slots /\ s \in Nat
    BY <1>2, <2>1, SlotsInDirectory
  <2>7. directory[s] = [addr |-> 0, tag |-> {}]
    <3>1. s \in -1 .. capacity - 1 /\ s # -1
      BY <2>6 DEF Slots
    <3>2. InitialDirectory[s] = [addr |-> 0, tag |-> {}]
      BY <3>1 DEF InitialDirectory
    <3> QED
      BY <1>2, <3>2
  <2>8. \A c \in NumBelow(s) .. NumBelow(s + 1) - 1 : tuples[c] = Garbage
    <3>1. \A c \in Slots : tuples[c] = Garbage
      BY <1>2 DEF InitialTuples
    <3>2. {} \subseteq InSlot(s)
      OBVIOUS
    <3>3. /\ NumBelow(s) \in Nat /\ NumBelow(s + 1) \in Nat /\ NumBelow(s + 1) <= NumRows
          /\ NumRows \in Nat /\ capacity \in Nat
      BY <1>2, <2>6, <3>2, SlotRange, RowFacts
    <3>4. \A c \in NumBelow(s) .. NumBelow(s + 1) - 1 : c \in Slots
      BY <1>2, <3>3 DEF Slots
    <3> QED
      BY <3>1, <3>4
  <2>9. CellsHold(tuples, s, {})
    BY <1>2, <2>6, <2>8, CellsOfNone
  <2> QED
    BY <2>4, <2>5, <2>7, <2>9
<1>6. /\ \A q : SlotsOf(q)' = SlotsOf(q)
      /\ \A x, q, s : Word(x, q, s)' = Word(x, q, s)
      /\ \A x, q, s : CopiedTo(x, q, s)' = CopiedTo(x, q, s)
      /\ \A cells, s, rows : CellsHold(cells, s, rows)' <=> CellsHold(cells, s, rows)
  BY <1>1, ColumnFixed, ListsFixed, CellsFixed
<1>7. TableMatches'
  BY <1>1, <1>5, <1>6 DEF TableMatches, PlaceOf
<1> QED
  BY <1>3, <1>4, <1>7

\* When it returns every place is past its last partition.
LEMMA ReturnStep ==
  ASSUME LookupInv, ReturnPost
  PROVE  StagesMatch' /\ TableMatches' /\ TableType'
<1>1. /\ phase = "post" /\ phase' = "built"
      /\ todo = {} /\ running = {} /\ todo' = {} /\ running' = {}
      /\ UNCHANGED <<col, capacity, post, directory, tuples>>
  BY DEF ReturnPost, Pool!Return, tableVars
<1>2. IInv /\ StagesMatch /\ TableMatches
  BY DEF LookupInv
<1>3. \A t \in Threads : post[t].part >= NumPartitions
  <2>1. Finished = Threads
    BY <1>1 DEF Finished
  <2> QED
    BY <1>1, <1>2, <2>1 DEF StagesMatch
<1>4. StagesMatch'
  <2>1. Finished' = Threads
    BY <1>1 DEF Finished
  <2> QED
    BY <1>1, <1>2, <1>3, <2>1, StagesFixed
<1>5. TableType'
  BY <1>1, TypeOfStep DEF LookupInv
<1>6. ASSUME NEW p \in Partitions, NEW s \in SlotsOf(p)
      PROVE  LET r == post[p % NumThreads]
             IN  /\ Word(r, p, s)' = Word(r, p, s)
                 /\ CopiedTo(r, p, s)' = CopiedTo(r, p, s)
  <2> DEFINE r == post[p % NumThreads]
  <2>1. p % NumThreads \in Threads /\ p \in Nat
    BY SizeFacts, Division
  <2>2. r.part >= NumPartitions /\ r.part \in Nat
    BY <1>2, <1>3, <2>1, PlaceFacts
  <2>3. p < r.part /\ ~(r.part < p)
    BY <2>2, SizeFacts
  <2>4. Counted(r, p) = Home(p) /\ Copied(r, p) = Home(p) /\ Addressed(r, p, s)
    BY <2>3 DEF Counted, Copied, Addressed
  <2>5. /\ Home(p)' = Home(p) /\ InSlot(s)' = InSlot(s) /\ NumBelow(s)' = NumBelow(s)
        /\ \A R : TagsOf(R)' = TagsOf(R)
    BY <1>1, ColumnFixed
  <2>6. Counted(r, p)' = Home(p) /\ Copied(r, p)' = Home(p) /\ Addressed(r, p, s)'
    BY <1>1, <2>3, <2>5 DEF Counted, Copied, Addressed
  <2>7. CopiedTo(r, p, s)' = CopiedTo(r, p, s)
    BY <2>4, <2>5, <2>6 DEF CopiedTo
  <2>8. Word(r, p, s)' = Word(r, p, s)
    BY <2>4, <2>5, <2>6, <2>7 DEF Word
  <2> QED
    BY <2>7, <2>8
<1>7. /\ \A q : SlotsOf(q)' = SlotsOf(q)
      /\ \A cells, s, rows : CellsHold(cells, s, rows)' <=> CellsHold(cells, s, rows)
  BY <1>1, ColumnFixed, CellsFixed
<1>8. TableMatches'
  BY <1>1, <1>2, <1>6, <1>7 DEF TableMatches, PlaceOf
<1> QED
  BY <1>4, <1>5, <1>8

\* All of them.
LEMMA TableKeeps ==
  ASSUME LookupInv, [Next]_vars
  PROVE  StagesMatch' /\ TableMatches' /\ TableType'
<1>1. ASSUME NEW t \in Threads, WorkerStep(t)
      PROVE  StagesMatch' /\ TableMatches' /\ TableType'
  <2>1. CASE BeginPartition(t) \/ Insert(t) \/ EndPartition(t)
    <3>1. UNCHANGED <<col, capacity, post, directory, tuples>> /\ phase' \notin {"post", "built"}
      BY <2>1 DEF BeginPartition, Insert, EndPartition, tableVars
    <3> QED
      BY <3>1, FirstTaskStep
  <2>2. CASE BeginPost(t)
    <3>1. /\ UNCHANGED <<col, capacity, level3, counts, post, directory, tuples>>
          /\ phase = "post" /\ phase' = "post"
          /\ t \in todo /\ todo' = todo \ {t} /\ running' = running \union {t}
      BY <2>2 DEF BeginPost, Pool!Begin, tableVars
    <3>2. Finished' \subseteq Finished
      BY <3>1 DEF Finished
    <3>3. StagesMatch'
      BY <3>1, <3>2, StagesFixed DEF LookupInv, StagesMatch
    <3> QED
      BY <3>1, <3>3, TableFixed
  <2>3. CASE EndPost(t)
    <3>1. /\ UNCHANGED <<col, capacity, level3, counts, post, directory, tuples>>
          /\ phase = "post" /\ phase' = "post" /\ post[t].part >= NumPartitions
          /\ todo' = todo /\ running' = running \ {t}
      BY <2>3 DEF EndPost, Pool!End, tableVars
    <3>2. Finished' \subseteq Finished \union {t}
      BY <3>1 DEF Finished
    <3>3. StagesMatch'
      BY <3>1, <3>2, StagesFixed DEF LookupInv, StagesMatch
    <3> QED
      BY <3>1, <3>3, TableFixed
  <2> QED
    BY <1>1, <2>1, <2>2, <2>3, CountStep, SourceStep, StartPrefixStep, PrefixStep, StartCopyStep,
       CopyStep, FinishStep DEF WorkerStep
<1>2. CASE CallerStep
  <2>1. CASE DispatchPartition \/ ReturnPartition
    <3>1. UNCHANGED <<col, capacity, post, directory, tuples>> /\ phase' \notin {"post", "built"}
      BY <2>1 DEF DispatchPartition, ReturnPartition, tableVars
    <3> QED
      BY <3>1, FirstTaskStep
  <2> QED
    BY <1>2, <2>1, DispatchStep, ReturnStep DEF CallerStep
<1>3. CASE Built \/ UNCHANGED vars
  <2>1. UNCHANGED <<todo, running, phase, col, capacity, level3, counts, post, directory, tuples>>
    BY <1>3 DEF Built, vars, poolVars, tableVars
  <2>2. Finished' = Finished
    BY <2>1 DEF Finished
  <2>3. StagesMatch'
    BY <2>1, <2>2, StagesFixed DEF LookupInv, StagesMatch
  <2> QED
    BY <2>1, <2>3, TableFixed
<1> QED
  BY <1>1, <1>2, <1>3 DEF Next

-----------------------------------------------------------------------------
(* The types that are left                                                 *)

\* A list's cells are entries, and so they are with one more.
LEMMA ConsumeCells ==
  ASSUME NEW list \in Lists, NEW count \in Nat, NEW p, ListMatches(list, count, p),
         NEW e \in Entry, e \in Cell,
         \A j \in 1 .. Len(list.chunks), x \in 1 .. EntriesPerChunk :
           list.chunks[j][x] \in MayBeEntry
  PROVE  \A j \in 1 .. Len(Consume(list, e).chunks), x \in 1 .. EntriesPerChunk :
           Consume(list, e).chunks[j][x] \in MayBeEntry
<1> DEFINE E == EntriesPerChunk
           S == [1 .. E -> Cell]
           chunks == list.chunks
           used == list.used
           n == Len(chunks)
           after == Consume(list, e)
<1>1. E \in Nat \ {0} /\ chunks \in Seq(S) /\ n \in Nat /\ used \in 1 .. E
  BY SizeFacts DEF Lists
<1>2. e \in MayBeEntry /\ Garbage \in MayBeEntry
  BY DEF MayBeEntry
<1>3. CASE used = E
  <2> DEFINE c == [FreshChunk EXCEPT ![1] = e]
             full == <<c>> \o chunks
  <2>1. after.chunks = full
    BY <1>3 DEF Consume
  <2>2. c \in S /\ \A x \in 1 .. E : c[x] \in MayBeEntry
    BY <1>1, <1>2 DEF FreshChunk, Garbage, Cell
  <2>3. /\ Len(full) = n + 1
        /\ full[1] = c
        /\ \A j \in 2 .. n + 1 : full[j] = chunks[j - 1]
    <3> HIDE DEF S, c, chunks
    <3> QED
      BY <1>1, <2>2, ChunkInFront
  <2>4. \A j \in 1 .. n, x \in 1 .. E : chunks[j][x] \in MayBeEntry
    OBVIOUS
  <2> HIDE DEF c, full, chunks, n
  <2>5. \A j \in 1 .. n + 1 : j = 1 \/ (j \in 2 .. n + 1 /\ j - 1 \in 1 .. n)
    BY <1>1
  <2>6. \A j \in 1 .. n + 1, x \in 1 .. E : full[j][x] \in MayBeEntry
    BY <2>2, <2>3, <2>4, <2>5
  <2> QED
    BY <2>1, <2>3, <2>6
<1>4. CASE used # E
  <2> DEFINE c == [chunks[1] EXCEPT ![used + 1] = e]
             full == <<c>> \o Tail(chunks)
  <2>1. after.chunks = full
    BY <1>4 DEF Consume
  <2>2. n # 0
    BY <1>4 DEF ListMatches
  <2>3. used + 1 \in 1 .. E /\ 1 \in 1 .. n
    BY <1>1, <1>4, <2>2
  <2>4. chunks[1] \in S /\ \A x \in 1 .. E : chunks[1][x] \in MayBeEntry
    BY <1>1, <2>3
  <2>5. c \in S /\ \A x \in 1 .. E : c[x] = IF x = used + 1 THEN e ELSE chunks[1][x]
    <3> HIDE DEF chunks, used
    <3> QED
      BY <1>2, <2>3, <2>4
  <2>6. \A x \in 1 .. E : c[x] \in MayBeEntry
    <3> HIDE DEF c, chunks, used
    <3> QED
      BY <1>2, <2>4, <2>5
  <2>7. /\ Len(full) = n
        /\ full[1] = c
        /\ \A j \in 2 .. n : full[j] = chunks[j]
    <3> HIDE DEF S, c, chunks
    <3> QED
      BY <1>1, <2>2, <2>5, ChunkReplaced
  <2>8. \A j \in 1 .. n, x \in 1 .. E : chunks[j][x] \in MayBeEntry
    OBVIOUS
  <2> HIDE DEF c, full, chunks, n
  <2>9. \A j \in 1 .. n : j = 1 \/ j \in 2 .. n
    BY <1>1
  <2>10. \A j \in 1 .. n, x \in 1 .. E : full[j][x] \in MayBeEntry
    BY <2>6, <2>7, <2>8, <2>9
  <2> QED
    BY <2>1, <2>7, <2>10
<1> QED
  BY <1>3, <1>4

\* The offsets and the emptied lists, and no list without entries.
LEMMA ListsTypeStep ==
  ASSUME LookupInv, [Next]_vars, OffsetsMatch', IInv'
  PROVE  ListsType'
<1>1. IInv /\ ListsType /\ OffsetsMatch
  BY DEF LookupInv
<1>2. /\ col' = col /\ capacity' = capacity
      /\ MayBeEntry' = MayBeEntry /\ NumRows' = NumRows /\ Filled' = Filled
  BY StepFrame, ColumnFixed DEF MayBeEntry, Entry
<1>3. offsets' \in [Partitions -> 0 .. NumRows]
  <2>1. CASE phase' \in {"post", "built"}
    <3>1. ASSUME NEW p \in Partitions
          PROVE  NumBelow(FirstSlot(p)) \in 0 .. NumRows
      <4>1. p \in Nat
        BY SizeFacts
      <4>2. FirstSlot(p) \in Nat
        BY <1>1, <4>1, SlotsInDirectory
      <4>3. NumBelow(FirstSlot(p)) \in Nat /\ NumBelow(FirstSlot(p)) <= NumRows
        BY <1>1, <4>2, NextCells, CellsInOrder
      <4>4. NumRows \in Nat
        BY <1>1, RowFacts
      <4> QED
        BY <4>3, <4>4
    <3>2. offsets' = [p \in Partitions |-> NumBelow(FirstSlot(p))']
      BY <2>1 DEF OffsetsMatch
    <3>3. \A p \in Partitions : NumBelow(FirstSlot(p))' = NumBelow(FirstSlot(p))
      BY <1>2, ColumnFixed
    <3>4. \A p \in Partitions : NumBelow(FirstSlot(p))' \in 0 .. NumRows
      BY <3>1, <3>3
    <3> QED
      BY <3>2, <3>4
  <2>2. CASE phase' \notin {"post", "built"}
    <3>1. offsets' = offsets
      <4>1. ASSUME NEW t \in Threads, WorkerStep(t)
            PROVE  offsets' = offsets
        BY <4>1 DEF WorkerStep, BeginPartition, Insert, EndPartition, BeginPost, CountEntry,
             NextSource, StartPrefix, PrefixSlot, StartCopy, CopyEntry, FinishPartition, EndPost,
             postUnchanged
      <4> QED
        BY <2>2, <4>1 DEF Next, CallerStep, DispatchPartition, ReturnPartition, DispatchPost,
             ReturnPost, Built, vars
    <3> QED
      BY <1>1, <3>1 DEF ListsType
  <2> QED
    BY <2>1, <2>2
<1>4. CASE UNCHANGED <<level3, counts>> /\ (phase' = "built" => phase = "built")
  BY <1>1, <1>2, <1>3, <1>4 DEF ListsType
<1>5. ASSUME NEW t \in Threads, Insert(t)
      PROVE  ListsType'
  <2> DEFINE row == next[t]
             val == col[row + 1]
             p == Partition(val)
             e == [key |-> val, row |-> row]
  <2>1. phase' = phase /\ phase # "built"
    BY <1>5 DEF Insert
  <2>2. CASE val = Null
    <3>1. UNCHANGED <<level3, counts>>
      BY <1>5, <2>2 DEF Insert
    <3> QED
      BY <1>4, <2>1, <3>1
  <2>3. CASE val # Null
    <3>1. level3' = [level3 EXCEPT ![t][p] = Consume(@, e)]
      BY <1>5, <2>3 DEF Insert
    <3>2. row \in RowSet
      BY <1>1, <1>5, InsertScattered DEF LookupInv
    <3>3. e \in Entry /\ e \in Cell /\ p \in Partitions
      <4>1. row \in Filled
        BY <2>3, <3>2 DEF Filled
      <4>2. val \in Keys /\ p \in Partitions
        BY <1>1, <4>1, RowFacts, SlotOfRow
      <4>3. row \in Int
        BY <3>2 DEF RowSet
      <4> QED
        BY <3>2, <4>2, <4>3 DEF Entry, Cell, RowSet
    <3> DEFINE list == level3[t][p]
    <3>4. list \in Lists /\ counts[t][p] \in Nat /\ ListMatches(list, counts[t][p], p)
      BY <1>1, <3>3 DEF IInv, ListsMatch
    <3>5. \A j \in 1 .. Len(list.chunks), x \in 1 .. EntriesPerChunk : list.chunks[j][x] \in MayBeEntry
      BY <1>1, <3>3 DEF ListsType
    <3>6. \A u \in Threads, q \in Partitions :
            level3'[u][q] = IF u = t /\ q = p THEN Consume(list, e) ELSE level3[u][q]
      <4>1. level3 \in [Threads -> [Partitions -> Lists]]
        BY <1>1 DEF IInv, ListsMatch
      <4> HIDE DEF e, p
      <4> QED
        BY <3>1, <3>3, <4>1
    <3> HIDE DEF list, e, p
    <3>7. \A j \in 1 .. Len(Consume(list, e).chunks), x \in 1 .. EntriesPerChunk :
            Consume(list, e).chunks[j][x] \in MayBeEntry
      BY <3>3, <3>4, <3>5, ConsumeCells
    <3>8. \A u \in Threads, q \in Partitions :
            \A j \in 1 .. Len(level3'[u][q].chunks), x \in 1 .. EntriesPerChunk :
              level3'[u][q].chunks[j][x] \in MayBeEntry
      <4> TAKE u \in Threads, q \in Partitions
      <4>1. CASE u = t /\ q = p
        BY <3>6, <3>7, <4>1
      <4>2. CASE ~(u = t /\ q = p)
        <5>1. level3'[u][q] = level3[u][q]
          BY <3>6, <4>2
        <5> QED
          BY <1>1, <5>1 DEF ListsType
      <4> QED
        BY <4>1, <4>2
    <3> QED
      BY <1>2, <1>3, <2>1, <3>8 DEF ListsType
  <2> QED
    BY <2>2, <2>3
<1>6. CASE ReturnPost
  <2>1. /\ \A t \in Threads, p \in Partitions : level3'[t][p].chunks = <<>>
        /\ \A t \in Threads, p \in Partitions : counts'[t][p] = 0
    BY <1>6 DEF ReturnPost
  <2>2. \A t \in Threads, p \in Partitions : \A j \in 1 .. Len(level3'[t][p].chunks) : FALSE
    BY <2>1
  <2> QED
    BY <1>2, <1>3, <2>1, <2>2 DEF ListsType
<1>7. ASSUME NEW t \in Threads, WorkerStep(t), ~Insert(t)
      PROVE  UNCHANGED <<level3, counts>> /\ (phase' = "built" => phase = "built")
  BY <1>7 DEF WorkerStep, BeginPartition, EndPartition, BeginPost, CountEntry, NextSource,
       StartPrefix, PrefixSlot, StartCopy, CopyEntry, FinishPartition, EndPost, postUnchanged
<1>8. CASE CallerStep /\ ~ReturnPost
  <2>1. UNCHANGED <<level3, counts>> /\ (phase' = "built" => phase = "built")
    BY <1>8 DEF CallerStep, DispatchPartition, ReturnPartition, DispatchPost
  <2> QED
    BY <1>4, <2>1
<1>9. CASE Built \/ UNCHANGED vars
  <2>1. UNCHANGED <<level3, counts>> /\ (phase' = "built" => phase = "built")
    BY <1>9 DEF Built, vars
  <2> QED
    BY <1>4, <2>1
<1> QED
  BY <1>4, <1>5, <1>6, <1>7, <1>8, <1>9 DEF Next

-----------------------------------------------------------------------------
(* The invariant                                                           *)

LEMMA InitLookupInv == Init => LookupInv
<1> SUFFICES ASSUME Init
             PROVE  LookupInv
  OBVIOUS
<1>1. /\ IInv /\ PoolMatches /\ NextMatches /\ ListsExact /\ TableFresh /\ OffsetsMatch
  BY InitInvariant, InitPool, InitListsExact, InitFresh
<1>2. phase = "new"
  BY DEF Init
<1>3. TableMatches
  BY <1>2 DEF TableMatches
<1>4. post = InitialPost /\ directory = InitialDirectory /\ tuples = InitialTuples
  BY <1>1, <1>2 DEF TableFresh
<1>5. NumThreads \in Nat \ {0} /\ Threads \subseteq Nat
  BY SizeFacts
<1>6. StagesMatch
  <2>1. post \in [Threads -> Places]
    BY <1>4, <1>5 DEF InitialPost, Places
  <2>2. \A t \in Threads : post[t].stage = "count"
    BY <1>4 DEF InitialPost
  <2> QED
    BY <1>2, <2>1, <2>2 DEF StagesMatch, PlaceFits
<1>7. TableType
  <2>1. capacity > NumRows
    BY DEF Init, NumRows
  <2>2. capacity \in Nat \ {0}
    BY <1>1, RowFacts
  <2>3. directory \in [-1 .. capacity - 1 -> DirectoryWords]
    BY <1>4, SizesAssumption DEF InitialDirectory, DirectoryWords
  <2>4. directory[-1].addr = Tuples
    BY <1>4, <2>2 DEF InitialDirectory
  <2>5. tuples \in [Slots -> MayBeEntry]
    BY <1>4 DEF InitialTuples, MayBeEntry
  <2> QED
    BY <2>1, <2>3, <2>4, <2>5 DEF TableType
<1>8. ListsType
  <2>1. \A t \in Threads, p \in Partitions : level3[t][p].chunks = <<>>
    BY DEF Init
  <2>2. \A t \in Threads, p \in Partitions : \A j \in 1 .. Len(level3[t][p].chunks) : FALSE
    BY <2>1
  <2>3. offsets \in [Partitions -> 0 .. NumRows]
    <3>1. offsets = [p \in Partitions |-> 0]
      BY DEF Init
    <3>2. 0 \in 0 .. NumRows
      BY <1>1, RowFacts
    <3> QED
      BY <3>1, <3>2
  <2> QED
    BY <1>2, <2>2, <2>3 DEF ListsType
<1> QED
  BY <1>1, <1>3, <1>6, <1>7, <1>8 DEF LookupInv

LEMMA StepLookupInv == LookupInv /\ [Next]_vars => LookupInv'
<1> SUFFICES ASSUME LookupInv, [Next]_vars
             PROVE  LookupInv'
  OBVIOUS
<1>1. IInv /\ PoolMatches /\ NextMatches /\ ListsExact /\ TableFresh /\ OffsetsMatch
  BY DEF LookupInv
<1>2. IInv'
  BY <1>1, StepInvariant
<1>3. PoolMatches'
  BY <1>1, PoolStep
<1>4. NextMatches'
  BY <1>1, NextStep
<1>5. ListsExact'
  BY <1>1, ListsStep
<1>6. TableFresh'
  BY <1>1, FreshStep
<1>7. OffsetsMatch'
  BY <1>1, OffsetsStep
<1>8. StagesMatch' /\ TableMatches' /\ TableType'
  BY TableKeeps
<1>9. ListsType'
  BY <1>2, <1>7, ListsTypeStep
<1> QED
  BY <1>2, <1>3, <1>4, <1>5, <1>6, <1>7, <1>8, <1>9 DEF LookupInv

-----------------------------------------------------------------------------
(* What the invariant implies                                              *)

LEMMA InvariantTypes == LookupInv => TypeOK
<1> SUFFICES ASSUME LookupInv
             PROVE  TypeOK
  OBVIOUS
<1>1. IInv /\ PoolMatches /\ NextMatches /\ ListsExact /\ StagesMatch /\ TableType /\ ListsType
  BY DEF LookupInv
<1>2. Pool!TypeOK
  <2>1. Threads = Pool!Workers
    BY DEF Threads, Pool!Workers
  <2>2. calls \in 0 .. MaxDispatches
    BY <1>1 DEF PoolMatches, MaxDispatches
  <2> QED
    BY <1>1, <2>1, <2>2 DEF Pool!TypeOK, PoolMatches
<1>3. /\ col \in Columns /\ capacity \in Capacities /\ capacity > NumRows
      /\ phase \in {"new", "partition", "sums", "post", "built"}
      /\ next \in [Threads -> Nat]
  BY <1>1 DEF IInv, ColumnMatches, PoolMatches, TableType
<1>4. ASSUME NEW t \in Threads, NEW p \in Partitions
      PROVE  /\ level3[t][p].used \in 0 .. EntriesPerChunk
             /\ level3[t][p].chunks \in Seq([1 .. EntriesPerChunk -> MayBeEntry])
             /\ counts[t][p] \in 0 .. NumRows
  <2> DEFINE chunks == level3[t][p].chunks
  <2>1. level3[t][p] \in Lists /\ counts[t][p] \in Nat
    BY <1>1 DEF IInv, ListsMatch
  <2>2. level3[t][p].used \in 0 .. EntriesPerChunk
    BY <2>1, SizeFacts DEF Lists
  <2>3. chunks \in Seq([1 .. EntriesPerChunk -> Cell])
    BY <2>1 DEF Lists
  <2>4. \A j \in 1 .. Len(chunks) : chunks[j] \in [1 .. EntriesPerChunk -> MayBeEntry]
    <3>1. \A j \in 1 .. Len(chunks) : chunks[j] \in [1 .. EntriesPerChunk -> Cell]
      BY <2>3
    <3>2. \A j \in 1 .. Len(chunks), x \in 1 .. EntriesPerChunk : chunks[j][x] \in MayBeEntry
      BY <1>1 DEF ListsType
    <3> HIDE DEF chunks
    <3> QED
      BY <3>1, <3>2
  <2>5. chunks \in Seq([1 .. EntriesPerChunk -> MayBeEntry])
    <3> HIDE DEF chunks
    <3> DEFINE S == [1 .. EntriesPerChunk -> MayBeEntry]
               R == [1 .. EntriesPerChunk -> Cell]
    <3>1. chunks \in Seq(R) /\ \A j \in 1 .. Len(chunks) : chunks[j] \in S
      BY <2>3, <2>4
    <3> HIDE DEF S, R
    <3>2. chunks \in Seq(S)
      BY <3>1
    <3> QED
      BY <3>2 DEF S
  <2>6. counts[t][p] \in 0 .. NumRows
    <3>1. NumRows \in Nat
      BY <1>1, RowFacts
    <3>2. CASE phase = "built"
      <4>1. counts[t][p] = 0
        BY <1>1, <3>2 DEF ListsType
      <4> QED
        BY <3>1, <4>1
    <3>3. CASE phase # "built"
      <4> DEFINE rows == Scattered(t, p)
      <4>1. rows \subseteq Filled
        BY DEF Scattered, Home
      <4>2. PassesOn(level3[t][p], counts[t][p], EntriesOf(rows))
        BY <1>1, <3>3 DEF ListsExact
      <4> HIDE DEF rows
      <4>3. Cardinality(rows) = counts[t][p]
        BY <1>1, <2>1, <4>1, <4>2, RowsOfList
      <4>4. Cardinality(rows) <= NumRows
        BY <1>1, <4>1, RowsFinite
      <4> QED
        BY <2>1, <3>1, <4>3, <4>4
    <3> QED
      BY <3>2, <3>3
  <2> QED
    BY <2>2, <2>5, <2>6
<1>5. /\ offsets \in [Partitions -> 0 .. NumRows]
      /\ post \in [Threads -> Places]
      /\ directory \in [-1 .. capacity - 1 -> DirectoryWords]
      /\ tuples \in [Slots -> MayBeEntry]
  BY <1>1 DEF StagesMatch, TableType, ListsType
<1> QED
  BY <1>2, <1>3, <1>4, <1>5 DEF TypeOK, Places, DirectoryWords

\* A slot of the built table: its address is where the next slot's cells
\* begin, and its cells hold its rows.
LEMMA BuiltSlot ==
  ASSUME LookupInv, phase = "built", NEW s \in Slots
  PROVE  /\ directory[s].addr = Tuples + NumBelow(s + 1)
         /\ directory[s].tag = TagsOf(InSlot(s))
         /\ CellsHold(tuples, s, InSlot(s))
<1>1. IInv /\ StagesMatch /\ TableMatches /\ PoolMatches
  BY DEF LookupInv
<1>2. PICK p \in Partitions : s \in SlotsOf(p)
  BY <1>1, SlotHasPartition
<1> DEFINE r == post[p % NumThreads]
<1>3. p \in Nat /\ p % NumThreads \in Threads
  BY SizeFacts, Division
<1>4. p < r.part /\ ~(r.part < p)
  <2>1. Finished = Threads
    BY <1>1 DEF PoolMatches, Finished
  <2>2. r.part >= NumPartitions
    BY <1>1, <1>3, <2>1 DEF StagesMatch
  <2>3. r.part \in Nat
    BY <1>1, <1>3, PlaceFacts
  <2> QED
    BY <2>2, <2>3, SizeFacts
<1>5. Counted(r, p) = Home(p) /\ Copied(r, p) = Home(p) /\ Addressed(r, p, s)
  BY <1>4 DEF Counted, Copied, Addressed
<1>6. InSlot(s) \intersect Home(p) = InSlot(s)
  BY <1>1, <1>2, <1>3, SlotAtHome
<1>7. directory[s] = Word(r, p, s) /\ CellsHold(tuples, s, CopiedTo(r, p, s))
  BY <1>1, <1>2 DEF TableMatches, PlaceOf
<1>8. CopiedTo(r, p, s) = InSlot(s)
  BY <1>5, <1>6 DEF CopiedTo
<1>9. Word(r, p, s) = [addr |-> Tuples + NumBelow(s) + Cardinality(InSlot(s)), tag |-> TagsOf(InSlot(s))]
  BY <1>5, <1>6, <1>8 DEF Word
<1>10. Tuples + NumBelow(s) + Cardinality(InSlot(s)) = Tuples + NumBelow(s + 1)
  <2>1. s \in Nat
    BY DEF Slots
  <2> QED
    BY <1>1, <2>1, NextCells, SizesAssumption
<1> HIDE DEF r
<1> QED
  BY <1>7, <1>8, <1>9, <1>10

LEMMA InvariantLookup == LookupInv => LookupExact
<1> SUFFICES ASSUME LookupInv, phase = "built", NEW k \in Keys
             PROVE  /\ Lookup(k) \subseteq Slots
                    /\ \A c \in Lookup(k) : tuples[c] \in Entry
                                            /\ col[tuples[c].row + 1] = tuples[c].key
                    /\ \A r \in Rows(k) : Cardinality({c \in Lookup(k) : tuples[c].row = r}) = 1
  BY DEF LookupExact
<1> DEFINE s == Slot(k)
           range == NumBelow(s) .. NumBelow(s + 1) - 1
<1>1. IInv /\ TableType
  BY DEF LookupInv
<1>2. s \in Slots /\ s \in Nat
  <2>1. Partition(k) \in Partitions /\ Partition(k) \in Nat
    BY <1>1, PartitionType, SizeFacts DEF IInv, ColumnMatches
  <2>2. s \in SlotsOf(Partition(k))
    BY <1>1, <2>1, SlotInPartition DEF IInv, ColumnMatches, SlotsOf
  <2> QED
    BY <1>1, <2>1, <2>2, SlotsInDirectory
<1> HIDE DEF s
<1>3. /\ directory[s].addr = Tuples + NumBelow(s + 1)
      /\ directory[s].tag = TagsOf(InSlot(s))
      /\ CellsHold(tuples, s, InSlot(s))
  BY <1>2, BuiltSlot
<1>4. directory[s - 1].addr = Tuples + NumBelow(s)
  <2>1. CASE s = 0
    <3>1. NumBelow(0) = 0 /\ directory[-1].addr = Tuples
      BY <1>1, FirstCell DEF TableType
    <3>2. s - 1 = -1 /\ Tuples + 0 = Tuples
      BY <2>1, SizesAssumption
    <3> QED
      BY <2>1, <3>1, <3>2
  <2>2. CASE s # 0
    <3>1. s - 1 \in Slots
      BY <1>1, <1>2, <2>2, RowFacts DEF Slots
    <3>2. directory[s - 1].addr = Tuples + NumBelow(s - 1 + 1)
      BY <3>1, BuiltSlot
    <3>3. s - 1 + 1 = s
      BY <1>2
    <3> QED
      BY <3>2, <3>3
  <2> QED
    BY <2>1, <2>2
<1>5. /\ NumBelow(s) \in Nat /\ NumBelow(s + 1) \in Nat
      /\ NumBelow(s + 1) = NumBelow(s) + Cardinality(InSlot(s)) /\ NumBelow(s + 1) <= NumRows
  BY <1>1, <1>2, NextCells, CellsInOrder
<1>6. Lookup(k) = IF Tag[k] \subseteq TagsOf(InSlot(s)) THEN range ELSE {}
  <2>1. /\ directory[s - 1].addr - Tuples = NumBelow(s)
        /\ directory[s].addr - Tuples - 1 = NumBelow(s + 1) - 1
    BY <1>3, <1>4, <1>5, SizesAssumption
  <2> QED
    BY <1>3, <2>1 DEF Lookup, CouldContain, s
<1>7. Lookup(k) \subseteq Slots
  <2>1. NumRows \in Nat /\ capacity \in Nat /\ capacity > NumRows
    BY <1>1, RowFacts DEF TableType
  <2>2. range \subseteq Slots
    BY <1>5, <2>1 DEF Slots
  <2> QED
    BY <1>6, <2>2
<1>8. /\ \A c \in range : tuples[c] \in EntriesOf(InSlot(s))
      /\ \A r \in InSlot(s) : \E c \in range : tuples[c] = EntryFor(r)
      /\ \A c, d \in range : tuples[c] = tuples[d] => c = d
  BY <1>3, <1>5 DEF CellsHold, Holds
<1> HIDE DEF range
<1>9. ASSUME NEW c \in Lookup(k)
      PROVE  c \in range /\ \E r \in InSlot(s) : r \in Filled /\ tuples[c] = EntryFor(r)
  <2>1. c \in range
    BY <1>6
  <2> QED
    BY <1>8, <2>1 DEF EntriesOf, InSlot
<1>10. ASSUME NEW c \in Lookup(k)
       PROVE  tuples[c] \in Entry /\ col[tuples[c].row + 1] = tuples[c].key
  <2>1. PICK r \in Filled : tuples[c] = EntryFor(r)
    BY <1>9
  <2> QED
    BY <1>1, <2>1, EntryOfFilled, EntryOfRow
<1>11. ASSUME NEW r \in Rows(k)
       PROVE  Cardinality({c \in Lookup(k) : tuples[c].row = r}) = 1
  <2>1. r \in RowSet /\ col[r + 1] = k /\ k # Null
    BY ColumnsAssumption DEF Rows, RowSet
  <2>2. r \in InSlot(s)
    BY <2>1 DEF InSlot, Filled, s
  <2>3. Lookup(k) = range
    <3>1. Tag[k] \subseteq TagsOf(InSlot(s))
      BY <2>1, <2>2 DEF TagsOf
    <3> QED
      BY <1>6, <3>1
  <2>4. PICK c \in range : tuples[c] = EntryFor(r)
    BY <1>8, <2>2
  <2>5. tuples[c].row = r
    BY <2>4, EntryOfRow
  <2>6. \A d \in Lookup(k) : tuples[d].row = r => d = c
    <3> SUFFICES ASSUME NEW d \in Lookup(k), tuples[d].row = r
                 PROVE  d = c
      OBVIOUS
    <3>1. PICK x \in Filled : tuples[d] = EntryFor(x)
      BY <1>9
    <3>2. x = r
      BY <3>1, EntryOfRow
    <3> QED
      BY <1>8, <1>9, <2>4, <3>1, <3>2
  <2>7. {d \in Lookup(k) : tuples[d].row = r} = {c}
    BY <2>3, <2>5, <2>6
  <2> QED
    BY <2>7, FS_Singleton
<1> QED
  BY <1>7, <1>10, <1>11

LEMMA InvariantTargets == LookupInv => CopyTargetFree
<1> SUFFICES ASSUME LookupInv, NEW t \in Threads, InPost(t, "copy"), HasEntry(t)
             PROVE  /\ Target(t) \in Slots
                    /\ Target(t) \in offsets[post[t].part] ..
                                       offsets[post[t].part] + CountTotal(post[t].part) - 1
                    /\ tuples[Target(t)] = Garbage
  BY DEF CopyTargetFree
<1> DEFINE r == post[t]
           p == r.part
           o == Slot(EntryAt(t).key)
           g == Target(t)
           P == Passed(p, r.src, r.pos)
           X == InSlot(o) \intersect P
<1>1. phase = "post" /\ t \in running /\ p < NumPartitions /\ r.stage = "copy"
  BY DEF InPost
<1>2. /\ IInv /\ NextMatches /\ ListsExact /\ OffsetsMatch
      /\ p \in Partitions /\ p \in Nat
  BY <1>1, InsideFacts DEF LookupInv
<1>3. /\ o \in SlotsOf(p) /\ o \in Slots /\ o \in Nat
      /\ g = NumBelow(o) + Cardinality(X)
      /\ g \in Nat
      /\ NumBelow(o) <= g /\ g < NumBelow(o + 1)
      /\ g \in Slots
  BY TargetFacts
<1>4. g \in offsets[p] .. offsets[p] + CountTotal(p) - 1
  <2> DEFINE first == FirstSlot(p)
             last == EndSlot(p)
  <2>1. /\ first \in Nat /\ last \in Nat /\ first <= o /\ o + 1 <= last /\ o + 1 \in Nat
    BY <1>2, <1>3, SlotBounds
  <2>2. /\ NumBelow(first) \in Nat /\ NumBelow(last) \in Nat
        /\ NumBelow(o) \in Nat /\ NumBelow(o + 1) \in Nat
    BY <1>2, <1>3, <2>1, NextCells
  <2>3. NumBelow(first) <= NumBelow(o) /\ NumBelow(o + 1) <= NumBelow(last)
    BY <1>2, <1>3, <2>1, CellsInOrder
  <2>4. offsets[p] = NumBelow(first)
    BY <1>1, <1>2 DEF OffsetsMatch
  <2>5. CountTotal(p) = Cardinality(Home(p))
    BY <1>1, <1>2, TotalOfPartition
  <2>6. NumBelow(last) = NumBelow(first) + Cardinality(Home(p))
    <3> DEFINE A == Below(first)
               B == Home(p)
    <3>1. Below(last) = A \union B /\ A \intersect B = {}
      BY <1>2, RowsBefore
    <3>2. A \subseteq Filled /\ B \subseteq Filled
      BY DEF Below, Home
    <3> HIDE DEF A, B
    <3>3. Cardinality(A \union B) = Cardinality(A) + Cardinality(B)
      BY <1>2, <3>1, <3>2, RowsApart
    <3> QED
      BY <3>1, <3>3 DEF NumBelow, A, B
  <2>7. Cardinality(Home(p)) \in Nat
    BY <1>2, RowsFinite DEF Home
  <2> HIDE DEF first, last, g, o, p
  <2> QED
    BY <1>3, <2>2, <2>3, <2>4, <2>5, <2>6, <2>7
<1>5. tuples[g] = Garbage
  <2>1. CellsHold(tuples, o, CopiedTo(r, p, o))
    BY <1>1, <1>3, InsideFacts
  <2>2. CopiedTo(r, p, o) = X
    BY <1>1, <1>2, PlaceSays DEF CopiedTo
  <2>3. \A c \in NumBelow(o) + Cardinality(X) .. NumBelow(o + 1) - 1 : tuples[c] = Garbage
    BY <2>1, <2>2 DEF CellsHold, Holds
  <2>4. g \in g .. NumBelow(o + 1) - 1
    <3>1. NumBelow(o + 1) \in Nat
      <4>1. o + 1 \in Nat
        BY <1>3
      <4> QED
        BY <1>2, <4>1, NextCells
    <3> HIDE DEF g, o
    <3> QED
      BY <1>3, <3>1
  <2> HIDE DEF g, o, X
  <2> QED
    BY <1>3, <2>3, <2>4
<1> QED
  BY <1>3, <1>4, <1>5

\* The invariant holds in every state.
LEMMA LookupInvHolds == Spec => []LookupInv
BY InitLookupInv, StepLookupInv, PTL DEF Spec

\* The pool, the chunk lists, the places and the table keep their types: no
\* list counts more entries than the column has rows, and no word of the
\* directory has an address below the tuple storage's units.
THEOREM TypeCorrect == Spec => []TypeOK
BY LookupInvHolds, InvariantTypes, PTL

\* In the copy pass (unchained_ht.h, postProcessBuild) every entry goes to a
\* cell of its own partition that no copy of any thread has filled before.
THEOREM CopiesLandFree == Spec => []CopyTargetFree
BY LookupInvHolds, InvariantTargets, PTL

\* Once build_parallel has returned, the range lookup returns for a key holds
\* each row of that key in one cell and nothing the build did not write.
THEOREM LookupsExact == Spec => []LookupExact
BY LookupInvHolds, InvariantLookup, PTL

=============================================================================
