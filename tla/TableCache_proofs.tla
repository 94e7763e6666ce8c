-------------------------- MODULE TableCache_proofs --------------------------
(***************************************************************************)
(* Pages have one owner and tables are what they were made of, whatever    *)
(* queries and files there are and whenever processes are killed.          *)
(*                                                                         *)
(* The inductive invariant, Inv, says of the memory that the columns that  *)
(* are alive own its pages and hold its mappings (Ownership), that         *)
(* from_cache has given the columns it has mapped their parts of the file  *)
(* (MapProgress), and that the tables read as their files (Exactness); of  *)
(* the files, that each is the start of what DumpTable makes of its table, *)
(* whole unless it is torn or being written (Disk), and that a builder     *)
(* leaves none out (Progress); and which step of a process needs what      *)
(* (Control).                                                              *)
(*                                                                         *)
(* What the code's loops over pages and columns do is said once for each:  *)
(* a table of new pages (TableMade), a column that goes (ColumnGone), one  *)
(* more that holds a mapping (HolderOwned), and columns that get another   *)
(* place (TableMoved).  Each is then used wherever a step does it.         *)
(***************************************************************************)
EXTENDS TableCache, Counting

-----------------------------------------------------------------------------
(* The inductive invariant *)

ColumnType == [mapped : Nat, pages : Seq(Nat)]
TableType == [file : Files, columns : Seq(ColumnType)]

\* The addresses in use are finitely many, so a fresh one can be found.
MemOK(m) ==
  /\ m = [heap |-> m.heap, maps |-> m.maps]
  /\ m.heap = [p \in DOMAIN m.heap |-> m.heap[p]]
  /\ IsFiniteSet(DOMAIN m.heap)
  /\ m.maps = [a \in DOMAIN m.maps |-> m.maps[a]]
  /\ IsFiniteSet(DOMAIN m.maps)
  /\ \A a \in DOMAIN m.maps :
       m.maps[a] = [blocks |-> m.maps[a].blocks, refs |-> m.maps[a].refs]

Shape ==
  /\ MemOK(mem)
  /\ local \in Seq(ColumnType)
  /\ results \in Seq(ColumnType)
  /\ inputs \in Seq(TableType)
  /\ forever \in Seq(TableType)
  /\ \A i \in DOMAIN forever : \A j \in DOMAIN forever[i].columns :
       forever[i].columns[j].mapped = NoMemory
  /\ pc \in {"open", "dump"} => \A i \in DOMAIN local : local[i].mapped = NoMemory

\* Which step a process of each kind can be at, and what is there then.
Control ==
  /\ kind \in {"none", "build", "cache", "csv"}
  /\ pc \in {"none", "load", "open", "dump", "map", "loaded", "executed", "end", "unwind"}
  /\ kind = "none" <=> pc = "none"
  /\ kind = "none" => Idle
  /\ at \in [query : 1 .. Len(Queries), scan : Nat \ {0}]
  /\ at.scan <= Len(query.scans) + 1
  /\ pc \in {"open", "dump"} => kind = "build"
  /\ pc \in {"map", "executed", "unwind"} => kind = "cache"
  /\ pc = "loaded" /\ ~scanning => kind = "cache"
  /\ pc \in {"executed", "end"} => ~scanning
  /\ pc \in {"load", "executed"} => local = <<>>
  /\ pc = "load" \/ (scanning /\ ~ending) => results = <<>>
  /\ kind = "cache" => forever = <<>>
  /\ pc # "map" => data = NoData

\* Columns that share no pages and have all there are: the named columns L
\* own the pages of m, and hold its mappings.
Unmapped(L) == {c \in L : c.column.mapped = NoMemory}
Holding(L, a) == {c \in L : c.column.mapped = a}
Once(pages) == \A i, j \in DOMAIN pages : pages[i] = pages[j] => i = j
Owned(L, m) ==
  /\ IsFiniteSet(L)
  /\ \A c \in Unmapped(L) : Once(c.column.pages) /\ Range(c.column.pages) \subseteq DOMAIN m.heap
  /\ \A c, d \in Unmapped(L) : c # d => Range(c.column.pages) \cap Range(d.column.pages) = {}
  /\ \A p \in DOMAIN m.heap : \E c \in Unmapped(L) : p \in Range(c.column.pages)
  /\ \A c \in L : c.column.mapped \in DOMAIN m.maps \cup {NoMemory}
  /\ NoMemory \notin DOMAIN m.maps
  /\ \A a \in DOMAIN m.maps : m.maps[a].refs = Cardinality(Holding(L, a))

Ownership ==
  /\ Owned(live, mem)
  /\ \A a \in DOMAIN mem.maps : mem.maps[a].refs = 0 => pc = "map" /\ local = <<>> /\ a = data.map

\* What DumpTable makes of a table, and what is there of it.
FileOf(f) == <<[numPages |-> NumPages[f]]>> \o FlattenSeq(Truth(f))
PartOf(blocks, f) ==
  \E k \in 0 .. Len(FileOf(f)) : blocks = [j \in 1 .. k |-> FileOf(f)[j]]

\* The files that a query needs.
Needs(q) == Range(q.scans) \cup {q.name}

Disk ==
  /\ files = [f \in DOMAIN files |-> files[f]]
  /\ DOMAIN files \subseteq Files
  /\ \A f \in DOMAIN files : PartOf(files[f], f)
  /\ \A f \in DOMAIN files \ torn : files[f] = FileOf(f) \/ (pc = "dump" /\ f = file)
  /\ torn \subseteq DOMAIN files
  /\ pc = "dump" => file \in DOMAIN files
  /\ built => \A q \in DOMAIN Queries : Needs(Queries[q]) \subseteq DOMAIN files

\* A builder has dealt with all the files before the one it is at.
Progress ==
  kind = "build" =>
    /\ \A q \in 1 .. at.query - 1 : Needs(Queries[q]) \subseteq DOMAIN files
    /\ \A i \in 1 .. at.scan - 1 : query.scans[i] \in DOMAIN files
    /\ pc \in {"loaded", "end"} => file \in DOMAIN files

\* Where the columns of a table start in its file, less the header.
StartOf(f) ==
  CHOOSE start :
    /\ Starts(start, Truth(f))
    /\ Len(FlattenSeq(Truth(f))) = start[Len(Truth(f))]
    /\ \A i \in 1 .. Len(Truth(f)) : \A j \in 1 .. Len(Truth(f)[i]) :
         FlattenSeq(Truth(f))[start[i - 1] + j] = Truth(f)[i][j]

\* from_cache has come so far: data is behind the last column's pages.
MapProgress ==
  pc = "map" =>
    /\ data.map \in Nat /\ data.map \in DOMAIN mem.maps
    /\ file \in DOMAIN files /\ files[file] # <<>>
    /\ mem.maps[data.map].blocks = files[file]
    /\ Len(local) <= Len(NumPages[file])
    /\ data = [map |-> data.map, block |-> 2 + StartOf(file)[Len(local)]]
    /\ \A i \in DOMAIN local :
         local[i] = [mapped |-> data.map,
                     pages |-> [j \in 1 .. NumPages[file][i] |-> 2 + StartOf(file)[i - 1] + j - 1]]

Exact(t) == ReadAll(mem, t.columns) = Truth(t.file)
Exactness ==
  /\ \A t \in Range(forever) : Exact(t)
  /\ pc \in {"open", "dump"} => ReadAll(mem, local) = Truth(file)
  /\ CacheExact

Inv ==
  /\ Shape /\ Control /\ Ownership /\ Disk /\ Progress /\ MapProgress /\ Exactness
-----------------------------------------------------------------------------
(* Addresses *)

\* One of the first n + 1 numbers is not among n.
LEMMA FreshAddress ==
  ASSUME NEW used, IsFiniteSet(used)
  PROVE  Fresh(used) \in Nat \ {0} /\ Fresh(used) \notin used
<1> DEFINE c == Cardinality(used)
           D == 1 .. c + 1
<1>1. c \in Nat
  BY FS_CardinalityType
<1>2. IsFiniteSet(D) /\ Cardinality(D) = c + 1
  <2> DEFINE b == c + 1
  <2>1. b \in Nat /\ b \in Int /\ 1 \in Int /\ ~(1 > b) /\ b - 1 + 1 = b
    BY <1>1
  <2> HIDE DEF b
  <2>2. IsFiniteSet(1 .. b) /\ Cardinality(1 .. b) = IF 1 > b THEN 0 ELSE b - 1 + 1
    BY <2>1, FS_Interval
  <2>3. IsFiniteSet(1 .. b) /\ Cardinality(1 .. b) = b
    BY <2>1, <2>2
  <2> QED
    BY <2>3 DEF b
<1>3. \E n \in D : n \notin used
  <2> SUFFICES ASSUME D \subseteq used
               PROVE  FALSE
    OBVIOUS
  <2>1. Cardinality(D) <= Cardinality(used)
    BY FS_Subset
  <2> HIDE DEF D
  <2> QED
    BY <1>1, <1>2, <2>1 DEF c
<1>4. Fresh(used) \in D /\ Fresh(used) \notin used
  BY <1>3 DEF Fresh
<1> QED
  BY <1>1, <1>4

\* Taking away nothing.
LEMMA WithoutNothing ==
  ASSUME NEW f, f = [x \in DOMAIN f |-> f[x]]
  PROVE  Without(f, {}) = f
BY DEF Without

\* A column that has been moved from has nothing to free.
LEMMA MovedFromGone ==
  ASSUME NEW m, MemOK(m), NEW c \in ColumnType
  PROVE  Destroy(m, MovedFrom(c)) = m
<1> DEFINE d == MovedFrom(c)
<1>1. d.mapped = NoMemory /\ d.pages = <<>>
  BY DEF MovedFrom, ColumnType
<1> HIDE DEF d
<1>2. Range(d.pages) = {}
  BY <1>1 DEF Range
<1>3. Destroy(m, d) = [m EXCEPT !.heap = Without(m.heap, {})]
  BY <1>1, <1>2 DEF Destroy
<1>4. Without(m.heap, {}) = m.heap
  BY WithoutNothing DEF MemOK
<1>5. [m EXCEPT !.heap = m.heap] = m
  BY DEF MemOK
<1> QED
  BY <1>3, <1>4, <1>5 DEF d

-----------------------------------------------------------------------------
(* Folds *)

Gone == INSTANCE Counting WITH Op <- Destroy
Pages == INSTANCE Counting WITH Op <- NewPage
Tables == INSTANCE Counting WITH Op <- FillColumn
Results == INSTANCE Counting WITH Op <- ResultColumn

\* Columns destroyed one after the other, ...
LEMMA DestroySteps ==
  ASSUME NEW m, NEW s, NEW n \in Nat, DOMAIN s = 1 .. n
  PROVE  \E f : Gone!PartsOfFold(f, m, s, n) /\ FoldLeft(Destroy, m, s) = f[n]
<1>1. FoldLeft(Destroy, m, s) = Gone!FoldLeft(Destroy, m, s)
  BY DEF FoldLeft, MapThenFoldSet, Gone!FoldLeft, Gone!MapThenFoldSet, Max, Gone!Max
<1>2. \E f : Gone!PartsOfFold(f, m, s, n) /\ Gone!FoldLeft(Destroy, m, s) = f[n]
  BY Gone!FoldLeftSteps
<1> QED
  BY <1>1, <1>2

\* ... pages allocated, ...
LEMMA NewPagesSteps ==
  ASSUME NEW m, NEW column, NEW s, NEW n \in Nat, DOMAIN s = 1 .. n
  PROVE  \E f : /\ Pages!PartsOfFold(f, [mem |-> m, column |-> column], s, n)
                /\ NewPages(m, column, s) = f[n]
<1> DEFINE base == [mem |-> m, column |-> column]
<1>1. FoldLeft(NewPage, base, s) = Pages!FoldLeft(NewPage, base, s)
  BY DEF FoldLeft, MapThenFoldSet, Pages!FoldLeft, Pages!MapThenFoldSet, Max, Pages!Max
<1>2. NewPages(m, column, s) = FoldLeft(NewPage, base, s)
  BY DEF NewPages
<1> HIDE DEF base
<1>3. \E f : Pages!PartsOfFold(f, base, s, n) /\ Pages!FoldLeft(NewPage, base, s) = f[n]
  BY Pages!FoldLeftSteps
<1> QED
  BY <1>1, <1>2, <1>3 DEF base

\* ... and the columns of a table ...
LEMMA NewTableSteps ==
  ASSUME NEW m, NEW s, NEW n \in Nat, DOMAIN s = 1 .. n
  PROVE  \E f : Tables!PartsOfFold(f, EmptyTable(m), s, n) /\ NewTable(m, s) = f[n]
<1> DEFINE base == EmptyTable(m)
<1>1. FoldLeft(FillColumn, base, s) = Tables!FoldLeft(FillColumn, base, s)
  BY DEF FoldLeft, MapThenFoldSet, Tables!FoldLeft, Tables!MapThenFoldSet, Max, Tables!Max
<1>2. NewTable(m, s) = FoldLeft(FillColumn, base, s)
  BY DEF NewTable
<1> HIDE DEF base
<1>3. \E f : Tables!PartsOfFold(f, base, s, n) /\ Tables!FoldLeft(FillColumn, base, s) = f[n]
  BY Tables!FoldLeftSteps
<1> QED
  BY <1>1, <1>2, <1>3 DEF base

\* ... and of a result.
LEMMA NewResultSteps ==
  ASSUME NEW m, NEW s, NEW n \in Nat, DOMAIN s = 1 .. n
  PROVE  \E f : Results!PartsOfFold(f, EmptyTable(m), s, n) /\ NewResult(m, s) = f[n]
<1> DEFINE base == EmptyTable(m)
<1>1. FoldLeft(ResultColumn, base, s) = Results!FoldLeft(ResultColumn, base, s)
  BY DEF FoldLeft, MapThenFoldSet, Results!FoldLeft, Results!MapThenFoldSet, Max, Results!Max
<1>2. NewResult(m, s) = FoldLeft(ResultColumn, base, s)
  BY DEF NewResult
<1> HIDE DEF base
<1>3. \E f : Results!PartsOfFold(f, base, s, n) /\ Results!FoldLeft(ResultColumn, base, s) = f[n]
  BY Results!FoldLeftSteps
<1> QED
  BY <1>1, <1>2, <1>3 DEF base

\* A vector that grows frees nothing.
LEMMA GrowthFreesNothing ==
  ASSUME NEW m, MemOK(m), NEW columns \in Seq(ColumnType), NEW c
  PROVE  EmplaceBack([columns |-> columns, mem |-> m], c) =
           [columns |-> Append(columns, c), mem |-> m]
<1> DEFINE s == [i \in DOMAIN columns |-> MovedFrom(columns[i])]
           n == Len(columns)
<1>1. n \in Nat /\ DOMAIN s = 1 .. n /\ DOMAIN columns = 1 .. n
  OBVIOUS
<1>2. \A i \in 1 .. n : s[i] = MovedFrom(columns[i]) /\ columns[i] \in ColumnType
  BY <1>1
<1>3. EmplaceBack([columns |-> columns, mem |-> m], c) =
        [columns |-> Append(columns, c),
         mem |-> IF IsFull(n) THEN FoldLeft(Destroy, m, s) ELSE m]
  BY DEF EmplaceBack
<1> HIDE DEF s, n
<1>4. PICK f : Gone!PartsOfFold(f, m, s, n) /\ FoldLeft(Destroy, m, s) = f[n]
  BY <1>1, DestroySteps
<1> DEFINE T == {k \in 0 .. n : f[k] = m}
<1>5. 0 \in T
  BY <1>1, <1>4 DEF Gone!PartsOfFold
<1>6. ASSUME NEW k \in 0 .. n - 1, k \in T
      PROVE  k + 1 \in T
  <2>1. k + 1 \in 1 .. n /\ k + 1 \in 0 .. n /\ f[k] = m
    BY <1>1, <1>6
  <2>2. f[k + 1] = Destroy(f[k], s[k + 1])
    BY <1>4 DEF Gone!PartsOfFold
  <2>3. Destroy(m, MovedFrom(columns[k + 1])) = m
    BY <1>2, <2>1, MovedFromGone
  <2> QED
    BY <1>2, <2>1, <2>2, <2>3
<1> HIDE DEF T
<1>7. \A k \in 0 .. n : k \in T
  BY <1>1, <1>5, <1>6, PrefixInduction
<1>8. f[n] = m
  BY <1>1, <1>7 DEF T
<1> QED
  BY <1>3, <1>4, <1>8
-----------------------------------------------------------------------------
(* Making tables *)

\* The pages are new to m, have made it m2, and have the contents.
PagesMade(m, m2, pages, contents) ==
  /\ MemOK(m2) /\ m2.maps = m.maps
  /\ pages \in Seq(Nat) /\ Once(pages)
  /\ Range(pages) \cap DOMAIN m.heap = {}
  /\ DOMAIN m2.heap = DOMAIN m.heap \cup Range(pages)
  /\ \A p \in DOMAIN m.heap : m2.heap[p] = m.heap[p]
  /\ \A j \in 1 .. Len(pages) : m2.heap[pages[j]] = contents[j]

\* One page more.
LEMMA OnePageMore ==
  ASSUME NEW m, NEW m2, NEW pages, NEW contents, PagesMade(m, m2, pages, contents)
  PROVE  \E m3, p :
           /\ NewPage([mem |-> m2, column |-> [mapped |-> NoMemory, pages |-> pages]],
                      contents[Len(pages) + 1]) =
                [mem |-> m3, column |-> [mapped |-> NoMemory, pages |-> Append(pages, p)]]
           /\ PagesMade(m, m3, Append(pages, p), contents)
<1> DEFINE p == Fresh(DOMAIN m2.heap)
           x == contents[Len(pages) + 1]
           h == With(m2.heap, p, x)
           m3 == [m2 EXCEPT !.heap = h]
           ps == Append(pages, p)
           n == Len(pages)
<1>1. MemOK(m2) /\ pages \in Seq(Nat) /\ n \in Nat /\ DOMAIN pages = 1 .. n
  BY DEF PagesMade
<1>2. p \in Nat /\ p \notin DOMAIN m2.heap
  BY <1>1, FreshAddress DEF MemOK
<1>3. NewPage([mem |-> m2, column |-> [mapped |-> NoMemory, pages |-> pages]], x) =
        [mem |-> m3, column |-> [mapped |-> NoMemory, pages |-> ps]]
  <2> DEFINE c == [mapped |-> NoMemory, pages |-> pages]
             s == [mem |-> m2, column |-> c]
  <2>1. s.mem = m2 /\ s.column = c /\ c.pages = pages
    OBVIOUS
  <2>2. [c EXCEPT !.pages = ps] = [mapped |-> NoMemory, pages |-> ps]
    OBVIOUS
  <2> HIDE DEF s, c
  <2>3. NewPage(s, x) = [mem |-> m3, column |-> [c EXCEPT !.pages = ps]]
    BY <2>1 DEF NewPage
  <2> QED
    BY <2>2, <2>3 DEF s, c
<1>4. h = [z \in DOMAIN m2.heap \cup {p} |-> IF z = p THEN x ELSE m2.heap[z]]
  BY DEF With
<1>5. m3.heap = h /\ m3.maps = m2.maps /\ m3 = [heap |-> h, maps |-> m2.maps]
  BY <1>1 DEF MemOK
<1>6. ps \in Seq(Nat) /\ Len(ps) = n + 1 /\ ps[n + 1] = p /\ \A j \in 1 .. n : ps[j] = pages[j]
  BY <1>1, <1>2
<1> HIDE DEF p, x, h, ps, m3
<1>7. DOMAIN h = DOMAIN m2.heap \cup {p} /\ h[p] = x /\ \A z \in DOMAIN m2.heap : h[z] = m2.heap[z]
  BY <1>2, <1>4
<1>8. MemOK(m3)
  <2>1. h = [z \in DOMAIN h |-> h[z]]
    BY <1>4
  <2>2. IsFiniteSet(DOMAIN h)
    <3>1. IsFiniteSet(DOMAIN m2.heap)
      BY <1>1 DEF MemOK
    <3> QED
      BY <1>7, <3>1, FS_AddElement
  <2> QED
    BY <1>1, <1>5, <2>1, <2>2 DEF MemOK
<1>9. DOMAIN ps = 1 .. n + 1
  BY <1>6
<1>10. Range(ps) = Range(pages) \cup {p}
  <2>1. \A j \in 1 .. n + 1 : j = n + 1 \/ j \in 1 .. n
    BY <1>1
  <2>2. \A j \in 1 .. n : j \in 1 .. n + 1
    BY <1>1
  <2>3. n + 1 \in 1 .. n + 1
    BY <1>1
  <2> QED
    BY <1>1, <1>6, <1>9, <2>1, <2>2, <2>3 DEF Range
<1>11. \A j \in 1 .. n : pages[j] \in Range(pages)
  BY <1>1 DEF Range
<1>12. /\ Range(pages) \subseteq DOMAIN m2.heap
       /\ DOMAIN m.heap \subseteq DOMAIN m2.heap
  BY DEF PagesMade
<1>13. Once(ps)
  <2> SUFFICES ASSUME NEW i \in 1 .. n + 1, NEW j \in 1 .. n + 1, ps[i] = ps[j]
               PROVE  i = j
    BY <1>9 DEF Once
  <2>1. CASE i \in 1 .. n /\ j \in 1 .. n
    BY <1>1, <1>6, <2>1 DEF PagesMade, Once
  <2>2. CASE i = n + 1 /\ j \in 1 .. n
    BY <1>2, <1>6, <1>11, <1>12, <2>2
  <2>3. CASE i \in 1 .. n /\ j = n + 1
    BY <1>2, <1>6, <1>11, <1>12, <2>3
  <2> QED
    BY <1>1, <2>1, <2>2, <2>3
<1>14. \A j \in 1 .. n + 1 : h[ps[j]] = contents[j]
  <2> TAKE j \in 1 .. n + 1
  <2>1. CASE j \in 1 .. n
    <3>1. m2.heap[pages[j]] = contents[j]
      BY <2>1 DEF PagesMade
    <3> QED
      BY <1>6, <1>7, <1>11, <1>12, <2>1, <3>1
  <2>2. CASE j = n + 1
    BY <1>6, <1>7, <2>2 DEF x
  <2> QED
    BY <1>1, <2>1, <2>2
<1>15. Range(ps) \cap DOMAIN m.heap = {} /\ DOMAIN h = DOMAIN m.heap \cup Range(ps)
  BY <1>2, <1>7, <1>10, <1>12 DEF PagesMade
<1>16. \A z \in DOMAIN m.heap : h[z] = m.heap[z]
  BY <1>7, <1>12 DEF PagesMade
<1>17. m3.maps = m.maps
  BY <1>5 DEF PagesMade
<1>18. PagesMade(m, m3, ps, contents)
  BY <1>5, <1>6, <1>8, <1>13, <1>14, <1>15, <1>16, <1>17 DEF PagesMade
<1> QED
  BY <1>3, <1>18 DEF x, ps

\* A column of new pages.
LEMMA NewPagesMade ==
  ASSUME NEW m, MemOK(m), NEW V, NEW contents \in Seq(V)
  PROVE  \E m2, pages :
           /\ NewPages(m, Column, contents) =
                [mem |-> m2, column |-> [mapped |-> NoMemory, pages |-> pages]]
           /\ PagesMade(m, m2, pages, contents)
           /\ Len(pages) = Len(contents)
<1> DEFINE n == Len(contents)
           Made(r, k) ==
             \E m2, pages :
               /\ r = [mem |-> m2, column |-> [mapped |-> NoMemory, pages |-> pages]]
               /\ PagesMade(m, m2, pages, contents)
               /\ Len(pages) = k
<1>1. n \in Nat /\ DOMAIN contents = 1 .. n
  OBVIOUS
<1>2. PICK f : /\ Pages!PartsOfFold(f, [mem |-> m, column |-> Column], contents, n)
               /\ NewPages(m, Column, contents) = f[n]
  BY <1>1, NewPagesSteps
<1> DEFINE T == {k \in 0 .. n : Made(f[k], k)}
<1>3. 0 \in T
  <2>1. f[0] = [mem |-> m, column |-> [mapped |-> NoMemory, pages |-> <<>>]]
    BY <1>2 DEF Pages!PartsOfFold, Column
  <2>2. PagesMade(m, m, <<>>, contents)
    BY DEF PagesMade, Once, Range
  <2>3. Len(<<>>) = 0
    OBVIOUS
  <2>4. Made(f[0], 0)
    BY <2>1, <2>2, <2>3
  <2> HIDE DEF Made
  <2> QED
    BY <1>1, <2>4
<1>4. ASSUME NEW k \in 0 .. n - 1, k \in T
      PROVE  k + 1 \in T
  <2>1. PICK m2, pages :
          /\ f[k] = [mem |-> m2, column |-> [mapped |-> NoMemory, pages |-> pages]]
          /\ PagesMade(m, m2, pages, contents)
          /\ Len(pages) = k
    BY <1>4
  <2>2. f[k + 1] = NewPage(f[k], contents[Len(pages) + 1])
    BY <1>2, <2>1 DEF Pages!PartsOfFold
  <2>3. PICK m3, p :
          /\ NewPage([mem |-> m2, column |-> [mapped |-> NoMemory, pages |-> pages]],
                     contents[Len(pages) + 1]) =
               [mem |-> m3, column |-> [mapped |-> NoMemory, pages |-> Append(pages, p)]]
          /\ PagesMade(m, m3, Append(pages, p), contents)
    BY <2>1, OnePageMore
  <2>4. Len(Append(pages, p)) = k + 1
    <3>1. pages \in Seq(Nat)
      BY <2>1 DEF PagesMade
    <3>2. Append(pages, p) \in Seq(Nat)
      BY <2>3 DEF PagesMade
    <3> QED
      BY <2>1, <3>1, <3>2
  <2>5. Made(f[k + 1], k + 1)
    BY <2>1, <2>2, <2>3, <2>4
  <2>6. k + 1 \in 0 .. n
    BY <1>1
  <2> HIDE DEF Made
  <2> QED
    BY <2>5, <2>6
<1> HIDE DEF T, Made
<1>5. \A k \in 0 .. n : k \in T
  BY <1>1, <1>3, <1>4, PrefixInduction
<1>6. Made(f[n], n)
  BY <1>1, <1>5 DEF T
<1> QED
  BY <1>2, <1>6 DEF Made

\* The columns are of pages new to m, which have made it m2, and have the
\* contents, as far as they go.
AllPages(columns) == UNION {Range(columns[i].pages) : i \in DOMAIN columns}
TableMade(m, m2, columns, contents) ==
  /\ MemOK(m2) /\ m2.maps = m.maps
  /\ columns \in Seq(ColumnType)
  /\ \A i \in DOMAIN columns :
       /\ columns[i].mapped = NoMemory
       /\ Once(columns[i].pages)
       /\ Range(columns[i].pages) \cap DOMAIN m.heap = {}
       /\ Len(columns[i].pages) = Len(contents[i])
       /\ \A j \in DOMAIN columns[i].pages : m2.heap[columns[i].pages[j]] = contents[i][j]
  /\ \A i, j \in DOMAIN columns :
       i # j => Range(columns[i].pages) \cap Range(columns[j].pages) = {}
  /\ DOMAIN m2.heap = DOMAIN m.heap \cup AllPages(columns)
  /\ \A p \in DOMAIN m.heap : m2.heap[p] = m.heap[p]

\* A sequence's last element, just appended, becomes another.
LEMMA LastReplaced ==
  ASSUME NEW S, NEW s \in Seq(S), NEW a \in S, NEW b \in S
  PROVE  [Append(s, a) EXCEPT ![Len(s) + 1] = b] = Append(s, b)
<1> DEFINE n == Len(s)
           x == Append(s, a)
           y == Append(s, b)
           z == [x EXCEPT ![n + 1] = b]
<1>1. /\ x \in Seq(S) /\ Len(x) = n + 1 /\ x[n + 1] = a /\ \A i \in 1 .. n : x[i] = s[i]
      /\ y \in Seq(S) /\ Len(y) = n + 1 /\ y[n + 1] = b /\ \A i \in 1 .. n : y[i] = s[i]
      /\ n \in Nat
  OBVIOUS
<1> HIDE DEF x, y
<1>2. DOMAIN x = 1 .. n + 1
  BY <1>1
<1>3. z \in Seq(S) /\ Len(z) = n + 1
  BY <1>1
<1>4. \A i \in 1 .. n + 1 : z[i] = y[i]
  <2> TAKE i \in 1 .. n + 1
  <2>1. z[i] = IF i = n + 1 THEN b ELSE x[i]
    BY <1>2
  <2>2. i = n + 1 \/ i \in 1 .. n
    BY <1>1
  <2> QED
    BY <1>1, <2>1, <2>2
<1> HIDE DEF z
<1>5. z = y
  BY <1>1, <1>3, <1>4, SeqEqual
<1> QED
  BY <1>5 DEF x, y, z

\* Both ways of making a column append one of new pages.
Appended(m, columns, contents, m2, pages) ==
  LET s == [columns |-> columns, mem |-> m]
      result == [columns |-> Append(columns, [mapped |-> NoMemory, pages |-> pages]), mem |-> m2]
  IN  /\ PagesMade(m, m2, pages, contents)
      /\ Len(pages) = Len(contents)
      /\ FillColumn(s, contents) = result
      /\ ResultColumn(s, contents) = result

LEMMA ColumnAppended ==
  ASSUME NEW m, MemOK(m), NEW columns \in Seq(ColumnType), NEW V, NEW contents \in Seq(V)
  PROVE  \E m2, pages : Appended(m, columns, contents, m2, pages)
<1>1. PICK m2, pages :
        /\ NewPages(m, Column, contents) =
             [mem |-> m2, column |-> [mapped |-> NoMemory, pages |-> pages]]
        /\ PagesMade(m, m2, pages, contents)
        /\ Len(pages) = Len(contents)
  BY NewPagesMade
<1> DEFINE c == [mapped |-> NoMemory, pages |-> pages]
           s == [columns |-> columns, mem |-> m]
           s2 == [columns |-> columns, mem |-> m2]
           made == [mem |-> m2, column |-> c]
           result == [columns |-> Append(columns, c), mem |-> m2]
<1>2. c \in ColumnType /\ Column \in ColumnType /\ MemOK(m2) /\ pages \in Seq(Nat)
  <2>1. NoMemory \in Nat /\ <<>> \in Seq(Nat)
    BY DEF NoMemory
  <2>2. pages \in Seq(Nat) /\ MemOK(m2)
    BY <1>1 DEF PagesMade
  <2> QED
    BY <2>1, <2>2 DEF ColumnType, Column
<1>3. FillColumn(s, contents) = result
  <2> DEFINE grown == EmplaceBack(s, Column)
             n == Len(columns)
  <2>1. grown = [columns |-> Append(columns, Column), mem |-> m]
    BY GrowthFreesNothing
  <2>2. grown.columns = Append(columns, Column) /\ grown.mem = m
    BY <2>1
  <2>3. made.column = c /\ made.mem = m2
    OBVIOUS
  <2>4. Len(Append(columns, Column)) = n + 1
    BY <1>2
  <2>5. [Append(columns, Column) EXCEPT ![n + 1] = c] = Append(columns, c)
    <3>1. c \in ColumnType /\ Column \in ColumnType
      BY <1>2
    <3> HIDE DEF c
    <3> QED
      BY <3>1, LastReplaced
  <2>6. NewPages(m, Column, contents) = made
    BY <1>1
  <2>7. FillColumn(s, contents) =
          [columns |-> [grown.columns EXCEPT
                          ![Len(grown.columns)] = NewPages(grown.mem, Column, contents).column],
           mem |-> NewPages(grown.mem, Column, contents).mem]
    BY DEF FillColumn
  <2> HIDE DEF grown, made, n, c, s
  <2> QED
    BY <2>2, <2>3, <2>4, <2>5, <2>6, <2>7
<1>4. ResultColumn(s, contents) = result
  <2> DEFINE worker == NewPages(s.mem, Column, contents)
             empty == [worker.column EXCEPT !.pages = <<>>]
             kept == Destroy(worker.mem, empty)
             column == [Column EXCEPT !.pages = worker.column.pages]
             pushed == EmplaceBack([s EXCEPT !.mem = kept], column)
  <2>1. ResultColumn(s, contents) = [pushed EXCEPT !.mem = Destroy(pushed.mem, MovedFrom(column))]
    BY DEF ResultColumn
  <2>2. worker = made /\ worker.column = c /\ worker.mem = m2
    BY <1>1
  <2> HIDE DEF worker
  <2>3. empty = MovedFrom(c)
    <3> DEFINE d == [mapped |-> NoMemory, pages |-> <<>>]
    <3>1. [c EXCEPT !.pages = <<>>] = d
      OBVIOUS
    <3>2. [d EXCEPT !.mapped = NoMemory] = d
      OBVIOUS
    <3> HIDE DEF c
    <3>3. empty = d
      BY <2>2, <3>1
    <3> HIDE DEF d
    <3> QED
      BY <3>1, <3>2, <3>3 DEF MovedFrom
  <2>4. kept = m2
    BY <1>2, <2>2, <2>3, MovedFromGone
  <2>5. column = c
    BY <2>2 DEF Column
  <2> HIDE DEF kept, column
  <2>6. [s EXCEPT !.mem = kept] = s2
    BY <2>4
  <2>7. pushed = result
    BY <1>2, <2>5, <2>6, GrowthFreesNothing
  <2>8. pushed.mem = m2
    BY <2>7
  <2> HIDE DEF pushed
  <2>9. Destroy(pushed.mem, MovedFrom(column)) = m2
    BY <1>2, <2>5, <2>8, MovedFromGone
  <2>10. [result EXCEPT !.mem = m2] = result
    <3> DEFINE cs == Append(columns, c)
    <3> HIDE DEF cs
    <3>1. [[columns |-> cs, mem |-> m2] EXCEPT !.mem = m2] = [columns |-> cs, mem |-> m2]
      OBVIOUS
    <3> QED
      BY <3>1 DEF cs
  <2> QED
    BY <2>1, <2>7, <2>9, <2>10
<1>5. Appended(m, columns, contents, m2, pages)
  BY <1>1, <1>3, <1>4 DEF Appended
<1> QED
  BY <1>5

\* One column more.
LEMMA OneColumnMore ==
  ASSUME NEW m, NEW m2, NEW columns, NEW contents, TableMade(m, m2, columns, contents),
         NEW m3, NEW pages, PagesMade(m2, m3, pages, contents[Len(columns) + 1]),
         Len(pages) = Len(contents[Len(columns) + 1])
  PROVE  TableMade(m, m3, Append(columns, [mapped |-> NoMemory, pages |-> pages]), contents)
<1> DEFINE c == [mapped |-> NoMemory, pages |-> pages]
           n == Len(columns)
           cs == Append(columns, c)
<1>1. columns \in Seq(ColumnType) /\ n \in Nat /\ DOMAIN columns = 1 .. n
  BY DEF TableMade
<1>2. c \in ColumnType /\ c.mapped = NoMemory /\ c.pages = pages
      /\ pages \in Seq(Nat) /\ DOMAIN pages = 1 .. Len(pages)
  BY DEF PagesMade, ColumnType, NoMemory
<1>3. cs \in Seq(ColumnType) /\ DOMAIN cs = 1 .. n + 1 /\ cs[n + 1] = c
      /\ \A i \in 1 .. n : cs[i] = columns[i]
  BY <1>1, <1>2
<1> HIDE DEF c, cs
<1>4. \A i \in 1 .. n + 1 : i \in 1 .. n \/ i = n + 1
  BY <1>1
<1>5. /\ DOMAIN m2.heap = DOMAIN m.heap \cup AllPages(columns)
      /\ DOMAIN m3.heap = DOMAIN m2.heap \cup Range(pages)
      /\ Range(pages) \cap DOMAIN m2.heap = {}
      /\ \A p \in DOMAIN m2.heap : m3.heap[p] = m2.heap[p]
      /\ \A p \in DOMAIN m.heap : m2.heap[p] = m.heap[p]
  BY DEF TableMade, PagesMade
<1>6. \A i \in 1 .. n : Range(columns[i].pages) \subseteq DOMAIN m2.heap
  BY <1>1, <1>5 DEF AllPages
<1>7. AllPages(cs) = AllPages(columns) \cup Range(pages)
  <2>1. \A i \in 1 .. n : i \in 1 .. n + 1 /\ n + 1 \in 1 .. n + 1
    BY <1>1
  <2>2. n + 1 \in 1 .. n + 1
    BY <1>1
  <2>3. \A i \in 1 .. n : Range(cs[i].pages) = Range(columns[i].pages)
    BY <1>3
  <2>4. Range(cs[n + 1].pages) = Range(pages)
    BY <1>2, <1>3
  <2> QED
    BY <1>1, <1>3, <1>4, <2>1, <2>2, <2>3, <2>4 DEF AllPages
<1>8. ASSUME NEW i \in DOMAIN cs
      PROVE  /\ cs[i].mapped = NoMemory
             /\ Once(cs[i].pages)
             /\ Range(cs[i].pages) \cap DOMAIN m.heap = {}
             /\ Len(cs[i].pages) = Len(contents[i])
             /\ \A j \in DOMAIN cs[i].pages : m3.heap[cs[i].pages[j]] = contents[i][j]
  <2>1. CASE i \in 1 .. n
    <3>1. cs[i] = columns[i] /\ i \in DOMAIN columns
      BY <1>1, <1>3, <2>1
    <3>2. \A j \in DOMAIN columns[i].pages : columns[i].pages[j] \in Range(columns[i].pages)
      BY DEF Range
    <3>3. \A j \in DOMAIN columns[i].pages : m2.heap[columns[i].pages[j]] = contents[i][j]
      BY <3>1 DEF TableMade
    <3>4. \A j \in DOMAIN columns[i].pages :
            m3.heap[columns[i].pages[j]] = m2.heap[columns[i].pages[j]]
      BY <1>5, <1>6, <2>1, <3>2
    <3> QED
      BY <3>1, <3>3, <3>4 DEF TableMade
  <2>2. CASE i = n + 1
    <3>1. cs[i] = c
      BY <1>3, <2>2
    <3>2. Range(pages) \cap DOMAIN m.heap = {}
      BY <1>5
    <3> QED
      BY <1>2, <2>2, <3>1, <3>2 DEF PagesMade
  <2> QED
    BY <1>3, <1>4, <2>1, <2>2
<1>9. ASSUME NEW i \in DOMAIN cs, NEW j \in DOMAIN cs, i # j
      PROVE  Range(cs[i].pages) \cap Range(cs[j].pages) = {}
  <2>1. CASE i \in 1 .. n /\ j \in 1 .. n
    BY <1>1, <1>3, <1>9, <2>1 DEF TableMade
  <2>2. CASE i \in 1 .. n /\ j = n + 1
    BY <1>2, <1>3, <1>5, <1>6, <2>2
  <2>3. CASE i = n + 1 /\ j \in 1 .. n
    BY <1>2, <1>3, <1>5, <1>6, <2>3
  <2> QED
    BY <1>3, <1>4, <1>9, <2>1, <2>2, <2>3
<1>10. \A p \in DOMAIN m.heap : m3.heap[p] = m.heap[p]
  BY <1>5
<1>11. DOMAIN m3.heap = DOMAIN m.heap \cup AllPages(cs)
  BY <1>5, <1>7
<1>12. MemOK(m3) /\ m3.maps = m.maps
  BY DEF TableMade, PagesMade
<1>13. TableMade(m, m3, cs, contents)
  BY <1>3, <1>8, <1>9, <1>10, <1>11, <1>12 DEF TableMade
<1> QED
  BY <1>13 DEF c, cs

\* Nothing has been made yet.
LEMMA NothingMade ==
  ASSUME NEW m, MemOK(m), NEW contents
  PROVE  TableMade(m, m, <<>>, contents)
<1>1. AllPages(<<>>) = {}
  BY DEF AllPages
<1> QED
  BY <1>1 DEF TableMade

\* What NewTable does.
LEMMA NewTableMade ==
  ASSUME NEW m, MemOK(m), NEW V, NEW contents \in Seq(Seq(V))
  PROVE  /\ TableMade(m, NewTable(m, contents).mem, NewTable(m, contents).columns, contents)
         /\ Len(NewTable(m, contents).columns) = Len(contents)
<1> DEFINE n == Len(contents)
           Made(r, k) ==
             \E m2, columns :
               /\ r = [columns |-> columns, mem |-> m2]
               /\ TableMade(m, m2, columns, contents)
               /\ Len(columns) = k
<1>1. n \in Nat /\ DOMAIN contents = 1 .. n /\ \A i \in 1 .. n : contents[i] \in Seq(V)
  BY ElementOfSeq
<1>2. PICK f : /\ Tables!PartsOfFold(f, EmptyTable(m), contents, n)
               /\ NewTable(m, contents) = f[n]
  BY <1>1, NewTableSteps
<1> DEFINE T == {k \in 0 .. n : Made(f[k], k)}
<1>3. 0 \in T
  <2>1. f[0] = [columns |-> <<>>, mem |-> m]
    BY <1>2 DEF Tables!PartsOfFold, EmptyTable
  <2>2. TableMade(m, m, <<>>, contents) /\ Len(<<>>) = 0
    BY NothingMade
  <2>3. Made(f[0], 0)
    BY <2>1, <2>2
  <2> HIDE DEF Made
  <2> QED
    BY <1>1, <2>3
<1>4. ASSUME NEW k \in 0 .. n - 1, k \in T
      PROVE  k + 1 \in T
  <2>1. PICK m2, columns :
          /\ f[k] = [columns |-> columns, mem |-> m2]
          /\ TableMade(m, m2, columns, contents)
          /\ Len(columns) = k
    BY <1>4
  <2>2. f[k + 1] = FillColumn(f[k], contents[k + 1]) /\ k + 1 \in 1 .. n /\ k + 1 \in 0 .. n
    BY <1>1, <1>2 DEF Tables!PartsOfFold
  <2>3. MemOK(m2) /\ columns \in Seq(ColumnType) /\ contents[k + 1] \in Seq(V)
    BY <1>1, <2>1, <2>2 DEF TableMade
  <2>4. PICK m3, pages : Appended(m2, columns, contents[k + 1], m3, pages)
    BY <2>3, ColumnAppended
  <2> DEFINE cs == Append(columns, [mapped |-> NoMemory, pages |-> pages])
  <2>5. TableMade(m, m3, cs, contents)
    BY <2>1, <2>4, OneColumnMore DEF Appended
  <2>6. Len(cs) = k + 1
    <3>1. cs \in Seq(ColumnType)
      BY <2>5 DEF TableMade
    <3> QED
      BY <2>1, <2>3
  <2>7. f[k + 1] = [columns |-> cs, mem |-> m3]
    BY <2>1, <2>2, <2>4 DEF Appended
  <2> HIDE DEF cs
  <2>8. Made(f[k + 1], k + 1)
    BY <2>5, <2>6, <2>7
  <2> HIDE DEF Made
  <2> QED
    BY <2>2, <2>8
<1> HIDE DEF T, Made
<1>5. \A k \in 0 .. n : k \in T
  BY <1>1, <1>3, <1>4, PrefixInduction
<1>6. Made(f[n], n)
  BY <1>1, <1>5 DEF T
<1>7. PICK m2, columns :
        /\ f[n] = [columns |-> columns, mem |-> m2]
        /\ TableMade(m, m2, columns, contents)
        /\ Len(columns) = n
  BY <1>6 DEF Made
<1>8. f[n].columns = columns /\ f[n].mem = m2
  BY <1>7
<1> QED
  BY <1>2, <1>7, <1>8

\* What NewResult does.
LEMMA NewResultMade ==
  ASSUME NEW m, MemOK(m), NEW V, NEW contents \in Seq(Seq(V))
  PROVE  /\ TableMade(m, NewResult(m, contents).mem, NewResult(m, contents).columns, contents)
         /\ Len(NewResult(m, contents).columns) = Len(contents)
<1> DEFINE n == Len(contents)
           Made(r, k) ==
             \E m2, columns :
               /\ r = [columns |-> columns, mem |-> m2]
               /\ TableMade(m, m2, columns, contents)
               /\ Len(columns) = k
<1>1. n \in Nat /\ DOMAIN contents = 1 .. n /\ \A i \in 1 .. n : contents[i] \in Seq(V)
  BY ElementOfSeq
<1>2. PICK f : /\ Results!PartsOfFold(f, EmptyTable(m), contents, n)
               /\ NewResult(m, contents) = f[n]
  BY <1>1, NewResultSteps
<1> DEFINE T == {k \in 0 .. n : Made(f[k], k)}
<1>3. 0 \in T
  <2>1. f[0] = [columns |-> <<>>, mem |-> m]
    BY <1>2 DEF Results!PartsOfFold, EmptyTable
  <2>2. TableMade(m, m, <<>>, contents) /\ Len(<<>>) = 0
    BY NothingMade
  <2>3. Made(f[0], 0)
    BY <2>1, <2>2
  <2> HIDE DEF Made
  <2> QED
    BY <1>1, <2>3
<1>4. ASSUME NEW k \in 0 .. n - 1, k \in T
      PROVE  k + 1 \in T
  <2>1. PICK m2, columns :
          /\ f[k] = [columns |-> columns, mem |-> m2]
          /\ TableMade(m, m2, columns, contents)
          /\ Len(columns) = k
    BY <1>4
  <2>2. f[k + 1] = ResultColumn(f[k], contents[k + 1]) /\ k + 1 \in 1 .. n /\ k + 1 \in 0 .. n
    BY <1>1, <1>2 DEF Results!PartsOfFold
  <2>3. MemOK(m2) /\ columns \in Seq(ColumnType) /\ contents[k + 1] \in Seq(V)
    BY <1>1, <2>1, <2>2 DEF TableMade
  <2>4. PICK m3, pages : Appended(m2, columns, contents[k + 1], m3, pages)
    BY <2>3, ColumnAppended
  <2> DEFINE cs == Append(columns, [mapped |-> NoMemory, pages |-> pages])
  <2>5. TableMade(m, m3, cs, contents)
    BY <2>1, <2>4, OneColumnMore DEF Appended
  <2>6. Len(cs) = k + 1
    <3>1. cs \in Seq(ColumnType)
      BY <2>5 DEF TableMade
    <3> QED
      BY <2>1, <2>3
  <2>7. f[k + 1] = [columns |-> cs, mem |-> m3]
    BY <2>1, <2>2, <2>4 DEF Appended
  <2> HIDE DEF cs
  <2>8. Made(f[k + 1], k + 1)
    BY <2>5, <2>6, <2>7
  <2> HIDE DEF Made
  <2> QED
    BY <2>2, <2>8
<1> HIDE DEF T, Made
<1>5. \A k \in 0 .. n : k \in T
  BY <1>1, <1>3, <1>4, PrefixInduction
<1>6. Made(f[n], n)
  BY <1>1, <1>5 DEF T
<1>7. PICK m2, columns :
        /\ f[n] = [columns |-> columns, mem |-> m2]
        /\ TableMade(m, m2, columns, contents)
        /\ Len(columns) = n
  BY <1>6 DEF Made
<1>8. f[n].columns = columns /\ f[n].mem = m2
  BY <1>7
<1> QED
  BY <1>2, <1>7, <1>8
-----------------------------------------------------------------------------
(* Owning pages and mappings *)

\* The named columns of a table are finitely many.
LEMMA ColumnsFinite ==
  ASSUME NEW S, NEW columns \in Seq(S), NEW name, NEW k
  PROVE  IsFiniteSet(ColumnsOf(name, k, columns))
<1> DEFINE n == Len(columns)
           N == ColumnsOf(name, k, columns)
           f == [i \in 1 .. n |-> [in |-> name, table |-> k, nr |-> i, column |-> columns[i]]]
<1>1. n \in Nat /\ DOMAIN columns = 1 .. n
  OBVIOUS
<1>2. IsFiniteSet(1 .. n)
  <2>1. 1 \in Int /\ n \in Int
    BY <1>1
  <2> HIDE DEF n
  <2> QED
    BY <2>1, FS_Interval
<1>3. f \in Surjection(1 .. n, N)
  BY <1>1 DEF Surjection, ColumnsOf
<1> HIDE DEF f, N, n
<1> QED
  BY <1>2, <1>3, FS_Surjection DEF N

\* Who is in the columns of a table.
LEMMA ColumnsIn ==
  ASSUME NEW columns, NEW name, NEW k
  PROVE  /\ \A i \in DOMAIN columns :
              [in |-> name, table |-> k, nr |-> i, column |-> columns[i]]
                \in ColumnsOf(name, k, columns)
         /\ \A c \in ColumnsOf(name, k, columns) :
              /\ c.in = name /\ c.table = k /\ c.nr \in DOMAIN columns
              /\ c.column = columns[c.nr]
              /\ c = [in |-> name, table |-> k, nr |-> c.nr, column |-> columns[c.nr]]
BY DEF ColumnsOf

\* A table of new pages joins those there are.
LEMMA TableOwned ==
  ASSUME NEW L, NEW m, Owned(L, m), NEW m2, NEW columns, NEW contents,
         TableMade(m, m2, columns, contents), NEW name, NEW k,
         ColumnsOf(name, k, columns) \cap L = {}
  PROVE  Owned(L \cup ColumnsOf(name, k, columns), m2)
<1> DEFINE N == ColumnsOf(name, k, columns)
           M == L \cup N
<1>1. columns \in Seq(ColumnType)
  BY DEF TableMade
<1>2. IsFiniteSet(N)
  BY <1>1, ColumnsFinite
<1>3. \A c \in N : c.nr \in DOMAIN columns /\ c.column = columns[c.nr]
                   /\ \A d \in N : c # d => c.nr # d.nr
  BY ColumnsIn
<1>4. \A i \in DOMAIN columns : \E c \in N : c.nr = i
  <2> TAKE i \in DOMAIN columns
  <2>1. [in |-> name, table |-> k, nr |-> i, column |-> columns[i]] \in N
    BY ColumnsIn
  <2> QED
    BY <2>1
<1> HIDE DEF N
<1>5. \A c \in N : c.column.mapped = NoMemory
  BY <1>3 DEF TableMade
<1>6. Unmapped(M) = Unmapped(L) \cup N
  BY <1>5 DEF Unmapped
<1>7. IsFiniteSet(M)
  BY <1>2, FS_Union DEF Owned
<1>8. DOMAIN m2.heap = DOMAIN m.heap \cup AllPages(columns) /\ m2.maps = m.maps
  BY DEF TableMade
<1>9. \A c \in N : /\ Once(c.column.pages)
                   /\ Range(c.column.pages) \cap DOMAIN m.heap = {}
                   /\ Range(c.column.pages) \subseteq DOMAIN m2.heap
  <2> TAKE c \in N
  <2>1. Once(c.column.pages) /\ Range(c.column.pages) \cap DOMAIN m.heap = {}
    BY <1>3 DEF TableMade
  <2>2. Range(c.column.pages) \subseteq AllPages(columns)
    BY <1>3 DEF AllPages
  <2> QED
    BY <1>8, <2>1, <2>2
<1>10. \A c \in Unmapped(L) : Once(c.column.pages) /\ Range(c.column.pages) \subseteq DOMAIN m.heap
  BY DEF Owned
<1>11. \A c, d \in Unmapped(M) : c # d => Range(c.column.pages) \cap Range(d.column.pages) = {}
  <2> SUFFICES ASSUME NEW c \in Unmapped(M), NEW d \in Unmapped(M), c # d
               PROVE  Range(c.column.pages) \cap Range(d.column.pages) = {}
    OBVIOUS
  <2>1. CASE c \in Unmapped(L) /\ d \in Unmapped(L)
    BY <2>1 DEF Owned
  <2>2. CASE c \in N /\ d \in N
    BY <1>3, <2>2 DEF TableMade
  <2>3. CASE c \in Unmapped(L) /\ d \in N
    BY <1>9, <1>10, <2>3
  <2>4. CASE c \in N /\ d \in Unmapped(L)
    BY <1>9, <1>10, <2>4
  <2> QED
    BY <1>6, <2>1, <2>2, <2>3, <2>4
<1>12. ASSUME NEW p \in DOMAIN m2.heap
       PROVE  \E c \in Unmapped(M) : p \in Range(c.column.pages)
  <2>1. CASE p \in DOMAIN m.heap
    BY <1>6, <2>1 DEF Owned
  <2>2. CASE p \in AllPages(columns)
    <3>1. PICK i \in DOMAIN columns : p \in Range(columns[i].pages)
      BY <2>2 DEF AllPages
    <3>2. PICK c \in N : c.nr = i
      BY <1>4
    <3> QED
      BY <1>3, <1>6, <3>1, <3>2
  <2> QED
    BY <1>8, <2>1, <2>2
<1>13. \A c \in M : c.column.mapped \in DOMAIN m2.maps \cup {NoMemory}
  BY <1>5, <1>8 DEF Owned
<1>14. NoMemory \notin DOMAIN m2.maps
  BY <1>8 DEF Owned
<1>15. \A a \in DOMAIN m2.maps : m2.maps[a].refs = Cardinality(Holding(M, a))
  <2> TAKE a \in DOMAIN m2.maps
  <2>1. Holding(M, a) = Holding(L, a)
    BY <1>5, <1>14 DEF Holding
  <2> QED
    BY <1>8, <2>1 DEF Owned
<1>16. \A c \in Unmapped(M) : Once(c.column.pages) /\ Range(c.column.pages) \subseteq DOMAIN m2.heap
  BY <1>6, <1>8, <1>9, <1>10
<1> HIDE DEF M
<1>17. Owned(M, m2)
  BY <1>7, <1>11, <1>12, <1>13, <1>14, <1>15, <1>16 DEF Owned
<1> QED
  BY <1>17 DEF M, N

\* Other names for the same columns.
LEMMA OwnedRenamed ==
  ASSUME NEW L, NEW m, Owned(L, m), NEW M, NEW f \in Bijection(L, M),
         \A x \in L : f[x].column = x.column
  PROVE  Owned(M, m)
<1>1. /\ \A x \in L : f[x] \in M
      /\ \A x, y \in L : f[x] = f[y] => x = y
      /\ \A z \in M : \E x \in L : f[x] = z
      /\ f \in [L -> M]
  BY DEF Bijection, Injection, Surjection, IsInjective
<1>2. IsFiniteSet(M)
  <2>1. ExistsBijection(L, M)
    BY DEF ExistsBijection
  <2> QED
    BY <2>1, FS_Bijection DEF Owned
<1>3. \A z \in Unmapped(M) : \E x \in Unmapped(L) : f[x] = z
  BY <1>1 DEF Unmapped
<1>4. \A x \in Unmapped(L) : f[x] \in Unmapped(M)
  BY <1>1 DEF Unmapped
<1>5. \A x \in Unmapped(L) : f[x].column = x.column
  BY DEF Unmapped
<1>6. \A c \in Unmapped(M) : Once(c.column.pages) /\ Range(c.column.pages) \subseteq DOMAIN m.heap
  BY <1>3, <1>5 DEF Owned
<1>7. \A c, d \in Unmapped(M) : c # d => Range(c.column.pages) \cap Range(d.column.pages) = {}
  <2> SUFFICES ASSUME NEW c \in Unmapped(M), NEW d \in Unmapped(M), c # d
               PROVE  Range(c.column.pages) \cap Range(d.column.pages) = {}
    OBVIOUS
  <2>1. PICK x \in Unmapped(L) : f[x] = c
    BY <1>3
  <2>2. PICK y \in Unmapped(L) : f[y] = d
    BY <1>3
  <2>3. x # y
    BY <2>1, <2>2
  <2>4. Range(x.column.pages) \cap Range(y.column.pages) = {}
    BY <2>3 DEF Owned
  <2> QED
    BY <1>5, <2>1, <2>2, <2>4
<1>8. \A p \in DOMAIN m.heap : \E c \in Unmapped(M) : p \in Range(c.column.pages)
  <2> TAKE p \in DOMAIN m.heap
  <2>1. PICK x \in Unmapped(L) : p \in Range(x.column.pages)
    BY DEF Owned
  <2> QED
    BY <1>4, <1>5, <2>1
<1>9. \A c \in M : c.column.mapped \in DOMAIN m.maps \cup {NoMemory}
  BY <1>1 DEF Owned
<1>10. \A a \in DOMAIN m.maps : m.maps[a].refs = Cardinality(Holding(M, a))
  <2> TAKE a \in DOMAIN m.maps
  <2> DEFINE S == Holding(L, a)
             T == Holding(M, a)
             g == [x \in S |-> f[x]]
  <2>1. g \in Bijection(S, T)
    <3>1. S \subseteq L /\ \A x \in S : f[x] \in T
      BY <1>1 DEF Holding
    <3>2. \A z \in T : \E x \in S : f[x] = z
      BY <1>1 DEF Holding
    <3>3. \A x, y \in S : g[x] = g[y] => x = y
      BY <1>1, <3>1
    <3>4. \A z \in T : \E x \in S : g[x] = z
      BY <3>2
    <3>5. g \in [S -> T]
      BY <3>1
    <3> HIDE DEF S, T, g
    <3> QED
      BY <3>3, <3>4, <3>5 DEF Bijection, Injection, Surjection, IsInjective
  <2>2. IsFiniteSet(S)
    <3>1. S \in SUBSET L
      BY DEF Holding
    <3> QED
      BY <3>1, FS_Subset DEF Owned
  <2> HIDE DEF S, T, g
  <2>3. ExistsBijection(S, T)
    BY <2>1 DEF ExistsBijection
  <2>4. Cardinality(T) = Cardinality(S)
    BY <2>2, <2>3, FS_Bijection
  <2> QED
    BY <2>4 DEF Owned, S, T
<1> QED
  BY <1>2, <1>6, <1>7, <1>8, <1>9, <1>10 DEF Owned

\* What is left of m when the column x of L has gone.
ColumnTaken(L, m, x, m2) ==
  /\ MemOK(m2)
  /\ Owned(L \ {x}, m2)
  /\ \A a \in DOMAIN m2.maps :
       /\ a \in DOMAIN m.maps
       /\ m2.maps[a].blocks = m.maps[a].blocks
       /\ m2.maps[a].refs = 0 => m.maps[a].refs = 0
  /\ \A d \in Unmapped(L) : d # x =>
       \A p \in Range(d.column.pages) : m2.heap[p] = m.heap[p]

\* A column goes, and what it owns with it.
LEMMA ColumnGone ==
  ASSUME NEW L, NEW m, MemOK(m), Owned(L, m), NEW x \in L, x.column \in ColumnType
  PROVE  ColumnTaken(L, m, x, Destroy(m, x.column))
<1> DEFINE c == x.column
           M == L \ {x}
           m2 == Destroy(m, c)
<1>1. c.mapped \in Nat /\ c.pages \in Seq(Nat)
  BY DEF ColumnType
<1>2. IsFiniteSet(L) /\ IsFiniteSet(M)
  BY FS_RemoveElement DEF Owned
<1>3. \A a : Holding(M, a) = Holding(L, a) \ {x}
  BY DEF Holding
<1>4. \A a : IsFiniteSet(Holding(L, a)) /\ Cardinality(Holding(L, a)) \in Nat
  <2> TAKE a
  <2>1. Holding(L, a) \in SUBSET L
    BY DEF Holding
  <2>2. IsFiniteSet(Holding(L, a))
    BY <1>2, <2>1, FS_Subset
  <2> QED
    BY <2>2, FS_CardinalityType
<1>5. Unmapped(M) = Unmapped(L) \ {x}
  BY DEF Unmapped
<1>6. CASE c.mapped = NoMemory
  <2> DEFINE h == Without(m.heap, Range(c.pages))
  <2>1. m2 = [m EXCEPT !.heap = h]
    BY <1>6 DEF Destroy
  <2>2. m2 = [heap |-> h, maps |-> m.maps] /\ m2.heap = h /\ m2.maps = m.maps
    BY <2>1 DEF MemOK
  <2>3. /\ DOMAIN h = DOMAIN m.heap \ Range(c.pages)
        /\ \A p \in DOMAIN h : h[p] = m.heap[p]
        /\ h = [p \in DOMAIN h |-> h[p]]
    BY DEF Without
  <2> HIDE DEF h
  <2>4. IsFiniteSet(DOMAIN h)
    <3>1. DOMAIN h \in SUBSET (DOMAIN m.heap)
      BY <2>3
    <3> QED
      BY <3>1, FS_Subset DEF MemOK
  <2>5. MemOK(m2)
    BY <2>2, <2>3, <2>4 DEF MemOK
  <2>6. x \in Unmapped(L)
    BY <1>6 DEF Unmapped
  <2>7. \A d \in Unmapped(M) : /\ Once(d.column.pages)
                               /\ Range(d.column.pages) \subseteq DOMAIN m.heap
                               /\ Range(d.column.pages) \cap Range(c.pages) = {}
    BY <1>5, <2>6 DEF Owned
  <2>8. \A p \in DOMAIN h : \E d \in Unmapped(M) : p \in Range(d.column.pages)
    <3> TAKE p \in DOMAIN h
    <3>1. PICK d \in Unmapped(L) : p \in Range(d.column.pages)
      BY <2>3 DEF Owned
    <3>2. d # x
      BY <2>3, <3>1
    <3> QED
      BY <1>5, <3>1, <3>2
  <2>9. \A a \in DOMAIN m.maps : m.maps[a].refs = Cardinality(Holding(M, a))
    <3> TAKE a \in DOMAIN m.maps
    <3>1. Holding(M, a) = Holding(L, a)
      BY <1>3, <1>6 DEF Holding, Owned
    <3> QED
      BY <3>1 DEF Owned
  <2>10. \A d, e \in Unmapped(M) : d # e => Range(d.column.pages) \cap Range(e.column.pages) = {}
    BY <1>5 DEF Owned
  <2>11. \A d \in M : d.column.mapped \in DOMAIN m.maps \cup {NoMemory}
    BY DEF Owned
  <2>12. \A d \in Unmapped(M) : Range(d.column.pages) \subseteq DOMAIN h
    BY <2>3, <2>7
  <2> HIDE DEF M, m2
  <2>13. Owned(M, m2)
    BY <1>2, <2>2, <2>7, <2>8, <2>9, <2>10, <2>11, <2>12 DEF Owned
  <2>14. \A d \in Unmapped(L) : d # x =>
           \A p \in Range(d.column.pages) : h[p] = m.heap[p]
    BY <1>5, <2>3, <2>12
  <2>15. ColumnTaken(L, m, x, m2)
    BY <2>2, <2>5, <2>13, <2>14 DEF ColumnTaken, M
  <2> QED
    BY <2>15 DEF m2
<1>7. CASE c.mapped # NoMemory
  <2> DEFINE a == c.mapped
             r == m.maps[a].refs
  <2>1. a \in DOMAIN m.maps /\ r = Cardinality(Holding(L, a))
    BY <1>7 DEF Owned
  <2>2. x \in Holding(L, a)
    BY DEF Holding
  <2>3. r \in Nat /\ Cardinality(Holding(M, a)) = r - 1
    <3> DEFINE P == Holding(L, a)
    <3>1. Holding(M, a) = P \ {x}
      BY <1>3
    <3>2. IsFiniteSet(P) /\ Cardinality(P) \in Nat
      BY <1>4
    <3>3. x \in P /\ r = Cardinality(P)
      BY <2>1, <2>2
    <3> HIDE DEF P, M, a, r
    <3>4. Cardinality(P \ {x}) = Cardinality(P) - 1
      BY <3>2, <3>3, FS_RemoveElement
    <3> QED
      BY <3>1, <3>2, <3>3, <3>4
  <2>4. r # 0
    BY <1>4, <2>1, <2>2, FS_EmptySet
  <2>5. m2 = IF r = 1 THEN [m EXCEPT !.maps = Without(m.maps, {a})]
             ELSE [m EXCEPT !.maps[a].refs = r - 1]
    BY <1>7, <2>1 DEF Destroy, Release
  <2>6. \E g : /\ m2 = [heap |-> m.heap, maps |-> g]
               /\ g = [b \in DOMAIN g |-> g[b]]
               /\ DOMAIN g = IF r = 1 THEN DOMAIN m.maps \ {a} ELSE DOMAIN m.maps
               /\ \A b \in DOMAIN g :
                    g[b] = [blocks |-> m.maps[b].blocks,
                            refs |-> IF b = a THEN r - 1 ELSE m.maps[b].refs]
    <3>1. CASE r = 1
      <4> DEFINE g == Without(m.maps, {a})
      <4>1. m2 = [heap |-> m.heap, maps |-> g]
        BY <2>5, <3>1 DEF MemOK
      <4>2. g = [b \in DOMAIN g |-> g[b]] /\ DOMAIN g = DOMAIN m.maps \ {a}
            /\ \A b \in DOMAIN g : g[b] = m.maps[b]
        BY DEF Without
      <4> HIDE DEF g, m2, a
      <4>3. \A b \in DOMAIN g : g[b] = [blocks |-> m.maps[b].blocks, refs |-> m.maps[b].refs]
                                /\ b # a
        BY <4>2 DEF MemOK
      <4>4. \A b \in DOMAIN g :
              g[b] = [blocks |-> m.maps[b].blocks,
                      refs |-> IF b = a THEN r - 1 ELSE m.maps[b].refs]
        BY <4>3
      <4> QED
        BY <3>1, <4>1, <4>2, <4>4
    <3>2. CASE r # 1
      <4> DEFINE g == [m.maps EXCEPT ![a].refs = r - 1]
      <4>1. m2 = [m EXCEPT !.maps = g]
        BY <2>5, <3>2
      <4>2. m2 = [heap |-> m.heap, maps |-> g]
        BY <4>1 DEF MemOK
      <4>3. g = [b \in DOMAIN m.maps |-> IF b = a THEN [m.maps[a] EXCEPT !.refs = r - 1]
                                         ELSE m.maps[b]]
        OBVIOUS
      <4>4. [m.maps[a] EXCEPT !.refs = r - 1] = [blocks |-> m.maps[a].blocks, refs |-> r - 1]
        BY <2>1 DEF MemOK
      <4>5. \A b \in DOMAIN m.maps :
              m.maps[b] = [blocks |-> m.maps[b].blocks, refs |-> m.maps[b].refs]
        BY DEF MemOK
      <4> HIDE DEF g, m2
      <4>6. DOMAIN g = DOMAIN m.maps /\ g = [b \in DOMAIN g |-> g[b]]
        BY <4>3
      <4>7. \A b \in DOMAIN g :
              g[b] = [blocks |-> m.maps[b].blocks,
                      refs |-> IF b = a THEN r - 1 ELSE m.maps[b].refs]
        <5> TAKE b \in DOMAIN g
        <5>1. CASE b = a
          BY <4>3, <4>4, <4>6, <5>1
        <5>2. CASE b # a
          BY <4>3, <4>5, <4>6, <5>2
        <5> QED
          BY <5>1, <5>2
      <4> QED
        BY <3>2, <4>2, <4>6, <4>7
    <3> QED
      BY <3>1, <3>2
  <2>7. PICK g :
          /\ m2 = [heap |-> m.heap, maps |-> g]
          /\ g = [b \in DOMAIN g |-> g[b]]
          /\ DOMAIN g = IF r = 1 THEN DOMAIN m.maps \ {a} ELSE DOMAIN m.maps
          /\ \A b \in DOMAIN g :
               g[b] = [blocks |-> m.maps[b].blocks,
                       refs |-> IF b = a THEN r - 1 ELSE m.maps[b].refs]
    BY <2>6
  <2> HIDE DEF m2, r
  <2>8. m2.heap = m.heap /\ m2.maps = g
    BY <2>7
  <2>9. \A b \in DOMAIN g : b \in DOMAIN m.maps /\ g[b].blocks = m.maps[b].blocks
                            /\ g[b].refs = IF b = a THEN r - 1 ELSE m.maps[b].refs
    <3> TAKE b \in DOMAIN g
    <3> DEFINE n == IF b = a THEN r - 1 ELSE m.maps[b].refs
    <3>1. g[b] = [blocks |-> m.maps[b].blocks, refs |-> n] /\ b \in DOMAIN m.maps
      BY <2>7
    <3> HIDE DEF n, a
    <3>2. g[b].blocks = m.maps[b].blocks /\ g[b].refs = n
      BY <3>1
    <3> QED
      BY <3>1, <3>2 DEF n
  <2>10. MemOK(m2)
    <3>1. IsFiniteSet(DOMAIN g)
      <4>1. DOMAIN g \in SUBSET (DOMAIN m.maps)
        BY <2>7
      <4> QED
        BY <4>1, FS_Subset DEF MemOK
    <3>2. \A b \in DOMAIN g : g[b] = [blocks |-> g[b].blocks, refs |-> g[b].refs]
      <4> TAKE b \in DOMAIN g
      <4> DEFINE n == IF b = a THEN r - 1 ELSE m.maps[b].refs
      <4>1. g[b] = [blocks |-> m.maps[b].blocks, refs |-> n]
        BY <2>7
      <4> HIDE DEF n
      <4> QED
        BY <4>1
    <3> QED
      BY <2>7, <2>8, <3>1, <3>2 DEF MemOK
  <2>11. Unmapped(M) = Unmapped(L)
    BY <1>5, <1>7 DEF Unmapped
  <2>12. \A b \in DOMAIN g : g[b].refs = Cardinality(Holding(M, b))
    <3> TAKE b \in DOMAIN g
    <3>1. CASE b = a
      BY <2>3, <2>9, <3>1 DEF r
    <3>2. CASE b # a
      <4>1. Holding(M, b) = Holding(L, b)
        BY <1>3, <3>2 DEF Holding
      <4> QED
        BY <2>9, <3>2, <4>1 DEF Owned
    <3> QED
      BY <3>1, <3>2
  <2>13. \A d \in M : d.column.mapped \in DOMAIN g \cup {NoMemory}
    <3> TAKE d \in M
    <3>1. d.column.mapped \in DOMAIN m.maps \cup {NoMemory}
      BY DEF Owned
    <3>2. CASE r = 1 /\ d.column.mapped = a
      <4>1. IsFiniteSet(Holding(M, a)) /\ Cardinality(Holding(M, a)) = 0
        <5>1. IsFiniteSet(Holding(M, a))
          <6> DEFINE P == Holding(L, a)
          <6>1. Holding(M, a) = P \ {x} /\ IsFiniteSet(P)
            BY <1>3, <1>4
          <6> HIDE DEF P, M
          <6> QED
            BY <6>1, FS_RemoveElement
        <5> QED
          BY <2>3, <3>2, <5>1 DEF r
      <4>2. Holding(M, a) = {}
        BY <4>1, FS_EmptySet
      <4> QED
        BY <3>2, <4>2 DEF Holding
    <3>3. CASE ~(r = 1 /\ d.column.mapped = a)
      BY <2>7, <3>1, <3>3
    <3> QED
      BY <3>2, <3>3
  <2>14. NoMemory \notin DOMAIN g
    BY <2>9 DEF Owned
  <2> HIDE DEF M
  <2>15. Owned(M, m2)
    BY <1>2, <2>8, <2>11, <2>12, <2>13, <2>14 DEF Owned
  <2>16. \A b \in DOMAIN g : g[b].refs = 0 => m.maps[b].refs = 0
    <3> TAKE b \in DOMAIN g
    <3>1. CASE b = a
      <4>1. r # 1
        BY <2>7, <3>1
      <4> QED
        BY <2>3, <2>4, <2>9, <3>1, <4>1 DEF r
    <3>2. CASE b # a
      BY <2>9, <3>2
    <3> QED
      BY <3>1, <3>2
  <2>17. \A d \in Unmapped(L) : \A p \in Range(d.column.pages) : m2.heap[p] = m.heap[p]
    BY <2>8
  <2>18. ColumnTaken(L, m, x, m2)
    BY <2>8, <2>9, <2>10, <2>15, <2>16, <2>17 DEF ColumnTaken, M
  <2> QED
    BY <2>18 DEF m2
<1> QED
  BY <1>6, <1>7

\* A file is mapped; no column holds it yet.
LEMMA MappingOwned ==
  ASSUME NEW L, NEW m, MemOK(m), Owned(L, m), NEW a, a \notin DOMAIN m.maps, a # NoMemory,
         NEW b
  PROVE  LET m2 == [m EXCEPT !.maps = With(m.maps, a, [blocks |-> b, refs |-> 0])]
         IN  /\ MemOK(m2) /\ Owned(L, m2)
             /\ m2.heap = m.heap
             /\ DOMAIN m2.maps = DOMAIN m.maps \cup {a}
             /\ m2.maps[a] = [blocks |-> b, refs |-> 0]
             /\ \A z \in DOMAIN m.maps : m2.maps[z] = m.maps[z]
<1> DEFINE g == With(m.maps, a, [blocks |-> b, refs |-> 0])
           m2 == [m EXCEPT !.maps = g]
<1>1. m2 = [heap |-> m.heap, maps |-> g]
  BY DEF MemOK
<1>2. /\ DOMAIN g = DOMAIN m.maps \cup {a}
      /\ g[a] = [blocks |-> b, refs |-> 0]
      /\ \A z \in DOMAIN m.maps : g[z] = m.maps[z]
      /\ g = [z \in DOMAIN g |-> g[z]]
  BY DEF With
<1> HIDE DEF g, m2
<1>3. m2.heap = m.heap /\ m2.maps = g
  BY <1>1
<1>4. IsFiniteSet(DOMAIN g)
  BY <1>2, FS_AddElement DEF MemOK
<1>5. \A z \in DOMAIN g : g[z] = [blocks |-> g[z].blocks, refs |-> g[z].refs]
  BY <1>2 DEF MemOK
<1>6. MemOK(m2)
  BY <1>1, <1>2, <1>3, <1>4, <1>5 DEF MemOK
<1>7. Holding(L, a) = {}
  BY DEF Holding, Owned
<1>8. \A z \in DOMAIN g : g[z].refs = Cardinality(Holding(L, z))
  <2> TAKE z \in DOMAIN g
  <2>1. CASE z = a
    <3>1. g[a].refs = 0
      BY <1>2
    <3>2. Cardinality(Holding(L, a)) = 0
      BY <1>7, FS_EmptySet
    <3> QED
      BY <2>1, <3>1, <3>2
  <2>2. CASE z # a
    <3>1. z \in DOMAIN m.maps /\ g[z] = m.maps[z]
      BY <1>2, <2>2
    <3> QED
      BY <3>1 DEF Owned
  <2> QED
    BY <2>1, <2>2
<1>9. NoMemory \notin DOMAIN g
  BY <1>2 DEF Owned
<1>10. \A c \in L : c.column.mapped \in DOMAIN g \cup {NoMemory}
  BY <1>2 DEF Owned
<1>11. Owned(L, m2)
  BY <1>3, <1>8, <1>9, <1>10 DEF Owned
<1> QED
  BY <1>2, <1>3, <1>6, <1>11 DEF m2, g

\* What m is when one more column, x, holds the mapping at a.
Held(L, m, a, x, m2) ==
  /\ MemOK(m2) /\ Owned(L \cup {x}, m2)
  /\ m2.heap = m.heap
  /\ DOMAIN m2.maps = DOMAIN m.maps
  /\ \A z \in DOMAIN m.maps :
       m2.maps[z] = [blocks |-> m.maps[z].blocks,
                     refs |-> IF z = a THEN m.maps[a].refs + 1 ELSE m.maps[z].refs]
  /\ m.maps[a].refs \in Nat

\* One more column holds a mapping.
LEMMA HolderOwned ==
  ASSUME NEW L, NEW m, MemOK(m), Owned(L, m), NEW a \in DOMAIN m.maps,
         NEW x, x \notin L, x.column.mapped = a
  PROVE  Held(L, m, a, x, [m EXCEPT !.maps[a].refs = @ + 1])
<1> DEFINE r == m.maps[a].refs
           g == [m.maps EXCEPT ![a].refs = r + 1]
           m2 == [m EXCEPT !.maps[a].refs = @ + 1]
           M == L \cup {x}
<1>1. m2 = [m EXCEPT !.maps = g]
  OBVIOUS
<1>2. m2 = [heap |-> m.heap, maps |-> g]
  BY <1>1 DEF MemOK
<1>3. [m.maps[a] EXCEPT !.refs = r + 1] = [blocks |-> m.maps[a].blocks, refs |-> r + 1]
  BY DEF MemOK
<1>4. g = [z \in DOMAIN m.maps |-> IF z = a THEN [m.maps[a] EXCEPT !.refs = r + 1] ELSE m.maps[z]]
  OBVIOUS
<1> HIDE DEF g, m2
<1>5. DOMAIN g = DOMAIN m.maps /\ g = [z \in DOMAIN g |-> g[z]]
  BY <1>4
<1>6. \A z \in DOMAIN m.maps :
        g[z] = [blocks |-> m.maps[z].blocks, refs |-> IF z = a THEN r + 1 ELSE m.maps[z].refs]
  <2> TAKE z \in DOMAIN m.maps
  <2>1. CASE z = a
    BY <1>3, <1>4, <2>1
  <2>2. CASE z # a
    <3>1. m.maps[z] = [blocks |-> m.maps[z].blocks, refs |-> m.maps[z].refs]
      BY DEF MemOK
    <3> QED
      BY <1>4, <2>2, <3>1
  <2> QED
    BY <2>1, <2>2
<1>7. m2.heap = m.heap /\ m2.maps = g
  BY <1>2
<1>8. MemOK(m2)
  BY <1>2, <1>5, <1>6, <1>7 DEF MemOK
<1>9. a # NoMemory
  BY DEF Owned
<1>10. Unmapped(M) = Unmapped(L)
  BY <1>9 DEF Unmapped
<1>11. IsFiniteSet(L) /\ IsFiniteSet(M)
  BY FS_AddElement DEF Owned
<1>12. IsFiniteSet(Holding(L, a))
  <2>1. Holding(L, a) \in SUBSET L
    BY DEF Holding
  <2> QED
    BY <1>11, <2>1, FS_Subset
<1>13. r = Cardinality(Holding(L, a)) /\ r \in Nat
  BY <1>12, FS_CardinalityType DEF Owned
<1>14. \A z \in DOMAIN g : g[z].refs = Cardinality(Holding(M, z))
  <2> TAKE z \in DOMAIN g
  <2>1. CASE z = a
    <3>1. Holding(M, a) = Holding(L, a) \cup {x} /\ x \notin Holding(L, a)
      BY DEF Holding
    <3>2. Cardinality(Holding(M, a)) = r + 1
      BY <1>12, <1>13, <3>1, FS_AddElement
    <3>3. g[a] = [blocks |-> m.maps[a].blocks, refs |-> r + 1]
      BY <1>5, <1>6, <2>1
    <3>4. g[a].refs = r + 1
      BY <3>3
    <3> QED
      BY <2>1, <3>2, <3>4
  <2>2. CASE z # a
    <3>1. Holding(M, z) = Holding(L, z)
      BY <2>2 DEF Holding
    <3>2. m.maps[z].refs = Cardinality(Holding(L, z))
      BY <1>5 DEF Owned
    <3>3. g[z] = [blocks |-> m.maps[z].blocks, refs |-> m.maps[z].refs]
      BY <1>5, <1>6, <2>2
    <3>4. g[z].refs = m.maps[z].refs
      BY <3>3
    <3> QED
      BY <3>1, <3>2, <3>4
  <2> QED
    BY <2>1, <2>2
<1>15. \A c \in M : c.column.mapped \in DOMAIN g \cup {NoMemory}
  BY <1>5 DEF Owned
<1>16. NoMemory \notin DOMAIN g
  BY <1>5 DEF Owned
<1> HIDE DEF M
<1>17. Owned(M, m2)
  BY <1>7, <1>10, <1>11, <1>14, <1>15, <1>16 DEF Owned
<1> QED
  BY <1>5, <1>6, <1>7, <1>8, <1>13, <1>17 DEF m2, M, r, Held

-----------------------------------------------------------------------------
(* Reading tables *)

\* What the columns of L hold is in m2 as it was in m.
Kept(L, m, m2) ==
  \A c \in L :
    /\ c.column.mapped = NoMemory =>
         \A p \in Range(c.column.pages) : m2.heap[p] = m.heap[p]
    /\ c.column.mapped # NoMemory =>
         m2.maps[c.column.mapped].blocks = m.maps[c.column.mapped].blocks
AreIn(columns, L) == \A i \in DOMAIN columns : \E c \in L : c.column = columns[i]

LEMMA ReadingKept ==
  ASSUME NEW L, NEW m, NEW m2, Kept(L, m, m2), NEW columns, AreIn(columns, L)
  PROVE  ReadAll(m2, columns) = ReadAll(m, columns)
<1>1. ASSUME NEW i \in DOMAIN columns, NEW j \in DOMAIN columns[i].pages
      PROVE  Contents(m2, columns[i], columns[i].pages[j]) =
               Contents(m, columns[i], columns[i].pages[j])
  <2> DEFINE p == columns[i].pages[j]
  <2>1. PICK c \in L : c.column = columns[i]
    BY DEF AreIn
  <2>2. p \in Range(c.column.pages)
    BY <2>1 DEF Range
  <2> HIDE DEF p
  <2>3. CASE columns[i].mapped = NoMemory
    BY <2>1, <2>2, <2>3 DEF Kept, Contents, p
  <2>4. CASE columns[i].mapped # NoMemory
    BY <2>1, <2>4 DEF Kept, Contents
  <2> QED
    BY <2>3, <2>4 DEF p
<1>2. \A i \in DOMAIN columns :
        [j \in DOMAIN columns[i].pages |-> Contents(m2, columns[i], columns[i].pages[j])] =
        [j \in DOMAIN columns[i].pages |-> Contents(m, columns[i], columns[i].pages[j])]
  BY <1>1
<1> QED
  BY <1>2 DEF ReadAll

\* A table that is made leaves the others as they are, ...
LEMMA MakingKeeps ==
  ASSUME NEW L, NEW m, Owned(L, m), NEW m2, NEW columns, NEW contents,
         TableMade(m, m2, columns, contents)
  PROVE  Kept(L, m, m2)
<1>1. m2.maps = m.maps /\ \A p \in DOMAIN m.heap : m2.heap[p] = m.heap[p]
  BY DEF TableMade
<1>2. \A c \in L : c.column.mapped = NoMemory => Range(c.column.pages) \subseteq DOMAIN m.heap
  BY DEF Owned, Unmapped
<1> QED
  BY <1>1, <1>2 DEF Kept

\* ... and reads as its contents.
LEMMA MadeReads ==
  ASSUME NEW m, NEW m2, NEW columns, NEW V, NEW contents \in Seq(Seq(V)),
         TableMade(m, m2, columns, contents), Len(columns) = Len(contents)
  PROVE  ReadAll(m2, columns) = contents
<1> DEFINE n == Len(contents)
<1>1. columns \in Seq(ColumnType) /\ n \in Nat /\ DOMAIN columns = 1 .. n
      /\ DOMAIN contents = 1 .. n
  BY DEF TableMade
<1>2. ASSUME NEW i \in 1 .. n
      PROVE  [j \in DOMAIN columns[i].pages |-> Contents(m2, columns[i], columns[i].pages[j])]
               = contents[i]
  <2> DEFINE c == columns[i]
             s == contents[i]
  <2>1. c \in ColumnType /\ s \in Seq(V)
    BY <1>1, ElementOfSeq
  <2>2. c.mapped = NoMemory /\ Len(c.pages) = Len(s)
        /\ \A j \in DOMAIN c.pages : m2.heap[c.pages[j]] = s[j]
    BY <1>1 DEF TableMade
  <2>3. c.pages \in Seq(Nat)
    BY <2>1 DEF ColumnType
  <2> HIDE DEF c, s
  <2>4. DOMAIN c.pages = DOMAIN s
    BY <2>1, <2>2, <2>3
  <2>5. \A j \in DOMAIN c.pages : Contents(m2, c, c.pages[j]) = s[j]
    BY <2>2 DEF Contents
  <2>6. s = [j \in DOMAIN s |-> s[j]]
    BY <2>1
  <2>7. [j \in DOMAIN c.pages |-> Contents(m2, c, c.pages[j])] = s
    BY <2>4, <2>5, <2>6
  <2> QED
    BY <2>7 DEF c, s
<1>3. contents = [i \in 1 .. n |-> contents[i]]
  BY <1>1
<1> HIDE DEF n
<1>4. ReadAll(m2, columns) = [i \in 1 .. n |-> contents[i]]
  BY <1>1, <1>2 DEF ReadAll
<1> QED
  BY <1>3, <1>4

\* The types of a file's numbers of pages, and of what they are to hold.
LEMMA TableKnown ==
  ASSUME NEW f \in Files
  PROVE  /\ NumPages[f] \in Seq(Nat) /\ Len(NumPages[f]) \in Nat \ {0}
         /\ DOMAIN NumPages[f] = 1 .. Len(NumPages[f])
         /\ \A i \in 1 .. Len(NumPages[f]) : NumPages[f][i] \in Nat
         /\ Truth(f) \in Seq(Seq(Files \X Nat \X Nat))
         /\ Len(Truth(f)) = Len(NumPages[f])
         /\ \A i \in 1 .. Len(NumPages[f]) :
              /\ Truth(f)[i] \in Seq(Files \X Nat \X Nat)
              /\ Len(Truth(f)[i]) = NumPages[f][i]
              /\ DOMAIN Truth(f)[i] = 1 .. NumPages[f][i]
<1> DEFINE n == Len(NumPages[f])
           V == Files \X Nat \X Nat
           T == Truth(f)
<1>1. NumPages[f] \in Seq(Nat) /\ n \in Nat \ {0} /\ DOMAIN NumPages[f] = 1 .. n
  BY ColumnsFit
<1>2. \A i \in 1 .. n : NumPages[f][i] \in Nat
  BY <1>1
<1>3. T = [i \in 1 .. n |-> [j \in 1 .. NumPages[f][i] |-> <<f, i, j>>]]
  BY <1>1 DEF Truth
<1> HIDE DEF T, n, V
<1>4. ASSUME NEW i \in 1 .. n
      PROVE  T[i] \in Seq(V) /\ Len(T[i]) = NumPages[f][i] /\ DOMAIN T[i] = 1 .. NumPages[f][i]
  <2> DEFINE k == NumPages[f][i]
             s == [j \in 1 .. k |-> <<f, i, j>>]
  <2>1. T[i] = s
    BY <1>3
  <2>2. k \in Nat
    BY <1>2
  <2>3. \A j \in 1 .. k : <<f, i, j>> \in V
    BY <1>1, <2>2 DEF V
  <2> HIDE DEF k
  <2>4. DOMAIN s = 1 .. k /\ \A j \in 1 .. k : s[j] \in V
    BY <2>3
  <2>5. s = [j \in 1 .. k |-> s[j]]
    OBVIOUS
  <2> HIDE DEF s, V
  <2>6. s \in [1 .. k -> V]
    BY <2>4, <2>5
  <2>7. s \in Seq(V) /\ Len(s) = k
    BY <2>2, <2>4, <2>6
  <2> QED
    BY <2>1, <2>4, <2>7 DEF k
<1>5. T \in [1 .. n -> Seq(V)]
  <2>1. DOMAIN T = 1 .. n /\ T = [i \in 1 .. n |-> T[i]]
    BY <1>3
  <2> QED
    BY <1>4, <2>1
<1>6. T \in Seq(Seq(V)) /\ Len(T) = n
  BY <1>1, <1>5
<1> QED
  BY <1>1, <1>2, <1>4, <1>6 DEF T, n, V

-----------------------------------------------------------------------------
(* Files *)

\* A table that reads as its file's truth is dumped as its file.
LEMMA BlocksOfFile ==
  ASSUME NEW f \in Files, NEW columns \in Seq(ColumnType), ReadAll(mem, columns) = Truth(f)
  PROVE  Blocks(columns) = FileOf(f)
<1> DEFINE n == Len(NumPages[f])
           s == [i \in DOMAIN columns |->
                   [j \in DOMAIN columns[i].pages |-> Contents(mem, columns[i], columns[i].pages[j])]]
<1>1. /\ n \in Nat /\ DOMAIN NumPages[f] = 1 .. n /\ NumPages[f] \in Seq(Nat)
      /\ Len(Truth(f)) = n /\ Truth(f) \in Seq(Seq(Files \X Nat \X Nat))
      /\ \A i \in 1 .. n : DOMAIN Truth(f)[i] = 1 .. NumPages[f][i] /\ NumPages[f][i] \in Nat
  BY TableKnown
<1>2. s = Truth(f)
  BY DEF ReadAll
<1>3. DOMAIN columns = 1 .. n
  <2>1. DOMAIN Truth(f) = 1 .. n
    BY <1>1
  <2>2. DOMAIN s = DOMAIN columns
    OBVIOUS
  <2> QED
    BY <1>2, <2>1, <2>2
<1>4. ASSUME NEW i \in 1 .. n
      PROVE  Len(columns[i].pages) = NumPages[f][i]
  <2>1. columns[i] \in ColumnType
    BY <1>3, ElementOfSeq
  <2>2. columns[i].pages \in Seq(Nat)
    BY <2>1 DEF ColumnType
  <2>3. DOMAIN s[i] = DOMAIN columns[i].pages
    BY <1>3
  <2>4. DOMAIN s[i] = 1 .. NumPages[f][i]
    BY <1>1, <1>2
  <2>5. DOMAIN columns[i].pages = 1 .. NumPages[f][i] /\ NumPages[f][i] \in Nat
    BY <1>1, <2>3, <2>4
  <2> QED
    BY <2>2, <2>5
<1>5. [i \in DOMAIN columns |-> Len(columns[i].pages)] = NumPages[f]
  <2>1. NumPages[f] = [i \in 1 .. n |-> NumPages[f][i]]
    BY <1>1
  <2>2. [i \in 1 .. n |-> Len(columns[i].pages)] = [i \in 1 .. n |-> NumPages[f][i]]
    BY <1>4
  <2> QED
    BY <1>3, <2>1, <2>2
<1> QED
  BY <1>5 DEF Blocks, Header, FileOf

\* A file is its header, and the pages.
Block(f) == {[numPages |-> NumPages[f]]} \cup (Files \X Nat \X Nat)
LEMMA FileKnown ==
  ASSUME NEW f \in Files
  PROVE  /\ FileOf(f) \in Seq(Block(f))
         /\ Len(FileOf(f)) = 1 + Len(FlattenSeq(Truth(f)))
         /\ Len(FlattenSeq(Truth(f))) \in Nat
         /\ FileOf(f)[1] = [numPages |-> NumPages[f]]
         /\ \A p \in 1 .. Len(FlattenSeq(Truth(f))) :
              FileOf(f)[1 + p] = FlattenSeq(Truth(f))[p]
<1> DEFINE V == Files \X Nat \X Nat
           h == [numPages |-> NumPages[f]]
           s == FlattenSeq(Truth(f))
           B == Block(f)
<1>1. Truth(f) \in Seq(Seq(V))
  BY TableKnown
<1>2. s \in Seq(V)
  <2> HIDE DEF V
  <2> QED
    BY <1>1, FlattenPlaces
<1>3. h \in B /\ V \subseteq B /\ FileOf(f) = <<h>> \o s
  BY DEF Block, FileOf
<1> HIDE DEF V, h, s, B
<1>4. s \in Seq(B) /\ <<h>> \in Seq(B) /\ Len(<<h>>) = 1 /\ <<h>>[1] = h
  BY <1>2, <1>3, SeqMonotonic
<1>5. /\ <<h>> \o s \in Seq(B)
      /\ Len(<<h>> \o s) = 1 + Len(s)
      /\ (<<h>> \o s)[1] = h
      /\ \A p \in 1 .. Len(s) : (<<h>> \o s)[1 + p] = s[p]
      /\ Len(s) \in Nat
  BY <1>4
<1> QED
  BY <1>3, <1>5 DEF s, h, B

\* A part of a file is a sequence, and more of it can follow.
LEMMA PartKnown ==
  ASSUME NEW f \in Files, NEW blocks, PartOf(blocks, f)
  PROVE  /\ blocks \in Seq(Block(f))
         /\ Len(blocks) \in Nat /\ Len(blocks) <= Len(FileOf(f))
         /\ \A j \in 1 .. Len(blocks) : blocks[j] = FileOf(f)[j]
         /\ Len(blocks) = Len(FileOf(f)) => blocks = FileOf(f)
         /\ Len(blocks) < Len(FileOf(f)) => PartOf(Append(blocks, FileOf(f)[Len(blocks) + 1]), f)
<1> DEFINE F == FileOf(f)
           B == Block(f)
<1>1. F \in Seq(B) /\ Len(F) \in Nat /\ DOMAIN F = 1 .. Len(F)
  <2>1. F \in Seq(B)
    BY FileKnown
  <2> HIDE DEF F
  <2> QED
    BY <2>1
<1>2. PICK k \in 0 .. Len(F) : blocks = [j \in 1 .. k |-> F[j]]
  BY DEF PartOf
<1> HIDE DEF F, B
<1>3. k \in Nat /\ k <= Len(F) /\ DOMAIN blocks = 1 .. k /\ \A j \in 1 .. k : blocks[j] = F[j]
  BY <1>1, <1>2
<1>4. \A j \in 1 .. Len(F) : F[j] \in B
  BY <1>1, ElementOfSeq
<1>5. \A j \in 1 .. k : F[j] \in B
  BY <1>1, <1>3, <1>4
<1>6. blocks \in [1 .. k -> B]
  BY <1>2, <1>5
<1>7. blocks \in Seq(B) /\ Len(blocks) = k
  BY <1>3, <1>6
<1>8. k = Len(F) => blocks = F
  <2>1. F = [j \in 1 .. Len(F) |-> F[j]]
    BY <1>1
  <2> QED
    BY <1>2, <2>1
<1>9. ASSUME k < Len(F)
      PROVE  PartOf(Append(blocks, F[k + 1]), f)
  <2> DEFINE more == Append(blocks, F[k + 1])
             next == [j \in 1 .. k + 1 |-> F[j]]
  <2>1. k + 1 \in 1 .. Len(F) /\ k + 1 \in 0 .. Len(F) /\ F[k + 1] \in B
    BY <1>1, <1>3, <1>4, <1>9
  <2>2. more \in Seq(B) /\ Len(more) = k + 1 /\ more[k + 1] = F[k + 1]
        /\ \A j \in 1 .. k : more[j] = blocks[j]
    BY <1>3, <1>7, <2>1
  <2> HIDE DEF more
  <2>3. \A j \in 1 .. k + 1 : more[j] = F[j]
    <3> TAKE j \in 1 .. k + 1
    <3>1. j \in 1 .. k \/ j = k + 1
      BY <1>3
    <3> QED
      BY <1>3, <2>2, <3>1
  <2>4. DOMAIN more = 1 .. k + 1 /\ more = [j \in DOMAIN more |-> more[j]]
    BY <2>2
  <2>5. more = next
    BY <2>3, <2>4
  <2>6. PartOf(more, f)
    BY <2>1, <2>5 DEF PartOf, F
  <2> QED
    BY <2>6 DEF more
<1> QED
  BY <1>3, <1>7, <1>8, <1>9 DEF F, B

\* Where the pages of each column are in the file.
LEMMA Places ==
  ASSUME NEW f \in Files
  PROVE  /\ Starts(StartOf(f), Truth(f))
         /\ Len(FlattenSeq(Truth(f))) = StartOf(f)[Len(Truth(f))]
         /\ \A i \in 1 .. Len(Truth(f)) : \A j \in 1 .. Len(Truth(f)[i]) :
              FlattenSeq(Truth(f))[StartOf(f)[i - 1] + j] = Truth(f)[i][j]
<1> DEFINE T == Truth(f)
           V == Files \X Nat \X Nat
           P(start) ==
             /\ Starts(start, T)
             /\ Len(FlattenSeq(T)) = start[Len(T)]
             /\ \A i \in 1 .. Len(T) : \A j \in 1 .. Len(T[i]) :
                  FlattenSeq(T)[start[i - 1] + j] = T[i][j]
<1>1. T \in Seq(Seq(V))
  BY TableKnown
<1>2. StartOf(f) = CHOOSE start : P(start)
  BY DEF StartOf
<1>3. \E start : P(start)
  <2> HIDE DEF T, V
  <2> QED
    BY <1>1, FlattenPlaces
<1> HIDE DEF P
<1>4. P(StartOf(f))
  BY <1>2, <1>3
<1> QED
  BY <1>4 DEF P

\* The starts, in numbers of pages.
LEMMA StartsKnown ==
  ASSUME NEW f \in Files
  PROVE  /\ StartOf(f) \in [0 .. Len(NumPages[f]) -> Nat]
         /\ StartOf(f)[0] = 0
         /\ \A i \in 1 .. Len(NumPages[f]) :
              /\ StartOf(f)[i] = StartOf(f)[i - 1] + NumPages[f][i]
              /\ StartOf(f)[i] <= Len(FlattenSeq(Truth(f)))
<1> DEFINE n == Len(NumPages[f])
           s == StartOf(f)
           last == Len(FlattenSeq(Truth(f)))
<1>1. n \in Nat /\ Len(Truth(f)) = n /\ \A i \in 1 .. n : NumPages[f][i] \in Nat
                                                   /\ Len(Truth(f)[i]) = NumPages[f][i]
  BY TableKnown
<1>2. /\ s \in [0 .. n -> Nat] /\ s[0] = 0 /\ last = s[n]
      /\ \A i \in 1 .. n : s[i] = s[i - 1] + NumPages[f][i]
  <2>1. Starts(s, Truth(f)) /\ last = s[Len(Truth(f))]
    BY Places
  <2>2. /\ s \in [0 .. Len(Truth(f)) -> Nat] /\ s[0] = 0
        /\ \A i \in 1 .. Len(Truth(f)) : s[i] = s[i - 1] + Len(Truth(f)[i])
    BY <2>1 DEF Starts
  <2> HIDE DEF n, s, last
  <2> QED
    BY <1>1, <2>1, <2>2
<1> HIDE DEF n, s, last
<1> DEFINE T == {k \in 0 .. n : s[n - k] <= s[n]}
<1>3. 0 \in T
  BY <1>1, <1>2
<1>4. ASSUME NEW k \in 0 .. n - 1, k \in T
      PROVE  k + 1 \in T
  <2>1. n - k \in 1 .. n /\ k + 1 \in 0 .. n /\ n - (k + 1) \in 0 .. n /\ n - k - 1 = n - (k + 1)
    BY <1>1
  <2>2. s[n - k] = s[n - (k + 1)] + NumPages[f][n - k] /\ NumPages[f][n - k] \in Nat
    BY <1>1, <1>2, <2>1
  <2>3. s[n - k] <= s[n] /\ s[n] \in Nat /\ s[n - (k + 1)] \in Nat
    BY <1>2, <1>1, <1>4, <2>1
  <2> QED
    BY <2>1, <2>2, <2>3
<1> HIDE DEF T
<1>5. \A k \in 0 .. n : k \in T
  BY <1>1, <1>3, <1>4, PrefixInduction
<1>6. ASSUME NEW i \in 1 .. n
      PROVE  s[i] <= last
  <2>1. n - i \in 0 .. n /\ n - (n - i) = i
    BY <1>1
  <2>2. s[n - (n - i)] <= s[n]
    BY <1>5, <2>1 DEF T
  <2> QED
    BY <1>2, <2>1, <2>2
<1> QED
  BY <1>2, <1>6 DEF n, s, last

\* A whole file that is mapped column by column reads as its truth.
LEMMA MappedReads ==
  ASSUME NEW f \in Files, NEW m, NEW a, a # NoMemory, m.maps[a].blocks = FileOf(f),
         NEW columns \in Seq(ColumnType), Len(columns) = Len(NumPages[f]),
         \A i \in DOMAIN columns :
           columns[i] = [mapped |-> a,
                         pages |-> [j \in 1 .. NumPages[f][i] |-> 2 + StartOf(f)[i - 1] + j - 1]]
  PROVE  ReadAll(m, columns) = Truth(f)
<1> DEFINE n == Len(NumPages[f])
           T == Truth(f)
           F == FileOf(f)
           s == StartOf(f)
           N(i) == NumPages[f][i]
<1>1. /\ n \in Nat /\ Len(T) = n /\ T \in Seq(Seq(Files \X Nat \X Nat))
      /\ \A i \in 1 .. n : /\ N(i) \in Nat /\ Len(T[i]) = N(i) /\ DOMAIN T[i] = 1 .. N(i)
                           /\ T[i] \in Seq(Files \X Nat \X Nat)
  BY TableKnown
<1>2. DOMAIN columns = 1 .. n /\ DOMAIN T = 1 .. n /\ T = [i \in 1 .. n |-> T[i]]
  <2>1. DOMAIN columns = 1 .. Len(columns) /\ DOMAIN T = 1 .. Len(T) /\ T = [i \in DOMAIN T |-> T[i]]
    BY <1>1
  <2> QED
    BY <1>1, <2>1
<1>3. ASSUME NEW i \in 1 .. n, NEW j \in 1 .. N(i)
      PROVE  Contents(m, columns[i], 2 + s[i - 1] + j - 1) = T[i][j]
  <2> DEFINE p == s[i - 1] + j
             last == Len(FlattenSeq(T))
  <2>1. i - 1 \in 0 .. n /\ N(i) \in Nat
    BY <1>1
  <2>2. s[i - 1] \in Nat /\ s[i] = s[i - 1] + N(i) /\ s[i] <= last
    BY <2>1, StartsKnown
  <2>3. last \in Nat /\ Len(F) = 1 + last /\ F \in Seq(Block(f))
        /\ \A q \in 1 .. last : F[1 + q] = FlattenSeq(T)[q]
    BY FileKnown
  <2>4. FlattenSeq(T)[p] = T[i][j]
    <3>1. \A k \in 1 .. Len(T) : \A q \in 1 .. Len(T[k]) : FlattenSeq(T)[s[k - 1] + q] = T[k][q]
      BY Places
    <3>2. i \in 1 .. Len(T) /\ j \in 1 .. Len(T[i])
      BY <1>1
    <3> HIDE DEF T, s
    <3> QED
      BY <3>1, <3>2
  <2> HIDE DEF last, T, F, s, N
  <2>5. p \in 1 .. last /\ 2 + s[i - 1] + j - 1 = 1 + p /\ 1 + p \in 1 .. Len(F)
    <3> DEFINE x == s[i - 1]
               y == N(i)
    <3>1. x \in Nat /\ y \in Nat /\ j \in 1 .. y /\ x + y <= last
      BY <2>1, <2>2
    <3>2. last \in Nat /\ Len(F) = 1 + last
      BY <2>3
    <3> HIDE DEF x, y
    <3>3. x + j \in 1 .. last /\ 2 + x + j - 1 = 1 + (x + j) /\ 1 + (x + j) \in 1 .. 1 + last
      BY <3>1, <3>2
    <3> QED
      BY <3>2, <3>3 DEF x
  <2>6. DOMAIN F = 1 .. Len(F)
    BY <2>3
  <2>7. F[1 + p] = T[i][j]
    BY <2>3, <2>4, <2>5
  <2> HIDE DEF p
  <2>8. columns[i].mapped = a
    <3>1. i \in DOMAIN columns
      BY <1>2
    <3>2. columns[i] = [mapped |-> a,
                        pages |-> [k \in 1 .. NumPages[f][i] |-> 2 + StartOf(f)[i - 1] + k - 1]]
      BY <3>1
    <3> QED
      BY <3>2
  <2>9. m.maps[columns[i].mapped].blocks = F
    BY <2>8 DEF F
  <2>10. columns[i].mapped # NoMemory
    BY <2>8
  <2> QED
    BY <2>5, <2>6, <2>7, <2>9, <2>10 DEF Contents
<1>4. ASSUME NEW i \in 1 .. n
      PROVE  [j \in DOMAIN columns[i].pages |-> Contents(m, columns[i], columns[i].pages[j])] = T[i]
  <2> DEFINE c == columns[i]
  <2>1. c.pages = [j \in 1 .. N(i) |-> 2 + s[i - 1] + j - 1]
    <3>1. i \in DOMAIN columns
      BY <1>2
    <3>2. columns[i] = [mapped |-> a, pages |-> [j \in 1 .. N(i) |-> 2 + s[i - 1] + j - 1]]
      BY <3>1
    <3> HIDE DEF N, s
    <3> QED
      BY <3>2
  <2>2. T[i] = [j \in 1 .. N(i) |-> T[i][j]]
    <3>1. T[i] = [j \in DOMAIN T[i] |-> T[i][j]]
      BY <1>1
    <3> QED
      BY <1>1, <3>1
  <2>3. \A j \in 1 .. N(i) : Contents(m, c, 2 + s[i - 1] + j - 1) = T[i][j]
    BY <1>3
  <2> HIDE DEF c, N, s, T
  <2>4. DOMAIN c.pages = 1 .. N(i) /\ \A j \in 1 .. N(i) : c.pages[j] = 2 + s[i - 1] + j - 1
    BY <2>1
  <2>5. \A j \in DOMAIN c.pages : Contents(m, c, c.pages[j]) = T[i][j]
    BY <2>3, <2>4
  <2>6. [j \in DOMAIN c.pages |-> Contents(m, c, c.pages[j])] = [j \in 1 .. N(i) |-> T[i][j]]
    BY <2>4, <2>5
  <2> QED
    BY <2>2, <2>6 DEF c
<1> HIDE DEF T, n
<1>5. ReadAll(m, columns) = [i \in 1 .. n |-> T[i]]
  BY <1>2, <1>4 DEF ReadAll
<1> QED
  BY <1>2, <1>5 DEF T

-----------------------------------------------------------------------------
(* The names of the columns that are alive *)

Named(l, r, t, u) ==
  ColumnsOf("local", 0, l) \cup ColumnsOf("results", 0, r)
    \cup ColumnsOfTables("inputs", t) \cup ColumnsOfTables("forever", u)

LEMMA LiveNamed == live = Named(local, results, inputs, forever)
BY DEF live, Named

LEMMA NothingNamed ==
  ASSUME NEW name, NEW k
  PROVE  ColumnsOf(name, k, <<>>) = {}
BY DEF ColumnsOf

\* Names tell the tables apart.
LEMMA NamesApart ==
  ASSUME NEW t, NEW u
  PROVE  /\ \A c \in ColumnsOfTables("inputs", t) :
              c.in = "inputs" /\ c.table \in DOMAIN t
              /\ c \in ColumnsOf("inputs", c.table, t[c.table].columns)
         /\ \A c \in ColumnsOfTables("forever", u) :
              c.in = "forever" /\ c.table \in DOMAIN u
              /\ c \in ColumnsOf("forever", c.table, u[c.table].columns)
<1>1. ASSUME NEW c \in ColumnsOfTables("inputs", t)
      PROVE  c.in = "inputs" /\ c.table \in DOMAIN t
             /\ c \in ColumnsOf("inputs", c.table, t[c.table].columns)
  <2>1. PICK i \in DOMAIN t : c \in ColumnsOf("inputs", i, t[i].columns)
    BY DEF ColumnsOfTables
  <2>2. c.in = "inputs" /\ c.table = i
    BY <2>1, ColumnsIn
  <2> QED
    BY <2>1, <2>2
<1>2. ASSUME NEW c \in ColumnsOfTables("forever", u)
      PROVE  c.in = "forever" /\ c.table \in DOMAIN u
             /\ c \in ColumnsOf("forever", c.table, u[c.table].columns)
  <2>1. PICK i \in DOMAIN u : c \in ColumnsOf("forever", i, u[i].columns)
    BY DEF ColumnsOfTables
  <2>2. c.in = "forever" /\ c.table = i
    BY <2>1, ColumnsIn
  <2> QED
    BY <2>1, <2>2
<1> QED
  BY <1>1, <1>2

\* The columns of one table, and the others.
LEMMA LocalApart ==
  ASSUME NEW l, NEW r, NEW t, NEW u
  PROVE  /\ Named(l, r, t, u) = Named(<<>>, r, t, u) \cup ColumnsOf("local", 0, l)
         /\ Named(<<>>, r, t, u) \cap ColumnsOf("local", 0, l) = {}
<1>1. Named(l, r, t, u) = Named(<<>>, r, t, u) \cup ColumnsOf("local", 0, l)
  BY NothingNamed DEF Named
<1>2. \A c \in ColumnsOf("local", 0, l) : c.in = "local"
  BY ColumnsIn
<1>3. \A c \in ColumnsOf("results", 0, r) : c.in = "results"
  BY ColumnsIn
<1>4. \A c \in Named(<<>>, r, t, u) : c.in # "local"
  BY <1>3, NothingNamed, NamesApart DEF Named
<1> QED
  BY <1>1, <1>2, <1>4

LEMMA ResultsApart ==
  ASSUME NEW l, NEW r, NEW t, NEW u
  PROVE  /\ Named(l, r, t, u) = Named(l, <<>>, t, u) \cup ColumnsOf("results", 0, r)
         /\ Named(l, <<>>, t, u) \cap ColumnsOf("results", 0, r) = {}
<1>1. Named(l, r, t, u) = Named(l, <<>>, t, u) \cup ColumnsOf("results", 0, r)
  BY NothingNamed DEF Named
<1>2. \A c \in ColumnsOf("local", 0, l) : c.in = "local"
  BY ColumnsIn
<1>3. \A c \in ColumnsOf("results", 0, r) : c.in = "results"
  BY ColumnsIn
<1>4. \A c \in Named(l, <<>>, t, u) : c.in # "results"
  BY <1>2, NothingNamed, NamesApart DEF Named
<1> QED
  BY <1>1, <1>3, <1>4

\* The last of the sequences of tables.
LEMMA LastOfTables ==
  ASSUME NEW t \in Seq(TableType), NEW x \in TableType, NEW name
  PROVE  /\ ColumnsOfTables(name, Append(t, x)) =
              ColumnsOfTables(name, t) \cup ColumnsOf(name, Len(t) + 1, x.columns)
         /\ \A c \in ColumnsOfTables(name, t) : c.in = name /\ c.table # Len(t) + 1
<1> DEFINE all(s) == UNION {ColumnsOf(name, i, s[i].columns) : i \in DOMAIN s}
           n == Len(t)
           s == Append(t, x)
<1>1. /\ n \in Nat /\ DOMAIN t = 1 .. n
      /\ DOMAIN s = 1 .. n + 1 /\ s[n + 1] = x /\ \A i \in 1 .. n : s[i] = t[i]
  OBVIOUS
<1> HIDE DEF s, n
<1>2. 1 .. n + 1 = (1 .. n) \cup {n + 1} /\ \A i \in 1 .. n : i # n + 1
  BY <1>1
<1>3. all(s) = all(t) \cup ColumnsOf(name, n + 1, x.columns)
  <2>1. ASSUME NEW c \in all(s)
        PROVE  c \in all(t) \cup ColumnsOf(name, n + 1, x.columns)
    <3>1. PICK i \in 1 .. n + 1 : c \in ColumnsOf(name, i, s[i].columns)
      BY <1>1
    <3>2. CASE i \in 1 .. n
      <4>1. c \in ColumnsOf(name, i, t[i].columns)
        BY <1>1, <3>1, <3>2
      <4> QED
        BY <1>1, <3>2, <4>1
    <3>3. CASE i = n + 1
      BY <1>1, <3>1, <3>3
    <3> QED
      BY <1>2, <3>2, <3>3
  <2>2. ASSUME NEW c \in all(t)
        PROVE  c \in all(s)
    <3>1. PICK i \in 1 .. n : c \in ColumnsOf(name, i, t[i].columns)
      BY <1>1
    <3>2. c \in ColumnsOf(name, i, s[i].columns) /\ i \in DOMAIN s
      BY <1>1, <1>2, <3>1
    <3> QED
      BY <3>2
  <2>3. ASSUME NEW c \in ColumnsOf(name, n + 1, x.columns)
        PROVE  c \in all(s)
    <3>1. c \in ColumnsOf(name, n + 1, s[n + 1].columns) /\ n + 1 \in DOMAIN s
      BY <1>1, <1>2
    <3> QED
      BY <3>1
  <2> HIDE DEF all
  <2> QED
    BY <2>1, <2>2, <2>3
<1>4. ASSUME NEW c \in all(t)
      PROVE  c.in = name /\ c.table # n + 1
  <2>1. PICK i \in 1 .. n : c \in ColumnsOf(name, i, t[i].columns)
    BY <1>1
  <2>2. c.in = name /\ c.table = i
    BY <2>1, ColumnsIn
  <2> QED
    BY <1>2, <2>2
<1> QED
  BY <1>3, <1>4 DEF s, n, ColumnsOfTables

LEMMA InputsApart ==
  ASSUME NEW l, NEW r, NEW t \in Seq(TableType), NEW u, NEW x \in TableType
  PROVE  LET new == ColumnsOf("inputs", Len(t) + 1, x.columns)
         IN  /\ Named(l, r, Append(t, x), u) = Named(l, r, t, u) \cup new
             /\ Named(l, r, t, u) \cap new = {}
<1> DEFINE new == ColumnsOf("inputs", Len(t) + 1, x.columns)
<1>1. /\ ColumnsOfTables("inputs", Append(t, x)) = ColumnsOfTables("inputs", t) \cup new
      /\ \A c \in ColumnsOfTables("inputs", t) : c.table # Len(t) + 1
  BY LastOfTables
<1>2. \A c \in new : c.in = "inputs" /\ c.table = Len(t) + 1
  BY ColumnsIn
<1>3. \A c \in ColumnsOf("local", 0, l) : c.in = "local"
  BY ColumnsIn
<1>4. \A c \in ColumnsOf("results", 0, r) : c.in = "results"
  BY ColumnsIn
<1>5. \A c \in ColumnsOfTables("forever", u) : c.in = "forever"
  BY NamesApart
<1> HIDE DEF new
<1>6. Named(l, r, t, u) \cap new = {}
  BY <1>1, <1>2, <1>3, <1>4, <1>5 DEF Named
<1>7. Named(l, r, Append(t, x), u) = Named(l, r, t, u) \cup new
  BY <1>1 DEF Named
<1> QED
  BY <1>6, <1>7 DEF new

LEMMA ForeverApart ==
  ASSUME NEW l, NEW r, NEW t, NEW u \in Seq(TableType), NEW x \in TableType
  PROVE  LET new == ColumnsOf("forever", Len(u) + 1, x.columns)
         IN  /\ Named(l, r, t, Append(u, x)) = Named(l, r, t, u) \cup new
             /\ Named(l, r, t, u) \cap new = {}
<1> DEFINE new == ColumnsOf("forever", Len(u) + 1, x.columns)
<1>1. /\ ColumnsOfTables("forever", Append(u, x)) = ColumnsOfTables("forever", u) \cup new
      /\ \A c \in ColumnsOfTables("forever", u) : c.table # Len(u) + 1
  BY LastOfTables
<1>2. \A c \in new : c.in = "forever" /\ c.table = Len(u) + 1
  BY ColumnsIn
<1>3. \A c \in ColumnsOf("local", 0, l) : c.in = "local"
  BY ColumnsIn
<1>4. \A c \in ColumnsOf("results", 0, r) : c.in = "results"
  BY ColumnsIn
<1>5. \A c \in ColumnsOfTables("inputs", t) : c.in = "inputs"
  BY NamesApart
<1> HIDE DEF new
<1>6. Named(l, r, t, u) \cap new = {}
  BY <1>1, <1>2, <1>3, <1>4, <1>5 DEF Named
<1>7. Named(l, r, t, Append(u, x)) = Named(l, r, t, u) \cup new
  BY <1>1 DEF Named
<1> QED
  BY <1>6, <1>7 DEF new

\* The first of the inputs, and the rest.
RestOf(t) == UNION {ColumnsOf("inputs", i, t[i].columns) : i \in DOMAIN t \ {1}}
LEMMA FirstApart ==
  ASSUME NEW t, 1 \in DOMAIN t
  PROVE  /\ ColumnsOfTables("inputs", t) = RestOf(t) \cup ColumnsOf("inputs", 1, t[1].columns)
         /\ \A c \in RestOf(t) :
              /\ c.in = "inputs" /\ c.table \in DOMAIN t \ {1}
              /\ c \in ColumnsOf("inputs", c.table, t[c.table].columns)
<1>1. ColumnsOfTables("inputs", t) = RestOf(t) \cup ColumnsOf("inputs", 1, t[1].columns)
  BY DEF ColumnsOfTables, RestOf
<1>2. ASSUME NEW c \in RestOf(t)
      PROVE  /\ c.in = "inputs" /\ c.table \in DOMAIN t \ {1}
             /\ c \in ColumnsOf("inputs", c.table, t[c.table].columns)
  <2>1. PICK i \in DOMAIN t \ {1} : c \in ColumnsOf("inputs", i, t[i].columns)
    BY DEF RestOf
  <2>2. c.in = "inputs" /\ c.table = i
    BY <2>1, ColumnsIn
  <2> QED
    BY <2>1, <2>2
<1> QED
  BY <1>1, <1>2

-----------------------------------------------------------------------------
(* Columns that get other names *)

\* The elements of T are the other names of those of S.
Renames(h, S, T) ==
  /\ \A x \in S : h[x] \in T /\ h[x].column = x.column
  /\ \A x, y \in S : h[x] = h[y] => x = y
  /\ \A z \in T : \E x \in S : h[x] = z

\* One part of the columns gets other names.
LEMMA PartRenamed ==
  ASSUME NEW B, NEW S, NEW T, NEW m, Owned(B \cup S, m), B \cap S = {}, B \cap T = {},
         NEW h, Renames(h, S, T)
  PROVE  Owned(B \cup T, m)
<1> DEFINE L == B \cup S
           M == B \cup T
           f == [x \in L |-> IF x \in B THEN x ELSE h[x]]
<1>10. /\ \A x \in S : h[x] \in T /\ h[x].column = x.column
       /\ \A x, y \in S : h[x] = h[y] => x = y
       /\ \A z \in T : \E x \in S : h[x] = z
  BY DEF Renames
<1>1. \A x \in B : f[x] = x
  OBVIOUS
<1>2. \A x \in S : f[x] = h[x] /\ x \notin B
  OBVIOUS
<1>3. f \in [L -> M]
  <2>1. \A x \in L : (IF x \in B THEN x ELSE h[x]) \in M
    BY <1>10
  <2> HIDE DEF M, L
  <2> QED
    BY <2>1
<1> HIDE DEF f
<1>4. \A x, y \in L : f[x] = f[y] => x = y
  <2> SUFFICES ASSUME NEW x \in L, NEW y \in L, f[x] = f[y]
               PROVE  x = y
    OBVIOUS
  <2>1. CASE x \in B /\ y \in B
    BY <1>1, <2>1
  <2>2. CASE x \in S /\ y \in S
    BY <1>2, <1>10, <2>2
  <2>3. CASE x \in B /\ y \in S
    <3>1. f[x] \in B /\ f[y] \in T
      BY <1>1, <1>2, <1>10, <2>3
    <3> QED
      BY <3>1
  <2>4. CASE x \in S /\ y \in B
    <3>1. f[y] \in B /\ f[x] \in T
      BY <1>1, <1>2, <1>10, <2>4
    <3> QED
      BY <3>1
  <2> QED
    BY <2>1, <2>2, <2>3, <2>4
<1>5. \A z \in M : \E x \in L : f[x] = z
  <2> TAKE z \in M
  <2>1. CASE z \in B
    BY <1>1, <2>1
  <2>2. CASE z \in T
    <3>1. PICK x \in S : h[x] = z
      BY <1>10, <2>2
    <3> QED
      BY <1>2, <3>1
  <2> QED
    BY <2>1, <2>2
<1>6. \A x \in L : f[x].column = x.column
  BY <1>1, <1>2, <1>10
<1> HIDE DEF L, M
<1>7. f \in Bijection(L, M)
  BY <1>3, <1>4, <1>5 DEF Bijection, Injection, Surjection, IsInjective
<1>8. Owned(L, m)
  BY DEF L
<1>9. Owned(M, m)
  BY <1>6, <1>7, <1>8, OwnedRenamed
<1> QED
  BY <1>9 DEF M

\* A table moves.
LEMMA TableMoved ==
  ASSUME NEW B, NEW m, NEW columns, NEW a, NEW i, NEW b, NEW j,
         Owned(B \cup ColumnsOf(a, i, columns), m),
         B \cap ColumnsOf(a, i, columns) = {}, B \cap ColumnsOf(b, j, columns) = {}
  PROVE  Owned(B \cup ColumnsOf(b, j, columns), m)
<1> DEFINE S == ColumnsOf(a, i, columns)
           T == ColumnsOf(b, j, columns)
           new(k) == [in |-> b, table |-> j, nr |-> k, column |-> columns[k]]
           h == [x \in S |-> new(x.nr)]
<1>1. ASSUME NEW x \in S
      PROVE  h[x] \in T /\ h[x].column = x.column /\ h[x].nr = x.nr
  <2>1. x.nr \in DOMAIN columns /\ x.column = columns[x.nr]
    BY ColumnsIn
  <2>2. new(x.nr) \in T
    BY <2>1, ColumnsIn
  <2>3. h[x] = new(x.nr)
    OBVIOUS
  <2>4. h[x].column = columns[x.nr] /\ h[x].nr = x.nr
    BY <2>3
  <2> HIDE DEF new
  <2> QED
    BY <2>1, <2>2, <2>3, <2>4
<1>2. ASSUME NEW x \in S, NEW y \in S, h[x] = h[y]
      PROVE  x = y
  <2>1. x.nr = y.nr
    BY <1>1, <1>2
  <2>2. /\ x = [in |-> a, table |-> i, nr |-> x.nr, column |-> columns[x.nr]]
        /\ y = [in |-> a, table |-> i, nr |-> y.nr, column |-> columns[y.nr]]
    BY ColumnsIn
  <2> QED
    BY <2>1, <2>2
<1>3. ASSUME NEW z \in T
      PROVE  \E x \in S : h[x] = z
  <2> DEFINE x == [in |-> a, table |-> i, nr |-> z.nr, column |-> columns[z.nr]]
  <2>1. z.nr \in DOMAIN columns /\ z = new(z.nr)
    BY ColumnsIn
  <2>2. x \in S
    BY <2>1, ColumnsIn
  <2>3. x.nr = z.nr
    OBVIOUS
  <2> HIDE DEF x
  <2>4. h[x] = new(z.nr)
    BY <2>2, <2>3
  <2> QED
    BY <2>1, <2>2, <2>4
<1> HIDE DEF S, T, h
<1>4. Owned(B \cup S, m) /\ B \cap S = {} /\ B \cap T = {}
  BY DEF S, T
<1>5. Renames(h, S, T)
  BY <1>1, <1>2, <1>3 DEF Renames
<1>6. Owned(B \cup T, m)
  BY <1>4, <1>5, PartRenamed
<1> QED
  BY <1>6 DEF T

\* A table loses its first column, and the others have the numbers before.
LEMMA TailNamed ==
  ASSUME NEW B, NEW m, NEW columns \in Seq(ColumnType), columns # <<>>, NEW a, NEW i,
         Owned(B \cup (ColumnsOf(a, i, columns)
                         \ {[in |-> a, table |-> i, nr |-> 1, column |-> columns[1]]}), m),
         B \cap ColumnsOf(a, i, columns) = {}, B \cap ColumnsOf(a, i, Tail(columns)) = {}
  PROVE  Owned(B \cup ColumnsOf(a, i, Tail(columns)), m)
<1> DEFINE n == Len(columns)
           rest == Tail(columns)
           first == [in |-> a, table |-> i, nr |-> 1, column |-> columns[1]]
           S == ColumnsOf(a, i, columns) \ {first}
           T == ColumnsOf(a, i, rest)
           new(k) == [in |-> a, table |-> i, nr |-> k, column |-> rest[k]]
           h == [x \in S |-> new(x.nr - 1)]
<1>1. /\ n \in Nat \ {0} /\ DOMAIN columns = 1 .. n
      /\ DOMAIN rest = 1 .. n - 1 /\ \A k \in 1 .. n - 1 : rest[k] = columns[k + 1]
  OBVIOUS
<1> HIDE DEF n, rest
<1>2. ASSUME NEW x \in S
      PROVE  /\ x.nr - 1 \in 1 .. n - 1 /\ x.nr \in 1 .. n
             /\ x = [in |-> a, table |-> i, nr |-> x.nr, column |-> columns[x.nr]]
  <2>1. /\ x.nr \in 1 .. n
        /\ x = [in |-> a, table |-> i, nr |-> x.nr, column |-> columns[x.nr]]
    BY <1>1, ColumnsIn
  <2>2. x.nr # 1
    <3> SUFFICES ASSUME x.nr = 1
                 PROVE  x = first
      OBVIOUS
    <3> QED
      BY <2>1
  <2> QED
    BY <1>1, <2>1, <2>2
<1>3. ASSUME NEW x \in S
      PROVE  h[x] \in T /\ h[x].column = x.column /\ h[x].nr = x.nr - 1
  <2> DEFINE k == x.nr - 1
  <2>1. k \in 1 .. n - 1 /\ k + 1 = x.nr
    BY <1>1, <1>2
  <2>2. x.column = columns[x.nr]
    BY <1>2
  <2>3. rest[k] = x.column
    BY <1>1, <2>1, <2>2
  <2>4. h[x] = new(k)
    OBVIOUS
  <2> HIDE DEF k
  <2>5. new(k) \in T
    BY <1>1, <2>1, ColumnsIn
  <2>6. h[x].column = rest[k] /\ h[x].nr = k
    BY <2>4
  <2> QED
    BY <2>3, <2>4, <2>5, <2>6 DEF k
<1>4. ASSUME NEW x \in S, NEW y \in S, h[x] = h[y]
      PROVE  x = y
  <2>1. x.nr - 1 = y.nr - 1
    BY <1>3, <1>4
  <2>2. x.nr = y.nr
    BY <1>1, <1>2, <2>1
  <2>3. x = [in |-> a, table |-> i, nr |-> x.nr, column |-> columns[x.nr]]
    BY <1>2
  <2>4. y = [in |-> a, table |-> i, nr |-> y.nr, column |-> columns[y.nr]]
    BY <1>2
  <2> HIDE DEF S
  <2> QED
    BY <2>2, <2>3, <2>4
<1>5. ASSUME NEW z \in T
      PROVE  \E x \in S : h[x] = z
  <2> DEFINE k == z.nr + 1
             x == [in |-> a, table |-> i, nr |-> k, column |-> columns[k]]
  <2>1. z.nr \in 1 .. n - 1 /\ z = new(z.nr)
    BY <1>1, ColumnsIn
  <2>2. k \in 1 .. n /\ k # 1 /\ k - 1 = z.nr
    BY <1>1, <2>1
  <2>3. x.nr = k /\ first.nr = 1
    OBVIOUS
  <2> HIDE DEF k, first
  <2>4. x \in ColumnsOf(a, i, columns)
    BY <1>1, <2>2, ColumnsIn
  <2>5. x \in S
    BY <2>2, <2>3, <2>4
  <2> HIDE DEF x, S, new
  <2>6. h[x] = new(z.nr)
    BY <2>2, <2>3, <2>5
  <2> QED
    BY <2>1, <2>5, <2>6
<1> HIDE DEF h
<1>6. Owned(B \cup S, m) /\ B \cap S = {} /\ B \cap T = {}
  BY DEF rest
<1> HIDE DEF S, T
<1>7. Renames(h, S, T)
  BY <1>3, <1>4, <1>5 DEF Renames
<1>8. Owned(B \cup T, m)
  BY <1>6, <1>7, PartRenamed
<1> QED
  BY <1>8 DEF T, rest

\* What m is when a column has gone and L is left: B is as it was.
Shortened(B, m, m2, L) ==
  /\ MemOK(m2) /\ Owned(L, m2)
  /\ \A a \in DOMAIN m2.maps : m2.maps[a].refs = 0 => a \in DOMAIN m.maps /\ m.maps[a].refs = 0
  /\ Kept(Unmapped(B), m, m2)

\* The first column of a table goes.
LEMMA FirstGone ==
  ASSUME NEW B, NEW m, MemOK(m), NEW columns \in Seq(ColumnType), columns # <<>>, NEW a, NEW i,
         Owned(B \cup ColumnsOf(a, i, columns), m),
         B \cap ColumnsOf(a, i, columns) = {}, B \cap ColumnsOf(a, i, Tail(columns)) = {}
  PROVE  Shortened(B, m, Destroy(m, columns[1]), B \cup ColumnsOf(a, i, Tail(columns)))
<1> DEFINE x == [in |-> a, table |-> i, nr |-> 1, column |-> columns[1]]
           S == ColumnsOf(a, i, columns)
           L == B \cup S
           m2 == Destroy(m, x.column)
<1>1. 1 \in DOMAIN columns /\ columns[1] \in ColumnType
  <2>1. Len(columns) \in Nat \ {0} /\ DOMAIN columns = 1 .. Len(columns)
    OBVIOUS
  <2>2. 1 \in DOMAIN columns
    BY <2>1
  <2> QED
    BY <2>2, ElementOfSeq
<1>2. x \in S /\ x.column = columns[1]
  BY <1>1, ColumnsIn
<1>3. x \notin B /\ L \ {x} = B \cup (S \ {x})
  BY <1>2
<1> HIDE DEF x, S, L
<1>4. x \in L /\ Owned(L, m)
  BY <1>2 DEF L, S
<1>5. /\ MemOK(m2)
      /\ Owned(L \ {x}, m2)
      /\ \A z \in DOMAIN m2.maps :
           z \in DOMAIN m.maps /\ (m2.maps[z].refs = 0 => m.maps[z].refs = 0)
      /\ \A d \in Unmapped(L) : d # x =>
           \A p \in Range(d.column.pages) : m2.heap[p] = m.heap[p]
  <2>1. x.column \in ColumnType
    BY <1>1, <1>2
  <2>2. ColumnTaken(L, m, x, Destroy(m, x.column))
    BY <1>4, <2>1, ColumnGone
  <2> QED
    BY <2>2 DEF ColumnTaken
<1> HIDE DEF m2
<1>6. Owned(B \cup (S \ {x}), m2)
  BY <1>3, <1>5
<1>7. Owned(B \cup ColumnsOf(a, i, Tail(columns)), m2)
  BY <1>6, TailNamed DEF S, x
<1>8. Kept(Unmapped(B), m, m2)
  BY <1>3, <1>5 DEF Kept, Unmapped, L
<1>9. m2 = Destroy(m, columns[1])
  BY <1>2 DEF m2
<1>10. Shortened(B, m, m2, B \cup ColumnsOf(a, i, Tail(columns)))
  BY <1>5, <1>7, <1>8 DEF Shortened
<1> QED
  BY <1>9, <1>10

\* The inputs after a table that has gone have the numbers before.
LEMMA RestNamed ==
  ASSUME NEW B, NEW m, NEW t \in Seq(TableType), t # <<>>, Owned(B \cup RestOf(t), m),
         \A c \in B : c.in # "inputs"
  PROVE  Owned(B \cup ColumnsOfTables("inputs", Tail(t)), m)
<1> DEFINE n == Len(t)
           u == Tail(t)
           S == RestOf(t)
           T == ColumnsOfTables("inputs", u)
           new(x) == [in |-> "inputs", table |-> x.table - 1, nr |-> x.nr, column |-> x.column]
           h == [x \in S |-> new(x)]
<1>1. /\ n \in Nat \ {0} /\ DOMAIN t = 1 .. n /\ 1 \in DOMAIN t
      /\ DOMAIN u = 1 .. n - 1 /\ \A k \in 1 .. n - 1 : u[k] = t[k + 1]
  <2>1. n \in Nat \ {0} /\ DOMAIN t = 1 .. n /\ DOMAIN u = 1 .. n - 1
        /\ \A k \in 1 .. n - 1 : u[k] = t[k + 1]
    OBVIOUS
  <2> HIDE DEF n
  <2> QED
    BY <2>1
<1> HIDE DEF n, u
<1>2. ASSUME NEW x \in S
      PROVE  /\ x.in = "inputs" /\ x.table \in 1 .. n /\ x.table - 1 \in 1 .. n - 1
             /\ u[x.table - 1] = t[x.table]
             /\ x.nr \in DOMAIN t[x.table].columns /\ x.column = t[x.table].columns[x.nr]
             /\ x = [in |-> "inputs", table |-> x.table, nr |-> x.nr, column |-> x.column]
  <2>1. x.in = "inputs" /\ x.table \in (1 .. n) \ {1}
        /\ x \in ColumnsOf("inputs", x.table, t[x.table].columns)
    BY <1>1, FirstApart
  <2>2. /\ x.nr \in DOMAIN t[x.table].columns /\ x.column = t[x.table].columns[x.nr]
        /\ x = [in |-> "inputs", table |-> x.table, nr |-> x.nr,
                column |-> t[x.table].columns[x.nr]]
    BY <2>1, ColumnsIn
  <2>3. x = [in |-> "inputs", table |-> x.table, nr |-> x.nr, column |-> x.column]
    BY <2>2
  <2>4. x.table - 1 \in 1 .. n - 1 /\ (x.table - 1) + 1 = x.table
    BY <1>1, <2>1
  <2>5. u[x.table - 1] = t[x.table]
    BY <1>1, <2>4
  <2> QED
    BY <2>1, <2>2, <2>3, <2>4, <2>5
<1>3. ASSUME NEW x \in S
      PROVE  h[x] \in T /\ h[x].column = x.column /\ h[x].nr = x.nr /\ h[x].table = x.table - 1
  <2> DEFINE k == x.table - 1
  <2>1. h[x] = [in |-> "inputs", table |-> k, nr |-> x.nr, column |-> x.column]
    OBVIOUS
  <2>2. k \in DOMAIN u /\ x.nr \in DOMAIN u[k].columns /\ x.column = u[k].columns[x.nr]
    BY <1>1, <1>2
  <2> HIDE DEF k, h, S
  <2>3. h[x] = [in |-> "inputs", table |-> k, nr |-> x.nr, column |-> u[k].columns[x.nr]]
    BY <2>1, <2>2
  <2>4. h[x] \in ColumnsOf("inputs", k, u[k].columns)
    BY <2>2, <2>3, ColumnsIn
  <2>5. h[x] \in T
    BY <2>2, <2>4 DEF ColumnsOfTables
  <2> HIDE DEF T
  <2>6. h[x].column = x.column /\ h[x].nr = x.nr /\ h[x].table = k
    BY <2>1
  <2> QED
    BY <2>5, <2>6 DEF k
<1>4. ASSUME NEW x \in S, NEW y \in S, h[x] = h[y]
      PROVE  x = y
  <2>1. x.table - 1 = y.table - 1 /\ x.nr = y.nr /\ x.column = y.column
    BY <1>3, <1>4
  <2>2. x.table = y.table
    BY <1>1, <1>2, <2>1
  <2>3. x = [in |-> "inputs", table |-> x.table, nr |-> x.nr, column |-> x.column]
    BY <1>2
  <2>4. y = [in |-> "inputs", table |-> y.table, nr |-> y.nr, column |-> y.column]
    BY <1>2
  <2> HIDE DEF S
  <2> QED
    BY <2>1, <2>2, <2>3, <2>4
<1>5. ASSUME NEW z \in T
      PROVE  \E x \in S : h[x] = z
  <2> DEFINE k == z.table + 1
             x == [in |-> "inputs", table |-> k, nr |-> z.nr, column |-> t[k].columns[z.nr]]
  <2>1. z.table \in 1 .. n - 1 /\ z \in ColumnsOf("inputs", z.table, u[z.table].columns)
    BY <1>1, NamesApart
  <2>2. /\ z.nr \in DOMAIN u[z.table].columns
        /\ z = [in |-> "inputs", table |-> z.table, nr |-> z.nr,
                column |-> u[z.table].columns[z.nr]]
    BY <2>1, ColumnsIn
  <2>3. k \in 1 .. n /\ k # 1 /\ k - 1 = z.table /\ u[z.table] = t[k]
    BY <1>1, <2>1
  <2> HIDE DEF k
  <2>4. x \in ColumnsOf("inputs", k, t[k].columns)
    BY <2>2, <2>3, ColumnsIn
  <2>5. x \in S
    BY <1>1, <2>3, <2>4 DEF RestOf
  <2>6. x.table = k /\ x.nr = z.nr /\ x.column = t[k].columns[z.nr]
    OBVIOUS
  <2> HIDE DEF x, S
  <2>7. h[x] = [in |-> "inputs", table |-> x.table - 1, nr |-> x.nr, column |-> x.column]
    BY <2>5
  <2>8. h[x] = z
    BY <2>2, <2>3, <2>6, <2>7
  <2> QED
    BY <2>5, <2>8
<1>6. B \cap S = {} /\ B \cap T = {}
  <2>1. \A c \in S : c.in = "inputs"
    BY <1>2
  <2>2. \A c \in T : c.in = "inputs"
    BY NamesApart
  <2> HIDE DEF S, T
  <2> QED
    BY <2>1, <2>2
<1> HIDE DEF h
<1>7. Owned(B \cup S, m)
  OBVIOUS
<1> HIDE DEF S, T
<1>8. Renames(h, S, T)
  BY <1>3, <1>4, <1>5 DEF Renames
<1>9. Owned(B \cup T, m)
  BY <1>6, <1>7, <1>8, PartRenamed
<1> QED
  BY <1>9 DEF T, u

-----------------------------------------------------------------------------
(* The steps of a process *)

\* Where a process is.
LEMMA QueryKnown ==
  ASSUME Control
  PROVE  /\ query \in [scans : Seq(Files), name : Files]
         /\ Len(query.scans) \in Nat
         /\ at.query \in DOMAIN Queries /\ at.query \in Nat /\ query = Queries[at.query]
         /\ file \in Files
         /\ file \in Needs(query)
         /\ at.scan \in Nat \ {0}
         /\ scanning => at.scan \in 1 .. Len(query.scans) /\ file = query.scans[at.scan]
         /\ ~scanning => at.scan = Len(query.scans) + 1 /\ file = query.name
<1> DEFINE Q == [scans : Seq(Files), name : Files]
<1>1. Queries \in Seq(Q) /\ Len(Queries) \in Nat
  BY QueriesKnown
<1>2. at.query \in 1 .. Len(Queries) /\ at.scan \in Nat \ {0} /\ at.scan <= Len(query.scans) + 1
  BY DEF Control
<1>3. DOMAIN Queries = 1 .. Len(Queries) /\ at.query \in Nat
  BY <1>1, <1>2
<1>4. query \in Q
  <2> HIDE DEF Q
  <2> QED
    BY <1>1, <1>2, ElementOfSeq DEF query
<1>5. query.scans \in Seq(Files) /\ query.name \in Files /\ Len(query.scans) \in Nat
  BY <1>4
<1>6. scanning => at.scan \in 1 .. Len(query.scans) /\ file = query.scans[at.scan]
  BY <1>2, <1>5 DEF scanning, file
<1>7. ~scanning => at.scan = Len(query.scans) + 1 /\ file = query.name
  BY <1>2, <1>5 DEF scanning, file
<1>8. scanning => query.scans[at.scan] \in Files /\ query.scans[at.scan] \in Range(query.scans)
  BY <1>5, <1>6 DEF Range
<1>9. file \in Files /\ file \in Needs(query)
  BY <1>5, <1>6, <1>7, <1>8 DEF Needs
<1> QED
  BY <1>2, <1>3, <1>4, <1>5, <1>6, <1>7, <1>9 DEF query

LEMMA SamePlace ==
  ASSUME at' = at
  PROVE  query' = query /\ scanning' = scanning /\ file' = file
BY DEF query, scanning, file

\* A process does not go astray.
LEMMA ControlKept ==
  ASSUME Control, [Next]_vars
  PROVE  Control'
<1>1. ASSUME NEW k \in {"build", "cache", "csv"}, Start(k)
      PROVE  Control'
  BY <1>1, SamePlace DEF Start, Control, Idle, memVars, ending
<1>2. CASE ProcessEnds
  <2>1. Queries # <<>> /\ Len(Queries) \in Nat \ {0}
    BY QueriesKnown
  <2>2. Idle'
    BY <1>2 DEF ProcessEnds, Idle
  <2>3. at' = [query |-> 1, scan |-> 1]
    BY <1>2 DEF ProcessEnds
  <2>4. query' = Queries[1]
    BY <2>3 DEF query
  <2>5. Len(Queries[1].scans) \in Nat
    <3> DEFINE Q == [scans : Seq(Files), name : Files]
    <3>1. Queries \in Seq(Q) /\ 1 \in DOMAIN Queries
      BY <2>1, QueriesKnown
    <3>2. Queries[1] \in Q
      <4> HIDE DEF Q
      <4> QED
        BY <3>1, ElementOfSeq
    <3> QED
      BY <3>2
  <2>6. at'.scan <= Len(query'.scans) + 1
    BY <2>3, <2>4, <2>5
  <2>7. at' \in [query : 1 .. Len(Queries), scan : Nat \ {0}]
    BY <2>1, <2>3
  <2> QED
    BY <2>2, <2>6, <2>7 DEF Control, Idle
<1>3. CASE FromCsv
  BY <1>3, SamePlace DEF FromCsv, Control, Goto, ending
<1>4. CASE SkipScan
  BY <1>4, QueryKnown DEF SkipScan, Control, Goto, NextScan, ending, scanning, query, memVars
<1>5. CASE NewInput
  <2>1. /\ pc = "loaded" /\ pc' = "load" /\ kind' = kind /\ scanning
        /\ at' = [at EXCEPT !.scan = @ + 1]
        /\ local' = <<>> /\ results' = results /\ data' = data /\ forever' = forever
    BY <1>5 DEF NewInput, Goto, NextScan
  <2> QED
    BY <2>1, QueryKnown DEF Control, ending, scanning, query
<1>6. CASE QueryResult
  BY <1>6, SamePlace DEF QueryResult, Control, Goto, ending
<1>7. CASE OpenFile
  BY <1>7, SamePlace DEF OpenFile, Control, Goto, ending, memVars
<1>8. CASE Dump
  BY <1>8, SamePlace DEF Dump, Control, Goto, ending, memVars
<1>9. CASE CloseFile
  BY <1>9, SamePlace DEF CloseFile, Control, Goto, ending
<1>10. CASE Throw
  BY <1>10, SamePlace DEF Throw, Control, Goto, ending, memVars, atCache
<1>11. CASE MapFile
  BY <1>11, SamePlace DEF MapFile, Control, Goto, ending, atCache
<1>12. CASE MapColumn
  BY <1>12, SamePlace DEF MapColumn, Control, Goto, ending
<1>13. CASE TableMapped
  BY <1>13, SamePlace DEF TableMapped, Control, Goto, ending
<1>14. CASE Execute
  BY <1>14, SamePlace DEF Execute, Control, Goto, ending
<1>15. CASE Compare
  BY <1>15, SamePlace DEF Compare, Control, Goto, ending, memVars
<1>16. CASE EndQuery
  BY <1>16, SamePlace DEF EndQuery, Control, Goto, ending
<1>17. CASE NextQuery
  BY <1>17 DEF NextQuery, Control, Goto, ending, memVars, ended
<1>18. CASE UNCHANGED vars
  BY <1>18, SamePlace DEF vars, memVars, Control, Idle, ending
<1>19. Crash \/ Exit => ProcessEnds
  BY DEF Crash, Exit
<1> QED
  BY <1>1, <1>2, <1>3, <1>4, <1>5, <1>6, <1>7, <1>8, <1>9, <1>10, <1>11, <1>12, <1>13, <1>14,
     <1>15, <1>16, <1>17, <1>18, <1>19 DEF Next

\* What a builder dumps is its file.
LEMMA DumpedBlocks ==
  ASSUME Control, Shape, Exactness, pc \in {"open", "dump"}
  PROVE  Blocks(local) = FileOf(file)
<1>1. ReadAll(mem, local) = Truth(file) /\ local \in Seq(ColumnType)
  BY DEF Exactness, Shape
<1> QED
  BY <1>1, QueryKnown, BlocksOfFile

\* While no file is being written, every file is whole but for those torn.
LEMMA DiskSame ==
  ASSUME Disk, UNCHANGED diskVars, pc # "dump", pc' # "dump"
  PROVE  Disk'
BY DEF Disk, diskVars

\* Files are written from their start, whole but when their builder is
\* killed, and are there once a builder has come through.
LEMMA DiskKept ==
  ASSUME Control, Shape, Disk, Progress, Exactness, [Next]_vars
  PROVE  Disk'
<1>1. CASE /\ UNCHANGED diskVars /\ pc # "dump" /\ pc' # "dump"
  BY <1>1, DiskSame
<1>2. CASE Crash
  <2>1. /\ files' = files /\ built' = built /\ pc' = "none"
        /\ torn' = IF pc = "dump" THEN torn \cup {file} ELSE torn
    BY <1>2 DEF Crash, ProcessEnds
  <2>2. torn' \subseteq DOMAIN files /\ torn \subseteq torn'
    BY <2>1 DEF Disk
  <2>3. \A f \in DOMAIN files \ torn' : files[f] = FileOf(f)
    BY <2>1 DEF Disk
  <2> QED
    BY <2>1, <2>2, <2>3 DEF Disk
<1>3. CASE Exit
  <2>1. /\ files' = files /\ torn' = torn /\ pc' = "none" /\ pc # "dump"
        /\ built' = (built \/ (kind = "build" /\ pc = "end"))
    BY <1>3 DEF Exit, ProcessEnds, ending
  <2>2. ASSUME kind = "build", pc = "end", NEW q \in DOMAIN Queries
        PROVE  Needs(Queries[q]) \subseteq DOMAIN files
    <3>1. at.query = Len(Queries) /\ ~scanning
      BY <1>3, <2>2 DEF Exit, Control
    <3>2. /\ \A i \in 1 .. at.query - 1 : Needs(Queries[i]) \subseteq DOMAIN files
          /\ \A i \in 1 .. at.scan - 1 : query.scans[i] \in DOMAIN files
          /\ file \in DOMAIN files
      BY <2>2 DEF Progress
    <3>3. /\ at.scan - 1 = Len(query.scans) /\ file = query.name /\ query = Queries[at.query]
          /\ query.scans \in Seq(Files)
      BY <3>1, QueryKnown
    <3>4. Range(query.scans) \subseteq DOMAIN files
      BY <3>2, <3>3 DEF Range
    <3>5. Needs(query) \subseteq DOMAIN files
      BY <3>2, <3>3, <3>4 DEF Needs
    <3>6. q \in 1 .. at.query - 1 \/ q = at.query
      <4>1. DOMAIN Queries = 1 .. Len(Queries) /\ Len(Queries) \in Nat
        BY QueriesKnown
      <4> QED
        BY <3>1, <4>1
    <3> QED
      BY <3>2, <3>3, <3>5, <3>6
  <2> QED
    BY <2>1, <2>2 DEF Disk
<1>4. CASE OpenFile
  <2>1. /\ pc = "open" /\ pc' = "dump" /\ files' = With(files, file, <<>>)
        /\ torn' = torn /\ built' = built /\ at' = at
    BY <1>4 DEF OpenFile, Goto
  <2>2. /\ DOMAIN files' = DOMAIN files \cup {file} /\ files'[file] = <<>>
        /\ \A f \in DOMAIN files : f # file => files'[f] = files[f]
        /\ files' = [f \in DOMAIN files' |-> files'[f]]
    BY <2>1 DEF With
  <2>3. file' = file /\ file \in Files
    BY <2>1, SamePlace, QueryKnown
  <2>4. PartOf(<<>>, file)
    <3>1. Len(FileOf(file)) \in Nat
      BY <2>3, FileKnown
    <3>2. 0 \in 0 .. Len(FileOf(file)) /\ <<>> = [j \in 1 .. 0 |-> FileOf(file)[j]]
      BY <3>1
    <3> QED
      BY <3>2 DEF PartOf
  <2>5. \A f \in DOMAIN files' : PartOf(files'[f], f)
    BY <2>2, <2>4 DEF Disk
  <2>6. \A f \in DOMAIN files' \ torn : files'[f] = FileOf(f) \/ f = file
    BY <2>1, <2>2 DEF Disk
  <2> QED
    BY <2>1, <2>2, <2>3, <2>5, <2>6 DEF Disk
<1>5. CASE Dump
  <2> DEFINE n == Len(files[file])
             block == FileOf(file)[n + 1]
  <2>1. /\ pc = "dump" /\ pc' = "dump" /\ n < Len(Blocks(local))
        /\ files' = [files EXCEPT ![file] = Append(@, Blocks(local)[Len(@) + 1])]
        /\ torn' = torn /\ built' = built /\ at' = at
    BY <1>5 DEF Dump, Goto
  <2>2. Blocks(local) = FileOf(file)
    BY <2>1, DumpedBlocks
  <2>3. file' = file /\ file \in Files /\ file \in DOMAIN files
    BY <2>1, SamePlace, QueryKnown DEF Disk
  <2>4. files' = [files EXCEPT ![file] = Append(files[file], block)]
    BY <2>1, <2>2
  <2>5. PartOf(Append(files[file], block), file)
    <3>1. PartOf(files[file], file) /\ n < Len(FileOf(file))
      BY <2>1, <2>2, <2>3 DEF Disk
    <3> QED
      BY <2>3, <3>1, PartKnown
  <2> HIDE DEF block
  <2>6. /\ DOMAIN files' = DOMAIN files /\ files'[file] = Append(files[file], block)
        /\ \A f \in DOMAIN files : f # file => files'[f] = files[f]
        /\ files' = [f \in DOMAIN files' |-> files'[f]]
    BY <2>3, <2>4
  <2>7. \A f \in DOMAIN files' : PartOf(files'[f], f)
    BY <2>5, <2>6 DEF Disk
  <2>8. \A f \in DOMAIN files' \ torn : files'[f] = FileOf(f) \/ f = file
    BY <2>6 DEF Disk
  <2> QED
    BY <2>1, <2>3, <2>6, <2>7, <2>8 DEF Disk
<1>6. CASE CloseFile
  <2>1. /\ pc = "dump" /\ pc' # "dump" /\ Len(files[file]) = Len(Blocks(local))
        /\ UNCHANGED diskVars
    BY <1>6 DEF CloseFile, Goto
  <2>2. Blocks(local) = FileOf(file)
    BY <2>1, DumpedBlocks
  <2>3. file \in Files /\ file \in DOMAIN files /\ PartOf(files[file], file)
    BY <2>1, QueryKnown DEF Disk
  <2>4. files[file] = FileOf(file)
    BY <2>1, <2>2, <2>3, PartKnown
  <2> QED
    BY <2>1, <2>4 DEF Disk, diskVars
<1>7. CASE UNCHANGED vars
  BY <1>7, SamePlace DEF vars, diskVars, Disk
<1>8. ASSUME NEW k \in {"build", "cache", "csv"}, Start(k)
      PROVE  UNCHANGED diskVars /\ pc # "dump" /\ pc' # "dump"
  BY <1>8 DEF Start, diskVars, Control
<1>9. ASSUME FromCsv \/ SkipScan \/ NewInput \/ QueryResult \/ Throw \/ MapFile
      PROVE  UNCHANGED diskVars /\ pc # "dump" /\ pc' # "dump"
  BY <1>9 DEF FromCsv, SkipScan, NewInput, QueryResult, Throw, MapFile, diskVars, Goto, atCache
<1>10. ASSUME MapColumn \/ TableMapped \/ Execute \/ Compare \/ EndQuery \/ NextQuery
       PROVE  UNCHANGED diskVars /\ pc # "dump" /\ pc' # "dump"
  BY <1>10 DEF MapColumn, TableMapped, Execute, Compare, EndQuery, NextQuery, diskVars, Goto,
               ending
<1> QED
  BY <1>1, <1>2, <1>3, <1>4, <1>5, <1>6, <1>7, <1>8, <1>9, <1>10 DEF Next

\* A builder leaves no file out.
LEMMA ProgressKept ==
  ASSUME Control, Disk, Progress, [Next]_vars
  PROVE  Progress'
<1>1. CASE kind' # "build"
  BY <1>1 DEF Progress
<1>2. CASE /\ kind' = kind /\ at' = at /\ DOMAIN files \subseteq DOMAIN files'
           /\ pc' \in {"loaded", "end"} => pc' = pc \/ file \in DOMAIN files
  BY <1>2, SamePlace DEF Progress
<1>3. ASSUME NEW k \in {"build", "cache", "csv"}, Start(k)
      PROVE  Progress'
  <2>1. at' = [query |-> 1, scan |-> 1] /\ pc' = "load"
    BY <1>3 DEF Start, Control, Idle
  <2> QED
    BY <2>1 DEF Progress
<1>4. CASE (SkipScan \/ NewInput) /\ kind' = "build"
  <2>1. /\ at' = [at EXCEPT !.scan = @ + 1] /\ pc' = "load" /\ files' = files /\ scanning
        /\ kind = "build"
    BY <1>4 DEF SkipScan, NewInput, NextScan, Goto, diskVars
  <2>2. file \in DOMAIN files
    BY <1>4, <2>1 DEF SkipScan, NewInput, Progress
  <2>3. at'.query = at.query /\ at'.scan = at.scan + 1
    BY <2>1 DEF Control
  <2>4. query' = query
    BY <2>3 DEF query
  <2>5. at.scan \in Nat \ {0} /\ file = query.scans[at.scan]
    BY <2>1, QueryKnown
  <2>6. ASSUME NEW i \in 1 .. at'.scan - 1
        PROVE  query.scans[i] \in DOMAIN files
    <3>1. i \in 1 .. at.scan - 1 \/ i = at.scan
      BY <2>3, <2>5
    <3> QED
      BY <2>1, <2>2, <2>5, <3>1 DEF Progress
  <2> QED
    BY <2>1, <2>3, <2>4, <2>6 DEF Progress
<1>5. CASE NextQuery /\ kind' = "build"
  <2>1. /\ pc = "end" /\ pc' = "load" /\ files' = files /\ kind = "build"
        /\ at' = [query |-> at.query + 1, scan |-> 1]
    BY <1>5 DEF NextQuery, Goto, diskVars
  <2>2. ~scanning
    BY <2>1 DEF Control
  <2>3. /\ at.scan - 1 = Len(query.scans) /\ file = query.name /\ query = Queries[at.query]
        /\ query.scans \in Seq(Files) /\ at.query \in Nat
    BY <2>2, QueryKnown
  <2>4. Range(query.scans) \subseteq DOMAIN files /\ file \in DOMAIN files
    <3>1. file \in DOMAIN files /\ \A i \in 1 .. at.scan - 1 : query.scans[i] \in DOMAIN files
      BY <2>1 DEF Progress
    <3> QED
      BY <2>3, <3>1 DEF Range
  <2>5. Needs(Queries[at.query]) \subseteq DOMAIN files
    BY <2>3, <2>4 DEF Needs
  <2>6. ASSUME NEW q \in 1 .. at'.query - 1
        PROVE  Needs(Queries[q]) \subseteq DOMAIN files
    <3>1. q \in 1 .. at.query - 1 \/ q = at.query
      BY <2>1, <2>3
    <3> QED
      BY <2>1, <2>5, <3>1 DEF Progress
  <2> QED
    BY <2>1, <2>6 DEF Progress
<1>6. CASE Crash \/ Exit
  BY <1>6 DEF Crash, Exit, ProcessEnds, Progress
<1>7. CASE FromCsv
  BY <1>2, <1>7, <1>1 DEF FromCsv, Goto, diskVars
<1>8. CASE QueryResult
  BY <1>2, <1>8 DEF QueryResult, Goto, diskVars
<1>9. CASE OpenFile
  BY <1>2, <1>9 DEF OpenFile, Goto, With
<1>10. CASE Dump
  BY <1>2, <1>10 DEF Dump, Goto
<1>11. CASE CloseFile
  BY <1>2, <1>11 DEF CloseFile, Goto, diskVars, Disk
<1>12. CASE EndQuery
  BY <1>2, <1>12 DEF EndQuery, Goto, diskVars
<1>13. CASE UNCHANGED vars
  BY <1>2, <1>13 DEF vars, diskVars
<1>14. CASE Throw \/ MapFile \/ MapColumn \/ TableMapped
  <2>1. kind = "cache" /\ kind' = kind
    BY <1>14 DEF Throw, MapFile, MapColumn, TableMapped, Goto, Control
  <2> QED
    BY <1>1, <2>1
<1>15. CASE Execute \/ Compare
  <2>1. kind # "build" /\ kind' = kind
    BY <1>15 DEF Execute, Compare, Goto, Control
  <2> QED
    BY <1>1, <2>1
<1> QED
  BY <1>1, <1>3, <1>4, <1>5, <1>6, <1>7, <1>8, <1>9, <1>10, <1>11, <1>12, <1>13, <1>14,
     <1>15 DEF Next

-----------------------------------------------------------------------------
(* The memory of a process *)

Memory == Shape /\ Ownership /\ MapProgress /\ Exactness

\* The columns of the variables are alive.
LEMMA LiveColumns ==
  ASSUME Shape
  PROVE  /\ AreIn(local, live)
         /\ \A t \in tables : AreIn(t.columns, live)
         /\ \A t \in Range(forever) :
              AreIn(t.columns, Unmapped(ColumnsOfTables("forever", forever)))
<1>1. AreIn(local, live)
  <2> SUFFICES ASSUME NEW i \in DOMAIN local
               PROVE  \E c \in live : c.column = local[i]
    BY DEF AreIn
  <2> DEFINE c == [in |-> "local", table |-> 0, nr |-> i, column |-> local[i]]
  <2>1. c \in live
    BY ColumnsIn DEF live
  <2>2. c.column = local[i]
    OBVIOUS
  <2> QED
    BY <2>1, <2>2
<1>2. ASSUME NEW t \in Range(inputs)
      PROVE  AreIn(t.columns, live)
  <2>1. PICK k \in DOMAIN inputs : t = inputs[k]
    BY DEF Range
  <2> SUFFICES ASSUME NEW i \in DOMAIN t.columns
               PROVE  \E c \in live : c.column = t.columns[i]
    BY DEF AreIn
  <2> DEFINE c == [in |-> "inputs", table |-> k, nr |-> i, column |-> inputs[k].columns[i]]
  <2>2. c \in ColumnsOf("inputs", k, inputs[k].columns)
    BY <2>1, ColumnsIn
  <2>3. c.column = t.columns[i]
    BY <2>1
  <2> HIDE DEF c
  <2>4. c \in live
    BY <2>2 DEF live, ColumnsOfTables
  <2> QED
    BY <2>3, <2>4
<1>3. ASSUME NEW t \in Range(forever)
      PROVE  /\ AreIn(t.columns, live)
             /\ AreIn(t.columns, Unmapped(ColumnsOfTables("forever", forever)))
  <2>1. PICK k \in DOMAIN forever : t = forever[k]
    BY DEF Range
  <2> SUFFICES ASSUME NEW i \in DOMAIN t.columns
               PROVE  \E c \in live : c \in Unmapped(ColumnsOfTables("forever", forever))
                                      /\ c.column = t.columns[i]
    BY DEF AreIn
  <2> DEFINE c == [in |-> "forever", table |-> k, nr |-> i, column |-> forever[k].columns[i]]
  <2>2. c \in ColumnsOf("forever", k, forever[k].columns)
    BY <2>1, ColumnsIn
  <2>3. c.column = t.columns[i]
    BY <2>1
  <2> HIDE DEF c
  <2>4. c \in ColumnsOfTables("forever", forever)
    BY <2>2 DEF ColumnsOfTables
  <2>5. c.column.mapped = NoMemory
    BY <2>1, <2>3 DEF Shape
  <2>6. c \in live
    BY <2>4 DEF live
  <2> QED
    BY <2>3, <2>4, <2>5, <2>6 DEF Unmapped
<1> QED
  BY <1>1, <1>2, <1>3 DEF tables

\* What is kept reads the same.
LEMMA TablesKept ==
  ASSUME Shape, NEW m, Kept(live, mem, m)
  PROVE  /\ ReadAll(m, local) = ReadAll(mem, local)
         /\ \A t \in tables : ReadAll(m, t.columns) = ReadAll(mem, t.columns)
BY LiveColumns, ReadingKept

\* The process has no mapping without a holder, but the one it maps.
LEMMA AllHeld ==
  ASSUME Ownership
  PROVE  /\ Owned(Named(local, results, inputs, forever), mem)
         /\ pc # "map" \/ local # <<>> => \A a \in DOMAIN mem.maps : mem.maps[a].refs # 0
BY LiveNamed DEF Ownership

\* A process that does not touch its memory.
LEMMA MemorySame ==
  ASSUME Shape, Ownership, UNCHANGED memVars, pc # "map", pc' # "map",
         pc' \in {"open", "dump"} => pc \in {"open", "dump"}
  PROVE  Shape' /\ Ownership' /\ MapProgress'
<1>1. Shape'
  BY DEF Shape, memVars
<1>2. live' = live
  BY DEF live, memVars
<1>3. Owned(live', mem') /\ mem' = mem
  BY <1>2 DEF Ownership, memVars
<1>4. Ownership'
  BY <1>3 DEF Ownership
<1>5. MapProgress'
  BY DEF MapProgress
<1> QED
  BY <1>1, <1>4, <1>5

\* Nothing is owned where there is nothing.
LEMMA MemoryEnds ==
  ASSUME ProcessEnds
  PROVE  Memory'
<1>1. /\ mem' = NoMem /\ local' = <<>> /\ inputs' = <<>> /\ results' = <<>> /\ forever' = <<>>
      /\ pc' = "none"
  BY DEF ProcessEnds
<1>2. NoMem.heap = <<>> /\ NoMem.maps = <<>> /\ DOMAIN <<>> = {}
  BY DEF NoMem
<1>3. MemOK(NoMem)
  <2>1. NoMem = [heap |-> NoMem.heap, maps |-> NoMem.maps]
    BY DEF NoMem
  <2>2. <<>> = [x \in DOMAIN <<>> |-> <<>>[x]]
    OBVIOUS
  <2>3. IsFiniteSet({})
    BY FS_EmptySet
  <2> QED
    BY <1>2, <2>1, <2>2, <2>3 DEF MemOK
<1>4. live' = {}
  <2>1. ColumnsOf("local", 0, <<>>) = {} /\ ColumnsOf("results", 0, <<>>) = {}
    BY NothingNamed
  <2>2. ColumnsOfTables("inputs", <<>>) = {} /\ ColumnsOfTables("forever", <<>>) = {}
    BY <1>2 DEF ColumnsOfTables
  <2> QED
    BY <1>1, <2>1, <2>2 DEF live
<1>5. Owned({}, NoMem)
  BY <1>2, FS_EmptySet DEF Owned, Unmapped
<1>6. Shape'
  BY <1>1, <1>2, <1>3 DEF Shape
<1>7. Ownership'
  BY <1>1, <1>2, <1>4, <1>5 DEF Ownership
<1>8. Exactness'
  <2>1. tables' = {}
    BY <1>1, <1>2 DEF tables, Range
  <2>2. Range(forever)' = {}
    BY <1>1, <1>2 DEF Range
  <2> QED
    BY <1>1, <2>1, <2>2 DEF Exactness, CacheExact
<1> QED
  BY <1>1, <1>6, <1>7, <1>8 DEF Memory, MapProgress

\* A table of new pages, in each of the places.
LEMMA LocalMade ==
  ASSUME NEW l, NEW r, NEW t, NEW u, NEW m, Owned(Named(<<>>, r, t, u), m),
         NEW m2, NEW contents, TableMade(m, m2, l, contents)
  PROVE  Owned(Named(l, r, t, u), m2)
<1> DEFINE B == Named(<<>>, r, t, u)
           N == ColumnsOf("local", 0, l)
<1>1. Named(l, r, t, u) = B \cup N /\ N \cap B = {}
  BY LocalApart
<1> HIDE DEF B
<1>2. Owned(B, m)
  BY DEF B
<1> QED
  BY <1>1, <1>2, TableOwned

LEMMA ResultsMade ==
  ASSUME NEW l, NEW r, NEW t, NEW u, NEW m, Owned(Named(l, <<>>, t, u), m),
         NEW m2, NEW contents, TableMade(m, m2, r, contents)
  PROVE  Owned(Named(l, r, t, u), m2)
<1> DEFINE B == Named(l, <<>>, t, u)
           N == ColumnsOf("results", 0, r)
<1>1. Named(l, r, t, u) = B \cup N /\ N \cap B = {}
  BY ResultsApart
<1> HIDE DEF B
<1>2. Owned(B, m)
  BY DEF B
<1> QED
  BY <1>1, <1>2, TableOwned

LEMMA ForeverMade ==
  ASSUME NEW l, NEW r, NEW t, NEW u \in Seq(TableType), NEW m, Owned(Named(l, r, t, u), m),
         NEW m2, NEW columns, NEW contents, TableMade(m, m2, columns, contents), NEW f \in Files
  PROVE  Owned(Named(l, r, t, Append(u, [file |-> f, columns |-> columns])), m2)
<1> DEFINE B == Named(l, r, t, u)
           x == [file |-> f, columns |-> columns]
           N == ColumnsOf("forever", Len(u) + 1, columns)
<1>1. x \in TableType /\ x.columns = columns
  BY DEF TableMade, TableType
<1> HIDE DEF x
<1>2. Named(l, r, t, Append(u, x)) = B \cup N /\ N \cap B = {}
  BY <1>1, ForeverApart
<1> HIDE DEF B
<1>3. Owned(B, m)
  BY DEF B
<1>4. Owned(B \cup N, m2)
  BY <1>2, <1>3, TableOwned
<1> QED
  BY <1>2, <1>4 DEF x

\* A new table for a file: owned, unmapped, and reading as the file's truth,
\* with what there was.
LEMMA NewTableKnown ==
  ASSUME NEW m, MemOK(m), NEW f \in Files
  PROVE  LET table == NewTable(m, Truth(f))
         IN  /\ TableMade(m, table.mem, table.columns, Truth(f))
             /\ ReadAll(table.mem, table.columns) = Truth(f)
             /\ MemOK(table.mem) /\ table.mem.maps = m.maps
             /\ table.columns \in Seq(ColumnType)
             /\ \A i \in DOMAIN table.columns : table.columns[i].mapped = NoMemory
<1> DEFINE T == Truth(f)
           V == Files \X Nat \X Nat
           table == NewTable(m, T)
<1>1. T \in Seq(Seq(V))
  BY TableKnown
<1> HIDE DEF V, T
<1>2. TableMade(m, table.mem, table.columns, T) /\ Len(table.columns) = Len(T)
  BY <1>1, NewTableMade
<1> HIDE DEF table
<1>3. ReadAll(table.mem, table.columns) = T
  BY <1>1, <1>2, MadeReads
<1>4. /\ MemOK(table.mem) /\ table.mem.maps = m.maps
      /\ table.columns \in Seq(ColumnType)
      /\ \A i \in DOMAIN table.columns : table.columns[i].mapped = NoMemory
  BY <1>2 DEF TableMade
<1> QED
  BY <1>2, <1>3, <1>4 DEF table, T

\* from_csv: a table that reads as its file, copied from the cache or read
\* anew, and a copy that stays.
LEMMA FromCsvDoes ==
  ASSUME Control, Shape, Exactness, FromCsv
  PROVE  LET table == NewTable(mem, Truth(file))
             copy == NewTable(table.mem, Truth(file))
         IN  /\ local' = table.columns
             /\ \/ mem' = table.mem /\ forever' = forever
                \/ /\ mem' = copy.mem
                   /\ forever' = Append(forever, [file |-> file, columns |-> copy.columns])
<1> DEFINE table == NewTable(mem, Truth(file))
           copy == NewTable(table.mem, Truth(file))
<1>1. MemOK(mem) /\ file \in Files
  BY QueryKnown DEF Shape
<1>2. ReadAll(table.mem, table.columns) = Truth(file)
  BY <1>1, NewTableKnown
<1>3. ASSUME NEW hit \in Hits
      PROVE  ReadAll(mem, hit.columns) = Truth(file)
  BY DEF Hits, Exactness, Exact
<1> HIDE DEF table
<1>4. CASE Hits # {}
  <2>1. \E hit \in Hits :
          LET t == NewTable(mem, ReadAll(mem, hit.columns)) IN
          local' = t.columns /\ mem' = t.mem /\ UNCHANGED forever
    BY <1>4 DEF FromCsv
  <2>2. PICK hit \in Hits :
          /\ local' = NewTable(mem, ReadAll(mem, hit.columns)).columns
          /\ mem' = NewTable(mem, ReadAll(mem, hit.columns)).mem
          /\ UNCHANGED forever
    BY <2>1
  <2>3. local' = table.columns /\ mem' = table.mem /\ forever' = forever
    BY <1>3, <2>2 DEF table
  <2> QED
    BY <2>3 DEF table
<1>5. CASE Hits = {}
  <2>1. /\ local' = NewTable(mem, Truth(file)).columns
        /\ IF file \in Unfiltered
           THEN LET c == NewTable(NewTable(mem, Truth(file)).mem,
                                  ReadAll(NewTable(mem, Truth(file)).mem,
                                          NewTable(mem, Truth(file)).columns))
                IN /\ mem' = c.mem
                   /\ forever' = Append(forever, [file |-> file, columns |-> c.columns])
           ELSE mem' = NewTable(mem, Truth(file)).mem /\ UNCHANGED forever
    BY <1>5 DEF FromCsv
  <2>2. /\ local' = table.columns
        /\ IF file \in Unfiltered
           THEN /\ mem' = NewTable(table.mem, ReadAll(table.mem, table.columns)).mem
                /\ forever' =
                     Append(forever,
                            [file |-> file,
                             columns |-> NewTable(table.mem, ReadAll(table.mem, table.columns)).columns])
           ELSE mem' = table.mem /\ forever' = forever
    BY <2>1 DEF table
  <2>3. /\ local' = table.columns
        /\ \/ mem' = table.mem /\ forever' = forever
           \/ /\ mem' = copy.mem
              /\ forever' = Append(forever, [file |-> file, columns |-> copy.columns])
    BY <1>2, <2>2
  <2> QED
    BY <2>3 DEF table
<1> QED
  BY <1>4, <1>5

LEMMA FromCsvMemory ==
  ASSUME Control, Memory, FromCsv
  PROVE  Memory'
<1> DEFINE T == Truth(file)
           table == NewTable(mem, T)
           copy == NewTable(table.mem, T)
           stays == [file |-> file, columns |-> copy.columns]
           u == forever'
<1>1. /\ pc = "load" /\ pc' \in {"open", "loaded"} /\ kind' = kind /\ at' = at
      /\ inputs' = inputs /\ results' = results /\ torn' = torn /\ file' = file
      /\ local = <<>> /\ kind # "cache" /\ file \in Files
  BY SamePlace, QueryKnown DEF FromCsv, Goto, diskVars, Control
<1>2. /\ MemOK(mem) /\ Shape /\ Ownership /\ Exactness
      /\ inputs \in Seq(TableType) /\ results \in Seq(ColumnType) /\ forever \in Seq(TableType)
  BY DEF Memory, Shape
<1>3. /\ TableMade(mem, table.mem, table.columns, T)
      /\ ReadAll(table.mem, table.columns) = T
      /\ MemOK(table.mem) /\ table.mem.maps = mem.maps
      /\ table.columns \in Seq(ColumnType)
      /\ \A i \in DOMAIN table.columns : table.columns[i].mapped = NoMemory
  BY <1>1, <1>2, NewTableKnown
<1> HIDE DEF table
<1>4. /\ TableMade(table.mem, copy.mem, copy.columns, T)
      /\ ReadAll(copy.mem, copy.columns) = T
      /\ MemOK(copy.mem) /\ copy.mem.maps = table.mem.maps
      /\ copy.columns \in Seq(ColumnType)
      /\ \A i \in DOMAIN copy.columns : copy.columns[i].mapped = NoMemory
  BY <1>1, <1>3, NewTableKnown
<1> HIDE DEF copy
<1>5. Owned(Named(<<>>, results, inputs, forever), mem)
      /\ \A a \in DOMAIN mem.maps : mem.maps[a].refs # 0
  BY <1>1, <1>2, AllHeld
<1>6. Owned(Named(table.columns, results, inputs, forever), table.mem)
  BY <1>3, <1>5, LocalMade
<1>7. local' = table.columns
      /\ \/ mem' = table.mem /\ forever' = forever
         \/ mem' = copy.mem /\ forever' = Append(forever, stays)
  <2>1. Exactness
    BY DEF Memory
  <2> QED
    BY <1>2, <2>1, FromCsvDoes DEF table, copy
<1>8. Kept(live, mem, table.mem)
  <2>1. Owned(live, mem)
    BY <1>2 DEF Ownership
  <2> QED
    BY <1>3, <2>1, MakingKeeps
<1>9. Kept(Named(table.columns, results, inputs, forever), table.mem, copy.mem)
  BY <1>4, <1>6, MakingKeeps
<1>10. \A x \in tables : ReadAll(table.mem, x.columns) = ReadAll(mem, x.columns)
  BY <1>2, <1>8, TablesKept
<1>11. Owned(Named(local', results', inputs', forever'), mem')
  <2>1. CASE mem' = table.mem /\ forever' = forever
    BY <1>1, <1>6, <1>7, <2>1
  <2>2. CASE mem' = copy.mem /\ forever' = Append(forever, stays)
    <3>1. Owned(Named(table.columns, results, inputs, Append(forever, stays)), copy.mem)
      BY <1>1, <1>2, <1>4, <1>6, ForeverMade
    <3> QED
      BY <1>1, <1>7, <2>2, <3>1
  <2> QED
    BY <1>7, <2>1, <2>2
<1>12. Owned(live', mem')
  <2>1. live' = Named(local', results', inputs', forever')
    BY DEF live, Named
  <2> QED
    BY <1>11, <2>1
<1>13. Ownership'
  <2>1. mem'.maps = mem.maps
    BY <1>3, <1>4, <1>7
  <2> QED
    BY <1>5, <1>12, <2>1 DEF Ownership
<1>14. stays \in TableType /\ stays.columns = copy.columns /\ stays.file = file
  BY <1>1, <1>4 DEF TableType
<1> HIDE DEF stays
<1>15. /\ forever' \in Seq(TableType)
       /\ \A x \in Range(forever') :
            x \in Range(forever) \/ (mem' = copy.mem /\ x = stays)
       /\ \A i \in DOMAIN forever' : \A j \in DOMAIN forever'[i].columns :
            forever'[i].columns[j].mapped = NoMemory
  <2>1. CASE forever' = forever
    BY <1>2, <2>1 DEF Shape
  <2>2. CASE mem' = copy.mem /\ forever' = Append(forever, stays)
    <3> DEFINE n == Len(forever)
    <3>1. /\ n \in Nat /\ DOMAIN forever = 1 .. n /\ forever' \in Seq(TableType)
          /\ DOMAIN forever' = 1 .. n + 1 /\ forever'[n + 1] = stays
          /\ \A i \in 1 .. n : forever'[i] = forever[i]
      BY <1>2, <1>14, <2>2
    <3> HIDE DEF n
    <3>2. \A i \in 1 .. n + 1 : i \in 1 .. n \/ i = n + 1
      BY <3>1
    <3>3. \A i \in 1 .. n : forever[i] \in Range(forever)
      BY <3>1 DEF Range
    <3>4. \A x \in Range(forever') : x \in Range(forever) \/ x = stays
      BY <3>1, <3>2, <3>3 DEF Range
    <3>5. \A i \in 1 .. n + 1 : \A j \in DOMAIN forever'[i].columns :
            forever'[i].columns[j].mapped = NoMemory
      <4> TAKE i \in 1 .. n + 1
      <4>1. CASE i \in 1 .. n
        BY <1>2, <3>1, <4>1 DEF Shape
      <4>2. CASE i = n + 1
        BY <1>4, <1>14, <3>1, <4>2
      <4> QED
        BY <3>2, <4>1, <4>2
    <3> QED
      BY <2>2, <3>1, <3>4, <3>5
  <2> QED
    BY <1>7, <2>1, <2>2
<1>16. Shape'
  <2>1. MemOK(mem')
    BY <1>3, <1>4, <1>7
  <2> QED
    BY <1>1, <1>2, <1>3, <1>7, <1>15, <2>1 DEF Shape
<1>17. ReadAll(mem', local') = T
       /\ \A x \in tables : ReadAll(mem', x.columns) = ReadAll(mem, x.columns)
  <2>1. CASE mem' = table.mem
    BY <1>3, <1>7, <1>10, <2>1
  <2>2. CASE mem' = copy.mem
    <3> DEFINE L == Named(table.columns, results, inputs, forever)
    <3>1. AreIn(table.columns, L)
      <4> SUFFICES ASSUME NEW i \in DOMAIN table.columns
                   PROVE  \E c \in L : c.column = table.columns[i]
        BY DEF AreIn
      <4> DEFINE c == [in |-> "local", table |-> 0, nr |-> i, column |-> table.columns[i]]
      <4>1. c \in ColumnsOf("local", 0, table.columns)
        BY ColumnsIn
      <4>2. c.column = table.columns[i]
        OBVIOUS
      <4> HIDE DEF c
      <4>3. c \in L
        BY <4>1 DEF Named
      <4> QED
        BY <4>2, <4>3
    <3>2. ReadAll(copy.mem, table.columns) = T
      BY <1>3, <1>9, <3>1, ReadingKept
    <3>3. live \subseteq L
      BY <1>1, LiveNamed, LocalApart
    <3>4. Kept(live, table.mem, copy.mem)
      BY <1>9, <3>3 DEF Kept
    <3>5. \A x \in tables : ReadAll(copy.mem, x.columns) = ReadAll(table.mem, x.columns)
      BY <1>2, <3>4, LiveColumns, ReadingKept
    <3> QED
      BY <1>7, <1>10, <2>2, <3>2, <3>5
  <2> QED
    BY <1>7, <2>1, <2>2
<1>18. \A x \in Range(forever') : ReadAll(mem', x.columns) = Truth(x.file)
  <2> TAKE x \in Range(forever')
  <2>1. CASE x \in Range(forever)
    BY <1>2, <1>17, <2>1 DEF Exactness, Exact, tables
  <2>2. CASE mem' = copy.mem /\ x = stays
    BY <1>4, <1>14, <2>2
  <2> QED
    BY <1>15, <2>1, <2>2
<1>19. \A x \in Range(inputs) : Expected(x.file, x.columns)
  BY <1>1, <1>2 DEF Exactness, CacheExact, ending, tables
<1>20. \A x \in Range(inputs) : ReadAll(mem', x.columns) = Truth(x.file)
  BY <1>1, <1>17, <1>19 DEF Expected, tables
<1>21. Exactness'
  BY <1>1, <1>17, <1>18, <1>20 DEF Exactness, Exact, CacheExact, Expected, tables
<1> QED
  BY <1>1, <1>13, <1>16, <1>21 DEF Memory, MapProgress

\* The result of a query, as the database gives it.
LEMMA QueryResultMemory ==
  ASSUME Control, Memory, QueryResult
  PROVE  Memory'
<1> DEFINE T == Truth(file)
           table == NewTable(mem, T)
<1>1. /\ pc = "load" /\ kind' = kind /\ at' = at /\ file' = file /\ data' = data
      /\ inputs' = inputs /\ results' = results /\ forever' = forever /\ torn' = torn
      /\ local = <<>> /\ kind = "build" /\ file \in Files
  BY SamePlace, QueryKnown DEF QueryResult, Goto, diskVars, Control
<1>2. /\ MemOK(mem) /\ Shape /\ Ownership /\ Exactness
  BY DEF Memory, Shape
<1>3. CASE file \in DOMAIN files
  <2>1. pc' = "end" /\ UNCHANGED memVars
    BY <1>1, <1>3 DEF QueryResult, Goto, memVars
  <2>2. Shape' /\ Ownership' /\ MapProgress'
    BY <1>1, <1>2, <2>1, MemorySame
  <2>3. Exactness'
    BY <1>2, <2>1 DEF Exactness, Exact, CacheExact, memVars, ending
  <2> QED
    BY <2>2, <2>3 DEF Memory
<1>4. CASE file \notin DOMAIN files
  <2>1. pc' = "open" /\ local' = table.columns /\ mem' = table.mem
    BY <1>4 DEF QueryResult, Goto
  <2>2. /\ TableMade(mem, table.mem, table.columns, T)
        /\ ReadAll(table.mem, table.columns) = T
        /\ MemOK(table.mem) /\ table.mem.maps = mem.maps
        /\ table.columns \in Seq(ColumnType)
        /\ \A i \in DOMAIN table.columns : table.columns[i].mapped = NoMemory
    BY <1>1, <1>2, NewTableKnown
  <2> HIDE DEF table
  <2>3. /\ Owned(Named(<<>>, results, inputs, forever), mem)
        /\ \A a \in DOMAIN mem.maps : mem.maps[a].refs # 0
    BY <1>1, <1>2, AllHeld
  <2>4. Owned(Named(table.columns, results, inputs, forever), table.mem)
    BY <2>2, <2>3, LocalMade
  <2>5. live' = Named(table.columns, results, inputs, forever)
    BY <1>1, <2>1 DEF live, Named
  <2>6. Ownership'
    BY <2>1, <2>2, <2>3, <2>4, <2>5 DEF Ownership
  <2>7. Shape'
    BY <1>1, <1>2, <2>1, <2>2 DEF Shape
  <2>8. Kept(live, mem, table.mem)
    <3>1. Owned(live, mem)
      BY <1>2 DEF Ownership
    <3> QED
      BY <2>2, <3>1, MakingKeeps
  <2>9. \A x \in tables : ReadAll(mem', x.columns) = ReadAll(mem, x.columns)
    BY <1>2, <2>1, <2>8, TablesKept
  <2>10. \A x \in tables : ReadAll(mem, x.columns) = Truth(x.file)
    BY <1>1, <1>2 DEF Exactness, Exact, CacheExact, ending, Expected, tables
  <2>11. Exactness'
    BY <1>1, <2>1, <2>2, <2>9, <2>10 DEF Exactness, Exact, CacheExact, Expected, tables
  <2> QED
    BY <2>1, <2>6, <2>7, <2>11 DEF Memory, MapProgress
<1> QED
  BY <1>3, <1>4

\* The query is executed.
LEMMA ExecuteMemory ==
  ASSUME Control, Memory, Execute
  PROVE  Memory'
<1> DEFINE T == Truth(file)
           V == Files \X Nat \X Nat
           table == NewResult(mem, T)
<1>1. /\ pc = "load" /\ pc' \in {"executed", "end"} /\ kind' = kind /\ at' = at /\ file' = file
      /\ local' = local /\ inputs' = inputs /\ forever' = forever /\ torn' = torn
      /\ results = <<>> /\ file \in Files /\ data' = data
      /\ results' = table.columns /\ mem' = table.mem
  BY SamePlace, QueryKnown DEF Execute, Goto, diskVars, Control
<1>2. /\ MemOK(mem) /\ Shape /\ Ownership /\ Exactness
  BY DEF Memory, Shape
<1>3. T \in Seq(Seq(V))
  BY <1>1, TableKnown
<1> HIDE DEF V, T
<1>4. TableMade(mem, table.mem, table.columns, T)
  BY <1>2, <1>3, NewResultMade
<1> HIDE DEF table
<1>5. /\ MemOK(table.mem) /\ table.mem.maps = mem.maps
      /\ table.columns \in Seq(ColumnType)
  BY <1>4 DEF TableMade
<1>6. /\ Owned(Named(local, <<>>, inputs, forever), mem)
      /\ \A a \in DOMAIN mem.maps : mem.maps[a].refs # 0
  BY <1>1, <1>2, AllHeld
<1>7. Owned(Named(local, table.columns, inputs, forever), table.mem)
  BY <1>4, <1>6, ResultsMade
<1>8. live' = Named(local, table.columns, inputs, forever)
  BY <1>1 DEF live, Named
<1>9. Ownership'
  BY <1>1, <1>5, <1>6, <1>7, <1>8 DEF Ownership
<1>10. Shape'
  BY <1>1, <1>2, <1>5 DEF Shape
<1>11. Kept(live, mem, table.mem)
  <2>1. Owned(live, mem)
    BY <1>2 DEF Ownership
  <2> QED
    BY <1>4, <2>1, MakingKeeps
<1>12. \A x \in tables : ReadAll(mem', x.columns) = ReadAll(mem, x.columns)
  BY <1>1, <1>2, <1>11, TablesKept
<1>13. \A x \in tables : Expected(x.file, x.columns)
  BY <1>1, <1>2 DEF Exactness, CacheExact, ending
<1>14. \A x \in tables : Expected(x.file, x.columns)'
  BY <1>1, <1>12, <1>13 DEF Expected
<1>15. \A x \in Range(forever) : ReadAll(mem', x.columns) = Truth(x.file)
  BY <1>2, <1>12 DEF Exactness, Exact, tables
<1>16. tables' = tables
  BY <1>1 DEF tables
<1>17. Exactness'
  BY <1>1, <1>14, <1>15, <1>16 DEF Exactness, Exact, CacheExact
<1> QED
  BY <1>1, <1>9, <1>10, <1>17 DEF Memory, MapProgress

\* One more table.
LEMMA OneTableMore ==
  ASSUME NEW t \in Seq(TableType), NEW f \in Files, NEW columns \in Seq(ColumnType)
  PROVE  LET x == [file |-> f, columns |-> columns]
         IN  /\ x \in TableType /\ x.file = f /\ x.columns = columns
             /\ Append(t, x) \in Seq(TableType)
             /\ Range(Append(t, x)) = Range(t) \cup {x}
             /\ DOMAIN Append(t, x) = DOMAIN t \cup {Len(t) + 1}
             /\ \A i \in DOMAIN t : Append(t, x)[i] = t[i]
             /\ Append(t, x)[Len(t) + 1] = x
             /\ Len(t) + 1 \notin DOMAIN t
<1> DEFINE n == Len(t)
           x == [file |-> f, columns |-> columns]
           u == Append(t, x)
<1>1. x \in TableType /\ x.file = f /\ x.columns = columns
  BY DEF TableType
<1> HIDE DEF x
<1>2. /\ n \in Nat /\ DOMAIN t = 1 .. n /\ u \in Seq(TableType) /\ DOMAIN u = 1 .. n + 1
      /\ u[n + 1] = x /\ \A i \in 1 .. n : u[i] = t[i]
  BY <1>1
<1> HIDE DEF n, u
<1>3. 1 .. n + 1 = 1 .. n \cup {n + 1} /\ n + 1 \notin 1 .. n
  BY <1>2
<1>4. Range(u) = Range(t) \cup {x}
  BY <1>2, <1>3 DEF Range
<1> QED
  BY <1>1, <1>2, <1>3, <1>4 DEF x, u, n

\* plan.new_input
LEMMA NewInputMemory ==
  ASSUME Control, Memory, NewInput
  PROVE  Memory'
<1> DEFINE x == [file |-> file, columns |-> local]
           B == Named(<<>>, results, inputs, forever)
<1>1. /\ pc = "loaded" /\ pc' = "load" /\ kind' = kind /\ torn' = torn
      /\ inputs' = Append(inputs, x) /\ local' = <<>>
      /\ mem' = mem /\ data' = data /\ results' = results /\ forever' = forever
  BY DEF NewInput, Goto, diskVars
<1>2. /\ Shape /\ Ownership /\ Exactness /\ file \in Files
      /\ local \in Seq(ColumnType) /\ inputs \in Seq(TableType)
  BY QueryKnown DEF Memory, Shape
<1>3. /\ x \in TableType /\ x.file = file /\ x.columns = local
      /\ inputs' \in Seq(TableType) /\ Range(inputs') = Range(inputs) \cup {x}
  BY <1>1, <1>2, OneTableMore
<1> HIDE DEF x
<1>4. Owned(B \cup ColumnsOf("local", 0, local), mem)
      /\ B \cap ColumnsOf("local", 0, local) = {}
      /\ \A a \in DOMAIN mem.maps : mem.maps[a].refs # 0
  BY <1>1, <1>2, AllHeld, LocalApart
<1>5. /\ Named(<<>>, results, inputs', forever) = B \cup ColumnsOf("inputs", Len(inputs) + 1, local)
      /\ B \cap ColumnsOf("inputs", Len(inputs) + 1, local) = {}
  <2> DEFINE new == ColumnsOf("inputs", Len(inputs) + 1, x.columns)
  <2>1. /\ Named(<<>>, results, Append(inputs, x), forever) = B \cup new
        /\ B \cap new = {}
    <3>1. inputs \in Seq(TableType) /\ x \in TableType
      BY <1>2, <1>3
    <3> QED
      BY <3>1, InputsApart
  <2>2. new = ColumnsOf("inputs", Len(inputs) + 1, local)
    BY <1>3
  <2> QED
    BY <1>1, <2>1, <2>2
<1> HIDE DEF B
<1>6. Owned(B \cup ColumnsOf("inputs", Len(inputs) + 1, local), mem)
  BY <1>4, <1>5, TableMoved
<1>7. live' = Named(<<>>, results, inputs', forever)
  BY <1>1 DEF live, Named
<1>8. Ownership'
  BY <1>1, <1>4, <1>5, <1>6, <1>7 DEF Ownership
<1>9. Shape'
  BY <1>1, <1>2, <1>3 DEF Shape
<1>10. Expected(file, local) /\ \A t \in tables : Expected(t.file, t.columns)
  BY <1>1, <1>2 DEF Exactness, CacheExact, ending
<1>11. tables' = tables \cup {x}
  BY <1>1, <1>3 DEF tables
<1>12. \A t \in tables' : Expected(t.file, t.columns)'
  BY <1>1, <1>3, <1>10, <1>11 DEF Expected
<1>13. Exactness'
  BY <1>1, <1>2, <1>12 DEF Exactness, Exact, CacheExact
<1> QED
  BY <1>1, <1>8, <1>9, <1>13 DEF Memory, MapProgress

\* The end of DumpTable, and of the table it was called for if that was a
\* query's result.
LEMMA CloseFileMemory ==
  ASSUME Control, Memory, CloseFile
  PROVE  Memory'
<1> DEFINE x == [file |-> file, columns |-> local]
           B == Named(<<>>, results, inputs, forever)
<1>1. /\ pc = "dump" /\ kind' = kind /\ at' = at /\ file' = file /\ torn' = torn
      /\ inputs' = inputs /\ results' = results /\ mem' = mem /\ data' = data
  BY SamePlace DEF CloseFile, Goto, diskVars
<1>2. /\ Shape /\ Ownership /\ Exactness /\ file \in Files
      /\ local \in Seq(ColumnType) /\ forever \in Seq(TableType)
      /\ ReadAll(mem, local) = Truth(file)
      /\ \A i \in DOMAIN local : local[i].mapped = NoMemory
  BY <1>1, QueryKnown DEF Memory, Shape, Exactness
<1>3. CASE scanning
  <2>1. pc' = "loaded" /\ UNCHANGED memVars
    BY <1>1, <1>3 DEF CloseFile, Goto, memVars
  <2>2. Shape' /\ Ownership' /\ MapProgress'
    BY <1>1, <1>2, <2>1, MemorySame
  <2>3. tables' = tables
    BY <2>1 DEF tables, memVars
  <2>4. Expected(file, local) /\ \A t \in tables : Expected(t.file, t.columns)
    BY <1>1, <1>2 DEF Exactness, CacheExact, ending, Expected
  <2>5. Expected(file, local)' /\ \A t \in tables : Expected(t.file, t.columns)'
    BY <1>1, <2>1, <2>4 DEF Expected, memVars
  <2>6. Exactness'
    BY <1>1, <1>2, <2>1, <2>3, <2>5 DEF Exactness, Exact, CacheExact, memVars
  <2> QED
    BY <2>2, <2>6 DEF Memory
<1>4. CASE ~scanning
  <2>1. pc' = "end" /\ forever' = Append(forever, x) /\ local' = <<>>
    BY <1>4 DEF CloseFile, Goto
  <2>2. /\ x \in TableType /\ x.file = file /\ x.columns = local
        /\ forever' \in Seq(TableType) /\ Range(forever') = Range(forever) \cup {x}
        /\ DOMAIN forever' = DOMAIN forever \cup {Len(forever) + 1}
        /\ \A i \in DOMAIN forever : forever'[i] = forever[i]
        /\ forever'[Len(forever) + 1] = x
    BY <1>2, <2>1, OneTableMore
  <2> HIDE DEF x
  <2>3. Owned(B \cup ColumnsOf("local", 0, local), mem)
        /\ B \cap ColumnsOf("local", 0, local) = {}
        /\ \A a \in DOMAIN mem.maps : mem.maps[a].refs # 0
    BY <1>1, <1>2, AllHeld, LocalApart
  <2>4. /\ Named(<<>>, results, inputs, forever') =
             B \cup ColumnsOf("forever", Len(forever) + 1, local)
        /\ B \cap ColumnsOf("forever", Len(forever) + 1, local) = {}
    <3> DEFINE new == ColumnsOf("forever", Len(forever) + 1, x.columns)
    <3>1. /\ Named(<<>>, results, inputs, Append(forever, x)) = B \cup new
          /\ B \cap new = {}
      <4>1. forever \in Seq(TableType) /\ x \in TableType
        BY <1>2, <2>2
      <4> QED
        BY <4>1, ForeverApart
    <3>2. new = ColumnsOf("forever", Len(forever) + 1, local)
      BY <2>2
    <3> QED
      BY <2>1, <3>1, <3>2
  <2> HIDE DEF B
  <2>5. Owned(B \cup ColumnsOf("forever", Len(forever) + 1, local), mem)
    BY <2>3, <2>4, TableMoved
  <2>6. live' = Named(<<>>, results, inputs, forever')
    BY <1>1, <2>1 DEF live, Named
  <2>7. Ownership'
    BY <1>1, <2>3, <2>4, <2>5, <2>6 DEF Ownership
  <2>8. \A i \in DOMAIN forever' : \A j \in DOMAIN forever'[i].columns :
          forever'[i].columns[j].mapped = NoMemory
    BY <1>2, <2>2 DEF Shape
  <2>9. Shape'
    BY <1>1, <1>2, <2>1, <2>2, <2>8 DEF Shape
  <2>10. \A t \in Range(forever') : ReadAll(mem, t.columns) = Truth(t.file)
    BY <1>2, <2>2 DEF Exactness, Exact
  <2>11. Exactness'
    BY <1>1, <2>1, <2>10 DEF Exactness, Exact, CacheExact, ending
  <2> QED
    BY <2>1, <2>7, <2>9, <2>11 DEF Memory, MapProgress
<1> QED
  BY <1>3, <1>4

\* The header of a file is the first of its blocks.
LEMMA HeaderRead ==
  ASSUME Control, Disk, MapProgress, pc = "map"
  PROVE  /\ meta.numPages = NumPages[file]
         /\ data.map \in DOMAIN mem.maps /\ mem.maps[data.map].blocks = files[file]
         /\ file \notin torn => files[file] = FileOf(file)
<1>1. /\ file \in DOMAIN files /\ files[file] # <<>>
      /\ data.map \in DOMAIN mem.maps /\ mem.maps[data.map].blocks = files[file]
  BY DEF MapProgress
<1>2. file \in Files /\ PartOf(files[file], file)
  BY <1>1, QueryKnown DEF Disk
<1>3. /\ files[file] \in Seq(Block(file))
      /\ \A j \in 1 .. Len(files[file]) : files[file][j] = FileOf(file)[j]
  BY <1>2, PartKnown
<1>4. 1 \in 1 .. Len(files[file])
  <2> DEFINE b == files[file]
  <2>1. b \in Seq(Block(file)) /\ b # <<>>
    BY <1>1, <1>3
  <2> HIDE DEF b
  <2>2. 1 \in 1 .. Len(b)
    BY <2>1
  <2> QED
    BY <2>2 DEF b
<1>5. files[file][1] = [numPages |-> NumPages[file]]
  BY <1>2, <1>3, <1>4, FileKnown
<1>6. meta = [numPages |-> NumPages[file]]
  BY <1>1, <1>5 DEF meta
<1>7. meta.numPages = NumPages[file]
  BY <1>6
<1>8. file \notin torn => files[file] = FileOf(file)
  BY <1>1 DEF Disk
<1> QED
  BY <1>1, <1>7, <1>8

\* A file is mapped.
LEMMA MapFileMemory ==
  ASSUME Control, Memory, Disk, MapFile
  PROVE  Memory'
<1> DEFINE a == Fresh(DOMAIN mem.maps)
           b == files[file]
           m2 == [mem EXCEPT !.maps = With(mem.maps, a, [blocks |-> b, refs |-> 0])]
<1>1. /\ pc # "map" /\ pc' = "map" /\ kind' = kind /\ at' = at /\ file' = file /\ torn' = torn
      /\ files' = files /\ file \in DOMAIN files /\ b # <<>> /\ pc \in {"load", "executed"}
      /\ local' = <<>> /\ inputs' = inputs /\ results' = results /\ forever' = forever
      /\ data' = [map |-> a, block |-> 2] /\ mem' = m2
      /\ kind = "cache"
  BY SamePlace DEF MapFile, Goto, diskVars, atCache
<1>2. /\ Shape /\ Ownership /\ Exactness /\ MemOK(mem)
  BY DEF Memory, Shape
<1>3. local = <<>> /\ file \in Files /\ forever = <<>>
  BY <1>1, QueryKnown DEF Control
<1>4. a \in Nat \ {0} /\ a \notin DOMAIN mem.maps
  BY <1>2, FreshAddress DEF MemOK
<1>5. a # NoMemory
  BY <1>4 DEF NoMemory
<1> HIDE DEF b, a
<1>6. Owned(Named(<<>>, results, inputs, forever), mem)
      /\ \A z \in DOMAIN mem.maps : mem.maps[z].refs # 0
  BY <1>1, <1>2, <1>3, AllHeld
<1> DEFINE L == Named(<<>>, results, inputs, forever)
<1> HIDE DEF L
<1>7. Owned(L, mem)
  BY <1>6 DEF L
<1>8. /\ MemOK(m2) /\ Owned(L, m2)
      /\ m2.heap = mem.heap
      /\ DOMAIN m2.maps = DOMAIN mem.maps \cup {a}
      /\ m2.maps[a] = [blocks |-> b, refs |-> 0]
      /\ \A z \in DOMAIN mem.maps : m2.maps[z] = mem.maps[z]
  BY <1>2, <1>4, <1>5, <1>7, MappingOwned
<1> HIDE DEF m2
<1>9. live' = L /\ live = L
  BY <1>1, <1>3 DEF live, Named, L
<1>10. data'.map = a
  BY <1>1
<1>11. Ownership'
  <2>1. \A z \in DOMAIN m2.maps : m2.maps[z].refs = 0 => z = a
    BY <1>6, <1>8
  <2> QED
    BY <1>1, <1>8, <1>9, <1>10, <2>1 DEF Ownership
<1>12. Shape'
  BY <1>1, <1>2, <1>8 DEF Shape
<1>13. MapProgress'
  <2>1. mem'.maps[a].blocks = b
    BY <1>1, <1>8
  <2>2. StartOf(file)[0] = 0 /\ Len(NumPages[file]) \in Nat
    BY <1>3, StartsKnown, TableKnown
  <2>3. Len(local') = 0 /\ DOMAIN local' = {}
    BY <1>1
  <2>4. data' = [map |-> data'.map, block |-> 2 + StartOf(file)[Len(local')]]
    BY <1>1, <2>2, <2>3
  <2>5. /\ data'.map \in Nat /\ data'.map \in DOMAIN mem'.maps
        /\ file' \in DOMAIN files' /\ files'[file'] # <<>>
        /\ mem'.maps[data'.map].blocks = files'[file']
    BY <1>1, <1>4, <1>8, <1>10, <2>1 DEF b
  <2>6. Len(local') <= Len(NumPages[file']) /\ DOMAIN local' = {}
    BY <1>1, <2>2, <2>3
  <2>7. data' = [map |-> data'.map, block |-> 2 + StartOf(file')[Len(local')]]
    BY <1>1, <2>4
  <2> QED
    BY <2>5, <2>6, <2>7 DEF MapProgress
<1>14. Kept(live, mem, m2)
  <2>1. \A c \in L : c.column.mapped # NoMemory => c.column.mapped \in DOMAIN mem.maps
    BY <1>7 DEF Owned
  <2> QED
    BY <1>8, <1>9, <2>1 DEF Kept
<1>15. \A x \in tables : ReadAll(mem', x.columns) = ReadAll(mem, x.columns)
  BY <1>1, <1>2, <1>14, TablesKept
<1>16. \A x \in tables : Expected(x.file, x.columns)
  BY <1>1, <1>2 DEF Exactness, CacheExact, ending
<1>17. \A x \in tables : Expected(x.file, x.columns)'
  BY <1>1, <1>15, <1>16 DEF Expected
<1>18. tables' = tables /\ Range(forever') = {}
  BY <1>1, <1>3 DEF tables, Range
<1>19. Exactness'
  BY <1>1, <1>17, <1>18 DEF Exactness, CacheExact
<1> QED
  BY <1>11, <1>12, <1>13, <1>19 DEF Memory

\* One more of its columns.
LEMMA MapColumnMemory ==
  ASSUME Control, Memory, Disk, MapColumn
  PROVE  Memory'
<1> DEFINE a == data.map
           n == Len(local)
           i == n + 1
           s == StartOf(file)
           pages == [j \in 1 .. NumPages[file][i] |-> 2 + s[n] + j - 1]
           c == [mapped |-> a, pages |-> pages]
           m2 == [mem EXCEPT !.maps[a].refs = @ + 1]
<1>1. /\ pc = "map" /\ pc' = "map" /\ kind' = kind /\ at' = at /\ file' = file /\ torn' = torn
      /\ files' = files /\ n < Len(meta.numPages)
      /\ inputs' = inputs /\ results' = results /\ forever' = forever
      /\ kind = "cache"
  BY SamePlace DEF MapColumn, Goto, diskVars, Control
<1>2. /\ Shape /\ Ownership /\ Exactness /\ MapProgress /\ MemOK(mem)
      /\ local \in Seq(ColumnType) /\ n \in Nat /\ DOMAIN local = 1 .. n
  BY DEF Memory, Shape
<1>3. /\ file \in Files /\ meta.numPages = NumPages[file] /\ a \in DOMAIN mem.maps
      /\ n < Len(NumPages[file]) /\ forever = <<>>
      /\ data = [map |-> a, block |-> 2 + s[n]] /\ data.block = 2 + s[n]
      /\ \A k \in DOMAIN local :
           local[k] = [mapped |-> a,
                       pages |-> [j \in 1 .. NumPages[file][k] |-> 2 + s[k - 1] + j - 1]]
  <2>1. data = [map |-> a, block |-> 2 + s[n]]
    BY <1>1, <1>2 DEF MapProgress
  <2>2. data.block = 2 + s[n]
    BY <2>1
  <2> QED
    BY <1>1, <1>2, <2>1, <2>2, QueryKnown, HeaderRead DEF MapProgress, Control
<1>4. /\ Len(NumPages[file]) \in Nat /\ i \in 1 .. Len(NumPages[file]) /\ i - 1 = n
      /\ NumPages[file][i] \in Nat /\ s[n] \in Nat /\ s[i] = s[n] + NumPages[file][i]
  <2>1. Len(NumPages[file]) \in Nat
    BY <1>3, TableKnown
  <2>2. i \in 1 .. Len(NumPages[file]) /\ i - 1 = n /\ n \in 0 .. Len(NumPages[file])
    BY <1>2, <1>3, <2>1
  <2>3. /\ s \in [0 .. Len(NumPages[file]) -> Nat]
        /\ \A k \in 1 .. Len(NumPages[file]) : s[k] = s[k - 1] + NumPages[file][k]
    BY <1>3, StartsKnown
  <2>4. NumPages[file][i] \in Nat
    BY <1>3, <2>2, TableKnown
  <2> HIDE DEF i, s, n
  <2> QED
    BY <2>1, <2>2, <2>3, <2>4
<1>5. c \in ColumnType /\ Column \in ColumnType
  <2>1. a \in Nat
    BY <1>1, <1>2 DEF MapProgress
  <2>2. \A j \in 1 .. NumPages[file][i] : 2 + s[n] + j - 1 \in Nat
    BY <1>4
  <2>3. pages \in Seq(Nat)
    <3> DEFINE k == NumPages[file][i]
    <3>1. k \in Nat /\ pages \in [1 .. k -> Nat]
      BY <1>4, <2>2
    <3> HIDE DEF k, pages
    <3> QED
      BY <3>1
  <2>4. <<>> \in Seq(Nat) /\ NoMemory \in Nat
    BY DEF NoMemory
  <2> HIDE DEF pages, a
  <2> QED
    BY <2>1, <2>3, <2>4 DEF ColumnType, Column
<1>6. /\ local' = Append(local, c) /\ mem' = m2
      /\ data' = [map |-> a, block |-> 2 + s[i]]
  <2> DEFINE grown == EmplaceBack([columns |-> local, mem |-> mem], Column)
             made == [mapped |-> data.map,
                      pages |-> [j \in 1 .. meta.numPages[i] |-> data.block + j - 1]]
  <2>1. grown = [columns |-> Append(local, Column), mem |-> mem]
    BY <1>2, GrowthFreesNothing
  <2>2. grown.columns = Append(local, Column) /\ grown.mem = mem
    BY <2>1
  <2>3. /\ local' = [grown.columns EXCEPT ![i] = made]
        /\ mem' = [grown.mem EXCEPT !.maps[data.map].refs = @ + 1]
        /\ data' = [data EXCEPT !.block = @ + meta.numPages[i]]
    BY DEF MapColumn
  <2>4. made = c
    BY <1>3
  <2> HIDE DEF grown, made
  <2>5. local' = [Append(local, Column) EXCEPT ![i] = c] /\ mem' = m2
    BY <2>2, <2>3, <2>4
  <2>6. [Append(local, Column) EXCEPT ![i] = c] = Append(local, c)
    <3> HIDE DEF c
    <3> QED
      BY <1>2, <1>5, LastReplaced
  <2>7. data' = [map |-> a, block |-> 2 + s[i]]
    <3> DEFINE k == NumPages[file][i]
               v == s[n]
    <3>1. meta.numPages[i] = k /\ data = [map |-> a, block |-> 2 + v] /\ s[i] = v + k
          /\ v \in Nat /\ k \in Nat
      BY <1>3, <1>4
    <3> HIDE DEF k, v, a, s, i
    <3>2. data' = [map |-> a, block |-> 2 + v + k]
      BY <2>3, <3>1
    <3>3. 2 + v + k = 2 + s[i]
      BY <3>1
    <3> QED
      BY <3>2, <3>3
  <2> QED
    BY <2>5, <2>6, <2>7
<1> DEFINE x == [in |-> "local", table |-> 0, nr |-> i, column |-> c]
<1>7. x.column = c /\ x.nr = i /\ x.column.mapped = a
  OBVIOUS
<1>8. ColumnsOf("local", 0, Append(local, c)) = ColumnsOf("local", 0, local) \cup {x}
      /\ x \notin ColumnsOf("local", 0, local)
  <2> DEFINE u == Append(local, c)
             N(columns, k) == [in |-> "local", table |-> 0, nr |-> k, column |-> columns[k]]
  <2> HIDE DEF c
  <2>1. /\ DOMAIN u = 1 .. n + 1 /\ u[n + 1] = c /\ \A k \in 1 .. n : u[k] = local[k]
    BY <1>2, <1>5
  <2> HIDE DEF u, n
  <2>2. 1 .. n + 1 = (1 .. n) \cup {n + 1} /\ n + 1 \notin 1 .. n
    BY <1>2
  <2>3. \A k \in 1 .. n : N(u, k) = N(local, k)
    BY <2>1
  <2>4. N(u, n + 1) = x
    BY <2>1
  <2>5. {N(u, k) : k \in 1 .. n + 1} = {N(local, k) : k \in 1 .. n} \cup {x}
    <3> HIDE DEF N, x
    <3> QED
      BY <2>2, <2>3, <2>4
  <2>6. ColumnsOf("local", 0, u) = {N(u, k) : k \in 1 .. n + 1}
        /\ ColumnsOf("local", 0, local) = {N(local, k) : k \in 1 .. n}
    BY <1>2, <2>1 DEF ColumnsOf
  <2>7. x \notin ColumnsOf("local", 0, local)
    BY <1>2, <1>7, <2>2, ColumnsIn
  <2> QED
    BY <2>5, <2>6, <2>7 DEF u
<1>9. live' = live \cup {x} /\ x \notin live
  <2>1. live' = Named(local', results, inputs, forever)
    BY <1>1 DEF live, Named
  <2>2. x.in = "local"
    OBVIOUS
  <2> DEFINE B == Named(<<>>, results, inputs, forever)
             S == ColumnsOf("local", 0, local)
             T == ColumnsOf("local", 0, Append(local, c))
  <2>3. live = B \cup S
    BY LiveNamed, LocalApart
  <2>4. Named(Append(local, c), results, inputs, forever) = B \cup T /\ B \cap T = {}
    BY LocalApart
  <2> HIDE DEF B, S, T, c, x
  <2>5. T = S \cup {x} /\ x \notin S
    BY <1>8 DEF S, T
  <2>6. live' = B \cup T
    BY <1>6, <2>1, <2>4
  <2> QED
    BY <2>3, <2>4, <2>5, <2>6
<1> HIDE DEF x, c, m2
<1>10. /\ MemOK(m2) /\ Owned(live \cup {x}, m2)
       /\ m2.heap = mem.heap
       /\ DOMAIN m2.maps = DOMAIN mem.maps
       /\ \A z \in DOMAIN mem.maps :
            m2.maps[z] = [blocks |-> mem.maps[z].blocks,
                          refs |-> IF z = a THEN mem.maps[a].refs + 1 ELSE mem.maps[z].refs]
       /\ mem.maps[a].refs \in Nat
  <2>1. Owned(live, mem) /\ x \notin live /\ x.column.mapped = a /\ a \in DOMAIN mem.maps
        /\ MemOK(mem)
    BY <1>2, <1>3, <1>7, <1>9 DEF Ownership
  <2> HIDE DEF a
  <2>2. Held(live, mem, a, x, m2)
    BY <2>1, HolderOwned DEF m2
  <2> QED
    BY <2>2 DEF Held
<1> HIDE DEF a
<1>11. ASSUME NEW z \in DOMAIN mem.maps
       PROVE  m2.maps[z].refs # 0 /\ m2.maps[z].blocks = mem.maps[z].blocks
  <2> DEFINE r == IF z = a THEN mem.maps[a].refs + 1 ELSE mem.maps[z].refs
  <2>1. m2.maps[z] = [blocks |-> mem.maps[z].blocks, refs |-> r]
    BY <1>10
  <2>2. r # 0
    <3>1. mem.maps[z].refs = 0 => z = a
      BY <1>2 DEF Ownership, a
    <3> QED
      BY <1>10, <3>1
  <2> HIDE DEF r
  <2> QED
    BY <2>1, <2>2
<1>12. Ownership'
  BY <1>6, <1>9, <1>10, <1>11 DEF Ownership
<1>13. local' \in Seq(ColumnType) /\ Len(local') = i /\ DOMAIN local' = 1 .. i
       /\ local'[i] = c /\ \A k \in 1 .. n : local'[k] = local[k]
  BY <1>2, <1>5, <1>6
<1>14. Shape'
  BY <1>1, <1>2, <1>6, <1>10, <1>13 DEF Shape
<1>15. MapProgress'
  <2>1. \A k \in 1 .. i :
          local'[k] = [mapped |-> a,
                       pages |-> [j \in 1 .. NumPages[file][k] |-> 2 + s[k - 1] + j - 1]]
    <3> TAKE k \in 1 .. i
    <3>1. CASE k \in 1 .. n
      BY <1>2, <1>3, <1>13, <3>1
    <3>2. CASE k = i
      BY <1>4, <1>13, <3>2 DEF c
    <3> QED
      BY <1>2, <3>1, <3>2
  <2>2. data'.map = a /\ data' = [map |-> a, block |-> 2 + s[i]]
    BY <1>6
  <2>3. i <= Len(NumPages[file])
    BY <1>4
  <2>4. mem'.maps[a].blocks = files[file] /\ a \in DOMAIN mem'.maps /\ a \in Nat
    BY <1>1, <1>2, <1>3, <1>6, <1>10, <1>11 DEF MapProgress, a
  <2>5. file \in DOMAIN files /\ files[file] # <<>>
    BY <1>1, <1>2 DEF MapProgress
  <2> HIDE DEF i, s
  <2> QED
    BY <1>1, <1>13, <2>1, <2>2, <2>3, <2>4, <2>5 DEF MapProgress, s
<1>16. Kept(live, mem, m2)
  <2>1. \A d \in live : d.column.mapped # NoMemory => d.column.mapped \in DOMAIN mem.maps
    BY <1>2 DEF Owned, Ownership
  <2> QED
    BY <1>10, <1>11, <2>1 DEF Kept
<1>17. \A t \in tables : ReadAll(mem', t.columns) = ReadAll(mem, t.columns)
  BY <1>2, <1>6, <1>16, TablesKept
<1>18. \A t \in tables : Expected(t.file, t.columns)
  BY <1>1, <1>2 DEF Exactness, CacheExact, ending
<1>19. \A t \in tables : Expected(t.file, t.columns)'
  BY <1>1, <1>17, <1>18 DEF Expected
<1>20. tables' = tables /\ Range(forever') = {}
  BY <1>1, <1>3 DEF tables, Range
<1>21. Exactness'
  BY <1>1, <1>19, <1>20 DEF Exactness, CacheExact
<1> QED
  BY <1>12, <1>14, <1>15, <1>21 DEF Memory

\* All columns are there, and read as the file.
LEMMA TableMappedMemory ==
  ASSUME Control, Memory, Disk, TableMapped
  PROVE  Memory'
<1>1. /\ pc = "map" /\ pc' = "loaded" /\ kind' = kind /\ at' = at /\ file' = file /\ torn' = torn
      /\ Len(local) = Len(meta.numPages)
      /\ mem' = mem /\ local' = local /\ inputs' = inputs /\ results' = results
      /\ forever' = forever /\ kind = "cache"
  BY SamePlace DEF TableMapped, Goto, diskVars, Control
<1>2. /\ Shape /\ Ownership /\ Exactness /\ MapProgress /\ local \in Seq(ColumnType)
  BY DEF Memory, Shape
<1>3. /\ file \in Files /\ Len(local) = Len(NumPages[file]) /\ Len(local) # 0
  BY <1>1, <1>2, QueryKnown, HeaderRead, TableKnown
<1>4. local # <<>>
  BY <1>3
<1>5. \A a \in DOMAIN mem.maps : mem.maps[a].refs # 0
  BY <1>4, <1>2, AllHeld
<1>6. live' = live
  BY <1>1 DEF live
<1>7. Ownership'
  BY <1>1, <1>2, <1>5, <1>6 DEF Ownership
<1>8. Shape'
  BY <1>1, <1>2 DEF Shape
<1>9. Expected(file, local)
  <2>1. CASE file \in torn
    BY <1>1, <2>1 DEF Expected
  <2>2. CASE file \notin torn
    <3> DEFINE a == data.map
    <3>1. /\ mem.maps[a].blocks = FileOf(file) /\ a \in DOMAIN mem.maps
      BY <1>1, <1>2, <2>2, HeaderRead
    <3>2. a # NoMemory
      BY <1>2, <3>1 DEF Ownership, Owned
    <3>3. \A i \in DOMAIN local :
            local[i] = [mapped |-> a,
                        pages |-> [j \in 1 .. NumPages[file][i] |->
                                     2 + StartOf(file)[i - 1] + j - 1]]
      BY <1>1, <1>2 DEF MapProgress
    <3> HIDE DEF a
    <3>4. ReadAll(mem, local) = Truth(file)
      BY <1>2, <1>3, <3>1, <3>2, <3>3, MappedReads
    <3> QED
      BY <3>4 DEF Expected
  <2> QED
    BY <2>1, <2>2
<1>10. \A t \in tables : Expected(t.file, t.columns)
  BY <1>1, <1>2 DEF Exactness, CacheExact, ending
<1>11. Expected(file, local)' /\ (\A t \in tables : Expected(t.file, t.columns)')
       /\ tables' = tables
  BY <1>1, <1>9, <1>10 DEF Expected, tables
<1>12. Exactness'
  BY <1>1, <1>2, <1>11 DEF Exactness, Exact, CacheExact
<1> QED
  BY <1>1, <1>7, <1>8, <1>12 DEF Memory, MapProgress

\* Whatever column goes when a query ends, the tables that stay are as they
\* were.
LEMMA ColumnEnds ==
  ASSUME Memory, ending, pc' = pc, at' = at, UNCHANGED diskVars, forever' = forever,
         local' \in Seq(ColumnType), results' \in Seq(ColumnType), inputs' \in Seq(TableType),
         NEW B, ColumnsOfTables("forever", forever) \subseteq B, Shortened(B, mem, mem', live')
  PROVE  Memory'
<1>1. /\ Shape /\ Ownership /\ Exactness /\ pc \notin {"map", "open", "dump", "loaded"}
  BY DEF Memory, ending
<1>2. /\ MemOK(mem') /\ Owned(live', mem') /\ Kept(Unmapped(B), mem, mem')
      /\ \A a \in DOMAIN mem'.maps :
           mem'.maps[a].refs = 0 => a \in DOMAIN mem.maps /\ mem.maps[a].refs = 0
  BY DEF Shortened
<1>3. Shape'
  BY <1>1, <1>2 DEF Shape
<1>4. Ownership'
  BY <1>1, <1>2 DEF Ownership
<1>5. MapProgress'
  BY <1>1 DEF MapProgress
<1>6. ASSUME NEW t \in Range(forever)
      PROVE  Exact(t)'
  <2> DEFINE F == ColumnsOfTables("forever", forever)
  <2>1. AreIn(t.columns, Unmapped(F))
    BY <1>1, LiveColumns
  <2>2. Kept(Unmapped(F), mem, mem')
    BY <1>2 DEF Kept, Unmapped
  <2>3. ReadAll(mem', t.columns) = ReadAll(mem, t.columns)
    BY <2>1, <2>2, ReadingKept
  <2> QED
    BY <1>1, <2>3 DEF Exactness, Exact
<1>7. file' = file
  BY SamePlace
<1>8. CacheExact'
  BY <1>1, <1>7 DEF Exactness, CacheExact, ending, diskVars
<1>9. Exactness'
  BY <1>1, <1>6, <1>8 DEF Exactness
<1> QED
  BY <1>3, <1>4, <1>5, <1>9 DEF Memory

\* The sequence that is left is one of the same kind.
LEMMA TailIn ==
  ASSUME NEW S, NEW s \in Seq(S), s # <<>>
  PROVE  Tail(s) \in Seq(S)
OBVIOUS

\* The expected result goes.
LEMMA LocalEnds ==
  ASSUME Memory, local # <<>>, mem' = Destroy(mem, local[1]), local' = Tail(local),
         results' = results, inputs' = inputs, forever' = forever
  PROVE  Shortened(ColumnsOfTables("forever", forever), mem, mem', live')
<1> DEFINE B == Named(<<>>, results, inputs, forever)
           F == ColumnsOfTables("forever", forever)
<1>1. Shape /\ Ownership /\ local \in Seq(ColumnType) /\ MemOK(mem)
  BY DEF Memory, Shape
<1>2. /\ live = B \cup ColumnsOf("local", 0, local) /\ B \cap ColumnsOf("local", 0, local) = {}
      /\ B \cap ColumnsOf("local", 0, Tail(local)) = {}
      /\ live' = B \cup ColumnsOf("local", 0, Tail(local))
  BY LiveNamed, LocalApart DEF live, Named
<1>3. F \subseteq B
  BY DEF Named
<1>4. Owned(B \cup ColumnsOf("local", 0, local), mem)
  BY <1>1, <1>2 DEF Ownership
<1> HIDE DEF B, F
<1>5. Shortened(B, mem, mem', live')
  BY <1>1, <1>2, <1>4, FirstGone
<1> QED
  BY <1>3, <1>5 DEF Shortened, Kept, Unmapped, F

\* The result goes.
LEMMA ResultsEnd ==
  ASSUME Memory, results # <<>>, mem' = Destroy(mem, results[1]), results' = Tail(results),
         local' = local, inputs' = inputs, forever' = forever
  PROVE  Shortened(ColumnsOfTables("forever", forever), mem, mem', live')
<1> DEFINE B == Named(local, <<>>, inputs, forever)
           F == ColumnsOfTables("forever", forever)
<1>1. Shape /\ Ownership /\ results \in Seq(ColumnType) /\ MemOK(mem)
  BY DEF Memory, Shape
<1>2. /\ live = B \cup ColumnsOf("results", 0, results)
      /\ B \cap ColumnsOf("results", 0, results) = {}
      /\ B \cap ColumnsOf("results", 0, Tail(results)) = {}
      /\ live' = B \cup ColumnsOf("results", 0, Tail(results))
  BY LiveNamed, ResultsApart DEF live, Named
<1>3. F \subseteq B
  BY DEF Named
<1>4. Owned(B \cup ColumnsOf("results", 0, results), mem)
  BY <1>1, <1>2 DEF Ownership
<1> HIDE DEF B, F
<1>5. Shortened(B, mem, mem', live')
  BY <1>1, <1>2, <1>4, FirstGone
<1> QED
  BY <1>3, <1>5 DEF Shortened, Kept, Unmapped, F

\* The first column of the first input goes, and the input with its last.
LEMMA FirstInputEnds ==
  ASSUME Memory, local = <<>>, results = <<>>, inputs # <<>>, inputs[1].columns # <<>>,
         mem' = Destroy(mem, inputs[1].columns[1]),
         inputs' = IF Len(inputs[1].columns) = 1 THEN Tail(inputs)
                   ELSE [inputs EXCEPT ![1].columns = Tail(@)],
         local' = local, results' = results, forever' = forever
  PROVE  /\ inputs' \in Seq(TableType)
         /\ Shortened(ColumnsOfTables("forever", forever), mem, mem', live')
<1> DEFINE F == ColumnsOfTables("forever", forever)
           c == inputs[1].columns
           R == RestOf(inputs)
           B == F \cup R
           S == ColumnsOf("inputs", 1, c)
           T == ColumnsOf("inputs", 1, Tail(c))
<1>1. Shape /\ Ownership /\ inputs \in Seq(TableType) /\ MemOK(mem)
  BY DEF Memory, Shape
<1>2. 1 \in DOMAIN inputs /\ inputs[1] \in TableType
  <2>1. Len(inputs) \in Nat \ {0} /\ DOMAIN inputs = 1 .. Len(inputs)
    BY <1>1
  <2>2. 1 \in DOMAIN inputs
    BY <2>1
  <2> QED
    BY <1>1, <2>2, ElementOfSeq
<1>3. c \in Seq(ColumnType) /\ inputs[1] = [file |-> inputs[1].file, columns |-> c]
      /\ inputs[1].file \in Files
  BY <1>2 DEF TableType
<1>4. /\ \A x \in F : x.in = "forever"
      /\ \A x \in R : x.in = "inputs" /\ x.table # 1
      /\ \A x \in S \cup T : x.in = "inputs" /\ x.table = 1
      /\ ColumnsOfTables("inputs", inputs) = R \cup S
  <2>1. \A x \in F : x.in = "forever"
    BY NamesApart
  <2>2. \A x \in R : x.in = "inputs" /\ x.table # 1
    BY <1>2, FirstApart
  <2>3. \A x \in S \cup T : x.in = "inputs" /\ x.table = 1
    BY ColumnsIn
  <2>4. ColumnsOfTables("inputs", inputs) = R \cup S
    BY <1>2, FirstApart
  <2> QED
    BY <2>1, <2>2, <2>3, <2>4
<1>5. B \cap S = {} /\ B \cap T = {}
  BY <1>4
<1>6. live = B \cup S
  BY <1>4, NothingNamed DEF live
<1>7. Owned(B \cup S, mem) /\ mem' = Destroy(mem, c[1]) /\ c # <<>>
  BY <1>1, <1>6 DEF Ownership
<1> DEFINE new == ColumnsOfTables("inputs", inputs')
<1>8. live' = F \cup new
  BY NothingNamed DEF live
<1> HIDE DEF B, S, T, F, R, c
<1>9. Shortened(B, mem, mem', B \cup T)
  <2>1. /\ MemOK(mem) /\ c \in Seq(ColumnType) /\ c # <<>>
        /\ Owned(B \cup ColumnsOf("inputs", 1, c), mem)
        /\ B \cap ColumnsOf("inputs", 1, c) = {} /\ B \cap ColumnsOf("inputs", 1, Tail(c)) = {}
    BY <1>1, <1>3, <1>5, <1>7 DEF S, T
  <2>2. Shortened(B, mem, Destroy(mem, c[1]), B \cup ColumnsOf("inputs", 1, Tail(c)))
    BY <2>1, FirstGone
  <2> QED
    BY <1>7, <2>2 DEF T
<1>10. CASE Len(c) = 1
  <2>1. inputs' = Tail(inputs) /\ inputs' \in Seq(TableType)
    <3>1. inputs' = Tail(inputs)
      BY <1>10 DEF c
    <3> QED
      BY <1>1, <3>1, TailIn
  <2>2. Tail(c) = <<>>
    <3>1. Tail(c) \in Seq(ColumnType) /\ Len(Tail(c)) = 0
      BY <1>3, <1>7, <1>10, TailIn
    <3> QED
      BY <3>1, EmptySeq
  <2>3. T = {}
    BY <2>2, NothingNamed DEF T
  <2>4. Owned(F \cup R, mem')
    BY <1>9, <2>3 DEF Shortened, B
  <2>5. Owned(F \cup new, mem')
    BY <1>1, <1>4, <2>1, <2>4, RestNamed DEF R
  <2>6. Kept(Unmapped(F), mem, mem')
    BY <1>9 DEF Shortened, Kept, Unmapped, B
  <2>7. Shortened(F, mem, mem', live')
    BY <1>8, <1>9, <2>5, <2>6 DEF Shortened
  <2> QED
    BY <2>1, <2>7 DEF F
<1>11. CASE Len(c) # 1
  <2> DEFINE t == inputs[1]
             x == [t EXCEPT !.columns = Tail(c)]
  <2>1. inputs' = [inputs EXCEPT ![1] = x]
    <3>1. inputs' = [inputs EXCEPT ![1].columns = Tail(@)]
      BY <1>11 DEF c
    <3> QED
      BY <3>1 DEF c
  <2>2. Tail(c) \in Seq(ColumnType)
    BY <1>3, <1>7, TailIn
  <2>3. x \in TableType /\ x.columns = Tail(c)
    <3>1. t \in TableType
      BY <1>2
    <3> HIDE DEF t
    <3> QED
      BY <2>2, <3>1 DEF TableType
  <2> HIDE DEF x, t
  <2>4. /\ inputs' \in Seq(TableType) /\ DOMAIN inputs' = DOMAIN inputs
        /\ inputs'[1] = x /\ \A i \in DOMAIN inputs \ {1} : inputs'[i] = inputs[i]
    <3> DEFINE u == [inputs EXCEPT ![1] = x]
    <3>1. u \in Seq(TableType)
      <4>1. inputs \in [DOMAIN inputs -> TableType]
        BY <1>1
      <4>2. u \in [DOMAIN inputs -> TableType]
        BY <1>2, <2>3, <4>1
      <4>3. DOMAIN inputs = 1 .. Len(inputs) /\ Len(inputs) \in Nat
        BY <1>1
      <4> HIDE DEF u
      <4> QED
        BY <4>2, <4>3
    <3>2. DOMAIN u = DOMAIN inputs /\ u[1] = x /\ \A i \in DOMAIN inputs \ {1} : u[i] = inputs[i]
      BY <1>2
    <3>3. inputs' = u
      BY <2>1
    <3> HIDE DEF u
    <3> QED
      BY <3>1, <3>2, <3>3
  <2>5. RestOf(inputs') = R
    <3> DEFINE U(i) == ColumnsOf("inputs", i, inputs'[i].columns)
               V(i) == ColumnsOf("inputs", i, inputs[i].columns)
    <3>1. \A i \in DOMAIN inputs \ {1} : U(i) = V(i)
      BY <2>4
    <3>2. RestOf(inputs') = UNION {U(i) : i \in DOMAIN inputs \ {1}}
      BY <2>4 DEF RestOf
    <3>3. R = UNION {V(i) : i \in DOMAIN inputs \ {1}}
      BY DEF RestOf, R
    <3> HIDE DEF U, V
    <3> QED
      BY <3>1, <3>2, <3>3
  <2>6. new = R \cup T
    <3>1. 1 \in DOMAIN inputs'
      BY <1>2, <2>4
    <3> QED
      BY <2>3, <2>4, <2>5, <3>1, FirstApart DEF T
  <2>7. live' = B \cup T
    BY <1>8, <2>6 DEF B
  <2>8. Kept(Unmapped(F), mem, mem')
    BY <1>9 DEF Shortened, Kept, Unmapped, B
  <2>9. Shortened(F, mem, mem', live')
    BY <1>9, <2>7, <2>8 DEF Shortened
  <2> QED
    BY <2>4, <2>9 DEF F
<1> QED
  BY <1>10, <1>11

\* What a query leaves behind goes.
LEMMA EndQueryMemory ==
  ASSUME Memory, EndQuery
  PROVE  Memory'
<1> DEFINE F == ColumnsOfTables("forever", forever)
<1>1. /\ ending /\ pc' = pc /\ at' = at /\ UNCHANGED diskVars /\ forever' = forever
  BY DEF EndQuery, Goto
<1>2. /\ local \in Seq(ColumnType) /\ results \in Seq(ColumnType) /\ inputs \in Seq(TableType)
  BY DEF Memory, Shape
<1>3. /\ local' \in Seq(ColumnType) /\ results' \in Seq(ColumnType) /\ inputs' \in Seq(TableType)
      /\ Shortened(F, mem, mem', live')
  <2>1. CASE EndTable(local) /\ local' = Tail(local) /\ UNCHANGED <<results, inputs>>
    BY <1>1, <1>2, <2>1, LocalEnds, TailIn DEF EndTable
  <2>2. CASE EndTable(results) /\ results' = Tail(results) /\ UNCHANGED <<local, inputs>>
    BY <1>1, <1>2, <2>2, ResultsEnd, TailIn DEF EndTable
  <2>3. CASE /\ local = <<>> /\ results = <<>> /\ inputs # <<>>
             /\ EndTable(inputs[1].columns)
             /\ inputs' = IF Len(inputs[1].columns) = 1 THEN Tail(inputs)
                          ELSE [inputs EXCEPT ![1].columns = Tail(@)]
             /\ UNCHANGED <<local, results>>
    BY <1>1, <1>2, <2>3, FirstInputEnds DEF EndTable
  <2> QED
    BY <2>1, <2>2, <2>3 DEF EndQuery
<1> QED
  BY <1>1, <1>3, ColumnEnds

\* A file that is not there, or has nothing in it, is one that is torn, once
\* a builder has come through.
LEMMA MissingTorn ==
  ASSUME Control, Disk, pc # "dump", built, file \in DOMAIN files => files[file] = <<>>
  PROVE  file \in torn
<1>1. Needs(query) \subseteq DOMAIN files /\ file \in Needs(query) /\ file \in Files
  BY QueryKnown DEF Disk
<1>2. files[file] = <<>>
  BY <1>1
<1>3. FileOf(file) # <<>>
  <2> DEFINE b == FileOf(file)
             n == Len(FlattenSeq(Truth(file)))
  <2>1. b \in Seq(Block(file)) /\ n \in Nat /\ Len(b) = 1 + n
    BY <1>1, FileKnown
  <2> HIDE DEF b, n
  <2>2. b # <<>>
    BY <2>1
  <2> QED
    BY <2>2 DEF b
<1> QED
  BY <1>1, <1>2, <1>3 DEF Disk

\* The other steps of a process leave its memory as it is.
LEMMA OtherMemory ==
  ASSUME Control, Memory, Disk,
         \/ \E k \in {"build", "cache", "csv"} : Start(k)
         \/ SkipScan \/ OpenFile \/ Dump \/ Throw \/ Compare \/ NextQuery
  PROVE  Memory'
<1>1. UNCHANGED memVars /\ torn' = torn /\ built' = built
  BY DEF Start, SkipScan, OpenFile, Dump, Throw, Compare, NextQuery, diskVars
<1>2. /\ pc # "map" /\ pc' \notin {"map", "loaded"}
      /\ pc' \in {"open", "dump"} => pc \in {"open", "dump"} /\ at' = at
      /\ pc' = "unwind" => Throw
  BY DEF Start, SkipScan, OpenFile, Dump, Throw, Compare, NextQuery, Goto, Control, atCache
<1>3. Shape /\ Ownership /\ Exactness
  BY DEF Memory
<1>4. Shape' /\ Ownership' /\ MapProgress'
  BY <1>1, <1>2, <1>3, MemorySame
<1>5. mem' = mem /\ local' = local /\ inputs' = inputs /\ forever' = forever
  BY <1>1 DEF memVars
<1>6. \A t \in Range(forever') : Exact(t)'
  BY <1>3, <1>5 DEF Exactness, Exact
<1>7. pc' \in {"open", "dump"} => ReadAll(mem', local') = Truth(file')
  BY <1>2, <1>3, <1>5, SamePlace DEF Exactness
<1>8. ~ending' => \A t \in tables' : Expected(t.file, t.columns)'
  <2> SUFFICES ASSUME ~ending', NEW t \in tables'
               PROVE  Expected(t.file, t.columns)'
    OBVIOUS
  <2>1. tables' = tables
    BY <1>5 DEF tables
  <2>2. CASE \E k \in {"build", "cache", "csv"} : Start(k)
    <3>1. inputs = <<>> /\ forever = <<>>
      BY <2>2 DEF Start, Control, Idle
    <3>2. DOMAIN <<>> = {}
      OBVIOUS
    <3>3. Range(<<>>) = {}
      BY <3>2 DEF Range
    <3>4. tables = {}
      BY <3>1, <3>3 DEF tables
    <3> QED
      BY <2>1, <3>4
  <2>3. CASE NextQuery
    <3>1. tables' = Range(forever)
      BY <1>5, <2>3 DEF NextQuery, ended, tables, Range
    <3> QED
      BY <1>5, <1>6, <3>1 DEF Expected, Exact
  <2>4. CASE SkipScan \/ OpenFile \/ Dump \/ Throw \/ Compare
    <3>1. ~ending /\ kind' = kind
      BY <2>4 DEF SkipScan, OpenFile, Dump, Throw, Compare, Goto, ending, atCache
    <3>2. Expected(t.file, t.columns)
      BY <1>3, <2>1, <3>1 DEF Exactness, CacheExact
    <3> QED
      BY <1>1, <1>5, <3>1, <3>2 DEF Expected
  <2> QED
    BY <2>2, <2>3, <2>4
<1>9. pc' = "unwind" /\ built' => file' \in torn'
  <2> SUFFICES ASSUME pc' = "unwind", built'
               PROVE  file' \in torn'
    OBVIOUS
  <2>1. Throw
    BY <1>2
  <2>2. file' = file /\ pc # "dump" /\ (file \in DOMAIN files => files[file] = <<>>)
    BY <2>1, SamePlace DEF Throw, atCache
  <2> QED
    BY <1>1, <2>2, MissingTorn
<1>10. Exactness'
  BY <1>2, <1>6, <1>7, <1>8, <1>9 DEF Exactness, CacheExact
<1> QED
  BY <1>4, <1>10 DEF Memory

LEMMA StutterMemory ==
  ASSUME Memory, UNCHANGED vars
  PROVE  Memory'
<1>1. UNCHANGED <<memVars, files, torn, built, kind, pc, at>>
  BY DEF vars, diskVars
<1>2. query' = query /\ scanning' = scanning /\ file' = file
  BY <1>1, SamePlace
<1>3. live' = live /\ tables' = tables
  BY <1>1 DEF live, tables, memVars
<1>4. Shape'
  BY <1>1 DEF Memory, Shape, memVars
<1>5. Ownership'
  BY <1>1, <1>3 DEF Memory, Ownership, memVars
<1>6. MapProgress'
  BY <1>1, <1>2 DEF Memory, MapProgress, memVars
<1>7. Exactness'
  BY <1>1, <1>2, <1>3 DEF Memory, Exactness, CacheExact, Exact, Expected, ending, memVars
<1> QED
  BY <1>4, <1>5, <1>6, <1>7 DEF Memory

\* Whatever a process does, it owns its memory, and its tables are exact.
LEMMA MemoryKept ==
  ASSUME Control, Memory, Disk, [Next]_vars
  PROVE  Memory'
<1>1. Crash \/ Exit => ProcessEnds
  BY DEF Crash, Exit
<1> QED
  BY <1>1, MemoryEnds, FromCsvMemory, QueryResultMemory, ExecuteMemory, NewInputMemory,
     CloseFileMemory, MapFileMemory, MapColumnMemory, TableMappedMemory, EndQueryMemory,
     OtherMemory, StutterMemory DEF Next

-----------------------------------------------------------------------------
(* The inductive invariant, and what follows from it *)

LEMMA InvInit ==
  ASSUME Init
  PROVE  Inv
<1>1. Shape /\ Ownership /\ MapProgress /\ Exactness
  <2>1. /\ mem = NoMem /\ local = <<>> /\ inputs = <<>> /\ results = <<>> /\ forever = <<>>
        /\ pc = "none"
    BY DEF Init, Idle
  <2>2. NoMem.heap = <<>> /\ NoMem.maps = <<>> /\ DOMAIN <<>> = {}
    BY DEF NoMem
  <2>3. MemOK(NoMem)
    <3>1. NoMem = [heap |-> NoMem.heap, maps |-> NoMem.maps]
      BY DEF NoMem
    <3>2. <<>> = [x \in DOMAIN <<>> |-> <<>>[x]]
      OBVIOUS
    <3> QED
      BY <2>2, <3>1, <3>2, FS_EmptySet DEF MemOK
  <2>4. live = {}
    <3>1. ColumnsOf("local", 0, <<>>) = {} /\ ColumnsOf("results", 0, <<>>) = {}
      BY NothingNamed
    <3>2. ColumnsOfTables("inputs", <<>>) = {} /\ ColumnsOfTables("forever", <<>>) = {}
      BY <2>2 DEF ColumnsOfTables
    <3> QED
      BY <2>1, <3>1, <3>2 DEF live
  <2>5. Owned({}, NoMem)
    BY <2>2, FS_EmptySet DEF Owned, Unmapped
  <2>6. Shape
    BY <2>1, <2>2, <2>3 DEF Shape
  <2>7. Ownership
    BY <2>1, <2>2, <2>4, <2>5 DEF Ownership
  <2>8. tables = {} /\ Range(forever) = {}
    BY <2>1, <2>2 DEF tables, Range
  <2> QED
    BY <2>1, <2>6, <2>7, <2>8 DEF MapProgress, Exactness, CacheExact
<1>2. Control
  <2>1. Queries # <<>> /\ Len(Queries) \in Nat \ {0}
    BY QueriesKnown
  <2>2. Idle
    BY DEF Init
  <2>3. query = Queries[1] /\ at.scan = 1
    BY <2>2 DEF Idle, query
  <2>4. Len(Queries[1].scans) \in Nat
    <3> DEFINE Q == [scans : Seq(Files), name : Files]
    <3>1. Queries \in Seq(Q) /\ 1 \in DOMAIN Queries
      BY <2>1, QueriesKnown
    <3>2. Queries[1] \in Q
      <4> HIDE DEF Q
      <4> QED
        BY <3>1, ElementOfSeq
    <3> QED
      BY <3>2
  <2>5. at \in [query : 1 .. Len(Queries), scan : Nat \ {0}]
    BY <2>1, <2>2 DEF Idle
  <2>6. at.scan <= Len(query.scans) + 1
    BY <2>3, <2>4
  <2> QED
    BY <2>2, <2>5, <2>6 DEF Control, Idle
<1>3. Disk
  BY DEF Init, Disk, Idle
<1>4. Progress
  BY DEF Init, Progress, Idle
<1> QED
  BY <1>1, <1>2, <1>3, <1>4 DEF Inv

LEMMA InvKept ==
  ASSUME Inv, [Next]_vars
  PROVE  Inv'
<1>1. /\ Control /\ Memory /\ Disk /\ Progress
  BY DEF Inv, Memory
<1>2. Control'
  BY <1>1, ControlKept
<1>3. Disk'
  BY <1>1, DiskKept DEF Memory
<1>4. Progress'
  BY <1>1, ProgressKept
<1>5. Memory'
  BY <1>1, MemoryKept
<1> QED
  BY <1>2, <1>3, <1>4, <1>5 DEF Inv, Memory

LEMMA InvAlways == Spec => []Inv
<1>1. Init => Inv
  BY InvInit
<1>2. Inv /\ [Next]_vars => Inv'
  BY InvKept
<1> QED
  BY <1>1, <1>2, PTL DEF Spec

\* A file has at most the blocks of its table.
LEMMA FileLength ==
  ASSUME NEW f \in Files, NEW blocks, PartOf(blocks, f)
  PROVE  Len(blocks) <= 1 + SumFunction(NumPages[f])
<1> DEFINE s == Truth(f)
           n == Len(NumPages[f])
<1>1. n \in Nat /\ NumPages[f] \in Seq(Nat)
  BY ColumnsFit
<1>2. NumPages[f] = [i \in 1 .. n |-> NumPages[f][i]] /\ DOMAIN NumPages[f] = 1 .. n
      /\ \A i \in 1 .. n : NumPages[f][i] \in Nat
  BY <1>1
<1>3. s \in Seq(Seq(Files \X Nat \X Nat)) /\ Len(s) = n
      /\ \A i \in 1 .. n : Len(s[i]) = NumPages[f][i]
  BY TableKnown
<1> HIDE DEF s, n
<1>4. [i \in 1 .. Len(s) |-> Len(s[i])] = NumPages[f]
  BY <1>2, <1>3
<1>5. Len(FlattenSeq(s)) = SumFunctionOnSet(NumPages[f], 1 .. n)
  BY <1>3, <1>4, FlattenLength
<1>6. SumFunction(NumPages[f]) = SumFunctionOnSet(NumPages[f], 1 .. n)
  BY <1>2 DEF SumFunction
<1>7. Len(FlattenSeq(s)) \in Nat /\ Len(FileOf(f)) = 1 + Len(FlattenSeq(s))
  BY FileKnown DEF s
<1>8. Len(blocks) \in Nat /\ Len(blocks) <= Len(FileOf(f))
  BY PartKnown
<1> QED
  BY <1>5, <1>6, <1>7, <1>8

LEMMA InvTypes == Inv => TypeOK
<1> SUFFICES ASSUME Inv
             PROVE  TypeOK
  OBVIOUS
<1>1. Control /\ Disk
  BY DEF Inv
<1>2. \A f \in DOMAIN files : Len(files[f]) <= 1 + SumFunction(NumPages[f])
  BY <1>1, FileLength DEF Disk
<1> QED
  BY <1>1, <1>2 DEF Control, Disk, TypeOK

LEMMA InvOwned == Inv => OwnedOnce
<1> SUFFICES ASSUME Inv
             PROVE  OwnedOnce
  OBVIOUS
<1>1. /\ Ownership /\ Owned(live, mem)
      /\ \A c \in live \ Mapped : c \in Unmapped(live)
      /\ \A c \in Unmapped(live) : c \in live \ Mapped
  BY DEF Inv, Ownership, Mapped, Unmapped
<1>2. ASSUME NEW p \in DOMAIN mem.heap
      PROVE  \E c \in live \ Mapped :
               /\ Cardinality({j \in DOMAIN c.column.pages : c.column.pages[j] = p}) = 1
               /\ \A d \in live \ Mapped : d # c => p \notin Range(d.column.pages)
  <2>1. PICK c \in Unmapped(live) : p \in Range(c.column.pages)
    BY <1>1 DEF Owned
  <2>2. PICK i \in DOMAIN c.column.pages : c.column.pages[i] = p
    BY <2>1 DEF Range
  <2>3. {j \in DOMAIN c.column.pages : c.column.pages[j] = p} = {i}
    BY <1>1, <2>1, <2>2 DEF Owned, Once
  <2>4. Cardinality({i}) = 1
    BY FS_Singleton
  <2>5. \A d \in live \ Mapped : d # c => p \notin Range(d.column.pages)
    BY <1>1, <2>1 DEF Owned
  <2> QED
    BY <1>1, <2>1, <2>3, <2>4, <2>5
<1>3. \A c \in live \ Mapped : Range(c.column.pages) \subseteq DOMAIN mem.heap
  BY <1>1 DEF Owned
<1>4. \A c \in Mapped : c.column.mapped \in DOMAIN mem.maps
  BY <1>1 DEF Owned, Mapped
<1>5. ASSUME NEW a \in DOMAIN mem.maps
      PROVE  /\ mem.maps[a].refs = Cardinality({c \in Mapped : c.column.mapped = a})
             /\ mem.maps[a].refs = 0 => pc = "map" /\ local = <<>>
  <2>1. a # NoMemory /\ mem.maps[a].refs = Cardinality(Holding(live, a))
    BY <1>1 DEF Owned
  <2>2. {c \in Mapped : c.column.mapped = a} = Holding(live, a)
    BY <2>1 DEF Mapped, Holding
  <2> QED
    BY <1>1, <2>1, <2>2 DEF Ownership
<1> QED
  BY <1>2, <1>3, <1>4, <1>5 DEF OwnedOnce

-----------------------------------------------------------------------------
(* The theorems *)

\* Every file is missing or a sequence of at most the blocks of its table, and
\* a process is at a step of its own, however many queries, tables and pages
\* there are (the loop of read_sql.cpp's main, DumpTable and from_cache).
THEOREM TypeCorrect == Spec => []TypeOK
BY InvAlways, InvTypes, PTL

\* Every allocated page is owned by exactly one column that is alive, no such
\* column has a page that was freed, and a mapping lives exactly as long as a
\* column holds it: Column's move constructor and destructor, and the vectors
\* that move columns when they grow, free nothing twice and leave nothing
\* behind (plan.h).
THEOREM PagesOwnedOnce == Spec => []OwnedOnce
BY InvAlways, InvOwned, PTL

\* A table that from_cache maps, or from_csv makes anew or copies, has the
\* pages of its source in their columns and in order, after any sequence of
\* processes and kills, unless its own file is torn; once a builder has gone
\* through all the queries, only a torn file makes a query fail.
THEOREM CacheCorrect == Spec => []CacheExact
<1>1. Inv => CacheExact
  BY DEF Inv, Exactness
<1> QED
  BY <1>1, InvAlways, PTL
=============================================================================
