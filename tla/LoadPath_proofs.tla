--------------------------- MODULE LoadPath_proofs ---------------------------
(***************************************************************************)
(* The load path, for every value of the constants.  Its pool runs every   *)
(* task once, loses no wakeup and implements ForkJoin, for any number of   *)
(* workers, calls, tasks and spurious wakeups.  A load with a filter       *)
(* returns the rows the statement holds for, whatever the statement, the   *)
(* table and the interleaving of the workers, and no two of them write one *)
(* byte.                                                                   *)
(***************************************************************************)
EXTENDS FilterThreadPool, FilteredLoad, Counting, Integers, TLAPS

-----------------------------------------------------------------------------
(* The shares of the workers: begin_idx and end_idx of run_loop.           *)

\* The workers are numbered from 0.
LEMMA WorkersFacts ==
  /\ NumThreads \in Nat \ {0}
  /\ \A w \in Workers : w \in Nat /\ w < NumThreads
  /\ 0 \in Workers /\ NumThreads - 1 \in Workers
  /\ \A w \in Workers : w # NumThreads - 1 => w + 1 \in Workers
  /\ MaxDispatches \in Nat /\ MaxTasks \in Nat /\ MaxSpurious \in Nat
BY NumThreadsAssumption, BoundsAssumption DEF Workers

\* The quotient and the remainder that shares are made of.
LEMMA Quotient ==
  ASSUME NEW n \in Nat
  PROVE  /\ n \div NumThreads \in Nat
         /\ n % NumThreads \in 0 .. NumThreads - 1
         /\ n = NumThreads * (n \div NumThreads) + (n % NumThreads)
BY WorkersFacts, Division

\* The tasks of a worker end where the next one's begin, and no later than a later one begins.
LEMMA TasksInOrder ==
  ASSUME NEW n \in Nat, NEW v \in 0 .. NumThreads, NEW w \in 0 .. NumThreads, v <= w
  PROVE  BeginIdx(v, n) \in Nat /\ BeginIdx(w, n) \in Nat /\ BeginIdx(v, n) <= BeginIdx(w, n)
<1> DEFINE base == n \div NumThreads
           rem == n % NumThreads
<1>1. base \in Nat /\ rem \in Nat
  BY Quotient
<1>2. v * base \in Nat /\ w * base \in Nat /\ v * base <= w * base
  BY <1>1, Monotone
<1>3. /\ BeginIdx(v, n) = v * base + (IF v < rem THEN v ELSE rem)
      /\ BeginIdx(w, n) = w * base + (IF w < rem THEN w ELSE rem)
  BY DEF BeginIdx
<1> HIDE DEF base, rem
<1> QED
  BY <1>1, <1>2, <1>3

\* No task is two workers'.
LEMMA TasksDisjoint ==
  ASSUME NEW n \in Nat, NEW v \in Workers, NEW w \in Workers, NEW k,
         k \in TasksOf(v, n), k \in TasksOf(w, n)
  PROVE  v = w
<1>1. ASSUME NEW x \in Workers, NEW y \in Workers, x < y, k \in TasksOf(x, n), k \in TasksOf(y, n)
      PROVE  FALSE
  <2>1. x \in Nat /\ y \in Nat /\ x + 1 \in 0 .. NumThreads /\ x + 1 <= y /\ y \in 0 .. NumThreads
    BY <1>1, WorkersFacts
  <2>2. /\ BeginIdx(x + 1, n) \in Nat /\ BeginIdx(y, n) \in Nat
        /\ BeginIdx(x + 1, n) <= BeginIdx(y, n)
    BY <2>1, TasksInOrder
  <2>3. x \in 0 .. NumThreads /\ y + 1 \in 0 .. NumThreads
    BY <1>1, WorkersFacts
  <2>4. BeginIdx(x, n) \in Nat /\ BeginIdx(y + 1, n) \in Nat
    BY <2>3, TasksInOrder
  <2>5. k \in Int /\ k <= BeginIdx(x + 1, n) - 1 /\ BeginIdx(y, n) <= k
    BY <1>1, <2>2, <2>4 DEF TasksOf
  <2> QED
    BY <2>2, <2>5
<1> QED
  BY <1>1, WorkersFacts

\* They lie between the first task and the last.
LEMMA TasksInside ==
  ASSUME NEW n \in Nat, NEW w \in Workers, NEW k \in TasksOf(w, n)
  PROVE  k \in Nat /\ k < n
<1>1. /\ w \in 0 .. NumThreads /\ w + 1 \in 0 .. NumThreads /\ w + 1 <= NumThreads
      /\ NumThreads \in 0 .. NumThreads
  BY WorkersFacts
<1>2. /\ BeginIdx(w, n) \in Nat /\ BeginIdx(w + 1, n) \in Nat /\ BeginIdx(NumThreads, n) \in Nat
      /\ BeginIdx(w + 1, n) <= BeginIdx(NumThreads, n)
  BY <1>1, TasksInOrder
<1>3. BeginIdx(NumThreads, n) = n
  BY Quotient, WorkersFacts DEF BeginIdx
<1> QED
  BY <1>2, <1>3 DEF TasksOf

\* Every task is a worker's: of the first workers, which have one more, or of
\* the others.
LEMMA TasksCover ==
  ASSUME NEW n \in Nat, NEW k \in Nat, k < n
  PROVE  \E w \in Workers : k \in TasksOf(w, n)
<1> DEFINE base == n \div NumThreads
           rem == n % NumThreads
           long == rem * (base + 1)
<1>1. /\ base \in Nat /\ rem \in Nat /\ rem < NumThreads
      /\ n = NumThreads * base + rem
      /\ NumThreads \in Nat \ {0}
  BY Quotient, WorkersFacts
<1>2. \A w : BeginIdx(w, n) = w * base + (IF w < rem THEN w ELSE rem)
  BY DEF BeginIdx
<1>3. long \in Nat /\ long = rem * base + rem
  BY <1>1
<1> HIDE DEF base, rem, long
<1>4. CASE k < long
  <2> DEFINE w == k \div (base + 1)
  <2>1. /\ w \in Nat
        /\ w * (base + 1) <= k /\ k < (w + 1) * (base + 1)
    BY <1>1
  <2> HIDE DEF w
  <2>2. w < rem
    <3>1. CASE rem <= w
      <4>1. rem * (base + 1) <= w * (base + 1)
        BY <1>1, <2>1, <3>1, Monotone
      <4> QED
        BY <1>1, <1>3, <1>4, <2>1, <4>1 DEF long
    <3> QED
      BY <1>1, <2>1, <3>1
  <2>3. /\ BeginIdx(w, n) = w * (base + 1)
        /\ BeginIdx(w + 1, n) = (w + 1) * (base + 1)
    <3>1. BeginIdx(w, n) = w * base + w
      BY <1>2, <2>2
    <3>2. BeginIdx(w + 1, n) = (w + 1) * base + (w + 1)
      BY <1>1, <1>2, <2>1, <2>2
    <3> QED
      BY <1>1, <2>1, <3>1, <3>2
  <2>4. w \in Workers
    BY <1>1, <2>1, <2>2 DEF Workers
  <2>5. k \in TasksOf(w, n)
    <3>1. w * (base + 1) \in Nat /\ (w + 1) * (base + 1) \in Nat
      BY <1>1, <2>1
    <3> QED
      BY <2>1, <2>3, <3>1 DEF TasksOf
  <2> QED
    BY <2>4, <2>5
<1>5. CASE k >= long
  <2> DEFINE r == k - long
  <2>1. r \in Nat /\ k = long + r
    BY <1>3, <1>5
  <2> HIDE DEF r
  <2>2. r < (NumThreads - rem) * base
    <3>1. (NumThreads - rem) * base = NumThreads * base - rem * base
      BY <1>1
    <3>2. NumThreads * base \in Nat /\ rem * base \in Nat
      BY <1>1
    <3> QED
      BY <1>1, <1>3, <2>1, <3>1, <3>2
  <2>3. base # 0
    BY <1>1, <2>1, <2>2
  <2> DEFINE q == r \div base
             w == rem + q
  <2>4. q \in Nat /\ q * base <= r /\ r < (q + 1) * base
    BY <1>1, <2>1, <2>3
  <2> HIDE DEF q
  <2>5. q < NumThreads - rem
    <3>1. CASE NumThreads - rem <= q
      <4>1. (NumThreads - rem) * base <= q * base
        BY <1>1, <2>4, <3>1, Monotone
      <4>2. (NumThreads - rem) * base \in Nat /\ q * base \in Nat
        BY <1>1, <2>4
      <4> QED
        BY <2>1, <2>2, <2>4, <4>1, <4>2
    <3> QED
      BY <1>1, <2>4, <3>1
  <2>6. w \in Workers
    BY <1>1, <2>4, <2>5 DEF Workers
  <2>7. /\ BeginIdx(w, n) = long + q * base
        /\ BeginIdx(w + 1, n) = long + (q + 1) * base
    <3>1. BeginIdx(w, n) = w * base + rem
      BY <1>1, <1>2, <2>4
    <3>2. BeginIdx(w + 1, n) = (w + 1) * base + rem
      BY <1>1, <1>2, <2>4
    <3>3. w * base = rem * base + q * base /\ (w + 1) * base = rem * base + (q + 1) * base
      BY <1>1, <2>4
    <3>4. rem * base \in Nat /\ q * base \in Nat /\ (q + 1) * base \in Nat
      BY <1>1, <2>4
    <3> QED
      BY <1>1, <1>3, <3>1, <3>2, <3>3, <3>4
  <2> HIDE DEF w
  <2>8. k \in TasksOf(w, n)
    <3>1. q * base \in Nat /\ (q + 1) * base \in Nat
      BY <1>1, <2>4
    <3> QED
      BY <1>3, <2>1, <2>4, <2>7, <3>1 DEF TasksOf
  <2> QED
    BY <2>6, <2>8
<1> QED
  BY <1>3, <1>4, <1>5

-----------------------------------------------------------------------------
(* The pool                                                                *)

\* Worker w has been given the call and has not finished it.
Pending(w) == hasFunction[w] /\ ~finished[w]

\* Worker w has finished this call: its flag may be the last call's as long as
\* the caller has not come to it.
ShareDone(w) == finished[w] /\ ~(pcCaller = "set" /\ w >= i)

Shutting == {"shut", "notifyShut", "join", "gone"}

\* A mutex has one holder, although the caller takes it without looking at the
\* worker's place other than through the mutex.
MutexMatches ==
  pcCaller \in {"check", "block"} => pcWorker[i] \notin {"check", "sleep", "run"}

\* What the caller has done so far in its loops.
FlagsMatch ==
  /\ pcCaller \in {"idle", "gone"} => i = 0
  /\ pcCaller \in Shutting \union {"idle"} => \A w \in Workers : ~Pending(w)
  /\ pcCaller = "idle" => numTasks = 0 \/ \A w \in Workers : finished[w]
  /\ pcCaller = "set" =>
       \A w \in Workers : IF w < i THEN hasFunction[w] ELSE ~Pending(w)
  /\ pcCaller \in InRun \ {"set"} => \A w \in Workers : hasFunction[w]
  /\ pcCaller \in {"wait", "check", "block", "waiting"} =>
       \A w \in Workers : w < i => finished[w]
  /\ \A w \in Workers :
       destructed[w] <=> \/ pcCaller = "shut" /\ w < i
                         \/ pcCaller \in {"notifyShut", "join", "gone"}

\* Only a worker that was given the call is in it.
RunningMatch == \A w \in Workers : pcWorker[w] = "run" => Pending(w)

\* Whoever is about to block has found its predicate false and still holds
\* the mutex that protects it.
AboutToBlock ==
  /\ \A w \in Workers : pcWorker[w] = "sleep" => ~WorkPredicate(w)
  /\ pcCaller = "block" => ~finished[i]

\* A task has been run if and only if its worker has finished.
RanMatches ==
  \A k \in 0 .. MaxTasks - 1 :
    /\ \A w \in Workers : k \in Share(w) => ran[k] = IF ShareDone(w) THEN 1 ELSE 0
    /\ (\A w \in Workers : k \notin Share(w)) => ran[k] = 0

IInv ==
  /\ TypeOK
  /\ MutexMatches
  /\ FlagsMatch
  /\ RunningMatch
  /\ AboutToBlock
  /\ NoLostWakeup
  /\ RanMatches

-----------------------------------------------------------------------------
\* The constructed pool has nothing to do.
LEMMA InitIInv == Init => IInv
<1> SUFFICES ASSUME Init PROVE IInv
  OBVIOUS
<1> USE WorkersFacts
<1>1. TypeOK
  <2>1. /\ hasFunction \in [Workers -> BOOLEAN]
        /\ finished \in [Workers -> BOOLEAN]
        /\ destructed \in [Workers -> BOOLEAN]
    BY DEF Init
  <2>2. /\ pcCaller \in CallerPCs
        /\ pcWorker \in [Workers -> WorkerPCs]
    BY DEF Init, CallerPCs, WorkerPCs
  <2>3. /\ calls \in 0 .. MaxDispatches
        /\ numTasks \in 0 .. MaxTasks
        /\ i \in Workers
        /\ spurious \in 0 .. MaxSpurious
        /\ ran \in [0 .. MaxTasks - 1 -> 0 .. 1]
    BY DEF Init
  <2> QED
    BY <2>1, <2>2, <2>3 DEF TypeOK
<1>2. MutexMatches /\ RunningMatch /\ AboutToBlock /\ NoLostWakeup
  BY DEF Init, MutexMatches, RunningMatch, AboutToBlock, NoLostWakeup
<1>3. FlagsMatch
  BY DEF Init, FlagsMatch, Pending, InRun, Shutting
<1>4. RanMatches
  BY TasksInside DEF Share, Init, RanMatches
<1> QED
  BY <1>1, <1>2, <1>3, <1>4 DEF IInv

-----------------------------------------------------------------------------
(* Preservation, part by part.                                             *)

LEMMA MutexStep ==
  ASSUME IInv, [Next]_vars
  PROVE  MutexMatches'
<1> USE DEF IInv, MutexMatches, Held
<1>1. ASSUME NEW w \in Workers, WorkerStep(w)
      PROVE  MutexMatches'
  BY <1>1 DEF WorkerStep, GotoW, WorkerLock, WorkerMustWait, WorkerSleep, WorkerExit,
              WorkerBegin, WorkerEnd, WorkerNotify, TypeOK
<1>2. CASE CallerStep
  BY <1>2 DEF CallerStep, GotoC, Iterate, CallerSet, CallerNotify, CallerLock,
              CallerMustWait, CallerBlock, CallerPass, CallerShut, CallerJoin, TypeOK
<1>3. CASE Run \/ Destroy \/ SpuriousWakeup \/ Terminated \/ UNCHANGED vars
  BY <1>3 DEF Run, Destroy, SpuriousWakeup, Terminated, GotoW, GotoC, vars, TypeOK
<1> QED
  BY <1>1, <1>2, <1>3 DEF Next

LEMMA RunningStep ==
  ASSUME IInv, [Next]_vars
  PROVE  RunningMatch'
<1> USE DEF IInv, RunningMatch, Pending, Held, flags
<1>1. ASSUME NEW w \in Workers, WorkerStep(w)
      PROVE  RunningMatch'
  BY <1>1 DEF WorkerStep, GotoW, WorkerLock, WorkerMustWait, WorkerSleep, WorkerExit,
              WorkerBegin, WorkerEnd, WorkerNotify, WorkPredicate, TypeOK
<1>2. CASE CallerStep
  BY <1>2 DEF CallerStep, GotoC, Iterate, CallerSet, CallerNotify, CallerLock,
              CallerMustWait, CallerBlock, CallerPass, CallerShut, CallerJoin, TypeOK
<1>3. CASE Run \/ Destroy \/ SpuriousWakeup \/ Terminated \/ UNCHANGED vars
  BY <1>3 DEF Run, Destroy, SpuriousWakeup, Terminated, GotoW, GotoC, vars, TypeOK
<1> QED
  BY <1>1, <1>2, <1>3 DEF Next

LEMMA BlockStep ==
  ASSUME IInv, [Next]_vars
  PROVE  AboutToBlock'
<1> USE DEF IInv, AboutToBlock, MutexMatches, WorkPredicate, Held, flags
<1>1. ASSUME NEW w \in Workers, WorkerStep(w)
      PROVE  AboutToBlock'
  BY <1>1 DEF WorkerStep, GotoW, WorkerLock, WorkerMustWait, WorkerSleep, WorkerExit,
              WorkerBegin, WorkerEnd, WorkerNotify, TypeOK
<1>2. CASE CallerStep
  BY <1>2 DEF CallerStep, GotoC, Iterate, CallerSet, CallerNotify, CallerLock,
              CallerMustWait, CallerBlock, CallerPass, CallerShut, CallerJoin, TypeOK
<1>3. CASE Run \/ Destroy \/ SpuriousWakeup \/ Terminated \/ UNCHANGED vars
  BY <1>3 DEF Run, Destroy, SpuriousWakeup, Terminated, GotoW, GotoC, vars, TypeOK
<1> QED
  BY <1>1, <1>2, <1>3 DEF Next

LEMMA FlagsStep ==
  ASSUME IInv, [Next]_vars
  PROVE  FlagsMatch'
<1> USE WorkersFacts DEF IInv, FlagsMatch, Pending, InRun, Shutting, flags
<1>1. ASSUME NEW w \in Workers, WorkerStep(w)
      PROVE  FlagsMatch'
  <2>1. CASE WorkerEnd(w)
    BY <2>1 DEF WorkerEnd, GotoW, RunningMatch, TypeOK
  <2>2. CASE WorkerNotify(w)
    BY <2>2 DEF WorkerNotify, GotoW, TypeOK
  <2>3. CASE \/ WorkerLock(w) \/ WorkerMustWait(w) \/ WorkerSleep(w)
             \/ WorkerExit(w) \/ WorkerBegin(w)
    BY <2>3 DEF WorkerLock, WorkerMustWait, WorkerSleep, WorkerExit, WorkerBegin
  <2> QED
    BY <1>1, <2>1, <2>2, <2>3 DEF WorkerStep
<1>2. CASE CallerStep
  <2>1. CASE CallerSet
    BY <2>1 DEF CallerSet, Iterate, GotoC, TypeOK
  <2>2. CASE CallerNotify
    BY <2>2 DEF CallerNotify, Iterate, GotoC, TypeOK
  <2>3. CASE CallerPass
    BY <2>3 DEF CallerPass, GotoC, TypeOK
  <2>4. CASE CallerShut
    BY <2>4 DEF CallerShut, Iterate, GotoC, TypeOK
  <2>5. CASE CallerJoin
    BY <2>5 DEF CallerJoin, Iterate, GotoC, TypeOK
  <2>6. CASE CallerLock \/ CallerMustWait \/ CallerBlock
    BY <2>6 DEF CallerLock, CallerMustWait, CallerBlock, GotoC, TypeOK
  <2> QED
    BY <1>2, <2>1, <2>2, <2>3, <2>4, <2>5, <2>6 DEF CallerStep
<1>3. CASE Run
  BY <1>3 DEF Run, GotoC, TypeOK
<1>4. CASE Destroy
  BY <1>4 DEF Destroy, GotoC, TypeOK
<1>5. CASE SpuriousWakeup \/ Terminated \/ UNCHANGED vars
  BY <1>5 DEF SpuriousWakeup, Terminated, GotoW, GotoC, vars, TypeOK
<1> QED
  BY <1>1, <1>2, <1>3, <1>4, <1>5 DEF Next

LEMMA WakeupStep ==
  ASSUME IInv, [Next]_vars
  PROVE  NoLostWakeup'
<1> USE WorkersFacts DEF IInv, NoLostWakeup, WorkPredicate, Held, flags
<1>1. ASSUME NEW w \in Workers, WorkerStep(w)
      PROVE  NoLostWakeup'
  <2>1. CASE WorkerEnd(w)
    BY <2>1 DEF WorkerEnd, GotoW, TypeOK
  <2>2. CASE WorkerNotify(w)
    BY <2>2 DEF WorkerNotify, GotoW, TypeOK
  <2>3. CASE WorkerSleep(w)
    BY <2>3 DEF WorkerSleep, GotoW, AboutToBlock, TypeOK
  <2>4. CASE WorkerLock(w) \/ WorkerMustWait(w) \/ WorkerExit(w) \/ WorkerBegin(w)
    BY <2>4 DEF WorkerLock, WorkerMustWait, WorkerExit, WorkerBegin, GotoW, TypeOK
  <2> QED
    BY <1>1, <2>1, <2>2, <2>3, <2>4 DEF WorkerStep
<1>2. CASE CallerStep
  <2>1. CASE CallerSet
    BY <2>1 DEF CallerSet, Iterate, GotoC, FlagsMatch, InRun, TypeOK
  <2>2. CASE CallerNotify
    BY <2>2 DEF CallerNotify, Iterate, GotoC, TypeOK
  <2>3. CASE CallerPass
    BY <2>3 DEF CallerPass, GotoC, TypeOK
  <2>4. CASE CallerShut
    BY <2>4 DEF CallerShut, Iterate, GotoC, TypeOK
  <2>5. CASE CallerJoin
    BY <2>5 DEF CallerJoin, Iterate, GotoC, TypeOK
  <2>6. CASE CallerLock \/ CallerMustWait \/ CallerBlock
    BY <2>6 DEF CallerLock, CallerMustWait, CallerBlock, GotoC, AboutToBlock, TypeOK
  <2> QED
    BY <1>2, <2>1, <2>2, <2>3, <2>4, <2>5, <2>6 DEF CallerStep
<1>3. CASE Run \/ Destroy \/ SpuriousWakeup \/ Terminated \/ UNCHANGED vars
  BY <1>3 DEF Run, Destroy, SpuriousWakeup, Terminated, GotoW, GotoC, vars, TypeOK
<1> QED
  BY <1>1, <1>2, <1>3 DEF Next

\* A step that leaves the tasks, their counts and who is done alone.
LEMMA RanKept ==
  ASSUME IInv, numTasks' = numTasks, ran' = ran,
         \A w \in Workers : ShareDone(w)' <=> ShareDone(w)
  PROVE  RanMatches'
<1>1. \A w \in Workers : Share(w)' = Share(w)
  BY DEF Share
<1> QED
  BY <1>1 DEF IInv, RanMatches

LEMMA RanStep ==
  ASSUME IInv, [Next]_vars
  PROVE  RanMatches'
<1> USE WorkersFacts DEF IInv, flags
<1>1. ASSUME NEW w \in Workers, WorkerEnd(w)
      PROVE  RanMatches'
  <2>1. \A v \in Workers : Share(v)' = Share(v)
    BY <1>1 DEF WorkerEnd, Share
  <2>2. /\ ~ShareDone(w) /\ ShareDone(w)'
        /\ \A v \in Workers : v # w => (ShareDone(v)' <=> ShareDone(v))
    BY <1>1 DEF WorkerEnd, GotoW, RunningMatch, FlagsMatch, Pending, ShareDone, TypeOK
  <2>3. ran' = [k \in DOMAIN ran |-> IF k \in Share(w) THEN ran[k] + 1 ELSE ran[k]]
    BY <1>1 DEF WorkerEnd
  <2>4. ASSUME NEW k \in 0 .. MaxTasks - 1, NEW v \in Workers, k \in Share(v)
        PROVE  ran'[k] = IF ShareDone(v)' THEN 1 ELSE 0
    <3>1. CASE v = w
      BY <2>2, <2>3, <2>4, <3>1 DEF RanMatches, TypeOK
    <3>2. CASE v # w
      <4>1. k \notin Share(w)
        BY <2>4, <3>2, TasksDisjoint DEF Share, TypeOK
      <4> QED
        BY <2>2, <2>3, <2>4, <3>2, <4>1 DEF RanMatches, TypeOK
    <3> QED
      BY <3>1, <3>2
  <2>5. ASSUME NEW k \in 0 .. MaxTasks - 1, \A v \in Workers : k \notin Share(v)
        PROVE  ran'[k] = 0
    BY <2>3, <2>5 DEF RanMatches, TypeOK
  <2> QED
    BY <2>1, <2>4, <2>5 DEF RanMatches
<1>2. CASE Run
  <2>1. \A w \in Workers : ~ShareDone(w)'
    BY <1>2 DEF Run, GotoC, FlagsMatch, ShareDone
  <2>2. \A k \in 0 .. MaxTasks - 1 : ran'[k] = 0
    BY <1>2 DEF Run, TypeOK
  <2> QED
    BY <2>1, <2>2 DEF RanMatches
<1>3. ASSUME NEW w \in Workers, WorkerStep(w), ~WorkerEnd(w)
      PROVE  RanMatches'
  <2>1. numTasks' = numTasks /\ ran' = ran
    BY <1>3 DEF WorkerStep, WorkerLock, WorkerMustWait, WorkerSleep, WorkerExit,
                WorkerBegin, WorkerNotify
  <2>2. \A v \in Workers : ShareDone(v)' <=> ShareDone(v)
    BY <1>3 DEF WorkerStep, WorkerLock, WorkerMustWait, WorkerSleep, WorkerExit,
                WorkerBegin, WorkerNotify, ShareDone
  <2> QED
    BY <2>1, <2>2, RanKept
<1>4. CASE CallerStep
  <2>1. numTasks' = numTasks /\ ran' = ran
    BY <1>4 DEF CallerStep, CallerSet, CallerNotify, CallerLock, CallerMustWait,
                CallerBlock, CallerPass, CallerShut, CallerJoin
  <2>2. CASE CallerSet
    <3>1. \A v \in Workers : ShareDone(v)' <=> ShareDone(v)
      BY <2>2 DEF CallerSet, Iterate, GotoC, ShareDone, TypeOK
    <3> QED
      BY <2>1, <3>1, RanKept
  <2>3. CASE ~CallerSet
    <3>1. \A v \in Workers : ShareDone(v)' <=> ShareDone(v)
      BY <1>4, <2>3 DEF CallerStep, CallerNotify, CallerLock, CallerMustWait, CallerBlock,
                        CallerPass, CallerShut, CallerJoin, Iterate, GotoC, ShareDone
    <3> QED
      BY <2>1, <3>1, RanKept
  <2> QED
    BY <2>2, <2>3
<1>5. CASE Destroy \/ SpuriousWakeup \/ Terminated \/ UNCHANGED vars
  <2>1. numTasks' = numTasks /\ ran' = ran
    BY <1>5 DEF Destroy, SpuriousWakeup, Terminated, vars
  <2>2. \A v \in Workers : ShareDone(v)' <=> ShareDone(v)
    BY <1>5 DEF Destroy, SpuriousWakeup, Terminated, vars, GotoC, ShareDone
  <2> QED
    BY <2>1, <2>2, RanKept
<1> QED
  BY <1>1, <1>2, <1>3, <1>4, <1>5 DEF Next

\* The count of a task is bounded by what RanMatches says of it.
LEMMA TypeStep ==
  ASSUME IInv, [Next]_vars
  PROVE  TypeOK'
<1> USE WorkersFacts DEF IInv, TypeOK, flags
<1>1. /\ hasFunction' \in [Workers -> BOOLEAN]
      /\ finished' \in [Workers -> BOOLEAN]
      /\ destructed' \in [Workers -> BOOLEAN]
  BY DEF Next, vars, WorkerStep, WorkerLock, WorkerMustWait, WorkerSleep, WorkerExit,
         WorkerBegin, WorkerEnd, WorkerNotify, CallerStep, CallerSet, CallerNotify,
         CallerLock, CallerMustWait, CallerBlock, CallerPass, CallerShut, CallerJoin,
         Run, Destroy, SpuriousWakeup, Terminated
<1>2. /\ pcCaller' \in CallerPCs
      /\ pcWorker' \in [Workers -> WorkerPCs]
  BY DEF Next, vars, WorkerStep, WorkerLock, WorkerMustWait, WorkerSleep, WorkerExit,
         WorkerBegin, WorkerEnd, WorkerNotify, CallerStep, CallerSet, CallerNotify,
         CallerLock, CallerMustWait, CallerBlock, CallerPass, CallerShut, CallerJoin,
         Run, Destroy, SpuriousWakeup, Terminated, GotoW, GotoC, Iterate,
         CallerPCs, WorkerPCs
<1>3. /\ calls' \in 0 .. MaxDispatches
      /\ numTasks' \in 0 .. MaxTasks
      /\ i' \in Workers
      /\ spurious' \in 0 .. MaxSpurious
  BY DEF Next, vars, WorkerStep, WorkerLock, WorkerMustWait, WorkerSleep, WorkerExit,
         WorkerBegin, WorkerEnd, WorkerNotify, CallerStep, CallerSet, CallerNotify,
         CallerLock, CallerMustWait, CallerBlock, CallerPass, CallerShut, CallerJoin,
         Run, Destroy, SpuriousWakeup, Terminated, Iterate
<1>4. ran' \in [0 .. MaxTasks - 1 -> 0 .. 1]
  <2>1. ran' = [k \in 0 .. MaxTasks - 1 |-> ran'[k]]
    BY DEF Next, vars, WorkerStep, WorkerLock, WorkerMustWait, WorkerSleep, WorkerExit,
           WorkerBegin, WorkerEnd, WorkerNotify, CallerStep, CallerSet, CallerNotify,
           CallerLock, CallerMustWait, CallerBlock, CallerPass, CallerShut, CallerJoin,
           Run, Destroy, SpuriousWakeup, Terminated
  <2>2. \A k \in 0 .. MaxTasks - 1 : ran'[k] \in 0 .. 1
    BY RanStep DEF RanMatches
  <2> QED
    BY <2>1, <2>2
<1> QED
  BY <1>1, <1>2, <1>3, <1>4

\* Every step keeps every part of the invariant.
LEMMA Inductive == Spec => []IInv
<1>1. IInv /\ [Next]_vars => IInv'
  BY TypeStep, MutexStep, FlagsStep, RunningStep, BlockStep, WakeupStep, RanStep DEF IInv
<1> QED
  BY <1>1, InitIInv, PTL DEF Spec

\* run_loop, run and the destructor keep every variable of the pool in its
\* type; no task of a call is counted twice.
THEOREM TypeCorrect == Spec => []TypeOK
<1>1. IInv => TypeOK
  BY DEF IInv
<1> QED
  BY <1>1, Inductive, PTL

\* However many tasks a call has for however many workers, run returns after
\* each of them has been run once: no byte of a filter's bitmap is skipped.
THEOREM TasksRunOnce == Spec => []EveryTaskOnce
<1>1. ASSUME IInv
      PROVE  EveryTaskOnce
  <2> USE <1>1 DEF IInv, TypeOK
  <2> SUFFICES ASSUME pcCaller = "idle", NEW k \in 0 .. MaxTasks - 1
               PROVE  ran[k] = IF k < numTasks THEN 1 ELSE 0
    BY DEF EveryTaskOnce
  <2>1. CASE k < numTasks
    <3>1. PICK w \in Workers : k \in Share(w)
      BY <2>1, TasksCover DEF Share
    <3>2. ShareDone(w)
      BY <2>1 DEF FlagsMatch, ShareDone
    <3> QED
      BY <2>1, <3>1, <3>2 DEF RanMatches
  <2>2. CASE ~(k < numTasks)
    <3>1. \A w \in Workers : k \notin Share(w)
      BY <2>2, TasksInside DEF Share
    <3> QED
      BY <2>2, <3>1 DEF RanMatches
  <2> QED
    BY <2>1, <2>2
<1> QED
  BY <1>1, Inductive, PTL

\* Although caller and worker sleep on one variable and are notified without
\* its mutex, neither sleeps through what it waits for.
THEOREM WakeupsKept == Spec => []NoLostWakeup
<1>1. IInv => NoLostWakeup
  BY DEF IInv
<1> QED
  BY <1>1, Inductive, PTL

-----------------------------------------------------------------------------
(* The refinement.  The call of run is Dispatch, although the flags are     *)
(* set one by one; a worker's finding its flag is Begin, its return from    *)
(* the function is End, the caller's passing the last worker is Return.     *)

\* The constructed pool is the abstract one, idle.
LEMMA RefinementInit == Init => FJ!Init
BY DEF Init, FJ!Init, Todo, InRun

\* Every step of the pool is a step of the abstract one or none.
LEMMA RefinementStep ==
  ASSUME IInv, [Next]_vars
  PROVE  [FJ!Next]_(FJ!poolVars)
<1> DEFINE before == {w \in Workers : Todo(w)}
           inside == {w \in Workers : pcWorker[w] = "run"}
           waits == CASE pcCaller = "idle" -> "idle"
                       [] pcCaller \in InRun -> "blocked"
                       [] OTHER -> "gone"
           Stutter == UNCHANGED <<calls, before, inside, waits>>
<1> USE WorkersFacts DEF IInv, TypeOK, flags, FJ!Workers, Workers
<1>0. Stutter => [FJ!Next]_(FJ!poolVars)
  BY DEF FJ!poolVars
<1>1. ASSUME NEW w \in Workers, WorkerStep(w)
      PROVE  [FJ!Next]_(FJ!poolVars)
  <2>1. CASE WorkerBegin(w)
    <3>1. Pending(w)
      BY <2>1 DEF WorkerBegin, WorkPredicate, Pending
    <3>2. w \in before /\ before' = before \ {w}
      BY <2>1, <3>1 DEF WorkerBegin, GotoW, FlagsMatch, Shutting, InRun, CallerPCs, Pending, Todo
    <3>3. inside' = inside \union {w}
      BY <2>1 DEF WorkerBegin, GotoW
    <3>4. UNCHANGED <<calls, waits>>
      BY <2>1 DEF WorkerBegin
    <3> QED
      BY <3>2, <3>3, <3>4 DEF FJ!Next, FJ!Begin
  <2>2. CASE WorkerEnd(w)
    <3>1. w \in inside /\ inside' = inside \ {w}
      BY <2>2 DEF WorkerEnd, GotoW
    <3>2. before' = before
      BY <2>2 DEF WorkerEnd, GotoW, RunningMatch, FlagsMatch, Pending, Todo
    <3>3. UNCHANGED <<calls, waits>>
      BY <2>2 DEF WorkerEnd
    <3> QED
      BY <3>1, <3>2, <3>3 DEF FJ!Next, FJ!End
  <2>3. CASE \/ WorkerLock(w) \/ WorkerMustWait(w) \/ WorkerSleep(w)
             \/ WorkerExit(w) \/ WorkerNotify(w)
    <3>1. Stutter
      BY <2>3 DEF WorkerLock, WorkerMustWait, WorkerSleep, WorkerExit, WorkerNotify,
                  GotoW, Todo, InRun
    <3> QED
      BY <3>1, <1>0
  <2> QED
    BY <1>1, <2>1, <2>2, <2>3 DEF WorkerStep
<1>2. CASE CallerStep
  <2>1. CASE CallerSet
    <3>1. before' = before
      BY <2>1 DEF CallerSet, Iterate, GotoC, Held, Todo, InRun
    <3>2. UNCHANGED <<calls, inside, waits>>
      BY <2>1 DEF CallerSet, Iterate, GotoC, InRun
    <3> QED
      BY <3>1, <3>2, <1>0
  <2>2. CASE CallerPass /\ i = NumThreads - 1
    <3>1. \A w \in Workers : finished[w]
      BY <2>2 DEF CallerPass, GotoC, FlagsMatch
    <3>2. before = {} /\ before' = {} /\ inside = {}
      BY <2>2, <3>1 DEF CallerPass, GotoC, RunningMatch, Pending, Todo, InRun
    <3>3. waits = "blocked" /\ waits' = "idle"
      BY <2>2 DEF CallerPass, GotoC, InRun
    <3>4. UNCHANGED <<calls, inside>>
      BY <2>2 DEF CallerPass
    <3> QED
      BY <3>2, <3>3, <3>4 DEF FJ!Next, FJ!Return
  <2>3. CASE CallerPass /\ i # NumThreads - 1
    <3>1. Stutter
      BY <2>3 DEF CallerPass, GotoC, Todo, InRun
    <3> QED
      BY <3>1, <1>0
  <2>4. CASE CallerNotify
    <3>1. Stutter
      BY <2>4 DEF CallerNotify, Iterate, GotoC, Todo, InRun
    <3> QED
      BY <3>1, <1>0
  <2>5. CASE CallerLock \/ CallerMustWait \/ CallerBlock \/ CallerShut \/ CallerJoin
    <3>1. Stutter
      BY <2>5 DEF CallerLock, CallerMustWait, CallerBlock, CallerShut, CallerJoin,
                  Iterate, GotoC, Todo, InRun
    <3> QED
      BY <3>1, <1>0
  <2> QED
    BY <1>2, <2>1, <2>2, <2>3, <2>4, <2>5 DEF CallerStep
<1>3. CASE Run
  <2>1. before' = Workers
    BY <1>3 DEF Run, GotoC, FlagsMatch, Todo
  <2>2. waits = "idle" /\ waits' = "blocked" /\ inside' = inside
    BY <1>3 DEF Run, GotoC, InRun
  <2>3. calls < MaxDispatches /\ calls' = calls + 1
    BY <1>3 DEF Run
  <2> QED
    BY <2>1, <2>2, <2>3 DEF FJ!Next, FJ!Dispatch
<1>4. CASE Destroy
  <2>1. waits = "idle" /\ waits' = "gone" /\ UNCHANGED <<calls, before, inside>>
    BY <1>4 DEF Destroy, GotoC, Todo, InRun
  <2> QED
    BY <2>1 DEF FJ!Next, FJ!Destroy
<1>5. CASE SpuriousWakeup \/ Terminated \/ UNCHANGED vars
  <2>1. Stutter
    BY <1>5 DEF SpuriousWakeup, Terminated, GotoW, GotoC, vars, Todo, InRun
  <2> QED
    BY <2>1, <1>0
<1> QED
  BY <1>1, <1>2, <1>3, <1>4, <1>5 DEF Next

\* Although it hands out its flags one worker at a time, the pool implements
\* the abstract fork-join: every worker begins and ends once before run returns.
THEOREM ImplementsForkJoin == Spec => ForkJoinSpec
<1>1. ASSUME IInv, [Next]_vars
      PROVE  [FJ!Next]_(FJ!poolVars)
  BY <1>1, RefinementStep
<1> QED
  BY <1>1, RefinementInit, Inductive, PTL DEF Spec, ForkJoinSpec, FJ!Spec

-----------------------------------------------------------------------------
(* The load: what is assumed, and what the bitmaps have to show            *)

\* The value a kernel compares with.
Narrowed(node) == IF node.column = "a" THEN ToInt32(node.value) ELSE node.value

\* Whether node k holds for the record, if T are the nodes that hold.
NodeHolds(s, record, T, k) ==
  CASE s[k].op = "AND"         -> s[k].children[1] \in T /\ s[k].children[2] \in T
    [] s[k].op = "OR"          -> s[k].children[1] \in T \/ s[k].children[2] \in T
    [] s[k].op = "NOT"         -> s[k].children[1] \notin T
    [] s[k].op = "IS_NULL"     -> record[s[k].column] = Null
    [] s[k].op = "IS_NOT_NULL" -> record[s[k].column] # Null
    [] OTHER -> /\ record[s[k].column] # Null
                /\ Matches(s[k].op, record[s[k].column], Narrowed(s[k]))

\* T are the nodes of s that hold for the record, ...
AreHolding(s, record, T) == \A k \in DOMAIN s : k \in T <=> NodeHolds(s, record, T, k)

\* ... and Holding says which they are.
Holding(s, record) == CHOOSE T \in SUBSET (DOMAIN s) : AreHolding(s, record, T)

\* A bitmap for that many rows, ...
IsBits(bitmap, rows) ==
  bitmap \in Seq(SUBSET Bits) /\ Len(bitmap) = BytesFor(rows)

\* ... with the bits of the rows of v for which node k of s holds.
ExactBits(bitmap, s, k, v) ==
  /\ IsBits(bitmap, Len(v))
  /\ \A r \in 0 .. Len(v) - 1 : HasBit(bitmap, r) <=> k \in Holding(s, v[r + 1])

\* The row of a bit of byte b.
RowOfBit(b, bit) == b * RowsPerByte + bit

\* Byte b before a kernel for node k of s has written it, ...
ByteBefore(s, k, v, b, byte) ==
  CASE s[k].op \in {"NOT", "IS_NULL"} ->
         \A bit \in Bits : RowOfBit(b, bit) < Len(v) =>
           (bit \in byte <=> k \notin Holding(s, v[RowOfBit(b, bit) + 1]))
    [] s[k].op \in {"AND", "OR"} -> TRUE
    [] OTHER -> byte = {}

\* ... and after.
ByteAfter(s, k, v, b, byte) ==
  \A bit \in Bits : RowOfBit(b, bit) < Len(v) =>
    (bit \in byte <=> k \in Holding(s, v[RowOfBit(b, bit) + 1]))

\* The operands are those of the nodes p; when eval of node k returns, of q.
Reduces(s, p, k, q) ==
  CASE s[k].op \in {"AND", "OR"} ->
         /\ Len(p) >= 2
         /\ p[Len(p) - 1] = s[k].children[1] /\ p[Len(p)] = s[k].children[2]
         /\ q = Append(SubSeq(p, 1, Len(p) - 2), k)
    [] s[k].op = "NOT" ->
         /\ Len(p) >= 1
         /\ p[Len(p)] = s[k].children[1]
         /\ q = Append(SubSeq(p, 1, Len(p) - 1), k)
    [] OTHER -> q = Append(p, k)

\* h are the nodes after each return of the calls c, ...
IsRun(s, c, h) ==
  /\ h \in [0 .. Len(c) -> Seq(DOMAIN s)]
  /\ \A j \in 1 .. Len(c) : Reduces(s, h[j - 1], c[j], h[j])

\* ... which lead from p to q.
Leads(s, p, c, q) == \E h : IsRun(s, c, h) /\ h[0] = p /\ h[Len(c)] = q

\* The filter lets the record pass.
LetsPass(f, record) == f = NoFilter \/ Len(f) \in Holding(f, record)

\* The rows that pass, in order.
AddKept(p, e) == IF LetsPass(e[1], e[2]) THEN Append(p, e[2]) ELSE p
Kept(f, v) == FoldLeft(AddKept, <<>>, [j \in 1 .. Len(v) |-> <<f, v[j]>>])

\* A column of rows.
ColumnOf(rows, c) == [n \in DOMAIN rows |-> rows[n][c]]

ColumnSet == {"a", "s"}

-----------------------------------------------------------------------------
(* The load's invariant                                                    *)

\* Worker t has done its task b.
TaskDone(t, b) == t \notin todo /\ (t \in running => b < at[t])

PoolMatches ==
  /\ Pool!TypeOK
  /\ todo \intersect running = {}
  /\ caller = IF stage \in {"kernel", "convert"} THEN "blocked" ELSE "idle"
  /\ caller = "idle" => todo = {} /\ running = {}

WorkersMatch ==
  /\ at \in [Workers -> Nat]
  /\ reg \in [Workers -> SUBSET Int]
  /\ \A t \in running : at[t] \in BeginIdx(t, NumTasks) .. EndIdx(t)
  /\ \A t \in Workers : reg[t] # NoByte =>
       stage = "kernel" /\ HasTask(t) /\ reg[t] = out[at[t] + 1]

CallMatches ==
  /\ file \in Files
  /\ loads \in 0 .. MaxLoads
  /\ filter \in Filters \union {NoFilter}
  /\ stage \in {"idle", "eval", "kernel", "filtered", "convert", "return"}
  /\ stage \in {"eval", "kernel"} => filter \in Filters
  /\ tableCache = NoTable \/ tableCache = Parse(file)
  /\ stage \notin {"idle", "return"} => tableCache = Parse(file)

\* The operands are the bitmaps of nodes that the code still to come reduces
\* to the whole statement's.
EvalMatches ==
  /\ operands \in Seq(Seq(SUBSET Bits))
  /\ IF stage \in {"eval", "kernel"}
     THEN /\ code \in Seq(DOMAIN filter)
          /\ \E q \in Seq(DOMAIN filter) :
               /\ Len(q) = Len(operands)
               /\ Leads(filter, q, code, <<Len(filter)>>)
               /\ \A m \in DOMAIN q : ExactBits(operands[m], filter, q[m], file)
     ELSE operands = <<>>

KernelMatches ==
  stage = "kernel" =>
    /\ code # <<>> /\ Node.op # "IS_NOT_NULL"
    /\ IsBits(out, Len(file))
    /\ \A t \in Workers : \A b \in TasksOf(t, Len(out)) :
         IF TaskDone(t, b)
         THEN ByteAfter(filter, Head(code), file, b, out[b + 1])
         ELSE ByteBefore(filter, Head(code), file, b, out[b + 1])

ResultsMatch ==
  /\ stage \in {"filtered", "convert"} =>
       /\ IsBits(results, Len(file))
       /\ \A r \in 0 .. Len(file) - 1 :
            HasBit(results, r) <=> LetsPass(filter, file[r + 1])
  /\ stage = "return" => results = <<>> \/ IsBits(results, Len(file))
  /\ stage = "idle" => results = <<>>

ConvertMatches ==
  /\ stage = "convert" =>
       /\ DOMAIN ret \subseteq ColumnSet
       /\ \A c \in DOMAIN ret : ret[c] = ColumnOf(Kept(filter, file), c)
       /\ retRows = IF DOMAIN ret = {} THEN 0 ELSE Len(Kept(filter, file))
       /\ \A t \in Workers : \A b \in TasksOf(t, 2) :
            TaskDone(t, b) => ColumnNames[b + 1] \in DOMAIN ret
  /\ stage \notin {"convert", "return"} => ret = <<>> /\ retRows = 0

CacheMatches ==
  resultCache # NoTable =>
    /\ resultCache.rows = Len(file)
    /\ DOMAIN resultCache.columns = ColumnSet
    /\ \A c \in ColumnSet : resultCache.columns[c] = ColumnOf(file, c)

ReturnMatches ==
  stage = "return" =>
    /\ DOMAIN ret = ColumnSet
    /\ retRows = Len(Kept(filter, file))
    /\ \A c \in ColumnSet : ret[c] = ColumnOf(Kept(filter, file), c)

LoadInv ==
  /\ PoolMatches
  /\ WorkersMatch
  /\ CallMatches
  /\ EvalMatches
  /\ KernelMatches
  /\ ResultsMatch
  /\ ConvertMatches
  /\ CacheMatches
  /\ ReturnMatches

-----------------------------------------------------------------------------
(* Rows, bytes and bits                                                    *)

LEMMA LoadSizes ==
  /\ RowsPerByte \in Nat \ {0} /\ Int32Half \in Nat \ {0}
  /\ MaxRuns \in Nat /\ MaxLoads \in Nat
  /\ Null \notin Int
BY SizesAssumption, NullAssumption

\* The quotient is the number whose multiples enclose the dividend.
LEMMA QuotientIs ==
  ASSUME NEW n \in Nat, NEW d \in Nat \ {0}, NEW a \in Nat, a * d <= n, n < (a + 1) * d
  PROVE  n \div d = a
<1> DEFINE b == a + 1
           q == n \div d
<1>1. b \in Nat /\ n < b * d /\ q \in Nat
  BY Division
<1>2. b = a + 1
  OBVIOUS
<1> HIDE DEF b
<1>3. a <= q /\ q < b
  BY <1>1, QuotientBetween
<1> HIDE DEF q
<1>4. q = a
  BY <1>1, <1>2, <1>3
<1> QED
  BY <1>4 DEF q

\* How many pieces of d there are in n.
LEMMA RoundedUp ==
  ASSUME NEW n \in Nat, NEW d \in Nat \ {0}
  PROVE  /\ (n + d - 1) \div d \in Nat
         /\ n % d = 0 => (n + d - 1) \div d = n \div d
         /\ n % d # 0 => (n + d - 1) \div d = n \div d + 1
         /\ ((n + 1) + d - 1) \div d = n \div d + 1
<1> DEFINE q == n \div d
           r == n % d
<1>1. q \in Nat /\ r \in 0 .. d - 1 /\ n = d * q + r
  BY Division
<1> HIDE DEF q, r
<1>2. d * q \in Nat /\ q * d = d * q /\ (q + 1) * d = d * q + d /\ ((q + 1) + 1) * d = d * q + d + d
  BY <1>1
<1>3. n + d - 1 \in Nat /\ (n + 1) + d - 1 \in Nat
  OBVIOUS
<1>4. ((n + 1) + d - 1) \div d = q + 1
  <2>1. (q + 1) * d <= (n + 1) + d - 1 /\ (n + 1) + d - 1 < ((q + 1) + 1) * d
    BY <1>1, <1>2
  <2> QED
    BY <1>1, <1>3, <2>1, QuotientIs
<1>5. CASE r = 0
  <2>1. q * d <= n + d - 1 /\ n + d - 1 < (q + 1) * d
    BY <1>1, <1>2, <1>5
  <2>2. (n + d - 1) \div d = q
    BY <1>1, <1>3, <2>1, QuotientIs
  <2> QED
    BY <1>1, <1>4, <1>5, <2>2 DEF q, r
<1>6. CASE r # 0
  <2>1. (q + 1) * d <= n + d - 1 /\ n + d - 1 < ((q + 1) + 1) * d
    BY <1>1, <1>2, <1>6
  <2>2. (n + d - 1) \div d = q + 1
    BY <1>1, <1>3, <2>1, QuotientIs
  <2> QED
    BY <1>1, <1>4, <1>6, <2>2 DEF q, r
<1> QED
  BY <1>5, <1>6

\* How many bytes n rows take.
LEMMA BytesOf ==
  ASSUME NEW n \in Nat
  PROVE  /\ BytesFor(n) \in Nat
         /\ n % RowsPerByte = 0 => BytesFor(n) = n \div RowsPerByte
         /\ n % RowsPerByte # 0 => BytesFor(n) = n \div RowsPerByte + 1
         /\ BytesFor(n + 1) = n \div RowsPerByte + 1
BY LoadSizes, RoundedUp DEF BytesFor

\* The byte and the bit of a row, ...
LEMMA BitOfRow ==
  ASSUME NEW n \in Nat, NEW r \in 0 .. n - 1
  PROVE  /\ r \div RowsPerByte \in 0 .. BytesFor(n) - 1
         /\ r % RowsPerByte \in Bits
         /\ RowOfBit(r \div RowsPerByte, r % RowsPerByte) = r
<1> DEFINE d == RowsPerByte
           b == r \div d
           bit == r % d
           q == n \div d
           rest == n % d
<1>1. d \in Nat \ {0} /\ r \in Nat /\ r < n
  BY LoadSizes
<1> HIDE DEF d
<1>2. b \in Nat /\ bit \in 0 .. d - 1 /\ r = d * b + bit
  BY <1>1, Division
<1>3. q \in Nat /\ rest \in 0 .. d - 1 /\ n = d * q + rest
  BY <1>1, Division
<1>4. /\ BytesFor(n) \in Nat
      /\ rest = 0 => BytesFor(n) = q
      /\ rest # 0 => BytesFor(n) = q + 1
  BY BytesOf DEF d
<1> HIDE DEF b, bit, q, rest
<1>5. b * d = d * b /\ d * b \in Nat /\ q * d = d * q /\ d * q \in Nat
  BY <1>1, <1>2, <1>3
<1>6. b <= q /\ (rest = 0 => b < q)
  <2>1. CASE q + 1 <= b
    <3>1. (q + 1) * d <= b * d /\ (q + 1) * d = d * q + d
      BY <1>1, <1>2, <1>3, <2>1, Monotone
    <3> QED
      BY <1>1, <1>2, <1>3, <1>5, <3>1
  <2>2. CASE rest = 0 /\ q <= b
    <3>1. q * d <= b * d
      BY <1>1, <1>2, <1>3, <2>2, Monotone
    <3> QED
      BY <1>1, <1>2, <1>3, <1>5, <2>2, <3>1
  <2> QED
    BY <1>2, <1>3, <2>1, <2>2
<1>7. b \in 0 .. BytesFor(n) - 1
  BY <1>2, <1>3, <1>4, <1>6
<1>8. b * d + bit = r
  BY <1>2, <1>5
<1> QED
  BY <1>2, <1>7, <1>8 DEF Bits, RowOfBit, b, bit, d

\* ... and the row of a bit of a byte.
LEMMA RowOfBitOf ==
  ASSUME NEW b \in Nat, NEW bit \in Bits
  PROVE  /\ RowOfBit(b, bit) \in Nat
         /\ RowOfBit(b, bit) \div RowsPerByte = b
         /\ RowOfBit(b, bit) % RowsPerByte = bit
<1> DEFINE d == RowsPerByte
           r == b * d + bit
<1>1. d \in Nat \ {0} /\ bit \in 0 .. d - 1
  BY LoadSizes DEF Bits
<1> HIDE DEF d
<1>2. b * d \in Nat /\ (b + 1) * d = b * d + d /\ d * b = b * d /\ r \in Nat
  BY <1>1
<1>3. b * d <= r /\ r < (b + 1) * d
  BY <1>1, <1>2
<1> HIDE DEF r
<1>4. r \div d \in Nat /\ r % d \in 0 .. d - 1 /\ r = d * (r \div d) + (r % d)
  BY <1>1, <1>2, Division
<1>5. r \div d = b
  BY <1>1, <1>2, <1>3, QuotientIs
<1>6. r = b * d + bit
  BY DEF r
<1>7. r % d = bit
  <2> DEFINE rest == r % d
  <2>1. r = d * b + rest /\ rest \in 0 .. d - 1
    BY <1>4, <1>5
  <2> HIDE DEF rest
  <2>2. rest = bit
    BY <1>1, <1>2, <1>6, <2>1
  <2> QED
    BY <2>2 DEF rest
<1> QED
  BY <1>2, <1>5, <1>7 DEF RowOfBit, d, r

-----------------------------------------------------------------------------
(* The columns as they are parsed                                          *)

\* bitmap_push_back adds the bit of one row more.
LEMMA BitPushed ==
  ASSUME NEW n \in Nat, NEW bitmap, IsBits(bitmap, n), NEW notNull \in BOOLEAN,
         NEW new, new = BitmapPushBack(bitmap, n, notNull)
  PROVE  /\ IsBits(new, n + 1)
         /\ \A r \in 0 .. n - 1 : HasBit(new, r) <=> HasBit(bitmap, r)
         /\ HasBit(new, n) <=> notNull
<1> DEFINE d == RowsPerByte
           q == n \div d
           rest == n % d
<1>1. d \in Nat \ {0} /\ q \in Nat /\ rest \in Bits
  BY LoadSizes, Division DEF Bits
<1>2. /\ BytesFor(n) \in Nat
      /\ rest = 0 => BytesFor(n) = q
      /\ rest # 0 => BytesFor(n) = q + 1
      /\ BytesFor(n + 1) = q + 1
  BY BytesOf
<1>3. bitmap \in Seq(SUBSET Bits) /\ Len(bitmap) = BytesFor(n)
  BY DEF IsBits
<1>4. ASSUME NEW r \in 0 .. n - 1
      PROVE  /\ r \div d \in 0 .. BytesFor(n) - 1
             /\ r \div d = q => r % d # rest
  <2>1. /\ r \div d \in 0 .. BytesFor(n) - 1
        /\ RowOfBit(r \div d, r % d) = r
    BY BitOfRow
  <2>2. RowOfBit(q, rest) = n
    <3>1. n \in 0 .. (n + 1) - 1 /\ n + 1 \in Nat
      OBVIOUS
    <3> QED
      BY <3>1, BitOfRow
  <2> QED
    BY <2>1, <2>2
<1>5. /\ \A r : HasBit(new, r) <=> (r % d) \in new[(r \div d) + 1]
      /\ \A r : HasBit(bitmap, r) <=> (r % d) \in bitmap[(r \div d) + 1]
  BY DEF HasBit
<1>6. new = IF q + 1 > Len(bitmap)
            THEN Append(bitmap, IF notNull THEN {0} ELSE {})
            ELSE [bitmap EXCEPT ![q + 1] = IF notNull THEN @ \union {rest} ELSE @ \ {rest}]
  BY DEF BitmapPushBack
<1> DEFINE ByteAt(r) == r \div d
           Bit(r) == r % d
<1>7. /\ \A r \in 0 .. n - 1 : /\ ByteAt(r) \in 0 .. BytesFor(n) - 1
                               /\ ByteAt(r) = q => Bit(r) # rest
      /\ \A r : HasBit(new, r) <=> Bit(r) \in new[ByteAt(r) + 1]
      /\ \A r : HasBit(bitmap, r) <=> Bit(r) \in bitmap[ByteAt(r) + 1]
      /\ ByteAt(n) = q /\ Bit(n) = rest
  BY <1>4, <1>5
<1> HIDE DEF ByteAt, Bit, q, rest, d
<1>8. CASE rest = 0
  <2> DEFINE e == IF notNull THEN {0} ELSE {}
  <2>1. Len(bitmap) = q /\ new = Append(bitmap, e) /\ e \in SUBSET Bits
    BY <1>1, <1>2, <1>3, <1>6, <1>8
  <2> HIDE DEF e
  <2>2. /\ new \in Seq(SUBSET Bits) /\ Len(new) = q + 1 /\ new[q + 1] = e
        /\ \A x \in 1 .. q : new[x] = bitmap[x]
    BY <1>3, <2>1, AppendProperties
  <2>3. IsBits(new, n + 1)
    BY <1>2, <2>2 DEF IsBits
  <2>4. \A r \in 0 .. n - 1 : HasBit(new, r) <=> HasBit(bitmap, r)
    <3>1. ASSUME NEW r \in 0 .. n - 1
          PROVE  ByteAt(r) + 1 \in 1 .. q
      BY <1>1, <1>2, <1>7, <1>8
    <3> QED
      BY <1>7, <2>2, <3>1
  <2>5. HasBit(new, n) <=> notNull
    BY <1>7, <1>8, <2>2 DEF e
  <2> QED
    BY <2>3, <2>4, <2>5
<1>9. CASE rest # 0
  <2> DEFINE old == bitmap[q + 1]
             e == IF notNull THEN old \union {rest} ELSE old \ {rest}
  <2>1. Len(bitmap) = q + 1 /\ q + 1 \in 1 .. Len(bitmap) /\ old \in SUBSET Bits
    BY <1>1, <1>2, <1>3, <1>9
  <2>2. new = [bitmap EXCEPT ![q + 1] = e]
    BY <1>1, <1>6, <2>1
  <2>3. e \in SUBSET Bits
    BY <1>1, <2>1
  <2> HIDE DEF e
  <2>4. /\ new \in Seq(SUBSET Bits) /\ Len(new) = q + 1 /\ new[q + 1] = e
        /\ \A x \in 1 .. q + 1 : x # q + 1 => new[x] = bitmap[x]
    BY <1>1, <1>3, <2>1, <2>2, <2>3
  <2>5. IsBits(new, n + 1)
    BY <1>2, <2>4 DEF IsBits
  <2>6. ASSUME NEW r \in 0 .. n - 1
        PROVE  HasBit(new, r) <=> HasBit(bitmap, r)
    <3>1. ByteAt(r) + 1 \in 1 .. q + 1 /\ ByteAt(r) \in Nat
      BY <1>1, <1>2, <1>7, <1>9
    <3>2. CASE ByteAt(r) # q
      <4>1. new[ByteAt(r) + 1] = bitmap[ByteAt(r) + 1]
        BY <1>1, <2>4, <3>1, <3>2
      <4> QED
        BY <1>7, <4>1
    <3>3. CASE ByteAt(r) = q
      <4>1. Bit(r) # rest
        BY <1>7, <3>3
      <4>2. Bit(r) \in e <=> Bit(r) \in old
        BY <4>1 DEF e
      <4> QED
        BY <1>7, <2>4, <3>3, <4>2
    <3> QED
      BY <3>2, <3>3
  <2>7. HasBit(new, n) <=> notNull
    BY <1>7, <2>4 DEF e
  <2> QED
    BY <2>5, <2>6, <2>7
<1> QED
  BY <1>8, <1>9

\* A column of integers has the first k rows' values.
IntsExact(col, v, k) ==
  /\ col.data \in Seq(Int) /\ Len(col.data) = k
  /\ IsBits(col.bitmap, k)
  /\ \A r \in 0 .. k - 1 : /\ HasBit(col.bitmap, r) <=> v[r + 1].a # Null
                           /\ v[r + 1].a # Null => col.data[r + 1] = v[r + 1].a

\* Where the characters of row r begin, if the rows end there.
Begins(offsets, r) == IF r = 0 THEN 0 ELSE offsets[r]

\* A column of strings has the first k rows' values.
StringsExact(col, v, k) ==
  /\ col.data \in Seq(Nat)
  /\ col.offsets \in Seq(0 .. Len(col.data)) /\ Len(col.offsets) = k
  /\ Begins(col.offsets, k) = Len(col.data)
  /\ IsBits(col.bitmap, k)
  /\ \A r \in 0 .. k - 1 :
       /\ HasBit(col.bitmap, r) <=> v[r + 1].s # Null
       /\ v[r + 1].s # Null =>
            /\ col.offsets[r + 1] = Begins(col.offsets, r) + 1
            /\ col.data[col.offsets[r + 1]] = v[r + 1].s

\* No row, no byte.
LEMMA NoBits == IsBits(<<>>, 0)
<1> DEFINE d == RowsPerByte
           n == 0 + d - 1
<1>1. d \in Nat \ {0} /\ n \in Nat /\ 0 * d <= n /\ n < (0 + 1) * d
  BY LoadSizes
<1> HIDE DEF d, n
<1>2. n \div d = 0
  BY <1>1, QuotientIs
<1>3. BytesFor(0) = 0
  BY <1>2 DEF BytesFor, n, d
<1> QED
  BY <1>3 DEF IsBits

\* One row more, in either column.
LEMMA IntAdded ==
  ASSUME NEW v \in Seq(Record), NEW k \in 0 .. Len(v) - 1, NEW col, IntsExact(col, v, k)
  PROVE  IntsExact(AddInt(col, v[k + 1]), v, k + 1)
<1> DEFINE x == v[k + 1].a
           y == IF x = Null THEN 0 ELSE x
           new == AddInt(col, v[k + 1])
           bits == BitmapPushBack(col.bitmap, k, x # Null)
<1>1. k \in Nat /\ k + 1 \in 1 .. Len(v) /\ x \in IntRange \union {Null}
  <2>1. k \in Nat /\ k + 1 \in 1 .. Len(v)
    BY LenProperties
  <2>2. v[k + 1] \in Record
    BY <2>1, ElementOfSeq
  <2> QED
    BY <2>1, <2>2 DEF Record
<1>2. y \in Int
  BY <1>1, LoadSizes DEF IntRange
<1>3. new.data = Append(col.data, y) /\ new.bitmap = bits
  BY DEF AddInt, PushBackInt, IntsExact
<1>4. /\ IsBits(bits, k + 1)
      /\ \A r \in 0 .. k - 1 : HasBit(bits, r) <=> HasBit(col.bitmap, r)
      /\ HasBit(bits, k) <=> x # Null
  <2> DEFINE notNull == x # Null
  <2>1. notNull \in BOOLEAN /\ IsBits(col.bitmap, k) /\ bits = BitmapPushBack(col.bitmap, k, notNull)
    BY DEF IntsExact
  <2> HIDE DEF bits, notNull
  <2>2. /\ IsBits(bits, k + 1)
        /\ \A r \in 0 .. k - 1 : HasBit(bits, r) <=> HasBit(col.bitmap, r)
        /\ HasBit(bits, k) <=> notNull
    BY <1>1, <2>1, BitPushed
  <2> QED
    BY <2>2 DEF notNull
<1>5. /\ new.data \in Seq(Int) /\ Len(new.data) = k + 1 /\ new.data[k + 1] = y
      /\ \A z \in 1 .. k : new.data[z] = col.data[z]
  BY <1>2, <1>3, AppendProperties DEF IntsExact
<1>6. x # Null => y = x
  OBVIOUS
<1> HIDE DEF new, bits, y
<1>7. ASSUME NEW r \in 0 .. (k + 1) - 1
      PROVE  /\ HasBit(new.bitmap, r) <=> v[r + 1].a # Null
             /\ v[r + 1].a # Null => new.data[r + 1] = v[r + 1].a
  <2>1. CASE r = k
    BY <1>3, <1>4, <1>5, <1>6, <2>1
  <2>2. CASE r # k
    <3>1. r \in 0 .. k - 1 /\ r + 1 \in 1 .. k
      BY <1>1, <2>2
    <3> QED
      BY <1>3, <1>4, <1>5, <3>1 DEF IntsExact
  <2> QED
    BY <2>1, <2>2
<1>8. IntsExact(new, v, k + 1)
  BY <1>3, <1>4, <1>5, <1>7 DEF IntsExact
<1> QED
  BY <1>8 DEF new

LEMMA StringAdded ==
  ASSUME NEW v \in Seq(Record), NEW k \in 0 .. Len(v) - 1, NEW col, StringsExact(col, v, k)
  PROVE  StringsExact(AddString(col, v[k + 1]), v, k + 1)
<1> DEFINE x == v[k + 1].s
           data == IF x = Null THEN col.data ELSE Append(col.data, x)
           new == AddString(col, v[k + 1])
           bits == BitmapPushBack(col.bitmap, k, x # Null)
           m == Len(col.data)
<1>1. k \in Nat /\ k + 1 \in 1 .. Len(v) /\ (x \in Nat \/ x = Null)
  <2>1. k \in Nat /\ k + 1 \in 1 .. Len(v)
    BY LenProperties
  <2>2. v[k + 1] \in Record
    BY <2>1, ElementOfSeq
  <2> QED
    BY <2>1, <2>2 DEF Record
<1>2. /\ new.data = data /\ new.bitmap = bits
      /\ new.offsets = Append(col.offsets, Len(data))
  BY DEF AddString, PushBackString, StringsExact
<1>3. /\ IsBits(bits, k + 1)
      /\ \A r \in 0 .. k - 1 : HasBit(bits, r) <=> HasBit(col.bitmap, r)
      /\ HasBit(bits, k) <=> x # Null
  <2> DEFINE notNull == x # Null
  <2>1. notNull \in BOOLEAN /\ IsBits(col.bitmap, k) /\ bits = BitmapPushBack(col.bitmap, k, notNull)
    BY DEF StringsExact
  <2> HIDE DEF bits, notNull
  <2>2. /\ IsBits(bits, k + 1)
        /\ \A r \in 0 .. k - 1 : HasBit(bits, r) <=> HasBit(col.bitmap, r)
        /\ HasBit(bits, k) <=> notNull
    BY <1>1, <2>1, BitPushed
  <2> QED
    BY <2>2 DEF notNull
<1>4. /\ m \in Nat /\ data \in Seq(Nat)
      /\ Len(data) = IF x = Null THEN m ELSE m + 1
      /\ \A z \in 1 .. m : data[z] = col.data[z]
      /\ x # Null => data[m + 1] = x
  BY <1>1, AppendProperties DEF StringsExact
<1> HIDE DEF data, m
<1>5. /\ new.offsets \in Seq(0 .. Len(data)) /\ Len(new.offsets) = k + 1
      /\ new.offsets[k + 1] = Len(data)
      /\ \A z \in 1 .. k : new.offsets[z] = col.offsets[z]
  <2>1. col.offsets \in Seq(0 .. m) /\ Len(col.offsets) = k
    BY DEF StringsExact, m
  <2>2. \A z \in 1 .. k : col.offsets[z] \in 0 .. Len(data)
    BY <1>4, <2>1
  <2>3. col.offsets \in Seq(0 .. Len(data))
    BY <2>1, <2>2
  <2>4. Len(data) \in 0 .. Len(data)
    BY <1>4
  <2> QED
    BY <1>2, <2>1, <2>3, <2>4, AppendProperties
<1>6. Begins(col.offsets, k) = m
  BY DEF StringsExact, m
<1>7. \A r \in 0 .. k : Begins(new.offsets, r) = Begins(col.offsets, r)
  BY <1>1, <1>5 DEF Begins
<1>8. Begins(new.offsets, k + 1) = Len(new.data)
  BY <1>1, <1>2, <1>5 DEF Begins
<1> HIDE DEF new, bits
<1>9. ASSUME NEW r \in 0 .. (k + 1) - 1
      PROVE  /\ HasBit(new.bitmap, r) <=> v[r + 1].s # Null
             /\ v[r + 1].s # Null =>
                  /\ new.offsets[r + 1] = Begins(new.offsets, r) + 1
                  /\ new.data[new.offsets[r + 1]] = v[r + 1].s
  <2>1. CASE r = k
    <3>1. k \in 0 .. k
      BY <1>1
    <3>2. Begins(new.offsets, k) = m
      BY <1>6, <1>7, <3>1
    <3> QED
      BY <1>2, <1>3, <1>4, <1>5, <2>1, <3>2
  <2>2. CASE r # k
    <3>1. r \in 0 .. k - 1 /\ r + 1 \in 1 .. k /\ r \in 0 .. k
      BY <1>1, <2>2
    <3>2. HasBit(new.bitmap, r) <=> v[r + 1].s # Null
      BY <1>2, <1>3, <3>1 DEF StringsExact
    <3>3. ASSUME v[r + 1].s # Null
          PROVE  /\ new.offsets[r + 1] = Begins(new.offsets, r) + 1
                 /\ new.data[new.offsets[r + 1]] = v[r + 1].s
      <4>1. /\ col.offsets[r + 1] = Begins(col.offsets, r) + 1
            /\ col.data[col.offsets[r + 1]] = v[r + 1].s
        BY <3>1, <3>3 DEF StringsExact
      <4>2. new.offsets[r + 1] = col.offsets[r + 1] /\ Begins(new.offsets, r) = Begins(col.offsets, r)
        BY <1>5, <1>7, <3>1
      <4>3. col.offsets[r + 1] \in 1 .. m
        <5>1. \A z \in 1 .. k : col.offsets[z] \in 0 .. m
          BY DEF StringsExact, m
        <5>2. Begins(col.offsets, r) \in Nat
          BY <1>1, <1>4, <3>1, <5>1 DEF Begins
        <5> QED
          BY <1>4, <3>1, <4>1, <5>1, <5>2
      <4> QED
        BY <1>2, <1>4, <4>1, <4>2, <4>3
    <3> QED
      BY <3>2, <3>3
  <2> QED
    BY <2>1, <2>2
<1>10. new.data \in Seq(Nat) /\ IsBits(new.bitmap, k + 1) /\ new.offsets \in Seq(0 .. Len(new.data))
  BY <1>2, <1>3, <1>4, <1>5
<1>11. StringsExact(new, v, k + 1)
  BY <1>5, <1>8, <1>9, <1>10 DEF StringsExact
<1> QED
  BY <1>11 DEF new

Ints == INSTANCE Counting WITH Op <- AddInt
Strings == INSTANCE Counting WITH Op <- AddString

\* The folds that parse a column.
LEMMA ColumnFolds ==
  ASSUME NEW v \in Seq(Record)
  PROVE  /\ FoldLeft(AddInt, EmptyInts, SubSeq(v, 1, 0)) = EmptyInts
         /\ \A k \in 0 .. Len(v) - 1 :
              FoldLeft(AddInt, EmptyInts, SubSeq(v, 1, k + 1))
                = AddInt(FoldLeft(AddInt, EmptyInts, SubSeq(v, 1, k)), v[k + 1])
         /\ FoldLeft(AddString, EmptyStrings, SubSeq(v, 1, 0)) = EmptyStrings
         /\ \A k \in 0 .. Len(v) - 1 :
              FoldLeft(AddString, EmptyStrings, SubSeq(v, 1, k + 1))
                = AddString(FoldLeft(AddString, EmptyStrings, SubSeq(v, 1, k)), v[k + 1])
<1>1. \A z : FoldLeft(AddInt, EmptyInts, z) = Ints!FoldLeft(AddInt, EmptyInts, z)
  BY DEF FoldLeft, MapThenFoldSet, Ints!FoldLeft, Ints!MapThenFoldSet, Max, Ints!Max
<1>2. \A z : FoldLeft(AddString, EmptyStrings, z) = Strings!FoldLeft(AddString, EmptyStrings, z)
  BY DEF FoldLeft, MapThenFoldSet, Strings!FoldLeft, Strings!MapThenFoldSet, Max, Strings!Max
<1>3. /\ Ints!FoldLeft(AddInt, EmptyInts, SubSeq(v, 1, 0)) = EmptyInts
      /\ \A k \in 0 .. Len(v) - 1 :
           Ints!FoldLeft(AddInt, EmptyInts, SubSeq(v, 1, k + 1))
             = AddInt(Ints!FoldLeft(AddInt, EmptyInts, SubSeq(v, 1, k)), v[k + 1])
  BY Ints!FoldLeftPrefix
<1>4. /\ Strings!FoldLeft(AddString, EmptyStrings, SubSeq(v, 1, 0)) = EmptyStrings
      /\ \A k \in 0 .. Len(v) - 1 :
           Strings!FoldLeft(AddString, EmptyStrings, SubSeq(v, 1, k + 1))
             = AddString(Strings!FoldLeft(AddString, EmptyStrings, SubSeq(v, 1, k)), v[k + 1])
  BY Strings!FoldLeftPrefix
<1> QED
  BY <1>1, <1>2, <1>3, <1>4, Zenon

\* What a kernel finds in the parsed columns.
LEMMA Parsed ==
  ASSUME NEW v \in Seq(Record)
  PROVE  /\ Parse(v).rows = Len(v) /\ Parse(v) # NoTable
         /\ \A c \in ColumnSet :
              /\ IsBits(Parse(v).columns[c].bitmap, Len(v))
              /\ \A r \in 0 .. Len(v) - 1 :
                   /\ HasBit(Parse(v).columns[c].bitmap, r) <=> v[r + 1][c] # Null
                   /\ v[r + 1][c] # Null => Get(Parse(v), c, r) = v[r + 1][c]
<1> DEFINE n == Len(v)
           P(k) == FoldLeft(AddInt, EmptyInts, SubSeq(v, 1, k))
           Q(k) == FoldLeft(AddString, EmptyStrings, SubSeq(v, 1, k))
           T == {k \in 0 .. n : IntsExact(P(k), v, k) /\ StringsExact(Q(k), v, k)}
<1>1. n \in Nat /\ SubSeq(v, 1, n) = v
  BY PrefixEnds
<1>2. /\ P(0) = EmptyInts /\ Q(0) = EmptyStrings
      /\ \A k \in 0 .. n - 1 : P(k + 1) = AddInt(P(k), v[k + 1]) /\ Q(k + 1) = AddString(Q(k), v[k + 1])
  BY ColumnFolds
<1> HIDE DEF P, Q
<1>3. 0 \in T
  <2>1. IntsExact(EmptyInts, v, 0)
    BY NoBits DEF IntsExact, EmptyInts
  <2>2. StringsExact(EmptyStrings, v, 0)
    BY NoBits DEF StringsExact, EmptyStrings, Begins
  <2> QED
    BY <1>1, <1>2, <2>1, <2>2
<1>4. ASSUME NEW k \in 0 .. n - 1, k \in T
      PROVE  k + 1 \in T
  <2>1. IntsExact(AddInt(P(k), v[k + 1]), v, k + 1)
    BY <1>4, IntAdded
  <2>2. StringsExact(AddString(Q(k), v[k + 1]), v, k + 1)
    BY <1>4, StringAdded
  <2> QED
    BY <1>1, <1>2, <2>1, <2>2
<1>5. n \in T
  <2> HIDE DEF T
  <2>1. \A k \in 0 .. n : k \in T
    BY <1>1, <1>3, <1>4, PrefixInduction
  <2> QED
    BY <1>1, <2>1
<1> DEFINE ints == FoldLeft(AddInt, EmptyInts, v)
           strings == FoldLeft(AddString, EmptyStrings, v)
<1>6. IntsExact(ints, v, n) /\ StringsExact(strings, v, n)
  BY <1>1, <1>5 DEF P, Q
<1>7. /\ Parse(v).rows = n
      /\ Parse(v).columns["a"] = ints /\ Parse(v).columns["s"] = strings
      /\ Parse(v) # NoTable
  BY DEF Parse, NoTable
<1> HIDE DEF ints, strings, n
<1>8. \A r \in 0 .. n - 1 :
        /\ HasBit(Parse(v).columns["a"].bitmap, r) <=> v[r + 1].a # Null
        /\ v[r + 1].a # Null => Get(Parse(v), "a", r) = v[r + 1].a
  BY <1>6, <1>7 DEF IntsExact, Get
<1>9. ASSUME NEW r \in 0 .. n - 1
      PROVE  /\ HasBit(Parse(v).columns["s"].bitmap, r) <=> v[r + 1].s # Null
             /\ v[r + 1].s # Null => Get(Parse(v), "s", r) = v[r + 1].s
  <2>1. HasBit(Parse(v).columns["s"].bitmap, r) <=> v[r + 1].s # Null
    BY <1>6, <1>7 DEF StringsExact
  <2>2. ASSUME v[r + 1].s # Null
        PROVE  Get(Parse(v), "s", r) = v[r + 1].s
    <3> DEFINE from == Begins(strings.offsets, r)
    <3>1. /\ strings.offsets[r + 1] = from + 1
          /\ strings.data[strings.offsets[r + 1]] = v[r + 1].s
      BY <1>6, <2>2 DEF StringsExact
    <3>2. from \in Nat
      <4>1. strings.offsets \in Seq(0 .. Len(strings.data)) /\ Len(strings.offsets) = n
        BY <1>6 DEF StringsExact
      <4>2. \A z \in 1 .. n : strings.offsets[z] \in Nat
        BY <4>1
      <4> QED
        BY <1>1, <4>2 DEF Begins
    <3>3. Get(Parse(v), "s", r) = IF from = strings.offsets[r + 1] THEN Empty ELSE strings.data[strings.offsets[r + 1]]
      BY <1>7 DEF Get, GetString, Begins
    <3> QED
      BY <3>1, <3>2, <3>3
  <2> QED
    BY <2>1, <2>2
<1>10. IsBits(ints.bitmap, n) /\ IsBits(strings.bitmap, n)
  BY <1>6 DEF IntsExact, StringsExact
<1> QED
  BY <1>7, <1>8, <1>9, <1>10 DEF ColumnSet, n

-----------------------------------------------------------------------------
(* The nodes of a statement that hold for a record                         *)

\* What a node can be.
LEMMA NodeIs ==
  ASSUME NEW s, IsStatement(s), NEW k \in DOMAIN s
  PROVE  /\ Len(s) \in Nat \ {0} /\ DOMAIN s = 1 .. Len(s)
         /\ s[k].op \in CompareOps \union LikeOps \union NullOps \union {"AND", "OR", "NOT"}
         /\ s[k].op \in {"AND", "OR"} =>
              s[k].children[1] \in 1 .. k - 1 /\ s[k].children[2] \in 1 .. k - 1
         /\ s[k].op = "NOT" => s[k].children[1] \in 1 .. k - 1
         /\ s[k].op \notin {"AND", "OR", "NOT"} => s[k].column \in ColumnSet
         /\ s[k].op \in CompareOps /\ s[k].column = "a" => s[k].value \in Int
         /\ s[k].op \in CompareOps /\ s[k].column = "s" => s[k].value \in Nat
         /\ s[k].op \in LikeOps => s[k].column = "s"
<1>1. s[k] \in Comparisons \union LogicalOperations(k)
  BY DEF IsStatement
<1>2. Len(s) \in Nat \ {0} /\ DOMAIN s = 1 .. Len(s)
  BY DEF IsStatement
<1>3. CASE s[k] \in [op : CompareOps, column : {"a"}, value : Int]
  BY <1>2, <1>3 DEF ColumnSet, CompareOps, LikeOps, NullOps
<1>4. CASE s[k] \in [op : CompareOps, column : {"s"}, value : Nat]
  BY <1>2, <1>4 DEF ColumnSet, CompareOps, LikeOps, NullOps
<1>5. CASE s[k] \in [op : LikeOps, column : {"s"}, value : SUBSET Nat]
  BY <1>2, <1>5 DEF ColumnSet, CompareOps, LikeOps, NullOps
<1>6. CASE s[k] \in [op : NullOps, column : {"a", "s"}]
  BY <1>2, <1>6 DEF ColumnSet, CompareOps, LikeOps, NullOps
<1>7. CASE s[k] \in LogicalOperations(k)
  BY <1>2, <1>7 DEF LogicalOperations, CompareOps, LikeOps, NullOps
<1> QED
  BY <1>1, <1>3, <1>4, <1>5, <1>6, <1>7 DEF Comparisons

\* A node looks at earlier ones only.
LEMMA NodeHoldsSame ==
  ASSUME NEW s, IsStatement(s), NEW record, NEW k \in DOMAIN s, NEW T, NEW U,
         \A j \in 1 .. k - 1 : j \in T <=> j \in U
  PROVE  NodeHolds(s, record, T, k) <=> NodeHolds(s, record, U, k)
BY NodeIs DEF NodeHolds

\* A set of nodes holds, ...
LEMMA HoldingExists ==
  ASSUME NEW s, IsStatement(s), NEW record
  PROVE  \E H \in SUBSET (DOMAIN s) : AreHolding(s, record, H)
<1> DEFINE n == Len(s)
           Good(H, m) == H \subseteq 1 .. m /\ \A k \in 1 .. m : k \in H <=> NodeHolds(s, record, H, k)
           T == {m \in 0 .. n : \E H : Good(H, m)}
<1>1. n \in Nat /\ DOMAIN s = 1 .. n
  BY DEF IsStatement
<1>2. 0 \in T
  <2>1. Good({}, 0)
    OBVIOUS
  <2> HIDE DEF Good, n
  <2> QED
    BY <1>1, <2>1
<1>3. ASSUME NEW m \in 0 .. n - 1, m \in T
      PROVE  m + 1 \in T
  <2>1. PICK H : Good(H, m)
    BY <1>3
  <2>2. m \in Nat /\ m + 1 \in 1 .. n /\ m + 1 \in 0 .. n /\ m + 1 \in DOMAIN s
    BY <1>1
  <2> DEFINE G == IF NodeHolds(s, record, H, m + 1) THEN H \union {m + 1} ELSE H
  <2>3. \A j \in 1 .. m : j \in G <=> j \in H
    BY <2>2
  <2>4. m + 1 \in G <=> NodeHolds(s, record, H, m + 1)
    BY <2>1
  <2>5. G \subseteq 1 .. m + 1
    BY <2>1, <2>2
  <2> HIDE DEF G
  <2>6. ASSUME NEW k \in 1 .. m + 1
        PROVE  NodeHolds(s, record, G, k) <=> NodeHolds(s, record, H, k)
    <3>1. k \in DOMAIN s /\ \A j \in 1 .. k - 1 : j \in 1 .. m
      BY <1>1, <2>2
    <3>2. \A j \in 1 .. k - 1 : j \in G <=> j \in H
      BY <2>3, <3>1
    <3> QED
      BY <3>1, <3>2, NodeHoldsSame
  <2>7. ASSUME NEW k \in 1 .. m + 1
        PROVE  k \in G <=> NodeHolds(s, record, G, k)
    <3>1. CASE k = m + 1
      BY <2>4, <2>6, <3>1
    <3>2. CASE k # m + 1
      <4>1. k \in 1 .. m
        BY <2>2, <3>2
      <4> QED
        BY <2>1, <2>3, <2>6, <4>1
    <3> QED
      BY <3>1, <3>2
  <2>8. Good(G, m + 1)
    BY <2>5, <2>7
  <2> HIDE DEF Good, n
  <2> QED
    BY <2>2, <2>8
<1> HIDE DEF T
<1>4. n \in T
  <2>1. \A m \in 0 .. n : m \in T
    BY <1>1, <1>2, <1>3, PrefixInduction
  <2> QED
    BY <1>1, <2>1
<1>5. PICK H : Good(H, n)
  BY <1>4 DEF T
<1> QED
  BY <1>1, <1>5 DEF AreHolding

\* ... which Holding is.
LEMMA HoldingIs ==
  ASSUME NEW s, IsStatement(s), NEW record
  PROVE  AreHolding(s, record, Holding(s, record))
BY HoldingExists DEF Holding

\* The literals are those of the columns' types.
LiteralsFit ==
  \A f \in Filters : \A k \in DOMAIN f :
    f[k].op \in CompareOps /\ f[k].column = "a" => f[k].value \in IntRange

\* Narrowing keeps them.
LEMMA ToInt32Is ==
  ASSUME NEW n \in IntRange
  PROVE  ToInt32(n) = n
<1> DEFINE h == Int32Half
           m == n + h
<1>1. h \in Nat \ {0} /\ n \in Int /\ m \in Nat /\ m < 2 * h /\ n = m - h
  BY LoadSizes DEF IntRange
<1> HIDE DEF h, m
<1>2. m % (2 * h) = m
  <2> DEFINE d == 2 * h
  <2>1. d \in Nat \ {0} /\ m < d
    BY <1>1
  <2> HIDE DEF d
  <2>2. m % d = m
    BY <1>1, <2>1
  <2> QED
    BY <2>2 DEF d
<1> QED
  BY <1>1, <1>2 DEF ToInt32, m, h

\* A comparison on a record holds if the node does.
LEMMA FieldAgrees ==
  ASSUME LiteralsFit, NEW f \in Filters, NEW record, NEW k \in DOMAIN f, NEW T,
         f[k].op \notin {"AND", "OR", "NOT"}
  PROVE  NodeHolds(f, record, T, k) = EvalField(f[k], record)
<1>1. /\ f[k].op \in CompareOps \union LikeOps \union NullOps
      /\ f[k].column \in ColumnSet
      /\ f[k].op \in LikeOps => f[k].column = "s"
  BY NodeIs, FiltersAssumption
<1>2. CASE f[k].op \in NullOps
  BY <1>2 DEF NodeHolds, EvalField, NullOps
<1>3. CASE f[k].op \notin NullOps
  <2>1. Narrowed(f[k]) = f[k].value
    <3>1. CASE f[k].column = "a"
      <4>1. f[k].value \in IntRange
        BY <1>1, <1>3, <3>1 DEF LiteralsFit
      <4> QED
        BY <3>1, <4>1, ToInt32Is DEF Narrowed
    <3> QED
      BY <3>1 DEF Narrowed
  <2> QED
    BY <1>1, <1>3, <2>1 DEF NodeHolds, EvalField, NullOps
<1> QED
  BY <1>2, <1>3

\* What the evaluator on records computes for each node.
EvalNode(f, record, eval, k) ==
  CASE f[k].op = "AND" -> eval[f[k].children[1]] /\ eval[f[k].children[2]]
    [] f[k].op = "OR"  -> eval[f[k].children[1]] \/ eval[f[k].children[2]]
    [] f[k].op = "NOT" -> ~eval[f[k].children[1]]
    [] OTHER           -> EvalField(f[k], record)

\* It agrees with the nodes that hold.
LEMMA RecordAgrees ==
  ASSUME LiteralsFit, NEW f \in Filters, NEW record
  PROVE  EvalRecord(f, record) <=> Len(f) \in Holding(f, record)
<1> DEFINE n == Len(f)
           H == Holding(f, record)
           EvalsTo(e) == e = [k \in DOMAIN f |-> EvalNode(f, record, e, k)]
           e == CHOOSE x : EvalsTo(x)
           g == [k \in DOMAIN f |-> k \in H]
<1>1. IsStatement(f) /\ n \in Nat \ {0} /\ DOMAIN f = 1 .. n
  BY FiltersAssumption DEF IsStatement
<1>2. \A k \in DOMAIN f : k \in H <=> NodeHolds(f, record, H, k)
  BY <1>1, HoldingIs DEF AreHolding
<1> HIDE DEF H
<1>3. EvalRecord(f, record) = e[n]
  BY DEF EvalRecord, EvalNode
<1>4. ASSUME NEW k \in DOMAIN f
      PROVE  g[k] = EvalNode(f, record, g, k)
  <2>1. /\ f[k].op \in {"AND", "OR"} => f[k].children[1] \in DOMAIN f /\ f[k].children[2] \in DOMAIN f
        /\ f[k].op = "NOT" => f[k].children[1] \in DOMAIN f
    BY <1>1, NodeIs
  <2>2. CASE f[k].op \in {"AND", "OR", "NOT"}
    <3> DEFINE x == f[k].children[1]
               y == f[k].children[2]
    <3>1. \A j \in DOMAIN f : g[j] = (j \in H)
      OBVIOUS
    <3> HIDE DEF g
    <3>2. CASE f[k].op = "AND"
      <4>1. EvalNode(f, record, g, k) = (g[x] /\ g[y])
        BY <3>2 DEF EvalNode
      <4>2. NodeHolds(f, record, H, k) <=> x \in H /\ y \in H
        BY <3>2 DEF NodeHolds
      <4>3. k \in H <=> x \in H /\ y \in H
        BY <1>2, <4>2
      <4>4. g[k] = (k \in H) /\ g[x] = (x \in H) /\ g[y] = (y \in H)
        BY <2>1, <3>1, <3>2
      <4>5. (k \in H) = (x \in H /\ y \in H)
        BY <4>3
      <4>6. EvalNode(f, record, g, k) = (x \in H /\ y \in H)
        BY <4>1, <4>4, Zenon
      <4> QED
        BY <4>4, <4>5, <4>6, Zenon
    <3>3. CASE f[k].op = "OR"
      <4>1. EvalNode(f, record, g, k) = (g[x] \/ g[y])
        BY <3>3 DEF EvalNode
      <4>2. NodeHolds(f, record, H, k) <=> x \in H \/ y \in H
        BY <3>3 DEF NodeHolds
      <4>3. k \in H <=> x \in H \/ y \in H
        BY <1>2, <4>2
      <4>4. g[k] = (k \in H) /\ g[x] = (x \in H) /\ g[y] = (y \in H)
        BY <2>1, <3>1, <3>3
      <4>5. (k \in H) = (x \in H \/ y \in H)
        BY <4>3
      <4>6. EvalNode(f, record, g, k) = (x \in H \/ y \in H)
        BY <4>1, <4>4, Zenon
      <4> QED
        BY <4>4, <4>5, <4>6, Zenon
    <3>4. CASE f[k].op = "NOT"
      <4>1. EvalNode(f, record, g, k) = ~g[x]
        BY <3>4 DEF EvalNode
      <4>2. NodeHolds(f, record, H, k) <=> x \notin H
        BY <3>4 DEF NodeHolds
      <4>3. k \in H <=> x \notin H
        BY <1>2, <4>2
      <4>4. g[k] = (k \in H) /\ g[x] = (x \in H)
        BY <2>1, <3>1, <3>4
      <4>5. (k \in H) = (x \notin H)
        BY <4>3
      <4>6. EvalNode(f, record, g, k) = (x \notin H)
        BY <4>1, <4>4, Zenon
      <4> QED
        BY <4>4, <4>5, <4>6, Zenon
    <3> QED
      BY <2>2, <3>2, <3>3, <3>4
  <2>3. CASE f[k].op \notin {"AND", "OR", "NOT"}
    <3>1. NodeHolds(f, record, H, k) = EvalField(f[k], record)
      BY <2>3, FieldAgrees
    <3>2. NodeHolds(f, record, H, k) \in BOOLEAN
      BY <2>3 DEF NodeHolds
    <3>3. EvalNode(f, record, g, k) = EvalField(f[k], record)
      BY <2>3 DEF EvalNode
    <3> QED
      BY <1>2, <3>1, <3>2, <3>3
  <2> QED
    BY <2>2, <2>3
<1>5. EvalsTo(e)
  <2>1. EvalsTo(g)
    BY <1>4
  <2> HIDE DEF EvalsTo, g
  <2> QED
    BY <2>1
<1>6. DOMAIN e = DOMAIN f /\ \A k \in DOMAIN f : e[k] = EvalNode(f, record, e, k)
  BY <1>5
<1> DEFINE T == {m \in 0 .. n : \A k \in 1 .. m : e[k] = g[k]}
<1> HIDE DEF e, g
<1>7. 0 \in T
  BY <1>1
<1>8. ASSUME NEW m \in 0 .. n - 1, m \in T
      PROVE  m + 1 \in T
  <2> DEFINE k == m + 1
  <2>1. k \in DOMAIN f /\ k \in 0 .. n /\ \A j \in 1 .. k - 1 : e[j] = g[j]
    BY <1>1, <1>8
  <2>2. EvalNode(f, record, e, k) = EvalNode(f, record, g, k)
    <3> HIDE DEF k
    <3> QED
      BY <1>1, <2>1, NodeIs DEF EvalNode
  <2>3. e[k] = g[k]
    BY <1>4, <1>6, <2>1, <2>2
  <2>4. \A j \in 1 .. k : j = k \/ j \in 1 .. k - 1
    BY <1>1
  <2> QED
    BY <2>1, <2>3, <2>4
<1>9. n \in T
  <2> HIDE DEF T
  <2>1. \A m \in 0 .. n : m \in T
    BY <1>1, <1>7, <1>8, PrefixInduction
  <2> QED
    BY <1>1, <2>1
<1>10. e[n] = g[n] /\ n \in DOMAIN f
  BY <1>1, <1>9
<1> QED
  BY <1>3, <1>10 DEF g, H

-----------------------------------------------------------------------------
(* The order in which the calls of eval return                             *)

LEMMA LeadsNone ==
  ASSUME NEW s, NEW p \in Seq(DOMAIN s)
  PROVE  Leads(s, p, <<>>, p)
<1> DEFINE h == [j \in 0 .. 0 |-> p]
<1>1. h \in [0 .. Len(<<>>) -> Seq(DOMAIN s)] /\ h[0] = p /\ Len(<<>>) = 0
  OBVIOUS
<1> HIDE DEF h
<1>2. IsRun(s, <<>>, h) /\ h[0] = p /\ h[Len(<<>>)] = p
  BY <1>1 DEF IsRun
<1> QED
  BY <1>2 DEF Leads

LEMMA LeadsEmpty ==
  ASSUME NEW s, NEW p, NEW q, Leads(s, p, <<>>, q)
  PROVE  p = q
<1>1. Len(<<>>) = 0
  OBVIOUS
<1> QED
  BY <1>1 DEF Leads

LEMMA LeadsOne ==
  ASSUME NEW s, NEW p \in Seq(DOMAIN s), NEW q \in Seq(DOMAIN s), NEW k, Reduces(s, p, k, q)
  PROVE  Leads(s, p, <<k>>, q)
<1> DEFINE c == <<k>>
           h == [j \in 0 .. 1 |-> IF j = 0 THEN p ELSE q]
<1>1. Len(c) = 1 /\ c[1] = k
  OBVIOUS
<1>2. h \in [0 .. 1 -> Seq(DOMAIN s)] /\ h[0] = p /\ h[1] = q
  OBVIOUS
<1> HIDE DEF c, h
<1>3. IsRun(s, c, h)
  BY <1>1, <1>2 DEF IsRun
<1>4. Leads(s, p, c, q)
  BY <1>1, <1>2, <1>3 DEF Leads
<1> QED
  BY <1>4 DEF c

\* One sequence of calls after the other.
LEMMA LeadsConcat ==
  ASSUME NEW s, NEW c \in Seq(DOMAIN s), NEW d \in Seq(DOMAIN s), NEW p, NEW q, NEW r,
         Leads(s, p, c, q), Leads(s, q, d, r)
  PROVE  Leads(s, p, c \o d, r)
<1>1. PICK f : IsRun(s, c, f) /\ f[0] = p /\ f[Len(c)] = q
  BY DEF Leads
<1>2. PICK g : IsRun(s, d, g) /\ g[0] = q /\ g[Len(d)] = r
  BY DEF Leads
<1> DEFINE m == Len(c)
           n == Len(d)
           e == c \o d
           h == [j \in 0 .. m + n |-> IF j <= m THEN f[j] ELSE g[j - m]]
<1>3. /\ m \in Nat /\ n \in Nat /\ Len(e) = m + n
      /\ \A j \in 1 .. m + n : e[j] = IF j <= m THEN c[j] ELSE d[j - m]
  OBVIOUS
<1>4. /\ f \in [0 .. m -> Seq(DOMAIN s)] /\ \A j \in 1 .. m : Reduces(s, f[j - 1], c[j], f[j])
      /\ g \in [0 .. n -> Seq(DOMAIN s)] /\ \A j \in 1 .. n : Reduces(s, g[j - 1], d[j], g[j])
  BY <1>1, <1>2 DEF IsRun
<1> HIDE DEF e, m, n
<1>5. h \in [0 .. m + n -> Seq(DOMAIN s)]
  BY <1>3, <1>4
<1>6. /\ \A j \in 0 .. m : h[j] = f[j]
      /\ \A j \in m .. m + n : h[j] = g[j - m]
  <2>1. \A j \in 0 .. m : h[j] = f[j]
    BY <1>3
  <2>2. ASSUME NEW j \in m .. m + n
        PROVE  h[j] = g[j - m]
    <3>1. CASE j = m
      BY <1>1, <1>2, <1>3, <3>1 DEF m
    <3>2. CASE j > m
      BY <1>3, <3>2
    <3> QED
      BY <1>3, <3>1, <3>2
  <2> QED
    BY <2>1, <2>2
<1> HIDE DEF h
<1>7. ASSUME NEW j \in 1 .. m + n
      PROVE  Reduces(s, h[j - 1], e[j], h[j])
  <2>1. CASE j <= m
    <3>1. j \in 1 .. m /\ j - 1 \in 0 .. m /\ j \in 0 .. m
      BY <1>3, <2>1
    <3>2. h[j - 1] = f[j - 1] /\ h[j] = f[j] /\ e[j] = c[j]
      BY <1>3, <1>6, <2>1, <3>1
    <3> QED
      BY <1>4, <3>1, <3>2
  <2>2. CASE j > m
    <3> DEFINE y == j - m
    <3>1. y \in 1 .. n /\ j - 1 \in m .. m + n /\ j \in m .. m + n /\ (j - 1) - m = y - 1
      BY <1>3, <2>2
    <3>2. h[j - 1] = g[y - 1] /\ h[j] = g[y] /\ e[j] = d[y]
      BY <1>3, <1>6, <2>2, <3>1
    <3> HIDE DEF y
    <3> QED
      BY <1>4, <3>1, <3>2
  <2> QED
    BY <1>3, <2>1, <2>2
<1>8. h[0] = p /\ h[m + n] = r
  <2>1. 0 \in 0 .. m /\ m + n \in m .. m + n /\ (m + n) - m = n
    BY <1>3
  <2> QED
    BY <1>1, <1>2, <1>6, <2>1 DEF n
<1>9. Leads(s, p, e, r)
  BY <1>3, <1>5, <1>7, <1>8 DEF Leads, IsRun
<1> QED
  BY <1>9 DEF e

\* The first call, and those behind it.
LEMMA LeadsFirst ==
  ASSUME NEW s, NEW c \in Seq(DOMAIN s), c # <<>>, NEW p, NEW r, Leads(s, p, c, r)
  PROVE  /\ Head(c) \in DOMAIN s /\ Tail(c) \in Seq(DOMAIN s)
         /\ \E q \in Seq(DOMAIN s) : Reduces(s, p, Head(c), q) /\ Leads(s, q, Tail(c), r)
<1>1. PICK f : IsRun(s, c, f) /\ f[0] = p /\ f[Len(c)] = r
  BY DEF Leads
<1> DEFINE m == Len(c)
           d == Tail(c)
           q == f[1]
           h == [j \in 0 .. m - 1 |-> f[j + 1]]
<1>2. /\ m \in Nat \ {0} /\ d \in Seq(DOMAIN s) /\ Len(d) = m - 1
      /\ \A j \in 1 .. m - 1 : d[j] = c[j + 1]
      /\ Head(c) = c[1] /\ c[1] \in DOMAIN s
  OBVIOUS
<1>3. f \in [0 .. m -> Seq(DOMAIN s)] /\ \A j \in 1 .. m : Reduces(s, f[j - 1], c[j], f[j])
  BY <1>1 DEF IsRun
<1> HIDE DEF m, d
<1>4. h \in [0 .. m - 1 -> Seq(DOMAIN s)] /\ \A j \in 0 .. m - 1 : h[j] = f[j + 1]
  BY <1>2, <1>3
<1> HIDE DEF h
<1>5. ASSUME NEW j \in 1 .. m - 1
      PROVE  Reduces(s, h[j - 1], d[j], h[j])
  <2>1. j - 1 \in 0 .. m - 1 /\ (j - 1) + 1 = j /\ j \in 0 .. m - 1 /\ j + 1 \in 1 .. m /\ (j + 1) - 1 = j
    BY <1>2
  <2>2. h[j - 1] = f[j] /\ h[j] = f[j + 1] /\ d[j] = c[j + 1]
    BY <1>2, <1>4, <2>1
  <2>3. Reduces(s, f[(j + 1) - 1], c[j + 1], f[j + 1])
    BY <1>3, <2>1
  <2> QED
    BY <2>1, <2>2, <2>3
<1>6. h[0] = q /\ h[m - 1] = r
  <2>1. 0 \in 0 .. m - 1 /\ 0 + 1 = 1 /\ m - 1 \in 0 .. m - 1 /\ (m - 1) + 1 = m
    BY <1>2
  <2> QED
    BY <1>1, <1>4, <2>1 DEF m
<1>7. Leads(s, q, d, r)
  BY <1>2, <1>4, <1>5, <1>6 DEF Leads, IsRun
<1>8. Reduces(s, p, c[1], q) /\ q \in Seq(DOMAIN s)
  <2>1. 1 \in 1 .. m /\ 1 - 1 = 0 /\ 1 \in 0 .. m
    BY <1>2
  <2> QED
    BY <1>1, <1>3, <2>1
<1> QED
  BY <1>2, <1>7, <1>8 DEF d

\* What PostOrder says of a node.
OrderNode(s, order, k) ==
  CASE s[k].op \in {"AND", "OR"} -> order[s[k].children[1]] \o order[s[k].children[2]] \o <<k>>
    [] s[k].op = "NOT" -> order[s[k].children[1]] \o <<k>>
    [] OTHER -> <<k>>

\* It looks at earlier ones only.
LEMMA OrderSame ==
  ASSUME NEW s, IsStatement(s), NEW k \in DOMAIN s, NEW e, NEW g,
         \A j \in 1 .. k - 1 : e[j] = g[j]
  PROVE  OrderNode(s, e, k) = OrderNode(s, g, k)
<1>1. /\ s[k].op \in {"AND", "OR"} => e[s[k].children[1]] = g[s[k].children[1]]
                                       /\ e[s[k].children[2]] = g[s[k].children[2]]
      /\ s[k].op = "NOT" => e[s[k].children[1]] = g[s[k].children[1]]
  BY NodeIs
<1> QED
  BY <1>1, Zenon DEF OrderNode

\* The order is the last of a function that exists.
LEMMA OrderExists ==
  ASSUME NEW s, IsStatement(s)
  PROVE  \E e : /\ DOMAIN e = DOMAIN s
                /\ \A k \in DOMAIN s : e[k] = OrderNode(s, e, k)
                /\ PostOrder(s) = e[Len(s)]
<1> DEFINE n == Len(s)
           Upto(e, m) == e = [k \in 1 .. m |-> OrderNode(s, e, k)]
           T == {m \in 0 .. n : \E e : Upto(e, m)}
<1>1. n \in Nat /\ DOMAIN s = 1 .. n
  BY DEF IsStatement
<1>2. 0 \in T
  <2> DEFINE e == [k \in 1 .. 0 |-> k]
  <2>1. e = [k \in 1 .. 0 |-> OrderNode(s, e, k)]
    <3>1. 1 .. 0 = {}
      OBVIOUS
    <3> QED
      BY <3>1, Zenon
  <2>2. Upto(e, 0) /\ 0 \in 0 .. n
    BY <1>1, <2>1
  <2> HIDE DEF e, n, Upto
  <2> QED
    BY <2>2
<1>3. ASSUME NEW m \in 0 .. n - 1, m \in T
      PROVE  m + 1 \in T
  <2>1. PICK e : Upto(e, m)
    BY <1>3
  <2> DEFINE l == m + 1
             last == OrderNode(s, e, l)
             g == [k \in 1 .. l |-> IF k = l THEN last ELSE e[k]]
  <2>2. l \in Nat /\ l \in 0 .. n /\ m = l - 1 /\ 1 .. l \subseteq DOMAIN s
    BY <1>1
  <2>3. \A k \in 1 .. m : e[k] = OrderNode(s, e, k)
    BY <2>1, Zenon
  <2> HIDE DEF l, last
  <2>4. ASSUME NEW k \in 1 .. l
        PROVE  g[k] = OrderNode(s, g, k)
    <3>1. k \in DOMAIN s /\ \A j \in 1 .. k - 1 : g[j] = e[j]
      BY <2>2
    <3> HIDE DEF g
    <3>2. OrderNode(s, g, k) = OrderNode(s, e, k)
      BY <3>1, OrderSame
    <3>3. CASE k = l
      BY <3>2, <3>3 DEF g, last
    <3>4. CASE k # l
      <4>1. k \in 1 .. m
        BY <2>2, <3>4
      <4> QED
        BY <2>3, <3>2, <3>4, <4>1 DEF g
    <3> QED
      BY <3>3, <3>4
  <2>5. g = [k \in 1 .. l |-> g[k]]
    OBVIOUS
  <2> HIDE DEF g
  <2>6. Upto(g, l)
    BY <2>4, <2>5
  <2> HIDE DEF n, Upto
  <2>7. l \in T
    BY <2>2, <2>6
  <2> QED
    BY <2>7 DEF l
<1> HIDE DEF T
<1>4. n \in T
  <2>1. \A m \in 0 .. n : m \in T
    BY <1>1, <1>2, <1>3, PrefixInduction
  <2> QED
    BY <1>1, <2>1
<1> DEFINE Ordered(e) == e = [k \in DOMAIN s |-> OrderNode(s, e, k)]
           order == CHOOSE e : Ordered(e)
<1>5. Ordered(order)
  <2>1. \E e : Upto(e, n)
    BY <1>4 DEF T
  <2>2. \E e : Ordered(e)
    BY <1>1, <2>1
  <2> HIDE DEF Ordered
  <2> QED
    BY <2>2
<1>6. PostOrder(s) = order[n]
  BY DEF PostOrder, OrderNode
<1> HIDE DEF order
<1>7. DOMAIN order = DOMAIN s /\ \A k \in DOMAIN s : order[k] = OrderNode(s, order, k)
  <2>1. order = [k \in DOMAIN s |-> OrderNode(s, order, k)]
    BY <1>5
  <2> QED
    BY <2>1, Zenon
<1> QED
  BY <1>6, <1>7

\* The calls of a node's operands and its own put the node on top.
LEMMA NodeLeads ==
  ASSUME NEW s, IsStatement(s), NEW k \in DOMAIN s, NEW e,
         \A j \in 1 .. k - 1 : /\ e[j] \in Seq(DOMAIN s)
                               /\ \A q \in Seq(DOMAIN s) : Leads(s, q, e[j], Append(q, j)),
         NEW p \in Seq(DOMAIN s)
  PROVE  /\ OrderNode(s, e, k) \in Seq(DOMAIN s)
         /\ Leads(s, p, OrderNode(s, e, k), Append(p, k))
<1> DEFINE x == s[k].children[1]
           y == s[k].children[2]
           N == DOMAIN s
<1>1. /\ k \in N /\ <<k>> \in Seq(N) /\ Append(p, k) \in Seq(N)
      /\ 1 .. k - 1 \subseteq N
  BY NodeIs
<1>2. CASE s[k].op \in {"AND", "OR"}
  <2>1. x \in 1 .. k - 1 /\ y \in 1 .. k - 1
    BY <1>2, NodeIs
  <2> DEFINE q == Append(p, x)
             r == Append(q, y)
             first == e[x]
             second == e[y]
  <2>2. x \in N /\ y \in N /\ first \in Seq(N) /\ second \in Seq(N)
    BY <1>1, <2>1
  <2>3. q \in Seq(N) /\ r \in Seq(N)
    BY <2>2
  <2>4. Leads(s, p, first, q) /\ Leads(s, q, second, r)
    BY <2>1, <2>3
  <2>5. Reduces(s, r, k, Append(p, k))
    <3>1. /\ Len(r) = Len(p) + 2 /\ Len(r) \in Nat /\ Len(p) \in Nat
          /\ r[Len(p) + 1] = x /\ r[Len(p) + 2] = y
          /\ \A j \in 1 .. Len(p) : r[j] = p[j]
      BY <2>2, <2>3
    <3>2. SubSeq(r, 1, Len(r) - 2) = p
      <4> HIDE DEF r
      <4> QED
        BY <2>3, <3>1
    <3> HIDE DEF r, x, y
    <3>3. Len(r) >= 2 /\ r[Len(r) - 1] = x /\ r[Len(r)] = y
      BY <3>1
    <3> QED
      BY <1>2, <3>2, <3>3 DEF Reduces, x, y
  <2>6. OrderNode(s, e, k) = first \o second \o <<k>>
    BY <1>2 DEF OrderNode
  <2> HIDE DEF q, r, first, second, N
  <2> DEFINE both == first \o second
  <2>7. both \in Seq(N)
    BY <2>2
  <2>8. Leads(s, p, both, r)
    BY <2>2, <2>4, LeadsConcat DEF N
  <2> HIDE DEF both
  <2>9. Leads(s, r, <<k>>, Append(p, k))
    BY <1>1, <2>3, <2>5, LeadsOne DEF N
  <2>10. Leads(s, p, both \o <<k>>, Append(p, k))
    BY <1>1, <2>7, <2>8, <2>9, LeadsConcat DEF N
  <2>11. both \o <<k>> \in Seq(N)
    BY <1>1, <2>7
  <2> QED
    BY <2>6, <2>10, <2>11 DEF both, N
<1>3. CASE s[k].op = "NOT"
  <2>1. x \in 1 .. k - 1
    BY <1>3, NodeIs
  <2> DEFINE q == Append(p, x)
             first == e[x]
  <2>2. x \in N /\ first \in Seq(N)
    BY <1>1, <2>1
  <2>3. q \in Seq(N)
    BY <2>2
  <2>4. Leads(s, p, first, q)
    BY <2>1
  <2>5. Reduces(s, q, k, Append(p, k))
    <3>1. /\ Len(q) = Len(p) + 1 /\ Len(q) \in Nat /\ Len(p) \in Nat
          /\ q[Len(p) + 1] = x
          /\ \A j \in 1 .. Len(p) : q[j] = p[j]
      BY <2>2, <2>3
    <3>2. SubSeq(q, 1, Len(q) - 1) = p
      <4> HIDE DEF q
      <4> QED
        BY <2>3, <3>1
    <3> HIDE DEF q, x
    <3>3. Len(q) >= 1 /\ q[Len(q)] = x
      BY <3>1
    <3> QED
      BY <1>3, <3>2, <3>3 DEF Reduces, x
  <2>6. OrderNode(s, e, k) = first \o <<k>>
    BY <1>3 DEF OrderNode
  <2> HIDE DEF q, first, N
  <2>7. Leads(s, q, <<k>>, Append(p, k))
    BY <1>1, <2>3, <2>5, LeadsOne DEF N
  <2>8. Leads(s, p, first \o <<k>>, Append(p, k))
    BY <1>1, <2>2, <2>4, <2>7, LeadsConcat DEF N
  <2>9. first \o <<k>> \in Seq(N)
    BY <1>1, <2>2
  <2> QED
    BY <2>6, <2>8, <2>9 DEF N
<1>4. CASE s[k].op \notin {"AND", "OR", "NOT"}
  <2>1. OrderNode(s, e, k) = <<k>>
    BY <1>4 DEF OrderNode
  <2>2. Reduces(s, p, k, Append(p, k))
    BY <1>4 DEF Reduces
  <2> HIDE DEF N
  <2>3. Leads(s, p, <<k>>, Append(p, k))
    BY <1>1, <2>2, LeadsOne DEF N
  <2> QED
    BY <1>1, <2>1, <2>3 DEF N
<1> QED
  BY <1>2, <1>3, <1>4

\* The whole order puts the statement on top of nothing.
LEMMA OrderLeads ==
  ASSUME NEW s, IsStatement(s)
  PROVE  /\ PostOrder(s) \in Seq(DOMAIN s)
         /\ Leads(s, <<>>, PostOrder(s), <<Len(s)>>)
<1>1. PICK e : /\ \A k \in DOMAIN s : e[k] = OrderNode(s, e, k)
               /\ PostOrder(s) = e[Len(s)]
  BY OrderExists
<1> DEFINE n == Len(s)
           Good(k) == /\ e[k] \in Seq(DOMAIN s)
                      /\ \A q \in Seq(DOMAIN s) : Leads(s, q, e[k], Append(q, k))
           T == {m \in 0 .. n : \A k \in 1 .. m : Good(k)}
<1>2. n \in Nat \ {0} /\ DOMAIN s = 1 .. n
  BY DEF IsStatement
<1>3. 0 \in T
  BY <1>2
<1>4. ASSUME NEW m \in 0 .. n - 1, m \in T
      PROVE  m + 1 \in T
  <2> DEFINE l == m + 1
  <2>1. l \in 0 .. n /\ l \in DOMAIN s /\ \A j \in 1 .. l - 1 : Good(j)
    BY <1>2, <1>4
  <2>2. \A j \in 1 .. l : j = l \/ j \in 1 .. l - 1
    BY <1>2
  <2> HIDE DEF l
  <2>3. Good(l)
    <3>1. ASSUME NEW q \in Seq(DOMAIN s)
          PROVE  OrderNode(s, e, l) \in Seq(DOMAIN s) /\ Leads(s, q, OrderNode(s, e, l), Append(q, l))
      BY <2>1, NodeLeads
    <3>2. <<>> \in Seq(DOMAIN s)
      OBVIOUS
    <3> QED
      BY <1>1, <2>1, <3>1, <3>2
  <2> HIDE DEF Good
  <2>4. l \in T
    BY <2>1, <2>2, <2>3
  <2> QED
    BY <2>4 DEF l
<1>5. Good(n)
  <2> HIDE DEF T
  <2>1. \A m \in 0 .. n : m \in T
    BY <1>2, <1>3, <1>4, PrefixInduction
  <2>2. n \in T
    BY <1>2, <2>1
  <2> QED
    BY <1>2, <2>2 DEF T
<1>6. <<>> \in Seq(DOMAIN s) /\ Append(<<>>, n) = <<n>>
  OBVIOUS
<1> QED
  BY <1>1, <1>5, <1>6

-----------------------------------------------------------------------------
(* The kernels                                                             *)

\* The rows of a byte.
LEMMA HasBitIs ==
  ASSUME NEW bitmap, NEW b \in Nat, NEW bit \in Bits
  PROVE  /\ HasBit(bitmap, RowOfBit(b, bit)) <=> bit \in bitmap[b + 1]
         /\ RowOfBit(b, bit) \in Nat
BY RowOfBitOf DEF HasBit

\* The bytes of a bitmap.
LEMMA ByteOfBits ==
  ASSUME NEW n \in Nat, NEW bitmap, IsBits(bitmap, n), NEW b \in 0 .. BytesFor(n) - 1
  PROVE  b \in Nat /\ b + 1 \in 1 .. Len(bitmap) /\ bitmap[b + 1] \in SUBSET Bits
<1>1. BytesFor(n) \in Nat /\ bitmap \in Seq(SUBSET Bits) /\ Len(bitmap) = BytesFor(n)
  BY BytesOf DEF IsBits
<1>2. b \in Nat /\ b + 1 \in 1 .. Len(bitmap)
  BY <1>1
<1> QED
  BY <1>1, <1>2, ElementOfSeq

\* A byte of an exact bitmap, ...
LEMMA ExactByte ==
  ASSUME NEW s, NEW k, NEW v \in Seq(Record), NEW bitmap, ExactBits(bitmap, s, k, v), NEW b \in Nat
  PROVE  ByteAfter(s, k, v, b, bitmap[b + 1])
<1> SUFFICES ASSUME NEW bit \in Bits, RowOfBit(b, bit) < Len(v)
             PROVE  bit \in bitmap[b + 1] <=> k \in Holding(s, v[RowOfBit(b, bit) + 1])
  BY DEF ByteAfter
<1> DEFINE r == RowOfBit(b, bit)
<1>1. r \in Nat /\ (HasBit(bitmap, r) <=> bit \in bitmap[b + 1]) /\ Len(v) \in Nat
  BY HasBitIs, LenProperties
<1>2. r \in 0 .. Len(v) - 1
  BY <1>1
<1> QED
  BY <1>1, <1>2 DEF ExactBits

\* ... and a bitmap of exact bytes.
LEMMA BytesExact ==
  ASSUME NEW s, NEW k, NEW v \in Seq(Record), NEW bitmap, IsBits(bitmap, Len(v)),
         \A b \in 0 .. Len(bitmap) - 1 : ByteAfter(s, k, v, b, bitmap[b + 1])
  PROVE  ExactBits(bitmap, s, k, v)
<1>1. Len(v) \in Nat /\ Len(bitmap) = BytesFor(Len(v))
  BY LenProperties DEF IsBits
<1>2. ASSUME NEW r \in 0 .. Len(v) - 1
      PROVE  HasBit(bitmap, r) <=> k \in Holding(s, v[r + 1])
  <2> DEFINE b == r \div RowsPerByte
             bit == r % RowsPerByte
  <2>1. b \in 0 .. Len(bitmap) - 1 /\ bit \in Bits /\ RowOfBit(b, bit) = r /\ r < Len(v)
    BY <1>1, BitOfRow
  <2>2. HasBit(bitmap, r) <=> bit \in bitmap[b + 1]
    BY DEF HasBit
  <2> HIDE DEF b, bit
  <2>3. bit \in bitmap[b + 1] <=> k \in Holding(s, v[RowOfBit(b, bit) + 1])
    BY <2>1 DEF ByteAfter
  <2> QED
    BY <2>1, <2>2, <2>3
<1> QED
  BY <1>2 DEF ExactBits

\* The table whose columns the kernels read, the statement, and the operands
\* for its nodes p.
Evaluates(s, v, p) ==
  /\ IsStatement(s) /\ v \in Seq(Record) /\ tableCache = Parse(v)
  /\ p \in Seq(DOMAIN s)
  /\ operands \in Seq(Seq(SUBSET Bits)) /\ Len(operands) = Len(p)
  /\ \A m \in DOMAIN p : ExactBits(operands[m], s, p[m], v)

\* The bits of a column that is not NULL there.
LEMMA ColumnBits ==
  ASSUME NEW v \in Seq(Record), NEW c \in ColumnSet, NEW b \in Nat, NEW bit \in Bits,
         RowOfBit(b, bit) < Len(v), tableCache = Parse(v)
  PROVE  /\ bit \in tableCache.columns[c].bitmap[b + 1] <=> v[RowOfBit(b, bit) + 1][c] # Null
         /\ v[RowOfBit(b, bit) + 1][c] # Null =>
              Get(tableCache, c, RowOfBit(b, bit)) = v[RowOfBit(b, bit) + 1][c]
<1> DEFINE r == RowOfBit(b, bit)
           bitmap == Parse(v).columns[c].bitmap
<1>1. r \in Nat /\ (HasBit(bitmap, r) <=> bit \in bitmap[b + 1]) /\ Len(v) \in Nat
  BY HasBitIs, LenProperties
<1>2. r \in 0 .. Len(v) - 1
  BY <1>1
<1> HIDE DEF r
<1>3. /\ HasBit(bitmap, r) <=> v[r + 1][c] # Null
      /\ v[r + 1][c] # Null => Get(Parse(v), c, r) = v[r + 1][c]
  BY <1>2, Parsed
<1> QED
  BY <1>1, <1>3 DEF r

\* The topmost operands of a node.
LEMMA TopOperands ==
  ASSUME NEW s, NEW v, NEW p, Evaluates(s, v, p), NEW k, NEW q, Reduces(s, p, k, q)
  PROVE  /\ s[k].op \in {"AND", "OR"} =>
              /\ ExactBits(operands[Len(operands) - 1], s, s[k].children[1], v)
              /\ ExactBits(Last(operands), s, s[k].children[2], v)
         /\ s[k].op = "NOT" => ExactBits(Last(operands), s, s[k].children[1], v)
<1>1. Last(operands) = operands[Len(operands)] /\ Len(p) \in Nat /\ DOMAIN p = 1 .. Len(p)
  BY LenProperties DEF Last, Evaluates
<1>2. \A m \in 1 .. Len(p) : ExactBits(operands[m], s, p[m], v)
  BY <1>1 DEF Evaluates
<1>3. Len(operands) = Len(p)
  BY DEF Evaluates
<1>4. CASE s[k].op \in {"AND", "OR"}
  <2>1. /\ Len(p) - 1 \in 1 .. Len(p) /\ Len(p) \in 1 .. Len(p)
        /\ p[Len(p) - 1] = s[k].children[1] /\ p[Len(p)] = s[k].children[2]
    BY <1>1, <1>4 DEF Reduces
  <2> QED
    BY <1>1, <1>2, <1>3, <1>4, <2>1
<1>5. CASE s[k].op = "NOT"
  <2>1. Len(p) \in 1 .. Len(p) /\ p[Len(p)] = s[k].children[1]
    BY <1>1, <1>5 DEF Reduces
  <2> QED
    BY <1>1, <1>2, <1>3, <1>5, <2>1
<1> QED
  BY <1>4, <1>5

\* What is in ret when a kernel begins, ...
LEMMA InitialOutIs ==
  ASSUME NEW s, NEW v, NEW p, Evaluates(s, v, p), NEW k \in DOMAIN s, NEW q, Reduces(s, p, k, q),
         s[k].op # "IS_NOT_NULL"
  PROVE  /\ IsBits(InitialOut(s[k]), Len(v))
         /\ \A b \in Nat : b < Len(InitialOut(s[k])) =>
              ByteBefore(s, k, v, b, InitialOut(s[k])[b + 1])
<1>1. /\ v \in Seq(Record) /\ tableCache = Parse(v) /\ tableCache.rows = Len(v) /\ Len(v) \in Nat
      /\ IsStatement(s) /\ BytesFor(Len(v)) \in Nat
  BY Parsed, LenProperties, BytesOf DEF Evaluates
<1>2. \A record, j : j \in DOMAIN s => (j \in Holding(s, record) <=> NodeHolds(s, record, Holding(s, record), j))
  BY <1>1, HoldingIs DEF AreHolding
<1>3. CASE s[k].op = "NOT"
  <2>1. ExactBits(Last(operands), s, s[k].children[1], v)
    BY <1>3, TopOperands
  <2>2. InitialOut(s[k]) = Last(operands)
    BY <1>3 DEF InitialOut
  <2>3. ASSUME NEW b \in Nat
        PROVE  ByteBefore(s, k, v, b, Last(operands)[b + 1])
    <3>1. ByteAfter(s, s[k].children[1], v, b, Last(operands)[b + 1])
      BY <1>1, <2>1, ExactByte
    <3>2. \A record : k \in Holding(s, record) <=> s[k].children[1] \notin Holding(s, record)
      BY <1>2, <1>3 DEF NodeHolds
    <3> QED
      BY <1>3, <3>1, <3>2 DEF ByteBefore, ByteAfter
  <2> QED
    BY <2>1, <2>2, <2>3 DEF ExactBits
<1>4. CASE s[k].op = "IS_NULL"
  <2> DEFINE c == s[k].column
             bitmap == tableCache.columns[c].bitmap
  <2>1. c \in ColumnSet
    BY <1>1, <1>4, NodeIs
  <2>2. IsBits(bitmap, Len(v))
    BY <1>1, <2>1, Parsed
  <2>3. InitialOut(s[k]) = bitmap
    BY <1>4 DEF InitialOut
  <2>4. ASSUME NEW b \in Nat
        PROVE  ByteBefore(s, k, v, b, bitmap[b + 1])
    <3>1. \A bit \in Bits : RowOfBit(b, bit) < Len(v) =>
            (bit \in bitmap[b + 1] <=> v[RowOfBit(b, bit) + 1][c] # Null)
      BY <1>1, <2>1, ColumnBits
    <3>2. \A record : k \in Holding(s, record) <=> record[c] = Null
      BY <1>2, <1>4 DEF NodeHolds
    <3> QED
      BY <1>4, <3>1, <3>2 DEF ByteBefore
  <2> QED
    BY <2>2, <2>3, <2>4
<1>5. CASE s[k].op \notin {"NOT", "IS_NULL"}
  <2> DEFINE n == BytesFor(Len(v))
             none == [b \in 1 .. n |-> {}]
  <2>1. InitialOut(s[k]) = none
    BY <1>1, <1>5 DEF InitialOut
  <2>2. n \in Nat
    BY <1>1
  <2> HIDE DEF n
  <2>3. none \in Seq(SUBSET Bits) /\ Len(none) = n /\ \A b \in Nat : b < n => none[b + 1] = {}
    BY <2>2
  <2> HIDE DEF none
  <2>4. IsBits(none, Len(v))
    BY <2>3 DEF IsBits, n
  <2>5. ASSUME NEW b \in Nat, b < Len(none)
        PROVE  ByteBefore(s, k, v, b, none[b + 1])
    BY <1>5, <2>3, <2>5 DEF ByteBefore
  <2> QED
    BY <2>1, <2>4, <2>5
<1> QED
  BY <1>3, <1>4, <1>5

\* ... and what it makes of a byte.
LEMMA KernelByteIs ==
  ASSUME NEW s, NEW v, NEW p, Evaluates(s, v, p), NEW k \in DOMAIN s, NEW q, Reduces(s, p, k, q),
         s[k].op # "IS_NOT_NULL", NEW b \in 0 .. BytesFor(Len(v)) - 1,
         NEW old \in SUBSET Bits, ByteBefore(s, k, v, b, old)
  PROVE  /\ KernelByte(s[k], b, old) \in SUBSET Bits
         /\ ByteAfter(s, k, v, b, KernelByte(s[k], b, old))
<1>1. /\ v \in Seq(Record) /\ tableCache = Parse(v) /\ tableCache.rows = Len(v) /\ Len(v) \in Nat
      /\ IsStatement(s) /\ BytesFor(Len(v)) \in Nat /\ b \in Nat
  <2>1. v \in Seq(Record) /\ tableCache = Parse(v) /\ IsStatement(s) /\ Len(v) \in Nat
    BY LenProperties DEF Evaluates
  <2>2. BytesFor(Len(v)) \in Nat
    BY <2>1, BytesOf
  <2>3. tableCache.rows = Len(v)
    BY <2>1, Parsed
  <2> QED
    BY <2>1, <2>2, <2>3
<1>2. \A record : k \in Holding(s, record) <=> NodeHolds(s, record, Holding(s, record), k)
  BY <1>1, HoldingIs DEF AreHolding
<1>3. CASE s[k].op \in {"NOT", "IS_NULL"}
  <2>1. KernelByte(s[k], b, old) = Bits \ old
    BY <1>3 DEF KernelByte
  <2>2. \A bit \in Bits : RowOfBit(b, bit) < Len(v) =>
          (bit \in old <=> k \notin Holding(s, v[RowOfBit(b, bit) + 1]))
    BY <1>3 DEF ByteBefore
  <2> QED
    BY <2>1, <2>2 DEF ByteAfter
<1>4. CASE s[k].op \in {"AND", "OR"}
  <2> DEFINE x == s[k].children[1]
             y == s[k].children[2]
             first == operands[Len(operands) - 1]
             second == Last(operands)
  <2>1. ExactBits(first, s, x, v) /\ ExactBits(second, s, y, v)
    BY <1>4, TopOperands
  <2>2. ByteAfter(s, x, v, b, first[b + 1]) /\ ByteAfter(s, y, v, b, second[b + 1])
    BY <1>1, <2>1, ExactByte
  <2>3. first[b + 1] \in SUBSET Bits /\ second[b + 1] \in SUBSET Bits
    BY <1>1, <2>1, ByteOfBits DEF ExactBits
  <2>4. CASE s[k].op = "AND"
    <3>1. KernelByte(s[k], b, old) = first[b + 1] \intersect second[b + 1]
      BY <2>4 DEF KernelByte
    <3>2. \A record : k \in Holding(s, record) <=> x \in Holding(s, record) /\ y \in Holding(s, record)
      BY <1>2, <2>4 DEF NodeHolds
    <3> QED
      BY <2>2, <2>3, <3>1, <3>2 DEF ByteAfter
  <2>5. CASE s[k].op = "OR"
    <3>1. KernelByte(s[k], b, old) = first[b + 1] \union second[b + 1]
      BY <2>5 DEF KernelByte
    <3>2. \A record : k \in Holding(s, record) <=> x \in Holding(s, record) \/ y \in Holding(s, record)
      BY <1>2, <2>5 DEF NodeHolds
    <3> QED
      BY <2>2, <2>3, <3>1, <3>2 DEF ByteAfter
  <2> QED
    BY <1>4, <2>4, <2>5
<1>5. CASE s[k].op \notin {"NOT", "IS_NULL", "AND", "OR"}
  <2> DEFINE c == s[k].column
             bitmap == tableCache.columns[c].bitmap
             Hit(bit) == Matches(s[k].op, Get(tableCache, c, RowOfBit(b, bit)), Narrowed(s[k]))
  <2>1. c \in ColumnSet
    BY <1>1, <1>5, NodeIs
  <2>2. old = {}
    BY <1>5 DEF ByteBefore
  <2>3. KernelByte(s[k], b, old) = PassingBits(s[k], b)
    BY <1>5, <2>2 DEF KernelByte
  <2>4. PassingBits(s[k], b) = {bit \in bitmap[b + 1] : RowOfBit(b, bit) < Len(v) /\ Hit(bit)}
    BY <1>1 DEF PassingBits, Narrowed, RowOfBit
  <2>5. bitmap[b + 1] \in SUBSET Bits
    BY <1>1, <2>1, Parsed, ByteOfBits
  <2>6. \A record : k \in Holding(s, record)
                      <=> record[c] # Null /\ Matches(s[k].op, record[c], Narrowed(s[k]))
    BY <1>2, <1>5 DEF NodeHolds
  <2>7. ASSUME NEW bit \in Bits, RowOfBit(b, bit) < Len(v)
        PROVE  bit \in PassingBits(s[k], b) <=> k \in Holding(s, v[RowOfBit(b, bit) + 1])
    <3> DEFINE record == v[RowOfBit(b, bit) + 1]
    <3>1. /\ bit \in bitmap[b + 1] <=> record[c] # Null
          /\ record[c] # Null => Get(tableCache, c, RowOfBit(b, bit)) = record[c]
      BY <1>1, <2>1, <2>7, ColumnBits
    <3>2. bit \in PassingBits(s[k], b) <=> bit \in bitmap[b + 1] /\ Hit(bit)
      BY <2>4, <2>7
    <3>3. k \in Holding(s, record)
            <=> record[c] # Null /\ Matches(s[k].op, record[c], Narrowed(s[k]))
      BY <2>6, Zenon
    <3> HIDE DEF record, bitmap, c
    <3>4. CASE record[c] # Null
      <4>1. Hit(bit) <=> Matches(s[k].op, record[c], Narrowed(s[k]))
        BY <3>1, <3>4
      <4> HIDE DEF Hit
      <4> QED
        BY <3>1, <3>2, <3>3, <3>4, <4>1, Zenon DEF record
    <3>5. CASE record[c] = Null
      BY <3>1, <3>2, <3>3, <3>5 DEF record
    <3> QED
      BY <3>4, <3>5
  <2>8. PassingBits(s[k], b) \in SUBSET Bits
    BY <2>4, <2>5
  <2> QED
    BY <2>3, <2>7, <2>8 DEF ByteAfter
<1> QED
  BY <1>3, <1>4, <1>5

\* The bitmap of a NULL test that needs no kernel.
LEMMA NotNullIs ==
  ASSUME NEW s, NEW v, NEW p, Evaluates(s, v, p), NEW k \in DOMAIN s, s[k].op = "IS_NOT_NULL"
  PROVE  ExactBits(tableCache.columns[s[k].column].bitmap, s, k, v)
<1>1. v \in Seq(Record) /\ tableCache = Parse(v) /\ IsStatement(s)
  BY DEF Evaluates
<1>2. s[k].column \in ColumnSet
  BY <1>1, NodeIs
<1>3. \A record : k \in Holding(s, record) <=> record[s[k].column] # Null
  BY <1>1, HoldingIs DEF AreHolding, NodeHolds
<1> QED
  BY <1>1, <1>2, <1>3, Parsed DEF ExactBits

\* The operands when a node's eval has returned.
LEMMA OperandsReduced ==
  ASSUME NEW s, NEW v, NEW p, Evaluates(s, v, p), NEW k \in DOMAIN s,
         NEW q \in Seq(DOMAIN s), Reduces(s, p, k, q),
         NEW bitmap, ExactBits(bitmap, s, k, v),
         NEW new, new = Append(SubSeq(operands, 1, Len(operands) - Arity(s[k])), bitmap)
  PROVE  /\ new \in Seq(Seq(SUBSET Bits)) /\ Len(new) = Len(q)
         /\ \A m \in DOMAIN q : ExactBits(new[m], s, q[m], v)
<1> DEFINE a == Arity(s[k])
           n == Len(p) - a
           B == Seq(SUBSET Bits)
<1>1. /\ operands \in Seq(B) /\ Len(operands) = Len(p) /\ Len(p) \in Nat /\ DOMAIN p = 1 .. Len(p)
      /\ p \in Seq(DOMAIN s)
      /\ \A m \in 1 .. Len(p) : ExactBits(operands[m], s, p[m], v)
      /\ bitmap \in B
  BY LenProperties DEF Evaluates, ExactBits, IsBits
<1>2. n \in 0 .. Len(p) /\ q = Append(SubSeq(p, 1, n), k)
  <2>1. CASE s[k].op \in {"AND", "OR"}
    BY <1>1, <2>1 DEF Arity, Reduces
  <2>2. CASE s[k].op = "NOT"
    BY <1>1, <2>2 DEF Arity, Reduces
  <2>3. CASE s[k].op \notin {"AND", "OR", "NOT"}
    BY <1>1, <2>3, SubSeqFull DEF Arity, Reduces
  <2> QED
    BY <2>1, <2>2, <2>3
<1> HIDE DEF n, a, B
<1>3. /\ SubSeq(p, 1, n) \in Seq(DOMAIN s) /\ Len(SubSeq(p, 1, n)) = n
      /\ \A m \in 1 .. n : SubSeq(p, 1, n)[m] = p[m]
  BY <1>1, <1>2
<1>4. /\ SubSeq(operands, 1, n) \in Seq(B) /\ Len(SubSeq(operands, 1, n)) = n
      /\ \A m \in 1 .. n : SubSeq(operands, 1, n)[m] = operands[m]
  BY <1>1, <1>2
<1>5. new = Append(SubSeq(operands, 1, n), bitmap)
  BY <1>1 DEF n, a
<1>6. /\ new \in Seq(B) /\ Len(new) = n + 1 /\ new[n + 1] = bitmap
      /\ \A m \in 1 .. n : new[m] = operands[m]
  <2> DEFINE front == SubSeq(operands, 1, n)
  <2>1. front \in Seq(B) /\ Len(front) = n /\ \A m \in 1 .. n : front[m] = operands[m]
    BY <1>4
  <2>2. new = Append(front, bitmap)
    BY <1>5
  <2>3. bitmap \in B /\ n \in Nat
    BY <1>1, <1>2
  <2> HIDE DEF front
  <2>4. /\ Append(front, bitmap) \in Seq(B) /\ Len(Append(front, bitmap)) = Len(front) + 1
        /\ \A m \in 1 .. Len(front) : Append(front, bitmap)[m] = front[m]
        /\ Append(front, bitmap)[Len(front) + 1] = bitmap
    BY ONLY <2>1, <2>3, AppendProperties
  <2> QED
    BY <2>1, <2>2, <2>4
<1>7. /\ Len(q) = n + 1 /\ DOMAIN q = 1 .. n + 1 /\ q[n + 1] = k
      /\ \A m \in 1 .. n : q[m] = p[m]
  BY <1>2, <1>3, AppendProperties
<1>8. ASSUME NEW m \in 1 .. n + 1
      PROVE  ExactBits(new[m], s, q[m], v)
  <2>1. CASE m = n + 1
    BY <1>6, <1>7, <2>1
  <2>2. CASE m # n + 1
    <3>1. m \in 1 .. n /\ m \in 1 .. Len(p)
      BY <1>1, <1>2, <2>2
    <3> QED
      BY <1>1, <1>6, <1>7, <3>1
  <2> QED
    BY <2>1, <2>2
<1> QED
  BY <1>6, <1>7, <1>8 DEF B

-----------------------------------------------------------------------------
(* The rows that pass                                                      *)

KeptRows == INSTANCE Counting WITH Op <- AddKept
BitRows == INSTANCE Counting WITH Op <- AddRow
PassingRows == INSTANCE Counting WITH Op <- AddPassing

\* The rows of v that pass, of the first k.
WithFilter(f, v) == [j \in 1 .. Len(v) |-> <<f, v[j]>>]
KeptOf(f, v, k) == FoldLeft(AddKept, <<>>, SubSeq(WithFilter(f, v), 1, k))

\* The folds that collect rows, one row at a time: those that pass, ...
LEMMA KeptFolds ==
  ASSUME NEW S, NEW t \in Seq(S)
  PROVE  /\ FoldLeft(AddKept, <<>>, SubSeq(t, 1, 0)) = <<>>
         /\ \A k \in 0 .. Len(t) - 1 :
              FoldLeft(AddKept, <<>>, SubSeq(t, 1, k + 1))
                = AddKept(FoldLeft(AddKept, <<>>, SubSeq(t, 1, k)), t[k + 1])
<1>1. \A z : FoldLeft(AddKept, <<>>, z) = KeptRows!FoldLeft(AddKept, <<>>, z)
  BY DEF FoldLeft, MapThenFoldSet, KeptRows!FoldLeft, KeptRows!MapThenFoldSet, Max, KeptRows!Max
<1>2. /\ KeptRows!FoldLeft(AddKept, <<>>, SubSeq(t, 1, 0)) = <<>>
      /\ \A k \in 0 .. Len(t) - 1 :
           KeptRows!FoldLeft(AddKept, <<>>, SubSeq(t, 1, k + 1))
             = AddKept(KeptRows!FoldLeft(AddKept, <<>>, SubSeq(t, 1, k)), t[k + 1])
  BY KeptRows!FoldLeftPrefix
<1> QED
  BY <1>1, <1>2, Zenon

\* ... those with a bit, ...
LEMMA RowFolds ==
  ASSUME NEW S, NEW t \in Seq(S)
  PROVE  /\ FoldLeft(AddRow, <<>>, SubSeq(t, 1, 0)) = <<>>
         /\ \A k \in 0 .. Len(t) - 1 :
              FoldLeft(AddRow, <<>>, SubSeq(t, 1, k + 1))
                = AddRow(FoldLeft(AddRow, <<>>, SubSeq(t, 1, k)), t[k + 1])
<1>1. \A z : FoldLeft(AddRow, <<>>, z) = BitRows!FoldLeft(AddRow, <<>>, z)
  BY DEF FoldLeft, MapThenFoldSet, BitRows!FoldLeft, BitRows!MapThenFoldSet, Max, BitRows!Max
<1>2. /\ BitRows!FoldLeft(AddRow, <<>>, SubSeq(t, 1, 0)) = <<>>
      /\ \A k \in 0 .. Len(t) - 1 :
           BitRows!FoldLeft(AddRow, <<>>, SubSeq(t, 1, k + 1))
             = AddRow(BitRows!FoldLeft(AddRow, <<>>, SubSeq(t, 1, k)), t[k + 1])
  BY BitRows!FoldLeftPrefix
<1> QED
  BY <1>1, <1>2, Zenon

\* ... and those the evaluator on records lets pass.
LEMMA PassingFolds ==
  ASSUME NEW S, NEW t \in Seq(S)
  PROVE  /\ FoldLeft(AddPassing, <<>>, SubSeq(t, 1, 0)) = <<>>
         /\ \A k \in 0 .. Len(t) - 1 :
              FoldLeft(AddPassing, <<>>, SubSeq(t, 1, k + 1))
                = AddPassing(FoldLeft(AddPassing, <<>>, SubSeq(t, 1, k)), t[k + 1])
<1>1. \A z : FoldLeft(AddPassing, <<>>, z) = PassingRows!FoldLeft(AddPassing, <<>>, z)
  BY DEF FoldLeft, MapThenFoldSet, PassingRows!FoldLeft, PassingRows!MapThenFoldSet, Max, PassingRows!Max
<1>2. /\ PassingRows!FoldLeft(AddPassing, <<>>, SubSeq(t, 1, 0)) = <<>>
      /\ \A k \in 0 .. Len(t) - 1 :
           PassingRows!FoldLeft(AddPassing, <<>>, SubSeq(t, 1, k + 1))
             = AddPassing(PassingRows!FoldLeft(AddPassing, <<>>, SubSeq(t, 1, k)), t[k + 1])
  BY PassingRows!FoldLeftPrefix
<1> QED
  BY <1>1, <1>2, Zenon

\* Of none, of one more, and of all.
LEMMA KeptSteps ==
  ASSUME NEW f, NEW v \in Seq(Record)
  PROVE  /\ KeptOf(f, v, 0) = <<>>
         /\ \A k \in 0 .. Len(v) - 1 :
              KeptOf(f, v, k + 1) = IF LetsPass(f, v[k + 1])
                                    THEN Append(KeptOf(f, v, k), v[k + 1])
                                    ELSE KeptOf(f, v, k)
         /\ Kept(f, v) = KeptOf(f, v, Len(v))
<1> DEFINE n == Len(v)
           w == WithFilter(f, v)
           S == {f} \X Record
<1>1. n \in Nat /\ \A k \in 1 .. n : v[k] \in Record
  BY LenProperties, ElementOfSeq
<1>2. w \in Seq(S) /\ Len(w) = n /\ \A k \in 1 .. n : w[k] = <<f, v[k]>>
  <2>1. w = [j \in 1 .. n |-> <<f, v[j]>>]
    BY DEF WithFilter
  <2> HIDE DEF w, n
  <2> QED
    BY <1>1, <2>1
<1> HIDE DEF w, S, n
<1>3. \A k : KeptOf(f, v, k) = FoldLeft(AddKept, <<>>, SubSeq(w, 1, k))
  BY Zenon DEF KeptOf, w
<1>4. /\ FoldLeft(AddKept, <<>>, SubSeq(w, 1, 0)) = <<>>
      /\ \A k \in 0 .. Len(w) - 1 :
           FoldLeft(AddKept, <<>>, SubSeq(w, 1, k + 1))
             = AddKept(FoldLeft(AddKept, <<>>, SubSeq(w, 1, k)), w[k + 1])
  <2>1. w \in Seq(S)
    BY <1>2
  <2> QED
    BY ONLY <2>1, KeptFolds
<1>6. ASSUME NEW k \in 0 .. n - 1
      PROVE  KeptOf(f, v, k + 1) = IF LetsPass(f, v[k + 1])
                                   THEN Append(KeptOf(f, v, k), v[k + 1])
                                   ELSE KeptOf(f, v, k)
  <2>1. KeptOf(f, v, k + 1) = AddKept(KeptOf(f, v, k), w[k + 1])
    BY <1>2, <1>3, <1>4
  <2>2. w[k + 1] = <<f, v[k + 1]>>
    BY <1>1, <1>2
  <2> QED
    BY <2>1, <2>2 DEF AddKept
<1>7. Kept(f, v) = KeptOf(f, v, n)
  <2>1. SubSeq(w, 1, Len(w)) = w
    BY <1>2, PrefixEnds
  <2>2. SubSeq(w, 1, n) = w
    BY <1>2, <2>1
  <2>3. KeptOf(f, v, n) = FoldLeft(AddKept, <<>>, w)
    BY <2>2, Zenon DEF KeptOf, w
  <2>4. Kept(f, v) = FoldLeft(AddKept, <<>>, w)
    BY Zenon DEF Kept, WithFilter, w
  <2> QED
    BY <2>3, <2>4, Zenon
<1> QED
  BY <1>3, <1>4, <1>6, <1>7 DEF n

\* They are records, and no more than there are.
LEMMA KeptSize ==
  ASSUME NEW f, NEW v \in Seq(Record)
  PROVE  /\ \A k \in 0 .. Len(v) : KeptOf(f, v, k) \in Seq(Record) /\ Len(KeptOf(f, v, k)) \in 0 .. k
         /\ Kept(f, v) \in Seq(Record) /\ Len(Kept(f, v)) \in 0 .. Len(v)
<1> DEFINE n == Len(v)
           Good(z, k) == z \in Seq(Record) /\ Len(z) \in 0 .. k
           T == {k \in 0 .. n : Good(KeptOf(f, v, k), k)}
<1>1. n \in Nat /\ \A k \in 1 .. n : v[k] \in Record
  BY LenProperties, ElementOfSeq
<1>2. 0 \in T
  <2>1. Good(<<>>, 0)
    OBVIOUS
  <2>2. KeptOf(f, v, 0) = <<>>
    BY KeptSteps
  <2> HIDE DEF Good, n
  <2> QED
    BY <1>1, <2>1, <2>2
<1>3. ASSUME NEW k \in 0 .. n - 1, k \in T
      PROVE  k + 1 \in T
  <2> DEFINE z == KeptOf(f, v, k)
             u == KeptOf(f, v, k + 1)
  <2>1. Good(z, k) /\ v[k + 1] \in Record /\ k \in Nat /\ k + 1 \in 0 .. n
    BY <1>1, <1>3
  <2>2. u = Append(z, v[k + 1]) \/ u = z
    BY KeptSteps
  <2> HIDE DEF z, u
  <2>3. Good(u, k + 1)
    BY <2>1, <2>2
  <2> HIDE DEF Good, n
  <2> QED
    BY <2>1, <2>3 DEF u
<1> HIDE DEF T
<1>4. \A k \in 0 .. n : k \in T
  BY <1>1, <1>2, <1>3, PrefixInduction
<1>5. n \in 0 .. n
  BY <1>1
<1> QED
  BY <1>4, <1>5, KeptSteps DEF T

\* Without a filter all pass.
LEMMA KeptAll ==
  ASSUME NEW v \in Seq(Record)
  PROVE  Kept(NoFilter, v) = v
<1> DEFINE n == Len(v)
           T == {k \in 0 .. n : KeptOf(NoFilter, v, k) = SubSeq(v, 1, k)}
<1>1. n \in Nat /\ SubSeq(v, 1, 0) = <<>> /\ SubSeq(v, 1, n) = v
  BY PrefixEnds
<1>2. 0 \in T
  <2>1. KeptOf(NoFilter, v, 0) = <<>>
    BY KeptSteps
  <2>2. 0 \in 0 .. n
    BY <1>1
  <2> HIDE DEF n
  <2> QED
    BY <1>1, <2>1, <2>2
<1>3. ASSUME NEW k \in 0 .. n - 1, k \in T
      PROVE  k + 1 \in T
  <2>1. k \in Nat /\ k < Len(v) /\ k + 1 \in 0 .. n
    BY <1>1
  <2>2. SubSeq(v, 1, k + 1) = Append(SubSeq(v, 1, k), v[k + 1])
    BY <2>1, PrefixGrows
  <2>3. KeptOf(NoFilter, v, k + 1) = Append(KeptOf(NoFilter, v, k), v[k + 1])
    BY KeptSteps DEF LetsPass
  <2>4. KeptOf(NoFilter, v, k) = SubSeq(v, 1, k)
    BY <1>3
  <2> HIDE DEF n
  <2> QED
    BY <2>1, <2>2, <2>3, <2>4
<1> HIDE DEF T
<1>4. \A k \in 0 .. n : k \in T
  BY <1>1, <1>2, <1>3, PrefixInduction
<1>5. n \in T
  BY <1>1, <1>4
<1>6. KeptOf(NoFilter, v, n) = v
  BY <1>1, <1>5 DEF T
<1> QED
  BY <1>6, KeptSteps

\* The evaluator on records lets the same rows pass.
LEMMA PassingIs ==
  ASSUME LiteralsFit, filter \in Filters \union {NoFilter}, file \in Files
  PROVE  Passing = Kept(filter, file)
<1> DEFINE n == Len(file)
           P(k) == FoldLeft(AddPassing, <<>>, SubSeq(file, 1, k))
           T == {k \in 0 .. n : P(k) = KeptOf(filter, file, k)}
<1>1. file \in Seq(Record)
  BY FilesAssumption
<1>2. n \in Nat /\ SubSeq(file, 1, n) = file
  BY <1>1, PrefixEnds
<1>5. P(0) = <<>> /\ \A k \in 0 .. n - 1 : P(k + 1) = AddPassing(P(k), file[k + 1])
  BY <1>1, PassingFolds
<1>6. Passing = P(n)
  BY <1>2, Zenon DEF Passing
<1> HIDE DEF P
<1>7. \A record : (filter = NoFilter \/ EvalRecord(filter, record)) <=> LetsPass(filter, record)
  <2>1. CASE filter = NoFilter
    BY <2>1 DEF LetsPass
  <2>2. CASE filter # NoFilter
    <3>1. filter \in Filters
      BY <2>2
    <3>2. \A record : EvalRecord(filter, record) <=> Len(filter) \in Holding(filter, record)
      BY <3>1, RecordAgrees
    <3> QED
      BY <2>2, <3>2, Zenon DEF LetsPass
  <2> QED
    BY <2>1, <2>2
<1>8. \A z, record : AddPassing(z, record) = IF LetsPass(filter, record) THEN Append(z, record) ELSE z
  BY <1>7, Zenon DEF AddPassing
<1>9. 0 \in T
  BY <1>1, <1>2, <1>5, KeptSteps
<1>10. ASSUME NEW k \in 0 .. n - 1, k \in T
       PROVE  k + 1 \in T
  <2>1. P(k) = KeptOf(filter, file, k) /\ k + 1 \in 0 .. n
    BY <1>2, <1>10
  <2>2. P(k + 1) = AddPassing(P(k), file[k + 1])
    BY <1>5
  <2>3. KeptOf(filter, file, k + 1) = IF LetsPass(filter, file[k + 1])
                                      THEN Append(KeptOf(filter, file, k), file[k + 1])
                                      ELSE KeptOf(filter, file, k)
    BY <1>1, KeptSteps
  <2>4. AddPassing(P(k), file[k + 1]) = IF LetsPass(filter, file[k + 1])
                                        THEN Append(P(k), file[k + 1])
                                        ELSE P(k)
    BY <1>8, Zenon
  <2> HIDE DEF n
  <2>5. P(k + 1) = KeptOf(filter, file, k + 1)
    <3>1. CASE LetsPass(filter, file[k + 1])
      BY <2>1, <2>2, <2>3, <2>4, <3>1
    <3>2. CASE ~LetsPass(filter, file[k + 1])
      BY <2>1, <2>2, <2>3, <2>4, <3>2
    <3> QED
      BY <3>1, <3>2
  <2> QED
    BY <2>1, <2>5
<1>11. n \in T
  <2> HIDE DEF T
  <2>1. \A k \in 0 .. n : k \in T
    BY <1>2, <1>9, <1>10, PrefixInduction
  <2> QED
    BY <1>2, <2>1
<1>12. Kept(filter, file) = KeptOf(filter, file, n)
  BY <1>1, KeptSteps
<1> QED
  BY <1>6, <1>11, <1>12

\* from_inner_to_column finds them by the bits, and takes their values.
LEMMA FromInnerIs ==
  ASSUME NEW f, NEW v \in Seq(Record), tableCache = Parse(v),
         \A r \in 0 .. Len(v) - 1 : HasBit(results, r) <=> LetsPass(f, v[r + 1]),
         NEW c \in ColumnSet
  PROVE  /\ FromInner(c) = ColumnOf(Kept(f, v), c)
         /\ Len(FromInner(c)) = Len(Kept(f, v))
<1> DEFINE n == Len(v)
           w == [r \in 1 .. n |-> r]
           P(k) == FoldLeft(AddRow, <<>>, SubSeq(w, 1, k))
           Good(p, z, k) == /\ p \in Seq(0 .. n - 1) /\ Len(p) = Len(z)
                            /\ \A j \in 1 .. Len(z) : z[j] = v[p[j] + 1]
           T == {k \in 0 .. n : Good(P(k), KeptOf(f, v, k), k)}
<1>1. n \in Nat /\ \A k \in 1 .. n : v[k] \in Record
  BY LenProperties, ElementOfSeq
<1>2. tableCache.rows = n
  BY Parsed
<1>3. w \in Seq(Nat) /\ Len(w) = n /\ (\A k \in 1 .. n : w[k] = k) /\ SubSeq(w, 1, n) = w
  <2> HIDE DEF n
  <2>1. w \in Seq(Nat) /\ Len(w) = n /\ \A k \in 1 .. n : w[k] = k
    BY <1>1
  <2> HIDE DEF w
  <2>2. SubSeq(w, 1, Len(w)) = w
    BY <2>1, PrefixEnds
  <2> QED
    BY <2>1, <2>2
<1>4. Passed = P(n)
  BY <1>2, <1>3, Zenon DEF Passed
<1> HIDE DEF w
<1>5. /\ FoldLeft(AddRow, <<>>, SubSeq(w, 1, 0)) = <<>>
      /\ \A k \in 0 .. Len(w) - 1 :
           FoldLeft(AddRow, <<>>, SubSeq(w, 1, k + 1))
             = AddRow(FoldLeft(AddRow, <<>>, SubSeq(w, 1, k)), w[k + 1])
  <2>1. w \in Seq(Nat)
    BY <1>3
  <2> QED
    BY ONLY <2>1, RowFolds
<1>7. P(0) = <<>> /\ \A k \in 0 .. n - 1 : P(k + 1) = AddRow(P(k), w[k + 1])
  BY <1>3, <1>5
<1> HIDE DEF P
<1>8. ASSUME NEW k \in 0 .. n - 1
      PROVE  P(k + 1) = IF LetsPass(f, v[k + 1]) THEN Append(P(k), k) ELSE P(k)
  <2>1. w[k + 1] = k + 1 /\ (k + 1) - 1 = k
    BY <1>1, <1>3
  <2>2. HasBit(results, k) <=> LetsPass(f, v[k + 1])
    OBVIOUS
  <2>3. P(k + 1) = AddRow(P(k), k + 1)
    BY <1>7, <2>1
  <2> QED
    BY <2>1, <2>2, <2>3 DEF AddRow
<1>9. 0 \in T
  <2>1. Good(<<>>, <<>>, 0)
    OBVIOUS
  <2>2. KeptOf(f, v, 0) = <<>>
    BY KeptSteps
  <2> HIDE DEF Good, n
  <2> QED
    BY <1>1, <1>7, <2>1, <2>2
<1>10. ASSUME NEW k \in 0 .. n - 1, k \in T
       PROVE  k + 1 \in T
  <2> DEFINE p == P(k)
             z == KeptOf(f, v, k)
             x == KeptOf(f, v, k + 1)
  <2>1. Good(p, z, k) /\ v[k + 1] \in Record /\ k \in Nat /\ k + 1 \in 0 .. n /\ k \in 0 .. n
    BY <1>1, <1>10
  <2>2. x = IF LetsPass(f, v[k + 1]) THEN Append(z, v[k + 1]) ELSE z
    BY KeptSteps
  <2>3. P(k + 1) = IF LetsPass(f, v[k + 1]) THEN Append(p, k) ELSE p
    BY <1>8
  <2>4. z \in Seq(Record)
    BY <2>1, KeptSize
  <2> HIDE DEF p, z, x
  <2>5. CASE LetsPass(f, v[k + 1])
    <3>1. x = Append(z, v[k + 1]) /\ P(k + 1) = Append(p, k)
      BY <2>2, <2>3, <2>5
    <3>2. /\ Len(x) = Len(z) + 1 /\ Len(z) \in Nat /\ x[Len(z) + 1] = v[k + 1]
          /\ \A j \in 1 .. Len(z) : x[j] = z[j]
      BY <2>1, <2>4, <3>1
    <3>3. /\ Append(p, k) \in Seq(0 .. n - 1) /\ Len(Append(p, k)) = Len(p) + 1
          /\ Append(p, k)[Len(p) + 1] = k
          /\ \A j \in 1 .. Len(p) : Append(p, k)[j] = p[j]
      BY <2>1
    <3>4. ASSUME NEW j \in 1 .. Len(x)
          PROVE  x[j] = v[P(k + 1)[j] + 1]
      <4>1. CASE j = Len(z) + 1
        BY <2>1, <3>1, <3>2, <3>3, <4>1
      <4>2. CASE j # Len(z) + 1
        <5>1. Len(p) = Len(z)
          BY <2>1
        <5>2. j \in 1 .. Len(z)
          BY ONLY <3>2, <4>2, j \in 1 .. Len(x)
        <5>3. j \in 1 .. Len(p)
          BY <5>1, <5>2
        <5>4. x[j] = z[j] /\ P(k + 1)[j] = p[j]
          BY <3>1, <3>2, <3>3, <5>2, <5>3
        <5>5. z[j] = v[p[j] + 1]
          BY <2>1, <5>2
        <5> QED
          BY <5>4, <5>5
      <4> QED
        BY <4>1, <4>2
    <3>5. Good(P(k + 1), x, k + 1)
      BY <2>1, <3>1, <3>2, <3>3, <3>4
    <3> HIDE DEF Good, n
    <3> QED
      BY <2>1, <3>5 DEF x
  <2>6. CASE ~LetsPass(f, v[k + 1])
    <3>1. Good(P(k + 1), x, k + 1)
      BY <2>1, <2>2, <2>3, <2>6
    <3> HIDE DEF Good, n
    <3> QED
      BY <2>1, <3>1 DEF x
  <2> QED
    BY <2>5, <2>6
<1>11. Good(Passed, Kept(f, v), n)
  <2> HIDE DEF T
  <2>1. \A k \in 0 .. n : k \in T
    BY <1>1, <1>9, <1>10, PrefixInduction
  <2>2. n \in T
    BY <1>1, <2>1
  <2>3. Good(P(n), KeptOf(f, v, n), n)
    BY <2>2 DEF T
  <2> QED
    BY <1>4, <2>3, KeptSteps
<1> DEFINE kept == Kept(f, v)
           bitmap == Parse(v).columns[c].bitmap
<1>12. kept \in Seq(Record) /\ DOMAIN kept = 1 .. Len(kept) /\ Len(kept) \in Nat
  BY KeptSize, LenProperties
<1>13. DOMAIN Passed = 1 .. Len(kept)
  BY <1>11
<1>14. ASSUME NEW j \in 1 .. Len(kept)
       PROVE  (IF HasBit(bitmap, Passed[j]) THEN Get(Parse(v), c, Passed[j]) ELSE Null) = kept[j][c]
  <2> DEFINE r == Passed[j]
  <2>1. r \in 0 .. n - 1 /\ kept[j] = v[r + 1]
    BY <1>11, <1>12
  <2> HIDE DEF r
  <2>2. /\ HasBit(bitmap, r) <=> v[r + 1][c] # Null
        /\ v[r + 1][c] # Null => Get(Parse(v), c, r) = v[r + 1][c]
    BY <2>1, Parsed
  <2> HIDE DEF bitmap, kept
  <2>3. (IF HasBit(bitmap, r) THEN Get(Parse(v), c, r) ELSE Null) = kept[j][c]
    BY <2>1, <2>2
  <2> QED
    BY <2>3 DEF r
<1>15. FromInner(c) = [j \in 1 .. Len(kept) |->
                         IF HasBit(bitmap, Passed[j]) THEN Get(Parse(v), c, Passed[j]) ELSE Null]
  BY <1>13 DEF FromInner
<1> HIDE DEF kept, bitmap
<1>16. FromInner(c) = [j \in 1 .. Len(kept) |-> kept[j][c]]
  BY <1>14, <1>15
<1>17. FromInner(c) = ColumnOf(kept, c)
  BY <1>12, <1>16 DEF ColumnOf
<1>18. Len(FromInner(c)) = Len(kept)
  BY <1>12, <1>16
<1> QED
  BY <1>17, <1>18 DEF kept

-----------------------------------------------------------------------------
(* The invariant                                                           *)

\* What the load works on.
LEMMA LoadFacts ==
  ASSUME LoadInv
  PROVE  /\ file \in Seq(Record) /\ Len(file) \in Nat
         /\ filter \in Filters => IsStatement(filter) /\ filter # NoFilter
         /\ Pool!Workers = Workers /\ todo \subseteq Workers /\ running \subseteq Workers
         /\ todo \intersect running = {}
         /\ todo # {} \/ running # {} => caller = "blocked" /\ stage \in {"kernel", "convert"}
         /\ caller = "blocked" => stage \in {"kernel", "convert"}
         /\ stage \notin {"kernel", "convert"} => todo = {} /\ running = {}
         /\ Len(ColumnNames) = 2 /\ ColumnNames[1] = "a" /\ ColumnNames[2] = "s"
         /\ ColumnSet = {"a", "s"}
<1>1. file \in Seq(Record) /\ (filter \in Filters => IsStatement(filter) /\ filter # NoFilter)
  BY FilesAssumption, FiltersAssumption DEF LoadInv, CallMatches
<1>2. Len(file) \in Nat
  BY <1>1, LenProperties
<1>3. Pool!Workers = Workers
  BY DEF Pool!Workers, Workers
<1>4. /\ todo \subseteq Workers /\ running \subseteq Workers /\ todo \intersect running = {}
      /\ todo # {} \/ running # {} => caller = "blocked" /\ stage \in {"kernel", "convert"}
      /\ caller = "blocked" => stage \in {"kernel", "convert"}
      /\ stage \notin {"kernel", "convert"} => todo = {} /\ running = {}
  BY <1>3 DEF LoadInv, PoolMatches, Pool!TypeOK
<1>5. Len(ColumnNames) = 2 /\ ColumnNames[1] = "a" /\ ColumnNames[2] = "s"
  BY DEF ColumnNames
<1> QED
  BY <1>1, <1>2, <1>3, <1>4, <1>5 DEF ColumnSet

\* The pool's tasks, and where a worker is in its own.
LEMMA WorkerIs ==
  ASSUME LoadInv, stage \in {"kernel", "convert"}
  PROVE  /\ NumTasks \in Nat
         /\ stage = "kernel" => NumTasks = Len(out) /\ NumTasks = BytesFor(Len(file))
         /\ stage = "convert" => NumTasks = 2
         /\ \A t \in Workers :
              /\ BeginIdx(t, NumTasks) \in Nat /\ EndIdx(t) \in Nat
              /\ BeginIdx(t, NumTasks) <= EndIdx(t)
              /\ TasksOf(t, NumTasks) = BeginIdx(t, NumTasks) .. EndIdx(t) - 1
              /\ t \in running => at[t] \in Nat /\ BeginIdx(t, NumTasks) <= at[t] /\ at[t] <= EndIdx(t)
         /\ \A t \in Workers :
              HasTask(t) => /\ t \in running /\ t \notin todo
                            /\ at[t] \in TasksOf(t, NumTasks) /\ at[t] \in 0 .. NumTasks - 1
<1>1. NumTasks \in Nat
  <2>1. CASE stage = "kernel"
    <3>1. IsBits(out, Len(file))
      BY <2>1 DEF LoadInv, KernelMatches
    <3> QED
      BY <2>1, <3>1, LenProperties DEF NumTasks, IsBits
  <2>2. CASE stage = "convert"
    BY <2>2, LoadFacts DEF NumTasks
  <2> QED
    BY <2>1, <2>2
<1>2. /\ stage = "kernel" => NumTasks = Len(out) /\ NumTasks = BytesFor(Len(file))
      /\ stage = "convert" => NumTasks = 2
  BY LoadFacts DEF NumTasks, LoadInv, KernelMatches, IsBits
<1>3. ASSUME NEW t \in Workers
      PROVE  /\ BeginIdx(t, NumTasks) \in Nat /\ EndIdx(t) \in Nat
             /\ BeginIdx(t, NumTasks) <= EndIdx(t)
             /\ TasksOf(t, NumTasks) = BeginIdx(t, NumTasks) .. EndIdx(t) - 1
             /\ t \in running => at[t] \in Nat /\ BeginIdx(t, NumTasks) <= at[t] /\ at[t] <= EndIdx(t)
  <2>1. t \in 0 .. NumThreads /\ t + 1 \in 0 .. NumThreads /\ t <= t + 1
    BY WorkersFacts
  <2>2. /\ BeginIdx(t, NumTasks) \in Nat /\ BeginIdx(t + 1, NumTasks) \in Nat
        /\ BeginIdx(t, NumTasks) <= BeginIdx(t + 1, NumTasks)
    BY <1>1, <2>1, TasksInOrder
  <2>3. t \in running => at[t] \in BeginIdx(t, NumTasks) .. EndIdx(t)
    BY DEF LoadInv, WorkersMatch
  <2> HIDE DEF NumTasks
  <2> QED
    BY <2>2, <2>3 DEF EndIdx, TasksOf
<1>4. ASSUME NEW t \in Workers, HasTask(t)
      PROVE  /\ t \in running /\ t \notin todo
             /\ at[t] \in TasksOf(t, NumTasks) /\ at[t] \in 0 .. NumTasks - 1
  <2>1. t \in running /\ t \notin todo /\ at[t] < EndIdx(t)
    BY <1>4, LoadFacts DEF HasTask
  <2>2. at[t] \in TasksOf(t, NumTasks)
    BY <1>3, <2>1
  <2>3. at[t] \in Nat /\ at[t] < NumTasks
    BY <1>1, <2>2, TasksInside
  <2> QED
    BY <1>1, <2>1, <2>2, <2>3
<1> QED
  BY <1>1, <1>2, <1>3, <1>4

\* While the filter is evaluated: the next node and the operands it takes.
LEMMA NextNode ==
  ASSUME LoadInv, stage \in {"eval", "kernel"}, code # <<>>
  PROVE  /\ Head(code) \in DOMAIN filter /\ Tail(code) \in Seq(DOMAIN filter)
         /\ IsStatement(filter)
         /\ \E p, q \in Seq(DOMAIN filter) :
              /\ Evaluates(filter, file, p)
              /\ Reduces(filter, p, Head(code), q)
              /\ Leads(filter, q, Tail(code), <<Len(filter)>>)
<1>1. /\ filter \in Filters /\ tableCache = Parse(file)
      /\ code \in Seq(DOMAIN filter) /\ operands \in Seq(Seq(SUBSET Bits))
  BY DEF LoadInv, CallMatches, EvalMatches
<1>2. PICK p \in Seq(DOMAIN filter) :
        /\ Len(p) = Len(operands)
        /\ Leads(filter, p, code, <<Len(filter)>>)
        /\ \A m \in DOMAIN p : ExactBits(operands[m], filter, p[m], file)
  BY DEF LoadInv, EvalMatches
<1>3. Evaluates(filter, file, p)
  BY <1>1, <1>2, LoadFacts DEF Evaluates
<1>4. /\ Head(code) \in DOMAIN filter /\ Tail(code) \in Seq(DOMAIN filter)
      /\ \E q \in Seq(DOMAIN filter) :
           Reduces(filter, p, Head(code), q) /\ Leads(filter, q, Tail(code), <<Len(filter)>>)
  BY <1>1, <1>2, LeadsFirst
<1> QED
  BY <1>1, <1>3, <1>4, LoadFacts

\* The operands that the call goes on with when the node's eval has returned
\* the bitmap.
LEMMA NodeReturns ==
  ASSUME LoadInv, stage \in {"eval", "kernel"}, code # <<>>,
         NEW bitmap, ExactBits(bitmap, filter, Head(code), file),
         NEW new, new = Append(SubSeq(operands, 1, Len(operands) - Arity(Node)), bitmap)
  PROVE  /\ new \in Seq(Seq(SUBSET Bits)) /\ Tail(code) \in Seq(DOMAIN filter)
         /\ \E q \in Seq(DOMAIN filter) :
              /\ Len(q) = Len(new)
              /\ Leads(filter, q, Tail(code), <<Len(filter)>>)
              /\ \A m \in DOMAIN q : ExactBits(new[m], filter, q[m], file)
<1>1. PICK p \in Seq(DOMAIN filter), q \in Seq(DOMAIN filter) :
        /\ Evaluates(filter, file, p)
        /\ Reduces(filter, p, Head(code), q)
        /\ Leads(filter, q, Tail(code), <<Len(filter)>>)
  BY NextNode
<1> DEFINE k == Head(code)
<1>2. k \in DOMAIN filter /\ Tail(code) \in Seq(DOMAIN filter)
  BY NextNode
<1>3. new = Append(SubSeq(operands, 1, Len(operands) - Arity(filter[k])), bitmap)
  BY DEF Node
<1>4. Reduces(filter, p, k, q) /\ ExactBits(bitmap, filter, k, file)
  BY <1>1
<1> HIDE DEF k
<1>5. /\ new \in Seq(Seq(SUBSET Bits)) /\ Len(new) = Len(q)
      /\ \A m \in DOMAIN q : ExactBits(new[m], filter, q[m], file)
  BY <1>1, <1>2, <1>3, <1>4, OperandsReduced
<1> QED
  BY <1>1, <1>2, <1>5

LEMMA LoadInvInit == LoadInit => LoadInv
<1> SUFFICES ASSUME LoadInit PROVE LoadInv
  OBVIOUS
<1>1. PoolMatches /\ WorkersMatch
  <2>1. 0 \in 0 .. MaxRuns
    BY LoadSizes
  <2>2. Pool!TypeOK /\ todo = {} /\ running = {} /\ caller = "idle"
    BY <2>1 DEF LoadInit, Pool!Init, Pool!TypeOK
  <2>3. PoolMatches
    BY <2>2 DEF LoadInit, PoolMatches
  <2>4. WorkersMatch
    BY <2>2 DEF LoadInit, WorkersMatch, NoByte
  <2> QED
    BY <2>3, <2>4
<1>2. CallMatches
  BY LoadSizes DEF LoadInit, CallMatches
<1>3. EvalMatches
  BY DEF LoadInit, EvalMatches
<1>4. KernelMatches /\ ResultsMatch /\ ConvertMatches /\ CacheMatches /\ ReturnMatches
  BY DEF LoadInit, KernelMatches, ResultsMatch, ConvertMatches, CacheMatches, ReturnMatches
<1> QED
  BY <1>1, <1>2, <1>3, <1>4 DEF LoadInv

\* The steps of the pool's workers at the borders of a task.
LEMMA BeginKept ==
  ASSUME LoadInv, NEW t \in Workers, Begin(t)
  PROVE  LoadInv'
<1>1. /\ t \in todo /\ todo' = todo \ {t} /\ running' = running \union {t}
      /\ runs' = runs /\ caller' = caller
      /\ at' = [at EXCEPT ![t] = BeginIdx(t, NumTasks)] /\ reg' = reg
      /\ UNCHANGED <<caches, callVars, stage, evalVars, retVars>>
  BY DEF Begin, Pool!Begin
<1>2. stage \in {"kernel", "convert"} /\ t \notin running
  BY <1>1, LoadFacts
<1>3. NumTasks' = NumTasks /\ \A u : EndIdx(u)' = EndIdx(u)
  BY <1>1 DEF NumTasks, EndIdx, evalVars
<1>4. at \in [Workers -> Nat] /\ BeginIdx(t, NumTasks) \in Nat
  BY <1>2, WorkerIs DEF LoadInv, WorkersMatch
<1>5. /\ at' \in [Workers -> Nat] /\ at'[t] = BeginIdx(t, NumTasks)
      /\ \A u \in Workers : u # t => at'[u] = at[u]
  BY <1>1, <1>4
<1>6. PoolMatches'
  BY <1>1, <1>2, LoadFacts DEF LoadInv, PoolMatches, Pool!TypeOK
<1>7. ASSUME NEW u \in Workers, NEW b \in TasksOf(u, NumTasks)
      PROVE  TaskDone(u, b)' <=> TaskDone(u, b)
  <2>1. CASE u = t
    <3>1. BeginIdx(t, NumTasks) <= b /\ b \in Int
      BY <1>2, <2>1, WorkerIs
    <3> QED
      BY <1>1, <1>4, <1>5, <2>1, <3>1 DEF TaskDone
  <2>2. CASE u # t
    BY <1>1, <1>5, <2>2 DEF TaskDone
  <2> QED
    BY <2>1, <2>2
<1>8. WorkersMatch'
  <2>1. ASSUME NEW u \in Workers, u \in running'
        PROVE  at'[u] \in BeginIdx(u, NumTasks) .. EndIdx(u)
    <3>1. CASE u = t
      BY <1>2, <1>5, <3>1, WorkerIs
    <3>2. CASE u # t
      BY <1>1, <1>2, <1>5, <2>1, <3>2, WorkerIs DEF LoadInv, WorkersMatch
    <3> QED
      BY <3>1, <3>2
  <2>2. ASSUME NEW u \in Workers, reg[u] # NoByte
        PROVE  (stage = "kernel" /\ HasTask(u) /\ reg[u] = out[at[u] + 1])'
    <3>1. stage = "kernel" /\ HasTask(u) /\ reg[u] = out[at[u] + 1]
      BY <2>2 DEF LoadInv, WorkersMatch
    <3>2. u # t
      BY <1>2, <3>1 DEF HasTask
    <3>3. at'[u] = at[u]
      BY <1>5, <3>2
    <3> QED
      BY <1>1, <1>3, <3>1, <3>3 DEF HasTask, evalVars
  <2>3. running' \subseteq Workers
    BY <1>1, LoadFacts
  <2> QED
    BY <1>1, <1>3, <1>5, <2>1, <2>2, <2>3 DEF LoadInv, WorkersMatch
<1>9. CallMatches' /\ EvalMatches'
  BY <1>1 DEF LoadInv, CallMatches, EvalMatches, callVars, caches, evalVars
<1>10. KernelMatches'
  <2> SUFFICES ASSUME stage = "kernel" PROVE KernelMatches'
    BY <1>1 DEF KernelMatches
  <2>1. NumTasks = Len(out)
    BY WorkerIs
  <2> QED
    BY <1>1, <1>7, <2>1 DEF LoadInv, KernelMatches, Node, callVars, evalVars
<1>11. ResultsMatch' /\ CacheMatches' /\ ReturnMatches'
  BY <1>1 DEF LoadInv, ResultsMatch, CacheMatches, ReturnMatches, callVars, caches, evalVars, retVars
<1>12. ConvertMatches'
  <2>1. CASE stage = "convert"
    <3>1. NumTasks = 2
      BY <2>1, WorkerIs
    <3> QED
      BY <1>1, <1>7, <2>1, <3>1 DEF LoadInv, ConvertMatches, callVars, retVars
  <2>2. CASE stage # "convert"
    BY <1>1, <2>2 DEF LoadInv, ConvertMatches, retVars
  <2> QED
    BY <2>1, <2>2
<1> QED
  BY <1>6, <1>8, <1>9, <1>10, <1>11, <1>12 DEF LoadInv

LEMMA EndKept ==
  ASSUME LoadInv, NEW t \in Workers, End(t)
  PROVE  LoadInv'
<1>1. /\ t \in running /\ running' = running \ {t} /\ todo' = todo
      /\ runs' = runs /\ caller' = caller /\ ~HasTask(t)
      /\ at' = [at EXCEPT ![t] = 0] /\ reg' = reg
      /\ UNCHANGED <<caches, callVars, stage, evalVars, retVars>>
  BY DEF End, Pool!End
<1>2. stage \in {"kernel", "convert"} /\ t \notin todo
  BY <1>1, LoadFacts
<1>3. NumTasks' = NumTasks /\ \A u : EndIdx(u)' = EndIdx(u)
  BY <1>1 DEF NumTasks, EndIdx, evalVars
<1>4. /\ at' \in [Workers -> Nat]
      /\ \A u \in Workers : u # t => at'[u] = at[u]
  BY <1>1 DEF LoadInv, WorkersMatch
<1>5. at[t] = EndIdx(t)
  BY <1>1, <1>2, WorkerIs DEF HasTask
<1>6. PoolMatches'
  BY <1>1, <1>2, LoadFacts DEF LoadInv, PoolMatches, Pool!TypeOK
<1>7. ASSUME NEW u \in Workers, NEW b \in TasksOf(u, NumTasks)
      PROVE  TaskDone(u, b)' <=> TaskDone(u, b)
  <2>1. CASE u = t
    <3>1. b < EndIdx(t)
      BY <1>2, <2>1, WorkerIs
    <3> QED
      BY <1>1, <1>2, <1>5, <2>1, <3>1 DEF TaskDone
  <2>2. CASE u # t
    BY <1>1, <1>4, <2>2 DEF TaskDone
  <2> QED
    BY <2>1, <2>2
<1>8. WorkersMatch'
  <2>1. ASSUME NEW u \in Workers, u \in running'
        PROVE  at'[u] \in BeginIdx(u, NumTasks) .. EndIdx(u)
    BY <1>1, <1>4, <2>1 DEF LoadInv, WorkersMatch
  <2>2. ASSUME NEW u \in Workers, reg[u] # NoByte
        PROVE  (stage = "kernel" /\ HasTask(u) /\ reg[u] = out[at[u] + 1])'
    <3>1. stage = "kernel" /\ HasTask(u) /\ reg[u] = out[at[u] + 1]
      BY <2>2 DEF LoadInv, WorkersMatch
    <3>2. u # t
      BY <1>1, <3>1
    <3>3. at'[u] = at[u]
      BY <1>4, <3>2
    <3> QED
      BY <1>1, <1>3, <3>1, <3>2, <3>3 DEF HasTask, evalVars
  <2>3. running' \subseteq Workers
    BY <1>1, LoadFacts
  <2> QED
    BY <1>1, <1>3, <1>4, <2>1, <2>2, <2>3 DEF LoadInv, WorkersMatch
<1>9. CallMatches' /\ EvalMatches'
  BY <1>1 DEF LoadInv, CallMatches, EvalMatches, callVars, caches, evalVars
<1>10. KernelMatches'
  <2> SUFFICES ASSUME stage = "kernel" PROVE KernelMatches'
    BY <1>1 DEF KernelMatches
  <2>1. NumTasks = Len(out)
    BY WorkerIs
  <2> QED
    BY <1>1, <1>7, <2>1 DEF LoadInv, KernelMatches, Node, callVars, evalVars
<1>11. ResultsMatch' /\ CacheMatches' /\ ReturnMatches'
  BY <1>1 DEF LoadInv, ResultsMatch, CacheMatches, ReturnMatches, callVars, caches, evalVars, retVars
<1>12. ConvertMatches'
  <2>1. CASE stage = "convert"
    <3>1. NumTasks = 2
      BY <2>1, WorkerIs
    <3> QED
      BY <1>1, <1>7, <2>1, <3>1 DEF LoadInv, ConvertMatches, callVars, retVars
  <2>2. CASE stage # "convert"
    BY <1>1, <2>2 DEF LoadInv, ConvertMatches, retVars
  <2> QED
    BY <2>1, <2>2
<1> QED
  BY <1>6, <1>8, <1>9, <1>10, <1>11, <1>12 DEF LoadInv

\* A worker reads a byte, ...
LEMMA ReadByteKept ==
  ASSUME LoadInv, NEW t \in Workers, ReadByte(t)
  PROVE  LoadInv'
<1>1. /\ stage = "kernel" /\ HasTask(t) /\ reg' = [reg EXCEPT ![t] = out[at[t] + 1]]
      /\ UNCHANGED <<poolVars, caches, callVars, stage, evalVars, at, retVars>>
  BY DEF ReadByte
<1>2. NumTasks' = NumTasks /\ \A u : EndIdx(u)' = EndIdx(u) /\ (HasTask(u)' <=> HasTask(u))
  BY <1>1 DEF NumTasks, EndIdx, HasTask, evalVars, poolVars
<1>3. PoolMatches' /\ CallMatches' /\ EvalMatches' /\ ResultsMatch' /\ ConvertMatches' /\ CacheMatches' /\ ReturnMatches'
  BY <1>1 DEF LoadInv, PoolMatches, Pool!TypeOK, CallMatches, EvalMatches, ResultsMatch, ConvertMatches,
    CacheMatches, ReturnMatches, TaskDone, callVars, caches, evalVars, retVars, poolVars
<1>4. KernelMatches'
  BY <1>1 DEF LoadInv, KernelMatches, TaskDone, Node, callVars, evalVars, poolVars
<1>5. WorkersMatch'
  <2>1. out[at[t] + 1] \in SUBSET Int
    <3>1. at[t] \in 0 .. BytesFor(Len(file)) - 1
      BY <1>1, WorkerIs
    <3>2. out[at[t] + 1] \in SUBSET Bits
      BY <1>1, <3>1, LoadFacts, ByteOfBits DEF LoadInv, KernelMatches
    <3> QED
      BY <3>2, LoadSizes DEF Bits
  <2>2. /\ reg \in [Workers -> SUBSET Int]
        /\ \A u \in Workers : reg[u] # NoByte =>
             stage = "kernel" /\ HasTask(u) /\ reg[u] = out[at[u] + 1]
    BY DEF LoadInv, WorkersMatch
  <2>3. /\ reg' \in [Workers -> SUBSET Int]
        /\ reg'[t] = out[at[t] + 1]
        /\ \A u \in Workers : u # t => reg'[u] = reg[u]
    BY <1>1, <2>1, <2>2
  <2>4. out' = out /\ stage' = stage /\ running' = running /\ at' = at
    BY <1>1 DEF evalVars, poolVars
  <2> QED
    BY <1>1, <1>2, <2>2, <2>3, <2>4 DEF LoadInv, WorkersMatch
<1> QED
  BY <1>3, <1>4, <1>5 DEF LoadInv

\* ... and writes it: no other worker is there.
LEMMA WriteByteKept ==
  ASSUME LoadInv, NEW t \in Workers, WriteByte(t)
  PROVE  LoadInv'
<1> DEFINE d == at[t]
           byte == KernelByte(Node, d, reg[t])
<1>1. /\ stage = "kernel" /\ HasTask(t) /\ reg[t] # NoByte
      /\ out' = [out EXCEPT ![d + 1] = byte]
      /\ reg' = [reg EXCEPT ![t] = NoByte]
      /\ at' = [at EXCEPT ![t] = d + 1]
      /\ UNCHANGED <<poolVars, caches, callVars, stage, code, operands, results, retVars>>
  BY DEF WriteByte
<1>2. /\ t \in running /\ t \notin todo /\ d \in TasksOf(t, NumTasks) /\ d \in 0 .. NumTasks - 1
      /\ NumTasks = Len(out) /\ NumTasks = BytesFor(Len(file)) /\ NumTasks \in Nat
      /\ d + 1 <= EndIdx(t) /\ BeginIdx(t, NumTasks) <= d /\ d \in Nat
  BY <1>1, WorkerIs DEF HasTask
<1>3. /\ IsBits(out, Len(file)) /\ code # <<>> /\ Node.op # "IS_NOT_NULL"
      /\ reg[t] = out[d + 1]
      /\ \A u \in Workers : \A b \in TasksOf(u, Len(out)) :
           IF TaskDone(u, b)
           THEN ByteAfter(filter, Head(code), file, b, out[b + 1])
           ELSE ByteBefore(filter, Head(code), file, b, out[b + 1])
  BY <1>1 DEF LoadInv, KernelMatches, WorkersMatch
<1>4. byte \in SUBSET Bits /\ ByteAfter(filter, Head(code), file, d, byte)
  <2>1. PICK p \in Seq(DOMAIN filter), q \in Seq(DOMAIN filter) :
          Evaluates(filter, file, p) /\ Reduces(filter, p, Head(code), q)
    BY <1>1, <1>3, NextNode
  <2>2. Head(code) \in DOMAIN filter /\ filter[Head(code)].op # "IS_NOT_NULL"
    BY <1>1, <1>3, NextNode DEF Node
  <2>3. ~TaskDone(t, d)
    BY <1>2 DEF TaskDone
  <2>4. ByteBefore(filter, Head(code), file, d, reg[t])
    BY <1>2, <1>3, <2>3
  <2>5. reg[t] \in SUBSET Bits /\ d \in 0 .. BytesFor(Len(file)) - 1
    BY <1>2, <1>3, LoadFacts, ByteOfBits
  <2> HIDE DEF d
  <2> QED
    BY <2>1, <2>2, <2>4, <2>5, KernelByteIs DEF Node
<1> HIDE DEF d, byte
<1>5. /\ out' \in Seq(SUBSET Bits) /\ Len(out') = Len(out) /\ out'[d + 1] = byte
      /\ \A b \in 0 .. NumTasks - 1 : b # d => out'[b + 1] = out[b + 1]
  <2>1. out \in Seq(SUBSET Bits) /\ d + 1 \in 1 .. Len(out)
    BY <1>2, <1>3 DEF IsBits
  <2>2. byte \in SUBSET Bits
    BY <1>4
  <2> DEFINE new == [out EXCEPT ![d + 1] = byte]
             m == d + 1
  <2>3. /\ new \in Seq(SUBSET Bits) /\ Len(new) = Len(out) /\ new[m] = byte
        /\ \A x \in 1 .. Len(out) : x # m => new[x] = out[x]
    <3> DEFINE upd == [out EXCEPT ![m] = byte]
    <3>1. m \in 1 .. Len(out)
      BY <2>1
    <3> HIDE DEF m
    <3>2. /\ upd \in Seq(SUBSET Bits) /\ Len(upd) = Len(out) /\ upd[m] = byte
          /\ \A x \in 1 .. Len(out) : x # m => upd[x] = out[x]
      BY <2>1, <2>2, <3>1
    <3> QED
      BY <3>2 DEF m
  <2> HIDE DEF new
  <2>4. ASSUME NEW b \in 0 .. NumTasks - 1, b # d
        PROVE  new[b + 1] = out[b + 1]
    <3>1. b + 1 \in 1 .. Len(out) /\ b + 1 # m
      BY <1>2, <2>4
    <3> QED
      BY <2>3, <3>1
  <2> QED
    BY <1>1, <2>3, <2>4 DEF new
<1>6. NumTasks' = NumTasks /\ (\A u : EndIdx(u)' = EndIdx(u)) /\ todo' = todo /\ running' = running
  BY <1>1, <1>5 DEF NumTasks, EndIdx, poolVars
<1>7. at \in [Workers -> Nat] /\ reg \in [Workers -> SUBSET Int]
  BY DEF LoadInv, WorkersMatch
<1>8. /\ at' \in [Workers -> Nat] /\ at'[t] = d + 1
      /\ \A u \in Workers : u # t => at'[u] = at[u]
      /\ reg' \in [Workers -> SUBSET Int] /\ reg'[t] = NoByte
      /\ \A u \in Workers : u # t => reg'[u] = reg[u]
  BY <1>1, <1>2, <1>7 DEF NoByte
<1>9. PoolMatches' /\ CallMatches' /\ EvalMatches' /\ ResultsMatch' /\ ConvertMatches' /\ CacheMatches' /\ ReturnMatches'
  BY <1>1 DEF LoadInv, PoolMatches, Pool!TypeOK, CallMatches, EvalMatches, ResultsMatch, ConvertMatches,
    CacheMatches, ReturnMatches, callVars, caches, retVars, poolVars
<1>10. WorkersMatch'
  <2>1. ASSUME NEW u \in Workers, u \in running
        PROVE  at'[u] \in BeginIdx(u, NumTasks) .. EndIdx(u)
    <3>1. CASE u = t
      <4>1. EndIdx(t) \in Nat /\ BeginIdx(t, NumTasks) \in Nat
        BY <1>1, WorkerIs
      <4> QED
        BY <1>2, <1>8, <3>1, <4>1
    <3>2. CASE u # t
      BY <1>8, <2>1, <3>2 DEF LoadInv, WorkersMatch
    <3> QED
      BY <3>1, <3>2
  <2>2. ASSUME NEW u \in Workers, reg'[u] # NoByte
        PROVE  (stage = "kernel" /\ HasTask(u) /\ reg[u] = out[at[u] + 1])'
    <3>1. u # t
      BY <1>8, <2>2
    <3>2. HasTask(u) /\ reg[u] = out[at[u] + 1]
      BY <1>8, <2>2, <3>1 DEF LoadInv, WorkersMatch
    <3>3. at[u] \in TasksOf(u, NumTasks) /\ at[u] \in 0 .. NumTasks - 1
      BY <1>1, <3>2, WorkerIs
    <3>4. at[u] # d
      BY <1>2, <3>1, <3>3, TasksDisjoint
    <3>5. out'[at[u] + 1] = out[at[u] + 1]
      BY <1>5, <3>3, <3>4
    <3>6. HasTask(u)'
      BY <1>6, <1>8, <3>1, <3>2 DEF HasTask
    <3> QED
      BY <1>1, <1>8, <3>1, <3>2, <3>5, <3>6
  <2>3. running \subseteq Workers
    BY LoadFacts
  <2> QED
    BY <1>6, <1>8, <2>1, <2>2, <2>3 DEF WorkersMatch
<1>11. KernelMatches'
  <2>1. ASSUME NEW u \in Workers, NEW b \in TasksOf(u, NumTasks)
        PROVE  IF TaskDone(u, b)'
               THEN ByteAfter(filter, Head(code), file, b, out'[b + 1])
               ELSE ByteBefore(filter, Head(code), file, b, out'[b + 1])
    <3>1. b \in Nat /\ b \in 0 .. NumTasks - 1
      BY <1>2, TasksInside
    <3>2. CASE b = d
      <4>1. u = t
        BY <1>2, <3>2, TasksDisjoint
      <4>2. TaskDone(u, b)'
        BY <1>2, <1>6, <1>8, <3>1, <3>2, <4>1 DEF TaskDone
      <4> QED
        BY <1>4, <1>5, <3>2, <4>2
    <3>3. CASE b # d
      <4>1. TaskDone(u, b)' <=> TaskDone(u, b)
        <5>1. CASE u = t
          BY <1>2, <1>6, <1>8, <3>1, <3>3, <5>1 DEF TaskDone, d
        <5>2. CASE u # t
          BY <1>6, <1>8, <5>2 DEF TaskDone
        <5> QED
          BY <5>1, <5>2
      <4>2. out'[b + 1] = out[b + 1]
        BY <1>5, <3>1, <3>3
      <4> QED
        BY <1>2, <1>3, <4>1, <4>2
    <3> QED
      BY <3>2, <3>3
  <2>2. IsBits(out', Len(file))
    BY <1>3, <1>5 DEF IsBits
  <2>3. Len(out') = NumTasks /\ code' = code /\ filter' = filter /\ file' = file
    BY <1>1, <1>2, <1>5 DEF callVars
  <2> QED
    BY <1>3, <2>1, <2>2, <2>3 DEF KernelMatches, Node
<1> QED
  BY <1>9, <1>10, <1>11 DEF LoadInv

\* The evaluator goes on to the next node when a bitmap is there, ...
LEMMA EvalNotNullKept ==
  ASSUME LoadInv, EvalNotNull
  PROVE  LoadInv'
<1> DEFINE bitmap == tableCache.columns[Node.column].bitmap
<1>1. /\ stage = "eval" /\ code # <<>> /\ Node.op = "IS_NOT_NULL"
      /\ operands' = Append(operands, bitmap) /\ code' = Tail(code)
      /\ UNCHANGED <<poolVars, caches, callVars, stage, out, results, workVars, retVars>>
  BY DEF EvalNotNull
<1>2. ExactBits(bitmap, filter, Head(code), file)
  <2>1. PICK p \in Seq(DOMAIN filter) : Evaluates(filter, file, p)
    BY <1>1, NextNode
  <2>2. Head(code) \in DOMAIN filter /\ filter[Head(code)].op = "IS_NOT_NULL"
    BY <1>1, NextNode DEF Node
  <2> QED
    BY <2>1, <2>2, NotNullIs DEF Node
<1> HIDE DEF bitmap
<1>3. operands' = Append(SubSeq(operands, 1, Len(operands) - Arity(Node)), bitmap)
  <2>1. Arity(Node) = 0
    BY <1>1 DEF Arity
  <2>2. operands \in Seq(Seq(SUBSET Bits))
    BY DEF LoadInv, EvalMatches
  <2>3. Len(operands) - 0 = Len(operands) /\ SubSeq(operands, 1, Len(operands)) = operands
    BY <2>2, PrefixEnds
  <2> QED
    BY <1>1, <2>1, <2>3
<1>4. /\ operands' \in Seq(Seq(SUBSET Bits)) /\ Tail(code) \in Seq(DOMAIN filter)
      /\ \E q \in Seq(DOMAIN filter) :
           /\ Len(q) = Len(operands')
           /\ Leads(filter, q, Tail(code), <<Len(filter)>>)
           /\ \A m \in DOMAIN q : ExactBits(operands'[m], filter, q[m], file)
  BY <1>1, <1>2, <1>3, NodeReturns
<1>5. EvalMatches'
  BY <1>1, <1>4 DEF EvalMatches, callVars
<1>6. PoolMatches' /\ CallMatches' /\ KernelMatches' /\ ResultsMatch' /\ ConvertMatches' /\ CacheMatches' /\ ReturnMatches'
  BY <1>1 DEF LoadInv, PoolMatches, Pool!TypeOK, CallMatches, KernelMatches, ResultsMatch, ConvertMatches,
    CacheMatches, ReturnMatches, callVars, caches, retVars, poolVars
<1>7. WorkersMatch'
  BY <1>1, LoadFacts DEF LoadInv, WorkersMatch, workVars, poolVars
<1> QED
  BY <1>5, <1>6, <1>7 DEF LoadInv

\* ... or when a kernel is dispatched, ...
LEMMA DispatchKernelKept ==
  ASSUME LoadInv, DispatchKernel
  PROVE  LoadInv'
<1>1. /\ stage = "eval" /\ code # <<>> /\ Node.op # "IS_NOT_NULL"
      /\ caller = "idle" /\ runs < MaxRuns /\ runs' = runs + 1
      /\ todo' = Workers /\ caller' = "blocked" /\ running' = running
      /\ out' = InitialOut(Node) /\ stage' = "kernel"
      /\ UNCHANGED <<caches, callVars, code, operands, results, workVars, retVars>>
  BY LoadFacts DEF DispatchKernel, Pool!Dispatch
<1>2. running = {}
  BY <1>1, LoadFacts
<1>3. /\ IsBits(out', Len(file))
      /\ \A b \in Nat : b < Len(out') => ByteBefore(filter, Head(code), file, b, out'[b + 1])
  <2>1. PICK p \in Seq(DOMAIN filter), q \in Seq(DOMAIN filter) :
          Evaluates(filter, file, p) /\ Reduces(filter, p, Head(code), q)
    BY <1>1, NextNode
  <2>2. Head(code) \in DOMAIN filter /\ filter[Head(code)].op # "IS_NOT_NULL"
    BY <1>1, NextNode DEF Node
  <2>3. /\ IsBits(InitialOut(filter[Head(code)]), Len(file))
        /\ \A b \in Nat : b < Len(InitialOut(filter[Head(code)])) =>
             ByteBefore(filter, Head(code), file, b, InitialOut(filter[Head(code)])[b + 1])
    BY <2>1, <2>2, InitialOutIs
  <2> QED
    BY <1>1, <2>3 DEF Node
<1>4. PoolMatches'
  BY <1>1, <1>2, LoadFacts, LoadSizes DEF LoadInv, PoolMatches, Pool!TypeOK
<1>5. WorkersMatch'
  BY <1>1, <1>2 DEF LoadInv, WorkersMatch, workVars
<1>6. CallMatches' /\ EvalMatches' /\ ResultsMatch' /\ ConvertMatches' /\ CacheMatches' /\ ReturnMatches'
  BY <1>1 DEF LoadInv, CallMatches, EvalMatches, ResultsMatch, ConvertMatches,
    CacheMatches, ReturnMatches, callVars, caches, retVars
<1>7. KernelMatches'
  <2>1. ASSUME NEW t \in Workers, NEW b \in TasksOf(t, Len(out'))
        PROVE  ~TaskDone(t, b)' /\ ByteBefore(filter, Head(code), file, b, out'[b + 1])
    <3>1. Len(out') \in Nat
      BY <1>3, LenProperties DEF IsBits
    <3>2. b \in Nat /\ b < Len(out')
      BY <3>1, TasksInside
    <3> QED
      BY <1>1, <1>3, <3>2 DEF TaskDone
  <2> QED
    BY <1>1, <1>3, <2>1 DEF KernelMatches, Node, callVars
<1> QED
  BY <1>4, <1>5, <1>6, <1>7 DEF LoadInv

\* ... all of whose bytes are written when it returns, ...
LEMMA ReturnKernelKept ==
  ASSUME LoadInv, ReturnKernel
  PROVE  LoadInv'
<1>1. /\ stage = "kernel" /\ caller = "blocked" /\ todo = {} /\ running = {}
      /\ caller' = "idle" /\ runs' = runs /\ todo' = todo /\ running' = running
      /\ operands' = Append(SubSeq(operands, 1, Len(operands) - Arity(Node)), out)
      /\ code' = Tail(code) /\ out' = <<>> /\ stage' = "eval"
      /\ UNCHANGED <<caches, callVars, results, workVars, retVars>>
  BY DEF ReturnKernel, Pool!Return
<1>2. code # <<>> /\ IsBits(out, Len(file))
  BY <1>1 DEF LoadInv, KernelMatches
<1>3. ExactBits(out, filter, Head(code), file)
  <2>1. ASSUME NEW b \in 0 .. Len(out) - 1
        PROVE  ByteAfter(filter, Head(code), file, b, out[b + 1])
    <3>1. Len(out) \in Nat /\ b \in Nat /\ b < Len(out)
      BY <1>2, LenProperties DEF IsBits
    <3>2. PICK t \in Workers : b \in TasksOf(t, Len(out))
      BY <3>1, TasksCover
    <3>3. TaskDone(t, b)
      BY <1>1 DEF TaskDone
    <3> QED
      BY <1>1, <3>2, <3>3 DEF LoadInv, KernelMatches
  <2> QED
    BY <1>2, <2>1, LoadFacts, BytesExact
<1>4. /\ operands' \in Seq(Seq(SUBSET Bits)) /\ Tail(code) \in Seq(DOMAIN filter)
      /\ \E q \in Seq(DOMAIN filter) :
           /\ Len(q) = Len(operands')
           /\ Leads(filter, q, Tail(code), <<Len(filter)>>)
           /\ \A m \in DOMAIN q : ExactBits(operands'[m], filter, q[m], file)
  BY <1>1, <1>2, <1>3, NodeReturns
<1>5. EvalMatches'
  BY <1>1, <1>4 DEF EvalMatches, callVars
<1>6. PoolMatches'
  BY <1>1 DEF LoadInv, PoolMatches, Pool!TypeOK
<1>7. WorkersMatch'
  <2>1. \A u \in Workers : reg[u] = NoByte
    BY <1>1 DEF LoadInv, WorkersMatch, HasTask
  <2> QED
    BY <1>1, <2>1 DEF LoadInv, WorkersMatch, workVars
<1>8. CallMatches' /\ KernelMatches' /\ ResultsMatch' /\ ConvertMatches' /\ CacheMatches' /\ ReturnMatches'
  BY <1>1 DEF LoadInv, CallMatches, KernelMatches, ResultsMatch, ConvertMatches,
    CacheMatches, ReturnMatches, callVars, caches, retVars
<1> QED
  BY <1>5, <1>6, <1>7, <1>8 DEF LoadInv

\* ... and the last bitmap is the statement's.
LEMMA EvalReturnsKept ==
  ASSUME LoadInv, EvalReturns
  PROVE  LoadInv'
<1>1. /\ stage = "eval" /\ code = <<>> /\ results' = Last(operands)
      /\ operands' = <<>> /\ stage' = "filtered"
      /\ UNCHANGED <<poolVars, caches, callVars, code, out, workVars, retVars>>
  BY DEF EvalReturns
<1>2. PICK q \in Seq(DOMAIN filter) :
        /\ Len(q) = Len(operands)
        /\ Leads(filter, q, code, <<Len(filter)>>)
        /\ \A m \in DOMAIN q : ExactBits(operands[m], filter, q[m], file)
  BY <1>1 DEF LoadInv, EvalMatches
<1>3. q = <<Len(filter)>>
  BY <1>1, <1>2, LeadsEmpty
<1>4. Len(q) = 1 /\ 1 \in DOMAIN q /\ q[1] = Len(filter)
  BY <1>3
<1>5. Len(operands) = 1 /\ Last(operands) = operands[1]
  BY <1>2, <1>4 DEF Last
<1>6. ExactBits(results', filter, Len(filter), file)
  BY <1>1, <1>2, <1>4, <1>5
<1>7. ResultsMatch'
  <2>1. filter # NoFilter
    BY <1>1, LoadFacts DEF LoadInv, CallMatches
  <2> QED
    BY <1>1, <1>6, <2>1 DEF ResultsMatch, ExactBits, LetsPass, callVars
<1>8. PoolMatches' /\ CallMatches' /\ EvalMatches' /\ KernelMatches' /\ ConvertMatches' /\ CacheMatches' /\ ReturnMatches'
  <2>1. <<>> \in Seq(Seq(SUBSET Bits))
    OBVIOUS
  <2> QED
    BY <1>1, <2>1 DEF LoadInv, PoolMatches, Pool!TypeOK, CallMatches, EvalMatches, KernelMatches, ConvertMatches,
      CacheMatches, ReturnMatches, callVars, caches, retVars, poolVars
<1>9. WorkersMatch'
  BY <1>1, LoadFacts DEF LoadInv, WorkersMatch, workVars, poolVars
<1> QED
  BY <1>7, <1>8, <1>9 DEF LoadInv

\* What a result is copied from: with no filter every row passes.
LEMMA FromResultCacheKept ==
  ASSUME LoadInv, NEW f \in Filters \union {NoFilter}, FromResultCache(f)
  PROVE  LoadInv'
<1>1. /\ stage = "idle" /\ loads < MaxLoads /\ f = NoFilter /\ resultCache # NoTable
      /\ loads' = loads + 1 /\ filter' = f
      /\ ret' = resultCache.columns /\ retRows' = resultCache.rows /\ stage' = "return"
      /\ UNCHANGED <<poolVars, caches, file, evalVars, workVars>>
  BY DEF FromResultCache, ResultHit
<1>2. Kept(NoFilter, file) = file
  BY LoadFacts, KeptAll
<1>3. ReturnMatches'
  BY <1>1, <1>2 DEF LoadInv, CacheMatches, ReturnMatches
<1>4. PoolMatches' /\ CallMatches' /\ EvalMatches' /\ KernelMatches' /\ ResultsMatch' /\ ConvertMatches' /\ CacheMatches'
  BY <1>1, LoadSizes DEF LoadInv, PoolMatches, Pool!TypeOK, CallMatches, EvalMatches, KernelMatches, ResultsMatch,
    ConvertMatches, CacheMatches, caches, evalVars, poolVars
<1>5. WorkersMatch'
  BY <1>1, LoadFacts DEF LoadInv, WorkersMatch, workVars, poolVars
<1> QED
  BY <1>3, <1>4, <1>5 DEF LoadInv

\* The bitmap of a load without a filter.
LEMMA AllBits ==
  ASSUME NEW n \in Nat, NEW bitmap, bitmap = [b \in 1 .. BytesFor(n) |-> Bits]
  PROVE  IsBits(bitmap, n) /\ \A r \in 0 .. n - 1 : HasBit(bitmap, r)
<1> DEFINE m == BytesFor(n)
<1>1. m \in Nat
  BY BytesOf
<1> HIDE DEF m
<1>2. /\ bitmap \in Seq(SUBSET Bits) /\ Len(bitmap) = m
      /\ \A b \in 1 .. m : bitmap[b] = Bits
  BY <1>1 DEF m
<1>3. ASSUME NEW r \in 0 .. n - 1
      PROVE  HasBit(bitmap, r)
  <2>1. r \div RowsPerByte \in 0 .. m - 1 /\ r % RowsPerByte \in Bits
    BY BitOfRow DEF m
  <2> DEFINE b == r \div RowsPerByte
  <2> HIDE DEF b
  <2>2. b + 1 \in 1 .. m
    BY <1>1, <2>1 DEF b
  <2>3. bitmap[b + 1] = Bits
    BY <1>2, <2>2
  <2> QED
    BY <2>1, <2>3 DEF HasBit, b
<1> QED
  BY <1>2, <1>3 DEF IsBits, m

\* The table is parsed, or there already; its filter's code begins.
LEMMA FromTableKept ==
  ASSUME LoadInv, NEW f \in Filters \union {NoFilter}, FromTable(f)
  PROVE  LoadInv'
<1>1. /\ stage = "idle" /\ loads < MaxLoads /\ loads' = loads + 1 /\ filter' = f
      /\ tableCache' = IF tableCache = NoTable THEN Parse(file) ELSE tableCache
      /\ \/ /\ f = NoFilter /\ results' = [b \in 1 .. BytesFor(Len(file)) |-> Bits]
            /\ stage' = "filtered" /\ code' = code
         \/ /\ f # NoFilter /\ code' = PostOrder(f) /\ stage' = "eval" /\ results' = results
      /\ UNCHANGED <<poolVars, file, resultCache, operands, out, workVars, retVars>>
  BY DEF FromTable
<1>2. tableCache' = Parse(file)
  BY <1>1 DEF LoadInv, CallMatches
<1>3. /\ CallMatches'
  <2>1. loads' \in 0 .. MaxLoads
    BY <1>1, LoadSizes DEF LoadInv, CallMatches
  <2> QED
    BY <1>1, <1>2, <2>1 DEF LoadInv, CallMatches
<1>4. PoolMatches' /\ KernelMatches' /\ CacheMatches' /\ ConvertMatches' /\ ReturnMatches'
  BY <1>1 DEF LoadInv, PoolMatches, Pool!TypeOK, KernelMatches, ConvertMatches, CacheMatches, ReturnMatches,
    poolVars, retVars
<1>5. WorkersMatch'
  BY <1>1, LoadFacts DEF LoadInv, WorkersMatch, workVars, poolVars
<1>6. operands = <<>>
  BY <1>1 DEF LoadInv, EvalMatches
<1>7. CASE f = NoFilter
  <2>1. IsBits(results', Len(file)) /\ \A r \in 0 .. Len(file) - 1 : HasBit(results', r)
    BY <1>1, <1>7, LoadFacts, AllBits
  <2>2. ResultsMatch'
    BY <1>1, <1>7, <2>1 DEF ResultsMatch, LetsPass
  <2>3. EvalMatches'
    BY <1>1, <1>6, <1>7 DEF LoadInv, EvalMatches
  <2> QED
    BY <1>3, <1>4, <1>5, <2>2, <2>3 DEF LoadInv
<1>8. CASE f # NoFilter
  <2>1. IsStatement(f) /\ stage' = "eval" /\ code' = PostOrder(f) /\ filter' = f
    BY <1>1, <1>8, FiltersAssumption
  <2>2. PostOrder(f) \in Seq(DOMAIN f) /\ Leads(f, <<>>, PostOrder(f), <<Len(f)>>)
    BY <2>1, OrderLeads
  <2>3. <<>> \in Seq(DOMAIN f) /\ Len(<<>>) = 0 /\ DOMAIN <<>> = {} /\ <<>> \in Seq(Seq(SUBSET Bits))
    OBVIOUS
  <2>4. operands' = <<>> /\ file' = file
    BY <1>1, <1>6
  <2>5. \E q \in Seq(DOMAIN f) :
          /\ Len(q) = Len(operands')
          /\ Leads(f, q, PostOrder(f), <<Len(f)>>)
          /\ \A m \in DOMAIN q : ExactBits(operands'[m], f, q[m], file)
    BY <2>2, <2>3, <2>4
  <2>6. EvalMatches'
    BY <2>1, <2>2, <2>3, <2>4, <2>5 DEF EvalMatches
  <2>7. ResultsMatch'
    BY <1>1, <2>1 DEF LoadInv, ResultsMatch
  <2> QED
    BY <1>3, <1>4, <1>5, <2>6, <2>7 DEF LoadInv
<1> QED
  BY <1>7, <1>8

LEMMA DispatchConvertKept ==
  ASSUME LoadInv, DispatchConvert
  PROVE  LoadInv'
<1>1. /\ stage = "filtered" /\ stage' = "convert"
      /\ caller = "idle" /\ runs < MaxRuns /\ runs' = runs + 1
      /\ todo' = Workers /\ caller' = "blocked" /\ running' = running
      /\ UNCHANGED <<caches, callVars, evalVars, workVars, retVars>>
  BY LoadFacts DEF DispatchConvert, Pool!Dispatch
<1>2. running = {}
  BY <1>1, LoadFacts
<1>3. PoolMatches'
  BY <1>1, <1>2, LoadFacts, LoadSizes DEF LoadInv, PoolMatches, Pool!TypeOK
<1>4. WorkersMatch'
  BY <1>1, <1>2 DEF LoadInv, WorkersMatch, workVars
<1>5. CallMatches' /\ EvalMatches' /\ KernelMatches' /\ ResultsMatch' /\ CacheMatches' /\ ReturnMatches'
  BY <1>1 DEF LoadInv, CallMatches, EvalMatches, KernelMatches, ResultsMatch,
    CacheMatches, ReturnMatches, callVars, caches, evalVars
<1>6. ConvertMatches'
  <2>1. ret' = <<>> /\ retRows' = 0 /\ DOMAIN <<>> = {}
    BY <1>1 DEF LoadInv, ConvertMatches, retVars
  <2>2. \A t \in Workers : \A b \in TasksOf(t, 2) : ~TaskDone(t, b)'
    BY <1>1 DEF TaskDone
  <2>3. DOMAIN ret' = {}
    BY <2>1
  <2> QED
    BY <1>1, <2>1, <2>2, <2>3 DEF ConvertMatches
<1> QED
  BY <1>3, <1>4, <1>5, <1>6 DEF LoadInv

\* A column is converted.
LEMMA ConvertKept ==
  ASSUME LoadInv, NEW t \in Workers, Convert(t)
  PROVE  LoadInv'
<1> DEFINE d == at[t]
           c == ColumnNames[d + 1]
           converted == FromInner(c)
<1>1. /\ stage = "convert" /\ HasTask(t)
      /\ ret' = [x \in DOMAIN ret \union {c} |-> IF x = c THEN converted ELSE ret[x]]
      /\ retRows' = Len(converted)
      /\ at' = [at EXCEPT ![t] = d + 1]
      /\ UNCHANGED <<poolVars, caches, callVars, stage, evalVars, reg>>
  BY DEF Convert
<1>2. /\ t \in running /\ t \notin todo /\ d \in TasksOf(t, 2) /\ d \in 0 .. 1
      /\ NumTasks = 2 /\ d \in Nat
      /\ d + 1 <= EndIdx(t) /\ BeginIdx(t, NumTasks) <= d
  BY <1>1, WorkerIs DEF HasTask
<1>3. c \in ColumnSet
  BY <1>2, LoadFacts
<1> HIDE DEF c
<1>4. converted = ColumnOf(Kept(filter, file), c) /\ Len(converted) = Len(Kept(filter, file))
  <2>1. /\ tableCache = Parse(file)
        /\ \A r \in 0 .. Len(file) - 1 : HasBit(results, r) <=> LetsPass(filter, file[r + 1])
    BY <1>1 DEF LoadInv, CallMatches, ResultsMatch
  <2> QED
    BY <1>3, <2>1, LoadFacts, FromInnerIs
<1> HIDE DEF converted, d
<1>5. /\ DOMAIN ret' = DOMAIN ret \union {c} /\ ret'[c] = converted
      /\ \A x \in DOMAIN ret : x # c => ret'[x] = ret[x]
  BY <1>1
<1>6. NumTasks' = NumTasks /\ (\A u : EndIdx(u)' = EndIdx(u)) /\ todo' = todo /\ running' = running
  BY <1>1 DEF NumTasks, EndIdx, poolVars, evalVars
<1>7. /\ at' \in [Workers -> Nat] /\ at'[t] = d + 1
      /\ \A u \in Workers : u # t => at'[u] = at[u]
  BY <1>1, <1>2 DEF LoadInv, WorkersMatch
<1>8. PoolMatches' /\ CallMatches' /\ EvalMatches' /\ KernelMatches' /\ ResultsMatch' /\ CacheMatches' /\ ReturnMatches'
  BY <1>1 DEF LoadInv, PoolMatches, Pool!TypeOK, CallMatches, EvalMatches, KernelMatches, ResultsMatch,
    CacheMatches, ReturnMatches, callVars, caches, evalVars, poolVars
<1>9. WorkersMatch'
  <2>1. ASSUME NEW u \in Workers, u \in running
        PROVE  at'[u] \in BeginIdx(u, NumTasks) .. EndIdx(u)
    <3>1. CASE u = t
      <4>1. EndIdx(t) \in Nat /\ BeginIdx(t, NumTasks) \in Nat
        BY <1>1, WorkerIs
      <4> QED
        BY <1>2, <1>7, <3>1, <4>1
    <3>2. CASE u # t
      BY <1>7, <2>1, <3>2 DEF LoadInv, WorkersMatch
    <3> QED
      BY <3>1, <3>2
  <2>2. reg' \in [Workers -> SUBSET Int] /\ \A u \in Workers : reg'[u] = NoByte
    BY <1>1 DEF LoadInv, WorkersMatch
  <2>3. running \subseteq Workers
    BY LoadFacts
  <2> QED
    BY <1>6, <1>7, <2>1, <2>2, <2>3 DEF WorkersMatch
<1>10. ConvertMatches'
  <2>1. /\ DOMAIN ret \subseteq ColumnSet
        /\ \A x \in DOMAIN ret : ret[x] = ColumnOf(Kept(filter, file), x)
        /\ \A u \in Workers : \A b \in TasksOf(u, 2) :
             TaskDone(u, b) => ColumnNames[b + 1] \in DOMAIN ret
    BY <1>1 DEF LoadInv, ConvertMatches
  <2>2. \A x \in DOMAIN ret' : ret'[x] = ColumnOf(Kept(filter, file), x)
    BY <1>4, <1>5, <2>1
  <2>3. DOMAIN ret' \subseteq ColumnSet /\ DOMAIN ret' # {} /\ retRows' = Len(Kept(filter, file))
    BY <1>1, <1>3, <1>4, <1>5, <2>1
  <2>4. ASSUME NEW u \in Workers, NEW b \in TasksOf(u, 2), TaskDone(u, b)'
        PROVE  ColumnNames[b + 1] \in DOMAIN ret'
    <3>1. b \in Nat
      BY TasksInside
    <3>2. CASE u = t /\ b = d
      BY <1>5, <3>2 DEF c, d
    <3>3. CASE ~(u = t /\ b = d)
      <4>1. TaskDone(u, b)
        <5>1. CASE u = t
          BY <1>2, <1>6, <1>7, <2>4, <3>1, <3>3, <5>1 DEF TaskDone, d
        <5>2. CASE u # t
          BY <1>6, <1>7, <2>4, <5>2 DEF TaskDone
        <5> QED
          BY <5>1, <5>2
      <4> QED
        BY <1>5, <2>1, <4>1
    <3> QED
      BY <3>2, <3>3
  <2>5. filter' = filter /\ file' = file /\ stage' = "convert"
    BY <1>1 DEF callVars
  <2> QED
    BY <2>2, <2>3, <2>4, <2>5 DEF ConvertMatches
<1> QED
  BY <1>8, <1>9, <1>10 DEF LoadInv

\* Both are when the pool returns.
LEMMA ReturnConvertKept ==
  ASSUME LoadInv, ReturnConvert
  PROVE  LoadInv'
<1>1. /\ stage = "convert" /\ caller = "blocked" /\ todo = {} /\ running = {}
      /\ caller' = "idle" /\ runs' = runs /\ todo' = todo /\ running' = running
      /\ resultCache' = IF filter = NoFilter /\ resultCache = NoTable
                        THEN [columns |-> ret, rows |-> retRows]
                        ELSE resultCache
      /\ stage' = "return"
      /\ UNCHANGED <<tableCache, callVars, evalVars, workVars, retVars>>
  BY DEF ReturnConvert, Pool!Return
<1>2. /\ DOMAIN ret = ColumnSet
      /\ retRows = Len(Kept(filter, file))
      /\ \A c \in ColumnSet : ret[c] = ColumnOf(Kept(filter, file), c)
  <2>1. /\ DOMAIN ret \subseteq ColumnSet
        /\ \A c \in DOMAIN ret : ret[c] = ColumnOf(Kept(filter, file), c)
        /\ retRows = IF DOMAIN ret = {} THEN 0 ELSE Len(Kept(filter, file))
        /\ \A u \in Workers : \A b \in TasksOf(u, 2) :
             TaskDone(u, b) => ColumnNames[b + 1] \in DOMAIN ret
    BY <1>1 DEF LoadInv, ConvertMatches
  <2>2. ASSUME NEW b \in {0, 1}
        PROVE  ColumnNames[b + 1] \in DOMAIN ret
    <3>1. PICK u \in Workers : b \in TasksOf(u, 2)
      BY TasksCover
    <3>2. TaskDone(u, b)
      BY <1>1 DEF TaskDone
    <3> QED
      BY <2>1, <3>1, <3>2
  <2>3. "a" \in DOMAIN ret /\ "s" \in DOMAIN ret
    <3>1. ColumnNames[0 + 1] \in DOMAIN ret /\ ColumnNames[1 + 1] \in DOMAIN ret
      BY <2>2
    <3> QED
      BY <3>1, LoadFacts
  <2> QED
    BY <2>1, <2>3, LoadFacts
<1>3. PoolMatches'
  BY <1>1 DEF LoadInv, PoolMatches, Pool!TypeOK
<1>4. WorkersMatch'
  BY <1>1 DEF LoadInv, WorkersMatch, workVars, HasTask
<1>5. ReturnMatches'
  BY <1>1, <1>2 DEF ReturnMatches, callVars, retVars
<1>6. CacheMatches'
  <2>1. file' = file
    BY <1>1 DEF callVars
  <2>2. CASE filter = NoFilter /\ resultCache = NoTable
    <3>1. Kept(filter, file) = file
      BY <2>2, LoadFacts, KeptAll
    <3> QED
      BY <1>1, <1>2, <2>1, <2>2, <3>1 DEF CacheMatches
  <2>3. CASE ~(filter = NoFilter /\ resultCache = NoTable)
    BY <1>1, <2>1, <2>3 DEF LoadInv, CacheMatches
  <2> QED
    BY <2>2, <2>3
<1>7. CallMatches' /\ EvalMatches' /\ KernelMatches' /\ ResultsMatch' /\ ConvertMatches'
  BY <1>1 DEF LoadInv, CallMatches, EvalMatches, KernelMatches, ResultsMatch, ConvertMatches,
    callVars, evalVars, retVars
<1> QED
  BY <1>3, <1>4, <1>5, <1>6, <1>7 DEF LoadInv

LEMMA ReturnKept ==
  ASSUME LoadInv, Return
  PROVE  LoadInv'
<1>1. /\ stage = "return" /\ stage' = "idle" /\ filter' = NoFilter /\ results' = <<>>
      /\ ret' = <<>> /\ retRows' = 0 /\ runs' = 0
      /\ UNCHANGED <<todo, running, caller, caches, file, loads, code, operands, out, workVars>>
  BY DEF Return
<1>2. PoolMatches'
  BY <1>1, LoadSizes DEF LoadInv, PoolMatches, Pool!TypeOK
<1>3. WorkersMatch'
  BY <1>1, LoadFacts DEF LoadInv, WorkersMatch, workVars
<1>4. CallMatches' /\ EvalMatches' /\ KernelMatches' /\ ResultsMatch' /\ ConvertMatches' /\ CacheMatches' /\ ReturnMatches'
  BY <1>1 DEF LoadInv, CallMatches, EvalMatches, KernelMatches, ResultsMatch, ConvertMatches,
    CacheMatches, ReturnMatches, caches
<1> QED
  BY <1>2, <1>3, <1>4 DEF LoadInv

LEMMA LoadStutterKept ==
  ASSUME LoadInv, UNCHANGED loadVars
  PROVE  LoadInv'
<1>1. UNCHANGED <<runs, todo, running, caller>> /\ UNCHANGED <<tableCache, resultCache>>
      /\ UNCHANGED <<file, loads, filter>> /\ UNCHANGED stage /\ UNCHANGED <<code, operands, out, results>>
      /\ UNCHANGED <<at, reg>> /\ UNCHANGED <<ret, retRows>>
  BY DEF loadVars, poolVars, caches, callVars, evalVars, workVars, retVars
<1>2. PoolMatches' /\ CallMatches' /\ EvalMatches' /\ ResultsMatch' /\ ConvertMatches' /\ CacheMatches' /\ ReturnMatches'
  BY <1>1 DEF LoadInv, PoolMatches, Pool!TypeOK, CallMatches, EvalMatches, ResultsMatch, ConvertMatches,
    CacheMatches, ReturnMatches, TaskDone
<1>3. WorkersMatch' /\ KernelMatches'
  BY <1>1 DEF LoadInv, WorkersMatch, KernelMatches, TaskDone, HasTask, EndIdx, NumTasks, Node
<1> QED
  BY <1>2, <1>3 DEF LoadInv

LEMMA LoadInductive == LoadSpec => []LoadInv
<1>1. ASSUME LoadInv, [LoadNext]_loadVars
      PROVE  LoadInv'
  <2>1. ASSUME NEW f \in Filters \union {NoFilter}, FromResultCache(f) \/ FromTable(f)
        PROVE  LoadInv'
    BY <1>1, <2>1, FromResultCacheKept, FromTableKept
  <2>2. CASE EvalNotNull \/ DispatchKernel \/ ReturnKernel \/ EvalReturns
    BY <1>1, <2>2, EvalNotNullKept, DispatchKernelKept, ReturnKernelKept, EvalReturnsKept
  <2>3. ASSUME NEW t \in Workers, Begin(t) \/ ReadByte(t) \/ WriteByte(t) \/ Convert(t) \/ End(t)
        PROVE  LoadInv'
    BY <1>1, <2>3, BeginKept, ReadByteKept, WriteByteKept, ConvertKept, EndKept
  <2>4. CASE DispatchConvert \/ ReturnConvert \/ Return
    BY <1>1, <2>4, DispatchConvertKept, ReturnConvertKept, ReturnKept
  <2>5. CASE NoMoreLoads \/ UNCHANGED loadVars
    BY <1>1, <2>5, LoadStutterKept DEF NoMoreLoads
  <2> QED
    BY <1>1, <2>1, <2>2, <2>3, <2>4, <2>5 DEF LoadNext
<1> QED
  BY <1>1, LoadInvInit, PTL DEF LoadSpec

-----------------------------------------------------------------------------
(* The load's theorems                                                     *)

\* The bitmaps of an evaluation have a bit for every row of the file, and
\* the columns returned are the table's, however the kernels and the
\* workers of inner_column.h interleave.
THEOREM LoadTypeCorrect == LoadSpec => []LoadTypeOK
<1>1. ASSUME LoadInv
      PROVE  LoadTypeOK
  <2>1. Pool!TypeOK /\ file \in Files /\ loads \in 0 .. MaxLoads /\ filter \in Filters \union {NoFilter}
        /\ stage \in {"idle", "eval", "kernel", "filtered", "convert", "return"}
    BY <1>1 DEF LoadInv, PoolMatches, CallMatches
  <2>2. tableCache = NoTable \/ tableCache.rows = Len(file)
    BY <1>1, LoadFacts, Parsed DEF LoadInv, CallMatches
  <2>3. ASSUME NEW bitmap \in Range(operands) \union (IF stage = "kernel" THEN {out} ELSE {})
        PROVE  bitmap \in Seq(SUBSET Bits) /\ Len(bitmap) = BytesFor(Len(file))
    <3>1. CASE stage = "kernel" /\ bitmap = out
      BY <1>1, <3>1 DEF LoadInv, KernelMatches, IsBits
    <3>2. CASE bitmap \in Range(operands)
      <4>1. operands \in Seq(Seq(SUBSET Bits))
        BY <1>1 DEF LoadInv, EvalMatches
      <4>2. PICK m \in 1 .. Len(operands) : bitmap = operands[m]
        BY <3>2, <4>1, LenProperties DEF Range
      <4>3. operands # <<>>
        BY <4>1, <4>2
      <4>4. PICK q \in Seq(DOMAIN filter) :
              /\ Len(q) = Len(operands)
              /\ \A x \in DOMAIN q : ExactBits(operands[x], filter, q[x], file)
        BY <1>1, <4>3 DEF LoadInv, EvalMatches
      <4>5. m \in DOMAIN q
        BY <4>2, <4>4, LenProperties
      <4> QED
        BY <4>2, <4>4, <4>5 DEF ExactBits, IsBits
    <3> QED
      BY <2>3, <3>1, <3>2
  <2>4. stage \in {"filtered", "convert", "return"} => Len(results) \in {0, BytesFor(Len(file))}
    <3>1. Len(<<>>) = 0
      OBVIOUS
    <3> QED
      BY <1>1, <3>1 DEF LoadInv, ResultsMatch, IsBits
  <2>5. Len(Kept(filter, file)) \in 0 .. Len(file) /\ 0 \in 0 .. Len(file)
    BY <1>1, LoadFacts, KeptSize
  <2>6. DOMAIN ret \subseteq ColumnSet /\ retRows \in 0 .. Len(file)
    <3>1. CASE stage = "return"
      BY <1>1, <2>5, <3>1 DEF LoadInv, ReturnMatches
    <3>2. CASE stage = "convert"
      BY <1>1, <2>5, <3>2 DEF LoadInv, ConvertMatches
    <3>3. CASE stage \notin {"convert", "return"}
      <4>1. DOMAIN <<>> = {}
        OBVIOUS
      <4> QED
        BY <1>1, <2>5, <3>3, <4>1 DEF LoadInv, ConvertMatches
    <3> QED
      BY <3>1, <3>2, <3>3
  <2>7. ColumnSet \subseteq Range(ColumnNames)
    BY LoadFacts DEF Range, ColumnNames, ColumnSet
  <2> QED
    BY <2>1, <2>2, <2>3, <2>4, <2>6, <2>7 DEF LoadTypeOK
<1> QED
  BY <1>1, LoadInductive, PTL

\* No worker of the filter pool is on a byte that another one has before it,
\* is on or will come to, so that the kernels' |= loses no bit.
THEOREM LoadBytesApart == LoadSpec => []BytesApart
<1>1. ASSUME LoadInv
      PROVE  BytesApart
  <2> SUFFICES ASSUME stage = "kernel", NEW t \in running, NEW u \in running, t # u, HasTask(t), HasTask(u)
               PROVE  at[t] .. EndIdx(t) - 1 \intersect at[u] .. EndIdx(u) - 1 = {}
    BY DEF BytesApart
  <2>1. t \in Workers /\ u \in Workers /\ NumTasks \in Nat
    BY <1>1, LoadFacts, WorkerIs
  <2>2. ASSUME NEW w \in {t, u}
        PROVE  at[w] .. EndIdx(w) - 1 \subseteq TasksOf(w, NumTasks)
    <3>1. /\ TasksOf(w, NumTasks) = BeginIdx(w, NumTasks) .. EndIdx(w) - 1
          /\ BeginIdx(w, NumTasks) \in Nat /\ EndIdx(w) \in Nat
          /\ at[w] \in Nat /\ BeginIdx(w, NumTasks) <= at[w]
      BY <1>1, <2>1, WorkerIs
    <3> QED
      BY <3>1
  <2>3. \A b : ~(b \in TasksOf(t, NumTasks) /\ b \in TasksOf(u, NumTasks))
    BY <2>1, TasksDisjoint
  <2> QED
    BY <2>2, <2>3
<1> QED
  BY <1>1, LoadInductive, PTL

\* What from_csv returns is the rows for which the evaluator on records holds,
\* column for column and in the order of the file, for every file and every
\* statement whose INT32 literals are INT32 values.
THEOREM LoadsExact ==
  ASSUME LiteralsFit
  PROVE  LoadSpec => []LoadExact
<1>1. ASSUME LoadInv
      PROVE  LoadExact
  <2> SUFFICES ASSUME stage = "return"
               PROVE  /\ retRows = Len(Passing)
                      /\ \A c \in Range(ColumnNames) : ret[c] = [n \in DOMAIN Passing |-> Passing[n][c]]
    BY DEF LoadExact
  <2>1. Passing = Kept(filter, file)
    BY <1>1, PassingIs DEF LoadInv, CallMatches
  <2>2. Range(ColumnNames) = ColumnSet
    BY LoadFacts DEF Range, ColumnNames, ColumnSet
  <2>3. /\ retRows = Len(Kept(filter, file))
        /\ \A c \in ColumnSet : ret[c] = ColumnOf(Kept(filter, file), c)
    BY <1>1 DEF LoadInv, ReturnMatches
  <2> QED
    BY <2>1, <2>2, <2>3 DEF ColumnOf
<1> QED
  BY <1>1, LoadInductive, PTL
=============================================================================
