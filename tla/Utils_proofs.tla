---------------------------- MODULE Utils_proofs ----------------------------
(***************************************************************************)
(* The two parts of utils.h that the threads of a build share, for every   *)
(* number of threads.  The pool keeps its invariants and implements        *)
(* ForkJoin, for any number of calls and spurious wakeups.  In the slab    *)
(* allocator no two threads ever carve from one chunk, and no entry        *)
(* overwrites another, for any number of partitions, rows and builds, in   *)
(* the arena and past its end.                                             *)
(***************************************************************************)
EXTENDS ThreadPool, SlabAllocator, FiniteSetTheorems, TLAPS

-----------------------------------------------------------------------------
(* The pool                                                                *)

\* Where the threads' names and the finite sets of workers come from.
LEMMA WorkersFacts ==
  /\ NumThreads \in Nat \ {0}
  /\ IsFiniteSet(Workers)
  /\ Cardinality(Workers) = NumThreads
  /\ \A w \in Workers : w \in Nat /\ w # Caller /\ w # NoThread
  /\ Caller # NoThread
  /\ \A S \in SUBSET Workers : IsFiniteSet(S) /\ Cardinality(S) \in 0 .. NumThreads
<1> USE NumThreadsAssumption
<1>1. IsFiniteSet(Workers) /\ Cardinality(Workers) = NumThreads
  BY FS_Interval DEF Workers
<1>2. \A w \in Workers : w \in Nat /\ w # Caller /\ w # NoThread
  BY DEF Workers, Caller, NoThread
<1>3. \A S \in SUBSET Workers : IsFiniteSet(S) /\ Cardinality(S) \in 0 .. NumThreads
  BY <1>1, FS_Subset, FS_CardinalityType
<1> QED
  BY <1>1, <1>2, <1>3 DEF Caller, NoThread

\* The constructor leaves the pool in the invariant: nobody owes anything.
LEMMA InitIInv == Init => IInv
<1> SUFFICES ASSUME Init PROVE IInv
  OBVIOUS
<1> USE WorkersFacts, MaxDispatchesAssumption, MaxSpuriousAssumption
<1>1. TypeOK
  <2>1. /\ mtx \in Workers \union {Caller, NoThread}
        /\ pcCaller \in CallerPCs
        /\ pcWorker \in [Workers -> WorkerPCs]
        /\ shutdown \in BOOLEAN
    BY DEF Init, CallerPCs, WorkerPCs
  <2>2. /\ task \in 0 .. MaxDispatches
        /\ generation \in 0 .. MaxDispatches
        /\ activeCount \in 0 .. NumThreads
        /\ spurious \in 0 .. MaxSpurious
    BY DEF Init
  <2>3. /\ myGeneration \in [Workers -> 0 .. MaxDispatches]
        /\ localTask \in [Workers -> 0 .. MaxDispatches]
    BY DEF Init
  <2> QED
    BY <2>1, <2>2, <2>3 DEF TypeOK
<1>2. CountMatches
  <2>1. Owing = {}
    BY DEF Init, Owing, Owes
  <2> QED
    BY <2>1, FS_EmptySet DEF Init, CountMatches
<1>3. LockMatches /\ GenerationsMatch /\ CallerMatches
  BY DEF Init, LockMatches, GenerationsMatch, CallerMatches, Blocked, Gone
<1>4. AboutToBlock /\ NoLostWakeup
  BY DEF Init, AboutToBlock, NoLostWakeup
<1> QED
  BY <1>1, <1>2, <1>3, <1>4 DEF IInv

-----------------------------------------------------------------------------
(* Preservation.  The count is the part that needs an argument: a step     *)
(* changes the set of owing workers only when the caller publishes, which  *)
(* makes everyone owe, and when a worker counts itself out.                *)

LEMMA CountStep ==
  ASSUME IInv, [Next]_vars
  PROVE  CountMatches' /\ activeCount' \in 0 .. NumThreads
<1> USE WorkersFacts DEF IInv
<1>1. Owing \in SUBSET Workers /\ Owing' \in SUBSET Workers
  BY DEF Owing
<1>2. activeCount' = Cardinality(Owing') => CountMatches' /\ activeCount' \in 0 .. NumThreads
  BY <1>1 DEF CountMatches
<1>3. Owing' = Owing /\ activeCount' = activeCount => activeCount' = Cardinality(Owing')
  BY DEF CountMatches
<1>4. ASSUME NEW w \in Workers, WorkerCountOut(w)
      PROVE  activeCount' = Cardinality(Owing')
  <2>1. w \in Owing /\ Owing' = Owing \ {w}
    BY <1>4 DEF WorkerCountOut, GotoW, Owing, Owes, GenerationsMatch, TypeOK,
                callerVars, workerVars
  <2> QED
    BY <2>1, <1>1, <1>4, FS_RemoveElement DEF WorkerCountOut, CountMatches
<1>5. ASSUME CallerPublish
      PROVE  activeCount' = Cardinality(Owing')
  <2>1. Owing' = Workers
    BY <1>5 DEF CallerPublish, Owing, Owes, GenerationsMatch, TypeOK, workerVars
  <2> QED
    BY <2>1, <1>5 DEF CallerPublish
<1>6. ASSUME NEW w \in Workers, WorkerStep(w), ~WorkerCountOut(w)
      PROVE  Owing' = Owing /\ activeCount' = activeCount
  <2>1. CASE WorkerTake(w)
    BY <2>1 DEF WorkerTake, GotoW, StartPredicate, Owing, Owes, GenerationsMatch,
                TypeOK, callerVars
  <2>2. CASE \/ WorkerLock(w) \/ WorkerMustWait(w) \/ WorkerSleep(w)
             \/ WorkerExit(w) \/ WorkerLeaveTask(w) \/ WorkerLockDone(w)
             \/ WorkerNotify(w)
    BY <2>2 DEF WorkerLock, WorkerMustWait, WorkerSleep, WorkerExit,
                WorkerLeaveTask, WorkerLockDone, WorkerNotify, GotoW, Owing, Owes,
                TypeOK, callerVars, workerVars
  <2> QED
    BY <1>6, <2>1, <2>2 DEF WorkerStep
<1>7. ASSUME CallerStep, ~CallerPublish
      PROVE  Owing' = Owing /\ activeCount' = activeCount
  BY <1>7 DEF CallerStep, CallerLock, CallerNotifyAll, CallerReturn, CallerMustWait,
              CallerBlock, CallerShutdown, CallerJoin, Owing, Owes, TypeOK,
              callerVars, workerVars
<1>8. ASSUME Call \/ DestroyPool \/ SpuriousWakeup \/ Terminated \/ UNCHANGED vars
      PROVE  Owing' = Owing /\ activeCount' = activeCount
  BY <1>8 DEF Call, DestroyPool, SpuriousWakeup, Terminated, GotoW, Owing, Owes,
              TypeOK, vars, callerVars, workerVars
<1> QED
  BY <1>2, <1>3, <1>4, <1>5, <1>6, <1>7, <1>8 DEF Next

\* A count of zero means what it says.
LEMMA NothingOwed ==
  ASSUME IInv, activeCount = 0, NEW w \in Workers
  PROVE  myGeneration[w] = generation /\ pcWorker[w] \notin {"run", "sub"}
<1>1. Owing = {}
  BY WorkersFacts, FS_EmptySet DEF IInv, CountMatches, Owing
<1>2. ~Owes(w)
  BY <1>1 DEF Owing
<1> QED
  BY <1>2, MaxDispatchesAssumption DEF Owes, IInv, TypeOK, GenerationsMatch

\* The count is bounded by CountStep, the rest by the shape of the steps.
LEMMA TypeStep ==
  ASSUME IInv, [Next]_vars
  PROVE  TypeOK'
<1> USE WorkersFacts, MaxDispatchesAssumption, MaxSpuriousAssumption
    DEF IInv, TypeOK, callerVars, workerVars
<1>1. ASSUME NEW w \in Workers, WorkerStep(w)
      PROVE  TypeOK'
  <2>1. /\ mtx' \in Workers \union {Caller, NoThread}
        /\ pcCaller' \in CallerPCs
        /\ pcWorker' \in [Workers -> WorkerPCs]
    BY <1>1 DEF WorkerStep, GotoW, WakeCaller, CallerPCs, WorkerPCs, WorkerLock,
                WorkerMustWait, WorkerSleep, WorkerExit, WorkerTake, WorkerLeaveTask,
                WorkerCountOut, WorkerLockDone, WorkerNotify
  <2>2. /\ UNCHANGED <<task, generation, shutdown, spurious>>
        /\ myGeneration' \in [Workers -> 0 .. MaxDispatches]
        /\ localTask' \in [Workers -> 0 .. MaxDispatches]
    BY <1>1 DEF WorkerStep, WorkerLock,
                WorkerMustWait, WorkerSleep, WorkerExit, WorkerTake, WorkerLeaveTask,
                WorkerCountOut, WorkerLockDone, WorkerNotify
  <2> QED
    BY <2>1, <2>2, CountStep
<1>2. CASE CallerStep
  <2>1. /\ mtx' \in Workers \union {Caller, NoThread}
        /\ pcCaller' \in CallerPCs
        /\ pcWorker' \in [Workers -> WorkerPCs]
        /\ UNCHANGED <<spurious, myGeneration, localTask>>
        /\ shutdown' \in BOOLEAN
    BY <1>2 DEF CallerStep, GotoC, CallerPCs, WorkerPCs, CallerLock, CallerPublish,
                CallerNotifyAll, CallerReturn, CallerMustWait, CallerBlock,
                CallerShutdown, CallerJoin
  <2>2. task' \in 0 .. MaxDispatches /\ generation' \in 0 .. MaxDispatches
    BY <1>2 DEF CallerStep, GotoC, CallerLock, CallerPublish, CallerMatches,
                CallerNotifyAll, CallerReturn, CallerMustWait, CallerBlock,
                CallerShutdown, CallerJoin
  <2> QED
    BY <2>1, <2>2, CountStep
<1>3. CASE Call \/ DestroyPool \/ SpuriousWakeup \/ Terminated \/ UNCHANGED vars
  <2>1. /\ mtx' \in Workers \union {Caller, NoThread}
        /\ pcCaller' \in CallerPCs
        /\ pcWorker' \in [Workers -> WorkerPCs]
        /\ UNCHANGED <<task, generation, shutdown, myGeneration, localTask>>
        /\ spurious' \in 0 .. MaxSpurious
    BY <1>3 DEF Call, DestroyPool, SpuriousWakeup, Terminated, GotoW, GotoC, vars,
                CallerPCs, WorkerPCs
  <2> QED
    BY <2>1, CountStep
<1> QED
  BY <1>1, <1>2, <1>3 DEF Next

\* Whoever enters a locked place finds mtx_ free, whoever leaves it frees it.
LEMMA LockStep ==
  ASSUME IInv, [Next]_vars
  PROVE  LockMatches'
<1> USE WorkersFacts
    DEF IInv, TypeOK, callerVars, workerVars, LockMatches
<1>1. ASSUME NEW w \in Workers, WorkerStep(w)
      PROVE  LockMatches'
  BY <1>1 DEF WorkerStep, GotoW, StartPredicate, WakeCaller, WorkerLock,
                   WorkerMustWait, WorkerSleep, WorkerExit, WorkerTake,
                   WorkerLeaveTask, WorkerCountOut, WorkerLockDone, WorkerNotify
<1>2. CASE CallerStep
  BY <1>2 DEF CallerStep, GotoC, StartPredicate, CallerLock, CallerPublish,
                   CallerNotifyAll, CallerReturn, CallerMustWait, CallerBlock,
                   CallerShutdown, CallerJoin
<1>3. CASE Call \/ DestroyPool \/ SpuriousWakeup \/ Terminated \/ UNCHANGED vars
  BY <1>3 DEF Call, DestroyPool, SpuriousWakeup, Terminated, GotoW, GotoC,
              StartPredicate, vars
<1> QED
  BY <1>1, <1>2, <1>3 DEF Next

\* The caller publishes only when nobody is in a task, as nothing is owed.
LEMMA GenerationStep ==
  ASSUME IInv, [Next]_vars
  PROVE  GenerationsMatch'
<1>0. activeCount = 0 => \A w \in Workers : myGeneration[w] = generation
                                         /\ pcWorker[w] \notin {"run", "sub"}
  BY NothingOwed
<1> USE WorkersFacts, MaxDispatchesAssumption
    DEF IInv, TypeOK, callerVars, workerVars, GenerationsMatch, CallerMatches, Blocked
<1>1. ASSUME NEW w \in Workers, WorkerStep(w)
      PROVE  GenerationsMatch'
  BY <1>1, <1>0 DEF WorkerStep, GotoW, StartPredicate, WakeCaller, WorkerLock,
                   WorkerMustWait, WorkerSleep, WorkerExit, WorkerTake,
                   WorkerLeaveTask, WorkerCountOut, WorkerLockDone, WorkerNotify
<1>2. CASE CallerStep
  BY <1>2, <1>0 DEF CallerStep, GotoC, StartPredicate, CallerLock, CallerPublish,
                   CallerNotifyAll, CallerReturn, CallerMustWait, CallerBlock,
                   CallerShutdown, CallerJoin
<1>3. CASE Call \/ DestroyPool \/ SpuriousWakeup \/ Terminated \/ UNCHANGED vars
  BY <1>3 DEF Call, DestroyPool, SpuriousWakeup, Terminated, GotoW, GotoC,
              StartPredicate, vars
<1> QED
  BY <1>1, <1>2, <1>3 DEF Next

\* run_parallel returns with nothing owed, and then nothing is counted out.
LEMMA CallerPlaceStep ==
  ASSUME IInv, [Next]_vars
  PROVE  CallerMatches'
<1>0. activeCount = 0 => \A w \in Workers : myGeneration[w] = generation
                                         /\ pcWorker[w] \notin {"run", "sub"}
  BY NothingOwed
<1> USE WorkersFacts
    DEF IInv, TypeOK, callerVars, workerVars, CallerMatches, Blocked, Gone
<1>1. ASSUME NEW w \in Workers, WorkerStep(w)
      PROVE  CallerMatches'
  BY <1>1, <1>0 DEF WorkerStep, GotoW, StartPredicate, WakeCaller, WorkerLock,
                   WorkerMustWait, WorkerSleep, WorkerExit, WorkerTake,
                   WorkerLeaveTask, WorkerCountOut, WorkerLockDone, WorkerNotify
<1>2. CASE CallerStep
  BY <1>2, <1>0 DEF CallerStep, GotoC, StartPredicate, CallerLock, CallerPublish,
                   CallerNotifyAll, CallerReturn, CallerMustWait, CallerBlock,
                   CallerShutdown, CallerJoin
<1>3. CASE Call \/ DestroyPool \/ SpuriousWakeup \/ Terminated \/ UNCHANGED vars
  BY <1>3 DEF Call, DestroyPool, SpuriousWakeup, Terminated, GotoW, GotoC,
              StartPredicate, vars
<1> QED
  BY <1>1, <1>2, <1>3 DEF Next

\* What a predicate reads changes under the lock, except the count, whose last
\* decrement leads to lockDone.
LEMMA BlockStep ==
  ASSUME IInv, [Next]_vars
  PROVE  AboutToBlock'
<1> USE WorkersFacts
    DEF IInv, TypeOK, callerVars, workerVars, AboutToBlock, LockMatches, CallerMatches
<1>1. ASSUME NEW w \in Workers, WorkerStep(w)
      PROVE  AboutToBlock'
  BY <1>1 DEF WorkerStep, GotoW, StartPredicate, WakeCaller, WorkerLock,
                   WorkerMustWait, WorkerSleep, WorkerExit, WorkerTake,
                   WorkerLeaveTask, WorkerCountOut, WorkerLockDone, WorkerNotify
<1>2. CASE CallerStep
  BY <1>2 DEF CallerStep, GotoC, StartPredicate, CallerLock, CallerPublish,
                   CallerNotifyAll, CallerReturn, CallerMustWait, CallerBlock,
                   CallerShutdown, CallerJoin
<1>3. CASE Call \/ DestroyPool \/ SpuriousWakeup \/ Terminated \/ UNCHANGED vars
  BY <1>3 DEF Call, DestroyPool, SpuriousWakeup, Terminated, GotoW, GotoC,
              StartPredicate, vars
<1> QED
  BY <1>1, <1>2, <1>3 DEF Next

\* A thread that is to notify does so, and leaves nobody it should wake.
LEMMA WakeupStep ==
  ASSUME IInv, [Next]_vars
  PROVE  NoLostWakeup'
<1> USE WorkersFacts
    DEF IInv, TypeOK, callerVars, workerVars, NoLostWakeup, AboutToBlock, LockMatches, Gone
<1>1. ASSUME NEW w \in Workers, WorkerStep(w)
      PROVE  NoLostWakeup'
  BY <1>1 DEF WorkerStep, GotoW, StartPredicate, WakeCaller, WorkerLock,
                   WorkerMustWait, WorkerSleep, WorkerExit, WorkerTake,
                   WorkerLeaveTask, WorkerCountOut, WorkerLockDone, WorkerNotify
<1>2. CASE CallerStep
  BY <1>2 DEF CallerStep, GotoC, StartPredicate, CallerLock, CallerPublish,
                   CallerNotifyAll, CallerReturn, CallerMustWait, CallerBlock,
                   CallerShutdown, CallerJoin
<1>3. CASE Call \/ DestroyPool \/ SpuriousWakeup \/ Terminated \/ UNCHANGED vars
  BY <1>3 DEF Call, DestroyPool, SpuriousWakeup, Terminated, GotoW, GotoC,
              StartPredicate, vars
<1> QED
  BY <1>1, <1>2, <1>3 DEF Next

-----------------------------------------------------------------------------
\* Every step keeps every part of the invariant.
LEMMA Inductive == Spec => []IInv
<1>1. IInv /\ [Next]_vars => IInv'
  BY TypeStep, LockStep, GenerationStep, CountStep, CallerPlaceStep, BlockStep,
     WakeupStep DEF IInv
<1> QED
  BY <1>1, InitIInv, PTL DEF Spec

\* worker_loop, run_parallel and the destructor keep every variable of the
\* pool in its type; active_count_ never wraps below zero.
THEOREM TypeCorrect == Spec => []TypeOK
<1>1. IInv => TypeOK
  BY DEF IInv
<1> QED
  BY <1>1, Inductive, PTL

\* active_count_ counts the workers that still owe the current call something,
\* whatever the interleaving of run_parallel and worker_loop.
THEOREM CountCorrect == Spec => []CountMatches
<1>1. IInv => CountMatches
  BY DEF IInv
<1> QED
  BY <1>1, Inductive, PTL

\* A worker inside a task runs the one its blocked caller has published, so
\* the frame that the task captures by reference is alive.
THEOREM FramesAlive == Spec => []TaskFrameAlive
<1>1. IInv => TaskFrameAlive
  <2> SUFFICES ASSUME IInv, NEW w \in Workers, pcWorker[w] = "run"
               PROVE  pcCaller \in Blocked /\ localTask[w] = generation
    BY DEF TaskFrameAlive
  <2>1. activeCount # 0
    BY NothingOwed
  <2> QED
    BY <2>1 DEF IInv, CallerMatches, GenerationsMatch
<1> QED
  BY <1>1, Inductive, PTL

\* Neither condition variable ever loses the wakeup of a thread whose
\* predicate has become true.
THEOREM WakeupsKept == Spec => []NoLostWakeup
<1>1. IInv => NoLostWakeup
  BY DEF IInv
<1> QED
  BY <1>1, Inductive, PTL

-----------------------------------------------------------------------------
(* The refinement.  run_parallel's publication is Dispatch, a worker's copy *)
(* of the task is Begin, its return from the task is End, the caller's      *)
(* finding the count at zero is Return, shutdown_ is Destroy.               *)

\* The constructed pool is the abstract one, idle.
LEMMA RefinementInit == Init => FJ!Init
  BY DEF Init, FJ!Init, Blocked, Gone

\* Every step of the pool is a step of the abstract one or none.
LEMMA RefinementStep ==
  ASSUME IInv, [Next]_vars
  PROVE  [FJ!Next]_(FJ!poolVars)
<1> DEFINE todo == {w \in Workers : myGeneration[w] < generation}
           running == {w \in Workers : pcWorker[w] = "run"}
           caller == CASE pcCaller \in Blocked -> "blocked"
                       [] pcCaller \in Gone -> "gone"
                       [] OTHER -> "idle"
           Stutter == UNCHANGED <<generation, todo, running, caller>>
<1> USE WorkersFacts, MaxDispatchesAssumption
    DEF IInv, TypeOK, callerVars, workerVars, FJ!Workers, Workers
<1>0. Stutter => [FJ!Next]_(FJ!poolVars)
  BY DEF FJ!poolVars
<1>1. ASSUME NEW w \in Workers, WorkerStep(w)
      PROVE  [FJ!Next]_(FJ!poolVars)
  <2>1. CASE WorkerTake(w)
    <3>1. generation > myGeneration[w] /\ pcWorker[w] = "check"
      BY <2>1 DEF WorkerTake, GotoW, StartPredicate
    <3>2. todo' = todo \ {w} /\ running' = running \union {w}
      BY <2>1, <3>1 DEF WorkerTake, GotoW
    <3>3. UNCHANGED <<generation, caller>>
      BY <2>1 DEF WorkerTake
    <3> QED
      BY <3>1, <3>2, <3>3 DEF FJ!Next, FJ!Begin
  <2>2. CASE WorkerLeaveTask(w)
    <3>1. w \in running /\ running' = running \ {w}
      BY <2>2 DEF WorkerLeaveTask, GotoW
    <3>2. UNCHANGED <<generation, todo, caller>>
      BY <2>2 DEF WorkerLeaveTask
    <3> QED
      BY <3>1, <3>2 DEF FJ!Next, FJ!End
  <2>3. CASE \/ WorkerLock(w) \/ WorkerMustWait(w) \/ WorkerSleep(w) \/ WorkerExit(w)
             \/ WorkerCountOut(w) \/ WorkerLockDone(w) \/ WorkerNotify(w)
    <3>1. Stutter
      BY <2>3 DEF WorkerLock, WorkerMustWait, WorkerSleep, WorkerExit, WakeCaller,
                  WorkerCountOut, WorkerLockDone, WorkerNotify, GotoW, Blocked, Gone
    <3> QED
      BY <3>1, <1>0
  <2> QED
    BY <1>1, <2>1, <2>2, <2>3 DEF WorkerStep
<1>2. CASE CallerStep
  <2>1. CASE CallerPublish
    <3>1. todo' = Workers /\ generation' = generation + 1 /\ generation < MaxDispatches
      BY <2>1 DEF CallerPublish, GotoC, GenerationsMatch, CallerMatches
    <3>2. caller = "idle" /\ caller' = "blocked" /\ running' = running
      BY <2>1 DEF CallerPublish, GotoC, Blocked, Gone
    <3> QED
      BY <3>1, <3>2 DEF FJ!Next, FJ!Dispatch
  <2>2. CASE CallerReturn
    <3>1. todo = {} /\ running = {}
      BY <2>2, NothingOwed DEF CallerReturn
    <3>2. caller = "blocked" /\ caller' = "idle"
      BY <2>2 DEF CallerReturn, GotoC, Blocked, Gone
    <3>3. UNCHANGED <<generation, todo, running>>
      BY <2>2 DEF CallerReturn
    <3> QED
      BY <3>1, <3>2, <3>3 DEF FJ!Next, FJ!Return
  <2>3. CASE CallerShutdown
    <3>1. caller = "idle" /\ caller' = "gone" /\ UNCHANGED <<generation, todo, running>>
      BY <2>3 DEF CallerShutdown, GotoC, Blocked, Gone
    <3> QED
      BY <3>1 DEF FJ!Next, FJ!Destroy
  <2>4. CASE CallerLock \/ CallerNotifyAll \/ CallerMustWait \/ CallerBlock \/ CallerJoin
    <3>1. Stutter
      BY <2>4 DEF CallerLock, CallerNotifyAll, CallerMustWait, CallerBlock, CallerJoin,
                  GotoC, Blocked, Gone
    <3> QED
      BY <3>1, <1>0
  <2> QED
    BY <1>2, <2>1, <2>2, <2>3, <2>4 DEF CallerStep
<1>3. CASE Call \/ DestroyPool \/ SpuriousWakeup \/ Terminated \/ UNCHANGED vars
  <2>1. Stutter
    BY <1>3 DEF Call, DestroyPool, SpuriousWakeup, Terminated, GotoW, GotoC, vars,
                Blocked, Gone
  <2> QED
    BY <2>1, <1>0
<1> QED
  BY <1>1, <1>2, <1>3 DEF Next

\* The pool implements the abstract fork-join: every worker runs every task
\* once, and no run_parallel returns and no destructor starts before that.
THEOREM ImplementsForkJoin == Spec => ForkJoinSpec
<1>1. ASSUME IInv, [Next]_vars
      PROVE  [FJ!Next]_(FJ!poolVars)
  BY <1>1, RefinementStep
<1> QED
  BY <1>1, RefinementInit, Inductive, PTL DEF Spec, ForkJoinSpec, FJ!Spec

-----------------------------------------------------------------------------
(* The slab allocator                                                      *)

\* The LargeChunks that allocate has returned since the arena was reset.
Handed ==
  {l \in Larges : \/ l[1] = "arena" /\ l[2] < nextIdx /\ l[2] < arenaCapacity
                  \/ l[1] = "heap" /\ l[2] < heap}

\* A thread carves from a LargeChunk it was handed, and nobody else does.
LargesApart ==
  \A t \in Workers :
    level2[t] # NoLarge =>
      /\ level2[t].chunk \in Handed
      /\ \A u \in Workers : level2[u].chunk = level2[t].chunk => u = t

\* A partition carves from a SmallChunk that its thread has carved before,
\* perhaps from a LargeChunk it has left since.
SmallsCarved ==
  \A t \in Workers, p \in Partitions :
    level3[t][p] # NoSmall =>
      /\ level3[t][p].chunk[1] \in Handed
      /\ \A u \in Workers :
           level2[u].chunk = level3[t][p].chunk[1] =>
             u = t /\ level3[t][p].chunk[2] < level2[u].current

\* Nobody else does: another thread has other LargeChunks, another partition
\* of the thread other SmallChunks.
SmallsApart ==
  \A t, u \in Workers, p, q \in Partitions :
    level3[t][p] # NoSmall =>
      /\ level3[u][q].chunk[1] = level3[t][p].chunk[1] => u = t
      /\ level3[u][q].chunk = level3[t][p].chunk => u = t /\ q = p

\* What is written lies in front of where the allocators go on.
MemoryBehind ==
  /\ IsFiniteSet(memory)
  /\ \A a \in memory :
       /\ a[1][1] \in Handed
       /\ \A t \in Workers :
            /\ level2[t].chunk = a[1][1] => a[1][2] < level2[t].current
            /\ \A p \in Partitions :
                 level3[t][p].chunk = a[1] => a[2] < level3[t][p].current

SlabInv ==
  /\ SlabTypeOK
  /\ LargesApart
  /\ SmallsCarved
  /\ SmallsApart
  /\ MemoryBehind

-----------------------------------------------------------------------------
\* What the sizes of the chunks leave room for, and the rows of a build.
LEMMA SizeFacts ==
  /\ NumThreads \in Nat \ {0}
  /\ NumPartitions \in Nat \ {0}
  /\ SmallsHeld \in Nat \ {0}
  /\ EntriesHeld \in Nat \ {0}
  /\ Totals \subseteq Nat
  /\ MaxBuilds \in Nat
BY NumThreadsAssumption, SlabAssumption DEF SmallsHeld, EntriesHeld

\* An allocator without space is one.
LEMMA NoChunkTypes ==
  /\ NoLarge \in [chunk : Larges, current : 0 .. SmallsHeld]
  /\ NoSmall \in [chunk : Smalls, current : 0 .. EntriesHeld]
BY SizeFacts DEF NoLarge, NoSmall, Larges, Smalls

\* Rounding up gives a natural number.
LEMMA CeilDivType ==
  ASSUME NEW n \in Nat, NEW d \in Nat \ {0}
  PROVE  CeilDiv(n, d) \in Nat
BY DEF CeilDiv

\* The smaller of two numbers.
LEMMA MinOfTwo ==
  ASSUME NEW a \in Nat, NEW b \in Nat
  PROVE  /\ Min({a, b}) \in Nat
         /\ Min({a, b}) = IF a <= b THEN a ELSE b
BY DEF Min

\* A thread's range of rows does not end before it begins.
LEMMA RangeSizeType ==
  ASSUME NEW t \in Workers, NEW total \in Nat
  PROVE  RangeSize(t, total) \in Nat
<1> DEFINE share == CeilDiv(total, NumThreads)
<1>1. share \in Nat /\ t \in Nat
  BY CeilDivType, SizeFacts DEF Workers
<1> HIDE DEF share
<1>2. t * share \in Nat /\ (t + 1) * share \in Nat /\ t * share <= (t + 1) * share
  <2>1. t * share \in Nat
    BY <1>1
  <2>2. (t + 1) * share = t * share + share
    BY <1>1
  <2> QED
    BY <1>1, <2>1, <2>2
<1>3. Min({(t + 1) * share, total}) - Min({t * share, total}) \in Nat
  <2> DEFINE from == t * share
             to == (t + 1) * share
  <2>1. from \in Nat /\ to \in Nat /\ from <= to
    BY <1>2
  <2> HIDE DEF from, to
  <2>2. Min({to, total}) - Min({from, total}) \in Nat
    BY <2>1, MinOfTwo
  <2> QED
    BY <2>2 DEF from, to
<1> QED
  BY <1>3 DEF RangeSize, share

\* Nor is the arena asked for a negative number of chunks.
LEMMA NumLargeChunksType ==
  ASSUME NEW total \in Nat
  PROVE  NumLargeChunks(total) \in Nat
<1>1. SmallsPerLarge \in Nat \ {0} /\ TuplesPerSmall \in Nat \ {0}
  BY SlabAssumption
<1>2. TuplesPerSmall * SmallsPerLarge \in Nat \ {0}
  BY <1>1
<1>3. CeilDiv(total, TuplesPerSmall * SmallsPerLarge) \in Nat
  BY <1>2, CeilDivType
<1>4. CeilDiv(NumPartitions, SmallsPerLarge) \in Nat
  BY <1>1, SizeFacts, CeilDivType
<1>5. ASSUME NEW c \in Nat PROVE NumThreads * (c + 1) \in Nat
  BY SizeFacts
<1> QED
  BY <1>3, <1>4, <1>5 DEF NumLargeChunks

-----------------------------------------------------------------------------
\* Without chunks and entries there is nothing to collide: at the start and
\* after StartBuild and EndBuild.
Fresh ==
  /\ level2 = [t \in Workers |-> NoLarge]
  /\ level3 = [t \in Workers |-> [p \in Partitions |-> NoSmall]]
  /\ memory = {}

\* The part of the type invariant about the chunks.
ChunkTypes ==
  /\ level2 \in [Workers -> [chunk : Larges, current : 0 .. SmallsHeld]]
  /\ level3 \in [Workers -> [Partitions -> [chunk : Smalls, current : 0 .. EntriesHeld]]]
  /\ memory \subseteq Smalls \X Nat

\* What is unused satisfies the invariant.
LEMMA NothingHandedOut ==
  Fresh => ChunkTypes /\ LargesApart /\ SmallsCarved /\ SmallsApart /\ MemoryBehind
<1> SUFFICES ASSUME Fresh
             PROVE  ChunkTypes /\ LargesApart /\ SmallsCarved /\ SmallsApart /\ MemoryBehind
  OBVIOUS
<1>1. LargesApart /\ SmallsCarved /\ SmallsApart /\ MemoryBehind
  BY FS_EmptySet DEF Fresh, LargesApart, SmallsCarved, SmallsApart, MemoryBehind
<1>2. level2 \in [Workers -> [chunk : Larges, current : 0 .. SmallsHeld]]
  BY NoChunkTypes DEF Fresh
<1>3. level3 \in [Workers -> [Partitions -> [chunk : Smalls, current : 0 .. EntriesHeld]]]
  BY NoChunkTypes DEF Fresh
<1> QED
  BY <1>1, <1>2, <1>3 DEF Fresh, ChunkTypes

\* The program starts without chunks.
LEMMA SlabInvInit == SlabInit => SlabInv
<1> SUFFICES ASSUME SlabInit PROVE SlabInv
  OBVIOUS
<1>1. Fresh
  BY DEF SlabInit, Fresh
<1>2. /\ arenaCapacity \in Nat /\ nextIdx \in Nat /\ heap \in Nat
      /\ builds \in 0 .. MaxBuilds
      /\ rows \in [Workers -> Nat]
  BY SizeFacts DEF SlabInit
<1>3. building \in BOOLEAN
  BY DEF SlabInit
<1> QED
  BY <1>1, <1>2, <1>3, NothingHandedOut DEF SlabInv, SlabTypeOK, ChunkTypes

-----------------------------------------------------------------------------
\* A build starts with no chunk handed out, and ends like that.
LEMMA BoundaryStep ==
  ASSUME SlabInv, StartBuild \/ EndBuild
  PROVE  SlabInv'
<1> USE DEF SlabInv, SlabTypeOK
<1>1. Fresh'
  BY DEF StartBuild, EndBuild, NewStates, Fresh
<1>2. (ChunkTypes /\ LargesApart /\ SmallsCarved /\ SmallsApart /\ MemoryBehind)'
  BY <1>1, NothingHandedOut, PTL
<1>3. nextIdx' \in Nat /\ arenaCapacity' \in Nat /\ heap' \in Nat
  BY NumLargeChunksType, SizeFacts DEF StartBuild, EndBuild, Reserved, globalVars
<1>4. builds' \in 0 .. MaxBuilds
  BY SizeFacts DEF StartBuild, EndBuild
<1>5. building' \in BOOLEAN
  BY DEF StartBuild, EndBuild
<1>6. rows' \in [Workers -> Nat]
  <2>1. CASE EndBuild
    BY <2>1 DEF EndBuild
  <2>2. CASE StartBuild
    <3>1. PICK total \in Totals, keyless \in SUBSET Workers :
            rows' = [t \in Workers |-> IF t \in keyless THEN 0 ELSE RangeSize(t, total)]
      BY <2>2 DEF StartBuild
    <3>2. \A t \in Workers : RangeSize(t, total) \in Nat
      BY RangeSizeType, SizeFacts
    <3> QED
      BY <3>1, <3>2
  <2> QED
    BY <2>1, <2>2
<1> QED
  BY <1>2, <1>3, <1>4, <1>5, <1>6 DEF ChunkTypes

\* What a step of consume changes, case by case.
LEMMA PlaceEffect ==
  ASSUME SlabInv, NEW t \in Workers, NEW p \in Partitions,
         NEW small \in Smalls, NEW current \in 0 .. EntriesHeld - 1,
         Place(t, p, small, current)
  PROVE  /\ level3' \in [Workers -> [Partitions -> [chunk : Smalls, current : 0 .. EntriesHeld]]]
         /\ level3'[t][p].chunk = small /\ level3'[t][p].current = current + 1
         /\ \A u \in Workers, q \in Partitions :
              <<u, q>> # <<t, p>> => level3'[u][q] = level3[u][q]
         /\ memory' = memory \union {<<small, current>>}
         /\ memory' \subseteq Smalls \X Nat
<1> USE SizeFacts DEF SlabInv, SlabTypeOK, Place
<1>1. [chunk |-> small, current |-> current + 1] \in [chunk : Smalls, current : 0 .. EntriesHeld]
  OBVIOUS
<1> QED
  BY <1>1

\* Where the partition's SmallChunk has room.
LEMMA InSmallStep ==
  ASSUME SlabInv, NEW t \in Workers, NEW p \in Partitions, ConsumeInSmall(t, p)
  PROVE  /\ ChunkTypes' /\ LargesApart' /\ SmallsCarved' /\ SmallsApart' /\ MemoryBehind'
         /\ <<level3[t][p].chunk, level3[t][p].current>> \notin memory
<1> DEFINE c == level3[t][p].chunk
           k == level3[t][p].current
<1> USE SizeFacts DEF SlabInv, SlabTypeOK
<1>1. c \in Smalls /\ k \in 0 .. EntriesHeld - 1 /\ level3[t][p] # NoSmall
  BY DEF ConsumeInSmall, NoSmall
<1>2. /\ level3' \in [Workers -> [Partitions -> [chunk : Smalls, current : 0 .. EntriesHeld]]]
      /\ level3'[t][p].chunk = c /\ level3'[t][p].current = k + 1
      /\ \A u \in Workers, q \in Partitions : <<u, q>> # <<t, p>> => level3'[u][q] = level3[u][q]
      /\ memory' = memory \union {<<c, k>>}
      /\ memory' \subseteq Smalls \X Nat
  BY <1>1, PlaceEffect DEF ConsumeInSmall
<1>3. UNCHANGED <<arenaCapacity, nextIdx, heap, level2>>
  BY DEF ConsumeInSmall, globalVars
<1> HIDE DEF c, k
<1>4. Handed' = Handed
  BY <1>3 DEF Handed
<1>5. <<c, k>> \notin memory
  <2> SUFFICES ASSUME NEW a \in memory, a = <<c, k>> PROVE FALSE
    OBVIOUS
  <2>1. a[1] = c /\ a[2] = k
    OBVIOUS
  <2>2. k < k
    BY <2>1 DEF MemoryBehind, c, k
  <2> QED
    BY <1>1, <2>2
<1>6. \A u \in Workers, q \in Partitions : level3'[u][q].chunk = level3[u][q].chunk
  BY <1>2 DEF c
<1>7. \A u \in Workers, q \in Partitions : level3'[u][q] # NoSmall => level3[u][q] # NoSmall
  BY <1>1, <1>2
<1>8. ChunkTypes'
  BY <1>2, <1>3 DEF ChunkTypes
<1>9. LargesApart'
  BY <1>3, <1>4 DEF LargesApart
<1>10. SmallsCarved'
  BY <1>3, <1>4, <1>6, <1>7 DEF SmallsCarved
<1>11. SmallsApart'
  BY <1>6, <1>7 DEF SmallsApart
<1>12. MemoryBehind'
  <2>1. IsFiniteSet(memory')
    BY <1>2, FS_AddElement DEF MemoryBehind
  <2>2. ASSUME NEW a \in memory'
        PROVE  a[1][1] \in Handed'
    BY <1>1, <1>2, <1>4, <2>2 DEF MemoryBehind, SmallsCarved, c
  <2>3. ASSUME NEW a \in memory', NEW u \in Workers, level2'[u].chunk = a[1][1]
        PROVE  a[1][2] < level2'[u].current
    <3>1. CASE a \in memory
      BY <1>3, <2>3, <3>1 DEF MemoryBehind
    <3>2. CASE a = <<c, k>>
      <4>1. a[1] = level3[t][p].chunk
        BY <3>2 DEF c
      <4> QED
        BY <1>1, <1>3, <2>3, <4>1 DEF SmallsCarved
    <3> QED
      BY <1>2, <3>1, <3>2
  <2>4. ASSUME NEW a \in memory', NEW u \in Workers, NEW q \in Partitions,
               level3'[u][q].chunk = a[1]
        PROVE  a[2] < level3'[u][q].current
    <3>1. CASE a \in memory
      <4>1. a[2] < level3[u][q].current
        BY <1>6, <2>4, <3>1 DEF MemoryBehind
      <4>2. /\ a[2] \in Nat /\ level3[u][q].current \in Nat
            /\ \/ level3'[u][q] = level3[u][q]
               \/ level3'[u][q].current = level3[u][q].current + 1
        BY <1>2, <3>1 DEF k
      <4> QED
        BY <4>1, <4>2
    <3>2. CASE a = <<c, k>>
      <4>1. level3[u][q].chunk = level3[t][p].chunk
        BY <1>6, <2>4, <3>2 DEF c
      <4>2. u = t /\ q = p
        BY <1>1, <4>1 DEF SmallsApart
      <4> QED
        BY <4>2, <1>1, <1>2, <3>2
    <3> QED
      BY <1>2, <3>1, <3>2
  <2> QED
    BY <2>1, <2>2, <2>3, <2>4 DEF MemoryBehind
<1> QED
  BY <1>5, <1>8, <1>9, <1>10, <1>11, <1>12 DEF c, k

\* Where it needs another, large and small of which is the first that nobody
\* has carved: the two other cases of consume.
LEMMA NewChunkStep ==
  ASSUME SlabInv, NEW t \in Workers, NEW p \in Partitions,
         NEW large \in Larges, NEW small \in 0 .. SmallsHeld - 1,
         large \in Handed',
         Handed \subseteq Handed',
         level2' = [level2 EXCEPT ![t] = [chunk |-> large, current |-> small + 1]],
         \A u \in Workers : level2[u].chunk = large => u = t,
         \A u \in Workers, q \in Partitions :
           level3[u][q].chunk[1] = large => u = t /\ level3[u][q].chunk[2] < small,
         \A a \in memory : a[1][1] = large => a[1][2] < small,
         Place(t, p, <<large, small>>, 0)
  PROVE  /\ ChunkTypes' /\ LargesApart' /\ SmallsCarved' /\ SmallsApart' /\ MemoryBehind'
         /\ <<<<large, small>>, 0>> \notin memory
<1> DEFINE c == <<large, small>>
<1> USE SizeFacts DEF SlabInv, SlabTypeOK
<1>1. c \in Smalls /\ c[1] = large /\ c[2] = small
  BY DEF Smalls
<1>0. Place(t, p, c, 0)
  OBVIOUS
<1> HIDE DEF c
<1>2. /\ level3' \in [Workers -> [Partitions -> [chunk : Smalls, current : 0 .. EntriesHeld]]]
      /\ level3'[t][p].chunk = c /\ level3'[t][p].current = 1
      /\ \A u \in Workers, q \in Partitions : <<u, q>> # <<t, p>> => level3'[u][q] = level3[u][q]
      /\ memory' = memory \union {<<c, 0>>}
      /\ memory' \subseteq Smalls \X Nat
  <2>1. 0 \in 0 .. EntriesHeld - 1 /\ 0 + 1 = 1
    OBVIOUS
  <2> QED
    BY <1>0, <1>1, <2>1, PlaceEffect
<1>3. /\ level2' \in [Workers -> [chunk : Larges, current : 0 .. SmallsHeld]]
      /\ level2'[t].chunk = large /\ level2'[t].current = small + 1
      /\ \A u \in Workers : u # t => level2'[u] = level2[u]
  OBVIOUS
<1>4. \A u \in Workers, q \in Partitions : level3[u][q].chunk # c
  BY <1>1
<1>5. <<c, 0>> \notin memory
  <2> SUFFICES ASSUME NEW a \in memory, a = <<c, 0>> PROVE FALSE
    OBVIOUS
  <2>1. a[1][1] = large /\ a[1][2] = small
    BY <1>1
  <2>2. small < small
    BY <2>1
  <2> QED
    BY <2>2
<1>6. ChunkTypes'
  BY <1>2, <1>3 DEF ChunkTypes
<1>7. LargesApart'
  <2>1. ASSUME NEW u \in Workers, level2'[u] # NoLarge
        PROVE  /\ level2'[u].chunk \in Handed'
               /\ \A v \in Workers : level2'[v].chunk = level2'[u].chunk => v = u
    BY <1>3, <2>1 DEF LargesApart
  <2> QED
    BY <2>1 DEF LargesApart
<1>8. SmallsCarved'
  <2>1. ASSUME NEW u \in Workers, NEW q \in Partitions, level3'[u][q] # NoSmall
        PROVE  /\ level3'[u][q].chunk[1] \in Handed'
               /\ \A v \in Workers :
                    level2'[v].chunk = level3'[u][q].chunk[1] =>
                      v = u /\ level3'[u][q].chunk[2] < level2'[v].current
    <3>1. CASE <<u, q>> = <<t, p>>
      BY <1>1, <1>2, <1>3, <3>1
    <3>2. CASE <<u, q>> # <<t, p>>
      <4>1. level3'[u][q] = level3[u][q] /\ level3[u][q].chunk[2] \in Nat
        BY <1>2, <3>2 DEF Smalls
      <4> QED
        BY <1>3, <2>1, <4>1 DEF SmallsCarved
    <3> QED
      BY <3>1, <3>2
  <2> QED
    BY <2>1 DEF SmallsCarved
<1>9. SmallsApart'
  <2>1. ASSUME NEW u \in Workers, NEW q \in Partitions, level3'[u][q] # NoSmall,
               NEW v \in Workers, NEW r \in Partitions
        PROVE  /\ level3'[v][r].chunk[1] = level3'[u][q].chunk[1] => v = u
               /\ level3'[v][r].chunk = level3'[u][q].chunk => v = u /\ r = q
    <3>1. CASE <<u, q>> # <<t, p>> /\ <<v, r>> # <<t, p>>
      BY <1>2, <2>1, <3>1 DEF SmallsApart
    <3>2. CASE <<u, q>> = <<t, p>> /\ <<v, r>> # <<t, p>>
      BY <1>1, <1>2, <1>4, <3>2
    <3>3. CASE <<u, q>> # <<t, p>> /\ <<v, r>> = <<t, p>>
      BY <1>1, <1>2, <1>4, <3>3
    <3>4. CASE <<u, q>> = <<t, p>> /\ <<v, r>> = <<t, p>>
      BY <3>4
    <3> QED
      BY <3>1, <3>2, <3>3, <3>4
  <2> QED
    BY <2>1 DEF SmallsApart
<1>10. MemoryBehind'
  <2>1. IsFiniteSet(memory')
    BY <1>2, FS_AddElement DEF MemoryBehind
  <2>2. ASSUME NEW a \in memory'
        PROVE  a[1][1] \in Handed'
    BY <1>1, <1>2 DEF MemoryBehind
  <2>3. ASSUME NEW a \in memory', NEW u \in Workers, level2'[u].chunk = a[1][1]
        PROVE  a[1][2] < level2'[u].current
    <3>1. CASE a \in memory
      <4>1. a[1][2] \in Nat
        BY <3>1 DEF Smalls
      <4> QED
        BY <1>3, <2>3, <3>1, <4>1 DEF MemoryBehind
    <3>2. CASE a = <<c, 0>>
      BY <1>1, <1>3, <2>3, <3>2
    <3> QED
      BY <1>2, <3>1, <3>2
  <2>4. ASSUME NEW a \in memory', NEW u \in Workers, NEW q \in Partitions,
               level3'[u][q].chunk = a[1]
        PROVE  a[2] < level3'[u][q].current
    <3>1. CASE a \in memory /\ <<u, q>> # <<t, p>>
      BY <1>2, <2>4, <3>1 DEF MemoryBehind
    <3>2. CASE a \in memory /\ <<u, q>> = <<t, p>>
      <4>1. a[1] = c
        BY <1>2, <2>4, <3>2
      <4> QED
        BY <1>1, <3>2, <4>1
    <3>3. CASE a = <<c, 0>>
      <4>1. level3'[u][q].chunk = c
        BY <2>4, <3>3
      <4>2. <<u, q>> = <<t, p>>
        BY <1>2, <1>4, <4>1
      <4> QED
        BY <1>2, <3>3, <4>2
    <3> QED
      BY <1>2, <3>1, <3>2, <3>3
  <2> QED
    BY <2>1, <2>2, <2>3, <2>4 DEF MemoryBehind
<1> QED
  BY <1>5, <1>6, <1>7, <1>8, <1>9, <1>10 DEF c

\* A SmallChunk of the LargeChunk that the thread has: behind all it carved.
LEMMA NewSmallStep ==
  ASSUME SlabInv, NEW t \in Workers, NEW p \in Partitions, ConsumeNewSmall(t, p)
  PROVE  /\ ChunkTypes' /\ LargesApart' /\ SmallsCarved' /\ SmallsApart' /\ MemoryBehind'
         /\ <<<<level2[t].chunk, level2[t].current>>, 0>> \notin memory
<1> DEFINE large == level2[t].chunk
           small == level2[t].current
<1> USE SizeFacts DEF SlabInv, SlabTypeOK, ConsumeNewSmall
<1>1. /\ large \in Larges /\ small \in 0 .. SmallsHeld - 1
      /\ level2[t] # NoLarge
  <2>1. small # SmallsHeld
    BY DEF Level2Full
  <2>2. large \in Larges /\ small \in 0 .. SmallsHeld
    OBVIOUS
  <2>3. NoLarge.current = SmallsHeld
    BY DEF NoLarge
  <2> QED
    BY <2>1, <2>2, <2>3
<1>2. Handed' = Handed /\ large \in Handed
  BY <1>1 DEF globalVars, Handed, LargesApart
<1>3. level2' = [level2 EXCEPT ![t] = [chunk |-> large, current |-> small + 1]]
  OBVIOUS
<1>4. \A u \in Workers : level2[u].chunk = large => u = t
  BY <1>1 DEF LargesApart
<1>5. ASSUME NEW u \in Workers, NEW q \in Partitions, level3[u][q].chunk[1] = large
      PROVE  u = t /\ level3[u][q].chunk[2] < small
  <2>1. level3[u][q] # NoSmall
    BY <1>2, <1>5 DEF NoSmall, Handed
  <2> QED
    BY <1>5, <2>1 DEF SmallsCarved
<1>6. \A a \in memory : a[1][1] = large => a[1][2] < small
  BY DEF MemoryBehind
<1>7. Place(t, p, <<large, small>>, 0)
  OBVIOUS
<1> QED
  BY ONLY SlabInv, <1>1, <1>2, <1>3, <1>4, <1>5, <1>6, <1>7, NewChunkStep

\* A LargeChunk that allocate returns: nobody has it, in the arena or not.
LEMMA NewLargeStep ==
  ASSUME SlabInv, NEW t \in Workers, NEW p \in Partitions, ConsumeNewLarge(t, p)
  PROVE  /\ ChunkTypes' /\ LargesApart' /\ SmallsCarved' /\ SmallsApart' /\ MemoryBehind'
         /\ <<<<LargeChunk, 0>>, 0>> \notin memory
<1> DEFINE large == LargeChunk
<1> USE SizeFacts DEF SlabInv, SlabTypeOK, ConsumeNewLarge
<1>1. /\ large \in Larges
      /\ large \in Handed' /\ large \notin Handed /\ large[1] # "none"
      /\ Handed \subseteq Handed'
  BY DEF Allocate, LargeChunk, Handed, Larges
<1> HIDE DEF large
<1>2. level2' = [level2 EXCEPT ![t] = [chunk |-> large, current |-> 0 + 1]]
  BY DEF large
<1>3. \A u \in Workers : level2[u].chunk # large
  BY <1>1 DEF LargesApart, NoLarge
<1>4. \A u \in Workers, q \in Partitions : level3[u][q].chunk[1] # large
  BY <1>1 DEF SmallsCarved, NoSmall
<1>5. \A a \in memory : a[1][1] # large
  BY <1>1 DEF MemoryBehind
<1>6. Place(t, p, <<large, 0>>, 0)
  BY DEF large
<1>7. 0 \in 0 .. SmallsHeld - 1
  OBVIOUS
<1> QED
  BY ONLY SlabInv, <1>1, <1>2, <1>3, <1>4, <1>5, <1>6, <1>7, NewChunkStep DEF large

-----------------------------------------------------------------------------
\* Every step keeps every part of the invariant.
LEMMA SlabInductive == SlabSpec => []SlabInv
<1>1. ASSUME SlabInv, [SlabNext]_slabVars
      PROVE  SlabInv'
  <2>1. CASE StartBuild \/ EndBuild
    BY <1>1, <2>1, BoundaryStep
  <2>2. ASSUME NEW t \in Workers, NEW p \in Partitions, Consume(t, p)
        PROVE  SlabInv'
    <3>1. ChunkTypes' /\ LargesApart' /\ SmallsCarved' /\ SmallsApart' /\ MemoryBehind'
      BY <1>1, <2>2, InSmallStep, NewSmallStep, NewLargeStep DEF Consume
    <3>2. arenaCapacity' \in Nat /\ nextIdx' \in Nat /\ heap' \in Nat
      BY <1>1, <2>2 DEF Consume, ConsumeInSmall, ConsumeNewSmall, ConsumeNewLarge,
                        Allocate, globalVars, SlabInv, SlabTypeOK
    <3>3. rows' \in [Workers -> Nat]
      BY <1>1, <2>2 DEF Consume, SlabInv, SlabTypeOK
    <3>4. building' = building /\ builds' = builds
      BY <2>2 DEF Consume
    <3> QED
      BY <1>1, <3>1, <3>2, <3>3, <3>4 DEF SlabInv, SlabTypeOK, ChunkTypes
  <2>3. CASE Stop \/ UNCHANGED slabVars
    <3>1. /\ UNCHANGED <<arenaCapacity, nextIdx, heap>>
          /\ UNCHANGED <<building, builds, rows>>
          /\ UNCHANGED <<level2, level3, memory>>
      BY <2>3 DEF Stop, slabVars, globalVars
    <3>2. Handed' = Handed
      BY <3>1 DEF Handed
    <3>3. LargesApart' /\ SmallsCarved' /\ SmallsApart' /\ MemoryBehind'
      BY <1>1, <3>1, <3>2 DEF SlabInv, LargesApart, SmallsCarved, SmallsApart, MemoryBehind
    <3> QED
      BY <1>1, <3>1, <3>3 DEF SlabInv, SlabTypeOK
  <2> QED
    BY <1>1, <2>1, <2>2, <2>3 DEF SlabNext
<1> QED
  BY <1>1, SlabInvInit, PTL DEF SlabSpec

\* reserve, allocate and consume keep the allocators of all levels in their
\* types, above all inside their chunks.
THEOREM SlabTypeCorrect == SlabSpec => []SlabTypeOK
<1>1. SlabInv => SlabTypeOK
  BY DEF SlabInv
<1> QED
  BY <1>1, SlabInductive, PTL

\* No SmallChunk is ever carved by two threads or for two partitions at once,
\* whether allocate took its LargeChunk from the arena or from the heap.
THEOREM ChunksPrivate == SlabSpec => []NoSharedChunk
<1>1. SlabInv => NoSharedChunk
  BY DEF SlabInv, SmallsApart, NoSharedChunk
<1> QED
  BY <1>1, SlabInductive, PTL

\* Every call of consume returns a place that holds no entry of the build yet
\* and lies inside its chunk and, if the chunk is the arena's, inside it.
THEOREM PlacesFresh == SlabSpec => EntriesApart
<1> DEFINE Apart(t, p) ==
      /\ Cardinality(memory') = Cardinality(memory) + 1
      /\ \A a \in memory' \ memory :
           /\ a[1][2] < SmallsHeld
           /\ a[2] < EntriesHeld
           /\ a[1][1][1] = "arena" => a[1][1][2] < arenaCapacity
<1>1. ASSUME SlabInv, NEW t \in Workers, NEW p \in Partitions, Consume(t, p)
      PROVE  Apart(t, p)
  <2> USE SizeFacts DEF SlabInv, SlabTypeOK
  <2> DEFINE Written(c, k) == memory' = memory \union {<<c, k>>} /\ <<c, k>> \notin memory
  <2>1. \E c \in Smalls, k \in 0 .. EntriesHeld - 1 : Written(c, k)
    <3>1. CASE ConsumeInSmall(t, p)
      <4>1. level3[t][p].chunk \in Smalls /\ level3[t][p].current \in 0 .. EntriesHeld - 1
        BY <1>1, <3>1 DEF ConsumeInSmall
      <4>2. Written(level3[t][p].chunk, level3[t][p].current)
        BY <1>1, <3>1, InSmallStep DEF ConsumeInSmall, Place
      <4> QED
        BY <4>1, <4>2
    <3>2. CASE ConsumeNewSmall(t, p)
      <4>1. <<level2[t].chunk, level2[t].current>> \in Smalls /\ 0 \in 0 .. EntriesHeld - 1
        <5>1. /\ level2[t].chunk \in Larges
              /\ level2[t].current \in 0 .. SmallsHeld
              /\ level2[t].current # SmallsHeld
          BY <1>1, <3>2 DEF ConsumeNewSmall, Level2Full
        <5> QED
          BY <5>1 DEF Smalls
      <4>2. Written(<<level2[t].chunk, level2[t].current>>, 0)
        BY <1>1, <3>2, NewSmallStep DEF ConsumeNewSmall, Place
      <4> QED
        BY <4>1, <4>2
    <3>3. CASE ConsumeNewLarge(t, p)
      <4>1. <<LargeChunk, 0>> \in Smalls /\ 0 \in 0 .. EntriesHeld - 1
        BY <1>1 DEF LargeChunk, Larges, Smalls
      <4>2. Written(<<LargeChunk, 0>>, 0)
        BY <1>1, <3>3, NewLargeStep DEF ConsumeNewLarge, Place
      <4> QED
        BY <4>1, <4>2
    <3> QED
      BY <1>1, <3>1, <3>2, <3>3 DEF Consume
  <2>2. PICK c \in Smalls, k \in 0 .. EntriesHeld - 1 :
          memory' = memory \union {<<c, k>>} /\ <<c, k>> \notin memory
    BY <2>1
  <2>3. UNCHANGED arenaCapacity
    BY <1>1 DEF Consume, ConsumeInSmall, ConsumeNewSmall, ConsumeNewLarge, Allocate, globalVars
  <2>4. MemoryBehind'
    BY <1>1, InSmallStep, NewSmallStep, NewLargeStep DEF Consume
  <2>5. c[1] \in Handed'
    <3>1. <<c, k>> \in memory' /\ <<c, k>>[1] = c
      BY <2>2
    <3> QED
      BY <2>4, <3>1 DEF MemoryBehind
  <2>6. Cardinality(memory') = Cardinality(memory) + 1
    BY <1>1, <2>2, FS_AddElement DEF MemoryBehind
  <2>7. c[2] < SmallsHeld /\ (c[1][1] = "arena" => c[1][2] < arenaCapacity)
    BY <2>3, <2>5 DEF Smalls, Handed
  <2> QED
    BY <2>2, <2>6, <2>7
<1>2. SlabInv /\ [SlabNext]_slabVars =>
        [\A t \in Workers, p \in Partitions : Consume(t, p) => Apart(t, p)]_slabVars
  BY <1>1
<1> QED
  BY <1>2, SlabInductive, PTL DEF SlabSpec, EntriesApart
=============================================================================
