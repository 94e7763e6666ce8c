----------------------------- MODULE ThreadPool -----------------------------
(***************************************************************************)
(* The reusable thread pool (utils.h): workers sleep on cv_start_ until    *)
(* generation_ passes their own my_generation, run the task and count      *)
(* themselves out of active_count_; the last one wakes the caller, which   *)
(* sleeps on cv_done_ inside run_parallel.                                 *)
(*                                                                         *)
(* A step is one acquisition of mtx_, one reading of a predicate, one      *)
(* blocking, one notification or one atomic operation.  A condition        *)
(* variable is the set of threads whose pc is "waiting" (workers, on       *)
(* cv_start_) or "waitDone" (the caller, on cv_done_).                     *)
(***************************************************************************)
EXTENDS Naturals, FiniteSets, ThreadIds

CONSTANTS
  MaxDispatches,   \* bound: calls of run_parallel
  MaxSpurious      \* bound: spurious wakeups, of workers and caller together

ASSUME MaxDispatchesAssumption == MaxDispatches \in Nat
ASSUME MaxSpuriousAssumption == MaxSpurious \in Nat

Caller == NumThreads
NoThread == NumThreads + 1

VARIABLES
  mtx,           \* the thread that holds mtx_, or NoThread
  task,          \* task_: the call whose task is stored, 0 for none
  generation,    \* generation_
  activeCount,   \* active_count_
  shutdown,      \* shutdown_
  pcCaller,      \* where the thread that owns the pool is
  pcWorker,      \* where each worker is in worker_loop
  myGeneration,  \* each worker's my_generation
  localTask,     \* each worker's local_task
  spurious       \* spurious wakeups so far

callerVars == <<task, generation, shutdown>>
workerVars == <<myGeneration, localTask>>
vars == <<mtx, task, generation, activeCount, shutdown, pcCaller, pcWorker,
          myGeneration, localTask, spurious>>

CallerPCs == {"idle",
              "lockSet", "set", "notifyAll", "lockWait", "checkDone", "block",
              "waitDone",
              "lockShut", "shut", "notifyShut", "join", "gone"}
WorkerPCs == {"acquire", "check", "sleep", "waiting", "run", "sub",
              "lockDone", "notify", "exited"}

TypeOK ==
  /\ mtx \in Workers \union {Caller, NoThread}
  /\ task \in 0 .. MaxDispatches
  /\ generation \in 0 .. MaxDispatches
  /\ activeCount \in 0 .. NumThreads
  /\ shutdown \in BOOLEAN
  /\ pcCaller \in CallerPCs
  /\ pcWorker \in [Workers -> WorkerPCs]
  /\ myGeneration \in [Workers -> 0 .. MaxDispatches]
  /\ localTask \in [Workers -> 0 .. MaxDispatches]
  /\ spurious \in 0 .. MaxSpurious

\* The constructor has started the workers.
Init ==
  /\ mtx = NoThread
  /\ task = 0
  /\ generation = 0
  /\ activeCount = 0
  /\ shutdown = FALSE
  /\ pcCaller = "idle"
  /\ pcWorker = [w \in Workers |-> "acquire"]
  /\ myGeneration = [w \in Workers |-> 0]
  /\ localTask = [w \in Workers |-> 0]
  /\ spurious = 0

-----------------------------------------------------------------------------
(* worker_loop *)

GotoW(w, from, to) ==
  /\ pcWorker[w] = from
  /\ pcWorker' = [pcWorker EXCEPT ![w] = to]

\* Variant: wait(lock) without a predicate.
StartPredicateNone(w) == TRUE

\* The predicate of cv_start_.wait.
StartPredicate(w) == shutdown \/ generation > myGeneration[w]

\* unique_lock, or the re-acquisition inside wait.
WorkerLock(w) ==
  /\ GotoW(w, "acquire", "check")
  /\ mtx = NoThread
  /\ mtx' = w
  /\ UNCHANGED <<activeCount, pcCaller, spurious, callerVars, workerVars>>

\* wait reads its predicate and finds it false.
WorkerMustWait(w) ==
  /\ GotoW(w, "check", "sleep")
  /\ ~StartPredicate(w)
  /\ UNCHANGED <<mtx, activeCount, pcCaller, spurious, callerVars, workerVars>>

\* wait releases the lock and blocks, in one step.
WorkerSleep(w) ==
  /\ GotoW(w, "sleep", "waiting")
  /\ mtx' = NoThread
  /\ UNCHANGED <<activeCount, pcCaller, spurious, callerVars, workerVars>>

WorkerExit(w) ==
  /\ GotoW(w, "check", "exited")
  /\ shutdown
  /\ mtx' = NoThread
  /\ UNCHANGED <<activeCount, pcCaller, spurious, callerVars, workerVars>>

\* Variant: my_generation is not brought up to date.
WorkerTakeForgets(w) ==
  /\ GotoW(w, "check", "run")
  /\ StartPredicate(w)
  /\ ~shutdown
  /\ localTask' = [localTask EXCEPT ![w] = task]
  /\ mtx' = NoThread
  /\ UNCHANGED <<activeCount, pcCaller, spurious, callerVars, myGeneration>>

\* The worker copies generation_ and task_, unlocks and enters the task.
WorkerTake(w) ==
  /\ GotoW(w, "check", "run")
  /\ StartPredicate(w)
  /\ ~shutdown
  /\ myGeneration' = [myGeneration EXCEPT ![w] = generation]
  /\ localTask' = [localTask EXCEPT ![w] = task]
  /\ mtx' = NoThread
  /\ UNCHANGED <<activeCount, pcCaller, spurious, callerVars>>

\* local_task(thread_id) returns.
WorkerLeaveTask(w) ==
  /\ GotoW(w, "run", "sub")
  /\ UNCHANGED <<mtx, activeCount, pcCaller, spurious, callerVars, workerVars>>

\* Who leaves cv_done_.wait's block re-acquires the lock first.
WakeCaller == IF pcCaller = "waitDone" THEN "lockWait" ELSE pcCaller

\* Variant: notify_one() without taking the lock.
WorkerCountOutUnlocked(w) ==
  /\ GotoW(w, "sub", "acquire")
  /\ activeCount' = activeCount - 1
  /\ pcCaller' = IF activeCount = 1 THEN WakeCaller ELSE pcCaller
  /\ UNCHANGED <<mtx, spurious, callerVars, workerVars>>

\* active_count_.fetch_sub(1) == 1
WorkerCountOut(w) ==
  /\ GotoW(w, "sub", IF activeCount = 1 THEN "lockDone" ELSE "acquire")
  /\ activeCount' = activeCount - 1
  /\ UNCHANGED <<mtx, pcCaller, spurious, callerVars, workerVars>>

WorkerLockDone(w) ==
  /\ GotoW(w, "lockDone", "notify")
  /\ mtx = NoThread
  /\ mtx' = w
  /\ UNCHANGED <<activeCount, pcCaller, spurious, callerVars, workerVars>>

\* cv_done_.notify_one() under the lock, which the end of the block releases.
WorkerNotify(w) ==
  /\ GotoW(w, "notify", "acquire")
  /\ pcCaller' = WakeCaller
  /\ mtx' = NoThread
  /\ UNCHANGED <<activeCount, spurious, callerVars, workerVars>>

WorkerStep(w) ==
  \/ WorkerLock(w)
  \/ WorkerMustWait(w)
  \/ WorkerSleep(w)
  \/ WorkerExit(w)
  \/ WorkerTake(w)
  \/ WorkerLeaveTask(w)
  \/ WorkerCountOut(w)
  \/ WorkerLockDone(w)
  \/ WorkerNotify(w)

-----------------------------------------------------------------------------
(* run_parallel and the destructor *)

GotoC(from, to) ==
  /\ pcCaller = from
  /\ pcCaller' = to

\* The caller acquires mtx_ at one of its three lock statements.
CallerLock ==
  /\ \/ GotoC("lockSet", "set")
     \/ GotoC("lockWait", "checkDone")
     \/ GotoC("lockShut", "shut")
  /\ mtx = NoThread
  /\ mtx' = Caller
  /\ UNCHANGED <<activeCount, pcWorker, spurious, callerVars, workerVars>>

Call ==
  /\ GotoC("idle", "lockSet")
  /\ generation < MaxDispatches
  /\ UNCHANGED <<mtx, activeCount, pcWorker, spurious, callerVars, workerVars>>

\* Variant: the caller counts itself among the threads.
CallerPublishOneLess ==
  /\ GotoC("set", "notifyAll")
  /\ task' = generation + 1
  /\ activeCount' = NumThreads - 1
  /\ generation' = generation + 1
  /\ mtx' = NoThread
  /\ UNCHANGED <<shutdown, pcWorker, spurious, workerVars>>

\* The block that publishes the task; generation_ + 1 names the new one.
CallerPublish ==
  /\ GotoC("set", "notifyAll")
  /\ task' = generation + 1
  /\ activeCount' = NumThreads
  /\ generation' = generation + 1
  /\ mtx' = NoThread
  /\ UNCHANGED <<shutdown, pcWorker, spurious, workerVars>>

\* Variant: cv_start_.notify_one().
CallerNotifyOne ==
  /\ \/ GotoC("notifyAll", "lockWait")
     \/ GotoC("notifyShut", "join")
  /\ IF \E w \in Workers : pcWorker[w] = "waiting"
     THEN \E w \in Workers : GotoW(w, "waiting", "acquire")
     ELSE UNCHANGED pcWorker
  /\ UNCHANGED <<mtx, activeCount, spurious, callerVars, workerVars>>

\* cv_start_.notify_all(), outside the lock.
CallerNotifyAll ==
  /\ \/ GotoC("notifyAll", "lockWait")
     \/ GotoC("notifyShut", "join")
  /\ pcWorker' = [w \in Workers |->
                    IF pcWorker[w] = "waiting" THEN "acquire" ELSE pcWorker[w]]
  /\ UNCHANGED <<mtx, activeCount, spurious, callerVars, workerVars>>

\* Variant: cv_done_.wait(lock) without its predicate.
CallerReturnUnchecked ==
  /\ GotoC("checkDone", "idle")
  /\ mtx' = NoThread
  /\ UNCHANGED <<activeCount, pcWorker, spurious, callerVars, workerVars>>

\* cv_done_.wait finds active_count_ at zero: run_parallel returns.
CallerReturn ==
  /\ GotoC("checkDone", "idle")
  /\ activeCount = 0
  /\ mtx' = NoThread
  /\ UNCHANGED <<activeCount, pcWorker, spurious, callerVars, workerVars>>

\* cv_done_.wait finds it positive, ...
CallerMustWait ==
  /\ GotoC("checkDone", "block")
  /\ activeCount # 0
  /\ UNCHANGED <<mtx, activeCount, pcWorker, spurious, callerVars, workerVars>>

\* ... and blocks; a worker may have counted itself out since.
CallerBlock ==
  /\ GotoC("block", "waitDone")
  /\ mtx' = NoThread
  /\ UNCHANGED <<activeCount, pcWorker, spurious, callerVars, workerVars>>

DestroyPool ==
  /\ GotoC("idle", "lockShut")
  /\ UNCHANGED <<mtx, activeCount, pcWorker, spurious, callerVars, workerVars>>

\* Variant: the destructor notifies nobody.
CallerShutdownSilent ==
  /\ GotoC("shut", "join")
  /\ shutdown' = TRUE
  /\ mtx' = NoThread
  /\ UNCHANGED <<task, generation, activeCount, pcWorker, spurious, workerVars>>

CallerShutdown ==
  /\ GotoC("shut", "notifyShut")
  /\ shutdown' = TRUE
  /\ mtx' = NoThread
  /\ UNCHANGED <<task, generation, activeCount, pcWorker, spurious, workerVars>>

CallerJoin ==
  /\ GotoC("join", "gone")
  /\ \A w \in Workers : pcWorker[w] = "exited"
  /\ UNCHANGED <<mtx, activeCount, pcWorker, spurious, callerVars, workerVars>>

CallerStep ==
  \/ CallerLock
  \/ CallerPublish
  \/ CallerNotifyAll
  \/ CallerReturn
  \/ CallerMustWait
  \/ CallerBlock
  \/ CallerShutdown
  \/ CallerJoin

-----------------------------------------------------------------------------
\* A blocked thread may wake without a notification.
SpuriousWakeup ==
  /\ spurious < MaxSpurious
  /\ spurious' = spurious + 1
  /\ \/ /\ \E w \in Workers : GotoW(w, "waiting", "acquire")
        /\ UNCHANGED pcCaller
     \/ /\ GotoC("waitDone", "lockWait")
        /\ UNCHANGED pcWorker
  /\ UNCHANGED <<mtx, activeCount, callerVars, workerVars>>

\* Every thread has ended.
Terminated ==
  /\ pcCaller = "gone"
  /\ UNCHANGED vars

Next ==
  \/ \E w \in Workers : WorkerStep(w)
  \/ CallerStep
  \/ Call
  \/ DestroyPool
  \/ SpuriousWakeup
  \/ Terminated

\* Every thread is scheduled as long as it can run.  Whether the program
\* calls run_parallel again, or destroys the pool, is its own affair.
Fairness ==
  /\ \A w \in Workers : WF_vars(WorkerStep(w))
  /\ WF_vars(CallerStep)

Spec == Init /\ [][Next]_vars /\ Fairness

-----------------------------------------------------------------------------
(* Properties *)

\* The caller is inside run_parallel and its task is published.
Blocked == {"notifyAll", "lockWait", "checkDone", "block", "waitDone"}

\* The destructor has set shutdown_.
Gone == {"notifyShut", "join", "gone"}

\* The tasks capture locals of the caller's frame by reference
\* (execute.cpp:78, unchained_ht.h:308): while a worker is in a task, its
\* caller is still inside the very run_parallel call that published it.
TaskFrameAlive ==
  \A w \in Workers :
    pcWorker[w] = "run" => /\ pcCaller \in Blocked
                           /\ localTask[w] = generation

\* A worker that has yet to take the published task, or is in it, or has
\* left it without counting itself out.
Owes(w) == \/ myGeneration[w] < generation
           \/ pcWorker[w] \in {"run", "sub"}

Owing == {w \in Workers : Owes(w)}

\* active_count_ is updated outside mtx_ and tested inside it: it counts
\* exactly the workers that still owe this call something, at every step.
CountMatches == activeCount = Cardinality(Owing)

\* No thread is blocked on a condition that has become true unless the
\* notification that wakes it is still to come.
NoLostWakeup ==
  /\ \A w \in Workers :
       pcWorker[w] = "waiting" /\ StartPredicate(w)
         => pcCaller \in {"notifyAll", "notifyShut"}
  /\ pcCaller = "waitDone" /\ activeCount = 0
       => \E w \in Workers : pcWorker[w] \in {"lockDone", "notify"}

\* Every call of run_parallel returns.
CallReturns == (pcCaller \in {"lockSet", "set"} \union Blocked)
                 ~> (pcCaller = "idle")

\* The destructor ends, with every worker joined.
DestructorEnds == (pcCaller \in {"lockShut", "shut"} \union Gone)
                    ~> (pcCaller = "gone")

-----------------------------------------------------------------------------
(* Why they hold: the inductive invariant of ThreadPool_proofs *)

\* mtx_ is held by the thread whose pc says so.
LockMatches ==
  /\ \A w \in Workers : mtx = w <=> pcWorker[w] \in {"check", "sleep", "notify"}
  /\ mtx = Caller <=> pcCaller \in {"set", "checkDone", "block", "shut"}

\* Workers never run ahead of the caller, and hold the current task.
GenerationsMatch ==
  /\ task = generation
  /\ \A w \in Workers :
       /\ myGeneration[w] <= generation
       /\ pcWorker[w] \in {"run", "sub"} => /\ myGeneration[w] = generation
                                           /\ localTask[w] = generation

\* The caller's place tells whether anything is owed or shut down.
CallerMatches ==
  /\ pcCaller \notin Blocked => activeCount = 0
  /\ pcCaller \in {"lockSet", "set"} => generation < MaxDispatches
  /\ shutdown <=> pcCaller \in Gone

\* Who is about to block has found its predicate false under the lock.
AboutToBlock ==
  /\ \A w \in Workers : pcWorker[w] = "sleep" => ~StartPredicate(w)
  /\ pcCaller = "block" /\ activeCount = 0
       => \E w \in Workers : pcWorker[w] = "lockDone"

IInv ==
  /\ TypeOK
  /\ LockMatches
  /\ GenerationsMatch
  /\ CountMatches
  /\ CallerMatches
  /\ AboutToBlock
  /\ NoLostWakeup

-----------------------------------------------------------------------------
(* The promise of the pool *)

FJ == INSTANCE ForkJoin WITH
        calls <- generation,
        todo <- {w \in Workers : myGeneration[w] < generation},
        running <- {w \in Workers : pcWorker[w] = "run"},
        caller <- CASE pcCaller \in Blocked -> "blocked"
                    [] pcCaller \in Gone -> "gone"
                    [] OTHER -> "idle"

\* The pool implements ForkJoin: each worker runs each task once, and no
\* call returns, and no destructor begins, before the last one has left it.
ForkJoinSpec == FJ!Spec
=============================================================================
