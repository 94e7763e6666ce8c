-------------------------- MODULE FilterThreadPool --------------------------
(***************************************************************************)
(* The pool behind the load path (inner_column.h): filters, conversions    *)
(* between layouts and comparisons of results split their tasks over it.   *)
(* Every worker has a mutex, a condition variable and three flags of its   *)
(* own.  It keeps its mutex while it runs its share of the tasks; the      *)
(* caller sets the flags of all workers, notifies them all, then waits for *)
(* one after the other on the same condition variable the worker sleeps    *)
(* on.                                                                     *)
(*                                                                         *)
(* A step is one critical section that cannot block, one reading of a      *)
(* predicate, one blocking, one notification, or one end of function.      *)
(***************************************************************************)
EXTENDS Naturals, FiniteSets, Shares

CONSTANTS
  MaxDispatches,   \* bound: calls of run
  MaxTasks,        \* bound: num_tasks of a call
  MaxSpurious      \* bound: spurious wakeups

ASSUME BoundsAssumption ==
  /\ MaxDispatches \in Nat
  /\ MaxTasks \in Nat
  /\ MaxSpurious \in Nat

VARIABLES
  calls,        \* the call whose function is stored, 0 for none
  numTasks,     \* num_tasks
  hasFunction,  \* has_function, per worker
  finished,     \* finished, per worker
  destructed,   \* destructed, per worker
  pcCaller,     \* where the calling thread is
  i,            \* the index of its loops
  pcWorker,     \* where each worker is in run_loop
  ran,          \* how often each task of the call was run
  spurious      \* spurious wakeups so far

flags == <<hasFunction, finished, destructed>>
vars == <<calls, numTasks, flags, pcCaller, i, pcWorker, ran, spurious>>

CallerPCs == {"idle", "set", "notify", "wait", "check", "block", "waiting",
              "shut", "notifyShut", "join", "gone"}
WorkerPCs == {"acquire", "check", "sleep", "waiting", "run", "notify", "exited"}

TypeOK ==
  /\ calls \in 0 .. MaxDispatches
  /\ numTasks \in 0 .. MaxTasks
  /\ hasFunction \in [Workers -> BOOLEAN]
  /\ finished \in [Workers -> BOOLEAN]
  /\ destructed \in [Workers -> BOOLEAN]
  /\ pcCaller \in CallerPCs
  /\ i \in Workers
  /\ pcWorker \in [Workers -> WorkerPCs]
  /\ ran \in [0 .. MaxTasks - 1 -> 0 .. 1]
  /\ spurious \in 0 .. MaxSpurious

\* The constructor has started the workers.
Init ==
  /\ calls = 0
  /\ numTasks = 0
  /\ hasFunction = [w \in Workers |-> FALSE]
  /\ finished = [w \in Workers |-> FALSE]
  /\ destructed = [w \in Workers |-> FALSE]
  /\ pcCaller = "idle"
  /\ i = 0
  /\ pcWorker = [w \in Workers |-> "acquire"]
  /\ ran = [k \in 0 .. MaxTasks - 1 |-> 0]
  /\ spurious = 0

\* Worker w's mutex is held by w between its lock and its unlock or wait,
\* and by the caller while it examines finished.
Held(w) ==
  \/ pcWorker[w] \in {"check", "sleep", "run"}
  \/ i = w /\ pcCaller \in {"check", "block"}

-----------------------------------------------------------------------------
(* run_loop *)

\* The tasks of the call that worker w runs.
Share(w) == TasksOf(w, numTasks)

GotoW(w, from, to) ==
  /\ pcWorker[w] = from
  /\ pcWorker' = [pcWorker EXCEPT ![w] = to]

\* Variant: the predicate does not look at finished.
WorkPredicateAgain(w) == destructed[w] \/ hasFunction[w]

\* The predicate of the worker's wait.
WorkPredicate(w) == destructed[w] \/ (hasFunction[w] /\ ~finished[w])

WorkerLock(w) ==
  /\ GotoW(w, "acquire", "check")
  /\ ~Held(w)
  /\ UNCHANGED <<calls, numTasks, flags, pcCaller, i, ran, spurious>>

WorkerMustWait(w) ==
  /\ GotoW(w, "check", "sleep")
  /\ ~WorkPredicate(w)
  /\ UNCHANGED <<calls, numTasks, flags, pcCaller, i, ran, spurious>>

\* wait unlocks and blocks.
WorkerSleep(w) ==
  /\ GotoW(w, "sleep", "waiting")
  /\ UNCHANGED <<calls, numTasks, flags, pcCaller, i, ran, spurious>>

WorkerExit(w) ==
  /\ GotoW(w, "check", "exited")
  /\ destructed[w]
  /\ UNCHANGED <<calls, numTasks, flags, pcCaller, i, ran, spurious>>

\* The worker computes its share and calls function, mutex in hand.
WorkerBegin(w) ==
  /\ GotoW(w, "check", "run")
  /\ WorkPredicate(w)
  /\ ~destructed[w]
  /\ UNCHANGED <<calls, numTasks, flags, pcCaller, i, ran, spurious>>

\* function has returned; finished is set and the mutex released.
WorkerEnd(w) ==
  /\ GotoW(w, "run", "notify")
  /\ ran' = [k \in DOMAIN ran |-> IF k \in Share(w) THEN ran[k] + 1 ELSE ran[k]]
  /\ finished' = [finished EXCEPT ![w] = TRUE]
  /\ UNCHANGED <<calls, numTasks, hasFunction, destructed, pcCaller, i, spurious>>

\* Variant: nobody is notified.
WorkerNotifySilent(w) ==
  /\ GotoW(w, "notify", "acquire")
  /\ UNCHANGED <<calls, numTasks, flags, pcCaller, i, ran, spurious>>

\* cv.notify_one(), without the mutex: the caller may be waiting for this
\* worker, have gone past it, or already be in a later call.
WorkerNotify(w) ==
  /\ GotoW(w, "notify", "acquire")
  /\ pcCaller' = IF pcCaller = "waiting" /\ i = w THEN "wait" ELSE pcCaller
  /\ UNCHANGED <<calls, numTasks, flags, i, ran, spurious>>

WorkerStep(w) ==
  \/ WorkerLock(w)
  \/ WorkerMustWait(w)
  \/ WorkerSleep(w)
  \/ WorkerExit(w)
  \/ WorkerBegin(w)
  \/ WorkerEnd(w)
  \/ WorkerNotify(w)

-----------------------------------------------------------------------------
(* run and the destructor *)

GotoC(from, to) ==
  /\ pcCaller = from
  /\ pcCaller' = to

\* One iteration of a loop over the workers, the last of which ends it.
Iterate(loop, then) ==
  /\ GotoC(loop, IF i = NumThreads - 1 THEN then ELSE loop)
  /\ i' = IF i = NumThreads - 1 THEN 0 ELSE i + 1

\* run stores function and num_tasks before it takes any mutex.
Run ==
  /\ GotoC("idle", "set")
  /\ calls < MaxDispatches
  /\ calls' = calls + 1
  /\ \E n \in 0 .. MaxTasks : numTasks' = n
  /\ ran' = [k \in DOMAIN ran |-> 0]
  /\ UNCHANGED <<flags, i, pcWorker, spurious>>

\* Variant: the flags are set without the mutex.
CallerSetUnlocked ==
  /\ Iterate("set", "notify")
  /\ hasFunction' = [hasFunction EXCEPT ![i] = TRUE]
  /\ finished' = [finished EXCEPT ![i] = FALSE]
  /\ UNCHANGED <<calls, numTasks, destructed, pcWorker, ran, spurious>>

\* Variant: finished is left as the last call set it.
CallerSetForgets ==
  /\ Iterate("set", "notify")
  /\ ~Held(i)
  /\ hasFunction' = [hasFunction EXCEPT ![i] = TRUE]
  /\ UNCHANGED <<calls, numTasks, finished, destructed, pcWorker, ran, spurious>>

CallerSet ==
  /\ Iterate("set", "notify")
  /\ ~Held(i)
  /\ hasFunction' = [hasFunction EXCEPT ![i] = TRUE]
  /\ finished' = [finished EXCEPT ![i] = FALSE]
  /\ UNCHANGED <<calls, numTasks, destructed, pcWorker, ran, spurious>>

\* notify_one on the worker's variable: only the worker can be waiting there.
CallerNotify ==
  /\ Iterate("notify", "wait") \/ Iterate("notifyShut", "join")
  /\ pcWorker' = [pcWorker EXCEPT ![i] = IF @ = "waiting" THEN "acquire" ELSE @]
  /\ UNCHANGED <<calls, numTasks, flags, ran, spurious>>

\* The caller locks the mutex of the next worker, or locks it again in wait.
CallerLock ==
  /\ GotoC("wait", "check")
  /\ ~Held(i)
  /\ UNCHANGED <<calls, numTasks, flags, i, pcWorker, ran, spurious>>

CallerMustWait ==
  /\ GotoC("check", "block")
  /\ ~finished[i]
  /\ UNCHANGED <<calls, numTasks, flags, i, pcWorker, ran, spurious>>

CallerBlock ==
  /\ GotoC("block", "waiting")
  /\ UNCHANGED <<calls, numTasks, flags, i, pcWorker, ran, spurious>>

\* The worker has finished: on to the next one, or back to the program.
CallerPass ==
  /\ finished[i]
  /\ GotoC("check", IF i = NumThreads - 1 THEN "idle" ELSE "wait")
  /\ i' = IF i = NumThreads - 1 THEN 0 ELSE i + 1
  /\ UNCHANGED <<calls, numTasks, flags, pcWorker, ran, spurious>>

Destroy ==
  /\ GotoC("idle", "shut")
  /\ UNCHANGED <<calls, numTasks, flags, i, pcWorker, ran, spurious>>

\* Variant: the mutex is not taken.
CallerShutUnlocked ==
  /\ Iterate("shut", "notifyShut")
  /\ destructed' = [destructed EXCEPT ![i] = TRUE]
  /\ UNCHANGED <<calls, numTasks, hasFunction, finished, pcWorker, ran, spurious>>

CallerShut ==
  /\ Iterate("shut", "notifyShut")
  /\ ~Held(i)
  /\ destructed' = [destructed EXCEPT ![i] = TRUE]
  /\ UNCHANGED <<calls, numTasks, hasFunction, finished, pcWorker, ran, spurious>>

CallerJoin ==
  /\ Iterate("join", "gone")
  /\ pcWorker[i] = "exited"
  /\ UNCHANGED <<calls, numTasks, flags, pcWorker, ran, spurious>>

CallerStep ==
  \/ CallerSet \/ CallerNotify
  \/ CallerLock \/ CallerMustWait \/ CallerBlock \/ CallerPass
  \/ CallerShut \/ CallerJoin

-----------------------------------------------------------------------------
SpuriousWakeup ==
  /\ spurious < MaxSpurious
  /\ spurious' = spurious + 1
  /\ \/ /\ \E w \in Workers : GotoW(w, "waiting", "acquire")
        /\ UNCHANGED pcCaller
     \/ /\ GotoC("waiting", "wait")
        /\ UNCHANGED pcWorker
  /\ UNCHANGED <<calls, numTasks, flags, i, ran>>

Terminated ==
  /\ pcCaller = "gone"
  /\ UNCHANGED vars

Next ==
  \/ \E w \in Workers : WorkerStep(w)
  \/ CallerStep
  \/ Run
  \/ Destroy
  \/ SpuriousWakeup
  \/ Terminated

\* Every thread that can run is scheduled; the program need not call run.
\* A worker releases its mutex and may take it again before the caller,
\* which waits for it, but not for ever: it then sleeps.
Fairness ==
  /\ \A w \in Workers : WF_vars(WorkerStep(w))
  /\ WF_vars(CallerStep)

Spec == Init /\ [][Next]_vars /\ Fairness

-----------------------------------------------------------------------------
(* Properties *)

InRun == {"set", "notify", "wait", "check", "block", "waiting"}

\* When run returns, each of its tasks has been run once: a filter that
\* skips a byte of the bitmap drops eight rows, a column converted twice
\* would have its rows twice (build_table.cpp:370).
EveryTaskOnce ==
  pcCaller = "idle" =>
    \A k \in DOMAIN ran : ran[k] = IF k < numTasks THEN 1 ELSE 0

\* Nobody sleeps through what it waits for: the worker that has work, or
\* must end, and the caller whose worker has finished, have a notification
\* still to come.
NoLostWakeup ==
  /\ \A w \in Workers :
       pcWorker[w] = "waiting" /\ WorkPredicate(w) =>
         \/ pcCaller \in {"set", "shut"}
         \/ pcCaller \in {"notify", "notifyShut"} /\ i <= w
  /\ pcCaller = "waiting" /\ finished[i] => pcWorker[i] = "notify"

\* run returns.
RunReturns == pcCaller \in InRun ~> pcCaller = "idle"

\* The destructor returns.
DestructorEnds == pcCaller = "shut" ~> pcCaller = "gone"

-----------------------------------------------------------------------------
\* What is left to do for worker w, although its flags may not say so yet.
Todo(w) ==
  \/ pcCaller = "set" /\ w >= i
  \/ pcCaller \in InRun /\ hasFunction[w] /\ ~finished[w] /\ pcWorker[w] # "run"

FJ == INSTANCE ForkJoin WITH
        todo <- {w \in Workers : Todo(w)},
        running <- {w \in Workers : pcWorker[w] = "run"},
        caller <- CASE pcCaller = "idle" -> "idle"
                    [] pcCaller \in InRun -> "blocked"
                    [] OTHER -> "gone"

\* Although it hands out the flags one worker at a time, so that the first
\* workers run before the last have theirs, this pool keeps the promise of
\* the execution pool: every worker runs once and run returns after all.
ForkJoinSpec == FJ!Spec
=============================================================================
