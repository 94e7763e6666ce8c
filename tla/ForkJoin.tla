------------------------------ MODULE ForkJoin ------------------------------
(***************************************************************************)
(* What ThreadPool promises to its single caller (execute.cpp,             *)
(* unchained_ht.h): run_parallel(task) makes every worker run the task     *)
(* once, and returns after the last of them has left it.  The tasks        *)
(* capture the caller's stack frame by reference, so that a worker inside  *)
(* a task after the return would use a dead frame.                         *)
(*                                                                         *)
(* ThreadPool implements this specification, FilterThreadPool too;         *)
(* UnchainedHashTable, PlanExecution, Materialization and FilteredLoad are *)
(* built on its actions, and make the assumptions on its constants.        *)
(***************************************************************************)
EXTENDS Naturals

CONSTANTS
  NumThreads,      \* num_threads_ of the pool
  MaxDispatches    \* bound: how many times the caller dispatches

\* A worker is its thread_id.
Workers == 0 .. NumThreads - 1

VARIABLES
  calls,      \* how many times run_parallel has dispatched
  todo,       \* workers that have not begun the current task
  running,    \* workers inside the current task
  caller      \* "idle", "blocked" in run_parallel, or "gone"

poolVars == <<calls, todo, running, caller>>

TypeOK ==
  /\ calls \in 0 .. MaxDispatches
  /\ todo \subseteq Workers
  /\ running \subseteq Workers
  /\ caller \in {"idle", "blocked", "gone"}

Init ==
  /\ calls = 0
  /\ todo = {}
  /\ running = {}
  /\ caller = "idle"

\* The caller enters run_parallel and publishes its task.
Dispatch ==
  /\ caller = "idle"
  /\ calls < MaxDispatches
  /\ calls' = calls + 1
  /\ todo' = Workers
  /\ caller' = "blocked"
  /\ UNCHANGED running

\* Worker w enters the task.
Begin(w) ==
  /\ w \in todo
  /\ todo' = todo \ {w}
  /\ running' = running \union {w}
  /\ UNCHANGED <<calls, caller>>

\* Worker w leaves the task.
End(w) ==
  /\ w \in running
  /\ running' = running \ {w}
  /\ UNCHANGED <<calls, todo, caller>>

\* run_parallel returns: nobody is in the task or has it before them.
Return ==
  /\ caller = "blocked"
  /\ todo = {}
  /\ running = {}
  /\ caller' = "idle"
  /\ UNCHANGED <<calls, todo, running>>

\* The pool is destroyed.
Destroy ==
  /\ caller = "idle"
  /\ caller' = "gone"
  /\ UNCHANGED <<calls, todo, running>>

Next ==
  \/ Dispatch
  \/ \E w \in Workers : Begin(w) \/ End(w)
  \/ Return
  \/ Destroy

Spec == Init /\ [][Next]_poolVars
=============================================================================
