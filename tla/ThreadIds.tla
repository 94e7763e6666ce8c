------------------------------ MODULE ThreadIds ------------------------------
(***************************************************************************)
(* The threads of a pool, numbered as its constructor starts them.         *)
(***************************************************************************)
EXTENDS Naturals

CONSTANT NumThreads  \* num_threads_ or threads.size()

ASSUME NumThreadsAssumption == NumThreads \in Nat \ {0}

\* A worker is its thread_id.
Workers == 0 .. NumThreads - 1
=============================================================================
