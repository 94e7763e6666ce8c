------------------------------- MODULE Shares -------------------------------
(***************************************************************************)
(* How the threads of the filter pool (inner_column.h) divide the tasks of *)
(* a call: each has a range of them, the first ones have one more.         *)
(***************************************************************************)
EXTENDS Naturals, ThreadIds

\* Variant: the remainder is not spread over the first threads.
BeginIdxTruncated(w, n) == w * (n \div NumThreads)

\* begin_idx, for n tasks
BeginIdx(w, n) ==
  LET base == n \div NumThreads
      rem == n % NumThreads
  IN  w * base + (IF w < rem THEN w ELSE rem)

\* The tasks worker w runs of them: none when begin = end.
TasksOf(w, n) == BeginIdx(w, n) .. BeginIdx(w + 1, n) - 1
=============================================================================
