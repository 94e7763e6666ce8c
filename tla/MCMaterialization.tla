-------------------------- MODULE MCMaterialization --------------------------
(* Every sequence of values and NULLs up to MaxRows, and every sequence of  *)
(* NULLs and of strings that are empty, short, as long as a page allows,    *)
(* and one or two pages longer, up to MaxStrRows; pages small enough that   *)
(* they spread over several.  The joins hand on all the rows, or all of     *)
(* them twice and backwards, or all but the second, or of few rows any.     *)
EXTENDS Materialization

MCPicks(n) ==
  LET all == [i \in 1 .. n |-> i]
      Listed(rows) == SelectSeq(all, LAMBDA i : i \in rows)
      some == IF n <= 3 THEN SUBSET (1 .. n) ELSE {1 .. n, 1 .. n \ {2}}
  IN  {Listed(rows) : rows \in some} \union {Reverse(all) \o Reverse(all)}
=============================================================================
