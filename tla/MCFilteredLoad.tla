--------------------------- MODULE MCFilteredLoad ---------------------------
(* Every file of up to three rows of four kinds, and longer ones, in bytes *)
(* of two rows, so that the last byte may be half used and the two workers *)
(* have up to three bytes; filters with every operator, NULL tests and NOT *)
(* over each of them, and AND and OR over both columns.  Literals are all  *)
(* the INT32 values: a literal beyond them is not what the evaluators      *)
(* agree on.                                                               *)
EXTENDS FilteredLoad

Row == {[a |-> 0, s |-> 2], [a |-> Null, s |-> 2], [a |-> 1, s |-> Null], [a |-> -1, s |-> 1]}
Long == <<[a |-> 0, s |-> 2], [a |-> 1, s |-> Null], [a |-> 0, s |-> 1],
          [a |-> Null, s |-> 2], [a |-> -1, s |-> Null]>>
MCFiles == BoundedSeq(Row, 3) \union {Long, Reverse(Long)}

Comparison(column, op, value) == [op |-> op, column |-> column, value |-> value]
Not(s) == Append(s, [op |-> "NOT", children |-> <<Len(s)>>])

Simple ==
  {<<Comparison("a", op, 0)>> : op \in CompareOps}
    \union {<<Comparison("s", op, {2})>> : op \in LikeOps}
    \union {<<Comparison("s", op, 2)>> : op \in {"EQ", "LT"}}
    \union {<<[op |-> op, column |-> c]>> : c \in Range(ColumnNames), op \in NullOps}

MCFilters ==
  Simple
    \union {Not(s) : s \in Simple}
    \union {<<Comparison("a", "LEQ", 0), Comparison("s", "EQ", 2),
              [op |-> "NOT", children |-> <<2>>], [op |-> op, children |-> <<1, 3>>]>> :
              op \in {"AND", "OR"}}
=============================================================================
