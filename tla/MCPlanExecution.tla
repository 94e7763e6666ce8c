-------------------------- MODULE MCPlanExecution --------------------------
EXTENDS PlanExecution

CONSTANTS a, b

I == "INT32"
V == "VARCHAR"

MCKeys == {a, b}

\* A base table: its join key, and names that tell its rows apart.
Table(keys) == <<[type |-> "INT32", rows |-> keys],
                 [type |-> "VARCHAR", rows |-> keys]>>

\* Every table has the key first, then the names.
ScanNode(table, outputs) ==
  [table |-> table, left |-> 0, right |-> 0, leftAttr |-> 0, rightAttr |-> 0,
   outputs |-> outputs, types |-> [i \in DOMAIN outputs |-> IF outputs[i] = 0 THEN I ELSE V]]
JoinNode(l, r, leftAttr, rightAttr, outputs, types) ==
  [table |-> 0, left |-> l, right |-> r, leftAttr |-> leftAttr, rightAttr |-> rightAttr,
   outputs |-> outputs, types |-> types]

\* One join.  The scans list their columns in different orders.
OneJoin ==
  <<ScanNode(1, <<0, 1>>), ScanNode(2, <<1, 0>>), JoinNode(1, 2, 0, 1, <<2, 0, 1>>, <<V, I, V>>)>>

\* A join of a join, on the left and on the right, by a key of either table.
LeftDeep ==
  <<ScanNode(1, <<0, 1>>), ScanNode(2, <<1, 0>>), JoinNode(1, 2, 0, 1, <<2, 1, 3>>, <<V, V, I>>),
    ScanNode(3, <<0, 1>>), JoinNode(3, 4, 2, 0, <<4, 0, 1>>, <<V, V, V>>)>>
RightDeep ==
  <<ScanNode(1, <<0>>), ScanNode(2, <<1, 0>>), JoinNode(1, 2, 0, 1, <<0, 1>>, <<I, V>>),
    ScanNode(3, <<1, 0>>), JoinNode(4, 3, 1, 0, <<3, 0, 2>>, <<V, V, I>>)>>

\* Joins on both sides, so that no column of the last one is direct.
Bushy ==
  <<ScanNode(1, <<0, 1>>), ScanNode(2, <<1, 0>>), JoinNode(1, 2, 0, 1, <<1, 0, 2>>, <<V, I, V>>),
    ScanNode(1, <<0>>), ScanNode(3, <<1, 0>>), JoinNode(4, 5, 0, 1, <<1, 2>>, <<V, I>>),
    JoinNode(3, 6, 1, 1, <<3, 4, 0, 2>>, <<V, I, V, V>>)>>

\* Up to four rows on the left; on the right also columns of several pages
\* and buffers, so that each side is the smaller one at times.
LeftKeys == BoundedSeq({a, Null}, 2) \union {<<a, b, a>>, <<b, Null, b, a>>}
RightKeys == BoundedSeq({a}, 1) \union {<<a, b, b>>, <<b, a, Null>>, <<b, a, a, b, a>>}

MCQueries ==
  {[nodes |-> OneJoin, inputs |-> <<Table(l), Table(r)>>] : l \in LeftKeys, r \in RightKeys}
    \union
  {[nodes |-> nodes, inputs |-> <<Table(<<a, b>>), Table(<<a, a, b>>), Table(third)>>] :
     nodes \in {LeftDeep, RightDeep, Bushy}, third \in {<<>>, <<b, a>>, <<a, Null, a, b>>}}
=============================================================================
