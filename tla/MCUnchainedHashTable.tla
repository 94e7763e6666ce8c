------------------------ MODULE MCUnchainedHashTable ------------------------
EXTENDS UnchainedHashTable

CONSTANTS a, b, c, d

MCKeys == {a, b, c, d}
\* a and b share a partition, and a slot while the table has 4; d shares
\* everything with b but is in no column.
MCHash == a :> 0 @@ b :> 1 @@ c :> 5 @@ d :> 1
\* a's tag is part of b's: the filter cannot tell a from b.
MCTag == a :> {1} @@ b :> {1, 2} @@ c :> {2} @@ d :> {2, 3}

\* Every column of up to three rows, and longer ones that fill chunks.
MCColumns ==
  BoundedSeq({a, b, c, Null}, 3)
    \union {<<a, b, a, c, a, Null>>, <<a, a, a, a, b, b>>, <<c, a, c, b, c>>}
=============================================================================
