------------------------- MODULE MCFilterThreadPool -------------------------
(* Three workers; fewer tasks than workers, as many, and one more.         *)
EXTENDS FilterThreadPool
=============================================================================
