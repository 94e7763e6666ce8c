---------------------------- MODULE MCTableCache ----------------------------
(* Two queries over three scans: a table of three columns with several     *)
(* pages, the same table under a filter no row passes, and one more that   *)
(* both queries read; each query's result is a file too.                   *)
EXTENDS TableCache

MCQueries == <<[scans |-> <<"title", "none">>, name |-> "q1"],
               [scans |-> <<"title">>, name |-> "q2"]>>
MCNumPages == [f \in {"title", "none", "q1", "q2"} |->
  CASE f = "title" -> <<1, 2, 1>>
    [] f = "none" -> <<0, 0>>
    [] f = "q1" -> <<1, 1>>
    [] f = "q2" -> <<1>>]
MCUnfiltered == {"title"}
=============================================================================
