---------------------------- MODULE MCThreadPool ----------------------------
(* Three workers, so that the last one to count itself out has two others  *)
(* to race with, and two calls, so that a worker late from the first can   *)
(* meet the second.                                                        *)
EXTENDS ThreadPool
=============================================================================
