---------------------------- MODULE MCStringPages ----------------------------
(* Every sequence of NULLs and of strings that are empty, short, as long as *)
(* a page allows, and one or two pages longer.                             *)
EXTENDS StringPages
=============================================================================
