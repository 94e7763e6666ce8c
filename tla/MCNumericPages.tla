--------------------------- MODULE MCNumericPages ---------------------------
(* Every sequence of values and NULLs up to MaxRows, on pages small enough  *)
(* that they spread over several.                                          *)
EXTENDS NumericPages
=============================================================================
