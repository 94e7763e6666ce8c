---------------------------- MODULE MCCsvParser ----------------------------
(* Every file of up to MaxLen bytes, cut into chunks in every way.  Four   *)
(* bytes hold a quoted escape with what follows it, five a row after it.   *)
EXTENDS CsvParser

\* As from_csv constructs it, and with everything the other way.
MCParsers ==
  {[escape |-> "backslash", hasTrailingComma |-> FALSE],
   [escape |-> "quote", hasTrailingComma |-> TRUE]}
=============================================================================
