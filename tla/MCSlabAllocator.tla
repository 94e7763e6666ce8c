--------------------------- MODULE MCSlabAllocator ---------------------------
(* Three SmallChunks of two entries each, once the headers are off.        *)
EXTENDS SlabAllocator
=============================================================================
