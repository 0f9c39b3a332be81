------------------------- MODULE MC_BitRangeEventPC -------------------------
(* A block of two bits at base 4 in a 4-bit event space; the other nodes   *)
(* use an event below the block (3), the off events of both bits (5, 7)   *)
(* and the first event past the block (8).                                  *)
EXTENDS BitRangeEventPCProofs

MCForeignEvents == {3, 5, 7, 8}
=============================================================================
