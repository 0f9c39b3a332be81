------------------------- MODULE MC_Esp32Bootloader -------------------------
(* Model-checking instance of Esp32Bootloader: two-block images, enough    *)
(* writes for a complete image followed by a repeated or a misplaced       *)
(* block, and three resets (power-on garbage, a crash in a session, the   *)
(* restart into the application after an update).                          *)
EXTENDS Esp32Refinement
=============================================================================
