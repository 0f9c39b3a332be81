------------------------ MODULE MC_RailcomInductive ------------------------
(* The safety instance of MC_RailcomDriver, checking the inductive         *)
(* invariant that the proof of NoStaleBytesCorrect rests on.               *)
EXTENDS MC_RailcomDriver, RailcomDeliveryProofs, RailcomRefinement
=============================================================================
