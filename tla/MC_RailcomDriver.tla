-------------------------- MODULE MC_RailcomDriver --------------------------
(* Model-checking instance of RailcomDriver: two channels, a pool of two   *)
(* records, the one-byte RDR of the STM32 USART.                           *)
EXTENDS RailcomDriver, TLC

CONSTANTS s1, s2

MCSlots == {s1, s2}

(* The records of the pool are interchangeable.                            *)
MCSymmetry == Permutations(MCSlots)
=============================================================================
