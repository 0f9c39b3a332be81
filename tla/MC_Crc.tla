-------------------------------- MODULE MC_Crc --------------------------------
(* Buffers of up to three bytes over bytes that set the low bit, the high  *)
(* bit, both, neither, and an ASCII digit.                                  *)
EXTENDS Crc

MCBytes == {0, 1, 49, 128, 255}

=============================================================================
