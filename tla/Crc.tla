--------------------------------- MODULE Crc ---------------------------------
(***************************************************************************)
(* utils/Crc.cxx: CRC-16-IBM over a byte buffer, bit by bit, LSB first    *)
(* (crc_16_ibm), and the three checksums of crc3_crc16_ibm: over all       *)
(* bytes, over the odd bytes (1st, 3rd, ...) and over the even bytes.      *)
(* Every state is a uint16_t; the loop never leaves 16 bits.               *)
(*                                                                         *)
(* The reference is the catalogue definition of CRC-16/ARC (also called    *)
(* CRC-16/IBM): generator x^16 + x^15 + x^2 + 1, input and output bits      *)
(* reflected, initial value and final XOR 0; i.e. the reflection of the   *)
(* remainder of M(x) * x^16 divided by the generator over GF(2).           *)
(***************************************************************************)
EXTENDS Naturals, Sequences, SequencesExt, Bitwise

CONSTANTS
  Bytes,   \* byte values the buffers are made of
  MaxLen   \* longest buffer

ASSUME CrcConstants == Bytes \subseteq 0 .. 255 /\ MaxLen \in Nat

(* Mutant: the polynomial left commented out as "WORKING", 0x8005.         *)
CrcPolyWorking == 32773

(* crc_16_ibm_init_value and crc_16_ibm_poly.                              *)
CrcInit == 0
CrcPoly == 40961   \* 0xA001

(* crc_16_ibm_add: XOR the byte in, then eight shifts right, each followed *)
(* by the polynomial when the bit shifted out was 1.                       *)
Crc16IbmAdd(state, data) ==
  LET s[i \in 0 .. 8] ==
        IF i = 0 THEN state ^^ data
        ELSE IF s[i - 1] % 2 = 1 THEN (s[i - 1] \div 2) ^^ CrcPoly
             ELSE s[i - 1] \div 2
  IN s[8]

(* crc_16_ibm_finish returns the state as it is.                           *)
Crc16IbmFinish(state) == state

Crc16Ibm(data) == Crc16IbmFinish(FoldLeft(Crc16IbmAdd, CrcInit, data))

(* Mutant: the parity of the 0-based index decides, odd bytes to state3.   *)
Crc3Crc16IbmZeroBased(data) ==
  LET s[i \in 0 .. Len(data)] ==
        IF i = 0 THEN <<CrcInit, CrcInit, CrcInit>>
        ELSE LET odd == (i - 1) % 2 = 1 IN
             <<Crc16IbmAdd(s[i - 1][1], data[i]),
               IF odd THEN Crc16IbmAdd(s[i - 1][2], data[i]) ELSE s[i - 1][2],
               IF odd THEN s[i - 1][3] ELSE Crc16IbmAdd(s[i - 1][3], data[i])>>
  IN [k \in 1 .. 3 |-> Crc16IbmFinish(s[Len(data)][k])]

(* crc3_crc16_ibm: i runs from 1; state1 takes every byte, state2 the      *)
(* bytes at odd i, state3 those at even i.                                 *)
Crc3Crc16Ibm(data) ==
  LET s[i \in 0 .. Len(data)] ==
        IF i = 0 THEN <<CrcInit, CrcInit, CrcInit>>
        ELSE LET odd == i % 2 = 1 IN
             <<Crc16IbmAdd(s[i - 1][1], data[i]),
               IF odd THEN Crc16IbmAdd(s[i - 1][2], data[i]) ELSE s[i - 1][2],
               IF odd THEN s[i - 1][3] ELSE Crc16IbmAdd(s[i - 1][3], data[i])>>
  IN [k \in 1 .. 3 |-> Crc16IbmFinish(s[Len(data)][k])]

-----------------------------------------------------------------------------
(* The reference.  Reflect(x, n): the n low bits of x in reverse order.    *)
Reflect(x, n) ==
  LET r[i \in 0 .. n] == IF i = 0 THEN 0 ELSE 2 * r[i - 1] + ((x \div 2 ^ (i - 1)) % 2)
  IN r[n]

Generator == 98309   \* x^16 + x^15 + x^2 + 1, 0x18005

(* a mod Generator over GF(2), for a below 2^24: clear bits 23 .. 16.      *)
PolyMod(a) ==
  LET r[j \in 0 .. 8] ==
        IF j = 0 THEN a
        ELSE IF (r[j - 1] \div 2 ^ (24 - j)) % 2 = 1
               THEN r[j - 1] ^^ (Generator * 2 ^ (8 - j))
             ELSE r[j - 1]
  IN r[8]

(* M(x) * x^16 mod G(x) by Horner's rule over the reflected bytes, then    *)
(* reflected.                                                               *)
ArcReference(data) ==
  LET horner(rem, b) == PolyMod((rem * 2 ^ 8) ^^ (Reflect(b, 8) * 2 ^ 16))
  IN Reflect(FoldLeft(horner, 0, data), 16)

(* The reference gives the catalogue check value of CRC-16/ARC, 0xBB3D,    *)
(* on the ASCII string "123456789".                                         *)
ASSUME ReferenceCheckValue ==
  ArcReference(<<49, 50, 51, 52, 53, 54, 55, 56, 57>>) = 47933

OddBytes(data) == [i \in 1 .. (Len(data) + 1) \div 2 |-> data[2 * i - 1]]
EvenBytes(data) == [i \in 1 .. Len(data) \div 2 |-> data[2 * i]]

-----------------------------------------------------------------------------
(* The buffer under test; each step takes another one.                      *)
VARIABLE buffer

Buffers == UNION {[1 .. n -> Bytes] : n \in 0 .. MaxLen}

TypeOK == buffer \in Buffers

Init == buffer \in Buffers

NewBuffer == buffer' \in Buffers

Spec == Init /\ [][NewBuffer]_buffer

(* crc_16_ibm computes CRC-16/ARC of every buffer (its name, CRC-16-IBM,   *)
(* and the "TODO: check" on its constants).                                 *)
Crc16IbmIsArc == Crc16Ibm(buffer) = ArcReference(buffer)

(* crc3_crc16_ibm returns the CRC of the whole buffer, of its odd bytes    *)
(* and of its even bytes, counting from 1 as its comments do.               *)
Crc3Split ==
  Crc3Crc16Ibm(buffer) = <<ArcReference(buffer), ArcReference(OddBytes(buffer)),
                           ArcReference(EvenBytes(buffer))>>

=============================================================================
