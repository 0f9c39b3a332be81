----------------------------- MODULE EventRange -----------------------------
(***************************************************************************)
(* EncodeRange(begin, size) of EventHandlerTemplates.cxx: the event range  *)
(* identifier that BitRangeEventPC announces for its block of 2 * size     *)
(* events starting at begin.  An OpenLCB range identifier r stands for the *)
(* events that agree with r above its trailing run of equal bits.          *)
(*                                                                         *)
(* The 64-bit event space is scaled to EventWidth bits and unsigned to     *)
(* SizeWidth bits; every addition, product and shift wraps as in the code. *)
(* A block below the middle of the scaled space stands for one below       *)
(* 2^63, i.e. of a node ID below 80.00.00.00.00.00.                         *)
(***************************************************************************)
EXTENDS Naturals

CONSTANTS
  EventWidth,  \* bits of an event ID (64 in the code)
  SizeWidth,   \* bits of unsigned (32 in the code)
  MaxSize      \* largest bit count a handler is built with

ASSUME EventRangeConstants ==
  /\ EventWidth \in Nat \ {0} /\ SizeWidth \in Nat \ {0}
  /\ MaxSize \in Nat \ {0}

M == 2 ^ EventWidth
Events == 0 .. M - 1

(* The loop never returns: shift has overflowed to 0 while                 *)
(* begin + shift <= end still holds.                                       *)
Hang == M

(* begin & shift # 0, and begin &= ~shift, for shift a power of two or 0. *)
BitSet(x, shift) == shift # 0 /\ (x \div shift) % 2 = 1
ClearBit(x, shift) == IF BitSet(x, shift) THEN x - shift ELSE x

(* begin | (shift - 1), the subtraction wrapping for shift = 0.            *)
FillBelow(x, shift) == IF shift = 0 THEN M - 1 ELSE (x - (x % shift)) + (shift - 1)

(* The loop of EncodeRange and what follows it.  Pass i of the loop starts *)
(* with shift = 2^i (0 once shifted out of the word) and begin with bits   *)
(* 0 .. i-1 cleared by the earlier passes; the loop leaves at the first    *)
(* pass whose guard begin + shift <= end fails.                            *)
EncodeLoop(begin, end) ==
  LET shift(i) == (2 ^ i) % M
      b[i \in 0 .. EventWidth] ==
        IF i = 0 THEN begin ELSE ClearBit(b[i - 1], shift(i - 1))
      exits == {i \in 0 .. EventWidth : (b[i] + shift(i)) % M > end}
  IN IF exits = {} THEN Hang
     ELSE LET last == CHOOSE i \in exits : \A j \in exits : i <= j
          IN IF BitSet(b[last], shift(last)) THEN b[last]
             ELSE FillBelow(b[last], shift(last))

(* Mutant: end = begin + size, the factor 2 dropped.                       *)
EncodeRangeNoDouble(begin, size) == EncodeLoop(begin, (begin + size) % M)

(* uint64_t end = begin + size * 2, with size * 2 in unsigned.             *)
EncodeRange(begin, size) ==
  EncodeLoop(begin, (begin + ((size * 2) % 2 ^ SizeWidth)) % M)

-----------------------------------------------------------------------------
(* The reference: the events a range identifier r stands for.              *)
AllEqualBelow(r, k) == r % 2 ^ k \in {0, 2 ^ k - 1}
TrailingRun(r) ==
  CHOOSE k \in 0 .. EventWidth :
    AllEqualBelow(r, k) /\ (k = EventWidth \/ ~AllEqualBelow(r, k + 1))
RangeEvents(r) ==
  LET k == TrailingRun(r) IN {e \in Events : e \div 2 ^ k = r \div 2 ^ k}

(* The block of a handler: two events per bit.                             *)
Block(begin, size) == {e \in Events : begin <= e /\ e < begin + 2 * size}

-----------------------------------------------------------------------------
(* The handler under test: its event base and bit count.  Each step       *)
(* builds another handler, so that every input is visited.                 *)
VARIABLES eventBase, bitCount

vars == <<eventBase, bitCount>>

TypeOK == eventBase \in Events /\ bitCount \in 1 .. MaxSize

Init == eventBase \in Events /\ bitCount \in 1 .. MaxSize

NewHandler ==
  \E b \in Events, n \in 1 .. MaxSize : eventBase' = b /\ bitCount' = n

Spec == Init /\ [][NewHandler]_vars

(* The whole block, up to its end marker begin + 2 * size, lies below the   *)
(* middle of the event space.                                               *)
LowerHalf == eventBase + 2 * bitCount < M \div 2

(* For every block in the lower half, EncodeRange returns a range that     *)
(* covers every event of the block (the comment at line 150).               *)
EncodeRangeCovers ==
  LowerHalf =>
    LET r == EncodeRange(eventBase, bitCount)
    IN r # Hang /\ Block(eventBase, bitCount) \subseteq RangeEvents(r)

(* The same for every block of the event space: the comment names no        *)
(* exception.                                                               *)
EncodeRangeCoversAll ==
  LET r == EncodeRange(eventBase, bitCount)
  IN r # Hang /\ Block(eventBase, bitCount) \subseteq RangeEvents(r)

=============================================================================
