------------------------ MODULE BitRangeEventPCProofs ------------------------
(***************************************************************************)
(* Proofs about BitRangeEventPC for every block size, base, event width    *)
(* and bound, for every block that fits in the event space (BlockFits).   *)
(* SettledHoldsPublished is not inductive: when the head of the bus is    *)
(* dispatched, the bit it reports takes the value last published for it   *)
(* only if no later report of that bit is still waiting.  The             *)
(* strengthening PendingInv says so for every bit: the value last         *)
(* published for a bit is that of its last report on the bus, or the      *)
(* stored value when no report of it is waiting.                           *)
(***************************************************************************)
EXTENDS BitRangeEventPC, SequenceTheorems, FiniteSetTheorems, TLAPS

USE BitRangeConstants

(* The decoding of HandleEventReport: an event of the block, its bit and   *)
(* the value it reports.                                                   *)
InBlock(e) == e >= Base /\ (e - Base) \div 2 < Size
BitOf(e) == (e - Base) \div 2
ValOf(e) == (e - Base) % 2 = 0

(* A message on the bus reports a value of bit b.                          *)
About(m, b) == m.kind = "report" /\ InBlock(m.event) /\ BitOf(m.event) = b

StoreOK ==
  /\ data \in [Bits -> BOOLEAN]
  /\ published \in [Bits -> BOOLEAN]
  /\ bus \in Seq(Msg)
  /\ sets \in Nat /\ foreign \in Nat

(* No report of b is waiting: the stored value is the published one.      *)
IdleInv ==
  \A b \in Bits :
    (\A i \in 1 .. Len(bus) : ~About(bus[i], b)) => published[b] = data[b]

(* The last waiting report of b carries the published value.               *)
LastInv ==
  \A b \in Bits, i \in 1 .. Len(bus) :
    About(bus[i], b) /\ (\A j \in i + 1 .. Len(bus) : ~About(bus[j], b))
      => published[b] = ValOf(bus[i].event)

PendingInv == StoreOK /\ IdleInv /\ LastInv

-----------------------------------------------------------------------------
(* Lemmas about the event encoding.                                        *)

(* Powers of two are positive: 2^k is the number of subsets of 1 .. k.    *)
LEMMA PowPos == ASSUME NEW k \in Nat PROVE 2 ^ k \in Nat \ {0}
<1>1. IsFiniteSet(1 .. k) /\ Cardinality(1 .. k) = k
  BY FS_Interval
<1>2. IsFiniteSet(SUBSET (1 .. k)) /\ Cardinality(SUBSET (1 .. k)) = 2 ^ k
  BY <1>1, FS_SUBSET
<1>3. SUBSET (1 .. k) # {}
  OBVIOUS
<1>. QED
  BY <1>2, <1>3, FS_CardinalityType, FS_EmptySet

LEMMA EventSpace == M \in Nat \ {0} /\ Base \in Events
BY DEF M, Events

(* The protocol's meaning of an event is the decoding of HandleEventReport.*)
LEMMA MeaningExact ==
  ASSUME NEW e \in Events
  PROVE  Meaning(e) = IF InBlock(e) THEN {<<BitOf(e), ValOf(e)>>} ELSE {}
<1>0. M \in Nat \ {0} /\ Base \in Events /\ e \in Nat
  BY EventSpace DEF Events
<1>1. ASSUME NEW bv \in Meaning(e)
      PROVE  InBlock(e) /\ bv = <<BitOf(e), ValOf(e)>>
  <2>1. bv \in Bits \X BOOLEAN /\ e = Base + 2 * bv[1] + (IF bv[2] THEN 0 ELSE 1)
    BY <1>1 DEF Meaning
  <2>2. bv[1] \in Nat /\ bv[1] < Size /\ bv[2] \in BOOLEAN
    BY <2>1 DEF Bits
  <2>3. InBlock(e) /\ BitOf(e) = bv[1]
    BY <1>0, <2>1, <2>2 DEF InBlock, BitOf
  <2>4. ValOf(e) = bv[2]
    BY <1>0, <2>1, <2>2 DEF ValOf
  <2>. QED
    BY <2>1, <2>3, <2>4
<1>2. ASSUME InBlock(e) PROVE <<BitOf(e), ValOf(e)>> \in Meaning(e)
  <2>1. BitOf(e) \in Bits
    BY <1>0, <1>2 DEF InBlock, BitOf, Bits
  <2>2. e = Base + 2 * BitOf(e) + (IF ValOf(e) THEN 0 ELSE 1)
    BY <1>0, <1>2 DEF InBlock, BitOf, ValOf
  <2>3. <<BitOf(e), ValOf(e)>> \in Bits \X BOOLEAN
    BY <2>1 DEF ValOf
  <2>. QED
    BY <2>2, <2>3, Zenon DEF Meaning
<1>. QED
  BY <1>1, <1>2

(* Publish records the decoded value of an event of the block.             *)
LEMMA PublishExact ==
  ASSUME NEW e \in Events, NEW h
  PROVE  Publish(e, h) = IF InBlock(e) THEN [h EXCEPT ![BitOf(e)] = ValOf(e)]
                                       ELSE h
<1>1. CASE InBlock(e)
  <2>1. Meaning(e) = {<<BitOf(e), ValOf(e)>>}
    BY <1>1, MeaningExact
  <2>2. (CHOOSE bv \in Meaning(e) : TRUE) = <<BitOf(e), ValOf(e)>>
    BY <2>1
  <2>3. Meaning(e) # {}
    BY <2>1
  <2>4. Publish(e, h) = [h EXCEPT ![<<BitOf(e), ValOf(e)>>[1]] = <<BitOf(e), ValOf(e)>>[2]]
    BY <2>2, <2>3, Zenon DEF Publish
  <2>. QED
    BY <1>1, <2>4
<1>2. CASE ~InBlock(e)
  BY <1>2, MeaningExact DEF Publish
<1>. QED
  BY <1>1, <1>2

(* HandleEventReport writes the decoded value of an event of the block and *)
(* leaves the store alone otherwise.                                       *)
LEMMA HandleExact ==
  ASSUME NEW e \in Events
  PROVE  HandleEventReport(e) <=>
           data' = IF InBlock(e) THEN [data EXCEPT ![BitOf(e)] = ValOf(e)]
                   ELSE data
<1>0. M \in Nat \ {0} /\ Base \in 0 .. M - 1 /\ e \in 0 .. M - 1
  BY EventSpace DEF Events
<1>1. CASE e < Base
  <2>1. ~InBlock(e)
    BY <1>0, <1>1 DEF InBlock
  <2>2. HandleEventReport(e) <=> data' = data
    BY <1>1 DEF HandleEventReport
  <2>. QED
    BY <2>1, <2>2
<1>2. CASE e >= Base
  <2>1. (e - Base) % M = e - Base
    BY <1>0, <1>2
  <2>2. HandleEventReport(e) <=>
          IF (e - Base) \div 2 >= Size THEN data' = data
          ELSE data' = [data EXCEPT ![(e - Base) \div 2] = ((e - Base) % 2 = 0)]
    BY <1>0, <1>2, <2>1 DEF HandleEventReport
  <2>3. InBlock(e) <=> ~((e - Base) \div 2 >= Size)
    BY <1>0, <1>2 DEF InBlock
  <2>. QED
    BY <2>2, <2>3 DEF BitOf, ValOf
<1>. QED
  BY <1>0, <1>1, <1>2

LEMMA BitOfBits ==
  ASSUME NEW e \in Events, InBlock(e) PROVE BitOf(e) \in Bits
BY EventSpace DEF Events, InBlock, BitOf, Bits

(* A waiting message reports about at most one bit.                        *)
LEMMA AboutOne ==
  ASSUME NEW m, NEW b, NEW c, About(m, b), About(m, c) PROVE b = c
BY DEF About

(* Settled is the absence of waiting reports of the bit.                   *)
LEMMA SettledIff ==
  ASSUME bus \in Seq(Msg), NEW b \in Bits
  PROVE  Settled(b) <=> \A i \in 1 .. Len(bus) : ~About(bus[i], b)
<1>1. ASSUME NEW i \in 1 .. Len(bus)
      PROVE  (bus[i].kind = "report" => \A bv \in Meaning(bus[i].event) : bv[1] # b)
               <=> ~About(bus[i], b)
  <2>1. bus[i] \in Msg
    BY <1>1, ElementOfSeq
  <2>2. bus[i].event \in Events
    BY <2>1 DEF Msg
  <2>3. CASE InBlock(bus[i].event)
    <3>1. Meaning(bus[i].event) = {<<BitOf(bus[i].event), ValOf(bus[i].event)>>}
      BY <2>2, <2>3, MeaningExact
    <3>. QED
      BY <2>3, <3>1 DEF About
  <2>4. CASE ~InBlock(bus[i].event)
    <3>1. Meaning(bus[i].event) = {}
      BY <2>2, <2>4, MeaningExact
    <3>. QED
      BY <2>4, <3>1 DEF About
  <2>. QED
    BY <2>3, <2>4
<1>. QED
  BY <1>1 DEF Settled

(* Set's report means the bit and value Set was called with, when the    *)
(* block fits in the event space and bit * 2 does not overflow.           *)
LEMMA SetEncoding ==
  ASSUME BlockFits, NEW b \in Bits, NEW v \in BOOLEAN
  PROVE  LET event == (Base + ((b * 2) % 2 ^ SizeWidth)) % M
             sent == IF v THEN event ELSE (event + 1) % M
         IN  sent \in Events /\ InBlock(sent) /\ BitOf(sent) = b /\ ValOf(sent) = v
<1> DEFINE event == (Base + ((b * 2) % 2 ^ SizeWidth)) % M
           sent == IF v THEN event ELSE (event + 1) % M
<1>0. 2 ^ SizeWidth \in Nat \ {0} /\ M \in Nat \ {0} /\ b \in 0 .. Size - 1
  BY PowPos, EventSpace DEF Bits
<1>1. (b * 2) % 2 ^ SizeWidth = 2 * b
  BY <1>0 DEF BlockFits
<1>2. event = Base + 2 * b
  BY <1>0, <1>1 DEF BlockFits, M
<1>3. sent = Base + 2 * b + (IF v THEN 0 ELSE 1)
  BY <1>0, <1>2 DEF BlockFits, M
<1>4. sent \in Events
  BY <1>0, <1>3 DEF BlockFits, M, Events
<1>. QED
  BY <1>0, <1>3, <1>4 DEF InBlock, BitOf, ValOf

-----------------------------------------------------------------------------
(* The invariant holds initially and is kept by every step.                *)

LEMMA InitPending == Init => PendingInv
BY DEF Init, PendingInv, StoreOK, IdleInv, LastInv

(* A message put on the bus, by Set or by another node, with the history   *)
(* of published values updated for a report.                               *)
LEMMA AppendPending ==
  ASSUME PendingInv, NEW m \in Msg,
         bus' = Append(bus, m), data' = data,
         published' = IF m.kind = "report" THEN Publish(m.event, published)
                      ELSE published,
         sets' \in Nat, foreign' \in Nat
  PROVE  PendingInv'
<1> DEFINE n == Len(bus)
<1>0. /\ bus \in Seq(Msg) /\ n \in Nat
      /\ bus' \in Seq(Msg) /\ Len(bus') = n + 1
      /\ \A i \in 1 .. n : bus'[i] = bus[i]
      /\ bus'[n + 1] = m
      /\ m.event \in Events
  BY AppendProperties DEF PendingInv, StoreOK, Msg
<1>1. CASE \E c \in Bits : About(m, c)
  <2>1. PICK c \in Bits : About(m, c)
    BY <1>1
  <2>2. published' = [published EXCEPT ![c] = ValOf(m.event)]
    BY <1>0, <2>1, PublishExact DEF About
  <2>3. StoreOK'
    BY <1>0, <2>2 DEF PendingInv, StoreOK, ValOf
  <2>4. IdleInv'
    <3> SUFFICES ASSUME NEW b \in Bits,
                        \A i \in 1 .. Len(bus') : ~About(bus'[i], b)
                 PROVE  published'[b] = data'[b]
      BY DEF IdleInv
    <3>1. b # c
      BY <1>0, <2>1
    <3>2. \A i \in 1 .. n : ~About(bus[i], b)
      BY <1>0
    <3>. QED
      BY <2>2, <3>1, <3>2 DEF PendingInv, IdleInv, StoreOK
  <2>5. LastInv'
    <3> SUFFICES ASSUME NEW b \in Bits, NEW i \in 1 .. Len(bus'),
                        About(bus'[i], b),
                        \A j \in i + 1 .. Len(bus') : ~About(bus'[j], b)
                 PROVE  published'[b] = ValOf(bus'[i].event)
      BY DEF LastInv
    <3>1. CASE i = n + 1
      <4>1. b = c
        BY <1>0, <2>1, <3>1, AboutOne
      <4>. QED
        BY <1>0, <2>2, <3>1, <4>1 DEF PendingInv, StoreOK
    <3>2. CASE i \in 1 .. n
      <4>1. b # c
        BY <1>0, <2>1, <3>2
      <4>2. About(bus[i], b) /\ \A j \in i + 1 .. n : ~About(bus[j], b)
        BY <1>0, <3>2
      <4>. QED
        BY <1>0, <2>2, <3>2, <4>1, <4>2 DEF PendingInv, LastInv, StoreOK
    <3>. QED
      BY <1>0, <3>1, <3>2
  <2>. QED
    BY <2>3, <2>4, <2>5 DEF PendingInv
<1>2. CASE ~\E c \in Bits : About(m, c)
  <2>1. published' = published
    <3>1. m.kind = "report" => ~InBlock(m.event)
      BY <1>0, <1>2, BitOfBits DEF About
    <3>. QED
      BY <1>0, <3>1, PublishExact
  <2>2. StoreOK'
    BY <1>0, <2>1 DEF PendingInv, StoreOK
  <2>3. IdleInv'
    <3> SUFFICES ASSUME NEW b \in Bits,
                        \A i \in 1 .. Len(bus') : ~About(bus'[i], b)
                 PROVE  published'[b] = data'[b]
      BY DEF IdleInv
    <3>1. \A i \in 1 .. n : ~About(bus[i], b)
      BY <1>0
    <3>. QED
      BY <2>1, <3>1 DEF PendingInv, IdleInv
  <2>4. LastInv'
    <3> SUFFICES ASSUME NEW b \in Bits, NEW i \in 1 .. Len(bus'),
                        About(bus'[i], b),
                        \A j \in i + 1 .. Len(bus') : ~About(bus'[j], b)
                 PROVE  published'[b] = ValOf(bus'[i].event)
      BY DEF LastInv
    <3>1. i \in 1 .. n
      BY <1>0, <1>2
    <3>2. About(bus[i], b) /\ \A j \in i + 1 .. n : ~About(bus[j], b)
      BY <1>0, <3>1
    <3>. QED
      BY <1>0, <2>1, <3>1, <3>2 DEF PendingInv, LastInv
  <2>. QED
    BY <2>2, <2>3, <2>4 DEF PendingInv
<1>. QED
  BY <1>1, <1>2

(* Dispatching the head of the bus: a report of the block writes its bit, *)
(* every other message leaves the store alone.                             *)
LEMMA DispatchData ==
  ASSUME PendingInv, Dispatch
  PROVE  LET h == Head(bus) IN
           data' = IF h.kind = "report" /\ InBlock(h.event)
                     THEN [data EXCEPT ![BitOf(h.event)] = ValOf(h.event)]
                     ELSE data
<1> DEFINE h == Head(bus)
<1>0. h \in Msg
  BY HeadTailProperties DEF PendingInv, StoreOK, Dispatch
<1>1. CASE h.kind = "report"
  <2>1. HandleEventReport(h.event)
    BY <1>1 DEF Dispatch
  <2>. QED
    BY <1>0, <1>1, <2>1, HandleExact DEF Msg
<1>2. CASE h.kind # "report"
  <2>1. data' = data
    BY <1>0, <1>2 DEF Dispatch, Msg, Requests
  <2>. QED
    BY <1>2, <2>1
<1>. QED
  BY <1>1, <1>2

LEMMA DispatchPending ==
  ASSUME PendingInv, Dispatch
  PROVE  PendingInv'
<1> DEFINE n == Len(bus)
           h == Head(bus)
<1>0. /\ bus \in Seq(Msg) /\ n \in Nat \ {0}
      /\ bus' \in Seq(Msg) /\ Len(bus') = n - 1
      /\ \A i \in 1 .. n - 1 : bus'[i] = bus[i + 1]
      /\ h = bus[1] /\ h \in Msg
      /\ published' = published
  BY HeadTailProperties DEF PendingInv, StoreOK, Dispatch
<1>1. data' = IF h.kind = "report" /\ InBlock(h.event)
                THEN [data EXCEPT ![BitOf(h.event)] = ValOf(h.event)]
                ELSE data
  BY DispatchData
<1>2. StoreOK'
  <2>1. data' \in [Bits -> BOOLEAN]
    BY <1>0, <1>1, BitOfBits DEF PendingInv, StoreOK, Msg, ValOf
  <2>2. sets' \in Nat /\ foreign' \in Nat
    BY DEF Dispatch, PendingInv, StoreOK
  <2>. QED
    BY <1>0, <2>1, <2>2 DEF PendingInv, StoreOK
<1>3. IdleInv'
  <2> SUFFICES ASSUME NEW b \in Bits,
                      \A i \in 1 .. Len(bus') : ~About(bus'[i], b)
               PROVE  published'[b] = data'[b]
    BY DEF IdleInv
  <2>1. ASSUME NEW j \in 2 .. n PROVE ~About(bus[j], b)
    <3>1. j - 1 \in 1 .. Len(bus') /\ bus'[j - 1] = bus[j]
      BY <1>0
    <3>. QED
      BY <3>1
  <2>2. CASE About(h, b)
    <3>1. data'[b] = ValOf(h.event)
      BY <1>0, <1>1, <2>2 DEF PendingInv, StoreOK, About
    <3>2. published[b] = ValOf(bus[1].event)
      BY <1>0, <2>1, <2>2 DEF PendingInv, LastInv
    <3>. QED
      BY <1>0, <3>1, <3>2
  <2>3. CASE ~About(h, b)
    <3>1. data'[b] = data[b]
      BY <1>0, <1>1, <2>3 DEF PendingInv, StoreOK, About
    <3>2. \A j \in 1 .. n : ~About(bus[j], b)
      BY <1>0, <2>1, <2>3
    <3>. QED
      BY <1>0, <3>1, <3>2 DEF PendingInv, IdleInv
  <2>. QED
    BY <2>2, <2>3
<1>4. LastInv'
  <2> SUFFICES ASSUME NEW b \in Bits, NEW i \in 1 .. Len(bus'),
                      About(bus'[i], b),
                      \A j \in i + 1 .. Len(bus') : ~About(bus'[j], b)
               PROVE  published'[b] = ValOf(bus'[i].event)
    BY DEF LastInv
  <2>1. i + 1 \in 1 .. n /\ bus'[i] = bus[i + 1]
    BY <1>0
  <2>2. ASSUME NEW j \in (i + 1) + 1 .. n PROVE ~About(bus[j], b)
    <3>1. j - 1 \in i + 1 .. Len(bus') /\ bus'[j - 1] = bus[j]
      BY <1>0
    <3>. QED
      BY <3>1
  <2>3. About(bus[i + 1], b)
    BY <2>1
  <2>. QED
    BY <1>0, <2>1, <2>2, <2>3 DEF PendingInv, LastInv
<1>. QED
  BY <1>2, <1>3, <1>4 DEF PendingInv

(* Every step keeps the invariant.                                         *)
LEMMA NextPending ==
  ASSUME BlockFits PROVE PendingInv /\ [Next]_vars => PendingInv'
<1> SUFFICES ASSUME PendingInv, [Next]_vars PROVE PendingInv'
  OBVIOUS
<1>1. ASSUME NEW b \in Bits, NEW v \in BOOLEAN, Set(b, v) PROVE PendingInv'
  <2> DEFINE event == (Base + ((b * 2) % 2 ^ SizeWidth)) % M
             sent == IF v THEN event ELSE (event + 1) % M
             m == [kind |-> "report", event |-> sent]
  <2>0. 2 ^ SizeWidth \in Nat \ {0} /\ b \in Nat
    BY PowPos DEF Bits
  <2>1. sent \in Events
    BY <2>0, EventSpace DEF Events
  <2>2. m \in Msg
    BY <2>1 DEF Msg, Requests
  <2>3. sets' \in Nat /\ foreign' \in Nat
    BY <1>1 DEF Set, PendingInv, StoreOK
  <2>4. CASE GetBitAndMask(b) /\ data[b] # v
    <3>1. bus' = Append(bus, m) /\ published' = [published EXCEPT ![b] = v]
          /\ data' = data
      BY <1>1, <2>4 DEF Set
    <3>2. Publish(sent, published) = [published EXCEPT ![b] = v]
      BY <2>1, SetEncoding, PublishExact
    <3>. QED
      BY <2>2, <2>3, <3>1, <3>2, AppendPending
  <2>5. CASE ~(GetBitAndMask(b) /\ data[b] # v)
    <3>1. UNCHANGED <<bus, published, data>>
      BY <1>1, <2>5 DEF Set
    <3>. QED
      BY <2>3, <3>1 DEF PendingInv, StoreOK, IdleInv, LastInv
  <2>. QED
    BY <2>4, <2>5
<1>2. ASSUME NEW k \in Requests, NEW e \in ForeignEvents, Foreign(k, e)
      PROVE  PendingInv'
  <2>1. [kind |-> k, event |-> e] \in Msg
    BY EventSpace DEF Msg, Events, M
  <2>. QED
    BY <1>2, <2>1, AppendPending DEF Foreign, PendingInv, StoreOK
<1>3. CASE Dispatch
  BY <1>3, DispatchPending
<1>4. CASE UNCHANGED vars
  BY <1>4 DEF vars, PendingInv, StoreOK, IdleInv, LastInv
<1>. QED
  BY <1>1, <1>2, <1>3, <1>4 DEF Next

-----------------------------------------------------------------------------
(* For every block that fits in the event space, every base, event width *)
(* and bound: once no report of a bit is waiting for dispatch, the node's  *)
(* stored bit is the value last reported for it, the one a caller of Set  *)
(* asked for or the one another node's event means.  Set's encoding (with *)
(* bit * 2 in unsigned) and HandleEventReport's decoding are inverse.      *)
THEOREM SettledCorrect ==
  ASSUME BlockFits PROVE Spec => []SettledHoldsPublished
<1>1. Init => PendingInv
  BY InitPending
<1>2. PendingInv /\ [Next]_vars => PendingInv'
  BY NextPending
<1>3. PendingInv => SettledHoldsPublished
  BY SettledIff DEF PendingInv, StoreOK, IdleInv, SettledHoldsPublished
<1>. QED
  BY <1>1, <1>2, <1>3, PTL DEF Spec

=============================================================================
