------------------------ MODULE RailcomDriverProofs ------------------------
(***************************************************************************)
(* Proofs about RailcomDriver for every number of channels, every pool     *)
(* size, every RDR depth and every bound.                                  *)
(*                                                                         *)
(* Byte and Record are kept opaque in the step proofs: the SMT backend     *)
(* does not combine BOOLEAN-valued record fields with arithmetic, so the   *)
(* facts that need their definitions are small lemmas proved by Zenon.     *)
(***************************************************************************)
EXTENDS RailcomDriver, TLAPS

USE NumChannelsAssumption, SlotsAssumption, DepthAssumption, BoundsAssumption

-----------------------------------------------------------------------------
(* Lemmas about the data of the model.                                     *)

LEMMA ByteLemma ==
  ASSUME NEW c \in 0 .. MaxCutouts, NEW e \in BOOLEAN
  PROVE  [cut |-> c, err |-> e] \in Byte
BY Zenon DEF Byte

LEMMA NoByteType == NoByte \in Byte
<1>1. 0 \in 0 .. MaxCutouts
  OBVIOUS
<1>. QED
  BY <1>1, ByteLemma DEF NoByte

LEMMA NewRecordType ==
  ASSUME NEW i \in Channels, NEW c \in 0 .. MaxCutouts
  PROVE  NewRecord(i, c) \in Record
BY DEF NewRecord, Record

(* Appending a byte to either payload of a record leaves it a record.      *)
LEMMA AppendPayload ==
  ASSUME NEW r \in Record, NEW b \in Byte
  PROVE  /\ [r EXCEPT !.ch1 = Append(@, b)] \in Record
         /\ [r EXCEPT !.ch2 = Append(@, b)] \in Record
<1>1. Append(r.ch1, b) \in Seq(Byte) /\ Append(r.ch2, b) \in Seq(Byte)
  BY DEF Record
<1>. QED
  BY <1>1, Zenon DEF Record

LEMMA StorePayload ==
  ASSUME NEW f \in [Slots -> Record], NEW s \in Slots, NEW b \in Byte
  PROVE  /\ [f EXCEPT ![s].ch1 = Append(@, b)] \in [Slots -> Record]
         /\ [f EXCEPT ![s].ch2 = Append(@, b)] \in [Slots -> Record]
BY AppendPayload

(* The channel loop stays on a channel and goes to one of its two exits.   *)
LEMMA NextChannelType ==
  ASSUME ci \in Channels, NEW again, NEW done, NextChannel(again, done)
  PROVE  ci' \in Channels /\ pc' \in {again, done}
BY DEF NextChannel, LastChannel, Channels

(* Leaving the UART hardware unchanged leaves each of its registers.       *)
LEMMA HwUnchanged ==
  ASSUME UNCHANGED hw
  PROVE  ue' = ue /\ dir' = dir /\ rdr' = rdr /\ fe' = fe
BY DEF hw

(* The synthetic empty record keeps the pool and the queue well typed.     *)
LEMMA SyntheticRecordType ==
  ASSUME rec \in [Slots -> Record], feedbackQueue \in Seq(Slots),
         cut \in 0 .. MaxCutouts, NEW base \in Nat, SyntheticRecord(base)
  PROVE  rec' \in [Slots -> Record] /\ feedbackQueue' \in Seq(Slots)
         /\ delivered' \in Nat
<1>1. CASE FreeSlots = {} /\ delivered' = base
           /\ UNCHANGED <<rec, feedbackQueue, pending>>
  BY <1>1
<1>2. CASE \E s \in FreeSlots :
             /\ rec' = [rec EXCEPT ![s] = NewRecord(0, cut)]
             /\ Commit(s)
             /\ delivered' = base + 1
  <2>1. PICK s \in FreeSlots :
             /\ rec' = [rec EXCEPT ![s] = NewRecord(0, cut)]
             /\ Commit(s)
             /\ delivered' = base + 1
    BY <1>2
  <2>2. s \in Slots /\ 0 \in Channels
    BY DEF FreeSlots, Channels
  <2>3. NewRecord(0, cut) \in Record
    BY <2>2, NewRecordType
  <2>. QED
    BY <2>1, <2>2, <2>3 DEF Commit
<1>. QED
  BY <1>1, <1>2 DEF SyntheticRecord

LEMMA NoBytesYetType == NoBytesYet \in [Channels -> 0 .. MaxBytes]
BY DEF NoBytesYet

-----------------------------------------------------------------------------
(* Type correctness.                                                       *)

(* The type invariant is not inductive by itself: MiddleStoreByte and      *)
(* EndStoreByte append to rec[returnedPackets[i]], which is a record only  *)
(* because DrainRead never reaches the FE test without a record in hand.   *)
CheckHasRecord ==
  pc \in {"m_check", "e_check"} => returnedPackets[ci] \in Slots

TypeIInv == StateOK /\ CheckHasRecord

LEMMA InitTypeIInv == Init => TypeIInv
<1> SUFFICES ASSUME Init PROVE TypeIInv
  OBVIOUS
<1>1. rec \in [Slots -> Record]
  <2>1. 0 \in Channels /\ 0 \in 0 .. MaxCutouts
    BY DEF Channels
  <2>. QED
    BY <2>1, NewRecordType DEF Init
<1>. QED
  BY <1>1, NoByteType DEF Init, TypeIInv, StateOK, CheckHasRecord, PC,
     Channels

LEMMA NextTypeIInv == TypeIInv /\ [Next]_vars => TypeIInv'
<1> SUFFICES ASSUME TypeIInv, [Next]_vars PROVE TypeIInv'
  OBVIOUS
<1> USE DEF TypeIInv, StateOK, CheckHasRecord, PC
<1>1. ASSUME NEW i \in Channels, NEW e \in BOOLEAN, ReceiveByte(i, e)
      PROVE TypeIInv'
  <2>1. [cut |-> cut, err |-> e] \in Byte
    BY ByteLemma
  <2>. QED
    BY <1>1, <2>1 DEF ReceiveByte
<1>2. CASE StartCutout
  BY <1>2, NoBytesYetType, HwUnchanged DEF StartCutout, Channels
<1>3. CASE StartSetDirection
  BY <1>3 DEF StartSetDirection
<1>4. CASE StartFlushByte
  BY <1>4 DEF StartFlushByte
<1>5. CASE StartChannelDone
  BY <1>5, NextChannelType, HwUnchanged DEF StartChannelDone
<1>6. ASSUME NEW lp \in {"m_loop", "e_loop"}, NEW tp \in {"m_tail", "e_tail"},
             DrainAllocFailed(lp, tp)
      PROVE TypeIInv'
  BY <1>6, HwUnchanged DEF DrainAllocFailed
<1>7. ASSUME NEW lp \in {"m_loop", "e_loop"},
             NEW cp \in {"m_check", "e_check"},
             DrainRead(lp, cp)
      PROVE TypeIInv'
  <2>1. data' \in Byte /\ rdr' \in [Channels -> Seq(Byte)]
    BY <1>7 DEF DrainRead
  <2>2. CASE returnedPackets[ci] # NoPacket
    BY <1>7, <2>1, <2>2 DEF DrainRead
  <2>3. CASE returnedPackets[ci] = NoPacket
    <3>1. PICK s \in FreeSlots : AllocFor(ci, s)
      BY <1>7, <2>3 DEF DrainRead
    <3>2. s \in Slots /\ cut \in 0 .. MaxCutouts
      BY DEF FreeSlots
    <3>3. NewRecord(ci, cut) \in Record
      BY <3>2, NewRecordType
    <3>. QED
      BY <1>7, <2>1, <3>1, <3>2, <3>3 DEF DrainRead, AllocFor
  <2>. QED
    BY <2>2, <2>3
<1>8. ASSUME NEW lp \in {"m_loop", "e_loop"}, NEW tp \in {"m_tail", "e_tail"},
             DrainEmpty(lp, tp)
      PROVE TypeIInv'
  BY <1>8, HwUnchanged DEF DrainEmpty
<1>9. CASE MiddleCutout
  BY <1>9, NoBytesYetType, HwUnchanged DEF MiddleCutout, Channels
<1>10. CASE MiddleFramingError
  BY <1>10, NoByteType DEF MiddleFramingError
<1>11. CASE MiddleStoreByte
  BY <1>11, NoByteType, StorePayload, HwUnchanged DEF MiddleStoreByte
<1>12. CASE MiddleChannelDone
  BY <1>12, NextChannelType DEF MiddleChannelDone
<1>13. CASE EndCutout
  BY <1>13, NoBytesYetType, HwUnchanged DEF EndCutout, Channels
<1>14. CASE EndFramingError
  BY <1>14, NoByteType DEF EndFramingError
<1>15. CASE EndStoreByte
  BY <1>15, NoByteType, StorePayload, HwUnchanged DEF EndStoreByte
<1>16. CASE EndChannelDone
  <2>1. ci' \in Channels /\ pc' \in {"e_loop", "e_final"}
    BY <1>16, NextChannelType DEF EndChannelDone
  <2>2. CASE returnedPackets[ci] # NoPacket
    <3>1. /\ returnedPackets' = [returnedPackets EXCEPT ![ci] = NoPacket]
          /\ feedbackQueue' = Append(feedbackQueue, returnedPackets[ci])
          /\ delivered' = delivered + 1
      BY <1>16, <2>2, Zenon DEF EndChannelDone, Commit
    <3>2. returnedPackets[ci] \in Slots
      BY <2>2
    <3>. QED
      BY <1>16, <2>1, <3>1, <3>2 DEF EndChannelDone
  <2>3. CASE returnedPackets[ci] = NoPacket
    BY <1>16, <2>1, <2>3 DEF EndChannelDone
  <2>. QED
    BY <2>2, <2>3
<1>17. CASE EndFinal
  <2>1. rec' \in [Slots -> Record] /\ feedbackQueue' \in Seq(Slots)
        /\ delivered' \in Nat
    BY <1>17, SyntheticRecordType DEF EndFinal
  <2>. QED
    BY <1>17, <2>1, HwUnchanged DEF EndFinal
<1>18. CASE NoCutout
  <2>1. rec' \in [Slots -> Record] /\ feedbackQueue' \in Seq(Slots)
        /\ delivered' \in Nat
    BY <1>18, SyntheticRecordType DEF NoCutout
  <2>. QED
    BY <1>18, <2>1, NoBytesYetType, HwUnchanged DEF NoCutout
<1>19. CASE FeedbackSample
  BY <1>19, HwUnchanged DEF FeedbackSample
<1>20. CASE Enable
  BY <1>20 DEF Enable
<1>21. CASE Disable
  BY <1>21 DEF Disable
<1>22. CASE Consume
  <2>1. rec' \in [Slots -> Record]
    BY <1>22, NewRecordType DEF Consume, Channels
  <2>. QED
    BY <1>22, <2>1, HwUnchanged DEF Consume
<1>23. CASE UNCHANGED vars
  BY <1>23 DEF vars, hw
<1>24. CASE PhaseStep
  BY <1>24, <1>3, <1>4, <1>5, <1>6, <1>7, <1>8, <1>10, <1>11, <1>12,
       <1>14, <1>15, <1>16, <1>17
  DEF PhaseStep
<1>25. CASE Call
  BY <1>25, <1>2, <1>9, <1>13, <1>18, <1>19, <1>20, <1>21 DEF Call
<1>. QED
  BY <1>1, <1>22, <1>23, <1>24, <1>25 DEF Next

(* The Boolean-valued part of the type invariant, proved apart because    *)
(* only Zenon handles it.                                                  *)
LEMMA NextFlagsOK == FlagsOK /\ [Next]_vars => FlagsOK'
<1> SUFFICES ASSUME FlagsOK, [Next]_vars PROVE FlagsOK'
  OBVIOUS
<1> USE DEF FlagsOK
<1>1. ASSUME NEW i \in Channels, NEW e \in BOOLEAN, ReceiveByte(i, e)
      PROVE FlagsOK'
  BY <1>1, Zenon DEF ReceiveByte
<1>2. ASSUME NEW lp, NEW tp, DrainAllocFailed(lp, tp) \/ DrainEmpty(lp, tp)
      PROVE FlagsOK'
  BY <1>2, Zenon DEF DrainAllocFailed, DrainEmpty, hw
<1>3. ASSUME NEW lp, NEW cp, DrainRead(lp, cp) PROVE FlagsOK'
  BY <1>3, Zenon DEF DrainRead
<1>4. CASE StartSetDirection \/ StartFlushByte \/ StartChannelDone
  BY <1>4, Zenon DEF StartSetDirection, StartFlushByte, StartChannelDone, hw
<1>5. CASE MiddleFramingError \/ MiddleStoreByte \/ MiddleChannelDone
  BY <1>5, Zenon DEF MiddleFramingError, MiddleStoreByte, MiddleChannelDone,
     hw
<1>6. CASE EndFramingError \/ EndStoreByte \/ EndChannelDone
  BY <1>6, Zenon DEF EndFramingError, EndStoreByte, EndChannelDone, Commit,
     hw
<1>7. CASE EndFinal \/ NoCutout
  BY <1>7, Zenon DEF EndFinal, NoCutout, SyntheticRecord, Commit, hw
<1>8. CASE StartCutout \/ MiddleCutout \/ EndCutout \/ FeedbackSample
  BY <1>8, Zenon DEF StartCutout, MiddleCutout, EndCutout, FeedbackSample, hw
<1>9. CASE Enable \/ Disable \/ Consume
  BY <1>9, Zenon DEF Enable, Disable, Consume, hw
<1>10. CASE UNCHANGED vars
  BY <1>10, Zenon DEF vars, hw
<1>. QED
  BY <1>1, <1>2, <1>3, <1>4, <1>5, <1>6, <1>7, <1>8, <1>9, <1>10
  DEF Next, PhaseStep, Call

(* Every reachable state is well typed: the record handles, the pool, the  *)
(* queue, the UART registers and the loop index of the phase calls keep    *)
(* their types for every number of channels, pool size and RDR depth.      *)
THEOREM TypeCorrect == Spec => []TypeOK
<1>1. Init => TypeIInv /\ FlagsOK
  BY InitTypeIInv, Zenon DEF Init, FlagsOK
<1>2. (TypeIInv /\ FlagsOK) /\ [Next]_vars => (TypeIInv /\ FlagsOK)'
  BY NextTypeIInv, NextFlagsOK
<1>3. TypeIInv /\ FlagsOK => TypeOK
  BY DEF TypeIInv, TypeOK
<1>. QED
  BY <1>1, <1>2, <1>3, PTL DEF Spec

-----------------------------------------------------------------------------
(* Ownership of the records (spec I1, I2).                                 *)

(* What Append adds to the set of elements of a sequence.                 *)
LEMMA AppendRange ==
  ASSUME NEW S, NEW q \in Seq(S), NEW x \in S
  PROVE  {Append(q, x)[k] : k \in 1 .. Len(Append(q, x))}
           = {q[k] : k \in 1 .. Len(q)} \cup {x}
<1>1. Len(Append(q, x)) = Len(q) + 1 /\ Append(q, x)[Len(q) + 1] = x
      /\ \A k \in 1 .. Len(q) : Append(q, x)[k] = q[k]
  OBVIOUS
<1>. QED
  BY <1>1
(* Appending an element the sequence does not hold keeps it injective.    *)
LEMMA AppendInjective ==
  ASSUME NEW S, NEW q \in Seq(S), NEW x \in S,
         \A k1, k2 \in 1 .. Len(q) : q[k1] = q[k2] => k1 = k2,
         \A k \in 1 .. Len(q) : q[k] # x
  PROVE  \A k1, k2 \in 1 .. Len(Append(q, x)) :
           Append(q, x)[k1] = Append(q, x)[k2] => k1 = k2
<1>1. Len(Append(q, x)) = Len(q) + 1 /\ Append(q, x)[Len(q) + 1] = x
      /\ \A k \in 1 .. Len(q) : Append(q, x)[k] = q[k]
  OBVIOUS
<1>. QED
  BY <1>1

(* Committing a record that is not queued yet adds it to QueuedSlots and   *)
(* keeps the queue free of duplicates.                                      *)
LEMMA CommitQueue ==
  ASSUME feedbackQueue \in Seq(Slots), NEW s \in Slots, s \notin QueuedSlots,
         \A k1, k2 \in 1 .. Len(feedbackQueue) :
           feedbackQueue[k1] = feedbackQueue[k2] => k1 = k2,
         feedbackQueue' = Append(feedbackQueue, s)
  PROVE  /\ QueuedSlots' = QueuedSlots \cup {s}
         /\ \A k1, k2 \in 1 .. Len(feedbackQueue') :
              feedbackQueue'[k1] = feedbackQueue'[k2] => k1 = k2
<1>1. \A k \in 1 .. Len(feedbackQueue) : feedbackQueue[k] # s
  BY DEF QueuedSlots
<1>2. {Append(feedbackQueue, s)[k] : k \in 1 .. Len(Append(feedbackQueue, s))}
        = QueuedSlots \cup {s}
  BY AppendRange DEF QueuedSlots
<1>3. \A k1, k2 \in 1 .. Len(Append(feedbackQueue, s)) :
        Append(feedbackQueue, s)[k1] = Append(feedbackQueue, s)[k2] => k1 = k2
  BY <1>1, AppendInjective
<1>. QED
  BY <1>2, <1>3 DEF QueuedSlots

(* OwnershipInv only reads the handles and the queue.                      *)
LEMMA OwnershipFrame ==
  ASSUME OwnershipInv, returnedPackets' = returnedPackets,
         feedbackQueue' = feedbackQueue
  PROVE  OwnershipInv'
BY DEF OwnershipInv, OwnedSlots, QueuedSlots

(* OwnershipInv is inductive relative to the type invariant: allocation   *)
(* takes a record nobody holds or queued, commit moves a record from its   *)
(* channel's handle to the queue in one step, and the consumer empties the *)
(* queue.                                                                   *)
LEMMA NextOwnership ==
  TypeIInv /\ OwnershipInv /\ [Next]_vars => OwnershipInv'
<1> SUFFICES ASSUME TypeIInv, OwnershipInv, [Next]_vars PROVE OwnershipInv'
  OBVIOUS
<1>0. /\ returnedPackets \in [Channels -> Slots \cup {NoPacket}]
      /\ feedbackQueue \in Seq(Slots) /\ ci \in Channels
  BY DEF TypeIInv, StateOK
<1>1. CASE UNCHANGED <<returnedPackets, feedbackQueue>>
  <2>1. returnedPackets' = returnedPackets /\ feedbackQueue' = feedbackQueue
    BY <1>1
  <2>. QED
    BY <2>1, OwnershipFrame
<1>2. CASE StartChannelDone
  <2>1. returnedPackets' = [returnedPackets EXCEPT ![ci] = NoPacket]
        /\ feedbackQueue' = feedbackQueue
    BY <1>2 DEF StartChannelDone
  <2>2. OwnedSlots' \subseteq OwnedSlots /\ QueuedSlots' = QueuedSlots
    BY <1>0, <2>1 DEF OwnedSlots, QueuedSlots
  <2>3. \A i, j \in Channels :
          i # j /\ returnedPackets'[i] # NoPacket
            => returnedPackets'[i] # returnedPackets'[j]
    BY <1>0, <2>1 DEF OwnershipInv
  <2>. QED
    BY <2>1, <2>2, <2>3 DEF OwnershipInv
<1>3. ASSUME NEW lp, NEW cp, DrainRead(lp, cp) PROVE OwnershipInv'
  <2>1. CASE UNCHANGED <<returnedPackets, rec, touched>>
    BY <1>3, <2>1, <1>1 DEF DrainRead
  <2>2. CASE returnedPackets[ci] = NoPacket /\ \E s \in FreeSlots : AllocFor(ci, s)
    <3>1. PICK s \in FreeSlots : AllocFor(ci, s)
      BY <2>2
    <3>2. s \in Slots /\ s \notin OwnedSlots /\ s \notin QueuedSlots
      BY DEF FreeSlots
    <3>3. returnedPackets' = [returnedPackets EXCEPT ![ci] = s]
          /\ feedbackQueue' = feedbackQueue
      BY <1>3, <3>1 DEF DrainRead, AllocFor
    <3>4. \A j \in Channels : returnedPackets[j] # s
      BY <1>0, <3>2, SlotsAssumption DEF OwnedSlots
    <3>5. OwnedSlots' = OwnedSlots \cup {s} /\ QueuedSlots' = QueuedSlots
      BY <1>0, <2>2, <3>2, <3>3 DEF OwnedSlots, QueuedSlots
    <3>6. \A i, j \in Channels :
            i # j /\ returnedPackets'[i] # NoPacket
              => returnedPackets'[i] # returnedPackets'[j]
      BY <1>0, <2>2, <3>3, <3>4 DEF OwnershipInv
    <3>. QED
      BY <3>2, <3>3, <3>5, <3>6 DEF OwnershipInv
  <2>. QED
    BY <1>3, <2>1, <2>2 DEF DrainRead
<1>4. CASE EndChannelDone /\ returnedPackets[ci] # NoPacket
  <2>1. /\ returnedPackets' = [returnedPackets EXCEPT ![ci] = NoPacket]
        /\ feedbackQueue' = Append(feedbackQueue, returnedPackets[ci])
    BY <1>4, Zenon DEF EndChannelDone, Commit
  <2>2. returnedPackets[ci] \in Slots /\ returnedPackets[ci] \notin QueuedSlots
    BY <1>0, <1>4 DEF OwnershipInv, OwnedSlots
  <2>3. QueuedSlots' = QueuedSlots \cup {returnedPackets[ci]}
        /\ \A k1, k2 \in 1 .. Len(feedbackQueue') :
              feedbackQueue'[k1] = feedbackQueue'[k2] => k1 = k2
    BY <1>0, <2>1, <2>2, CommitQueue DEF OwnershipInv
  <2>4. OwnedSlots' = OwnedSlots \ {returnedPackets[ci]}
    BY <1>0, <2>1 DEF OwnershipInv, OwnedSlots
  <2>. QED
    BY <1>0, <2>1, <2>2, <2>3, <2>4 DEF OwnershipInv, OwnedSlots
<1>5. CASE EndChannelDone /\ returnedPackets[ci] = NoPacket
  BY <1>5, <1>1 DEF EndChannelDone
<1>6. ASSUME NEW base, SyntheticRecord(base), UNCHANGED returnedPackets
      PROVE OwnershipInv'
  <2>1. CASE UNCHANGED <<rec, feedbackQueue, pending>>
    BY <1>6, <2>1, <1>1
  <2>2. CASE \E s \in FreeSlots : Commit(s)
    <3>1. PICK s \in FreeSlots : Commit(s)
      BY <2>2
    <3>2. s \in Slots /\ s \notin OwnedSlots /\ s \notin QueuedSlots
      BY DEF FreeSlots
    <3>3. feedbackQueue' = Append(feedbackQueue, s)
      BY <3>1 DEF Commit
    <3>4. QueuedSlots' = QueuedSlots \cup {s}
          /\ \A k1, k2 \in 1 .. Len(feedbackQueue') :
                feedbackQueue'[k1] = feedbackQueue'[k2] => k1 = k2
      BY <1>0, <3>2, <3>3, CommitQueue DEF OwnershipInv
    <3>. QED
      BY <1>6, <3>2, <3>4 DEF OwnershipInv, OwnedSlots
  <2>. QED
    BY <1>6, <2>1, <2>2 DEF SyntheticRecord
<1>7. CASE Consume
  <2>1. feedbackQueue' = <<>> /\ returnedPackets' = returnedPackets
    BY <1>7 DEF Consume
  <2>. QED
    BY <2>1 DEF OwnershipInv, OwnedSlots, QueuedSlots
<1>8. CASE EndFinal
  <2>1. CASE havePackets
    BY <1>8, <2>1, <1>1 DEF EndFinal
  <2>2. CASE ~havePackets
    BY <1>8, <2>2, <1>6 DEF EndFinal
  <2>. QED
    BY <2>1, <2>2
<1>9. CASE NoCutout
  BY <1>9, <1>6 DEF NoCutout
<1>10. CASE \/ \E i \in Channels, e \in BOOLEAN : ReceiveByte(i, e)
            \/ StartCutout \/ StartSetDirection \/ StartFlushByte
            \/ \E lp, tp : DrainAllocFailed(lp, tp) \/ DrainEmpty(lp, tp)
            \/ MiddleCutout \/ MiddleFramingError \/ MiddleStoreByte
            \/ MiddleChannelDone \/ EndCutout \/ EndFramingError
            \/ EndStoreByte \/ FeedbackSample \/ Enable \/ Disable
            \/ UNCHANGED vars
  <2>. UNCHANGED <<returnedPackets, feedbackQueue>>
    BY <1>10 DEF ReceiveByte, StartCutout, StartSetDirection, StartFlushByte,
       DrainAllocFailed, DrainEmpty, MiddleCutout, MiddleFramingError,
       MiddleStoreByte, MiddleChannelDone, EndCutout, EndFramingError,
       EndStoreByte, FeedbackSample, Enable, Disable, vars
  <2>. QED
    BY <1>1
<1>. QED
  BY <1>2, <1>3, <1>4, <1>5, <1>7, <1>8, <1>9, <1>10
  DEF Next, PhaseStep, Call

(* (I1, I2) For every configuration, no record is held by two channels, a  *)
(* committed record is held by no channel (end_cutout clears the handle in *)
(* the step of commit_back), and no record is committed twice.             *)
THEOREM OwnershipCorrect == Spec => []OwnershipInv
<1>1. Init => OwnershipInv
  BY DEF Init, OwnershipInv, OwnedSlots, QueuedSlots
<1>2. TypeIInv /\ OwnershipInv /\ [Next]_vars => TypeIInv' /\ OwnershipInv'
  BY NextTypeIInv, NextOwnership
<1>. QED
  BY <1>1, <1>2, InitTypeIInv, PTL DEF Spec

-----------------------------------------------------------------------------
(* Flush before listen: no record holds a byte of an earlier cutout.      *)

(* Every byte of the sequence q was received in cutout c.                  *)
AllCut(q, c) == \A k \in 1 .. Len(q) : q[k].cut = c

(* Every payload byte of record s belongs to the cutout of the record.     *)
RecordCut(s) == AllCut(rec[s].ch1, rec[s].cut) /\ AllCut(rec[s].ch2, rec[s].cut)

(* Phase calls run inside the window they belong to: middle_cutout in     *)
(* window 2, end_cutout after it has closed the window.                    *)
PhaseWindow ==
  /\ pc \in {"m_loop", "m_check", "m_tail"} => window = "W2"
  /\ pc \in {"e_loop", "e_check", "e_tail", "e_final"} => window = "Idle"

(* start_cutout clears every handle before a window opens, and end_cutout  *)
(* clears each one as it commits it.                                       *)
HandlesClear ==
  /\ (\/ pc \in {"s_dir", "s_flush", "e_final"}
      \/ pc = "idle" /\ window \in {"Idle", "W1"})
       => \A i \in Channels : returnedPackets[i] = NoPacket
  /\ pc \in {"e_loop", "e_check", "e_tail"}
       => \A i \in Channels : i < ci => returnedPackets[i] = NoPacket

(* Channel i has been drained by the start_cutout in progress, or none is. *)
Flushed(i) == ~(pc \in {"s_dir", "s_flush"} /\ ci <= i)

(* Bytes in a held record, in data and in a drained RDR are all from the   *)
(* current cutout; a committed record only holds bytes of its own cutout.  *)
HeldCurrent ==
  \A i \in Channels : returnedPackets[i] # NoPacket =>
    rec[returnedPackets[i]].cut = cut /\ RecordCut(returnedPackets[i])
DataCurrent == pc \in {"m_check", "e_check"} => data.cut = cut
RdrCurrent == \A i \in Channels : Flushed(i) => AllCut(rdr[i], cut)
QueuedOwnCut == \A s \in QueuedSlots : RecordCut(s)
CurrentBytes == HeldCurrent /\ DataCurrent /\ RdrCurrent /\ QueuedOwnCut

(* The inductive invariant behind NoStaleBytes: the typing and ownership  *)
(* facts, the window of each phase call, the handles start_cutout and the  *)
(* commit loop of end_cutout leave cleared, and the cutout of every byte   *)
(* held in a record, in data and in a drained RDR.                         *)
StaleIInv ==
  TypeIInv /\ OwnershipInv /\ PhaseWindow /\ HandlesClear /\ CurrentBytes

LEMMA AllCutAppend ==
  ASSUME NEW S, NEW q \in Seq(S), NEW b \in S, NEW c, AllCut(q, c), b.cut = c
  PROVE  AllCut(Append(q, b), c)
BY DEF AllCut

LEMMA AllCutTail ==
  ASSUME NEW S, NEW q \in Seq(S), NEW c, AllCut(q, c), q # <<>>
  PROVE  AllCut(Tail(q), c) /\ Head(q).cut = c
BY DEF AllCut

(* Storing a byte into one payload of a record changes only that payload. *)
LEMMA StoreFields ==
  ASSUME NEW r \in Record, NEW b
  PROVE  /\ [r EXCEPT !.ch1 = Append(@, b)].cut = r.cut
         /\ [r EXCEPT !.ch1 = Append(@, b)].ch1 = Append(r.ch1, b)
         /\ [r EXCEPT !.ch1 = Append(@, b)].ch2 = r.ch2
         /\ [r EXCEPT !.ch2 = Append(@, b)].cut = r.cut
         /\ [r EXCEPT !.ch2 = Append(@, b)].ch1 = r.ch1
         /\ [r EXCEPT !.ch2 = Append(@, b)].ch2 = Append(r.ch2, b)
BY Zenon DEF Record

(* A fresh record is of the cutout it is allocated in and holds no byte.   *)
LEMMA NewRecordCut ==
  ASSUME NEW ch, NEW c
  PROVE  /\ NewRecord(ch, c).cut = c
         /\ AllCut(NewRecord(ch, c).ch1, c) /\ AllCut(NewRecord(ch, c).ch2, c)
BY DEF NewRecord, AllCut

LEMMA AllCutEmpty == \A c : AllCut(<<>>, c)
BY DEF AllCut

LEMMA AllCutConcat ==
  ASSUME NEW S, NEW a \in Seq(S), NEW z \in Seq(S), NEW c, AllCut(a, c), AllCut(z, c)
  PROVE  AllCut(a \o z, c)
<1>1. SUFFICES ASSUME NEW k \in 1 .. Len(a \o z) PROVE (a \o z)[k].cut = c
  BY DEF AllCut
<1>2. CASE k <= Len(a)
  BY <1>2 DEF AllCut
<1>3. CASE k > Len(a)
  BY <1>3 DEF AllCut
<1>. QED
  BY <1>2, <1>3

LEMMA PayloadCut ==
  ASSUME NEW s \in Slots, rec[s] \in Record, RecordCut(s)
  PROVE  \A b \in PayloadBytes(s) : b.cut = rec[s].cut
<1>1. rec[s].ch1 \in Seq(Byte) /\ rec[s].ch2 \in Seq(Byte)
  BY DEF Record
<1>2. AllCut(Payload(s), rec[s].cut)
  BY <1>1, AllCutConcat DEF RecordCut, Payload
<1>. QED
  BY <1>2 DEF AllCut, PayloadBytes
(* The window and handle facts are preserved by every step: a phase call   *)
(* runs inside its window, start_cutout and end_cutout clear the handles   *)
(* channel by channel, and the calls leave them alone.                      *)
LEMMA NextControl ==
  TypeIInv /\ PhaseWindow /\ HandlesClear /\ [Next]_vars
    => PhaseWindow' /\ HandlesClear'
<1> SUFFICES ASSUME TypeIInv, PhaseWindow, HandlesClear, [Next]_vars
             PROVE  PhaseWindow' /\ HandlesClear'
  OBVIOUS
<1>0. /\ returnedPackets \in [Channels -> Slots \cup {NoPacket}]
      /\ ci \in Channels /\ pc \in PC
  BY DEF TypeIInv, StateOK
<1>1. CASE UNCHANGED <<pc, window, ci, returnedPackets>>
  BY <1>1 DEF PhaseWindow, HandlesClear
<1>2. CASE StartCutout
  BY <1>2 DEF StartCutout, PhaseWindow, HandlesClear
<1>3. CASE StartSetDirection
  BY <1>3 DEF StartSetDirection, PhaseWindow, HandlesClear
<1>4. CASE StartChannelDone
  BY <1>0, <1>4 DEF StartChannelDone, NextChannel, PhaseWindow, HandlesClear
<1>5. CASE \/ DrainAllocFailed("m_loop", "m_tail") \/ DrainEmpty("m_loop", "m_tail")
           \/ DrainRead("m_loop", "m_check")
           \/ MiddleFramingError \/ MiddleStoreByte
  <2>1. pc \in {"m_loop", "m_check"} /\ pc' \in {"m_loop", "m_check", "m_tail"}
        /\ UNCHANGED window
    BY <1>5 DEF DrainAllocFailed, DrainEmpty, DrainRead, MiddleFramingError,
                MiddleStoreByte
  <2>. QED
    BY <2>1 DEF PhaseWindow, HandlesClear
<1>6. CASE MiddleChannelDone
  BY <1>6 DEF MiddleChannelDone, NextChannel, PhaseWindow, HandlesClear
<1>7. CASE MiddleCutout
  BY <1>7 DEF MiddleCutout, PhaseWindow, HandlesClear
<1>8. CASE EndCutout
  BY <1>0, <1>8 DEF EndCutout, PhaseWindow, HandlesClear, Channels
<1>9. CASE \/ DrainAllocFailed("e_loop", "e_tail") \/ DrainEmpty("e_loop", "e_tail")
           \/ EndFramingError \/ EndStoreByte
  <2>1. pc \in {"e_loop", "e_check"} /\ pc' \in {"e_loop", "e_check", "e_tail"}
        /\ UNCHANGED <<window, ci, returnedPackets>>
    BY <1>9 DEF DrainAllocFailed, DrainEmpty, EndFramingError, EndStoreByte
  <2>. QED
    BY <2>1 DEF PhaseWindow, HandlesClear
<1>10. CASE DrainRead("e_loop", "e_check")
  <2>1. pc = "e_loop" /\ pc' = "e_check" /\ UNCHANGED <<window, ci>>
        /\ \A i \in Channels : i # ci => returnedPackets'[i] = returnedPackets[i]
    BY <1>0, <1>10 DEF DrainRead, AllocFor
  <2>. QED
    BY <1>0, <2>1 DEF PhaseWindow, HandlesClear, Channels
<1>11. CASE EndChannelDone
  <2>1. /\ returnedPackets'[ci] = NoPacket
        /\ \A i \in Channels : i # ci => returnedPackets'[i] = returnedPackets[i]
        /\ pc = "e_tail" /\ UNCHANGED window
    BY <1>0, <1>11 DEF EndChannelDone
  <2>2. CASE LastChannel
    <3>1. pc' = "e_final" /\ \A i \in Channels : i <= ci
      BY <1>11, <2>2 DEF EndChannelDone, NextChannel, LastChannel, Channels
    <3>. QED
      BY <1>0, <2>1, <3>1 DEF PhaseWindow, HandlesClear, Channels
  <2>3. CASE ~LastChannel
    <3>1. pc' = "e_loop" /\ ci' = ci + 1
      BY <1>11, <2>3 DEF EndChannelDone, NextChannel
    <3>. QED
      BY <1>0, <2>1, <3>1 DEF PhaseWindow, HandlesClear, Channels
  <2>. QED
    BY <2>2, <2>3
<1>12. CASE EndFinal
  BY <1>12 DEF EndFinal, PhaseWindow, HandlesClear
<1>13. CASE NoCutout
  BY <1>13 DEF NoCutout, PhaseWindow, HandlesClear
<1>14. CASE \/ \E i \in Channels, e \in BOOLEAN : ReceiveByte(i, e)
            \/ StartFlushByte \/ FeedbackSample \/ Enable \/ Disable \/ Consume
            \/ UNCHANGED vars
  <2>1. UNCHANGED <<pc, window, ci, returnedPackets>>
    BY <1>14 DEF ReceiveByte, StartFlushByte, FeedbackSample, Enable, Disable,
                 Consume, vars
  <2>. QED
    BY <2>1, <1>1
<1>. QED
  BY <1>2, <1>3, <1>4, <1>5, <1>6, <1>7, <1>8, <1>9, <1>10, <1>11, <1>12,
     <1>13, <1>14 DEF Next, PhaseStep, Call

(* Frame lemmas: each conjunct of CurrentBytes survives a step that leaves *)
(* alone what it reads.                                                    *)
LEMMA HeldFrame ==
  ASSUME HeldCurrent, returnedPackets' = returnedPackets, cut' = cut,
         \A i \in Channels : returnedPackets[i] # NoPacket
           => rec'[returnedPackets[i]] = rec[returnedPackets[i]]
  PROVE  HeldCurrent'
BY DEF HeldCurrent, RecordCut, AllCut

LEMMA QueuedFrame ==
  ASSUME QueuedOwnCut, feedbackQueue' = feedbackQueue,
         \A s \in QueuedSlots : rec'[s] = rec[s]
  PROVE  QueuedOwnCut'
BY DEF QueuedOwnCut, QueuedSlots, RecordCut, AllCut

LEMMA RdrFrame ==
  ASSUME RdrCurrent, rdr' = rdr, cut' = cut,
         \A i \in Channels : Flushed(i)' => Flushed(i)
  PROVE  RdrCurrent'
BY DEF RdrCurrent, AllCut

(* A held record is neither held by another channel nor queued.            *)
LEMMA HeldAlone ==
  ASSUME OwnershipInv, NEW i \in Channels, returnedPackets[i] # NoPacket
  PROVE  /\ \A j \in Channels : j # i => returnedPackets[j] # returnedPackets[i]
         /\ returnedPackets[i] \notin QueuedSlots
BY DEF OwnershipInv, OwnedSlots

(* A free slot is neither held nor queued.                                 *)
LEMMA FreeAlone ==
  ASSUME NEW s \in FreeSlots
  PROVE  /\ \A j \in Channels : returnedPackets[j] # s
         /\ s \notin QueuedSlots
BY SlotsAssumption DEF FreeSlots, OwnedSlots

(* Committing a record whose bytes are of its own cutout keeps every      *)
(* queued record so.                                                       *)
LEMMA QueuedCommit ==
  ASSUME QueuedOwnCut, feedbackQueue \in Seq(Slots), NEW s \in Slots,
         feedbackQueue' = Append(feedbackQueue, s), RecordCut(s)',
         \A q \in QueuedSlots : rec'[q] = rec[q]
  PROVE  QueuedOwnCut'
<1>1. QueuedSlots' = QueuedSlots \cup {s}
  BY AppendRange DEF QueuedSlots
<1>2. \A q \in QueuedSlots : RecordCut(q)'
  BY DEF QueuedOwnCut, RecordCut, AllCut
<1>. QED
  BY <1>1, <1>2 DEF QueuedOwnCut

(* The synthetic empty record of end_cutout and no_cutout is of the        *)
(* current cutout and holds no byte.                                       *)
LEMMA SyntheticCurrent ==
  ASSUME QueuedOwnCut, rec \in [Slots -> Record], feedbackQueue \in Seq(Slots),
         UNCHANGED cut, NEW base, SyntheticRecord(base)
  PROVE  QueuedOwnCut' /\ \A q \in Slots \ FreeSlots : rec'[q] = rec[q]
<1>1. CASE FreeSlots = {} /\ UNCHANGED <<rec, feedbackQueue, pending>>
  BY <1>1, QueuedFrame
<1>2. CASE \E s \in FreeSlots :
             /\ rec' = [rec EXCEPT ![s] = NewRecord(0, cut)]
             /\ Commit(s)
  <2>1. PICK s \in FreeSlots :
             /\ rec' = [rec EXCEPT ![s] = NewRecord(0, cut)]
             /\ Commit(s)
    BY <1>2
  <2>2. s \in Slots /\ s \notin QueuedSlots /\ feedbackQueue' = Append(feedbackQueue, s)
    BY <2>1, FreeAlone DEF FreeSlots, Commit
  <2>3. RecordCut(s)'
    BY <2>1, <2>2, NewRecordCut DEF RecordCut
  <2>4. \A q \in Slots : q # s => rec'[q] = rec[q]
    BY <2>1
  <2>5. \A q \in QueuedSlots : rec'[q] = rec[q]
    BY <2>2, <2>4 DEF QueuedSlots
  <2>. QED
    BY <2>2, <2>3, <2>4, <2>5, QueuedCommit
<1>. QED
  BY <1>1, <1>2 DEF SyntheticRecord

(* CurrentBytes is preserved by every step, given the handle facts: a      *)
(* byte enters a record only from a drained RDR through data, a record is  *)
(* allocated in the current cutout, and a new cutout starts with no handle *)
(* and every RDR still to be drained.                                      *)
LEMMA NextCurrentBytes ==
  StaleIInv /\ [Next]_vars => CurrentBytes'
<1> SUFFICES ASSUME StaleIInv, [Next]_vars PROVE CurrentBytes'
  OBVIOUS
<1>0. /\ returnedPackets \in [Channels -> Slots \cup {NoPacket}]
      /\ rec \in [Slots -> Record] /\ feedbackQueue \in Seq(Slots)
      /\ rdr \in [Channels -> Seq(Byte)] /\ data \in Byte
      /\ ci \in Channels /\ cut \in 0 .. MaxCutouts /\ pc \in PC
      /\ CheckHasRecord /\ OwnershipInv /\ PhaseWindow /\ HandlesClear
      /\ HeldCurrent /\ DataCurrent /\ RdrCurrent /\ QueuedOwnCut
  BY DEF StaleIInv, TypeIInv, StateOK, CurrentBytes
<1>1. CASE \E i \in Channels, e \in BOOLEAN : ReceiveByte(i, e)
  <2>1. PICK i \in Channels, e \in BOOLEAN : ReceiveByte(i, e)
    BY <1>1
  <2>2. UNCHANGED <<cut, ci, pc, data, returnedPackets, rec, feedbackQueue>>
        /\ rdr' = [rdr EXCEPT ![i] = Append(@, [cut |-> cut, err |-> e])]
    BY <2>1 DEF ReceiveByte
  <2>3. Flushed(i) => AllCut(Append(rdr[i], [cut |-> cut, err |-> e]), cut)
    <3>1. [cut |-> cut, err |-> e] \in Byte /\ [cut |-> cut, err |-> e].cut = cut
      BY <1>0, ByteLemma
    <3>2. Flushed(i) => AllCut(rdr[i], cut)
      BY <1>0 DEF RdrCurrent
    <3>. QED
      BY <1>0, <3>1, <3>2, AllCutAppend
  <2>4. RdrCurrent'
    <3>1. \A j \in Channels : Flushed(j)' = Flushed(j)
      BY <2>2 DEF Flushed
    <3>. QED
      BY <1>0, <2>2, <2>3, <3>1 DEF RdrCurrent
  <2>5. HeldCurrent' /\ QueuedOwnCut'
    BY <1>0, <2>2, HeldFrame, QueuedFrame
  <2>6. DataCurrent'
    BY <1>0, <2>2 DEF DataCurrent
  <2>. QED
    BY <2>4, <2>5, <2>6 DEF CurrentBytes
<1>2. CASE StartCutout
  <2>1. \A i \in Channels : returnedPackets[i] = NoPacket
    BY <1>0, <1>2 DEF StartCutout, HandlesClear
  <2>2. \A i \in Channels : ~Flushed(i)'
    BY <1>2 DEF StartCutout, Flushed, Channels
  <2>3. UNCHANGED <<data, returnedPackets, rec, feedbackQueue>>
    BY <1>2 DEF StartCutout
  <2>4. HeldCurrent'
    BY <2>1, <2>3 DEF HeldCurrent
  <2>5. DataCurrent'
    BY <1>2 DEF StartCutout, DataCurrent
  <2>6. RdrCurrent'
    BY <2>2 DEF RdrCurrent
  <2>7. QueuedOwnCut'
    BY <1>0, <2>3, QueuedFrame
  <2>. QED
    BY <2>4, <2>5, <2>6, <2>7 DEF CurrentBytes
<1>3. CASE StartSetDirection
  <2>1. UNCHANGED <<cut, ci, data, returnedPackets, rec, feedbackQueue, rdr>>
        /\ pc = "s_dir" /\ pc' = "s_flush"
    BY <1>3 DEF StartSetDirection
  <2>. QED
    BY <1>0, <2>1, HeldFrame, QueuedFrame, RdrFrame
       DEF CurrentBytes, DataCurrent, Flushed
<1>4. CASE StartFlushByte
  <2>1. UNCHANGED <<cut, ci, pc, data, returnedPackets, rec, feedbackQueue>>
        /\ pc = "s_flush"
        /\ rdr' = [rdr EXCEPT ![ci] = Tail(@)]
    BY <1>4 DEF StartFlushByte
  <2>2. RdrCurrent'
    BY <1>0, <2>1 DEF RdrCurrent, Flushed, AllCut
  <2>3. HeldCurrent' /\ QueuedOwnCut'
    BY <1>0, <2>1, HeldFrame, QueuedFrame
  <2>4. DataCurrent'
    BY <2>1 DEF DataCurrent
  <2>. QED
    BY <2>2, <2>3, <2>4 DEF CurrentBytes
<1>5. CASE StartChannelDone
  <2>1. UNCHANGED <<cut, data, rec, feedbackQueue, rdr>>
        /\ pc = "s_flush" /\ rdr[ci] = <<>>
        /\ returnedPackets' = [returnedPackets EXCEPT ![ci] = NoPacket]
    BY <1>5, HwUnchanged DEF StartChannelDone
  <2>2. \A i \in Channels : Flushed(i)' => Flushed(i) \/ i = ci
    BY <1>0, <1>5, <2>1 DEF StartChannelDone, NextChannel, LastChannel,
                            Flushed, Channels
  <2>3. RdrCurrent'
    <3>1. AllCut(rdr[ci], cut)
      BY <2>1 DEF AllCut
    <3>. QED
      BY <1>0, <2>1, <2>2, <3>1 DEF RdrCurrent
  <2>4. HeldCurrent'
    BY <1>0, <2>1 DEF HeldCurrent, RecordCut
  <2>5. DataCurrent'
    <3>1. NextChannel("s_dir", "idle")
      BY <1>5 DEF StartChannelDone
    <3>2. pc' \in {"s_dir", "idle"}
      BY <1>0, <3>1, NextChannelType
    <3>. QED
      BY <3>2 DEF DataCurrent
  <2>6. QueuedOwnCut'
    BY <2>1, QueuedFrame, <1>0
  <2>. QED
    BY <2>3, <2>4, <2>5, <2>6 DEF CurrentBytes
<1>6. ASSUME NEW lp \in {"m_loop", "e_loop"}, NEW tp \in {"m_tail", "e_tail"},
             DrainAllocFailed(lp, tp) \/ DrainEmpty(lp, tp)
      PROVE  CurrentBytes'
  <2>1. UNCHANGED <<cut, ci, data, returnedPackets, rec, feedbackQueue, rdr>>
        /\ pc = lp /\ pc' = tp
    BY <1>6, HwUnchanged DEF DrainAllocFailed, DrainEmpty
  <2>2. \A i \in Channels : Flushed(i)' = Flushed(i)
    BY <2>1 DEF Flushed
  <2>3. HeldCurrent' /\ QueuedOwnCut' /\ RdrCurrent'
    BY <1>0, <2>1, <2>2, HeldFrame, QueuedFrame, RdrFrame
  <2>4. DataCurrent'
    BY <2>1 DEF DataCurrent
  <2>. QED
    BY <2>3, <2>4 DEF CurrentBytes
<1>7. ASSUME NEW lp \in {"m_loop", "e_loop"}, NEW cp \in {"m_check", "e_check"},
             DrainRead(lp, cp)
      PROVE  CurrentBytes'
  <2>1. /\ UNCHANGED <<cut, ci, feedbackQueue>>
        /\ pc = lp /\ pc' = cp /\ rdr[ci] # <<>>
        /\ data' = Head(rdr[ci])
        /\ rdr' = [rdr EXCEPT ![ci] = Tail(@)]
    BY <1>7 DEF DrainRead
  <2>2. \A i \in Channels : Flushed(i) /\ Flushed(i)'
    BY <2>1 DEF Flushed
  <2>3. AllCut(Tail(rdr[ci]), cut) /\ Head(rdr[ci]).cut = cut
    BY <1>0, <2>1, <2>2, AllCutTail DEF RdrCurrent
  <2>4. RdrCurrent'
    BY <1>0, <2>1, <2>2, <2>3 DEF RdrCurrent
  <2>5. DataCurrent'
    BY <2>1, <2>3 DEF DataCurrent
  <2>6. CASE UNCHANGED <<returnedPackets, rec, touched>>
    <3>1. HeldCurrent' /\ QueuedOwnCut'
      BY <1>0, <2>1, <2>6, HeldFrame, QueuedFrame
    <3>. QED
      BY <2>4, <2>5, <3>1 DEF CurrentBytes
  <2>7. CASE \E s \in FreeSlots : AllocFor(ci, s)
    <3>1. PICK s \in FreeSlots : AllocFor(ci, s)
      BY <2>7
    <3>2. /\ returnedPackets' = [returnedPackets EXCEPT ![ci] = s]
          /\ rec' = [rec EXCEPT ![s] = NewRecord(ci, cut)]
          /\ s \in Slots
      BY <3>1 DEF AllocFor, FreeSlots
    <3>3. (\A j \in Channels : returnedPackets[j] # s) /\ s \notin QueuedSlots
      BY FreeAlone
    <3>4. rec'[s].cut = cut /\ AllCut(rec'[s].ch1, cut) /\ AllCut(rec'[s].ch2, cut)
      BY <1>0, <3>2, NewRecordCut
    <3>5. HeldCurrent'
      <4>1. SUFFICES ASSUME NEW i \in Channels, returnedPackets'[i] # NoPacket
                     PROVE  (rec[returnedPackets[i]].cut = cut
                             /\ RecordCut(returnedPackets[i]))'
        BY DEF HeldCurrent
      <4>2. CASE i = ci
        BY <1>0, <2>1, <3>2, <3>4, <4>2 DEF RecordCut, AllCut
      <4>3. CASE i # ci
        <5>1. returnedPackets'[i] = returnedPackets[i]
              /\ rec'[returnedPackets[i]] = rec[returnedPackets[i]]
          BY <1>0, <3>2, <3>3, <4>3
        <5>2. rec[returnedPackets[i]].cut = cut /\ RecordCut(returnedPackets[i])
          BY <1>0, <4>1, <5>1 DEF HeldCurrent
        <5>. QED
          BY <2>1, <5>1, <5>2 DEF RecordCut, AllCut
      <4>. QED
        BY <4>2, <4>3
    <3>6. QueuedOwnCut'
      <4>1. \A q \in QueuedSlots : rec'[q] = rec[q]
        BY <1>0, <3>2, <3>3 DEF QueuedSlots
      <4>. QED
        BY <1>0, <2>1, <4>1, QueuedFrame
    <3>. QED
      BY <2>4, <2>5, <3>5, <3>6 DEF CurrentBytes
  <2>. QED
    BY <1>7, <2>6, <2>7 DEF DrainRead
<1>8. CASE MiddleStoreByte
  <2>1. /\ UNCHANGED <<cut, ci, returnedPackets, feedbackQueue, rdr>>
        /\ pc = "m_check" /\ pc' = "m_loop"
        /\ rec' = [rec EXCEPT ![returnedPackets[ci]].ch1 = Append(@, data)]
    BY <1>8, HwUnchanged DEF MiddleStoreByte
  <2>. DEFINE r == returnedPackets[ci]
  <2>2. r \in Slots /\ r # NoPacket /\ rec[r] \in Record /\ data.cut = cut
    BY <1>0, <2>1, SlotsAssumption DEF CheckHasRecord, DataCurrent
  <2>3. rec'[r] = [rec[r] EXCEPT !.ch1 = Append(@, data)]
        /\ \A q \in Slots : q # r => rec'[q] = rec[q]
    BY <1>0, <2>1, <2>2
  <2>4. rec'[r].cut = cut /\ RecordCut(r)'
    <3>1. rec[r].ch1 \in Seq(Byte) /\ rec[r].cut = cut /\ RecordCut(r)
      BY <1>0, <2>2 DEF Record, HeldCurrent
    <3>2. AllCut(Append(rec[r].ch1, data), cut)
      BY <1>0, <2>2, <3>1, AllCutAppend DEF RecordCut
    <3>. QED
      BY <2>1, <2>2, <2>3, <3>1, <3>2, StoreFields DEF RecordCut
  <2>5. HeldCurrent'
    <3>1. SUFFICES ASSUME NEW i \in Channels, returnedPackets'[i] # NoPacket
                   PROVE  (rec[returnedPackets[i]].cut = cut
                           /\ RecordCut(returnedPackets[i]))'
      BY DEF HeldCurrent
    <3>2. CASE i = ci
      BY <2>1, <2>4, <3>2
    <3>3. CASE i # ci
      <4>1. returnedPackets[i] # r /\ returnedPackets[i] \in Slots
        BY <1>0, <2>1, <2>2, <3>1, <3>3, HeldAlone
      <4>2. rec'[returnedPackets[i]] = rec[returnedPackets[i]]
        BY <2>3, <4>1
      <4>3. rec[returnedPackets[i]].cut = cut /\ RecordCut(returnedPackets[i])
        BY <1>0, <2>1, <3>1 DEF HeldCurrent
      <4>. QED
        BY <2>1, <4>2, <4>3 DEF RecordCut, AllCut
    <3>. QED
      BY <3>2, <3>3
  <2>6. QueuedOwnCut'
    <3>1. r \notin QueuedSlots
      BY <1>0, <2>2, HeldAlone
    <3>2. \A q \in QueuedSlots : rec'[q] = rec[q]
      BY <1>0, <2>3, <3>1 DEF QueuedSlots
    <3>. QED
      BY <1>0, <2>1, <3>2, QueuedFrame
  <2>7. RdrCurrent' /\ DataCurrent'
    <3>1. \A j \in Channels : Flushed(j)' = Flushed(j)
      BY <2>1 DEF Flushed
    <3>. QED
      BY <1>0, <2>1, <3>1, RdrFrame DEF DataCurrent
  <2>. QED
    BY <2>5, <2>6, <2>7 DEF CurrentBytes
<1>9. CASE EndStoreByte
  <2>1. /\ UNCHANGED <<cut, ci, returnedPackets, feedbackQueue, rdr>>
        /\ pc = "e_check" /\ pc' = "e_loop"
        /\ rec' = [rec EXCEPT ![returnedPackets[ci]].ch2 = Append(@, data)]
    BY <1>9, HwUnchanged DEF EndStoreByte
  <2>. DEFINE r == returnedPackets[ci]
  <2>2. r \in Slots /\ r # NoPacket /\ rec[r] \in Record /\ data.cut = cut
    BY <1>0, <2>1, SlotsAssumption DEF CheckHasRecord, DataCurrent
  <2>3. rec'[r] = [rec[r] EXCEPT !.ch2 = Append(@, data)]
        /\ \A q \in Slots : q # r => rec'[q] = rec[q]
    BY <1>0, <2>1, <2>2
  <2>4. rec'[r].cut = cut /\ RecordCut(r)'
    <3>1. rec[r].ch2 \in Seq(Byte) /\ rec[r].cut = cut /\ RecordCut(r)
      BY <1>0, <2>2 DEF Record, HeldCurrent
    <3>2. AllCut(Append(rec[r].ch2, data), cut)
      BY <1>0, <2>2, <3>1, AllCutAppend DEF RecordCut
    <3>. QED
      BY <2>1, <2>2, <2>3, <3>1, <3>2, StoreFields DEF RecordCut
  <2>5. HeldCurrent'
    <3>1. SUFFICES ASSUME NEW i \in Channels, returnedPackets'[i] # NoPacket
                   PROVE  (rec[returnedPackets[i]].cut = cut
                           /\ RecordCut(returnedPackets[i]))'
      BY DEF HeldCurrent
    <3>2. CASE i = ci
      BY <2>1, <2>4, <3>2
    <3>3. CASE i # ci
      <4>1. returnedPackets[i] # r /\ returnedPackets[i] \in Slots
        BY <1>0, <2>1, <2>2, <3>1, <3>3, HeldAlone
      <4>2. rec'[returnedPackets[i]] = rec[returnedPackets[i]]
        BY <2>3, <4>1
      <4>3. rec[returnedPackets[i]].cut = cut /\ RecordCut(returnedPackets[i])
        BY <1>0, <2>1, <3>1 DEF HeldCurrent
      <4>. QED
        BY <2>1, <4>2, <4>3 DEF RecordCut, AllCut
    <3>. QED
      BY <3>2, <3>3
  <2>6. QueuedOwnCut'
    <3>1. r \notin QueuedSlots
      BY <1>0, <2>2, HeldAlone
    <3>2. \A q \in QueuedSlots : rec'[q] = rec[q]
      BY <1>0, <2>3, <3>1 DEF QueuedSlots
    <3>. QED
      BY <1>0, <2>1, <3>2, QueuedFrame
  <2>7. RdrCurrent' /\ DataCurrent'
    <3>1. \A j \in Channels : Flushed(j)' = Flushed(j)
      BY <2>1 DEF Flushed
    <3>. QED
      BY <1>0, <2>1, <3>1, RdrFrame DEF DataCurrent
  <2>. QED
    BY <2>5, <2>6, <2>7 DEF CurrentBytes
<1>10. CASE \/ MiddleFramingError \/ EndFramingError \/ MiddleCutout
            \/ EndCutout \/ FeedbackSample
  <2>1. /\ UNCHANGED <<cut, returnedPackets, rec, feedbackQueue, rdr>>
        /\ pc \in {"m_check", "e_check", "idle"}
        /\ pc' \in {"m_loop", "e_loop", "idle"}
    BY <1>10, HwUnchanged DEF MiddleFramingError, EndFramingError, MiddleCutout,
                             EndCutout, FeedbackSample
  <2>2. \A j \in Channels : Flushed(j)' => Flushed(j)
    BY <2>1 DEF Flushed
  <2>3. HeldCurrent' /\ QueuedOwnCut' /\ RdrCurrent'
    BY <1>0, <2>1, <2>2, HeldFrame, QueuedFrame, RdrFrame
  <2>4. DataCurrent'
    BY <2>1 DEF DataCurrent
  <2>. QED
    BY <2>3, <2>4 DEF CurrentBytes
<1>11. CASE UNCHANGED vars
  <2>1. UNCHANGED <<cut, pc, ci, data, returnedPackets, rec, feedbackQueue, rdr>>
    BY <1>11, HwUnchanged DEF vars
  <2>2. \A j \in Channels : Flushed(j)' => Flushed(j)
    BY <2>1 DEF Flushed
  <2>3. HeldCurrent' /\ QueuedOwnCut' /\ RdrCurrent'
    BY <1>0, <2>1, <2>2, HeldFrame, QueuedFrame, RdrFrame
  <2>4. DataCurrent'
    BY <1>0, <2>1 DEF DataCurrent
  <2>. QED
    BY <2>3, <2>4 DEF CurrentBytes
<1>12. CASE \/ Enable \/ Disable
  <2>1. /\ UNCHANGED <<cut, pc, returnedPackets, rec, feedbackQueue>>
        /\ pc = "idle" /\ rdr' = [i \in Channels |-> <<>>]
    BY <1>12 DEF Enable, Disable
  <2>2. RdrCurrent'
    BY <2>1 DEF RdrCurrent, AllCut
  <2>3. HeldCurrent' /\ QueuedOwnCut'
    BY <1>0, <2>1, HeldFrame, QueuedFrame
  <2>4. DataCurrent'
    BY <2>1 DEF DataCurrent
  <2>. QED
    BY <2>2, <2>3, <2>4 DEF CurrentBytes
<1>13. CASE MiddleChannelDone
  <2>1. /\ UNCHANGED <<cut, returnedPackets, rec, feedbackQueue>>
        /\ pc = "m_tail"
        /\ rdr' = [rdr EXCEPT ![ci] = <<>>]
        /\ NextChannel("m_loop", "idle")
    BY <1>13 DEF MiddleChannelDone
  <2>2. pc' \in {"m_loop", "idle"}
    BY <1>0, <2>1, NextChannelType
  <2>3. RdrCurrent'
    <3>1. \A j \in Channels : Flushed(j) /\ Flushed(j)'
      BY <2>1, <2>2 DEF Flushed
    <3>. QED
      BY <1>0, <2>1, <3>1 DEF RdrCurrent, AllCut
  <2>4. HeldCurrent' /\ QueuedOwnCut'
    BY <1>0, <2>1, HeldFrame, QueuedFrame
  <2>5. DataCurrent'
    BY <2>2 DEF DataCurrent
  <2>. QED
    BY <2>3, <2>4, <2>5 DEF CurrentBytes
<1>14. CASE EndChannelDone
  <2>1. /\ UNCHANGED <<cut, rec, rdr, data>>
        /\ pc = "e_tail" /\ NextChannel("e_loop", "e_final")
    BY <1>14 DEF EndChannelDone
  <2>2. pc' \in {"e_loop", "e_final"}
    BY <1>0, <2>1, NextChannelType
  <2>3. RdrCurrent' /\ DataCurrent'
    <3>1. \A j \in Channels : Flushed(j)' => Flushed(j)
      BY <2>1, <2>2 DEF Flushed
    <3>. QED
      BY <1>0, <2>1, <2>2, <3>1, RdrFrame DEF DataCurrent
  <2>4. CASE returnedPackets[ci] # NoPacket
    <3>1. PICK r \in Slots : r = returnedPackets[ci]
      BY <1>0, <2>4
    <3>2. /\ feedbackQueue' = Append(feedbackQueue, r)
          /\ returnedPackets' = [returnedPackets EXCEPT ![ci] = NoPacket]
      BY <1>14, <2>4, <3>1 DEF EndChannelDone, Commit
    <3>3. HeldCurrent'
      BY <1>0, <2>1, <3>2 DEF HeldCurrent, RecordCut, AllCut
    <3>4. RecordCut(r)'
      BY <1>0, <2>1, <2>4, <3>1 DEF HeldCurrent, RecordCut, AllCut
    <3>5. QueuedOwnCut'
      BY <1>0, <2>1, <3>2, <3>4, QueuedCommit
    <3>. QED
      BY <2>3, <3>3, <3>5 DEF CurrentBytes
  <2>5. CASE returnedPackets[ci] = NoPacket
    <3>1. UNCHANGED <<feedbackQueue, returnedPackets>>
      BY <1>14, <2>5 DEF EndChannelDone
    <3>2. HeldCurrent' /\ QueuedOwnCut'
      BY <1>0, <2>1, <3>1, HeldFrame, QueuedFrame
    <3>. QED
      BY <2>3, <3>2 DEF CurrentBytes
  <2>. QED
    BY <2>4, <2>5
<1>15. ASSUME NEW base, \/ EndFinal /\ base = delivered
                        \/ NoCutout /\ base = 0
       PROVE  CurrentBytes'
  <2>1. /\ UNCHANGED <<cut, ci, data, returnedPackets, rdr>>
        /\ pc \in {"e_final", "idle"} /\ pc' = "idle"
        /\ \A i \in Channels : returnedPackets[i] = NoPacket
        /\ \/ UNCHANGED <<rec, feedbackQueue>>
           \/ SyntheticRecord(base)
    BY <1>0, <1>15, HwUnchanged DEF EndFinal, NoCutout, HandlesClear
  <2>2. QueuedOwnCut'
    BY <1>0, <2>1, QueuedFrame, SyntheticCurrent
  <2>3. HeldCurrent'
    BY <2>1 DEF HeldCurrent
  <2>4. RdrCurrent' /\ DataCurrent'
    <3>1. \A j \in Channels : Flushed(j)' => Flushed(j)
      BY <2>1 DEF Flushed
    <3>. QED
      BY <1>0, <2>1, <3>1, RdrFrame DEF DataCurrent
  <2>. QED
    BY <2>2, <2>3, <2>4 DEF CurrentBytes
<1>16. CASE Consume
  <2>1. /\ UNCHANGED <<cut, pc, ci, returnedPackets, rdr>>
        /\ feedbackQueue' = <<>>
        /\ rec' = [s \in Slots |-> IF s \in QueuedSlots THEN NewRecord(0, 0)
                                                        ELSE rec[s]]
    BY <1>16, HwUnchanged DEF Consume
  <2>2. QueuedOwnCut'
    BY <2>1 DEF QueuedOwnCut, QueuedSlots
  <2>3. HeldCurrent'
    <3>1. \A i \in Channels : returnedPackets[i] # NoPacket
            => rec'[returnedPackets[i]] = rec[returnedPackets[i]]
      BY <1>0, <2>1, HeldAlone
    <3>. QED
      BY <1>0, <2>1, <3>1, HeldFrame
  <2>4. RdrCurrent' /\ DataCurrent'
    <3>1. \A j \in Channels : Flushed(j)' => Flushed(j)
      BY <2>1 DEF Flushed
    <3>. QED
      BY <1>0, <1>16, <2>1, <3>1, RdrFrame DEF DataCurrent, Consume
  <2>. QED
    BY <2>2, <2>3, <2>4 DEF CurrentBytes
<1>17. EndFinal \/ NoCutout => CurrentBytes'
  BY <1>15
<1>18. \/ DrainAllocFailed("m_loop", "m_tail") \/ DrainEmpty("m_loop", "m_tail")
       \/ DrainAllocFailed("e_loop", "e_tail") \/ DrainEmpty("e_loop", "e_tail")
       \/ DrainRead("m_loop", "m_check") \/ DrainRead("e_loop", "e_check")
       => CurrentBytes'
  BY <1>6, <1>7
<1>. QED
  BY <1>1, <1>2, <1>3, <1>4, <1>5, <1>8, <1>9, <1>10, <1>11, <1>12, <1>13,
     <1>14, <1>16, <1>17, <1>18 DEF Next, PhaseStep, Call
LEMMA InitStaleIInv == Init => StaleIInv
<1> SUFFICES ASSUME Init PROVE StaleIInv
  OBVIOUS
<1>1. TypeIInv
  BY InitTypeIInv
<1>2. OwnershipInv
  BY DEF Init, OwnershipInv, OwnedSlots, QueuedSlots
<1>3. PhaseWindow /\ HandlesClear
  BY DEF Init, PhaseWindow, HandlesClear
<1>4. CurrentBytes
  BY DEF Init, CurrentBytes, HeldCurrent, DataCurrent, RdrCurrent,
         QueuedOwnCut, QueuedSlots, AllCut
<1>. QED
  BY <1>1, <1>2, <1>3, <1>4 DEF StaleIInv

LEMMA NextStaleIInv == StaleIInv /\ [Next]_vars => StaleIInv'
<1> SUFFICES ASSUME StaleIInv, [Next]_vars PROVE StaleIInv'
  OBVIOUS
<1>1. TypeIInv' /\ OwnershipInv'
  BY NextTypeIInv, NextOwnership DEF StaleIInv
<1>2. PhaseWindow' /\ HandlesClear'
  BY NextControl DEF StaleIInv
<1>3. CurrentBytes'
  BY NextCurrentBytes
<1>. QED
  BY <1>1, <1>2, <1>3 DEF StaleIInv

(* For every number of channels, pool size and RDR depth, every reachable *)
(* state keeps the phase calls in their windows, the handles start_cutout  *)
(* and end_cutout clear cleared, and every byte in a record, in data and   *)
(* in a drained RDR tagged with the cutout it belongs to.                  *)
THEOREM StaleIInvCorrect == Spec => []StaleIInv
BY InitStaleIInv, NextStaleIInv, PTL DEF Spec

(* Every live record holds only bytes of the cutout it was allocated in.   *)
LEMMA StaleIInvNoStale == StaleIInv => NoStaleBytes
<1> SUFFICES ASSUME StaleIInv, NEW s \in LiveSlots
             PROVE  \A b \in PayloadBytes(s) : b.cut = rec[s].cut
  BY DEF NoStaleBytes
<1>1. returnedPackets \in [Channels -> Slots \cup {NoPacket}]
      /\ rec \in [Slots -> Record] /\ feedbackQueue \in Seq(Slots)
  BY DEF StaleIInv, TypeIInv, StateOK
<1>2. s \in Slots /\ RecordCut(s)
  <2>1. CASE s \in OwnedSlots
    BY <1>1, <2>1 DEF OwnedSlots, StaleIInv, CurrentBytes, HeldCurrent
  <2>2. CASE s \in QueuedSlots
    BY <1>1, <2>2 DEF QueuedSlots, StaleIInv, CurrentBytes, QueuedOwnCut
  <2>. QED
    BY <2>1, <2>2 DEF LiveSlots
<1>. QED
  BY <1>1, <1>2, PayloadCut

(* Flush before listen (spec 4.1): start_cutout drains every RDR before    *)
(* the window opens, and a record is allocated in the current cutout, so   *)
(* no record, held by a channel or committed to the queue, ever carries a  *)
(* byte received in an earlier cutout.                                     *)
THEOREM NoStaleBytesCorrect == Spec => []NoStaleBytes
<1>1. Init => StaleIInv
  BY InitStaleIInv
<1>2. StaleIInv /\ [Next]_vars => StaleIInv'
  BY NextStaleIInv
<1>3. StaleIInv => NoStaleBytes
  BY StaleIInvNoStale
<1>. QED
  BY <1>1, <1>2, <1>3, PTL DEF Spec

=============================================================================
