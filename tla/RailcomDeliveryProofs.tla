------------------------ MODULE RailcomDeliveryProofs ------------------------
(***************************************************************************)
(* Proof of DeliveriesPerCutout (spec I3 as the code has it) for every    *)
(* number of channels and every pool size.  The action property is about  *)
(* the step that closes a slot; it follows from an invariant that counts   *)
(* the commits of end_cutout: during its channel loop the records          *)
(* committed so far are those of the channels that got a record in the    *)
(* slot and no longer hold it, the channels behind the loop index hold    *)
(* nothing, and have_packets says whether any was committed.               *)
(***************************************************************************)
EXTENDS RailcomDriverProofs, FiniteSetTheorems

USE NumChannelsAssumption, SlotsAssumption, DepthAssumption, BoundsAssumption

(* The channels that hold a record, and those that got one in this slot   *)
(* and have committed it.                                                  *)
Held == {i \in Channels : returnedPackets[i] # NoPacket}
Committed == touched \ Held

EndLoopPC == {"e_loop", "e_check", "e_tail"}
EndPC == EndLoopPC \cup {"e_final"}

(* The commit count of the slot.  Together with StaleIInv (which says that *)
(* no channel holds a record between slots, in start_cutout and once the   *)
(* end_cutout loop is over) it is inductive.                               *)
DeliveryInv ==
  /\ Held \subseteq touched
  (* start_cutout emptied the slot; nothing is allocated before window 2.  *)
  /\ pc \in {"s_dir", "s_flush"} \/ window = "W1" => touched = {}
  (* Before end_cutout's loop nothing was committed in the slot.           *)
  /\ pc \notin EndPC /\ ~(pc = "idle" /\ window = "Idle")
       => touched = Held /\ delivered = 0
  (* end_cutout counts its commits in delivered and have_packets.          *)
  /\ pc \in EndPC
       => /\ delivered = Cardinality(Committed)
          /\ havePackets <=> Committed # {}
  (* The loop has committed every channel below the index, and every      *)
  (* channel at or above it that got a record still holds it.              *)
  /\ pc \in EndLoopPC
       => \A i \in touched : i \in Held <=> ci <= i

-----------------------------------------------------------------------------
(* Lemmas about the handles.                                               *)

LEMMA ChannelsFinite == IsFiniteSet(Channels)
BY FS_Interval DEF Channels

(* A subset of the channels is finite.                                     *)
LEMMA ChannelSetFinite ==
  ASSUME NEW S \in SUBSET Channels
  PROVE  IsFiniteSet(S)
BY ChannelsFinite, FS_Subset

(* Storing a record handle for channel c adds c to the holders.           *)
LEMMA HeldAlloc ==
  ASSUME returnedPackets \in [Channels -> Slots \cup {NoPacket}],
         NEW c \in Channels, NEW s \in Slots,
         returnedPackets' = [returnedPackets EXCEPT ![c] = s]
  PROVE  Held' = Held \cup {c}
BY DEF Held

(* Clearing the handle of channel c removes c from the holders.           *)
LEMMA HeldRelease ==
  ASSUME returnedPackets \in [Channels -> Slots \cup {NoPacket}],
         NEW c \in Channels,
         returnedPackets' = [returnedPackets EXCEPT ![c] = NoPacket]
  PROVE  Held' = Held \ {c}
BY DEF Held

(* HandlesClear: no channel holds a record between slots, in start_cutout *)
(* and at the end of end_cutout's loop.                                    *)
LEMMA NoneHeld ==
  ASSUME HandlesClear,
         \/ pc \in {"s_dir", "s_flush", "e_final"}
         \/ pc = "idle" /\ window \in {"Idle", "W1"}
  PROVE  Held = {}
BY DEF HandlesClear, Held

(* A step that leaves the slot's bookkeeping alone and moves the program  *)
(* point within one phase call keeps DeliveryInv.                          *)
LEMMA DeliveryFrame ==
  ASSUME DeliveryInv,
         UNCHANGED <<window, ci, returnedPackets, touched, delivered,
                     havePackets>>,
         \/ pc' = pc
         \/ pc \in {"s_dir", "s_flush"} /\ pc' \in {"s_dir", "s_flush"}
         \/ pc \in {"m_loop", "m_check", "m_tail"}
            /\ pc' \in {"m_loop", "m_check", "m_tail"}
         \/ pc \in EndLoopPC /\ pc' \in EndLoopPC
  PROVE  DeliveryInv'
BY DEF DeliveryInv, Held, Committed, EndPC, EndLoopPC

LEMMA InitDelivery == Init => DeliveryInv
<1> SUFFICES ASSUME Init PROVE DeliveryInv
  OBVIOUS
<1>1. Held = {}
  BY DEF Init, Held
<1>. QED
  BY <1>1 DEF Init, DeliveryInv, EndPC, EndLoopPC

(* Every step keeps the commit count of the slot.                         *)
LEMMA NextDelivery ==
  StaleIInv /\ DeliveryInv /\ [Next]_vars => DeliveryInv'
<1> SUFFICES ASSUME StaleIInv, DeliveryInv, [Next]_vars PROVE DeliveryInv'
  OBVIOUS
<1>0. /\ returnedPackets \in [Channels -> Slots \cup {NoPacket}]
      /\ ci \in Channels /\ pc \in PC /\ touched \in SUBSET Channels
      /\ delivered \in Nat
      /\ PhaseWindow /\ HandlesClear
  BY DEF StaleIInv, TypeIInv, StateOK
<1>1. CASE \/ \E i \in Channels, e \in BOOLEAN : ReceiveByte(i, e)
           \/ StartFlushByte \/ FeedbackSample \/ Enable \/ Disable \/ Consume
           \/ UNCHANGED vars
  <2>1. UNCHANGED <<pc, window, ci, returnedPackets, touched, delivered,
                    havePackets>>
    BY <1>1 DEF ReceiveByte, StartFlushByte, FeedbackSample, Enable, Disable,
                Consume, vars
  <2>. QED
    BY <2>1, DeliveryFrame
<1>2. CASE \/ StartSetDirection
           \/ DrainAllocFailed("m_loop", "m_tail") \/ DrainEmpty("m_loop", "m_tail")
           \/ MiddleFramingError \/ MiddleStoreByte
           \/ DrainAllocFailed("e_loop", "e_tail") \/ DrainEmpty("e_loop", "e_tail")
           \/ EndFramingError \/ EndStoreByte
  <2>1. UNCHANGED <<window, ci, returnedPackets, touched, delivered,
                    havePackets>>
    BY <1>2 DEF StartSetDirection, DrainAllocFailed, DrainEmpty,
                MiddleFramingError, MiddleStoreByte, EndFramingError,
                EndStoreByte
  <2>2. \/ pc \in {"s_dir", "s_flush"} /\ pc' \in {"s_dir", "s_flush"}
        \/ pc \in {"m_loop", "m_check", "m_tail"}
           /\ pc' \in {"m_loop", "m_check", "m_tail"}
        \/ pc \in EndLoopPC /\ pc' \in EndLoopPC
    BY <1>2 DEF StartSetDirection, DrainAllocFailed, DrainEmpty,
                MiddleFramingError, MiddleStoreByte, EndFramingError,
                EndStoreByte, EndLoopPC
  <2>. QED
    BY <2>1, <2>2, DeliveryFrame
<1>3. CASE StartCutout
  <2>1. Held = {} /\ Held' = Held
    BY <1>0, <1>3, NoneHeld DEF StartCutout, Held
  <2>. QED
    BY <1>3, <2>1 DEF StartCutout, DeliveryInv, EndPC, EndLoopPC
<1>4. CASE StartChannelDone
  <2>1. pc = "s_flush" /\ touched = {} /\ delivered = 0
    BY <1>4 DEF StartChannelDone, DeliveryInv, EndPC, EndLoopPC
  <2>2. Held' = {}
    BY <1>0, <1>4, <2>1, NoneHeld, HeldRelease DEF StartChannelDone
  <2>3. pc' \in {"s_dir", "idle"}
    BY <1>0, <1>4, NextChannelType DEF StartChannelDone
  <2>. QED
    BY <1>4, <2>1, <2>2, <2>3 DEF StartChannelDone, DeliveryInv, EndPC,
       EndLoopPC
<1>5. ASSUME NEW lp \in {"m_loop", "e_loop"},
             NEW cp \in {"m_check", "e_check"},
             lp = "m_loop" <=> cp = "m_check", DrainRead(lp, cp)
      PROVE  DeliveryInv'
  <2>1. UNCHANGED <<window, ci, delivered, havePackets>> /\ pc = lp /\ pc' = cp
    BY <1>5 DEF DrainRead
  <2>2. CASE UNCHANGED <<returnedPackets, touched>>
    BY <1>5, <2>1, <2>2 DEF DeliveryInv, Held, Committed, EndPC, EndLoopPC
  <2>3. CASE returnedPackets[ci] = NoPacket /\ \E s \in FreeSlots : AllocFor(ci, s)
    <3>1. PICK s \in FreeSlots : AllocFor(ci, s)
      BY <2>3
    <3>2. Held' = Held \cup {ci} /\ touched' = touched \cup {ci}
      BY <1>0, <3>1, HeldAlloc DEF AllocFor, FreeSlots
    <3>3. ci \notin Held
      BY <2>3 DEF Held
    <3>4. CASE lp = "m_loop"
      <4>1. window = "W2" /\ touched = Held
        BY <1>0, <1>5, <2>1, <3>4
        DEF PhaseWindow, DeliveryInv, EndPC, EndLoopPC
      <4>. QED
        BY <1>5, <2>1, <3>2, <3>4, <4>1 DEF DeliveryInv, EndPC, EndLoopPC
    <3>5. CASE lp = "e_loop"
      <4>1. window = "Idle" /\ ci \notin touched
        BY <1>0, <1>5, <2>1, <3>3, <3>5
        DEF PhaseWindow, DeliveryInv, EndLoopPC, Channels
      <4>2. Committed' = Committed
        BY <3>2, <3>3, <4>1 DEF Committed
      <4>. QED
        BY <1>0, <1>5, <2>1, <3>2, <3>5, <4>1, <4>2
        DEF DeliveryInv, EndPC, EndLoopPC, Channels
    <3>. QED
      BY <3>4, <3>5
  <2>. QED
    BY <1>5, <2>2, <2>3 DEF DrainRead
<1>6. CASE MiddleCutout
  <2>1. Held = {} /\ touched = {} /\ delivered = 0
    BY <1>0, <1>6, NoneHeld DEF MiddleCutout, DeliveryInv, EndPC, EndLoopPC
  <2>. QED
    BY <1>6, <2>1 DEF MiddleCutout, DeliveryInv, Held, EndPC, EndLoopPC
<1>7. CASE MiddleChannelDone
  <2>1. pc = "m_tail" /\ window = "W2" /\ pc' \in {"m_loop", "idle"}
    BY <1>0, <1>7, NextChannelType DEF MiddleChannelDone, PhaseWindow
  <2>. QED
    BY <1>7, <2>1 DEF MiddleChannelDone, DeliveryInv, Held, Committed,
       EndPC, EndLoopPC
<1>8. CASE EndCutout
  <2>1. touched = Held /\ delivered = 0
    BY <1>8 DEF EndCutout, DeliveryInv, EndPC, EndLoopPC
  <2>2. Committed' = {}
    BY <1>8, <2>1 DEF EndCutout, Committed, Held
  <2>3. Cardinality(Committed') = 0
    BY <2>2, FS_EmptySet
  <2>. QED
    BY <1>0, <1>8, <2>1, <2>2, <2>3
    DEF EndCutout, DeliveryInv, Held, EndPC, EndLoopPC, Channels
<1>9. CASE EndChannelDone
  <2>1. /\ pc = "e_tail" /\ window = "Idle"
        /\ UNCHANGED <<window, touched>>
        /\ delivered = Cardinality(Committed)
        /\ havePackets <=> Committed # {}
        /\ \A i \in touched : i \in Held <=> ci <= i
    BY <1>0, <1>9 DEF EndChannelDone, PhaseWindow, DeliveryInv, EndPC,
       EndLoopPC
  <2>2. Held' = Held \ {ci}
    <3>1. CASE returnedPackets[ci] # NoPacket
      <4>1. returnedPackets' = [returnedPackets EXCEPT ![ci] = NoPacket]
        BY <1>9, <3>1, Zenon DEF EndChannelDone
      <4>. QED
        BY <1>0, <4>1, HeldRelease
    <3>2. CASE returnedPackets[ci] = NoPacket
      BY <1>9, <3>2 DEF EndChannelDone, Held
    <3>. QED
      BY <3>1, <3>2
  <2>3. /\ delivered' = Cardinality(Committed')
        /\ havePackets' <=> Committed' # {}
    <3>1. CASE returnedPackets[ci] # NoPacket
      <4>1. delivered' = delivered + 1 /\ havePackets' = TRUE
        BY <1>9, <3>1, Zenon DEF EndChannelDone
      <4>2. ci \in Held /\ Committed' = Committed \cup {ci}
            /\ ci \notin Committed
        BY <1>0, <2>1, <2>2, <3>1 DEF Held, Committed, DeliveryInv
      <4>3. IsFiniteSet(Committed)
        BY <1>0, ChannelSetFinite DEF Committed
      <4>4. Cardinality(Committed') = Cardinality(Committed) + 1
        BY <4>2, <4>3, FS_AddElement
      <4>. QED
        BY <2>1, <4>1, <4>2, <4>4
    <3>2. CASE returnedPackets[ci] = NoPacket
      <4>1. UNCHANGED <<delivered, havePackets>>
        BY <1>9, <3>2 DEF EndChannelDone
      <4>2. Committed' = Committed
        BY <2>1, <2>2, <3>2 DEF Committed, Held
      <4>. QED
        BY <2>1, <4>1, <4>2
    <3>. QED
      BY <3>1, <3>2
  <2>4. Held' \subseteq touched'
    BY <2>1, <2>2 DEF DeliveryInv
  <2>5. CASE LastChannel
    <3>1. pc' = "e_final"
      BY <1>9, <2>5 DEF EndChannelDone, NextChannel
    <3>. QED
      BY <2>1, <2>3, <2>4, <3>1 DEF DeliveryInv, EndPC, EndLoopPC
  <2>6. CASE ~LastChannel
    <3>1. pc' = "e_loop" /\ ci' = ci + 1
      BY <1>9, <2>6 DEF EndChannelDone, NextChannel
    <3>2. \A i \in touched' : i \in Held' <=> ci' <= i
      BY <1>0, <2>1, <2>2, <3>1 DEF Channels
    <3>. QED
      BY <2>1, <2>3, <2>4, <3>1, <3>2 DEF DeliveryInv, EndPC, EndLoopPC
  <2>. QED
    BY <2>5, <2>6
<1>10. CASE EndFinal
  <2>1. window = "Idle" /\ pc' = "idle"
    BY <1>0, <1>10 DEF EndFinal, PhaseWindow
  <2>. QED
    BY <1>10, <2>1 DEF EndFinal, DeliveryInv, Held, EndPC, EndLoopPC
<1>11. CASE NoCutout
  <2>1. Held = {} /\ Held' = Held
    BY <1>0, <1>11, NoneHeld DEF NoCutout, Held
  <2>. QED
    BY <1>11, <2>1 DEF NoCutout, DeliveryInv, EndPC, EndLoopPC
<1>. QED
  BY <1>1, <1>2, <1>3, <1>4, <1>5, <1>6, <1>7, <1>8, <1>9, <1>10, <1>11
  DEF Next, PhaseStep, Call

(* For every number of channels and every pool size, end_cutout's loop    *)
(* counts in delivered exactly the records it has committed in the slot,  *)
(* have_packets says whether there is one, and the channels at or above   *)
(* the loop index still hold the records they got.                         *)
THEOREM DeliveryInvCorrect == Spec => []DeliveryInv
<1>1. Init => StaleIInv /\ DeliveryInv
  BY InitStaleIInv, InitDelivery
<1>2. StaleIInv /\ DeliveryInv /\ [Next]_vars => (StaleIInv /\ DeliveryInv)'
  BY NextStaleIInv, NextDelivery
<1>. QED
  BY <1>1, <1>2, PTL DEF Spec

-----------------------------------------------------------------------------
(* The step that closes a slot.                                            *)

(* The synthetic record of no_cutout and of end_cutout without packets    *)
(* adds one commit to base, or none when the pool is exhausted.           *)
LEMMA SyntheticCount ==
  ASSUME NEW base, SyntheticRecord(base)
  PROVE  delivered' = IF FreeSlots = {} THEN base ELSE base + 1
BY DEF SyntheticRecord

(* Only EndFinal leaves end_cutout's last step for the idle point.        *)
LEMMA EndFinalCloses ==
  ASSUME [Next]_vars, pc = "e_final", pc' = "idle"
  PROVE  EndFinal
BY DEF Next, vars, PhaseStep, Call, ReceiveByte, StartCutout,
       StartSetDirection, StartFlushByte, StartChannelDone, DrainAllocFailed,
       DrainRead, DrainEmpty, MiddleCutout, MiddleFramingError,
       MiddleStoreByte, MiddleChannelDone, EndCutout, EndFramingError,
       EndStoreByte, EndChannelDone, NoCutout, FeedbackSample, Enable,
       Disable, Consume

LEMMA CloseStep ==
  ASSUME StaleIInv, DeliveryInv, [Next]_vars, ClosesSlot
  PROVE  delivered' = IF touched' = {}
                        THEN IF FreeSlots = {} THEN 0 ELSE 1
                        ELSE Cardinality(touched')
<1>0. touched \in SUBSET Channels /\ HandlesClear
  BY DEF StaleIInv, TypeIInv, StateOK
<1>1. CASE NoCutout
  BY <1>1, SyntheticCount DEF NoCutout
<1>2. CASE pc = "e_final" /\ pc' = "idle"
  <2>1. EndFinal
    BY <1>2, EndFinalCloses
  <2>2. Committed = touched /\ touched' = touched
    BY <1>0, <1>2, <2>1, NoneHeld DEF Committed, EndFinal
  <2>3. delivered = Cardinality(touched) /\ (havePackets <=> touched # {})
    BY <1>2, <2>2 DEF DeliveryInv, EndPC
  <2>4. CASE havePackets
    <3>1. delivered' = delivered
      BY <2>1, <2>4 DEF EndFinal
    <3>. QED
      BY <2>2, <2>3, <2>4, <3>1
  <2>5. CASE ~havePackets
    <3>1. SyntheticRecord(delivered)
      BY <2>1, <2>5 DEF EndFinal
    <3>2. touched = {} /\ delivered = 0
      BY <2>3, <2>5, FS_EmptySet
    <3>. QED
      BY <2>2, <3>1, <3>2, SyntheticCount
  <2>. QED
    BY <2>4, <2>5
<1>. QED
  BY <1>1, <1>2 DEF ClosesSlot

(* For every number of channels and every pool size, end_cutout and       *)
(* no_cutout close a slot with exactly one commit per channel that got a   *)
(* record in it, or, when none did, with one empty record unless the pool  *)
(* is exhausted: the commit loop of end_cutout neither loses nor repeats a *)
(* channel's record, and have_packets decides the synthetic record.       *)
THEOREM DeliveriesCorrect == Spec => DeliveriesPerCutout
<1>1. Init => StaleIInv /\ DeliveryInv
  BY InitStaleIInv, InitDelivery
<1>2. StaleIInv /\ DeliveryInv /\ [Next]_vars => (StaleIInv /\ DeliveryInv)'
  BY NextStaleIInv, NextDelivery
<1>3. StaleIInv /\ DeliveryInv /\ [Next]_vars
        => [ClosesSlot => delivered' = IF touched' = {}
                                         THEN IF FreeSlots = {} THEN 0 ELSE 1
                                         ELSE Cardinality(touched')]_vars
  BY CloseStep
<1>. QED
  BY <1>1, <1>2, <1>3, PTL DEF Spec, DeliveriesPerCutout

=============================================================================
