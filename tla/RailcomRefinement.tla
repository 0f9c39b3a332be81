-------------------------- MODULE RailcomRefinement --------------------------
(***************************************************************************)
(* RailcomDriver implements RecordLifecycle: seen through its handles, its *)
(* queue and the payloads of its records, every step of the driver, of    *)
(* the UART and of the consumer is a step of the record lifecycle of      *)
(* spec 3 or leaves that view alone.                                       *)
(***************************************************************************)
EXTENDS RailcomDriverProofs

(* A record as the lifecycle sees it: its channel key and its two window  *)
(* payloads; the cutout number is the driver's own bookkeeping.            *)
RecordView ==
  [s \in Slots |-> [key |-> rec[s].chan, w1 |-> rec[s].ch1, w2 |-> rec[s].ch2]]

Lifecycle == INSTANCE RecordLifecycle
               WITH Chan <- Channels, Bytes <- Byte,
                    owner <- returnedPackets, queue <- feedbackQueue,
                    records <- RecordView

(* The record lifecycle of spec 3 (I1, I2): a record is allocated only    *)
(* from the free ones for a channel that holds none, start_cutout's and    *)
(* end_cutout's drains write only the record the channel owns, commit_back *)
(* hands it to the queue with the handle cleared in the same step, no     *)
(* committed record is written until the consumer reclaims it, and the    *)
(* synthetic record of end_cutout and no_cutout is a free one.             *)
ImplementsLifecycle ==
  Lifecycle!Init
  /\ [][UNCHANGED <<returnedPackets, feedbackQueue, rec>> \/ Lifecycle!Next]_
        <<returnedPackets, feedbackQueue, RecordView>>

(* ImplementsLifecycle is Lifecycle!Spec with the frame of the view tested *)
(* first: a step that leaves the handles, the queue and the records alone  *)
(* leaves the view alone.  TLC checks it in a fraction of the time.        *)

USE NumChannelsAssumption, SlotsAssumption, DepthAssumption, BoundsAssumption

-----------------------------------------------------------------------------
(* Lemmas about the view of a record.                                      *)

LEMMA ViewType ==
  ASSUME NEW f \in [Slots -> Record]
  PROVE  [s \in Slots |-> [key |-> f[s].chan, w1 |-> f[s].ch1, w2 |-> f[s].ch2]]
           \in [Slots -> Lifecycle!Contents]
BY DEF Record, Lifecycle!Contents

(* A record allocated, or made the synthetic one, is blank in the view.   *)
LEMMA ViewAlloc ==
  ASSUME rec \in [Slots -> Record], NEW s \in Slots, NEW i, NEW c,
         rec' = [rec EXCEPT ![s] = NewRecord(i, c)]
  PROVE  RecordView' = [RecordView EXCEPT ![s] = Lifecycle!Blank(i)]
BY DEF RecordView, NewRecord, Lifecycle!Blank

(* A byte stored by middle_cutout or end_cutout is an append in the view. *)
LEMMA ViewStore ==
  ASSUME rec \in [Slots -> Record], NEW s \in Slots, NEW b
  PROVE  /\ rec' = [rec EXCEPT ![s].ch1 = Append(@, b)]
              => RecordView' = [RecordView EXCEPT ![s].w1 = Append(@, b)]
         /\ rec' = [rec EXCEPT ![s].ch2 = Append(@, b)]
              => RecordView' = [RecordView EXCEPT ![s].w2 = Append(@, b)]
<1>1. rec[s] \in Record
  OBVIOUS
<1>2. ASSUME rec' = [rec EXCEPT ![s].ch1 = Append(@, b)]
      PROVE  RecordView' = [RecordView EXCEPT ![s].w1 = Append(@, b)]
  <2>1. /\ rec'[s].chan = rec[s].chan /\ rec'[s].ch2 = rec[s].ch2
        /\ rec'[s].ch1 = Append(rec[s].ch1, b)
        /\ \A t \in Slots \ {s} : rec'[t] = rec[t]
    BY <1>1, <1>2 DEF Record
  <2>. QED
    BY <2>1 DEF RecordView
<1>3. ASSUME rec' = [rec EXCEPT ![s].ch2 = Append(@, b)]
      PROVE  RecordView' = [RecordView EXCEPT ![s].w2 = Append(@, b)]
  <2>1. /\ rec'[s].chan = rec[s].chan /\ rec'[s].ch1 = rec[s].ch1
        /\ rec'[s].ch2 = Append(rec[s].ch2, b)
        /\ \A t \in Slots \ {s} : rec'[t] = rec[t]
    BY <1>1, <1>3 DEF Record
  <2>. QED
    BY <2>1 DEF RecordView
<1>. QED
  BY <1>2, <1>3

LEMMA ViewUnchanged ==
  ASSUME rec' = rec PROVE RecordView' = RecordView
BY DEF RecordView


-----------------------------------------------------------------------------
(* The step of the refinement.                                             *)

(* The free records of the driver are those of the lifecycle.            *)
LEMMA FreeSame == FreeSlots = Lifecycle!Free
BY DEF FreeSlots, OwnedSlots, QueuedSlots, Lifecycle!Free, Lifecycle!Owned,
       Lifecycle!Queued

(* The synthetic record of end_cutout and no_cutout is CommitEmpty, or    *)
(* nothing when the pool is exhausted.                                     *)
LEMMA SyntheticStep ==
  ASSUME rec \in [Slots -> Record], cut \in 0 .. MaxCutouts, NEW base,
         SyntheticRecord(base), UNCHANGED returnedPackets
  PROVE  \/ UNCHANGED <<returnedPackets, feedbackQueue, rec>>
         \/ \E s \in Slots : Lifecycle!CommitEmpty(s)
<1>1. CASE FreeSlots = {} /\ UNCHANGED <<rec, feedbackQueue, pending>>
  BY <1>1
<1>2. CASE \E s \in FreeSlots :
             /\ rec' = [rec EXCEPT ![s] = NewRecord(0, cut)]
             /\ Commit(s)
  <2>1. PICK s \in FreeSlots :
             /\ rec' = [rec EXCEPT ![s] = NewRecord(0, cut)]
             /\ Commit(s)
    BY <1>2
  <2>2. s \in Slots /\ s \in Lifecycle!Free
    BY FreeSame DEF FreeSlots
  <2>3. RecordView' = [RecordView EXCEPT ![s] = Lifecycle!Blank(0)]
    BY <2>1, <2>2, ViewAlloc
  <2>. QED
    BY <2>1, <2>2, <2>3 DEF Commit, Lifecycle!CommitEmpty
<1>. QED
  BY <1>1, <1>2 DEF SyntheticRecord

LEMMA RefinementStep ==
  ASSUME StaleIInv, [Next]_vars
  PROVE  \/ UNCHANGED <<returnedPackets, feedbackQueue, rec>>
         \/ Lifecycle!Next
<1>0. /\ returnedPackets \in [Channels -> Slots \cup {NoPacket}]
      /\ rec \in [Slots -> Record] /\ feedbackQueue \in Seq(Slots)
      /\ ci \in Channels /\ cut \in 0 .. MaxCutouts /\ data \in Byte
      /\ CheckHasRecord /\ HandlesClear
  BY DEF StaleIInv, TypeIInv, StateOK
<1> DEFINE U == UNCHANGED <<returnedPackets, feedbackQueue, rec>>
<1>1. CASE \/ \E i \in Channels, e \in BOOLEAN : ReceiveByte(i, e)
           \/ StartCutout \/ StartSetDirection \/ StartFlushByte
           \/ DrainAllocFailed("m_loop", "m_tail") \/ DrainEmpty("m_loop", "m_tail")
           \/ DrainAllocFailed("e_loop", "e_tail") \/ DrainEmpty("e_loop", "e_tail")
           \/ MiddleCutout \/ MiddleFramingError \/ MiddleChannelDone
           \/ EndCutout \/ EndFramingError
           \/ FeedbackSample \/ Enable \/ Disable \/ UNCHANGED vars
  <2>. U
    BY <1>1 DEF ReceiveByte, StartCutout, StartSetDirection, StartFlushByte,
                DrainAllocFailed, DrainEmpty, MiddleCutout, MiddleFramingError,
                MiddleChannelDone, EndCutout, EndFramingError, FeedbackSample,
                Enable, Disable, vars
  <2>. QED
    OBVIOUS
<1>2. CASE StartChannelDone
  <2>1. returnedPackets[ci] = NoPacket
    BY <1>0, <1>2 DEF StartChannelDone, HandlesClear
  <2>. QED
    BY <1>0, <1>2, <2>1 DEF StartChannelDone
<1>3. ASSUME NEW lp \in {"m_loop", "e_loop"},
             NEW cp \in {"m_check", "e_check"}, DrainRead(lp, cp)
      PROVE  U \/ Lifecycle!Next
  <2>1. CASE UNCHANGED <<returnedPackets, rec, touched>>
    BY <1>3, <2>1 DEF DrainRead
  <2>2. CASE returnedPackets[ci] = NoPacket /\ \E s \in FreeSlots : AllocFor(ci, s)
    <3>1. PICK s \in FreeSlots : AllocFor(ci, s)
      BY <2>2
    <3>2. s \in Slots /\ s \in Lifecycle!Free
      BY FreeSame DEF FreeSlots
    <3>3. RecordView' = [RecordView EXCEPT ![s] = Lifecycle!Blank(ci)]
      BY <1>0, <3>1, <3>2, ViewAlloc DEF AllocFor
    <3>4. Lifecycle!Alloc(ci, s)
      BY <1>3, <2>2, <3>1, <3>2, <3>3 DEF AllocFor, DrainRead, Lifecycle!Alloc
    <3>. QED
      BY <1>0, <3>2, <3>4 DEF Lifecycle!Next
  <2>. QED
    BY <1>3, <2>1, <2>2 DEF DrainRead
<1>4. CASE MiddleStoreByte
  <2>1. returnedPackets[ci] \in Slots /\ returnedPackets[ci] # NoPacket
    BY <1>0, <1>4 DEF MiddleStoreByte, CheckHasRecord
  <2>2. RecordView' = [RecordView EXCEPT ![returnedPackets[ci]].w1 = Append(@, data)]
    BY <1>0, <1>4, <2>1, ViewStore DEF MiddleStoreByte
  <2>3. Lifecycle!Append1(ci, data)
    BY <1>4, <2>1, <2>2 DEF MiddleStoreByte, Lifecycle!Append1
  <2>. QED
    BY <1>0, <2>3 DEF Lifecycle!Next
<1>5. CASE EndStoreByte
  <2>1. returnedPackets[ci] \in Slots /\ returnedPackets[ci] # NoPacket
    BY <1>0, <1>5 DEF EndStoreByte, CheckHasRecord
  <2>2. RecordView' = [RecordView EXCEPT ![returnedPackets[ci]].w2 = Append(@, data)]
    BY <1>0, <1>5, <2>1, ViewStore DEF EndStoreByte
  <2>3. Lifecycle!Append2(ci, data)
    BY <1>5, <2>1, <2>2 DEF EndStoreByte, Lifecycle!Append2
  <2>. QED
    BY <1>0, <2>3 DEF Lifecycle!Next
<1>6. CASE EndChannelDone
  <2>1. CASE returnedPackets[ci] # NoPacket
    <3>1. /\ returnedPackets' = [returnedPackets EXCEPT ![ci] = NoPacket]
          /\ feedbackQueue' = Append(feedbackQueue, returnedPackets[ci])
          /\ rec' = rec
      BY <1>6, <2>1, Zenon DEF EndChannelDone, Commit
    <3>2. Lifecycle!Commit(ci)
      BY <2>1, <3>1, ViewUnchanged DEF Lifecycle!Commit
    <3>. QED
      BY <1>0, <3>2 DEF Lifecycle!Next
  <2>2. CASE returnedPackets[ci] = NoPacket
    BY <1>6, <2>2 DEF EndChannelDone
  <2>. QED
    BY <2>1, <2>2
<1>7. CASE EndFinal \/ NoCutout
  <2>1. UNCHANGED returnedPackets
    BY <1>7 DEF EndFinal, NoCutout
  <2>2. CASE EndFinal /\ havePackets
    BY <2>2 DEF EndFinal
  <2>3. CASE \E base : SyntheticRecord(base)
    <3>1. PICK base : SyntheticRecord(base)
      BY <2>3
    <3>2. U \/ \E s \in Slots : Lifecycle!CommitEmpty(s)
      BY <1>0, <2>1, <3>1, SyntheticStep
    <3>. QED
      BY <3>2 DEF Lifecycle!Next
  <2>. QED
    BY <1>7, <2>2, <2>3 DEF EndFinal, NoCutout
<1>8. CASE Consume
  <2>1. rec' \in [Slots -> Record]
    <3>1. NewRecord(0, 0) \in Record
      BY NewRecordType DEF Channels
    <3>. QED
      BY <1>0, <1>8, <3>1 DEF Consume
  <2>2. RecordView' \in [Slots -> Lifecycle!Contents]
    BY <2>1, ViewType DEF RecordView
  <2>3. \A s \in Slots \ Lifecycle!Queued : RecordView'[s] = RecordView[s]
    BY <1>8 DEF Consume, RecordView, QueuedSlots, Lifecycle!Queued
  <2>4. Lifecycle!Reclaim
    BY <1>8, <2>2, <2>3 DEF Consume, Lifecycle!Reclaim
  <2>. QED
    BY <2>4 DEF Lifecycle!Next
<1>. QED
  BY <1>1, <1>2, <1>3, <1>4, <1>5, <1>6, <1>7, <1>8 DEF Next, PhaseStep, Call

-----------------------------------------------------------------------------
(* The refinement.                                                         *)

LEMMA InitRefinement == Init => Lifecycle!Init
<1> SUFFICES ASSUME Init PROVE Lifecycle!Init
  OBVIOUS
<1>1. rec \in [Slots -> Record]
  BY NewRecordType DEF Init, Channels
<1>. QED
  BY <1>1, ViewType DEF Init, RecordView, Lifecycle!Init

(* For every number of channels, pool size, RDR depth and bound, the       *)
(* driver, the UART and the consumer together implement the record         *)
(* lifecycle of spec 3: allocation only of a free record for a channel     *)
(* holding none, appends only to an owned record, commit with the handle   *)
(* cleared in the same step, no write to a committed record before it is  *)
(* reclaimed, and a free record for the synthetic delivery.  It rests on   *)
(* StaleIInv: HandlesClear makes start_cutout's handle clear a stutter,    *)
(* and CheckHasRecord makes every store an append to an owned record.      *)
THEOREM RefinementCorrect == Spec => Lifecycle!Spec
<1>1. Init => Lifecycle!Init
  BY InitRefinement
<1>2. StaleIInv /\ [Next]_vars
        => [Lifecycle!Next]_<<returnedPackets, feedbackQueue, RecordView>>
  BY RefinementStep, ViewUnchanged
<1>. QED
  BY <1>1, <1>2, StaleIInvCorrect, PTL DEF Spec, Lifecycle!Spec, Lifecycle!lvars

(* The form of the refinement that the safety runs check.                  *)
THEOREM ImplementsLifecycleCorrect == Spec => ImplementsLifecycle
<1>1. Init => Lifecycle!Init
  BY InitRefinement
<1>2. StaleIInv /\ [Next]_vars
        => [UNCHANGED <<returnedPackets, feedbackQueue, rec>> \/ Lifecycle!Next]_
             <<returnedPackets, feedbackQueue, RecordView>>
  BY RefinementStep
<1>. QED
  BY <1>1, <1>2, StaleIInvCorrect, PTL DEF Spec, ImplementsLifecycle

=============================================================================
