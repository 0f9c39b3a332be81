--------------------------- MODULE RailcomDriver ---------------------------
(***************************************************************************)
(* The multi-channel RailCom cutout decoder of                             *)
(* src/freertos_drivers/st/Stm32Railcom.hxx (Stm32RailcomDriver<HW>).      *)
(*                                                                         *)
(* The external DCC timer ISR calls start_cutout, middle_cutout,           *)
(* end_cutout and no_cutout; each call loops over the channels and, inside *)
(* a channel, over the bytes the UART has buffered.  One step of this      *)
(* module is one statement group of those loops, so that the UART          *)
(* hardware, which keeps receiving while the ISR runs, can interleave with *)
(* them.  The records are taken from a bounded pool and committed to the   *)
(* feedback queue; a consumer interrupt of lower priority (OS_INTERRUPT)   *)
(* drains the queue when it is pending.                                    *)
(*                                                                         *)
(* UART semantics (STM32 USARTv2, the LL_USART calls the driver makes):    *)
(* RDR holds Depth bytes and RXNE means "RDR not empty"; a byte received   *)
(* with a framing error sets the sticky FE flag, which only ClearFlag_FE,  *)
(* Disable and a re-init clear (reading RDR does not); Disable resets all  *)
(* status flags; with the direction NONE nothing is received.              *)
(***************************************************************************)
EXTENDS Naturals, Sequences, FiniteSets

CONSTANTS
  NumChannels,  \* HW::CHANNEL_COUNT
  Slots,        \* the records of the packet pool (alloc_new_packet)
  NoPacket,     \* the null record handle (nullptr)
  Depth,        \* bytes the receive data register holds
  MaxBytes,     \* bound: bytes the line delivers per channel per window
  MaxCutouts    \* bound: number of start_cutout calls

ASSUME NumChannelsAssumption == NumChannels \in Nat \ {0}
ASSUME SlotsAssumption == IsFiniteSet(Slots) /\ NoPacket \notin Slots
ASSUME DepthAssumption == Depth \in Nat \ {0}
ASSUME BoundsAssumption == MaxBytes \in Nat /\ MaxCutouts \in Nat

Channels == 0 .. NumChannels - 1

(* A received byte is abstracted to the cutout it was received in and to   *)
(* whether the UART saw a framing error on it.                             *)
Byte == [cut : 0 .. MaxCutouts, err : BOOLEAN]
NoByte == [cut |-> 0, err |-> FALSE]

(* A feedback record (dcc::RailcomHubData): the channel key, the cutout it *)
(* was allocated in, and the channel-1 and channel-2 payloads.             *)
Record == [chan : Channels, cut : 0 .. MaxCutouts,
           ch1 : Seq(Byte), ch2 : Seq(Byte)]
NewRecord(ch, c) == [chan |-> ch, cut |-> c, ch1 |-> <<>>, ch2 |-> <<>>]

(* Program points of the driver inside one phase call.                     *)
PC == {"idle", "s_dir", "s_flush", "m_loop", "m_check", "m_tail",
       "e_loop", "e_check", "e_tail", "e_final"}

VARIABLES
  window,           \* cutout timeline of the external scheduler
  cut,              \* number of cutouts started so far
  pc, ci,           \* driver program point and loop index i
  needCh1Cutout,    \* local need_ch1_cutout of start_cutout
  data,             \* local data: the byte read from RDR
  havePackets,      \* local have_packets of end_cutout
  returnedPackets,  \* returnedPackets_[i]
  rec,              \* contents of every pool record
  feedbackQueue,    \* committed records, oldest first
  pending,          \* OS_INTERRUPT pending (HAL_NVIC_SetPendingIRQ)
  ue, dir, rdr, fe, \* per-channel UART: enable, direction, RDR, FE flag
  meas,             \* HW measurement mode: "off" or "low" (cutout)
  sent,             \* bytes the line delivered per channel in this window
  delivered,        \* commits since the current slot opened
  touched           \* channels that got a record in the current slot

hw == <<ue, dir, rdr, fe>>
vars == <<window, cut, pc, ci, needCh1Cutout, data, havePackets,
          returnedPackets, rec, feedbackQueue, pending, hw, meas, sent,
          delivered, touched>>

QueuedSlots == {feedbackQueue[k] : k \in 1 .. Len(feedbackQueue)}
OwnedSlots == {returnedPackets[i] : i \in Channels} \ {NoPacket}
FreeSlots == Slots \ (OwnedSlots \cup QueuedSlots)
LastChannel == ci = NumChannels - 1

(* The Boolean locals, the pending flag and the UART status bits.         *)
FlagsOK ==
  /\ needCh1Cutout \in BOOLEAN
  /\ havePackets \in BOOLEAN
  /\ pending \in BOOLEAN
  /\ ue \in [Channels -> BOOLEAN]
  /\ fe \in [Channels -> BOOLEAN]

StateOK ==
  /\ window \in {"Idle", "W1", "W2"}
  /\ cut \in 0 .. MaxCutouts
  /\ pc \in PC
  /\ ci \in Channels
  /\ data \in Byte
  /\ returnedPackets \in [Channels -> Slots \cup {NoPacket}]
  /\ rec \in [Slots -> Record]
  /\ feedbackQueue \in Seq(Slots)
  /\ dir \in [Channels -> {"NONE", "RX"}]
  /\ rdr \in [Channels -> Seq(Byte)]
  /\ meas \in {"off", "low"}
  /\ sent \in [Channels -> 0 .. MaxBytes]
  /\ delivered \in Nat
  /\ touched \in SUBSET Channels

TypeOK == StateOK /\ FlagsOK

Init ==
  /\ window = "Idle"
  /\ cut = 0
  /\ pc = "idle"
  /\ ci = 0
  /\ needCh1Cutout = FALSE
  /\ data = NoByte
  /\ havePackets = FALSE
  /\ returnedPackets = [i \in Channels |-> NoPacket]
  /\ rec = [s \in Slots |-> NewRecord(0, 0)]
  /\ feedbackQueue = <<>>
  /\ pending = FALSE
  /\ ue = [i \in Channels |-> FALSE]
  /\ dir = [i \in Channels |-> "NONE"]
  /\ rdr = [i \in Channels |-> <<>>]
  /\ fe = [i \in Channels |-> FALSE]
  /\ meas = "off"
  /\ sent = [i \in Channels |-> 0]
  /\ delivered = 0
  /\ touched = {}

-----------------------------------------------------------------------------
(* Helpers shared by the phase calls.                                      *)

(* Mutant: the channel loop runs to i <= CHANNEL_COUNT.                   *)
NextChannelOffByOne(again, done) ==
  IF ci = NumChannels THEN pc' = done /\ ci' = 0
                      ELSE pc' = again /\ ci' = ci + 1

(* Advance the channel loop `for (i = 0; i < CHANNEL_COUNT; ++i)`.         *)
NextChannel(again, done) ==
  IF LastChannel THEN pc' = done /\ ci' = 0
                 ELSE pc' = again /\ ci' = ci + 1

(* returnedPackets_[i] = this->alloc_new_packet(i) when it succeeds.       *)
AllocFor(i, s) ==
  /\ returnedPackets' = [returnedPackets EXCEPT ![i] = s]
  /\ rec' = [rec EXCEPT ![s] = NewRecord(i, cut)]
  /\ touched' = touched \cup {i}

(* Mutant: commit_back() without HAL_NVIC_SetPendingIRQ.                  *)
CommitWithoutPending(s) ==
  /\ feedbackQueue' = Append(feedbackQueue, s)
  /\ UNCHANGED pending

(* feedbackQueue_.commit_back() of record s and HAL_NVIC_SetPendingIRQ.    *)
Commit(s) ==
  /\ feedbackQueue' = Append(feedbackQueue, s)
  /\ pending' = TRUE

(* The empty record for channel 0 of end_cutout and no_cutout: p =         *)
(* alloc_new_packet(0); if (p) { commit_back(); SetPendingIRQ(); }.        *)
SyntheticRecord(base) ==
  \/ /\ FreeSlots = {}
     /\ delivered' = base
     /\ UNCHANGED <<rec, feedbackQueue, pending>>
  \/ \E s \in FreeSlots :
       /\ rec' = [rec EXCEPT ![s] = NewRecord(0, cut)]
       /\ Commit(s)
       /\ delivered' = base + 1

NoBytesYet == [i \in Channels |-> 0]

-----------------------------------------------------------------------------
(* The UART hardware: a byte completes on channel i, with or without a     *)
(* framing error, while the receiver is enabled and in RX direction.  It   *)
(* may complete at any point of a phase call.                              *)
ReceiveByte(i, e) ==
  /\ ue[i] /\ dir[i] = "RX"
  /\ Len(rdr[i]) < Depth
  /\ sent[i] < MaxBytes
  /\ rdr' = [rdr EXCEPT ![i] = Append(@, [cut |-> cut, err |-> e])]
  /\ fe' = [fe EXCEPT ![i] = @ \/ e]
  /\ sent' = [sent EXCEPT ![i] = @ + 1]
  /\ UNCHANGED <<window, cut, pc, ci, needCh1Cutout, data, havePackets,
                 returnedPackets, rec, feedbackQueue, pending, ue, dir, meas,
                 delivered, touched>>

-----------------------------------------------------------------------------
(* start_cutout: measurement on (active low), then for every channel:      *)
(* RX direction if need_ch1_cutout, drain RDR, clear the record handle.    *)
(* need_ch1_cutout = HW::need_ch1_cutout() || feedbackKey_ < 11000 is an   *)
(* input of the hardware policy.                                           *)
StartCutout ==
  /\ pc = "idle" /\ window = "Idle" /\ cut < MaxCutouts
  /\ \E need \in BOOLEAN : needCh1Cutout' = need
  /\ meas' = "low"
  /\ window' = "W1" /\ cut' = cut + 1
  /\ pc' = "s_dir" /\ ci' = 0
  /\ sent' = NoBytesYet /\ delivered' = 0 /\ touched' = {}
  /\ UNCHANGED <<data, havePackets, returnedPackets, rec, feedbackQueue,
                 pending, hw>>

StartSetDirection ==
  /\ pc = "s_dir"
  /\ dir' = IF needCh1Cutout THEN [dir EXCEPT ![ci] = "RX"] ELSE dir
  /\ pc' = "s_flush"
  /\ UNCHANGED <<window, cut, ci, needCh1Cutout, data, havePackets,
                 returnedPackets, rec, feedbackQueue, pending, ue, rdr, fe,
                 meas, sent, delivered, touched>>

(* while (RXNE) { data = RDR; } -- the FE flag is left as it is.           *)
StartFlushByte ==
  /\ pc = "s_flush" /\ rdr[ci] # <<>>
  /\ rdr' = [rdr EXCEPT ![ci] = Tail(@)]
  /\ UNCHANGED <<window, cut, pc, ci, needCh1Cutout, data, havePackets,
                 returnedPackets, rec, feedbackQueue, pending, ue, dir, fe,
                 meas, sent, delivered, touched>>

(* Mutant: start_cutout without the drain loop.                            *)
StartChannelDoneNoFlush ==
  /\ pc = "s_flush"
  /\ returnedPackets' = [returnedPackets EXCEPT ![ci] = NoPacket]
  /\ NextChannel("s_dir", "idle")
  /\ UNCHANGED <<window, cut, needCh1Cutout, data, havePackets, rec,
                 feedbackQueue, pending, hw, meas, sent, delivered, touched>>

StartChannelDone ==
  /\ pc = "s_flush" /\ rdr[ci] = <<>>
  /\ returnedPackets' = [returnedPackets EXCEPT ![ci] = NoPacket]
  /\ NextChannel("s_dir", "idle")
  /\ UNCHANGED <<window, cut, needCh1Cutout, data, havePackets, rec,
                 feedbackQueue, pending, hw, meas, sent, delivered, touched>>

-----------------------------------------------------------------------------
(* The drain loop shared by middle_cutout and end_cutout:                  *)
(*   while (RXNE) {                                                         *)
(*     if (!returnedPackets_[i]) returnedPackets_[i] = alloc_new_packet(i);  *)
(*     if (!returnedPackets_[i]) break;                                      *)
(*     data = RDR;                                                           *)
(*     if (FE) { ...; continue; }                                            *)
(*     returnedPackets_[i]->add_chN_data(data);                              *)
(*   }                                                                       *)
(* Reading RDR and testing FE are two steps: the UART may complete the     *)
(* next byte between them.                                                 *)

(* Mutant: `continue` instead of `break` when the pool is exhausted.       *)
DrainAllocFailedContinue(loopPc, tailPc) ==
  /\ pc = loopPc /\ rdr[ci] # <<>>
  /\ returnedPackets[ci] = NoPacket /\ FreeSlots = {}
  /\ UNCHANGED vars

(* The pool is exhausted: break out of the loop, leaving RDR as it is.     *)
DrainAllocFailed(loopPc, tailPc) ==
  /\ pc = loopPc /\ rdr[ci] # <<>>
  /\ returnedPackets[ci] = NoPacket /\ FreeSlots = {}
  /\ pc' = tailPc
  /\ UNCHANGED <<window, cut, ci, needCh1Cutout, data, havePackets,
                 returnedPackets, rec, feedbackQueue, pending, hw, meas,
                 sent, delivered, touched>>

(* Allocate if the channel has no record yet, then data = RDR.             *)
DrainRead(loopPc, checkPc) ==
  /\ pc = loopPc /\ rdr[ci] # <<>>
  /\ \/ /\ returnedPackets[ci] # NoPacket
        /\ UNCHANGED <<returnedPackets, rec, touched>>
     \/ /\ returnedPackets[ci] = NoPacket
        /\ \E s \in FreeSlots : AllocFor(ci, s)
  /\ data' = Head(rdr[ci])
  /\ rdr' = [rdr EXCEPT ![ci] = Tail(@)]
  /\ pc' = checkPc
  /\ UNCHANGED <<window, cut, ci, needCh1Cutout, havePackets, feedbackQueue,
                 pending, ue, dir, fe, meas, sent, delivered>>

(* RXNE is clear: leave the loop.                                          *)
DrainEmpty(loopPc, tailPc) ==
  /\ pc = loopPc /\ rdr[ci] = <<>>
  /\ pc' = tailPc
  /\ UNCHANGED <<window, cut, ci, needCh1Cutout, data, havePackets,
                 returnedPackets, rec, feedbackQueue, pending, hw, meas,
                 sent, delivered, touched>>

-----------------------------------------------------------------------------
(* middle_cutout: drain window-1 bytes into ch1 data, then cycle the UART  *)
(* (Disable, direction RX, Enable) for window 2.                           *)
MiddleCutout ==
  /\ pc = "idle" /\ window = "W1"
  /\ window' = "W2"
  /\ pc' = "m_loop" /\ ci' = 0
  /\ sent' = NoBytesYet
  /\ UNCHANGED <<cut, needCh1Cutout, data, havePackets, returnedPackets, rec,
                 feedbackQueue, pending, hw, meas, delivered, touched>>

(* FE set: direction NONE, clear FE, drop the byte, continue.              *)
MiddleFramingError ==
  /\ pc = "m_check" /\ fe[ci]
  /\ dir' = [dir EXCEPT ![ci] = "NONE"]
  /\ fe' = [fe EXCEPT ![ci] = FALSE]
  /\ pc' = "m_loop" /\ data' = NoByte
  /\ UNCHANGED <<window, cut, ci, needCh1Cutout, havePackets,
                 returnedPackets, rec, feedbackQueue, pending, ue, rdr, meas,
                 sent, delivered, touched>>

MiddleStoreByte ==
  /\ pc = "m_check" /\ ~fe[ci]
  /\ rec' = [rec EXCEPT ![returnedPackets[ci]].ch1 = Append(@, data)]
  /\ pc' = "m_loop" /\ data' = NoByte
  /\ UNCHANGED <<window, cut, ci, needCh1Cutout, havePackets,
                 returnedPackets, feedbackQueue, pending, hw, meas, sent,
                 delivered, touched>>

(* Disable resets RXNE and FE; the UART comes back enabled in RX.          *)
MiddleChannelDone ==
  /\ pc = "m_tail"
  /\ ue' = [ue EXCEPT ![ci] = TRUE]
  /\ dir' = [dir EXCEPT ![ci] = "RX"]
  /\ rdr' = [rdr EXCEPT ![ci] = <<>>]
  /\ fe' = [fe EXCEPT ![ci] = FALSE]
  /\ NextChannel("m_loop", "idle")
  /\ UNCHANGED <<window, cut, needCh1Cutout, data, havePackets,
                 returnedPackets, rec, feedbackQueue, pending, meas, sent,
                 delivered, touched>>

-----------------------------------------------------------------------------
(* end_cutout: measurement off, drain window-2 bytes into ch2 data, then   *)
(* per channel: direction NONE and commit its record; if no channel had a  *)
(* record, commit an empty one for channel 0.                              *)
EndCutout ==
  /\ pc = "idle" /\ window = "W2"
  /\ meas' = "off"
  /\ havePackets' = FALSE
  /\ window' = "Idle"
  /\ pc' = "e_loop" /\ ci' = 0
  /\ sent' = NoBytesYet
  /\ UNCHANGED <<cut, needCh1Cutout, data, returnedPackets, rec,
                 feedbackQueue, pending, hw, delivered, touched>>

(* FE set: clear FE, drop the byte, continue; the direction stays RX.      *)
EndFramingError ==
  /\ pc = "e_check" /\ fe[ci]
  /\ fe' = [fe EXCEPT ![ci] = FALSE]
  /\ pc' = "e_loop" /\ data' = NoByte
  /\ UNCHANGED <<window, cut, ci, needCh1Cutout, havePackets,
                 returnedPackets, rec, feedbackQueue, pending, ue, dir, rdr,
                 meas, sent, delivered, touched>>

EndStoreByte ==
  /\ pc = "e_check" /\ ~fe[ci]
  /\ rec' = [rec EXCEPT ![returnedPackets[ci]].ch2 = Append(@, data)]
  /\ pc' = "e_loop" /\ data' = NoByte
  /\ UNCHANGED <<window, cut, ci, needCh1Cutout, havePackets,
                 returnedPackets, feedbackQueue, pending, hw, meas, sent,
                 delivered, touched>>

(* Mutant: the handle is not cleared after commit_back.                    *)
EndChannelDoneKeepsHandle ==
  /\ pc = "e_tail"
  /\ dir' = [dir EXCEPT ![ci] = "NONE"]
  /\ \/ /\ returnedPackets[ci] # NoPacket
        /\ havePackets' = TRUE
        /\ Commit(returnedPackets[ci])
        /\ delivered' = delivered + 1
     \/ /\ returnedPackets[ci] = NoPacket
        /\ UNCHANGED <<havePackets, feedbackQueue, pending, delivered>>
  /\ NextChannel("e_loop", "e_final")
  /\ UNCHANGED <<window, cut, needCh1Cutout, data, rec, ue, rdr, fe, meas,
                 sent, touched, returnedPackets>>

(* Mutant: have_packets is not set when a channel commits.                *)
EndChannelDoneNoFlag ==
  /\ pc = "e_tail"
  /\ dir' = [dir EXCEPT ![ci] = "NONE"]
  /\ \/ /\ returnedPackets[ci] # NoPacket
        /\ Commit(returnedPackets[ci])
        /\ returnedPackets' = [returnedPackets EXCEPT ![ci] = NoPacket]
        /\ delivered' = delivered + 1
     \/ /\ returnedPackets[ci] = NoPacket
        /\ UNCHANGED <<feedbackQueue, pending, returnedPackets, delivered>>
  /\ NextChannel("e_loop", "e_final")
  /\ UNCHANGED <<window, cut, needCh1Cutout, data, rec, ue, rdr, fe, meas,
                 sent, touched, havePackets>>

EndChannelDone ==
  /\ pc = "e_tail"
  /\ dir' = [dir EXCEPT ![ci] = "NONE"]
  /\ \/ /\ returnedPackets[ci] # NoPacket
        /\ havePackets' = TRUE
        /\ Commit(returnedPackets[ci])
        /\ returnedPackets' = [returnedPackets EXCEPT ![ci] = NoPacket]
        /\ delivered' = delivered + 1
     \/ /\ returnedPackets[ci] = NoPacket
        /\ UNCHANGED <<havePackets, feedbackQueue, pending, returnedPackets,
                       delivered>>
  /\ NextChannel("e_loop", "e_final")
  /\ UNCHANGED <<window, cut, needCh1Cutout, data, rec, ue, rdr, fe, meas,
                 sent, touched>>

EndFinal ==
  /\ pc = "e_final"
  /\ \/ havePackets /\ UNCHANGED <<rec, feedbackQueue, pending, delivered>>
     \/ ~havePackets /\ SyntheticRecord(delivered)
  /\ pc' = "idle"
  /\ UNCHANGED <<window, cut, ci, needCh1Cutout, data, havePackets,
                 returnedPackets, hw, meas, sent, touched>>

-----------------------------------------------------------------------------
(* no_cutout: the slot has no cutout; commit one empty record.  The        *)
(* scheduler calls it instead of start_cutout or after it (spec 4.1, 5).   *)
NoCutout ==
  /\ pc = "idle" /\ window \in {"Idle", "W1"}
  /\ SyntheticRecord(0)
  /\ window' = "Idle"
  /\ sent' = NoBytesYet /\ touched' = {}
  /\ UNCHANGED <<cut, pc, ci, needCh1Cutout, data, havePackets,
                 returnedPackets, hw, meas>>

(* feedback_sample: enable_measurement(true), add_sample(HW::sample()),    *)
(* disable_measurement(); called between cutouts.  The sample goes to the  *)
(* aggregator of RailcomDriverBase, outside this model.                    *)
FeedbackSample ==
  /\ pc = "idle" /\ window = "Idle"
  /\ meas' = "off"
  /\ UNCHANGED <<window, cut, pc, ci, needCh1Cutout, data, havePackets,
                 returnedPackets, rec, feedbackQueue, pending, hw, sent,
                 delivered, touched>>

(* File-node enable(): re-init every UART, direction NONE, UE set.         *)
Enable ==
  /\ pc = "idle"
  /\ ue' = [i \in Channels |-> TRUE]
  /\ dir' = [i \in Channels |-> "NONE"]
  /\ rdr' = [i \in Channels |-> <<>>]
  /\ fe' = [i \in Channels |-> FALSE]
  /\ UNCHANGED <<window, cut, pc, ci, needCh1Cutout, data, havePackets,
                 returnedPackets, rec, feedbackQueue, pending, meas, sent,
                 delivered, touched>>

(* File-node disable(): UE cleared on every UART (flags reset).            *)
Disable ==
  /\ pc = "idle"
  /\ ue' = [i \in Channels |-> FALSE]
  /\ rdr' = [i \in Channels |-> <<>>]
  /\ fe' = [i \in Channels |-> FALSE]
  /\ UNCHANGED <<window, cut, pc, ci, needCh1Cutout, data, havePackets,
                 returnedPackets, rec, feedbackQueue, pending, dir, meas,
                 sent, delivered, touched>>

(* The OS_INTERRUPT consumer of RailcomDriverBase (outside src/, modelled  *)
(* from the spec): it runs below the timer ISR's priority, so only between *)
(* phase calls, and drains every committed record back to the pool.        *)
Consume ==
  /\ pending /\ pc = "idle"
  /\ pending' = FALSE
  /\ feedbackQueue' = <<>>
  /\ rec' = [s \in Slots |-> IF s \in QueuedSlots THEN NewRecord(0, 0)
                                                  ELSE rec[s]]
  /\ UNCHANGED <<window, cut, pc, ci, needCh1Cutout, data, havePackets,
                 returnedPackets, hw, meas, sent, delivered, touched>>

-----------------------------------------------------------------------------
(* One step of a phase call in progress (the timer ISR runs to the end).  *)
PhaseStep ==
  \/ StartSetDirection \/ StartFlushByte \/ StartChannelDone
  \/ DrainAllocFailed("m_loop", "m_tail") \/ DrainRead("m_loop", "m_check")
  \/ DrainEmpty("m_loop", "m_tail")
  \/ MiddleFramingError \/ MiddleStoreByte \/ MiddleChannelDone
  \/ DrainAllocFailed("e_loop", "e_tail") \/ DrainRead("e_loop", "e_check")
  \/ DrainEmpty("e_loop", "e_tail")
  \/ EndFramingError \/ EndStoreByte \/ EndChannelDone \/ EndFinal

(* The calls the scheduler and the application make between phase calls.  *)
Call ==
  \/ StartCutout \/ MiddleCutout \/ EndCutout \/ NoCutout
  \/ FeedbackSample \/ Enable \/ Disable

Next ==
  \/ \E i \in Channels, e \in BOOLEAN : ReceiveByte(i, e)
  \/ PhaseStep
  \/ Call
  \/ Consume

(* A phase call, once entered, runs to its end; the pending consumer       *)
(* interrupt runs whenever no phase call is active, which happens          *)
(* infinitely often, hence strong fairness.                                *)
Spec == Init /\ [][Next]_vars /\ WF_vars(PhaseStep) /\ SF_vars(Consume)

-----------------------------------------------------------------------------
(* Properties.                                                             *)

LiveSlots == OwnedSlots \cup QueuedSlots
Payload(s) == rec[s].ch1 \o rec[s].ch2
PayloadBytes(s) == {Payload(s)[k] : k \in 1 .. Len(Payload(s))}

(* (I1, I2) No record is held by two channels, a committed record is no    *)
(* longer held by any channel (returnedPackets_[i] = nullptr in the step   *)
(* of commit_back in end_cutout), and no record is committed twice.        *)
OwnershipInv ==
  /\ \A i, j \in Channels :
       i # j /\ returnedPackets[i] # NoPacket
         => returnedPackets[i] # returnedPackets[j]
  /\ OwnedSlots \cap QueuedSlots = {}
  /\ \A k1, k2 \in 1 .. Len(feedbackQueue) :
       feedbackQueue[k1] = feedbackQueue[k2] => k1 = k2

(* Flush before listen: a record only holds bytes received in the cutout   *)
(* it was allocated in; bytes left in RDR by an earlier cutout (after the  *)
(* end_cutout drain, or behind an allocation failure) are discarded by the *)
(* start_cutout drain loop.                                                *)
NoStaleBytes ==
  \A s \in LiveSlots : \A b \in PayloadBytes(s) : b.cut = rec[s].cut

(* A step that closes a slot: end_cutout returning, or no_cutout.          *)
ClosesSlot == (pc = "e_final" /\ pc' = "idle") \/ NoCutout

(* (I3) as the code has it: a slot closes with exactly one commit per      *)
(* channel that got a record in it, or, when none did, with one empty      *)
(* record unless the pool was exhausted at that moment.                    *)
DeliveriesPerCutout ==
  [][ClosesSlot =>
       delivered' = IF touched' = {}
                      THEN IF FreeSlots = {} THEN 0 ELSE 1
                      ELSE Cardinality(touched')]_vars

(* Every phase call returns: the drain loops poll what is buffered and     *)
(* never wait for the line.                                                *)
PhaseCompletes == pc # "idle" ~> pc = "idle"

(* Every committed record reaches the consumer: each commit_back is        *)
(* followed by HAL_NVIC_SetPendingIRQ.                                     *)
RecordsConsumed == feedbackQueue # <<>> ~> feedbackQueue = <<>>

-----------------------------------------------------------------------------
(* Statements of the spec that the code does not meet (violation runs).    *)

(* Spec 8 and 9: a byte received with a framing error never appears in a   *)
(* record.  middle_cutout and end_cutout read RDR and test FE separately.  *)
ErroredByteNeverStored ==
  \A s \in LiveSlots : \A b \in PayloadBytes(s) : ~b.err

(* Spec 4.1: a byte read without a framing error is appended, i.e. FE is   *)
(* never raised when the driver tests it for a clean byte.                 *)
CleanByteNeverRejected ==
  pc \in {"m_check", "e_check"} /\ ~data.err => ~fe[ci]

(* Spec (I3) and 4.1: every cutout, and every no_cutout slot, delivers at  *)
(* least one record ("ignoring failure is not acceptable").                *)
EveryCutoutDelivers == [][ClosesSlot => delivered' >= 1]_vars

(* Spec 4.1, start: stale bytes are drained before listening, so once a   *)
(* channel has been drained by start_cutout, and until middle_cutout, a    *)
(* raised FE flag belongs to a byte still waiting in RDR.                  *)
Drained(i) ==
  /\ window = "W1"
  /\ \/ pc = "idle"
     \/ pc \in {"s_dir", "s_flush"} /\ i < ci
NoOrphanFramingError ==
  \A i \in Channels :
    Drained(i) /\ fe[i] => \E k \in 1 .. Len(rdr[i]) : rdr[i][k].err

(* Spec 8, first property: end_cutout commits one record per channel that  *)
(* received at least one valid byte; so, unless it is the synthetic empty  *)
(* record, every record it commits carries a valid byte.                   *)
CommittedRecordsCarryData ==
  [][pc = "e_final" /\ pc' = "idle" /\ havePackets =>
       \A s \in QueuedSlots :
         rec[s].cut = cut => \E b \in PayloadBytes(s) : ~b.err]_vars

=============================================================================
