--------------------------- MODULE BitRangeEventPC ---------------------------
(***************************************************************************)
(* BitRangeEventPC (EventHandlerTemplates.cxx): Size bits, each produced   *)
(* and consumed as two events, base + 2 * bit (on) and base + 2 * bit + 1  *)
(* (off).  Set reports a change as an event on the bus and leaves the bit  *)
(* alone; the bit changes when the report comes back through the node's   *)
(* event dispatch, as every report of another node does.                   *)
(*                                                                         *)
(* The bus is one FIFO of the messages the node's dispatcher will hand to  *)
(* the handler: its own reports (looped back) and the reports and         *)
(* identify requests of other nodes.  The replies of the node are kept as *)
(* the last one sent.  The word/mask addressing of GetBitAndMask is       *)
(* abstracted to a function from bit to value.                            *)
(***************************************************************************)
EXTENDS Naturals, Sequences

CONSTANTS
  Size,            \* size_: number of bits
  Base,            \* event_base_
  EventWidth,      \* bits of an event ID (64 in the code)
  SizeWidth,       \* bits of unsigned (32 in the code)
  ForeignEvents,   \* events other nodes report or ask about
  MaxSets,         \* Set calls in a behaviour
  MaxForeign,      \* messages of other nodes in a behaviour
  MaxBus           \* messages waiting for dispatch

ASSUME BitRangeConstants ==
  /\ Size \in Nat \ {0} /\ EventWidth \in Nat \ {0} /\ SizeWidth \in Nat \ {0}
  /\ Base \in 0 .. 2 ^ EventWidth - 1
  /\ ForeignEvents \subseteq 0 .. 2 ^ EventWidth - 1
  /\ MaxSets \in Nat /\ MaxForeign \in Nat /\ MaxBus \in Nat

M == 2 ^ EventWidth
Events == 0 .. M - 1
Bits == 0 .. Size - 1

ER == INSTANCE EventRange
        WITH eventBase <- Base, bitCount <- Size, MaxSize <- Size

Requests == {"report", "identifyProducer", "identifyConsumer", "identifyGlobal"}
Msg == [kind : Requests, event : Events]
Replies == {"producerValid", "producerInvalid", "consumerValid",
            "consumerInvalid", "producerRange", "consumerRange"}

(* The event protocol's meaning of an event for this block: the bit and    *)
(* value it reports, if any.                                               *)
Meaning(e) ==
  {bv \in Bits \X BOOLEAN : e = Base + 2 * bv[1] + (IF bv[2] THEN 0 ELSE 1)}

VARIABLES
  data,       \* the backing store, bit by bit
  bus,        \* messages waiting for the handler, in dispatch order
  reply,      \* the last reply the node wrote
  published,  \* history: the value of each bit last reported on the bus, as
              \* the caller of Set meant it or as another node's event means it
  sets,       \* Set calls so far
  foreign     \* messages of other nodes so far

vars == <<data, bus, reply, published, sets, foreign>>

NoReply == [kind |-> "none", event |-> 0]

TypeOK ==
  /\ data \in [Bits -> BOOLEAN]
  /\ bus \in Seq(Msg) /\ Len(bus) <= MaxBus
  /\ reply \in [kind : Replies, event : Events] \cup {NoReply}
  /\ published \in [Bits -> BOOLEAN]
  /\ sets \in 0 .. MaxSets /\ foreign \in 0 .. MaxForeign

(* The application hands over a backing store with any contents; nothing  *)
(* is pending.                                                             *)
Init ==
  /\ data \in [Bits -> BOOLEAN]
  /\ bus = <<>>
  /\ reply = NoReply
  /\ published = data
  /\ sets = 0 /\ foreign = 0

(* Record an event report put on the bus in the history.                   *)
Publish(e, h) ==
  IF Meaning(e) = {} THEN h
  ELSE LET bv == CHOOSE bv \in Meaning(e) : TRUE IN [h EXCEPT ![bv[1]] = bv[2]]

-----------------------------------------------------------------------------
(* GetBitAndMask: a bit of the store, or nullptr outside it.              *)
GetBitAndMask(bit) == bit < Size

(* Set(bit, new_value): compare with the stored bit; on a difference      *)
(* write the event report (event_base_ + bit * 2, plus one for off), else *)
(* notify done at once.                                                    *)
Set(bit, newValue) ==
  /\ sets < MaxSets
  /\ sets' = sets + 1
  /\ LET event == (Base + ((bit * 2) % 2 ^ SizeWidth)) % M
         sent == IF newValue THEN event ELSE (event + 1) % M
     IN IF GetBitAndMask(bit) /\ data[bit] # newValue
          THEN /\ Len(bus) < MaxBus
               /\ bus' = Append(bus, [kind |-> "report", event |-> sent])
               /\ published' = [published EXCEPT ![bit] = newValue]
          ELSE UNCHANGED <<bus, published>>
  /\ UNCHANGED <<data, reply, foreign>>

(* Mutant: the low bit of the offset is read as the new value.             *)
HandleEventReportInverted(event) ==
  IF event < Base THEN UNCHANGED data
  ELSE LET d == (event - Base) % M
       IN IF d \div 2 >= Size THEN UNCHANGED data
          ELSE data' = [data EXCEPT ![d \div 2] = (d % 2 = 1)]

(* HandleEventReport: ignore events below the base or past the block,     *)
(* else set the bit for an even offset and clear it for an odd one.        *)
HandleEventReport(event) ==
  IF event < Base THEN UNCHANGED data
  ELSE LET d == (event - Base) % M
       IN IF d \div 2 >= Size THEN UNCHANGED data
          ELSE data' = [data EXCEPT ![d \div 2] = (d % 2 = 0)]

(* HandleIdentifyBase: for an event of the block, reply with the valid    *)
(* MTI if the bit holds the event's value, else with the invalid one.      *)
HandleIdentifyBase(valid, invalid, event) ==
  IF event < Base THEN UNCHANGED reply
  ELSE LET d == (event - Base) % M
       IN IF d \div 2 >= Size THEN UNCHANGED reply
          ELSE reply' = [kind |-> IF data[d \div 2] = (d % 2 = 0)
                                    THEN valid ELSE invalid,
                         event |-> event]

(* HandleIdentifyGlobal: the producer and the consumer range replies for  *)
(* EncodeRange(event_base_, size_), written by two helpers under a        *)
(* barrier; the model keeps the second.  When EncodeRange does not return *)
(* the handler never finishes and the dispatcher is stuck on the request. *)
HandleIdentifyGlobal ==
  /\ ER!EncodeRange(Base, Size) # ER!Hang
  /\ reply' = [kind |-> "consumerRange", event |-> ER!EncodeRange(Base, Size)]

(* The dispatcher hands the first message of the bus to the handler.      *)
Dispatch ==
  /\ bus # <<>>
  /\ bus' = Tail(bus)
  /\ LET m == Head(bus) IN
       CASE m.kind = "report" ->
              HandleEventReport(m.event) /\ UNCHANGED reply
         [] m.kind = "identifyProducer" ->
              HandleIdentifyBase("producerValid", "producerInvalid", m.event)
              /\ UNCHANGED data
         [] m.kind = "identifyConsumer" ->
              HandleIdentifyBase("consumerValid", "consumerInvalid", m.event)
              /\ UNCHANGED data
         [] m.kind = "identifyGlobal" ->
              HandleIdentifyGlobal /\ UNCHANGED data
  /\ UNCHANGED <<published, sets, foreign>>

(* Another node writes an event report or an identify request.             *)
Foreign(kind, e) ==
  /\ foreign < MaxForeign /\ Len(bus) < MaxBus
  /\ foreign' = foreign + 1
  /\ bus' = Append(bus, [kind |-> kind, event |-> e])
  /\ published' = IF kind = "report" THEN Publish(e, published) ELSE published
  /\ UNCHANGED <<data, reply, sets>>

Next ==
  \/ \E b \in Bits, v \in BOOLEAN : Set(b, v)
  \/ Dispatch
  \/ \E k \in Requests, e \in ForeignEvents : Foreign(k, e)

Spec == Init /\ [][Next]_vars

(* The block's events lie in the event space and Set's unsigned bit * 2   *)
(* does not overflow: the configurations for which Set's report means     *)
(* the bit and value it was called with.                                   *)
BlockFits == 2 * (Size - 1) < 2 ^ SizeWidth /\ Base + 2 * Size <= M

-----------------------------------------------------------------------------
(* A bit with no report for it waiting on the bus.                         *)
Settled(b) ==
  \A i \in 1 .. Len(bus) :
    bus[i].kind = "report" => \A bv \in Meaning(bus[i].event) : bv[1] # b

(* Once the reports of a bit have all been dispatched, the node holds the  *)
(* value last reported for it on the bus: the value passed to the last    *)
(* Set that wrote a report, or the one another node's event means.  Set's *)
(* encoding, the loop-back through the dispatcher and HandleEventReport's *)
(* decoding together must bring the caller's value back to the same bit, *)
(* and events outside the block must leave the store alone.               *)
SettledHoldsPublished == \A b \in Bits : Settled(b) => data[b] = published[b]

=============================================================================
