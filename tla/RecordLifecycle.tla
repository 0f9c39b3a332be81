--------------------------- MODULE RecordLifecycle ---------------------------
(***************************************************************************)
(* What the RailCom decoder promises the packet pool and the delivery      *)
(* queue (spec 3, Feedback Record): a record is allocated for a channel   *)
(* that holds none, is written only through the two append operations     *)
(* while the channel owns it, passes to the delivery queue at commit (the  *)
(* handle cleared in the same step), is never written again once           *)
(* committed, and is reclaimed by the consumer.  A window with no record  *)
(* commits one empty record for channel 0.                                 *)
(*                                                                         *)
(* Program points, hardware, cutout numbers and the pending-work signal   *)
(* are not part of this view.                                              *)
(***************************************************************************)
EXTENDS Naturals, Sequences

CONSTANTS
  Chan,      \* channel indices
  Slots,     \* the records of the pool
  NoPacket,  \* the empty handle
  Bytes      \* what an append stores

VARIABLES
  owner,     \* per channel: the record it holds, or NoPacket
  queue,     \* committed records, oldest first
  records    \* contents of every record of the pool

lvars == <<owner, queue, records>>

Contents == [key : Chan, w1 : Seq(Bytes), w2 : Seq(Bytes)]
Blank(i) == [key |-> i, w1 |-> <<>>, w2 |-> <<>>]

Owned == {owner[i] : i \in Chan} \ {NoPacket}
Queued == {queue[k] : k \in 1 .. Len(queue)}
Free == Slots \ (Owned \cup Queued)

Init ==
  /\ owner = [i \in Chan |-> NoPacket]
  /\ queue = <<>>
  /\ records \in [Slots -> Contents]

(* alloc(channel_key): a free record becomes channel i's, blank.          *)
Alloc(i, s) ==
  /\ owner[i] = NoPacket /\ s \in Free
  /\ owner' = [owner EXCEPT ![i] = s]
  /\ records' = [records EXCEPT ![s] = Blank(i)]
  /\ UNCHANGED queue

(* append_window1 / append_window2 to the record channel i owns.           *)
Append1(i, b) ==
  /\ owner[i] # NoPacket
  /\ records' = [records EXCEPT ![owner[i]].w1 = Append(@, b)]
  /\ UNCHANGED <<owner, queue>>

Append2(i, b) ==
  /\ owner[i] # NoPacket
  /\ records' = [records EXCEPT ![owner[i]].w2 = Append(@, b)]
  /\ UNCHANGED <<owner, queue>>

(* commit: channel i's record goes to the queue and its handle is cleared. *)
Commit(i) ==
  /\ owner[i] # NoPacket
  /\ queue' = Append(queue, owner[i])
  /\ owner' = [owner EXCEPT ![i] = NoPacket]
  /\ UNCHANGED records

(* The synthetic delivery: a free record, blank for channel 0, committed. *)
CommitEmpty(s) ==
  /\ s \in Free
  /\ records' = [records EXCEPT ![s] = Blank(0)]
  /\ queue' = Append(queue, s)
  /\ UNCHANGED owner

(* The consumer drains the queue; what it leaves in a reclaimed record is *)
(* its own business, every other record is untouched.                     *)
Reclaim ==
  /\ queue' = <<>>
  /\ records' \in [Slots -> Contents]
  /\ \A s \in Slots \ Queued : records'[s] = records[s]
  /\ UNCHANGED owner

Next ==
  \/ \E i \in Chan, s \in Slots : Alloc(i, s)
  \/ \E i \in Chan, b \in Bytes : Append1(i, b) \/ Append2(i, b)
  \/ \E i \in Chan : Commit(i)
  \/ \E s \in Slots : CommitEmpty(s)
  \/ Reclaim

Spec == Init /\ [][Next]_lvars

=============================================================================
