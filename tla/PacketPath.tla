----------------------------- MODULE PacketPath -----------------------------
(***************************************************************************)
(* The way of an IP packet from the server to the client: the session task *)
(* takes a batch from its outbound queue, batch_packets packs whole        *)
(* packets and fragments into records no larger than the capacity, the     *)
(* carrier delivers the records in order, and the client's receive hands   *)
(* whole packets on and fragments to its reassembler.  The client allows a *)
(* reassembled packet no more than the MTU it was assigned, which is less  *)
(* than a record has room for.                                             *)
(*                                                                         *)
(* A packet is its length and its place in the sequence of packets, which  *)
(* also stands for the random packet id: two packets have different ids.   *)
(*                                                                         *)
(* A reassembler also gets fragments no batch_packets has made: the client *)
(* and the server push whatever an authenticated peer sends, in any order  *)
(* and at any pace.                                                        *)
(***************************************************************************)
EXTENDS FragmentReassembler, Sequences, SequencesExt

CONSTANTS
  Capacity,      \* bytes of plaintext in a record, MAX_CIPHERTEXT_LEN - 16
  Lengths,       \* the lengths a packet may have
  BatchLimit,    \* packets the session task takes at once, 32
  MaxPackets,    \* bound: packets sent in all
  ClientLimits,  \* limits of the reassembler of an edge's client
  ServerLimits,  \* limits of the reassembler of fragment.rs
  AnyLimits      \* limits of the one any fragments are pushed to

\* A fragment needs its headers and at least one byte.  The MTU of
\* assigned_parameters is less than what goes whole into a record.
ASSUME PacketPathAssumption ==
  /\ Capacity \in Nat /\ Capacity > 14
  /\ Lengths \subseteq Nat \ {0}
  /\ BatchLimit \in Nat \ {0}
  /\ {ClientLimits, ServerLimits, AnyLimits} \subseteq Limits
  /\ ClientLimits.total + 4 <= Capacity

VARIABLES
  peer,         \* who sends: the "edge", or "any" peer
  sent,         \* history: the lengths of the packets sent so far
  wire,         \* the records in flight, each a sequence of frames
  delivered     \* history: the packets the client handed to its adapter

pathVars == <<peer, sent, wire, delivered>>

vars == <<reassemblerVars, pathVars>>

-----------------------------------------------------------------------------
(* batch_packets                                                           *)

CeilDiv(a, b) == (a + b - 1) \div b

\* A frame of type 1 carries a packet, one of type 3 a fragment; the frame
\* header is 4 bytes, the fragment header 10.
WholeFrame(id, len) == [type |-> 1, id |-> id, len |-> len, size |-> len + 4]

FragmentFrame(id, total, offset, len) ==
  [type |-> 3, id |-> id, total |-> total, offset |-> offset, len |-> len,
   data |-> id, size |-> len + 14]

\* Mutant: every packet is given the room a fragment needs.
EncodeCutsEarly(id, len) ==
  LET chunk == Capacity - 14
  IN  IF len + 14 <= Capacity
      THEN <<WholeFrame(id, len)>>
      ELSE [i \in 1 .. CeilDiv(len, chunk) |->
              LET offset == (i - 1) * chunk
              IN  FragmentFrame(id, len, offset,
                                IF len - offset < chunk THEN len - offset
                                                        ELSE chunk)]

\* Mutant: every chunk is a full one.
EncodeFullChunks(id, len) ==
  LET chunk == Capacity - 14
  IN  IF len + 4 <= Capacity
      THEN <<WholeFrame(id, len)>>
      ELSE [i \in 1 .. len \div chunk |->
              FragmentFrame(id, len, (i - 1) * chunk, chunk)]

\* encode_packet: a packet that fits goes whole, else in chunks.
EncodePacket(id, len) ==
  LET chunk == Capacity - 14
  IN  IF len + 4 <= Capacity
      THEN <<WholeFrame(id, len)>>
      ELSE [i \in 1 .. CeilDiv(len, chunk) |->
              LET offset == (i - 1) * chunk
              IN  FragmentFrame(id, len, offset,
                                IF len - offset < chunk THEN len - offset
                                                        ELSE chunk)]

Size(frames) == FoldLeft(LAMBDA n, frame : n + frame.size, 0, frames)

\* Mutant: the header of the next frame is not counted.
StartsRecordLate(record, frame) ==
  record # <<>> /\ Size(record) + frame.len > Capacity

StartsRecord(record, frame) ==
  record # <<>> /\ Size(record) + frame.size > Capacity

\* Mutant: a frame fills up the first record it fits in.
BatchFirstFit(frames) ==
  FoldLeft(LAMBDA records, frame :
             LET room == {i \in DOMAIN records :
                            ~StartsRecord(records[i], frame)}
             IN  IF room # {}
                 THEN [records EXCEPT ![Min(room)] = Append(@, frame)]
                 ELSE Append(records, <<frame>>),
           <<>>, frames)

\* The frames go into the last record as long as they fit.
BatchFrames(frames) ==
  FoldLeft(LAMBDA records, frame :
             IF records # <<>> /\ ~StartsRecord(Last(records), frame)
             THEN Append(Front(records), Append(Last(records), frame))
             ELSE Append(records, <<frame>>),
           <<>>, frames)

\* The frames of packets first, first + 1, ... of the given lengths.
Frames(first, lengths) ==
  FlattenSeq([i \in DOMAIN lengths |->
                EncodePacket(first + i - 1, lengths[i])])

-----------------------------------------------------------------------------

Init ==
  /\ \/ peer = "edge" /\ InitReassembler(TRUE, ClientLimits)
     \/ peer = "any" /\ \E evicts \in BOOLEAN : InitReassembler(evicts, AnyLimits)
  /\ sent = <<>>
  /\ wire = <<>>
  /\ delivered = <<>>

\* The outbound branch of run_established_session.
SendOutboundPackets(lengths) ==
  /\ peer = "edge"
  /\ Len(sent) + Len(lengths) <= MaxPackets
  /\ wire' = wire \o BatchFrames(Frames(Len(sent) + 1, lengths))
  /\ sent' = sent \o lengths
  /\ UNCHANGED <<reassemblerVars, peer, delivered>>

\* What receive does with one frame of a record; an exception skips the rest.
ReceiveFrame(state, frame) ==
  IF state.error # "none" THEN state
  ELSE IF frame.type = 1
  THEN [state EXCEPT !.packets = Append(@, [id |-> frame.id, total |-> frame.len])]
  ELSE LET result == CHOOSE p \in Push(state.reassembler, frame) : TRUE
       IN  [reassembler |-> result.state,
            output      |-> state.output \cup result.out,
            packets     |-> state.packets
                            \o SetToSeq({[id |-> p.id, total |-> p.total] : p \in result.out}),
            error       |-> result.error]

ReceiveFrames(r, frames) ==
  FoldLeft(ReceiveFrame,
           [reassembler |-> r, output |-> {}, packets |-> <<>>, error |-> "none"], frames)

\* receive: all the frames of the next record.  Its packets are handed on
\* together, and none of them if a fragment is refused.
Receive ==
  /\ wire # <<>>
  /\ error = "none"
  /\ LET after == ReceiveFrames(reassembler, Head(wire))
     IN  /\ reassembler' = after.reassembler
         /\ output' = after.output
         /\ error' = after.error
         /\ delivered' = IF after.error # "none" THEN delivered
                         ELSE delivered \o [i \in DOMAIN after.packets |->
                                              after.packets[i].id]
  /\ wire' = Tail(wire)
  /\ UNCHANGED <<peer, sent>>

\* The peer need not be an edge.
ReceiveFragment(f) ==
  /\ peer = "any"
  /\ PushFragment(f)
  /\ UNCHANGED pathVars

\* The carrier takes its time.
Tick ==
  /\ Ages
  /\ UNCHANGED pathVars

Next ==
  \/ \E lengths \in BoundedSeq(Lengths, BatchLimit) \ {<<>>} :
       SendOutboundPackets(lengths)
  \/ Receive
  \/ \E f \in Fragments : ReceiveFragment(f)
  \/ Tick

Spec == Init /\ [][Next]_vars

-----------------------------------------------------------------------------
(* Properties                                                              *)

\* Every record fits, none is empty, and a new one was begun only because the
\* next frame did not fit any more (batch_packets).
RecordsFit ==
  [][wire' # wire /\ sent' # sent =>
       LET new == SubSeq(wire', Len(wire) + 1, Len(wire'))
       IN  /\ \A i \in DOMAIN new : Size(new[i]) \in 1 .. Capacity
           /\ \A i \in 2 .. Len(new) :
                Size(new[i - 1]) + Head(new[i]).size > Capacity]_vars

\* What batch_packets cuts up, a reassembler without the client's limit puts
\* together again: the frames of a batch, in the order of the records, give back
\* every packet once, in order and with all its bytes, and leave nothing over
\* (encode_packet, batch_packets, push).
CutsAreWhole ==
  [][sent' # sent =>
       LET new   == FlattenSeq(SubSeq(wire', Len(wire) + 1, Len(wire')))
           after == ReceiveFrames(NewReassembler(FALSE, ServerLimits), new)
       IN  /\ after.error = "none"
           /\ after.packets = [i \in 1 .. Len(sent') - Len(sent) |->
                                [id |-> Len(sent) + i, total |-> sent'[Len(sent) + i]]]
           /\ after.reassembler.assemblies = <<>>]_vars

\* What the client hands on is what was sent, from the first packet on: none is
\* missing in between, none comes twice and none before an earlier one, even if
\* the session ends in the middle of a record (batch_packets, receive).
DeliveredInOrder ==
  /\ Len(delivered) <= Len(sent)
  /\ delivered = [i \in DOMAIN delivered |-> i]

\* Every packet arrives as long as the session lasts, and an edge's packets end
\* it only if one of them is too large for a record: the client refuses the
\* first fragment of it, though not a whole packet above its MTU
\* (encode_packet, push, receive).
NothingIsLost ==
  peer = "edge" =>
    /\ error = "none" /\ wire = <<>> => Len(delivered) = Len(sent)
    /\ error # "none" =>
         \E i \in DOMAIN sent :
           /\ sent[i] + 4 > Capacity
           /\ Len(delivered) < i
           /\ \A j \in 1 .. i - 1 : sent[j] + 4 <= Capacity
=============================================================================
