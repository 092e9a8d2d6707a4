--------------------------- MODULE CarrierFraming ---------------------------
(***************************************************************************)
(* Messages over byte streams.  An HTTP/2 and an HTTP/3 carrier put a      *)
(* four-byte length before each message and send it over a stream that     *)
(* delivers the bytes in chunks of any size.                               *)
(*                                                                         *)
(*   H2:  client --upload--> server --queue--> batch task --download-->    *)
(*        client                                                           *)
(*   H3:  client --stdin--> bridge --upload--> server --download-->        *)
(*        bridge --stdout--> client                                        *)
(*                                                                         *)
(* The bridge and the server's session task wait for several things at     *)
(* once with tokio::select!: when one branch completes the others are      *)
(* dropped in the middle of what they wait for.  Neither end sends         *)
(* datagrams.  A WebSocket keeps message boundaries itself.                *)
(***************************************************************************)
EXTENDS Integers, Sequences, FiniteSetsExt

CONSTANTS
  HEADER,          \* bytes of the length prefix
  Lengths,         \* lengths a message may have
  CHUNK,           \* the most one read returns
  H2_BATCH_BYTES,  \* a batch that has this many bytes is sent at once
  OUTPUT_CAPACITY, \* of the bridge's BufWriter
  MaxMessages      \* bound: messages sent in both directions

ASSUME FramingAssumption ==
  /\ HEADER \in Nat \ {0} /\ CHUNK \in Nat \ {0}
  /\ Lengths \subseteq Nat \ {0}
  /\ OUTPUT_CAPACITY \in Nat \ {0} /\ MaxMessages \in Nat

Dirs == {"up", "down"}

VARIABLES
  kind,      \* "h2" or "h3"
  sent,      \* history: the messages handed to send, by direction
  received,  \* history: the messages recv returned, by direction
  chan,      \* each byte channel: what is in flight and whether it is over
  buf,       \* each buffer a reader or writer keeps
  dirty,     \* the bridge's output_dirty
  status     \* of client, bridge and server

vars == <<kind, sent, received, chan, buf, dirty, status>>

Messages == [id : 1 .. MaxMessages, len : Lengths]

\* The gate token, the first message on an H3 stream.
Token == [id |-> 0, len |-> 1]

Init ==
  /\ kind \in {"h2", "h3"}
  /\ sent = [d \in Dirs |-> <<>>]
  /\ received = [d \in Dirs |-> <<>>]
  /\ chan = [c \in {"upload", "download", "queue", "stdin", "stdout"} |->
               [data |-> <<>>, over |-> "no"]]
  /\ buf = [b \in {"server", "client", "batch", "local", "bridge", "output"} |->
              <<>>]
  /\ dirty = FALSE
  /\ status = IF kind = "h2"
              THEN [client |-> "up", bridge |-> "none", server |-> "up"]
              ELSE [client |-> "up", bridge |-> "connecting", server |-> "none"]

-----------------------------------------------------------------------------
(* Channels and frames                                                     *)

Put(ch, bytes) ==
  IF ch.over = "no" THEN [ch EXCEPT !.data = @ \o bytes] ELSE ch

\* A channel ends after its last byte, or breaks and loses what is in flight.
Over(ch, how) ==
  IF ch.over # "no" THEN ch
  ELSE [data |-> IF how = "error" THEN <<>> ELSE ch.data, over |-> how]

AtEnd(ch) == ch.over # "no" /\ ch.data = <<>>

\* A byte is known by its message and its place; the prefix tells the length.
Frame(m) == [i \in 1 .. HEADER + m.len |-> [msg |-> m, at |-> i]]

\* 0 stands for what a prefix read at a wrong place says.
FrameSize(bytes) ==
  IF \A i \in 1 .. HEADER : bytes[i] = [msg |-> bytes[1].msg, at |-> i]
  THEN HEADER + bytes[1].msg.len ELSE 0

Garbled(bytes) == Len(bytes) >= HEADER /\ FrameSize(bytes) = 0

\* take_carrier_message, take_local_message: a whole message is buffered.
HasMessage(bytes) ==
  /\ Len(bytes) >= HEADER
  /\ FrameSize(bytes) > 0
  /\ Len(bytes) >= FrameSize(bytes)

Rest(bytes) == SubSeq(bytes, FrameSize(bytes) + 1, Len(bytes))

FirstMessage(bytes) == bytes[1].msg

\* Mutant: the buffer belongs to the future that is dropped.
DroppedBuffer(bytes) == <<>>

\* What is left of a buffer when the read that fills it is cancelled: buffers
\* live in the carrier and in the bridge's main, not in the future.
Cancelled(bytes) == bytes

\* The reader of buffer b gets the next chunk of channel c.
ReadChunk(b, c) ==
  /\ ~HasMessage(buf[b]) /\ ~Garbled(buf[b])
  /\ \E n \in 1 .. Min({CHUNK, Len(chan[c].data)}) :
       /\ buf' = [buf EXCEPT ![b] = @ \o SubSeq(chan[c].data, 1, n)]
       /\ chan' = [chan EXCEPT ![c].data = SubSeq(@, n + 1, Len(@))]
  /\ UNCHANGED <<kind, sent, received, dirty, status>>

\* The reader waits for a chunk that will not come.
Starved(b, c) ==
  Garbled(buf[b]) \/ (~HasMessage(buf[b]) /\ AtEnd(chan[c]))

-----------------------------------------------------------------------------
(* The client (probe.py: H2Carrier, H3ProcessCarrier)                      *)

ClientOut == IF kind = "h2" THEN "upload" ELSE "stdin"

ClientIn == IF kind = "h2" THEN "download" ELSE "stdout"

ClientSends(len) ==
  /\ status.client = "up"
  /\ chan[ClientOut].over = "no"
  /\ Len(sent["up"]) + Len(sent["down"]) < MaxMessages
  /\ LET m == [id |-> Len(sent["up"]) + 1, len |-> len]
     IN  /\ sent' = [sent EXCEPT !["up"] = Append(@, m)]
         /\ chan' = [chan EXCEPT ![ClientOut] = Put(@, Frame(m))]
  /\ UNCHANGED <<kind, received, buf, dirty, status>>

ClientReads ==
  /\ status.client = "up"
  /\ ReadChunk("client", ClientIn)

ClientReceives ==
  /\ status.client = "up"
  /\ HasMessage(buf["client"])
  /\ received' = [received EXCEPT !["down"] =
                    Append(@, FirstMessage(buf["client"]))]
  /\ buf' = [buf EXCEPT !["client"] = Rest(@)]
  /\ UNCHANGED <<kind, sent, chan, dirty, status>>

\* The client's end of the carrier: the sockets or the bridge's stdin close.
\* An HTTP/2 connection closed with data unread may take its last bytes along.
ClientCloses(why) ==
  /\ status.client = "up"
  /\ status' = [status EXCEPT !.client = why]
  /\ \E how \in {"end", "error"} :
       /\ kind = "h3" => how = "end"
       /\ chan' = [chan EXCEPT ![ClientOut] = Over(@, how)]
  /\ UNCHANGED <<kind, sent, received, buf, dirty>>

ClientSeesEnd ==
  /\ Starved("client", ClientIn)
  /\ ClientCloses(IF kind = "h2" /\ chan["download"].over = "end"
                  THEN "closed" ELSE "failed")

ClientLeaves == ClientCloses("left")

-----------------------------------------------------------------------------
(* The server (main.rs: Carrier, batch_h2_output; h3_edge.rs: Session)     *)

ServerOut == IF kind = "h2" THEN "queue" ELSE "download"

\* The outbound branch wins: what recv had gathered stays in the carrier.
ServerSends(len) ==
  /\ status.server = "up"
  /\ chan[ServerOut].over = "no"
  /\ Len(sent["up"]) + Len(sent["down"]) < MaxMessages
  /\ LET m == [id |-> Len(sent["down"]) + 1, len |-> len]
     IN  /\ sent' = [sent EXCEPT !["down"] = Append(@, m)]
         /\ chan' = [chan EXCEPT ![ServerOut] = Put(@, Frame(m))]
  /\ buf' = [buf EXCEPT !["server"] = Cancelled(@)]
  /\ UNCHANGED <<kind, received, dirty, status>>

ServerReads ==
  /\ status.server \in {"gate", "up"}
  /\ ReadChunk("server", "upload")

ServerReceives ==
  /\ status.server = "up"
  /\ HasMessage(buf["server"])
  /\ received' = [received EXCEPT !["up"] = Append(@, FirstMessage(buf["server"]))]
  /\ buf' = [buf EXCEPT !["server"] = Rest(@)]
  /\ UNCHANGED <<kind, sent, chan, dirty, status>>

\* handle_h3_session: the first message is the gate token.
ServerAdmits ==
  /\ status.server = "gate"
  /\ HasMessage(buf["server"])
  /\ status' = [status EXCEPT !.server = "up"]
  /\ buf' = [buf EXCEPT !["server"] = Rest(@)]
  /\ UNCHANGED <<kind, sent, received, chan, dirty>>

\* Carrier::close and drop.  H2: the queue ends and the batch task sends the
\* rest.  H3: the stream is shut down and the connection closed at once.
ServerCloses(why) ==
  /\ status.server \in {"gate", "up"}
  /\ status' = [status EXCEPT !.server = why]
  /\ \E how \in {"end", "error"} :
       /\ kind = "h2" => how = "end"
       /\ chan' = [chan EXCEPT ![ServerOut] = Over(@, how)]
  /\ UNCHANGED <<kind, sent, received, buf, dirty>>

\* CarrierEvent::Close, or an error for a truncated message or a broken stream.
ServerSeesEnd ==
  /\ Starved("server", "upload")
  /\ ServerCloses(IF chan["upload"].over = "end" /\ buf["server"] = <<>>
                  THEN "closed" ELSE "failed")

\* The session is over, the gate refuses the token or waits in vain for it.
ServerLeaves == ServerCloses("left")

\* batch_h2_output: until the batch is large enough or its time has come.
BatchTakes ==
  /\ HasMessage(chan["queue"].data)
  /\ Len(buf["batch"]) < H2_BATCH_BYTES
  /\ LET m == FirstMessage(chan["queue"].data)
     IN  buf' = [buf EXCEPT !["batch"] = @ \o Frame(m)]
  /\ chan' = [chan EXCEPT !["queue"].data = Rest(@)]
  /\ UNCHANGED <<kind, sent, received, dirty, status>>

BatchSends ==
  /\ buf["batch"] # <<>>
  /\ chan' = [chan EXCEPT !["download"] = Put(@, buf["batch"])]
  /\ buf' = [buf EXCEPT !["batch"] = <<>>]
  /\ UNCHANGED <<kind, sent, received, dirty, status>>

BatchEnds ==
  /\ kind = "h2"
  /\ AtEnd(chan["queue"])
  /\ buf["batch"] = <<>>
  /\ chan["download"].over = "no"
  /\ chan' = [chan EXCEPT !["download"] = Over(@, "end")]
  /\ UNCHANGED <<kind, sent, received, buf, dirty, status>>

-----------------------------------------------------------------------------
(* The bridge (h3_bridge.rs: main)                                         *)

\* The stream is opened and the token sent over it.
BridgeConnects ==
  /\ status.bridge = "connecting"
  /\ status' = [status EXCEPT !.bridge = "up", !.server = "gate"]
  /\ chan' = [chan EXCEPT !["upload"] = Put(@, Frame(Token))]
  /\ UNCHANGED <<kind, sent, received, buf, dirty>>

BridgeReadsLocal ==
  /\ status.bridge = "up"
  /\ ReadChunk("local", "stdin")

\* The local branch wins, and the read of the stream is dropped.
BridgeForwards ==
  /\ status.bridge = "up"
  /\ HasMessage(buf["local"])
  /\ chan' = [chan EXCEPT !["upload"] = Put(@, Frame(FirstMessage(buf["local"])))]
  /\ buf' = [buf EXCEPT !["local"] = Rest(@), !["bridge"] = Cancelled(@)]
  /\ UNCHANGED <<kind, sent, received, dirty, status>>

BridgeReadsStream ==
  /\ status.bridge = "up"
  /\ ReadChunk("bridge", "download")

\* BufWriter: what does not fit pushes out what is buffered.
Written(w, bytes) ==
  LET full == Len(w.held) + Len(bytes) > OUTPUT_CAPACITY
  IN  IF full /\ Len(bytes) >= OUTPUT_CAPACITY
      THEN [gone |-> w.gone \o w.held \o bytes, held |-> <<>>]
      ELSE IF full
      THEN [gone |-> w.gone \o w.held, held |-> bytes]
      ELSE [w EXCEPT !.held = @ \o bytes]

\* Mutant: a message that was buffered needs no flush.
MarkedClean(d) == d

\* output_dirty = true.
MarkedDirty(d) == TRUE

\* write_local_message: the prefix and the payload are written one by one.
BridgeDelivers ==
  /\ status.bridge = "up"
  /\ HasMessage(buf["bridge"])
  /\ LET frame == Frame(FirstMessage(buf["bridge"]))
         w == Written(Written([gone |-> <<>>, held |-> buf["output"]],
                              SubSeq(frame, 1, HEADER)),
                      SubSeq(frame, HEADER + 1, Len(frame)))
     IN  /\ chan' = [chan EXCEPT !["stdout"] = Put(@, w.gone)]
         /\ buf' = [buf EXCEPT !["output"] = w.held, !["bridge"] = Rest(@),
                               !["local"] = Cancelled(@)]
  /\ dirty' = MarkedDirty(dirty)
  /\ UNCHANGED <<kind, sent, received, status>>

\* The tick wins, and both reads are dropped.
BridgeFlushes ==
  /\ status.bridge = "up"
  /\ dirty
  /\ chan' = [chan EXCEPT !["stdout"] = Put(@, buf["output"])]
  /\ buf' = [buf EXCEPT !["output"] = <<>>, !["bridge"] = Cancelled(@),
                        !["local"] = Cancelled(@)]
  /\ dirty' = FALSE
  /\ UNCHANGED <<kind, sent, received, status>>

\* The process is gone: its pipes end, and the connection with it.
BridgeGone(flushed, how) ==
  /\ chan' = [chan EXCEPT
       !["stdout"] = Over(Put(@, flushed), "end"),
       !["stdin"]  = Over(@, "error"),
       !["upload"] = Over(@, how),
       !["download"] = Over(@, "error")]
  /\ status' = [status EXCEPT !.bridge = "gone"]
  /\ UNCHANGED <<kind, sent, received, buf, dirty>>

\* The client or the server is done, or the connection is lost: break, flush
\* and finish the stream, which may still be reset when the process exits.
BridgeBreaks ==
  /\ status.bridge = "up"
  /\ \/ Starved("local", "stdin") /\ buf["local"] = <<>>
     \/ Starved("bridge", "download")
     \/ chan["download"].over = "error"
  /\ \E how \in {"end", "error"} :
       BridgeGone(IF dirty THEN buf["output"] ELSE <<>>, how)

\* A truncated local message, or a stream that takes no more: main returns the
\* error and nothing is flushed.
BridgeFails ==
  /\ status.bridge = "up"
  /\ \/ Starved("local", "stdin") /\ buf["local"] # <<>>
     \/ HasMessage(buf["local"]) /\ status.server \notin {"gate", "up"}
  /\ BridgeGone(<<>>, "error")

\* The bridge cannot connect, or is killed.
BridgeDies ==
  /\ status.bridge \in {"connecting", "up"}
  /\ BridgeGone(<<>>, "error")

-----------------------------------------------------------------------------

\* The connection is lost with everything in flight.
NetworkFails ==
  /\ kind = "h2" \/ status.bridge = "up"
  /\ chan' = [chan EXCEPT !["upload"] = Over(@, "error"),
                          !["download"] = Over(@, "error")]
  /\ chan' # chan
  /\ UNCHANGED <<kind, sent, received, buf, dirty, status>>

Next ==
  \/ \E len \in Lengths : ClientSends(len) \/ ServerSends(len)
  \/ ClientReads \/ ClientReceives \/ ClientSeesEnd \/ ClientLeaves
  \/ ServerReads \/ ServerReceives \/ ServerAdmits \/ ServerSeesEnd
  \/ ServerLeaves
  \/ BatchTakes \/ BatchSends \/ BatchEnds
  \/ BridgeConnects \/ BridgeReadsLocal \/ BridgeForwards
  \/ BridgeReadsStream \/ BridgeDelivers \/ BridgeFlushes \/ BridgeBreaks
  \/ BridgeFails \/ BridgeDies
  \/ NetworkFails

Spec == Init /\ [][Next]_vars

\* Every task and process runs, the batch's and the flush's time comes, and
\* select! starves none of its branches; nobody is obliged to send or leave.
Fairness ==
  /\ WF_vars(ClientReads) /\ WF_vars(ClientReceives) /\ WF_vars(ClientSeesEnd)
  /\ WF_vars(ServerReads) /\ WF_vars(ServerReceives) /\ WF_vars(ServerAdmits)
  /\ WF_vars(ServerSeesEnd)
  /\ WF_vars(BatchTakes) /\ WF_vars(BatchSends) /\ WF_vars(BatchEnds)
  /\ WF_vars(BridgeConnects) /\ WF_vars(BridgeReadsLocal)
  /\ WF_vars(BridgeForwards) /\ WF_vars(BridgeReadsStream)
  /\ WF_vars(BridgeDelivers) /\ WF_vars(BridgeFlushes) /\ WF_vars(BridgeBreaks)
  /\ WF_vars(BridgeFails)

FairSpec == Spec /\ Fairness

-----------------------------------------------------------------------------
(* Properties                                                              *)

\* How a direction ended for its reader.  Only HTTP/2 tells a reader that the
\* writer had finished: an HTTP/3 connection closes with bytes under way.
Fate(d) ==
  IF d = "up"
  THEN IF status.server \in {"gate", "up"} THEN "open"
       ELSE IF status.server = "none" /\ status.bridge # "gone" THEN "open"
       ELSE IF status.server = "closed" /\ kind = "h2" THEN "complete"
       ELSE "cut"
  ELSE IF status.client = "up" THEN "open"
       ELSE IF status.client = "closed" THEN "complete"
       ELSE "cut"

Upward ==
  INSTANCE MessageChannel WITH
    Message <- Messages, sent <- sent["up"], received <- received["up"],
    fate <- Fate("up")

Downward ==
  INSTANCE MessageChannel WITH
    Message <- Messages, sent <- sent["down"], received <- received["down"],
    fate <- Fate("down")

\* Each direction is a MessageChannel, the ordered channel of whole messages
\* the session takes it for: whatever the chunks, whichever branch of select!
\* cancels a read halfway, and with the bytes behind the gate token kept
\* (take_carrier_message, recv_h3_message, read_local_message,
\* recv_stream_message, batch_h2_output).
ImplementsChannels == Upward!Spec /\ Downward!Spec

\* Every message is received in the end, unless its reader has been cut off:
\* none waits for ever in a batch, in the bridge's BufWriter or behind a read
\* that is cancelled again and again (batch_h2_output, output_dirty).
EverythingArrives ==
  \A d \in Dirs : \A n \in 1 .. MaxMessages :
    (Len(sent[d]) >= n) ~> (Len(received[d]) >= n \/ Fate(d) # "open")
=============================================================================
