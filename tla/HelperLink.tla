----------------------------- MODULE HelperLink -----------------------------
(***************************************************************************)
(* The edge (network.rs) and the network helper (net_helper.rs), which     *)
(* owns the TUN interface, exchange packets over Unix datagram sockets.    *)
(* Once a second the edge's reader task reconnects its socket and sends a  *)
(* registration; the helper answers it, and the answer makes the edge      *)
(* ready.  Session tasks send packets over the same socket.  Either        *)
(* process may crash and is restarted by systemd; a send waits while the   *)
(* receiver's queue is full.                                               *)
(***************************************************************************)
EXTENDS Integers, Sequences

CONSTANTS
  HelperQueue,   \* datagrams that wait for the helper
  EdgeQueue,     \* datagrams that wait for the edge
  Traffic,       \* the directions packets may take: "up" from the sessions to
                 \* the kernel, "down" to the sessions, "duplex"
  MaxCrashes,    \* bound: crashes of the two processes together
  MaxUnread      \* bound: registrations and acknowledgements in the queues

ASSUME HelperLinkAssumption ==
  /\ HelperQueue \in Nat \ {0} /\ EdgeQueue \in Nat \ {0}
  /\ Traffic \subseteq {"up", "down", "duplex"}
  /\ MaxCrashes \in Nat
  /\ MaxUnread \in 1 .. HelperQueue - 1 /\ MaxUnread < EdgeQueue

VARIABLES
  traffic,               \* the directions of the packets
  reader,                \* the reader task: "select", "registering", or the
                         \* edge is "down"
  connected,             \* the edge's socket is connected to the live helper
  ready,                 \* Network.ready
  registration_pending,  \* Network.registration_pending
  helper,                \* the helper: "select", "forwarding", "answering", "down"
  edge_registered,       \* the helper's variable of that name
  toHelper, toEdge,      \* the datagrams in the sockets' queues
  crashes

edgeVars == <<reader, connected, ready, registration_pending>>
helperVars == <<helper, edge_registered>>
vars == <<traffic, edgeVars, helperVars, toHelper, toEdge, crashes>>

Init ==
  /\ traffic \in Traffic
  /\ reader = "select" /\ connected = TRUE
  /\ ready = FALSE /\ registration_pending = FALSE
  /\ helper = "select" /\ edge_registered = FALSE
  /\ toHelper = <<>> /\ toEdge = <<>>
  /\ crashes = 0

\* connect to the helper's path: what a former helper sent and the edge has
\* not read is discarded by the kernel.
Connect ==
  /\ connected' = TRUE
  /\ toEdge' = IF connected THEN toEdge ELSE <<>>

\* The registrations and acknowledgements nobody has read yet.  There is one
\* registration a second, so they alone do not fill a queue.
Unread ==
  LET signals == SelectSeq(toHelper \o toEdge, LAMBDA d : d # "packet")
  IN  Len(signals) + (IF helper = "answering" THEN 1 ELSE 0)

-----------------------------------------------------------------------------
(* The edge                                                                *)

\* Mutant: a failed registration leaves the edge as ready as it was.
TickTrusts ==
  /\ reader = "select"
  /\ Unread < MaxUnread
  /\ registration_pending' = TRUE
  /\ ready' = ready
  /\ IF helper # "down"
     THEN Connect /\ reader' = "registering"
     ELSE UNCHANGED <<connected, toEdge, reader>>
  /\ UNCHANGED <<traffic, helperVars, toHelper, crashes>>

\* Mutant: the socket stays connected to the helper of the start.
TickKeepsSocket ==
  /\ reader = "select"
  /\ Unread < MaxUnread
  /\ registration_pending' = TRUE
  /\ ready' = (ready /\ ~registration_pending /\ helper # "down")
  /\ reader' = IF helper # "down" THEN "registering" ELSE reader
  /\ UNCHANGED <<traffic, connected, toEdge, helperVars, toHelper, crashes>>

\* registration.tick(): the last registration must have been answered.
RegistrationTick ==
  /\ reader = "select"
  /\ Unread < MaxUnread
  /\ registration_pending' = TRUE
  /\ ready' = (ready /\ ~registration_pending /\ helper # "down")
  /\ IF helper # "down"
     THEN Connect /\ reader' = "registering"
     ELSE UNCHANGED <<connected, toEdge, reader>>
  /\ UNCHANGED <<traffic, helperVars, toHelper, crashes>>

\* The registration is sent, or refused because the helper is gone.
RegistrationSent ==
  /\ reader = "registering"
  /\ connected
  /\ Len(toHelper) < HelperQueue
  /\ toHelper' = Append(toHelper, "RSN1")
  /\ reader' = "select"
  /\ UNCHANGED <<traffic, connected, ready, registration_pending, helperVars, toEdge, crashes>>

RegistrationRefused ==
  /\ reader = "registering"
  /\ ~connected
  /\ ready' = FALSE
  /\ reader' = "select"
  /\ UNCHANGED <<traffic, connected, registration_pending, helperVars, toHelper, toEdge, crashes>>

\* socket.recv(): an acknowledgement, or a packet for a session.
ReaderReceives ==
  /\ reader = "select"
  /\ toEdge # <<>>
  /\ toEdge' = Tail(toEdge)
  /\ IF Head(toEdge) = "RSA1"
     THEN ready' = TRUE /\ registration_pending' = FALSE
     ELSE UNCHANGED <<ready, registration_pending>>
  /\ UNCHANGED <<traffic, reader, connected, helperVars, toHelper, crashes>>

\* socket.recv() fails.
ReaderFails ==
  /\ reader = "select"
  /\ ready' = FALSE
  /\ UNCHANGED <<traffic, reader, connected, registration_pending, helperVars, toHelper, toEdge, crashes>>

\* send_to_kernel: a session's packet.
SendToKernel ==
  /\ traffic # "down"
  /\ reader # "down"
  /\ connected
  /\ Len(toHelper) < HelperQueue
  /\ toHelper' = Append(toHelper, "packet")
  /\ UNCHANGED <<traffic, edgeVars, helperVars, toEdge, crashes>>

\* send_to_kernel when the helper is gone: it reconnects if it can, and the
\* packet follows; if not, the session ends.
SendReconnects ==
  /\ traffic # "down"
  /\ reader # "down"
  /\ ~connected
  /\ ready' = FALSE
  /\ IF helper # "down" THEN Connect ELSE UNCHANGED <<connected, toEdge>>
  /\ UNCHANGED <<traffic, reader, registration_pending, helperVars, toHelper, crashes>>

-----------------------------------------------------------------------------
(* The helper                                                              *)

\* A packet from the TUN interface; it is dropped if no edge has registered.
HelperReadsTun ==
  /\ traffic # "up"
  /\ helper = "select"
  /\ edge_registered
  /\ helper' = "forwarding"
  /\ UNCHANGED <<traffic, edgeVars, edge_registered, toHelper, toEdge, crashes>>

\* A datagram from the edge.  A packet goes to the TUN interface.
HelperReceives ==
  /\ helper = "select"
  /\ toHelper # <<>>
  /\ toHelper' = Tail(toHelper)
  /\ IF Head(toHelper) = "RSN1"
     THEN helper' = "answering" /\ edge_registered' = TRUE
     ELSE UNCHANGED helperVars
  /\ UNCHANGED <<traffic, edgeVars, toEdge, crashes>>

\* What send_to puts into the edge's queue.
Datagram == IF helper = "answering" THEN "RSA1" ELSE "packet"

HelperSent ==
  /\ helper \in {"forwarding", "answering"}
  /\ reader # "down"
  /\ Len(toEdge) < EdgeQueue
  /\ toEdge' = Append(toEdge, Datagram)
  /\ helper' = "select"
  /\ UNCHANGED <<traffic, edgeVars, edge_registered, toHelper, crashes>>

\* send_to finds no edge: edge_unavailable.
HelperSendFails ==
  /\ helper \in {"forwarding", "answering"}
  /\ reader = "down"
  /\ edge_registered' = FALSE
  /\ helper' = "select"
  /\ UNCHANGED <<traffic, edgeVars, toHelper, toEdge, crashes>>

-----------------------------------------------------------------------------
(* Crashes and restarts                                                    *)

\* The helper's socket and its queue are gone; what it sent is not.
HelperCrashes ==
  /\ helper # "down"
  /\ crashes < MaxCrashes
  /\ crashes' = crashes + 1
  /\ helper' = "down"
  /\ edge_registered' = FALSE
  /\ toHelper' = <<>>
  /\ connected' = FALSE
  /\ UNCHANGED <<traffic, reader, ready, registration_pending, toEdge>>

HelperStarts ==
  /\ helper = "down"
  /\ helper' = "select"
  /\ UNCHANGED <<traffic, edgeVars, edge_registered, toHelper, toEdge, crashes>>

EdgeCrashes ==
  /\ reader # "down"
  /\ crashes < MaxCrashes
  /\ crashes' = crashes + 1
  /\ reader' = "down"
  /\ connected' = FALSE
  /\ ready' = FALSE
  /\ registration_pending' = FALSE
  /\ toEdge' = <<>>
  /\ UNCHANGED <<traffic, helperVars, toHelper>>

\* Network::create: connect_helper waits for the helper, and the edge that
\* waits in vain is started again.
EdgeStarts ==
  /\ reader = "down"
  /\ helper # "down"
  /\ reader' = "select"
  /\ Connect
  /\ UNCHANGED <<traffic, ready, registration_pending, helperVars, toHelper, crashes>>

-----------------------------------------------------------------------------

Next ==
  \/ RegistrationTick \/ RegistrationSent \/ RegistrationRefused
  \/ ReaderReceives \/ ReaderFails \/ SendToKernel \/ SendReconnects
  \/ HelperReadsTun \/ HelperReceives \/ HelperSent \/ HelperSendFails
  \/ HelperCrashes \/ HelperStarts \/ EdgeCrashes \/ EdgeStarts

\* The timer fires, a ready branch of select! is not passed over for ever, a
\* wait that can end does end, and systemd restarts the edge.  Nothing obliges
\* anybody to send packets, or the helper to come back.
Fairness ==
  /\ SF_vars(RegistrationTick)
  /\ SF_vars(RegistrationSent)
  /\ WF_vars(RegistrationRefused)
  /\ SF_vars(ReaderReceives)
  /\ SF_vars(HelperReceives)
  /\ WF_vars(HelperSent)
  /\ WF_vars(HelperSendFails)
  /\ WF_vars(EdgeStarts)

Spec == Init /\ [][Next]_vars /\ Fairness

-----------------------------------------------------------------------------
(* Properties                                                              *)

\* With packets both ways the edge's reader, which waits to send its
\* registration, and the helper, which waits to send to the edge, can wait for
\* each other's queue: the reader reads nothing meanwhile, nor does the helper.
Stuck ==
  /\ traffic = "duplex"
  /\ reader = "registering" /\ Len(toHelper) = HelperQueue
  /\ helper \in {"forwarding", "answering"} /\ Len(toEdge) = EdgeQueue

\* A crash of either process is recovered from: unless the helper stays away,
\* or the two wait for each other for ever, the edge becomes ready again and the
\* helper forwards packets to it (the registration branch of spawn_reader, main
\* of net_helper).
BecomesReady ==
  <>[](helper = "down") \/ <>[]Stuck \/ []<>(ready /\ edge_registered)

\* The edge does not go on calling itself ready when the helper is gone, also
\* if an acknowledgement of the dead helper is still in its queue, or when the
\* helper does not acknowledge, unless the two wait for each other for ever
\* (registration_pending in spawn_reader).
ReadyIsAcknowledged ==
  /\ helper = "down" ~> (~ready \/ helper # "down")
  /\ <>[]Stuck \/ (registration_pending ~> (~registration_pending \/ ~ready))
=============================================================================
