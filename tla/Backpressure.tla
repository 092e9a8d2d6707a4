---------------------------- MODULE Backpressure ----------------------------
(***************************************************************************)
(* Who waits for whom when a carrier's buffers fill up.  The server's      *)
(* session task (run_established_session) handles one event at a time and  *)
(* waits inside it until its record is taken by the carrier; meanwhile it  *)
(* neither reads nor looks at its timers.  The client (reka_service.py and *)
(* client_core.py) has a sending thread, which holds state_lock until its  *)
(* record is taken, and a receiving thread, which reads a record without   *)
(* the lock, needs the lock to open it, and holds it while it answers.     *)
(*                                                                         *)
(* A record is its kind.  The server answers "keepalive", "init" and       *)
(* "commit" with "echo", "ack" and "done"; the client answers "request"    *)
(* and "ack" with "init" and "commit"; "data" is answered by nobody.       *)
(* Data may flow in one direction or in both.                              *)
(***************************************************************************)
EXTENDS Integers, Sequences

CONSTANTS
  Capacity,   \* records each direction of the carrier holds
  Traffic     \* the directions data may take: "download", "upload", "duplex"

ASSUME BackpressureAssumption ==
  /\ Capacity \in Nat \ {0}
  /\ Traffic \subseteq {"download", "upload", "duplex"}

VARIABLES
  traffic,    \* the directions of this session's data
  c2s, s2c,   \* the records in the carrier
  server,     \* what the session task does: "select", "sending", "ended"
  outgoing,   \* the record the session task is sending
  asked,      \* RekeySession.update_requested: an update is under way
  late,       \* the session's lifetime is over
  sender,     \* the sending thread: "idle", "waiting" for the lock, "sending",
              \* "ended"
  record,     \* the record the sending thread is sending
  receiver,   \* the receiving thread: "reading", "waiting" for the lock,
              \* "answering", "ended"
  received,   \* the record the receiving thread has read, or is answering with
  state_lock  \* who holds RekaSession.state_lock: "free", "sender", "receiver"

serverVars == <<server, outgoing, asked>>
clientVars == <<sender, record, receiver, received, state_lock>>
vars == <<traffic, c2s, s2c, serverVars, late, clientVars>>

Init ==
  /\ traffic \in Traffic
  /\ c2s = <<>> /\ s2c = <<>>
  /\ server = "select" /\ outgoing = "none" /\ asked = FALSE
  /\ late = FALSE
  /\ sender = "idle" /\ record = "none"
  /\ receiver = "reading" /\ received = "none"
  /\ state_lock = "free"

-----------------------------------------------------------------------------
(* The session task                                                        *)

\* process_record: the answers of the server.
Answer == [keepalive |-> "echo", init |-> "ack", commit |-> "done"]

\* The carrier's recv branch; an answer is sent before the next select.  A
\* commit ends the update.
ServerReceives ==
  /\ server = "select"
  /\ c2s # <<>>
  /\ c2s' = Tail(c2s)
  /\ IF Head(c2s) \in DOMAIN Answer
     THEN server' = "sending" /\ outgoing' = Answer[Head(c2s)]
     ELSE UNCHANGED <<server, outgoing>>
  /\ asked' = (asked /\ Head(c2s) # "commit")
  /\ UNCHANGED <<traffic, s2c, late, clientVars>>

\* The outbound branch.
ServerForwards ==
  /\ traffic # "upload"
  /\ server = "select"
  /\ server' = "sending"
  /\ outgoing' = "data"
  /\ UNCHANGED <<traffic, c2s, s2c, asked, late, clientVars>>

\* request_update_if_due.
ServerRequests ==
  /\ server = "select"
  /\ ~asked
  /\ server' = "sending"
  /\ outgoing' = "request"
  /\ asked' = TRUE
  /\ UNCHANGED <<traffic, c2s, s2c, late, clientVars>>

\* send_binary returns.
ServerSent ==
  /\ server = "sending"
  /\ Len(s2c) < Capacity
  /\ s2c' = Append(s2c, outgoing)
  /\ server' = "select"
  /\ outgoing' = "none"
  /\ UNCHANGED <<traffic, c2s, asked, late, clientVars>>

\* Mutant: the deadline is looked at with the update's deadline only.
ExpiresWithUpdate ==
  /\ server = "select"
  /\ late
  /\ asked
  /\ server' = "ended"
  /\ UNCHANGED <<traffic, c2s, s2c, outgoing, asked, late, clientVars>>

\* The deadline branch.
ServerExpires ==
  /\ server = "select"
  /\ late
  /\ server' = "ended"
  /\ UNCHANGED <<traffic, c2s, s2c, outgoing, asked, late, clientVars>>

\* request_update_if_due: the update took too long.
ServerTimesOut ==
  /\ server = "select"
  /\ asked
  /\ server' = "ended"
  /\ UNCHANGED <<traffic, c2s, s2c, outgoing, asked, late, clientVars>>

-----------------------------------------------------------------------------
(* The client's threads                                                    *)

\* A keepalive or its echo is on its way or in a thread's hands.  Keepalives
\* are 15 seconds apart, and each has come back before the next one.
Beating ==
  \E kind \in {"keepalive", "echo"} :
    \/ kind \in {outgoing, received}
    \/ \E i \in 1 .. Len(c2s) : c2s[i] = kind
    \/ \E i \in 1 .. Len(s2c) : s2c[i] = kind

\* The pump has packets, or a keepalive is due, and asks for the lock.
SenderStarts(kind) ==
  /\ IF kind = "data" THEN traffic # "download" ELSE ~Beating
  /\ sender = "idle"
  /\ sender' = "waiting"
  /\ record' = kind
  /\ UNCHANGED <<traffic, c2s, s2c, serverVars, late, receiver, received, state_lock>>

\* _send_data takes the lock and seals.
SenderLocks ==
  /\ sender = "waiting"
  /\ state_lock = "free"
  /\ state_lock' = "sender"
  /\ sender' = "sending"
  /\ UNCHANGED <<traffic, c2s, s2c, serverVars, late, record, receiver, received>>

\* send_ws returns and the lock is released.
SenderSent ==
  /\ sender = "sending"
  /\ Len(c2s) < Capacity
  /\ c2s' = Append(c2s, record)
  /\ sender' = "idle"
  /\ record' = "none"
  /\ state_lock' = "free"
  /\ UNCHANGED <<traffic, s2c, serverVars, late, receiver, received>>

\* recv_ws returns a record.
ReceiverReads ==
  /\ receiver = "reading"
  /\ s2c # <<>>
  /\ received' = Head(s2c)
  /\ s2c' = Tail(s2c)
  /\ receiver' = "waiting"
  /\ UNCHANGED <<traffic, c2s, serverVars, late, sender, record, state_lock>>

\* _accept_update_request and _accept_update_ack: the answers of the client.
Reply == [request |-> "init", ack |-> "commit"]

\* receive takes the lock and opens the record.
ReceiverOpens ==
  /\ receiver = "waiting"
  /\ state_lock = "free"
  /\ IF received \in DOMAIN Reply
     THEN /\ receiver' = "answering"
          /\ received' = Reply[received]
          /\ state_lock' = "receiver"
     ELSE /\ receiver' = "reading"
          /\ received' = "none"
          /\ UNCHANGED state_lock
  /\ UNCHANGED <<traffic, c2s, s2c, serverVars, late, sender, record>>

\* Mutant: the lock is not released after an answer.
ReceiverKeepsLock ==
  /\ receiver = "answering"
  /\ Len(c2s) < Capacity
  /\ c2s' = Append(c2s, received)
  /\ receiver' = "reading"
  /\ received' = "none"
  /\ UNCHANGED <<traffic, s2c, serverVars, late, sender, record, state_lock>>

\* send_ws returns and receive releases the lock.
ReceiverAnswers ==
  /\ receiver = "answering"
  /\ Len(c2s) < Capacity
  /\ c2s' = Append(c2s, received)
  /\ receiver' = "reading"
  /\ received' = "none"
  /\ state_lock' = "free"
  /\ UNCHANGED <<traffic, s2c, serverVars, late, sender, record>>

\* _pump sees, between two sends, that the session has expired or that the
\* service stops, and run closes the carrier: the server's recv or send fails.
ClientLeaves ==
  /\ sender = "idle"
  /\ server # "ended"
  /\ server' = "ended"
  /\ sender' = "ended"
  /\ receiver' = "ended"
  /\ UNCHANGED <<traffic, c2s, s2c, outgoing, asked, late, record, received, state_lock>>

\* The server has closed the carrier: whatever the threads wait for fails.
ClientEnds ==
  /\ server = "ended"
  /\ sender # "ended"
  /\ sender' = "ended"
  /\ receiver' = "ended"
  /\ UNCHANGED <<traffic, c2s, s2c, serverVars, late, record, received, state_lock>>

Lifetime ==
  /\ ~late
  /\ late' = TRUE
  /\ UNCHANGED <<traffic, c2s, s2c, serverVars, clientVars>>

Next ==
  \/ ServerReceives \/ ServerForwards \/ ServerRequests \/ ServerSent
  \/ ServerExpires \/ ServerTimesOut
  \/ \E kind \in {"data", "keepalive"} : SenderStarts(kind)
  \/ SenderLocks \/ SenderSent
  \/ ReceiverReads \/ ReceiverOpens \/ ReceiverAnswers
  \/ ClientLeaves \/ ClientEnds
  \/ Lifetime

\* A wait that can end does end.  select! picks among its ready branches at
\* random, so none of them is passed over for ever, and neither thread of the
\* client is passed over for ever at the lock.  Nothing obliges the client to
\* leave, the server to have packets, or an update to time out.
Fairness ==
  /\ SF_vars(ServerReceives)
  /\ WF_vars(ServerSent)
  /\ SF_vars(ServerExpires)
  /\ SF_vars(SenderLocks)
  /\ WF_vars(SenderSent)
  /\ WF_vars(ReceiverReads)
  /\ SF_vars(ReceiverOpens)
  /\ WF_vars(ReceiverAnswers)
  /\ WF_vars(ClientEnds)

Spec == Init /\ [][Next]_vars /\ Fairness

-----------------------------------------------------------------------------
(* Properties                                                              *)

\* A session whose lifetime is over is ended (the deadline branch of
\* run_established_session).
LifetimeEnforced == late ~> server = "ended"

\* No send waits for ever: on both ends the carrier takes the record, or the
\* session ends (send_binary, _send_data).
SendsComplete ==
  /\ server = "sending" ~> server # "sending"
  /\ sender \in {"waiting", "sending"} ~> sender \in {"idle", "ended"}
  /\ receiver = "answering" ~> receiver # "answering"
=============================================================================
