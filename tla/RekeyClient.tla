----------------------------- MODULE RekeyClient ----------------------------
(***************************************************************************)
(* The client's half of a session.  RekaSession (client_core.py) answers   *)
(* the server's key update requests and never starts an update itself; the *)
(* protocol probe (tools/probe.py) also starts routine and full rekeys,    *)
(* pings and migrates the session to a second carrier.  Initiates says     *)
(* which of those this client does: {} is the Windows client.              *)
(*                                                                         *)
(* The sending thread and the receiving thread hold state_lock while they  *)
(* seal or open a record and hand it to the carrier, so both are atomic.   *)
(***************************************************************************)
EXTENDS Carrier

CONSTANT Initiates   \* a subset of {"routine", "full", "ping", "migrate"}

VARIABLE client

InitClient ==
  client = [up |-> FALSE, reason |-> "none", epoch |-> -1, secret |-> <<>>,
            transcript |-> <<>>, pending |-> {},
            sock |-> "first", dialling |-> FALSE, pinging |-> FALSE,
            data_number |-> 0, control_number |-> 0]

-----------------------------------------------------------------------------
(* Sending                                                                 *)

ClientRecord(c, kind, number, type, tag) ==
  Record("client", kind, c.epoch, c.secret, number, type, tag)

Transmit(r) ==
  /\ c2s' = Sent(c2s, client.sock, <<r>>)
  /\ sealed' = SealAll(<<r>>)

\* The client runs, waits for no answer and its carrier has not been closed.
CanSend ==
  client.up /\ ~client.dialling /\ ~client.pinging /\ ~Gone(client.sock)

\* _send_data: packets and keepalives, under the epoch DONE last switched to.
ClientSends ==
  /\ CanSend
  /\ client.data_number < ClientData
  /\ client.epoch < DataEpochs
  /\ Len(c2s[client.sock]) < QueueBound
  /\ Transmit(ClientRecord(client, "data", client.data_number, "data", <<>>))
  /\ client' = [client EXCEPT !.data_number = @ + 1]
  /\ UNCHANGED <<s2c, link>>

\* Seals an init under the current control key and remembers the update.
Initiate(c, mode, type, tag) ==
  LET init  == ClientRecord(c, "control", c.control_number, type, tag)
      after == Append(c.transcript, Label(init))
  IN  /\ Transmit(init)
      /\ client' = [c EXCEPT
           !.transcript = after,
           !.control_number = @ + 1,
           !.pending = {[epoch |-> c.epoch + 1, mode |-> mode,
                         secret |-> IF mode = "routine" THEN after ELSE <<>>,
                         phase |-> "init", age |-> 0]}]

RoutineInit(c) == Initiate(c, "routine", "init", <<c.secret, c.transcript>>)

FullInit(c) == Initiate(c, "full", "full_init", c.transcript)

ClientStarts(mode) ==
  /\ mode \in Initiates
  /\ CanSend
  /\ client.pending = {}
  /\ client.epoch < MaxEpoch
  /\ \/ mode = "routine" /\ RoutineInit(client)
     \/ mode = "full" /\ FullInit(client)
  /\ UNCHANGED <<s2c, link>>

\* The probe pings once, before it sends data or starts a rekey but after the
\* migration, and waits for the answer.
ClientPings ==
  /\ "ping" \in Initiates
  /\ CanSend
  /\ client.epoch = 0
  /\ client.data_number = 0
  /\ client.sock = "second"
  /\ client.control_number = 1
  /\ Transmit(ClientRecord(client, "control", 1, "ping", <<>>))
  /\ client' = [client EXCEPT !.control_number = @ + 1, !.pinging = TRUE]
  /\ UNCHANGED <<s2c, link>>

\* --migrate-to-h2: a second carrier is opened with a migration token, and
\* from here on the first one is not read any more.
ClientDials ==
  /\ "migrate" \in Initiates
  /\ CanSend
  /\ client.sock = "first"
  /\ client.pending = {}
  /\ client' = [client EXCEPT !.sock = "second", !.dialling = TRUE]
  /\ link' = [link EXCEPT !["second"] = "open"]
  /\ UNCHANGED <<c2s, s2c, sealed>>

\* There is no session (yet or any more) the migration token is good for.
ClientDialRefused ==
  /\ "migrate" \in Initiates
  /\ CanSend
  /\ client.sock = "first"
  /\ client.pending = {}
  /\ client' = [client EXCEPT !.up = FALSE, !.reason = "refused"]
  /\ link' = Closed(link, Paths)
  /\ UNCHANGED <<c2s, s2c, sealed>>

-----------------------------------------------------------------------------
(* receive                                                                 *)

ReadsCurrent(c, r) == r.epoch = c.epoch /\ r.key = c.secret

ReadsPending(c, r) ==
  /\ r.kind = "control"
  /\ \E p \in c.pending :
       p.phase = "commit" /\ p.epoch = r.epoch /\ p.secret = r.key

RequestOk(c, r) ==
  /\ r.type = "request"
  /\ ReadsCurrent(c, r)
  /\ c.pending = {}
  /\ c.epoch < MaxEpoch

\* Mutant: the request is left out of the transcript.
RequestUnrecorded(c, r) == RoutineInit(c)

\* _accept_update_request.
AcceptUpdateRequest(c, r) ==
  RoutineInit([c EXCEPT !.transcript = Append(@, Label(r))])

AckOk(c, r) ==
  /\ r.type = "ack"
  /\ ReadsCurrent(c, r)
  /\ \E p \in c.pending : p.mode = "routine" /\ r.tag = p.secret

ReplyOk(c, r) ==
  /\ r.type = "full_reply"
  /\ ReadsCurrent(c, r)
  /\ r.tag = c.transcript
  /\ \E p \in c.pending : p.mode = "full"

\* Mutant: the client moves to the new epoch without waiting for DONE.
ConfirmAndSwitch(c, r, secret, type) ==
  LET p      == CHOOSE q \in c.pending : TRUE
      after  == Append(c.transcript, Label(r))
      answer == Record("client", "control", p.epoch, secret, 0, type, secret)
  IN  /\ Transmit(answer)
      /\ client' = [c EXCEPT
           !.transcript = Append(after, Label(answer)),
           !.epoch = p.epoch,
           !.secret = secret,
           !.data_number = 0,
           !.pending = {[p EXCEPT !.secret = secret, !.phase = "commit"]}]

\* Confirms the next epoch with record 0 under its control key.
Confirm(c, r, secret, type) ==
  LET p      == CHOOSE q \in c.pending : TRUE
      after  == Append(c.transcript, Label(r))
      answer == Record("client", "control", p.epoch, secret, 0, type, secret)
  IN  /\ Transmit(answer)
      /\ client' = [c EXCEPT
           !.transcript = Append(after, Label(answer)),
           !.pending = {[p EXCEPT !.secret = secret, !.phase = "commit"]}]

\* Mutant: the secret is derived from the transcript after the ACK.
AckDerivesLate(c, r) == Confirm(c, r, Append(c.transcript, Label(r)), "commit")

\* _accept_update_ack.
AcceptUpdateAck(c, r) == Confirm(c, r, r.tag, "commit")

\* The probe's answer to FULL_REKEY_REPLY.
AcceptFullReply(c, r) ==
  Confirm(c, r, Append(c.transcript, Label(r)), "confirm")

DoneOk(c, r) ==
  /\ r.type = "done"
  /\ ReadsPending(c, r)
  /\ \E p \in c.pending : p.phase = "commit" /\ r.tag = p.secret

\* Mutant: the new control counter starts at 0 again.
DoneRestartsAtZero(c, r) ==
  LET p == CHOOSE q \in c.pending : TRUE
  IN  /\ client' = [c EXCEPT
           !.transcript = Append(@, Label(r)),
           !.secret = p.secret,
           !.epoch = p.epoch,
           !.data_number = 0,
           !.control_number = 0,
           !.pending = {}]
      /\ UNCHANGED <<c2s, sealed>>

\* _accept_update_done: the commit took number 0 of the new control key.
AcceptUpdateDone(c, r) ==
  LET p == CHOOSE q \in c.pending : TRUE
  IN  /\ client' = [c EXCEPT
           !.transcript = Append(@, Label(r)),
           !.secret = p.secret,
           !.epoch = p.epoch,
           !.data_number = 0,
           !.control_number = 1,
           !.pending = {}]
      /\ UNCHANGED <<c2s, sealed>>

ChallengeOk(c, r) == r.type = "challenge" /\ ReadsCurrent(c, r)

\* PATH_RESPONSE proves the transcript that the challenge completes.  (The
\* probe also insists on the challenge's record number; the proof suffices.)
AcceptChallenge(c, r) ==
  LET after    == Append(c.transcript, Label(r))
      response == ClientRecord(c, "control", c.control_number, "response",
                               after)
  IN  /\ Transmit(response)
      /\ client' = [c EXCEPT
           !.transcript = Append(after, Label(response)),
           !.control_number = @ + 1,
           !.dialling = FALSE]

PlainOk(c, r) == r.type \in {"data", "pong"} /\ ReadsCurrent(c, r)

AcceptPlain(c, r) ==
  /\ client' = [c EXCEPT !.pinging = @ /\ r.type # "pong"]
  /\ UNCHANGED <<c2s, sealed>>

ClientHandles(Ok(_, _), Accept(_, _)) ==
  /\ client.up
  /\ Arrived(s2c, client.sock)
  /\ Ok(client, Head(s2c[client.sock]))
  /\ Accept(client, Head(s2c[client.sock]))
  /\ s2c' = [s2c EXCEPT ![client.sock] = Tail(@)]
  /\ UNCHANGED link

\* Any other record raises, which ends the session.
ClientRejects ==
  /\ client.up
  /\ Arrived(s2c, client.sock)
  /\ LET r == Head(s2c[client.sock])
     IN  /\ ~(RequestOk(client, r) \/ AckOk(client, r) \/ ReplyOk(client, r)
              \/ DoneOk(client, r) \/ ChallengeOk(client, r)
              \/ PlainOk(client, r))
         /\ client' = [client EXCEPT !.up = FALSE, !.reason =
                         IF r.type = "request" /\ ReadsCurrent(client, r)
                         THEN IF client.pending # {} THEN "concurrent update"
                                                     ELSE "epoch overflow"
                         ELSE "invalid record"]
  /\ s2c' = [s2c EXCEPT ![client.sock] = Tail(@)]
  /\ link' = Closed(link, Paths)
  /\ UNCHANGED <<c2s, sealed>>

ClientReceives ==
  \/ ClientHandles(PlainOk, AcceptPlain)
  \/ ClientHandles(RequestOk, AcceptUpdateRequest)
  \/ ClientHandles(AckOk, AcceptUpdateAck)
  \/ ClientHandles(ReplyOk, AcceptFullReply)
  \/ ClientHandles(DoneOk, AcceptUpdateDone)
  \/ ClientHandles(ChallengeOk, AcceptChallenge)
  \/ ClientRejects

-----------------------------------------------------------------------------
(* Giving up                                                               *)

ClientDown(why) == client' = [client EXCEPT !.up = FALSE, !.reason = why]

\* expired(): the update has been pending for UPDATE_TIMEOUT.
ClientExpires ==
  /\ client.up
  /\ \E p \in client.pending : p.age >= UPDATE_TIMEOUT
  /\ ClientDown("timeout")
  /\ link' = Closed(link, Paths)
  /\ UNCHANGED <<c2s, s2c, sealed>>

\* The service stops, or the lifetime margin is reached.
ClientStops ==
  /\ client.up
  /\ ClientDown("stopped")
  /\ link' = Closed(link, Paths)
  /\ UNCHANGED <<c2s, s2c, sealed>>

ClientSeesClose ==
  /\ client.up
  /\ Gone(client.sock)
  /\ ClientDown("closed")
  /\ link' = Closed(link, Paths)
  /\ UNCHANGED <<c2s, s2c, sealed>>

\* Mutant: the timer stops once the commit is out.
TicksUntilCommit(c) ==
  [c EXCEPT !.pending = {IF p.phase = "commit" THEN p
                         ELSE [p EXCEPT !.age = IF @ < UPDATE_TIMEOUT
                                                THEN @ + 1 ELSE @] : p \in @}]

ClientTicks(c) ==
  [c EXCEPT !.pending = {[p EXCEPT !.age =
                            IF @ < UPDATE_TIMEOUT THEN @ + 1 ELSE @] : p \in @}]
=============================================================================
