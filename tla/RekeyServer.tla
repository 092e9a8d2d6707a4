----------------------------- MODULE RekeyServer ----------------------------
(***************************************************************************)
(* The server's half of an established session: RekeySession (rekey.rs)    *)
(* driven by run_established_session and process_record (main.rs).  The    *)
(* session is one task, so each event - a record, an outbound packet, a    *)
(* timer - is handled to its end, and every event ends with                *)
(* request_update_if_due.  A carrier offered for migration is validated in *)
(* the same task, which does nothing else until the answer has come or     *)
(* five seconds have passed; after the switch the old carrier is still     *)
(* read for three seconds, and answered on.                                *)
(*                                                                         *)
(* Instants are kept relative: a deadline is the number of ticks left, an  *)
(* age the number of ticks passed.  An Option is a set of at most one      *)
(* element.  data_records also stands for plaintext_bytes, the other       *)
(* counter that makes an update due.                                       *)
(***************************************************************************)
EXTENDS Carrier

CONSTANTS
  UPDATE_INTERVAL,      \* ticks after which an epoch is due for an update
  UPDATE_RECORD_LIMIT,  \* data records after which it is
  OLD_EPOCH_GRACE,      \* ticks the previous epoch stays open
  OLD_EPOCH_RECORDS,    \* records it may still deliver
  HANDSHAKE_TIMEOUT,    \* ticks the handshake may take
  PATH_TIMEOUT,         \* ticks a path validation may take
  DRAIN_TIME            \* ticks the old carrier is drained

VARIABLE server

InitServer ==
  server = [up |-> FALSE, reason |-> "none", epoch |-> -1, secret |-> <<>>,
            transcript |-> <<>>, pending |-> {}, previous |-> {},
            age |-> 0, data_records |-> 0, update_requested |-> FALSE,
            deadline |-> {HANDSHAKE_TIMEOUT},
            data_number |-> 0, control_number |-> 0,
            carrier |-> "first", offered |-> FALSE, validating |-> {},
            draining |-> {}]

-----------------------------------------------------------------------------
(* Opening a record                                                        *)

\* Mutant: the old epoch ends with its record budget only.
ExpireByCount(s) ==
  IF \E p \in s.previous : p.remaining = 0
  THEN [s EXCEPT !.previous = {}]
  ELSE s

ExpirePrevious(s) ==
  IF \E p \in s.previous : p.remaining = 0 \/ p.left = 0
  THEN [s EXCEPT !.previous = {}]
  ELSE s

OpensCurrent(s, r) == r.epoch = s.epoch /\ r.key = s.secret

OpensPending(s, r) ==
  /\ r.kind = "control"
  /\ \E p \in s.pending : p.epoch = r.epoch /\ p.secret = r.key

OpensPrevious(s, r) ==
  \E p \in s.previous : p.epoch = r.epoch /\ p.secret = r.key

\* RekeySession::open, its bookkeeping included.
Opened(s, r) ==
  IF OpensCurrent(s, r)
  THEN IF r.kind = "data" THEN [s EXCEPT !.data_records = @ + 1] ELSE s
  ELSE IF OpensPrevious(s, r)
  THEN [s EXCEPT !.previous = {[p EXCEPT !.remaining = @ - 1] : p \in @}]
  ELSE s

KnownEpoch(s, r) ==
  r.epoch \in {s.epoch} \cup {p.epoch : p \in s.pending \cup s.previous}

Opens(s, r) == OpensCurrent(s, r) \/ OpensPending(s, r) \/ OpensPrevious(s, r)

-----------------------------------------------------------------------------
(* The end of every event                                                  *)

Down(s, why) == [s EXCEPT !.up = FALSE, !.reason = why]

ControlRecord(s, type, tag) ==
  Record("server", "control", s.epoch, s.secret, s.control_number, type, tag)

UpdateDue(s) ==
  /\ s.pending = {}
  /\ ~s.update_requested
  /\ s.age >= UPDATE_INTERVAL \/ s.data_records >= UPDATE_RECORD_LIMIT

\* Mutant: the request arms no deadline.
RequestedForever(s, request) ==
  [s EXCEPT !.transcript = Append(@, Label(request)),
            !.control_number = @ + 1,
            !.update_requested = TRUE]

Requested(s, request) ==
  [s EXCEPT !.transcript = Append(@, Label(request)),
            !.control_number = @ + 1,
            !.update_requested = TRUE,
            !.deadline = {UPDATE_TIMEOUT}]

\* The handler's records go out on the carrier it answers on, then
\* request_update_if_due gives the session up, asks the client for an update
\* on the current carrier or does nothing.
ServerFinish(s, p, out, links) ==
  LET request == ControlRecord(s, "request", <<>>)
      handled == Sent(s2c, p, out)
  IN  IF 0 \in s.deadline
      THEN /\ server' = Down(s, "timeout")
           /\ link' = Closed(links, Paths)
           /\ s2c' = handled
           /\ sealed' = SealAll(out)
      ELSE /\ link' = links
           /\ IF UpdateDue(s)
              THEN /\ server' = Requested(s, request)
                   /\ s2c' = Sent(handled, s.carrier, <<request>>)
                   /\ sealed' = SealAll(Append(out, request))
              ELSE /\ server' = s
                   /\ s2c' = handled
                   /\ sealed' = SealAll(out)

-----------------------------------------------------------------------------
(* process_record: what each frame needs to be accepted, and what it does. *)
(* A handler's result is the new session state and the records it sends.   *)

DataOk(s, r) == r.kind = "data" /\ Opens(s, r)

DataRecord(s) ==
  Record("server", "data", s.epoch, s.secret, s.data_number, "data", <<>>)

\* RekeySession::seal_data.
SealData(s) ==
  [state |-> [s EXCEPT !.data_records = @ + 1, !.data_number = @ + 1],
   out   |-> <<DataRecord(s)>>]

\* A packet or a fragment is passed on, a keepalive or a path probe answered.
HandlePacket(s, r) == [state |-> s, out |-> <<>>]

HandleProbe(s, r) == SealData(s)

PingOk(s, r) == r.type = "ping" /\ Opens(s, r)

HandlePing(s, r) ==
  [state |-> [s EXCEPT !.control_number = @ + 1],
   out   |-> <<ControlRecord(s, "pong", <<>>)>>]

\* Mutant: an update the server asked for counts as one under way.
InitOkUnasked(s, r) ==
  /\ r.type = "init"
  /\ OpensCurrent(s, r)
  /\ s.pending = {}
  /\ ~s.update_requested
  /\ s.epoch < MaxEpoch
  /\ r.tag = <<s.secret, s.transcript>>

InitOk(s, r) ==
  /\ r.type = "init"
  /\ OpensCurrent(s, r)
  /\ s.pending = {}
  /\ s.epoch < MaxEpoch
  /\ r.tag = <<s.secret, s.transcript>>

\* The next secret is bound to the transcript and to the init's nonce.
AcceptUpdateInit(s, r) ==
  LET next == Append(s.transcript, Label(r))
      ack  == ControlRecord(s, "ack", next)
  IN  [state |-> [s EXCEPT
         !.transcript = Append(next, Label(ack)),
         !.control_number = @ + 1,
         !.pending = {[epoch |-> s.epoch + 1, secret |-> next,
                       proof |-> "routine"]},
         !.update_requested = TRUE,
         !.deadline = {UPDATE_TIMEOUT}],
       out |-> <<ack>>]

FullInitOk(s, r) ==
  /\ r.type = "full_init"
  /\ OpensCurrent(s, r)
  /\ s.pending = {}
  /\ s.epoch < MaxEpoch
  /\ r.tag = s.transcript

\* The next secret is bound to the transcript the reply completes.
AcceptFullRekeyInit(s, r) ==
  LET after == Append(s.transcript, Label(r))
      reply == ControlRecord(s, "full_reply", after)
      next  == Append(after, Label(reply))
  IN  [state |-> [s EXCEPT
         !.transcript = next,
         !.control_number = @ + 1,
         !.pending = {[epoch |-> s.epoch + 1, secret |-> next,
                       proof |-> "full"]},
         !.update_requested = TRUE,
         !.deadline = {UPDATE_TIMEOUT}],
       out |-> <<reply>>]

\* A confirmation opens under the pending epoch and proves its secret.
Confirms(s, r, proof) ==
  /\ OpensPending(s, r)
  /\ \E p \in s.pending : p.proof = proof /\ r.tag = p.secret

CommitOk(s, r) == r.type = "commit" /\ Confirms(s, r, "routine")

FullConfirmOk(s, r) == r.type = "confirm" /\ Confirms(s, r, "full")

\* The pending epoch becomes the current one and the current one the previous.
\* DONE takes number 0 of the new control key.
Switched(s, r) ==
  LET p     == CHOOSE q \in s.pending : TRUE
      after == Append(s.transcript, Label(r))
      done  == Record("server", "control", p.epoch, p.secret, 0, "done",
                      p.secret)
  IN  [state |-> [s EXCEPT
         !.transcript = Append(after, Label(done)),
         !.epoch = p.epoch,
         !.secret = p.secret,
         !.pending = {},
         !.previous = {[epoch |-> s.epoch, secret |-> s.secret,
                        left |-> OLD_EPOCH_GRACE,
                        remaining |-> OLD_EPOCH_RECORDS]},
         !.age = 0,
         !.data_records = 0,
         !.update_requested = FALSE,
         !.deadline = {},
         !.data_number = 0,
         !.control_number = 1],
       out |-> <<done>>]

AcceptUpdateCommit(s, r) == Switched(s, r)

AcceptFullRekeyConfirm(s, r) == Switched(s, r)

\* The carriers the session task reads: the current one and the drained one.
Reads(s) ==
  {p \in Paths : s.up /\ s.validating = {}
                 /\ (p = s.carrier \/ s.draining # {})}

ServerHandles(p, Ok(_, _), Handle(_, _)) ==
  /\ p \in Reads(server)
  /\ Arrived(c2s, p)
  /\ LET r == Head(c2s[p])
         s == ExpirePrevious(server)
         h == Handle(Opened(s, r), r)
     IN  /\ Ok(s, r)
         /\ c2s' = [c2s EXCEPT ![p] = Tail(@)]
         /\ ServerFinish(h.state, p, h.out, link)

InitAtLimit(s, r) ==
  /\ r.type \in {"init", "full_init"}
  /\ OpensCurrent(s, r)
  /\ s.pending = {}
  /\ s.epoch = MaxEpoch

\* Any other record ends the session: open, parse or the handler bails.
ServerRejects(p) ==
  /\ p \in Reads(server)
  /\ Arrived(c2s, p)
  /\ LET r == Head(c2s[p])
         s == ExpirePrevious(server)
     IN  /\ ~(DataOk(s, r) \/ PingOk(s, r) \/ InitOk(s, r)
              \/ FullInitOk(s, r) \/ CommitOk(s, r) \/ FullConfirmOk(s, r))
         /\ server' = Down(s, IF ~KnownEpoch(s, r) THEN "unknown epoch"
                              ELSE IF InitAtLimit(s, r) THEN "epoch overflow"
                              ELSE "invalid record")
  /\ c2s' = [c2s EXCEPT ![p] = Tail(@)]
  /\ link' = Closed(link, Paths)
  /\ UNCHANGED <<s2c, sealed>>

ServerReceives ==
  \E p \in Paths :
    \/ ServerHandles(p, DataOk, HandlePacket)
    \/ ServerHandles(p, DataOk, HandleProbe)
    \/ ServerHandles(p, PingOk, HandlePing)
    \/ ServerHandles(p, InitOk, AcceptUpdateInit)
    \/ ServerHandles(p, FullInitOk, AcceptFullRekeyInit)
    \/ ServerHandles(p, CommitOk, AcceptUpdateCommit)
    \/ ServerHandles(p, FullConfirmOk, AcceptFullRekeyConfirm)
    \/ ServerRejects(p)

-----------------------------------------------------------------------------
(* Migration                                                               *)

\* The migrations branch: path_challenge refuses during an update, and the
\* candidate is closed; else the challenge joins the transcript and goes out.
ServerChallenges ==
  /\ server.up
  /\ server.validating = {}
  /\ ~server.offered
  /\ link["second"] # "none"
  /\ IF server.pending # {}
     THEN ServerFinish([server EXCEPT !.offered = TRUE], "second", <<>>,
                       Closed(link, {"second"}))
     ELSE LET challenge == ControlRecord(server, "challenge", <<>>)
          IN  /\ server' = [server EXCEPT
                   !.offered = TRUE,
                   !.transcript = Append(@, Label(challenge)),
                   !.control_number = @ + 1,
                   !.validating = {PATH_TIMEOUT}]
              /\ s2c' = Sent(s2c, "second", <<challenge>>)
              /\ sealed' = SealAll(<<challenge>>)
              /\ UNCHANGED link
  /\ UNCHANGED c2s

\* Mutant: any response validates the path.
AnyResponseOk(s, r) == r.type = "response" /\ OpensCurrent(s, r)

\* The proof was computed over the transcript that ends with the challenge;
\* nothing has joined it since.
PathResponseOk(s, r) ==
  /\ r.type = "response"
  /\ OpensCurrent(s, r)
  /\ r.tag = s.transcript

\* accept_path_response, then the swap: the old carrier is drained.
CarrierSwitched(s, r) ==
  [s EXCEPT !.transcript = Append(@, Label(r)),
            !.validating = {},
            !.carrier = "second",
            !.draining = {DRAIN_TIME}]

\* A refused response closes the candidate, and the session stays where it is.
ServerValidates ==
  /\ server.up
  /\ server.validating # {}
  /\ Arrived(c2s, "second")
  /\ c2s' = [c2s EXCEPT !["second"] = Tail(@)]
  /\ LET r == Head(c2s["second"])
         s == ExpirePrevious(server)
     IN  IF PathResponseOk(s, r)
         THEN ServerFinish(CarrierSwitched(s, r), "second", <<>>, link)
         ELSE ServerFinish([Opened(s, r) EXCEPT !.validating = {}],
                           "second", <<>>, Closed(link, {"second"}))

\* The candidate is closed or fails, or the five seconds are over.
ServerGivesUpPath ==
  /\ server.up
  /\ 0 \in server.validating \/ (server.validating # {} /\ Gone("second"))
  /\ ServerFinish([server EXCEPT !.validating = {}], "second", <<>>,
                  Closed(link, {"second"}))
  /\ UNCHANGED c2s

\* recv_draining_carrier: the old carrier is closed, or the three seconds over.
ServerEndsDrain ==
  /\ server.up
  /\ 0 \in server.draining \/ (server.draining # {} /\ link["first"] = "closed")
  /\ ServerFinish([server EXCEPT !.draining = {}], "first", <<>>,
                  Closed(link, {"first"}))
  /\ UNCHANGED c2s

-----------------------------------------------------------------------------
(* The other branches of run_established_session                           *)

ServerSends ==
  /\ server.up
  /\ server.validating = {}
  /\ server.data_number < ServerData
  /\ Len(s2c[server.carrier]) < QueueBound
  /\ ServerFinish(SealData(server).state, server.carrier,
                  SealData(server).out, link)
  /\ UNCHANGED c2s

\* next_update_check has come.
ServerTimer ==
  /\ server.up
  /\ server.validating = {}
  /\ \/ 0 \in server.deadline
     \/ server.deadline = {} /\ server.age >= UPDATE_INTERVAL
  /\ ServerFinish(server, server.carrier, <<>>, link)
  /\ UNCHANGED c2s

\* The lifetime or the quota is used up, a packet is invalid or the kernel
\* refuses it; or, at any time, the edge's process ends.
ServerStops ==
  /\ server.up
  /\ server' = Down(server, "stopped")
  /\ link' = Closed(link, Paths)
  /\ UNCHANGED <<c2s, s2c, sealed>>

\* The carrier is closed or fails, or the one being drained fails: an error of
\* either ends the session.
ServerSeesClose ==
  /\ server.up
  /\ server.validating = {}
  /\ Gone(server.carrier) \/ (server.draining # {} /\ link["first"] = "failed")
  /\ server' = Down(server, "closed")
  /\ link' = Closed(link, Paths)
  /\ UNCHANGED <<c2s, s2c, sealed>>

\* One tick of every clock the session compares with.
ServerTicks(s) ==
  LET Down1(n) == IF n > 0 THEN n - 1 ELSE 0
  IN  [s EXCEPT !.age = IF @ < UPDATE_INTERVAL THEN @ + 1 ELSE @,
                !.deadline = {Down1(d) : d \in @},
                !.validating = {Down1(d) : d \in @},
                !.draining = {Down1(d) : d \in @},
                !.previous = {[p EXCEPT !.left = Down1(@)] : p \in @}]
=============================================================================
