------------------------------ MODULE KeyUpdate -----------------------------
(***************************************************************************)
(* A session from its handshake on: client, server and carriers together,  *)
(* with the network that may reset or silently stall them and the clock    *)
(* both ends read.                                                         *)
(***************************************************************************)
EXTENDS InnerHandshake

ASSUME KeyUpdateAssumption ==
  /\ {MaxEpoch, UPDATE_TIMEOUT, UPDATE_INTERVAL, UPDATE_RECORD_LIMIT,
      OLD_EPOCH_GRACE, OLD_EPOCH_RECORDS, HANDSHAKE_TIMEOUT, PATH_TIMEOUT,
      DRAIN_TIME, ClientData, ServerData, DataEpochs, QueueBound} \subseteq Nat
  /\ Initiates \subseteq {"routine", "full", "ping", "migrate"}

vars == <<server, client, c2s, s2c, link, sealed>>

Init == CarrierInit /\ InitServer /\ InitClient

\* Time passes for both ends, as long as some clock still matters.
Tick ==
  /\ server' = IF server.up \/ Handshaking(server) THEN ServerTicks(server)
                                                   ELSE server
  /\ client' = IF client.up THEN ClientTicks(client) ELSE client
  /\ <<server', client'>> # <<server, client>>
  /\ UNCHANGED carrierVars

\* What the session task and the client's threads do by themselves.
ServerTask ==
  /\ ServerHandshakes \/ ServerAbandons \/ ServerReceives \/ ServerTimer
     \/ ServerSeesClose \/ ServerChallenges \/ ServerValidates
     \/ ServerGivesUpPath \/ ServerEndsDrain
  /\ UNCHANGED client

ClientThread ==
  /\ ClientHandshakes \/ ClientReceives \/ ClientExpires \/ ClientSeesClose
  /\ UNCHANGED server

\* What they do when there is something to send, or no more reason to go on.
ServerChoices == (ServerSends \/ ServerStops) /\ UNCHANGED client

ClientChoices ==
  /\ \/ ClientSends
     \/ \E mode \in {"routine", "full"} : ClientStarts(mode)
     \/ ClientPings
     \/ server.up /\ ClientDials
     \/ ~server.up /\ ClientDialRefused
     \/ ClientStops
     \/ ClientAbandons
  /\ UNCHANGED server

NetworkSteps ==
  /\ \E p \in Paths : CarrierFails(p) \/ CarrierStalls(p)
  /\ UNCHANGED <<server, client>>

Next ==
  ServerTask \/ ServerChoices \/ ClientThread \/ ClientChoices \/ NetworkSteps
  \/ Tick

Spec == Init /\ [][Next]_vars

\* Both ends keep running and time passes; nobody is obliged to send data or to stop.
Fairness == WF_vars(ServerTask) /\ WF_vars(ClientThread) /\ WF_vars(Tick)

FairSpec == Spec /\ Fairness

-----------------------------------------------------------------------------
(* Properties                                                              *)

\* Neither end ever seals two records under one key and number, across data
\* and control, over every update and whatever interleaves with it: the
\* counters RecordSender starts at 0 and the ones _accept_update_done resets.
NonceUnique == \A n \in DOMAIN sealed : sealed[n] = 1

\* Every secret either end would use for epoch e: the current ones, the
\* server's pending and previous ones and the one the client has confirmed.
Held(e) ==
  {h.secret : h \in {g \in
     {[epoch |-> server.epoch, secret |-> server.secret],
      [epoch |-> client.epoch, secret |-> client.secret]}
     \cup {[epoch |-> p.epoch, secret |-> p.secret] :
             p \in server.pending \cup server.previous}
     \cup {[epoch |-> p.epoch, secret |-> p.secret] :
             p \in {q \in client.pending : q.phase = "commit"}} :
     g.epoch = e}}

\* Whatever the two ends hold for the same epoch is the same secret, at every
\* point of an update and also when one of them collides with another
\* (accept_update_init, accept_full_rekey_init, _accept_update_ack).
EpochAgreement == \A e \in 0 .. MaxEpoch : \A k, l \in Held(e) : k = l

\* The control transcripts of the two ends never fork: one is always ahead of
\* the other (transcript_next, control_transcript).
TranscriptAgreement ==
  \/ IsPrefix(client.transcript, server.transcript)
  \/ IsPrefix(server.transcript, client.transcript)

\* No end refuses a record of the other as invalid or as a concurrent update:
\* every tag, epoch and phase check of accept_update_init,
\* accept_update_commit, receive and its handlers passes between honest ends.
UpdatesNeverCollide ==
  /\ server.reason # "invalid record"
  /\ client.reason \notin {"invalid record", "concurrent update"}

\* An update is refused only when the transcripts have forked, and they fork
\* only at a record of the server the client has not counted in: a request that
\* crossed an update the client started unasked, or a challenge or request that
\* crossed a migration (request_update_if_due, path_challenge,
\* accept_update_init, _accept_update_request).
RefusedOnlyWhenForked ==
  UpdatesNeverCollide \/
  \E i \in DOMAIN server.transcript \cap DOMAIN client.transcript :
    /\ \A j \in 1 .. i - 1 : server.transcript[j] = client.transcript[j]
    /\ server.transcript[i] # client.transcript[i]
    /\ server.transcript[i][1] \in {"request", "challenge"}

\* Once the session has moved to the second carrier, nothing the transcript
\* counts on is left on the first, which the client has stopped reading: a
\* request that crosses the migration makes the validation fail instead
\* (path_challenge, accept_path_response, the swap in run_established_session).
NothingIsStranded ==
  server.carrier = "second" =>
    \A i \in DOMAIN s2c["first"] : s2c["first"][i].type \in {"data", "pong"}

\* After a switch the server takes a record of the old epoch only while both
\* limits of the grace allow it: the ticks left and the number of such records
\* (open, expire_previous).  During a path validation the one record that is
\* taken is the response that moves the session.
OldEpochIsBounded ==
  [][\A q \in Paths :
       /\ c2s[q] # <<>> /\ c2s'[q] = Tail(c2s[q]) /\ link' = link
       /\ server.up /\ server'.up
       /\ server.validating = {} \/ server'.carrier # server.carrier
       /\ Head(c2s[q]).epoch < server.epoch
       => \E p \in server.previous : p.left > 0 /\ p.remaining > 0]_vars

Lockstep ==
  INSTANCE EpochLockstep WITH
    serverEpoch <- server.epoch, serverSecret <- server.secret,
    clientEpoch <- client.epoch, clientSecret <- client.secret

\* A session is an EpochLockstep: the server switches first, to a fresh secret,
\* the client follows to the same one, and neither gets further ahead
\* (accept_update_commit, accept_full_rekey_confirm, _accept_update_done).
ImplementsLockstep == Lockstep!Spec

ServerWaits == Handshaking(server) \/ (server.up /\ server.update_requested)

\* A handshake the server has begun ends, and an update it asked for or accepted
\* is finished or given up, also when the network goes silent (serve_session,
\* update_deadline, request_update_if_due).
UpdateResolves == ServerWaits ~> ~ServerWaits

\* A client that waits for DONE while the server has switched catches up or
\* gives up, also when the network or the server has gone silent
\* (_accept_update_done, expired).
EpochsConverge ==
  (client.up /\ server.epoch > client.epoch) ~>
    (~client.up \/ server.epoch = client.epoch)
=============================================================================
