--------------------------- MODULE InnerHandshake ---------------------------
(***************************************************************************)
(* The five messages that set a session up: CLIENT_HELLO and SERVER_HELLO  *)
(* in the clear, then CLIENT_AUTH, SERVER_FINISH and CLIENT_CONFIRM under  *)
(* handshake keys derived from the transcript of the hellos                *)
(* (inner_handshake in main.rs, _handshake in client_core.py).             *)
(*                                                                         *)
(* An end that is not up and has no reason to be down is in its handshake; *)
(* the length of its transcript says how far it has got.  The client is    *)
(* established once it has sent CLIENT_CONFIRM, the server once it has     *)
(* received it.  serve_session gives the handshake ten seconds; the client *)
(* waits without a limit.                                                  *)
(***************************************************************************)
EXTENDS RekeyServer, RekeyClient

Handshaking(end) == ~end.up /\ end.reason = "none"

\* The transcript the handshake keys are derived from.
Hellos(end) == SubSeq(end.transcript, 1, 2)

\* A message in the clear: the tag is what the server's signature covers.
Clear(from, type, tag) == Record(from, "clear", 0, <<>>, 0, type, tag)

\* seal_handshake: the transcript so far is authenticated, and the signature,
\* Finished or confirmation inside covers it as well.
SealHandshake(end, from, number, type) ==
  Record(from, "handshake", 0, Hellos(end), number, type, end.transcript)

\* open_handshake and the checks of what is inside.
OpenHandshake(end, r, number, type) ==
  /\ Len(end.transcript) >= 2
  /\ r = SealHandshake(end, r.from, number, type)

\* Each message occurs once, so its type is label enough.
Extended(end, r) == [end EXCEPT !.transcript = Append(@, r.type)]

\* ApplicationSecrets::derive and RekeySession::new; RekaSession.__init__.
Established(end) ==
  [end EXCEPT !.up = TRUE, !.epoch = 0, !.secret = end.transcript]

-----------------------------------------------------------------------------
(* The server                                                              *)

Incoming(queues, end) == Handshaking(end) /\ Arrived(queues, "first")

ServerHello ==
  /\ Incoming(c2s, server)
  /\ LET r     == Head(c2s["first"])
         hello == Clear("server", "server_hello", <<r.type>>)
     IN  /\ r.type = "client_hello" /\ server.transcript = <<>>
         /\ server' = Extended(Extended(server, r), hello)
         /\ s2c' = Sent(s2c, "first", <<hello>>)
  /\ c2s' = [c2s EXCEPT !["first"] = Tail(@)]
  /\ UNCHANGED <<link, sealed>>

\* verify_client_auth, assigned_parameters and SERVER_FINISH.
AuthOk(r) == OpenHandshake(server, r, 0, "client_auth")

ServerFinishes ==
  /\ Incoming(c2s, server)
  /\ LET r      == Head(c2s["first"])
         after  == Extended(server, r)
         finish == SealHandshake(after, "server", 0, "server_finish")
     IN  /\ AuthOk(r)
         /\ server' = Extended(after, finish)
         /\ s2c' = Sent(s2c, "first", <<finish>>)
         /\ sealed' = SealAll(<<finish>>)
  /\ c2s' = [c2s EXCEPT !["first"] = Tail(@)]
  /\ UNCHANGED link

ConfirmOk(r) == OpenHandshake(server, r, 1, "client_confirm")

ServerEstablishes ==
  /\ Incoming(c2s, server)
  /\ LET r == Head(c2s["first"])
     IN  /\ ConfirmOk(r)
         /\ server' = [Established(Extended(server, r)) EXCEPT
                         !.age = 0, !.deadline = {}]
  /\ c2s' = [c2s EXCEPT !["first"] = Tail(@)]
  /\ UNCHANGED <<s2c, link, sealed>>

\* parse_client_hello refuses a version, or a clock too far from its own; any
\* other message that is not the expected one is invalid.
ServerRefuses ==
  /\ Incoming(c2s, server)
  /\ LET r == Head(c2s["first"])
     IN  IF r.type = "client_hello" /\ server.transcript = <<>>
         THEN server' = Down(server, "refused")
         ELSE /\ ~AuthOk(r) /\ ~ConfirmOk(r)
              /\ server' = Down(server, "invalid record")
  /\ c2s' = [c2s EXCEPT !["first"] = Tail(@)]
  /\ link' = Closed(link, Paths)
  /\ UNCHANGED <<s2c, sealed>>

\* The carrier is gone or the ten seconds are over.
ServerAbandons ==
  /\ Handshaking(server)
  /\ Gone("first") \/ 0 \in server.deadline
  /\ server' = Down(server, "timeout")
  /\ link' = Closed(link, Paths)
  /\ UNCHANGED <<c2s, s2c, sealed>>

ServerHandshakes ==
  ServerHello \/ ServerFinishes \/ ServerEstablishes \/ ServerRefuses

-----------------------------------------------------------------------------
(* The client                                                              *)

ClientHello ==
  /\ Handshaking(client)
  /\ client.transcript = <<>>
  /\ LET hello == Clear("client", "client_hello", <<>>)
     IN  /\ client' = Extended(client, hello)
         /\ c2s' = Sent(c2s, "first", <<hello>>)
  /\ UNCHANGED <<s2c, link, sealed>>

ServerHelloOk(r) == r = Clear("server", "server_hello", client.transcript)

FinishOk(r) == OpenHandshake(client, r, 0, "server_finish")

\* The next message of the server is answered with CLIENT_AUTH or, for
\* SERVER_FINISH, with CLIENT_CONFIRM, which makes the session.
ClientAnswers(Ok(_), number, type) ==
  /\ Incoming(s2c, client)
  /\ LET r      == Head(s2c["first"])
         after  == Extended(client, r)
         answer == SealHandshake(after, "client", number, type)
     IN  /\ Ok(r)
         /\ Transmit(answer)
         /\ client' = IF type = "client_confirm"
                      THEN Established(Extended(after, answer))
                      ELSE Extended(after, answer)
  /\ s2c' = [s2c EXCEPT !["first"] = Tail(@)]
  /\ UNCHANGED link

ClientAuth == ClientAnswers(ServerHelloOk, 0, "client_auth")

ClientConfirm == ClientAnswers(FinishOk, 1, "client_confirm")

\* Anything else raises, and so does a carrier that closes; the process may
\* also end here.
ClientAbandons ==
  /\ Handshaking(client)
  /\ ClientDown(IF /\ Arrived(s2c, "first")
                   /\ ~ServerHelloOk(Head(s2c["first"]))
                   /\ ~FinishOk(Head(s2c["first"]))
                THEN "invalid record" ELSE "stopped")
  /\ link' = Closed(link, Paths)
  /\ UNCHANGED <<c2s, s2c, sealed>>

ClientHandshakes == ClientHello \/ ClientAuth \/ ClientConfirm
=============================================================================
