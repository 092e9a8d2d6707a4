--------------------------- MODULE KeyUpdate_proofs --------------------------
(***************************************************************************)
(* No AEAD nonce is used twice in a session, and the previous epoch stays  *)
(* within its grace, whatever the timeouts and limits, whichever updates   *)
(* the client starts and however the network loses and stalls carriers.    *)
(*                                                                         *)
(* A secret is the transcript it was derived from and transcripts grow, so *)
(* a later epoch's key is a longer sequence: a nonce already used has a    *)
(* shorter key than the current one, or the same key and a smaller number. *)
(*                                                                         *)
(* The second part shows that the two ends agree on the secret of every    *)
(* epoch and move through the epochs in lockstep.                          *)
(***************************************************************************)
EXTENDS KeyUpdate, FiniteSetTheorems, SequenceTheorems, TLAPS

-----------------------------------------------------------------------------
(* Types                                                                   *)

Froms == {"client", "server"}

Kinds == {"clear", "handshake", "data", "control"}

Types ==
  {"client_hello", "server_hello", "client_auth", "server_finish",
   "client_confirm", "data", "ping", "pong", "request", "init", "full_init",
   "ack", "full_reply", "commit", "confirm", "done", "challenge", "response"}

Reasons ==
  {"none", "timeout", "closed", "stopped", "refused", "unknown epoch",
   "epoch overflow", "invalid record", "concurrent update"}

Modes == {"routine", "full"}

Labels == Types \cup (Types \X Int \X Nat)

Transcripts == Seq(Labels)

Tags == Transcripts \cup (Transcripts \X Transcripts)

Records ==
  [from : Froms, kind : Kinds, epoch : Int, key : Transcripts,
   number : Nat, type : Types, tag : Tags]

Nonces == Froms \X Kinds \X Transcripts \X Nat

ServerStates ==
  [up : BOOLEAN, reason : Reasons, epoch : Int, secret : Transcripts,
   transcript : Transcripts,
   pending : SUBSET [epoch : Int, secret : Transcripts, proof : Modes],
   previous : SUBSET [epoch : Int, secret : Transcripts, left : Nat,
                      remaining : Nat],
   age : Nat, data_records : Nat, update_requested : BOOLEAN,
   deadline : SUBSET Nat, data_number : Nat, control_number : Nat,
   carrier : Paths, offered : BOOLEAN, validating : SUBSET Nat,
   draining : SUBSET Nat]

ClientStates ==
  [up : BOOLEAN, reason : Reasons, epoch : Int, secret : Transcripts,
   transcript : Transcripts,
   pending : SUBSET [epoch : Int, mode : Modes, secret : Transcripts,
                     phase : {"init", "commit"}, age : Nat],
   sock : Paths, dialling : BOOLEAN, pinging : BOOLEAN,
   data_number : Nat, control_number : Nat]

Queues == [Paths -> Seq(Records)]

Links == [Paths -> {"none", "open", "closed", "failed", "stalled"}]

-----------------------------------------------------------------------------
(* The parts of the invariant                                              *)

\* A secret is no longer than the transcript, and the next one is longer.
ServerOk(s) ==
  /\ s \in ServerStates
  /\ Len(s.secret) <= Len(s.transcript)
  /\ \A p \in s.pending :
       /\ Len(s.secret) < Len(p.secret) /\ Len(p.secret) <= Len(s.transcript)
       /\ s.epoch < p.epoch
  /\ Handshaking(s) => /\ s.secret = <<>> /\ s.pending = {}
                       /\ s.data_number = 0 /\ s.control_number = 0

ClientOk(c) ==
  /\ c \in ClientStates
  /\ Len(c.secret) <= Len(c.transcript)
  /\ \A p, q \in c.pending : p = q
  /\ \A p \in c.pending :
       /\ Len(p.secret) <= Len(c.transcript)
       /\ p.mode = "routine" \/ p.phase = "commit"
            => Len(c.secret) < Len(p.secret)
  /\ Handshaking(c) => /\ c.secret = <<>> /\ c.pending = {}
                       /\ c.data_number = 0 /\ c.control_number = 0

\* The nonce n was used under an earlier key, or under this one with a number
\* before next.
Before(n, key, next) ==
  Len(n[3]) < Len(key) \/ (n[3] = key /\ n[4] < next)

\* Every nonce of the server lies before what the server would use next.
ServerCovers(s, used) ==
  \A n \in used : n[1] = "server" =>
    /\ n[2] = "data" => Before(n, s.secret, s.data_number)
    /\ n[2] = "control" => Before(n, s.secret, s.control_number)
    /\ n[2] = "handshake" => Len(s.transcript) >= 4

\* The same for the client, whose commit already uses the next key.
ClientCovers(c, used) ==
  \A n \in used : n[1] = "client" =>
    /\ n[2] = "data" => Before(n, c.secret, c.data_number)
    /\ n[2] = "control" =>
         \/ Before(n, c.secret, c.control_number)
         \/ \E p \in c.pending : /\ p.phase = "commit"
                                /\ Len(c.secret) < Len(n[3])
                                /\ Before(n, p.secret, 1)
    /\ n[2] = "handshake" => \/ n[4] = 0 /\ Len(c.transcript) >= 3
                             \/ ~Handshaking(c)

\* The handshake's messages cannot be taken for one another.
ShortAuths(q) ==
  \A p \in Paths : \A i \in 1 .. Len(q[p]) :
    q[p][i].type = "client_auth" => Len(q[p][i].tag) = 2

ShortHellos(q) ==
  \A p \in Paths : \A i \in 1 .. Len(q[p]) :
    q[p][i].type = "server_hello" => Len(q[p][i].tag) = 1

\* The client has confirmed the update that ends with this secret.
Confirmed(c, secret) ==
  \E p \in c.pending :
    p.phase = "commit" /\ p.mode = "routine" /\ p.secret = secret

\* An ACK is answered once: the client does not look at how far its update has
\* come, and a second ACK would make it seal the commit again.
AcksFit(s, c, q) ==
  \A p \in Paths : \A i \in 1 .. Len(q[p]) :
    q[p][i].type = "ack" =>
      /\ q[p][i].tag \in Transcripts
      /\ Len(q[p][i].tag) < Len(s.transcript)
      /\ ~Confirmed(c, q[p][i].tag)

AcksDiffer(q) ==
  \A x, y \in Paths : \A i \in 1 .. Len(q[x]), j \in 1 .. Len(q[y]) :
    /\ q[x][i].type = "ack" /\ q[y][j].type = "ack"
    /\ q[x][i].tag = q[y][j].tag
    => x = y /\ i = j

ConfirmedFits(s, c) ==
  \A p \in c.pending :
    p.phase = "commit" /\ p.mode = "routine"
      => Len(p.secret) < Len(s.transcript)

AcksOnce(s, c, q) == AcksFit(s, c, q) /\ AcksDiffer(q) /\ ConfirmedFits(s, c)

TypeOK ==
  /\ server \in ServerStates /\ client \in ClientStates
  /\ c2s \in Queues /\ s2c \in Queues
  /\ link \in Links
  /\ DOMAIN sealed \subseteq Nonces

NonceInv ==
  /\ TypeOK
  /\ ServerOk(server) /\ ClientOk(client)
  /\ ServerCovers(server, DOMAIN sealed) /\ ClientCovers(client, DOMAIN sealed)
  /\ ShortAuths(c2s) /\ ShortHellos(s2c)
  /\ AcksOnce(server, client, s2c)
  /\ NonceUnique

-----------------------------------------------------------------------------
(* Transcripts, records and queues                                         *)

\* What a record adds to a transcript makes it longer.
LEMMA Extends ==
  ASSUME NEW t \in Transcripts, NEW r \in Records
  PROVE  /\ Label(r) \in Labels
         /\ Append(t, Label(r)) \in Transcripts
         /\ Len(Append(t, Label(r))) = Len(t) + 1
         /\ Len(t) \in Nat
<1>1. Label(r) \in Labels
  BY DEF Records, Label, Labels
<1> QED
  BY <1>1 DEF Transcripts

\* A record is one, and its nonce is what it was sealed with.
LEMMA RecordFacts ==
  ASSUME NEW from \in Froms, NEW kind \in Kinds, NEW epoch \in Int,
         NEW key \in Transcripts, NEW number \in Nat, NEW type \in Types,
         NEW tag \in Tags
  PROVE  /\ Record(from, kind, epoch, key, number, type, tag) \in Records
         /\ Nonce(Record(from, kind, epoch, key, number, type, tag))
              = <<from, kind, key, number>>
         /\ Record(from, kind, epoch, key, number, type, tag).type = type
         /\ Record(from, kind, epoch, key, number, type, tag).tag = tag
         /\ Record(from, kind, epoch, key, number, type, tag).from = from
BY DEF Record, Records, Nonce

\* The server's own records.
LEMMA ControlFacts ==
  ASSUME NEW s \in ServerStates, NEW type \in Types, NEW tag \in Tags
  PROVE  /\ ControlRecord(s, type, tag) \in Records
         /\ ControlRecord(s, type, tag).type = type
         /\ ControlRecord(s, type, tag).tag = tag
         /\ ControlRecord(s, type, tag).from = "server"
         /\ Nonce(ControlRecord(s, type, tag))
              = <<"server", "control", s.secret, s.control_number>>
<1>1. "server" \in Froms /\ "control" \in Kinds
  BY DEF Froms, Kinds
<1>2. s.epoch \in Int /\ s.secret \in Transcripts /\ s.control_number \in Nat
  BY DEF ServerStates
<1> QED
  BY <1>1, <1>2, RecordFacts DEF ControlRecord

\* What a nonce is made of.
LEMMA NonceType ==
  ASSUME NEW r \in Records
  PROVE  Nonce(r) \in Nonces /\ Nonce(r) = <<r.from, r.kind, r.key, r.number>>
BY DEF Nonce, Nonces, Records

\* A record is lost or comes last.
LEMMA SentFacts ==
  ASSUME NEW q \in Queues, NEW p \in Paths, NEW r \in Records
  PROVE  /\ Sent(q, p, <<r>>) \in Queues
         /\ \/ Sent(q, p, <<r>>) = q
            \/ /\ \A x \in Paths : x # p => Sent(q, p, <<r>>)[x] = q[x]
               /\ Len(Sent(q, p, <<r>>)[p]) = Len(q[p]) + 1
               /\ Sent(q, p, <<r>>)[p][Len(q[p]) + 1] = r
               /\ \A i \in 1 .. Len(q[p]) :
                    Sent(q, p, <<r>>)[p][i] = q[p][i]
<1>1. CASE link[p] # "open"
  BY <1>1 DEF Sent
<1>2. CASE link[p] = "open"
  <2> DEFINE t == q[p] \o <<r>>
             n == [q EXCEPT ![p] = t]
  <2>1. Sent(q, p, <<r>>) = n
    BY <1>2 DEF Sent
  <2>2. q[p] \in Seq(Records)
    BY DEF Queues
  <2>3. /\ t \in Seq(Records) /\ Len(t) = Len(q[p]) + 1
        /\ t[Len(q[p]) + 1] = r
        /\ \A i \in 1 .. Len(q[p]) : t[i] = q[p][i]
    BY <2>2
  <2> HIDE DEF t
  <2>4. n \in Queues /\ n[p] = t /\ \A x \in Paths : x # p => n[x] = q[x]
    BY <2>3 DEF Queues
  <2> QED
    BY <2>1, <2>3, <2>4
<1> QED
  BY <1>1, <1>2

\* Sending nothing leaves the queues as they are.
LEMMA SentNothing ==
  ASSUME NEW q \in Queues, NEW p \in Paths
  PROVE  Sent(q, p, <<>>) = q
<1>1. q[p] \o <<>> = q[p]
  BY DEF Queues
<1> QED
  BY <1>1 DEF Sent, Queues

\* The first record is taken and the others move up.
LEMMA TailFacts ==
  ASSUME NEW q \in Queues, NEW p \in Paths, q[p] # <<>>
  PROVE  /\ [q EXCEPT ![p] = Tail(@)] \in Queues
         /\ \A x \in Paths : x # p => [q EXCEPT ![p] = Tail(@)][x] = q[x]
         /\ Head(q[p]) \in Records /\ Head(q[p]) = q[p][1]
         /\ 1 \in 1 .. Len(q[p])
         /\ Len([q EXCEPT ![p] = Tail(@)][p]) = Len(q[p]) - 1
         /\ \A i \in 1 .. Len(q[p]) - 1 :
              [q EXCEPT ![p] = Tail(@)][p][i] = q[p][i + 1]
<1> DEFINE t == Tail(q[p])
           n == [q EXCEPT ![p] = t]
<1>1. q[p] \in Seq(Records) /\ Len(q[p]) \in Nat
  BY DEF Queues
<1>2. /\ t \in Seq(Records) /\ Len(t) = Len(q[p]) - 1
      /\ Head(q[p]) \in Records /\ Head(q[p]) = q[p][1]
      /\ 1 \in 1 .. Len(q[p])
      /\ \A i \in 1 .. Len(q[p]) - 1 : t[i] = q[p][i + 1]
  BY <1>1
<1> HIDE DEF t
<1>3. n \in Queues /\ n[p] = t /\ \A x \in Paths : x # p => n[x] = q[x]
  BY <1>2 DEF Queues
<1>4. n = [q EXCEPT ![p] = Tail(@)]
  BY DEF t, Queues
<1> HIDE DEF n
<1> QED
  BY <1>2, <1>3, <1>4

\* Where the records of a queue come from after a send and after a receive.
LEMMA SentElements ==
  ASSUME NEW q \in Queues, NEW p \in Paths, NEW r \in Records,
         NEW x \in Paths, NEW i \in 1 .. Len(Sent(q, p, <<r>>)[x])
  PROVE  \/ i \in 1 .. Len(q[x]) /\ Sent(q, p, <<r>>)[x][i] = q[x][i]
         \/ x = p /\ i = Len(q[p]) + 1 /\ Sent(q, p, <<r>>)[x][i] = r
<1> DEFINE n == Sent(q, p, <<r>>)
<1>1. CASE n = q
  BY <1>1
<1>2. CASE n # q
  <2>1. /\ \A y \in Paths : y # p => n[y] = q[y]
        /\ Len(n[p]) = Len(q[p]) + 1
        /\ n[p][Len(q[p]) + 1] = r
        /\ \A j \in 1 .. Len(q[p]) : n[p][j] = q[p][j]
    BY <1>2, SentFacts
  <2>2. Len(q[p]) \in Nat
    BY DEF Queues
  <2> HIDE DEF n
  <2>3. i \in 1 .. Len(n[x])
    BY DEF n
  <2>4. CASE x # p
    BY <2>1, <2>3, <2>4 DEF n
  <2>5. CASE x = p
    <3>1. i \in 1 .. Len(q[p]) \/ i = Len(q[p]) + 1
      BY <2>1, <2>2, <2>3, <2>5
    <3> QED
      BY <2>1, <2>5, <3>1 DEF n
  <2> QED
    BY <2>4, <2>5
<1> QED
  BY <1>1, <1>2

\* What is left in the queues after a receive was there before it.
LEMMA TailElements ==
  ASSUME NEW q \in Queues, NEW p \in Paths, q[p] # <<>>,
         NEW x \in Paths, NEW i \in 1 .. Len([q EXCEPT ![p] = Tail(@)][x])
  PROVE  \/ /\ x # p /\ i \in 1 .. Len(q[x])
            /\ [q EXCEPT ![p] = Tail(@)][x][i] = q[x][i]
         \/ /\ x = p /\ i \in Nat /\ i >= 1 /\ i + 1 \in 1 .. Len(q[x])
            /\ [q EXCEPT ![p] = Tail(@)][x][i] = q[x][i + 1]
<1> DEFINE n == [q EXCEPT ![p] = Tail(@)]
<1>1. /\ \A y \in Paths : y # p => n[y] = q[y]
      /\ Len(n[p]) = Len(q[p]) - 1
      /\ \A j \in 1 .. Len(q[p]) - 1 : n[p][j] = q[p][j + 1]
  BY TailFacts
<1>2. Len(q[p]) \in Nat
  BY DEF Queues
<1> HIDE DEF n
<1>3. i \in 1 .. Len(n[x])
  BY DEF n
<1>4. CASE x # p
  BY <1>1, <1>3, <1>4 DEF n
<1>5. CASE x = p
  <2>1. i \in 1 .. Len(q[p]) - 1 /\ i \in Nat /\ i >= 1
        /\ i + 1 \in 1 .. Len(q[p])
    BY <1>1, <1>2, <1>3, <1>5
  <2> QED
    BY <1>1, <1>5, <2>1 DEF n
<1> QED
  BY <1>4, <1>5

\* The handshake's messages, after a send and after a receive.
LEMMA AuthsSent ==
  ASSUME NEW q \in Queues, NEW p \in Paths, NEW r \in Records,
         ShortAuths(q), r.type = "client_auth" => Len(r.tag) = 2
  PROVE  ShortAuths(Sent(q, p, <<r>>))
BY SentElements DEF ShortAuths

\* Receiving leaves only CLIENT_AUTHs over a transcript of two.
LEMMA AuthsTaken ==
  ASSUME NEW q \in Queues, NEW p \in Paths, q[p] # <<>>, ShortAuths(q)
  PROVE  ShortAuths([q EXCEPT ![p] = Tail(@)])
<1> DEFINE n == [q EXCEPT ![p] = Tail(@)]
<1> SUFFICES ASSUME NEW x \in Paths, NEW i \in 1 .. Len(n[x]),
                    n[x][i].type = "client_auth"
             PROVE  Len(n[x][i].tag) = 2
  BY DEF ShortAuths
<1>1. \/ i \in 1 .. Len(q[x]) /\ n[x][i] = q[x][i]
      \/ i + 1 \in 1 .. Len(q[x]) /\ n[x][i] = q[x][i + 1]
  BY TailElements
<1> HIDE DEF n
<1> QED
  BY <1>1 DEF ShortAuths

\* The queues keep their SERVER_HELLOs over one record when such a one is sent.
LEMMA HellosSent ==
  ASSUME NEW q \in Queues, NEW p \in Paths, NEW r \in Records,
         ShortHellos(q), r.type = "server_hello" => Len(r.tag) = 1
  PROVE  ShortHellos(Sent(q, p, <<r>>))
BY SentElements DEF ShortHellos

\* Receiving leaves only SERVER_HELLOs over a transcript of one.
LEMMA HellosTaken ==
  ASSUME NEW q \in Queues, NEW p \in Paths, q[p] # <<>>, ShortHellos(q)
  PROVE  ShortHellos([q EXCEPT ![p] = Tail(@)])
<1> DEFINE n == [q EXCEPT ![p] = Tail(@)]
<1> SUFFICES ASSUME NEW x \in Paths, NEW i \in 1 .. Len(n[x]),
                    n[x][i].type = "server_hello"
             PROVE  Len(n[x][i].tag) = 1
  BY DEF ShortHellos
<1>1. \/ i \in 1 .. Len(q[x]) /\ n[x][i] = q[x][i]
      \/ i + 1 \in 1 .. Len(q[x]) /\ n[x][i] = q[x][i + 1]
  BY TailElements
<1> HIDE DEF n
<1> QED
  BY <1>1 DEF ShortHellos

\* A fresh ACK differs from those in flight and from the one confirmed.
LEMMA AcksSent ==
  ASSUME NEW s \in ServerStates, NEW t \in ServerStates,
         NEW c \in ClientStates,
         NEW q \in Queues, NEW p \in Paths, NEW r \in Records,
         AcksOnce(s, c, q), Len(s.transcript) <= Len(t.transcript),
         r.type = "ack" => /\ r.tag \in Transcripts
                           /\ Len(s.transcript) <= Len(r.tag)
                           /\ Len(r.tag) < Len(t.transcript)
  PROVE  AcksOnce(t, c, Sent(q, p, <<r>>))
<1> DEFINE n == Sent(q, p, <<r>>)
<1>0. Len(s.transcript) \in Nat /\ Len(t.transcript) \in Nat
      /\ \A k \in Transcripts : Len(k) \in Nat
  BY DEF ServerStates, Transcripts
<1>1. \A x \in Paths : \A i \in 1 .. Len(n[x]) :
        \/ i \in 1 .. Len(q[x]) /\ n[x][i] = q[x][i]
        \/ x = p /\ i = Len(q[p]) + 1 /\ n[x][i] = r
  BY SentElements
<1> HIDE DEF n
<1>2. \A e \in c.pending : e.secret \in Transcripts
  BY DEF ClientStates
<1>3. \A e \in c.pending :
        e.phase = "commit" /\ e.mode = "routine" =>
          /\ Len(e.secret) < Len(s.transcript)
          /\ Len(e.secret) < Len(t.transcript)
  BY <1>0, <1>2 DEF AcksOnce, ConfirmedFits
<1>4. r.type = "ack" => ~Confirmed(c, r.tag)
  BY <1>0, <1>3 DEF Confirmed
<1>5. \A x \in Paths : \A i \in 1 .. Len(q[x]) :
        q[x][i].type = "ack" =>
          /\ q[x][i].tag \in Transcripts
          /\ Len(q[x][i].tag) < Len(s.transcript)
          /\ ~Confirmed(c, q[x][i].tag)
  BY DEF AcksOnce, AcksFit
<1>6. \A x \in Paths : \A i \in 1 .. Len(q[x]) :
        q[x][i].type = "ack" =>
          /\ Len(q[x][i].tag) < Len(t.transcript)
          /\ r.type = "ack" => q[x][i].tag # r.tag
  <2> SUFFICES ASSUME NEW x \in Paths, NEW i \in 1 .. Len(q[x]),
                      q[x][i].type = "ack"
               PROVE  /\ Len(q[x][i].tag) < Len(t.transcript)
                      /\ r.type = "ack" => q[x][i].tag # r.tag
    OBVIOUS
  <2> DEFINE k == q[x][i].tag
  <2>1. k \in Transcripts /\ Len(k) < Len(s.transcript)
    BY <1>5
  <2>2. Len(k) \in Nat
    BY <1>0, <2>1
  <2> HIDE DEF k
  <2>3. Len(k) < Len(t.transcript)
    BY <1>0, <2>1, <2>2
  <2>4. r.type = "ack" => k # r.tag
    BY <1>0, <2>1, <2>2
  <2> QED
    BY <2>3, <2>4 DEF k
<1>7. ASSUME NEW x \in Paths, NEW i \in 1 .. Len(n[x]), n[x][i].type = "ack"
      PROVE  /\ n[x][i].tag \in Transcripts
             /\ Len(n[x][i].tag) < Len(t.transcript)
             /\ ~Confirmed(c, n[x][i].tag)
  BY <1>1, <1>4, <1>5, <1>6, <1>7
<1>8. ASSUME NEW x \in Paths, NEW y \in Paths,
             NEW i \in 1 .. Len(n[x]), NEW j \in 1 .. Len(n[y]),
             n[x][i].type = "ack", n[y][j].type = "ack",
             n[x][i].tag = n[y][j].tag
      PROVE  x = y /\ i = j
  <2>1. CASE /\ i \in 1 .. Len(q[x]) /\ n[x][i] = q[x][i]
             /\ j \in 1 .. Len(q[y]) /\ n[y][j] = q[y][j]
    BY <1>8, <2>1 DEF AcksOnce, AcksDiffer
  <2>2. CASE /\ i \in 1 .. Len(q[x]) /\ n[x][i] = q[x][i]
             /\ n[y][j] = r
    BY <1>6, <1>8, <2>2
  <2>3. CASE /\ n[x][i] = r
             /\ j \in 1 .. Len(q[y]) /\ n[y][j] = q[y][j]
    BY <1>6, <1>8, <2>3
  <2>4. CASE /\ x = p /\ i = Len(q[p]) + 1
             /\ y = p /\ j = Len(q[p]) + 1
    BY <2>4
  <2> QED
    BY <1>1, <2>1, <2>2, <2>3, <2>4
<1>9. AcksFit(t, c, n)
  BY <1>7 DEF AcksFit
<1>10. AcksDiffer(n)
  BY <1>8 DEF AcksDiffer
<1>11. AcksOnce(t, c, n)
  BY <1>3, <1>9, <1>10 DEF AcksOnce, ConfirmedFits
<1> QED
  BY <1>11 DEF n

\* The others are still apart when one record has been taken.
LEMMA AcksTaken ==
  ASSUME NEW s, NEW c, NEW q \in Queues, NEW p \in Paths, q[p] # <<>>,
         AcksOnce(s, c, q)
  PROVE  /\ AcksOnce(s, c, [q EXCEPT ![p] = Tail(@)])
         /\ Head(q[p]).type = "ack" =>
              \A x \in Paths :
                \A i \in 1 .. Len([q EXCEPT ![p] = Tail(@)][x]) :
                  [q EXCEPT ![p] = Tail(@)][x][i].type = "ack" =>
                    [q EXCEPT ![p] = Tail(@)][x][i].tag # Head(q[p]).tag
<1> DEFINE n == [q EXCEPT ![p] = Tail(@)]
<1>1. \A x \in Paths : \A i \in 1 .. Len(n[x]) :
        \/ x # p /\ i \in 1 .. Len(q[x]) /\ n[x][i] = q[x][i]
        \/ /\ x = p /\ i \in Nat /\ i >= 1 /\ i + 1 \in 1 .. Len(q[x])
           /\ n[x][i] = q[x][i + 1]
  BY TailElements
<1>2. Head(q[p]) = q[p][1] /\ 1 \in 1 .. Len(q[p])
  BY TailFacts
<1> HIDE DEF n
<1>3. ASSUME NEW x \in Paths, NEW i \in 1 .. Len(n[x]), n[x][i].type = "ack"
      PROVE  /\ n[x][i].tag \in Transcripts
             /\ Len(n[x][i].tag) < Len(s.transcript)
             /\ ~Confirmed(c, n[x][i].tag)
             /\ Head(q[p]).type = "ack" => n[x][i].tag # Head(q[p]).tag
  <2>1. CASE x # p /\ i \in 1 .. Len(q[x]) /\ n[x][i] = q[x][i]
    BY <1>2, <1>3, <2>1 DEF AcksOnce, AcksFit, AcksDiffer
  <2>2. CASE /\ x = p /\ i \in Nat /\ i >= 1 /\ i + 1 \in 1 .. Len(q[x])
             /\ n[x][i] = q[x][i + 1]
    <3>1. i + 1 # 1
      BY <2>2
    <3>2. Head(q[p]).type = "ack" => n[x][i].tag # Head(q[p]).tag
      BY <1>2, <1>3, <2>2, <3>1 DEF AcksOnce, AcksDiffer
    <3>3. /\ n[x][i].tag \in Transcripts
          /\ Len(n[x][i].tag) < Len(s.transcript)
          /\ ~Confirmed(c, n[x][i].tag)
      BY <1>3, <2>2 DEF AcksOnce, AcksFit
    <3> QED
      BY <3>2, <3>3
  <2> QED
    BY <1>1, <2>1, <2>2
<1>4. ASSUME NEW x \in Paths, NEW y \in Paths,
             NEW i \in 1 .. Len(n[x]), NEW j \in 1 .. Len(n[y]),
             n[x][i].type = "ack", n[y][j].type = "ack",
             n[x][i].tag = n[y][j].tag
      PROVE  x = y /\ i = j
  <2>1. CASE x # p /\ y # p
    <3>1. /\ i \in 1 .. Len(q[x]) /\ n[x][i] = q[x][i]
          /\ j \in 1 .. Len(q[y]) /\ n[y][j] = q[y][j]
      BY <1>1, <2>1
    <3> QED
      BY <1>4, <3>1 DEF AcksOnce, AcksDiffer
  <2>2. CASE x = p /\ y = p
    <3>1. /\ i \in Nat /\ j \in Nat
          /\ i + 1 \in 1 .. Len(q[p]) /\ j + 1 \in 1 .. Len(q[p])
          /\ n[x][i] = q[p][i + 1] /\ n[y][j] = q[p][j + 1]
      BY <1>1, <2>2
    <3>2. i + 1 = j + 1
      BY <1>4, <3>1 DEF AcksOnce, AcksDiffer
    <3> QED
      BY <2>2, <3>1, <3>2
  <2>3. CASE x = p /\ y # p
    <3>1. /\ i + 1 \in 1 .. Len(q[p]) /\ n[x][i] = q[p][i + 1]
          /\ j \in 1 .. Len(q[y]) /\ n[y][j] = q[y][j]
      BY <1>1, <2>3
    <3>2. p = y
      BY <1>4, <3>1 DEF AcksOnce, AcksDiffer
    <3> QED
      BY <2>3, <3>2
  <2>4. CASE x # p /\ y = p
    <3>1. /\ j + 1 \in 1 .. Len(q[p]) /\ n[y][j] = q[p][j + 1]
          /\ i \in 1 .. Len(q[x]) /\ n[x][i] = q[x][i]
      BY <1>1, <2>4
    <3>2. x = p
      BY <1>4, <3>1 DEF AcksOnce, AcksDiffer
    <3> QED
      BY <2>4, <3>2
  <2> QED
    BY <2>1, <2>2, <2>3, <2>4
<1>5. AcksFit(s, c, n)
  BY <1>3 DEF AcksFit
<1>6. AcksDiffer(n)
  BY <1>4 DEF AcksDiffer
<1>7. AcksOnce(s, c, n)
  BY <1>5, <1>6 DEF AcksOnce
<1> QED
  BY <1>3, <1>7 DEF n

-----------------------------------------------------------------------------
(* Sealing                                                                 *)

\* No nonce of the bag was used twice.
Unique(bag) == \A n \in DOMAIN bag : bag[n] = 1

\* Sealing no record uses no nonce.
LEMMA SealNone ==
  ASSUME NonceUnique
  PROVE  DOMAIN SealAll(<<>>) = DOMAIN sealed /\ Unique(SealAll(<<>>))
<1>1. DOMAIN <<>> = {} /\ Cardinality({}) = 0
  BY FS_EmptySet
<1>2. \A n : {i \in DOMAIN <<>> : Nonce(<<>>[i]) = n} = {}
  BY <1>1
<1>3. DOMAIN SealAll(<<>>) = DOMAIN sealed
  BY <1>1 DEF SealAll
<1>4. ASSUME NEW n \in DOMAIN sealed PROVE SealAll(<<>>)[n] = 1
  <2>1. SealAll(<<>>)[n] = sealed[n] + Cardinality({})
    BY <1>1, <1>2 DEF SealAll
  <2> QED
    BY <1>1, <2>1 DEF NonceUnique
<1> QED
  BY <1>3, <1>4 DEF Unique

\* Sealing records under fresh and different nonces.
LEMMA SealFresh ==
  ASSUME NonceUnique, NEW out, NEW m \in Nat, DOMAIN out = 1 .. m,
         \A i \in 1 .. m : Nonce(out[i]) \notin DOMAIN sealed,
         \A i, j \in 1 .. m : Nonce(out[i]) = Nonce(out[j]) => i = j
  PROVE  /\ DOMAIN SealAll(out)
              = DOMAIN sealed \cup {Nonce(out[i]) : i \in 1 .. m}
         /\ Unique(SealAll(out))
<1> DEFINE at(n) == {i \in DOMAIN out : Nonce(out[i]) = n}
<1>1. DOMAIN SealAll(out) = DOMAIN sealed \cup {Nonce(out[i]) : i \in 1 .. m}
  BY DEF SealAll
<1>2. ASSUME NEW n \in DOMAIN sealed PROVE SealAll(out)[n] = 1
  <2>1. at(n) = {}
    OBVIOUS
  <2>2. SealAll(out)[n] = sealed[n] + Cardinality(at(n))
    BY DEF SealAll
  <2>3. Cardinality(at(n)) = 0
    BY <2>1, FS_EmptySet
  <2> QED
    BY <2>2, <2>3 DEF NonceUnique
<1>3. ASSUME NEW k \in 1 .. m PROVE SealAll(out)[Nonce(out[k])] = 1
  <2> DEFINE n == Nonce(out[k])
  <2>1. at(n) = {k} /\ n \notin DOMAIN sealed
    OBVIOUS
  <2>2. SealAll(out)[n] = 0 + Cardinality(at(n))
    BY <2>1 DEF SealAll
  <2>3. Cardinality(at(n)) = 1
    BY <2>1, FS_Singleton
  <2> QED
    BY <2>2, <2>3
<1> QED
  BY <1>1, <1>2, <1>3 DEF Unique

\* Sealing one record under a fresh nonce keeps every nonce unique.
LEMMA SealOne ==
  ASSUME NonceUnique, NEW r, Nonce(r) \notin DOMAIN sealed
  PROVE  /\ DOMAIN SealAll(<<r>>) = DOMAIN sealed \cup {Nonce(r)}
         /\ Unique(SealAll(<<r>>))
<1> DEFINE out == <<r>>
<1>1. DOMAIN out = 1 .. 1 /\ out[1] = r /\ \A i \in 1 .. 1 : i = 1
  OBVIOUS
<1> HIDE DEF out
<1>2. {Nonce(out[i]) : i \in 1 .. 1} = {Nonce(r)}
  BY <1>1
<1>3. /\ DOMAIN SealAll(out)
           = DOMAIN sealed \cup {Nonce(out[i]) : i \in 1 .. 1}
      /\ Unique(SealAll(out))
  BY <1>1, SealFresh
<1> QED
  BY <1>2, <1>3 DEF out

\* So does sealing two, when the second nonce is not that of the first.
LEMMA SealTwo ==
  ASSUME NonceUnique, NEW r, NEW q, Nonce(r) \notin DOMAIN sealed,
         Nonce(q) \notin DOMAIN sealed \cup {Nonce(r)}
  PROVE  /\ DOMAIN SealAll(<<r, q>>)
              = (DOMAIN sealed \cup {Nonce(r)}) \cup {Nonce(q)}
         /\ Unique(SealAll(<<r, q>>))
<1> DEFINE out == <<r, q>>
<1>1. DOMAIN out = 1 .. 2 /\ out[1] = r /\ out[2] = q
      /\ 1 \in 1 .. 2 /\ 2 \in 1 .. 2 /\ \A i \in 1 .. 2 : i = 1 \/ i = 2
  OBVIOUS
<1> HIDE DEF out
<1>2. {Nonce(out[i]) : i \in 1 .. 2} = {Nonce(r), Nonce(q)}
  BY <1>1
<1>3. \A i, j \in 1 .. 2 : Nonce(out[i]) = Nonce(out[j]) => i = j
  BY <1>1
<1>4. /\ DOMAIN SealAll(out)
           = DOMAIN sealed \cup {Nonce(out[i]) : i \in 1 .. 2}
      /\ Unique(SealAll(out))
  BY <1>1, <1>3, SealFresh
<1> QED
  BY <1>2, <1>4 DEF out

-----------------------------------------------------------------------------
(* The server's own state                                                  *)

\* What a handler leaves alone when it only notes something down.
Grows(s, t) ==
  /\ t.secret = s.secret /\ t.pending = s.pending /\ t.epoch = s.epoch
  /\ t.data_number = s.data_number /\ t.control_number = s.control_number
  /\ t.up = s.up /\ t.reason = s.reason
  /\ Len(s.transcript) <= Len(t.transcript)

\* A server whose counters and transcript only grow still covers what it sealed.
LEMMA GrowsOk ==
  ASSUME NEW s, NEW t \in ServerStates, ServerOk(s), Grows(s, t)
  PROVE  ServerOk(t) /\ \A N : ServerCovers(s, N) => ServerCovers(t, N)
<1>1. /\ Len(s.transcript) \in Nat /\ Len(t.transcript) \in Nat
      /\ Len(s.secret) \in Nat
      /\ \A p \in s.pending : Len(p.secret) \in Nat
  BY DEF ServerOk, ServerStates, Transcripts
<1>2. Len(t.secret) <= Len(t.transcript)
  BY <1>1 DEF ServerOk, Grows
<1>3. ASSUME NEW p \in t.pending
      PROVE  /\ Len(t.secret) < Len(p.secret)
             /\ Len(p.secret) <= Len(t.transcript)
             /\ t.epoch < p.epoch
  BY <1>1 DEF ServerOk, Grows
<1>4. Handshaking(t) => /\ t.secret = <<>> /\ t.pending = {}
                        /\ t.data_number = 0 /\ t.control_number = 0
  BY DEF ServerOk, Grows, Handshaking
<1>5. ASSUME NEW N, ServerCovers(s, N) PROVE ServerCovers(t, N)
  BY <1>1, <1>5 DEF ServerCovers, Grows
<1> QED
  BY <1>2, <1>3, <1>4, <1>5 DEF ServerOk

\* A server that goes down changes neither its keys nor its counters.
LEMMA DownOk ==
  ASSUME NEW s, ServerOk(s), NEW why \in Reasons, why # "none"
  PROVE  /\ ServerOk(Down(s, why)) /\ Down(s, why).transcript = s.transcript
         /\ \A N : ServerCovers(s, N) => ServerCovers(Down(s, why), N)
<1> DEFINE t == Down(s, why)
<1>1. /\ t \in ServerStates /\ t.secret = s.secret /\ t.pending = s.pending
      /\ t.epoch = s.epoch /\ t.transcript = s.transcript
      /\ t.data_number = s.data_number /\ t.control_number = s.control_number
      /\ t.reason = why
  BY DEF ServerOk, ServerStates, Down
<1> HIDE DEF t
<1>2. ServerOk(t)
  BY <1>1 DEF ServerOk, Handshaking
<1>3. ASSUME NEW N, ServerCovers(s, N) PROVE ServerCovers(t, N)
  BY <1>1, <1>3 DEF ServerCovers
<1> QED
  BY <1>1, <1>2, <1>3 DEF t

\* Opening a record (expiry of the old epoch first) moves no send counter.
LEMMA OpenedFacts ==
  ASSUME NEW s, ServerOk(s), NEW r
  PROVE  /\ ExpirePrevious(s) \in ServerStates /\ Grows(s, ExpirePrevious(s))
         /\ Opened(ExpirePrevious(s), r) \in ServerStates
         /\ Grows(s, Opened(ExpirePrevious(s), r))
         /\ Opened(ExpirePrevious(s), r).transcript = s.transcript
<1> DEFINE e == ExpirePrevious(s)
           t == Opened(e, r)
<1>0. Len(s.transcript) \in Nat /\ s \in ServerStates
  BY DEF ServerOk, ServerStates, Transcripts
<1>1. e \in ServerStates /\ Grows(s, e) /\ e.transcript = s.transcript
      /\ \A p \in e.previous : p.remaining # 0
  <2>1. CASE \E p \in s.previous : p.remaining = 0 \/ p.left = 0
    <3>1. e = [s EXCEPT !.previous = {}]
      BY <2>1 DEF ExpirePrevious
    <3> HIDE DEF e
    <3>2. e \in ServerStates /\ e.previous = {}
      BY <1>0, <3>1 DEF ServerStates
    <3>3. e.up = s.up /\ e.reason = s.reason
      BY <1>0, <3>1 DEF ServerStates
    <3>4. Grows(s, e) /\ e.transcript = s.transcript
      BY <1>0, <3>1, <3>3 DEF ServerStates, Grows
    <3> QED
      BY <3>2, <3>4
  <2>2. CASE ~\E p \in s.previous : p.remaining = 0 \/ p.left = 0
    <3>1. e = s
      BY <2>2 DEF ExpirePrevious
    <3> HIDE DEF e
    <3> QED
      BY <1>0, <2>2, <3>1 DEF Grows
  <2> QED
    BY <2>1, <2>2
<1> HIDE DEF e
<1>2. t \in ServerStates /\ Grows(e, t) /\ t.transcript = e.transcript
  <2>1. CASE t = e
    BY <1>0, <1>1, <2>1 DEF Grows
  <2>2. CASE t = [e EXCEPT !.data_records = @ + 1]
    BY <1>0, <1>1, <2>2 DEF Grows, ServerStates
  <2>3. CASE t = [e EXCEPT !.previous =
                    {[p EXCEPT !.remaining = @ - 1] : p \in @}]
    <3> DEFINE P == {[p EXCEPT !.remaining = @ - 1] : p \in e.previous}
    <3>1. P \subseteq [epoch : Int, secret : Transcripts, left : Nat,
                       remaining : Nat]
      BY <1>1 DEF ServerStates
    <3>2. t = [e EXCEPT !.previous = P]
      BY <1>1, <2>3 DEF ServerStates
    <3> HIDE DEF P
    <3> QED
      BY <1>0, <1>1, <3>1, <3>2 DEF Grows, ServerStates
  <2> QED
    BY <2>1, <2>2, <2>3 DEF Opened
<1> QED
  BY <1>0, <1>1, <1>2 DEF Grows, e

-----------------------------------------------------------------------------
(* What the server sends                                                   *)

\* The invariant, as far as the server can disturb it.
ServerHolds(s, q, used) ==
  /\ ServerOk(s) /\ ServerCovers(s, used)
  /\ q \in Queues /\ ShortHellos(q) /\ AcksOnce(s, client, q)
  /\ used \subseteq Nonces /\ ClientCovers(client, used)

\* A record the server may send on its way from s to t.
Sendable(s, t, r) ==
  /\ r \in Records /\ r.from = "server"
  /\ r.type = "server_hello" => Len(r.tag) = 1
  /\ r.type = "ack" => /\ r.tag \in Transcripts
                       /\ Len(s.transcript) <= Len(r.tag)
                       /\ Len(r.tag) < Len(t.transcript)

\* What a handler returns: a state, and nothing or one record that is new.
Outcome(s, used, t, out) ==
  /\ ServerOk(t) /\ Len(s.transcript) <= Len(t.transcript)
  /\ \/ out = <<>> /\ ServerCovers(t, used)
     \/ \E r : /\ out = <<r>> /\ Sendable(s, t, r)
               /\ Nonce(r) \notin used
               /\ ServerCovers(t, used \cup {Nonce(r)})

\* A nonce of the control key that has just been used.
LEMMA ControlNext ==
  ASSUME NEW s, NEW t, NEW used, used \subseteq Nonces, ServerCovers(s, used),
         s.control_number \in Nat, Len(s.transcript) \in Nat,
         Len(t.transcript) \in Nat,
         t.secret = s.secret, t.data_number = s.data_number,
         t.control_number = s.control_number + 1,
         Len(s.transcript) <= Len(t.transcript)
  PROVE  ServerCovers(t, used \cup
           {<<"server", "control", s.secret, s.control_number>>})
<1> DEFINE m == <<"server", "control", s.secret, s.control_number>>
<1> SUFFICES ASSUME NEW n \in used \cup {m}, n[1] = "server"
             PROVE  /\ n[2] = "data" => Before(n, t.secret, t.data_number)
                    /\ n[2] = "control" =>
                         Before(n, t.secret, t.control_number)
                    /\ n[2] = "handshake" => Len(t.transcript) >= 4
  BY DEF ServerCovers
<1>1. CASE n = m
  BY <1>1 DEF Before
<1>2. CASE n \in used
  <2>1. /\ n[2] = "data" => Before(n, s.secret, s.data_number)
        /\ n[2] = "control" => Before(n, s.secret, s.control_number)
        /\ n[2] = "handshake" => Len(s.transcript) >= 4
    BY <1>2 DEF ServerCovers
  <2>2. n[4] \in Nat
    BY <1>2 DEF Nonces
  <2> QED
    BY <2>1, <2>2 DEF Before
<1> QED
  BY <1>1, <1>2

\* A longer transcript keeps the ACKs in their place.
LEMMA AcksKept ==
  ASSUME NEW s \in ServerStates, NEW t \in ServerStates,
         NEW c \in ClientStates, NEW q,
         AcksOnce(s, c, q), Len(s.transcript) <= Len(t.transcript)
  PROVE  AcksOnce(t, c, q)
<1>1. Len(s.transcript) \in Nat /\ Len(t.transcript) \in Nat
      /\ (\A k \in Transcripts : Len(k) \in Nat)
  BY DEF ServerStates, Transcripts
<1>2. \A e \in c.pending : e.secret \in Transcripts
  BY DEF ClientStates
<1>3. ASSUME NEW x \in Paths, NEW i \in 1 .. Len(q[x]), q[x][i].type = "ack"
      PROVE  /\ q[x][i].tag \in Transcripts
             /\ Len(q[x][i].tag) < Len(t.transcript)
             /\ ~Confirmed(c, q[x][i].tag)
  <2> DEFINE k == q[x][i].tag
  <2>1. k \in Transcripts /\ Len(k) < Len(s.transcript) /\ ~Confirmed(c, k)
    BY <1>3 DEF AcksOnce, AcksFit
  <2> HIDE DEF k
  <2>2. Len(k) < Len(t.transcript)
    BY <1>1, <2>1
  <2> QED
    BY <2>1, <2>2 DEF k
<1>4. AcksFit(t, c, q)
  BY <1>3 DEF AcksFit
<1>5. ConfirmedFits(t, c)
  BY <1>1, <1>2 DEF AcksOnce, ConfirmedFits
<1> QED
  BY <1>4, <1>5 DEF AcksOnce

\* One record sent by the server, over either path.
LEMMA SendsOne ==
  ASSUME client \in ClientStates,
         NEW s, NEW q, NEW used, ServerHolds(s, q, used),
         NEW t, ServerOk(t), Len(s.transcript) <= Len(t.transcript),
         NEW r, Sendable(s, t, r), ServerCovers(t, used \cup {Nonce(r)}),
         NEW p \in Paths
  PROVE  ServerHolds(t, Sent(q, p, <<r>>), used \cup {Nonce(r)})
<1>1. s \in ServerStates /\ t \in ServerStates /\ r \in Records
      /\ q \in Queues
  BY DEF ServerHolds, ServerOk, Sendable
<1>2. Sent(q, p, <<r>>) \in Queues
  BY <1>1, SentFacts
<1>3. ShortHellos(Sent(q, p, <<r>>))
  BY <1>1, HellosSent DEF ServerHolds, Sendable
<1>4. AcksOnce(t, client, Sent(q, p, <<r>>))
  BY <1>1, AcksSent DEF ServerHolds, Sendable
<1>5. used \cup {Nonce(r)} \subseteq Nonces
  BY <1>1, NonceType DEF ServerHolds
<1>6. ClientCovers(client, used \cup {Nonce(r)})
  <2>1. Nonce(r)[1] = "server"
    BY <1>1, NonceType DEF Sendable
  <2> QED
    BY <2>1 DEF ServerHolds, ClientCovers
<1> QED
  BY <1>2, <1>3, <1>4, <1>5, <1>6 DEF ServerHolds

\* A server step that sends nothing.
LEMMA SendsNone ==
  ASSUME client \in ClientStates,
         NEW s, NEW q, NEW used, ServerHolds(s, q, used),
         NEW t, ServerOk(t), Len(s.transcript) <= Len(t.transcript),
         ServerCovers(t, used), NEW p \in Paths
  PROVE  ServerHolds(t, q, used) /\ Sent(q, p, <<>>) = q
<1>1. s \in ServerStates /\ t \in ServerStates /\ q \in Queues
  BY DEF ServerHolds, ServerOk
<1> QED
  BY <1>1, AcksKept, SentNothing DEF ServerHolds

\* The request takes the next number of the current control key.
LEMMA RequestOutcome ==
  ASSUME NEW s, ServerOk(s), ~Handshaking(s),
         NEW used, used \subseteq Nonces, ServerCovers(s, used)
  PROVE  LET r == ControlRecord(s, "request", <<>>)
             t == Requested(s, r)
         IN  /\ ServerOk(t) /\ Len(s.transcript) <= Len(t.transcript)
             /\ Sendable(s, t, r) /\ Nonce(r) \notin used
             /\ ServerCovers(t, used \cup {Nonce(r)})
<1> DEFINE r == ControlRecord(s, "request", <<>>)
           t == Requested(s, r)
           u == Append(s.transcript, Label(r))
<1>0. s \in ServerStates /\ UPDATE_TIMEOUT \in Nat
  BY KeyUpdateAssumption DEF ServerOk
<1>1. /\ r \in Records /\ r.type = "request" /\ r.from = "server"
      /\ Nonce(r) = <<"server", "control", s.secret, s.control_number>>
  <2>1. <<>> \in Tags /\ "request" \in Types
    BY DEF Tags, Transcripts, Types
  <2> QED
    BY <1>0, <2>1, ControlFacts
<1> HIDE DEF r
<1>2. u \in Transcripts /\ Len(u) = Len(s.transcript) + 1
      /\ Len(s.transcript) \in Nat
  BY <1>0, <1>1, Extends DEF ServerStates
<1>3. /\ t \in ServerStates /\ t.secret = s.secret /\ t.pending = s.pending
      /\ t.epoch = s.epoch /\ t.data_number = s.data_number
      /\ t.control_number = s.control_number + 1 /\ t.transcript = u
      /\ t.up = s.up /\ t.reason = s.reason
  <2>1. t = [s EXCEPT !.transcript = u, !.control_number = @ + 1,
                      !.update_requested = TRUE,
                      !.deadline = {UPDATE_TIMEOUT}]
    BY <1>0 DEF Requested, ServerStates
  <2> HIDE DEF t, u
  <2>2. t \in ServerStates
    <3>1. s.control_number + 1 \in Nat
      BY <1>0 DEF ServerStates
    <3> QED
      BY <1>0, <1>2, <2>1, <3>1 DEF ServerStates
  <2>3. /\ t.secret = s.secret /\ t.pending = s.pending
        /\ t.epoch = s.epoch /\ t.data_number = s.data_number
        /\ t.control_number = s.control_number + 1 /\ t.transcript = u
    BY <1>0, <2>1 DEF ServerStates
  <2>4. t.up = s.up /\ t.reason = s.reason
    BY <1>0, <2>1 DEF ServerStates
  <2> QED
    BY <2>2, <2>3, <2>4
<1> HIDE DEF t, u
<1>4. ~Handshaking(t)
  BY <1>3 DEF Handshaking
<1>5. /\ Len(s.secret) \in Nat /\ s.control_number \in Nat
      /\ \A p \in s.pending : Len(p.secret) \in Nat
  BY <1>0 DEF ServerStates, Transcripts
<1>6. ServerOk(t)
  <2>1. Len(t.secret) <= Len(t.transcript)
    BY <1>2, <1>3, <1>5 DEF ServerOk
  <2>2. ASSUME NEW p \in t.pending
        PROVE  /\ Len(t.secret) < Len(p.secret)
               /\ Len(p.secret) <= Len(t.transcript)
               /\ t.epoch < p.epoch
    BY <1>2, <1>3, <1>5 DEF ServerOk
  <2> QED
    BY <1>3, <1>4, <2>1, <2>2 DEF ServerOk
<1>7. Sendable(s, t, r)
  BY <1>1 DEF Sendable
<1>8. Nonce(r) \notin used
  BY <1>1, <1>5 DEF ServerCovers, Before
<1>9. ServerCovers(t, used \cup {Nonce(r)})
  BY <1>1, <1>2, <1>3, <1>5, ControlNext
<1> QED
  BY <1>2, <1>3, <1>6, <1>7, <1>8, <1>9 DEF r, t

\* Two records, one after the other.
LEMMA TwoRecords ==
  ASSUME NEW r, NEW q
  PROVE  Append(<<r>>, q) = <<r, q>>
<1> DEFINE S == {r, q}
           a == Append(<<r>>, q)
           b == <<r, q>>
<1>1. <<r>> \in Seq(S) /\ Len(<<r>>) = 1 /\ <<r>>[1] = r
  OBVIOUS
<1>2. a \in Seq(S) /\ Len(a) = 2 /\ a[1] = r /\ a[2] = q
  BY <1>1, AppendProperties
<1>3. b \in Seq(S) /\ Len(b) = 2 /\ b[1] = r /\ b[2] = q
  OBVIOUS
<1> HIDE DEF a, b
<1>4. \A i \in 1 .. 2 : a[i] = b[i]
  BY <1>2, <1>3
<1>5. a = b
  BY <1>2, <1>3, <1>4
<1> QED
  BY <1>5 DEF a, b

\* The invariant again after a step of the server.
LEMMA ServerKeeps ==
  ASSUME NonceInv, UNCHANGED client, c2s' \in Queues, ShortAuths(c2s'),
         link' \in Links, NonceUnique',
         ServerHolds(server', s2c', DOMAIN sealed')
  PROVE  NonceInv'
<1>1. TypeOK'
  BY DEF NonceInv, TypeOK, ServerHolds, ServerOk
<1> QED
  BY <1>1 DEF NonceInv, ServerHolds

\* A link that is closed is still a link.
LEMMA ClosedType ==
  ASSUME NEW links \in Links, NEW S
  PROVE  Closed(links, S) \in Links
BY DEF Closed, Links

\* The end of an event: nothing, a time-out or a request follows the handler's
\* own record.
LEMMA FinishStep ==
  ASSUME NonceInv, NEW s, NEW p \in Paths, NEW out, NEW links \in Links,
         ~Handshaking(s), Outcome(server, DOMAIN sealed, s, out),
         ServerFinish(s, p, out, links)
  PROVE  /\ ServerHolds(server', s2c', DOMAIN sealed')
         /\ NonceUnique' /\ link' \in Links
<1> DEFINE handled == Sent(s2c, p, out)
           used == DOMAIN SealAll(out)
           request == ControlRecord(s, "request", <<>>)
<1>0. /\ client \in ClientStates /\ NonceUnique
      /\ ServerHolds(server, s2c, DOMAIN sealed)
      /\ ServerOk(s) /\ Len(server.transcript) <= Len(s.transcript)
  BY DEF NonceInv, TypeOK, ServerHolds, Outcome
<1>1. /\ ServerHolds(s, handled, used) /\ Unique(SealAll(out))
      /\ Nonce(request) \notin used =>
           /\ DOMAIN SealAll(Append(out, request)) = used \cup {Nonce(request)}
           /\ Unique(SealAll(Append(out, request)))
  <2>1. CASE out = <<>> /\ ServerCovers(s, DOMAIN sealed)
    <3>1. used = DOMAIN sealed /\ Unique(SealAll(out))
      BY <1>0, <2>1, SealNone
    <3>2. Append(out, request) = <<request>>
      BY <2>1
    <3>3. ServerHolds(s, handled, used)
      BY <1>0, <2>1, <3>1, SendsNone
    <3> QED
      BY <1>0, <3>1, <3>2, <3>3, SealOne
  <2>2. CASE \E r : /\ out = <<r>> /\ Sendable(server, s, r)
                    /\ Nonce(r) \notin DOMAIN sealed
                    /\ ServerCovers(s, DOMAIN sealed \cup {Nonce(r)})
    <3>1. PICK r : /\ out = <<r>> /\ Sendable(server, s, r)
                   /\ Nonce(r) \notin DOMAIN sealed
                   /\ ServerCovers(s, DOMAIN sealed \cup {Nonce(r)})
      BY <2>2
    <3>2. used = DOMAIN sealed \cup {Nonce(r)} /\ Unique(SealAll(out))
      BY <1>0, <3>1, SealOne
    <3>3. Append(out, request) = <<r, request>>
      BY <3>1, TwoRecords
    <3>4. ServerHolds(s, handled, used)
      BY <1>0, <3>1, <3>2, SendsOne
    <3>5. Nonce(request) \notin used =>
            /\ DOMAIN SealAll(<<r, request>>) = used \cup {Nonce(request)}
            /\ Unique(SealAll(<<r, request>>))
      BY <1>0, <3>1, <3>2, SealTwo
    <3> QED
      BY <3>2, <3>3, <3>4, <3>5
  <2> QED
    BY <2>1, <2>2 DEF Outcome
<1> HIDE DEF handled, used, request
<1>2. CASE 0 \in s.deadline
  <2>1. /\ server' = Down(s, "timeout") /\ link' = Closed(links, Paths)
        /\ s2c' = handled /\ sealed' = SealAll(out)
    BY <1>2 DEF ServerFinish, handled
  <2>2. "timeout" \in Reasons
    BY DEF Reasons
  <2>3. /\ ServerOk(server') /\ server'.transcript = s.transcript
        /\ ServerCovers(server', used)
    BY <1>0, <1>1, <2>1, <2>2, DownOk DEF ServerHolds
  <2>4. Len(s.transcript) <= Len(server'.transcript)
    BY <1>0, <2>3 DEF ServerOk, ServerStates, Transcripts
  <2>5. ServerHolds(server', handled, used)
    BY <1>0, <1>1, <2>3, <2>4, SendsNone
  <2>6. link' \in Links
    BY <2>1, ClosedType
  <2> QED
    BY <1>1, <2>1, <2>5, <2>6 DEF used, NonceUnique, Unique
<1>3. CASE 0 \notin s.deadline /\ UpdateDue(s)
  <2>1. /\ server' = Requested(s, request) /\ link' = links
        /\ s2c' = Sent(handled, s.carrier, <<request>>)
        /\ sealed' = SealAll(Append(out, request))
    BY <1>3 DEF ServerFinish, handled, request
  <2>2. /\ ServerOk(server') /\ Len(s.transcript) <= Len(server'.transcript)
        /\ Sendable(s, server', request) /\ Nonce(request) \notin used
        /\ ServerCovers(server', used \cup {Nonce(request)})
    BY <1>0, <1>1, <2>1, RequestOutcome DEF ServerHolds, request
  <2>3. s.carrier \in Paths
    BY <1>0 DEF ServerOk, ServerStates
  <2>4. ServerHolds(server', s2c', used \cup {Nonce(request)})
    BY <1>0, <1>1, <2>1, <2>2, <2>3, SendsOne
  <2> QED
    BY <1>1, <2>1, <2>2, <2>4 DEF NonceUnique, Unique
<1>4. CASE 0 \notin s.deadline /\ ~UpdateDue(s)
  <2>1. /\ server' = s /\ link' = links
        /\ s2c' = handled /\ sealed' = SealAll(out)
    BY <1>4 DEF ServerFinish, handled
  <2> QED
    BY <1>1, <2>1 DEF used, NonceUnique, Unique
<1> QED
  BY <1>2, <1>3, <1>4

-----------------------------------------------------------------------------
(* The handlers of the server                                              *)

\* The numbers in the server's state.
LEMMA ServerFacts ==
  ASSUME NEW s, ServerOk(s)
  PROVE  /\ s \in ServerStates /\ s.epoch \in Int /\ s.secret \in Transcripts
         /\ s.transcript \in Transcripts
         /\ Len(s.transcript) \in Nat /\ Len(s.secret) \in Nat
         /\ s.data_number \in Nat /\ s.control_number \in Nat
         /\ s.data_records + 1 \in Nat /\ s.data_number + 1 \in Nat
         /\ s.control_number + 1 \in Nat
<1>1. /\ s \in ServerStates /\ s.epoch \in Int /\ s.secret \in Transcripts
      /\ s.transcript \in Transcripts /\ s.data_records \in Nat
      /\ s.data_number \in Nat /\ s.control_number \in Nat
  BY DEF ServerOk, ServerStates
<1>2. \A k \in Transcripts : Len(k) \in Nat
  BY DEF Transcripts
<1> QED
  BY <1>1, <1>2

\* A handler that answers with a record under the current control key.
LEMMA ControlOutcome ==
  ASSUME NEW s, ServerOk(s), ~Handshaking(s),
         NEW used, used \subseteq Nonces, ServerCovers(s, used),
         NEW type \in Types, type # "server_hello", NEW tag \in Tags,
         NEW t \in ServerStates,
         t.secret = s.secret, t.epoch = s.epoch, t.up = s.up,
         t.reason = s.reason, t.data_number = s.data_number,
         t.control_number = s.control_number + 1,
         Len(s.transcript) <= Len(t.transcript),
         \A p \in t.pending : /\ Len(s.secret) < Len(p.secret)
                              /\ Len(p.secret) <= Len(t.transcript)
                              /\ s.epoch < p.epoch,
         type = "ack" => /\ tag \in Transcripts
                         /\ Len(s.transcript) <= Len(tag)
                         /\ Len(tag) < Len(t.transcript)
  PROVE  /\ Outcome(s, used, t, <<ControlRecord(s, type, tag)>>)
         /\ ~Handshaking(t)
<1> DEFINE r == ControlRecord(s, type, tag)
<1>1. /\ s \in ServerStates /\ s.control_number \in Nat
      /\ Len(s.transcript) \in Nat /\ Len(t.transcript) \in Nat
      /\ Len(s.secret) \in Nat
  <2>1. t.transcript \in Transcripts
    BY DEF ServerStates
  <2>2. Len(t.transcript) \in Nat
    BY <2>1 DEF Transcripts
  <2> QED
    BY <2>2, ServerFacts
<1>2. /\ r \in Records /\ r.type = type /\ r.tag = tag /\ r.from = "server"
      /\ Nonce(r) = <<"server", "control", s.secret, s.control_number>>
  BY <1>1, ControlFacts
<1> HIDE DEF r
<1>3. ~Handshaking(t)
  BY DEF Handshaking
<1>4. Len(t.secret) <= Len(t.transcript)
  BY <1>1 DEF ServerOk
<1>5. ServerOk(t)
  BY <1>3, <1>4 DEF ServerOk
<1>6. Sendable(s, t, r)
  BY <1>2 DEF Sendable
<1>7. Nonce(r) \notin used
  BY <1>1, <1>2 DEF ServerCovers, Before
<1>8. ServerCovers(t, used \cup {Nonce(r)})
  BY <1>1, <1>2, ControlNext
<1>9. Outcome(s, used, t, <<r>>)
  BY <1>5, <1>6, <1>7, <1>8 DEF Outcome
<1> QED
  BY <1>3, <1>9 DEF r

\* A packet for the client, or the answer to a probe.
LEMMA DataOutcome ==
  ASSUME NEW s, ServerOk(s), ~Handshaking(s),
         NEW used, used \subseteq Nonces, ServerCovers(s, used)
  PROVE  /\ Outcome(s, used, SealData(s).state, SealData(s).out)
         /\ ~Handshaking(SealData(s).state)
<1> DEFINE r == DataRecord(s)
           t == [s EXCEPT !.data_records = @ + 1, !.data_number = @ + 1]
<1>0. SealData(s).state = t /\ SealData(s).out = <<r>>
  BY DEF SealData
<1>1. /\ s \in ServerStates /\ s.data_number \in Nat
      /\ s.data_number + 1 \in Nat /\ s.data_records + 1 \in Nat
      /\ Len(s.transcript) \in Nat /\ Len(s.secret) \in Nat
  BY ServerFacts
<1>2. /\ r \in Records /\ r.type = "data" /\ r.from = "server"
      /\ Nonce(r) = <<"server", "data", s.secret, s.data_number>>
  <2>1. /\ "server" \in Froms /\ "data" \in Kinds /\ "data" \in Types
        /\ <<>> \in Tags
    BY DEF Froms, Kinds, Types, Tags, Transcripts
  <2>2. s.epoch \in Int /\ s.secret \in Transcripts
    BY <1>1 DEF ServerStates
  <2> QED
    BY <1>1, <2>1, <2>2 DEF DataRecord, Record, Records, Nonce
<1>3. t \in ServerStates
  BY <1>1 DEF ServerStates
<1>4. /\ t.secret = s.secret /\ t.epoch = s.epoch /\ t.pending = s.pending
      /\ t.transcript = s.transcript
      /\ t.data_number = s.data_number + 1
      /\ t.control_number = s.control_number
  BY <1>1 DEF ServerStates
<1>5. t.up = s.up /\ t.reason = s.reason
  BY <1>1 DEF ServerStates
<1> HIDE DEF r, t
<1>6. ~Handshaking(t)
  BY <1>5 DEF Handshaking
<1>7. ServerOk(t)
  BY <1>3, <1>4, <1>6 DEF ServerOk
<1>8. Nonce(r) \notin used
  BY <1>1, <1>2 DEF ServerCovers, Before
<1>9. ServerCovers(t, used \cup {Nonce(r)})
  <2> DEFINE m == <<"server", "data", s.secret, s.data_number>>
  <2> SUFFICES ASSUME NEW n \in used \cup {m}, n[1] = "server"
               PROVE  /\ n[2] = "data" => Before(n, t.secret, t.data_number)
                      /\ n[2] = "control" =>
                           Before(n, t.secret, t.control_number)
                      /\ n[2] = "handshake" => Len(t.transcript) >= 4
    BY <1>2 DEF ServerCovers
  <2>1. CASE n = m
    BY <1>1, <1>4, <2>1 DEF Before
  <2>2. CASE n \in used
    <3>1. /\ n[2] = "data" => Before(n, s.secret, s.data_number)
          /\ n[2] = "control" => Before(n, s.secret, s.control_number)
          /\ n[2] = "handshake" => Len(s.transcript) >= 4
      BY <2>2 DEF ServerCovers
    <3>2. n[4] \in Nat
      BY <2>2 DEF Nonces
    <3> QED
      BY <1>1, <1>4, <3>1, <3>2 DEF Before
  <2> QED
    BY <2>1, <2>2
<1>10. Sendable(s, t, r)
  BY <1>2 DEF Sendable
<1>11. Len(s.transcript) <= Len(t.transcript)
  BY <1>1, <1>4
<1>12. Outcome(s, used, t, <<r>>)
  BY <1>7, <1>8, <1>9, <1>10, <1>11 DEF Outcome
<1> QED
  BY <1>0, <1>6, <1>12

\* handle_ping: the PONG is sealed under the next control number.
LEMMA PingOutcome ==
  ASSUME NEW s, ServerOk(s), ~Handshaking(s),
         NEW used, used \subseteq Nonces, ServerCovers(s, used), NEW r
  PROVE  /\ Outcome(s, used, HandlePing(s, r).state, HandlePing(s, r).out)
         /\ ~Handshaking(HandlePing(s, r).state)
<1> DEFINE t == [s EXCEPT !.control_number = @ + 1]
<1>1. /\ HandlePing(s, r).state = t
      /\ HandlePing(s, r).out = <<ControlRecord(s, "pong", <<>>)>>
  BY DEF HandlePing
<1>2. s \in ServerStates /\ s.control_number + 1 \in Nat
      /\ Len(s.transcript) \in Nat
  BY ServerFacts
<1>3. t \in ServerStates
  BY <1>2 DEF ServerStates
<1>4. /\ t.secret = s.secret /\ t.epoch = s.epoch /\ t.pending = s.pending
      /\ t.transcript = s.transcript /\ t.data_number = s.data_number
      /\ t.control_number = s.control_number + 1
  BY <1>2 DEF ServerStates
<1>5. t.up = s.up /\ t.reason = s.reason
  BY <1>2 DEF ServerStates
<1>6. "pong" \in Types /\ "pong" # "server_hello" /\ "pong" # "ack"
      /\ <<>> \in Tags
  BY DEF Types, Tags, Transcripts
<1> HIDE DEF t
<1>7. \A p \in t.pending : /\ Len(s.secret) < Len(p.secret)
                           /\ Len(p.secret) <= Len(t.transcript)
                           /\ s.epoch < p.epoch
  BY <1>4 DEF ServerOk
<1>8. Len(s.transcript) <= Len(t.transcript)
  BY <1>2, <1>4
<1>9. /\ Outcome(s, used, t, <<ControlRecord(s, "pong", <<>>)>>)
      /\ ~Handshaking(t)
  BY <1>3, <1>4, <1>5, <1>6, <1>7, <1>8, ControlOutcome
<1> QED
  BY <1>1, <1>9

\* The next secret is longer than the current one, and the ACK's tag shorter
\* than the transcript that has counted it in.
LEMMA InitOutcome ==
  ASSUME NEW s, ServerOk(s), ~Handshaking(s),
         NEW used, used \subseteq Nonces, ServerCovers(s, used),
         NEW r \in Records
  PROVE  /\ Outcome(s, used, AcceptUpdateInit(s, r).state,
                    AcceptUpdateInit(s, r).out)
         /\ ~Handshaking(AcceptUpdateInit(s, r).state)
<1> DEFINE next == Append(s.transcript, Label(r))
           ack == ControlRecord(s, "ack", next)
           u == Append(next, Label(ack))
           P == {[epoch |-> s.epoch + 1, secret |-> next,
                  proof |-> "routine"]}
           t == [s EXCEPT !.transcript = u, !.control_number = @ + 1,
                          !.pending = P, !.update_requested = TRUE,
                          !.deadline = {UPDATE_TIMEOUT}]
<1>1. AcceptUpdateInit(s, r).state = t /\ AcceptUpdateInit(s, r).out = <<ack>>
  BY DEF AcceptUpdateInit
<1>2. /\ s \in ServerStates /\ s.transcript \in Transcripts /\ s.epoch \in Int
      /\ s.control_number + 1 \in Nat /\ UPDATE_TIMEOUT \in Nat
      /\ Len(s.transcript) \in Nat /\ Len(s.secret) \in Nat
  BY ServerFacts, KeyUpdateAssumption
<1>3. next \in Transcripts /\ Len(next) = Len(s.transcript) + 1
  BY <1>2, Extends
<1> HIDE DEF next
<1>4. ack \in Records
  BY <1>2, <1>3, ControlFacts DEF Tags, Types
<1> HIDE DEF ack
<1>5. u \in Transcripts /\ Len(u) = Len(next) + 1
  BY <1>3, <1>4, Extends
<1> HIDE DEF u
<1>6. P \subseteq [epoch : Int, secret : Transcripts, proof : Modes]
      /\ \A p \in P : p.secret = next /\ p.epoch = s.epoch + 1
  BY <1>2, <1>3 DEF Modes
<1> HIDE DEF P
<1>7. t \in ServerStates
  BY <1>2, <1>5, <1>6 DEF ServerStates
<1>8. /\ t.secret = s.secret /\ t.epoch = s.epoch /\ t.pending = P
      /\ t.transcript = u /\ t.data_number = s.data_number
      /\ t.control_number = s.control_number + 1
  BY <1>2 DEF ServerStates
<1>9. t.up = s.up /\ t.reason = s.reason
  BY <1>2 DEF ServerStates
<1> HIDE DEF t
<1>10. Len(s.secret) <= Len(s.transcript)
  BY DEF ServerOk
<1>11. \A p \in t.pending : /\ Len(s.secret) < Len(p.secret)
                            /\ Len(p.secret) <= Len(t.transcript)
                            /\ s.epoch < p.epoch
  BY <1>2, <1>3, <1>5, <1>6, <1>8, <1>10
<1>12. /\ Len(s.transcript) <= Len(t.transcript)
       /\ Len(s.transcript) <= Len(next) /\ Len(next) < Len(t.transcript)
  BY <1>2, <1>3, <1>5, <1>8
<1>13. "ack" \in Types /\ "ack" # "server_hello" /\ next \in Tags
  BY <1>3 DEF Types, Tags
<1>14. Outcome(s, used, t, <<ack>>) /\ ~Handshaking(t)
  BY <1>3, <1>7, <1>8, <1>9, <1>11, <1>12, <1>13, ControlOutcome DEF ack
<1> QED
  BY <1>1, <1>14

\* accept_full_rekey_init: the reply extends the transcript, the keys stay.
LEMMA FullInitOutcome ==
  ASSUME NEW s, ServerOk(s), ~Handshaking(s),
         NEW used, used \subseteq Nonces, ServerCovers(s, used),
         NEW r \in Records
  PROVE  /\ Outcome(s, used, AcceptFullRekeyInit(s, r).state,
                    AcceptFullRekeyInit(s, r).out)
         /\ ~Handshaking(AcceptFullRekeyInit(s, r).state)
<1> DEFINE after == Append(s.transcript, Label(r))
           reply == ControlRecord(s, "full_reply", after)
           next == Append(after, Label(reply))
           P == {[epoch |-> s.epoch + 1, secret |-> next, proof |-> "full"]}
           t == [s EXCEPT !.transcript = next, !.control_number = @ + 1,
                          !.pending = P, !.update_requested = TRUE,
                          !.deadline = {UPDATE_TIMEOUT}]
<1>1. /\ AcceptFullRekeyInit(s, r).state = t
      /\ AcceptFullRekeyInit(s, r).out = <<reply>>
  BY DEF AcceptFullRekeyInit
<1>2. /\ s \in ServerStates /\ s.transcript \in Transcripts /\ s.epoch \in Int
      /\ s.control_number + 1 \in Nat /\ UPDATE_TIMEOUT \in Nat
      /\ Len(s.transcript) \in Nat /\ Len(s.secret) \in Nat
  BY ServerFacts, KeyUpdateAssumption
<1>3. after \in Transcripts /\ Len(after) = Len(s.transcript) + 1
  BY <1>2, Extends
<1> HIDE DEF after
<1>4. reply \in Records
  BY <1>2, <1>3, ControlFacts DEF Tags, Types
<1> HIDE DEF reply
<1>5. next \in Transcripts /\ Len(next) = Len(after) + 1
  BY <1>3, <1>4, Extends
<1> HIDE DEF next
<1>6. P \subseteq [epoch : Int, secret : Transcripts, proof : Modes]
      /\ \A p \in P : p.secret = next /\ p.epoch = s.epoch + 1
  BY <1>2, <1>5 DEF Modes
<1> HIDE DEF P
<1>7. t \in ServerStates
  BY <1>2, <1>5, <1>6 DEF ServerStates
<1>8. /\ t.secret = s.secret /\ t.epoch = s.epoch /\ t.pending = P
      /\ t.transcript = next /\ t.data_number = s.data_number
      /\ t.control_number = s.control_number + 1
  BY <1>2 DEF ServerStates
<1>9. t.up = s.up /\ t.reason = s.reason
  BY <1>2 DEF ServerStates
<1> HIDE DEF t
<1>10. Len(s.secret) <= Len(s.transcript)
  BY DEF ServerOk
<1>11. \A p \in t.pending : /\ Len(s.secret) < Len(p.secret)
                            /\ Len(p.secret) <= Len(t.transcript)
                            /\ s.epoch < p.epoch
  BY <1>2, <1>3, <1>5, <1>6, <1>8, <1>10
<1>12. Len(s.transcript) <= Len(t.transcript)
  BY <1>2, <1>3, <1>5, <1>8
<1>13. /\ "full_reply" \in Types /\ "full_reply" # "server_hello"
       /\ "full_reply" # "ack" /\ after \in Tags
  BY <1>3 DEF Types, Tags
<1>14. Outcome(s, used, t, <<reply>>) /\ ~Handshaking(t)
  BY <1>7, <1>8, <1>9, <1>11, <1>12, <1>13, ControlOutcome DEF reply
<1> QED
  BY <1>1, <1>14

\* DONE is the first record under the next key.
LEMMA SwitchOutcome ==
  ASSUME NEW s, ServerOk(s), ~Handshaking(s), s.pending # {},
         NEW used, used \subseteq Nonces, ServerCovers(s, used),
         NEW r \in Records
  PROVE  /\ Outcome(s, used, Switched(s, r).state, Switched(s, r).out)
         /\ ~Handshaking(Switched(s, r).state)
<1> DEFINE p == CHOOSE q \in s.pending : TRUE
           after == Append(s.transcript, Label(r))
           done == Record("server", "control", p.epoch, p.secret, 0, "done",
                          p.secret)
           u == Append(after, Label(done))
           Q == {[epoch |-> s.epoch, secret |-> s.secret,
                  left |-> OLD_EPOCH_GRACE, remaining |-> OLD_EPOCH_RECORDS]}
           t == [s EXCEPT !.transcript = u, !.epoch = p.epoch,
                          !.secret = p.secret, !.pending = {}, !.previous = Q,
                          !.age = 0, !.data_records = 0,
                          !.update_requested = FALSE, !.deadline = {},
                          !.data_number = 0, !.control_number = 1]
<1>1. Switched(s, r).state = t /\ Switched(s, r).out = <<done>>
  BY DEF Switched
<1>2. /\ s \in ServerStates /\ s.transcript \in Transcripts /\ s.epoch \in Int
      /\ s.secret \in Transcripts
      /\ Len(s.transcript) \in Nat /\ Len(s.secret) \in Nat
      /\ OLD_EPOCH_GRACE \in Nat /\ OLD_EPOCH_RECORDS \in Nat
  BY ServerFacts, KeyUpdateAssumption
<1>3. p \in s.pending
  OBVIOUS
<1> HIDE DEF p
<1>4. /\ p.epoch \in Int /\ p.secret \in Transcripts
      /\ Len(s.secret) < Len(p.secret) /\ Len(p.secret) <= Len(s.transcript)
  BY <1>2, <1>3 DEF ServerStates, ServerOk
<1>5. Len(p.secret) \in Nat
  BY <1>4 DEF Transcripts
<1>6. after \in Transcripts /\ Len(after) = Len(s.transcript) + 1
  BY <1>2, Extends
<1>7. /\ done \in Records /\ done.type = "done" /\ done.from = "server"
      /\ Nonce(done) = <<"server", "control", p.secret, 0>>
  <2>1. /\ "server" \in Froms /\ "control" \in Kinds /\ "done" \in Types
        /\ p.secret \in Tags /\ 0 \in Nat
    BY <1>4 DEF Froms, Kinds, Types, Tags
  <2> QED
    BY <1>4, <2>1 DEF Record, Records, Nonce
<1> HIDE DEF done, after
<1>8. u \in Transcripts /\ Len(u) = Len(after) + 1
  BY <1>6, <1>7, Extends
<1>9. Q \subseteq [epoch : Int, secret : Transcripts, left : Nat,
                   remaining : Nat]
  BY <1>2
<1> HIDE DEF u, Q
<1>10. t \in ServerStates
  BY <1>2, <1>4, <1>8, <1>9 DEF ServerStates
<1>11. /\ t.secret = p.secret /\ t.epoch = p.epoch /\ t.pending = {}
       /\ t.transcript = u /\ t.data_number = 0 /\ t.control_number = 1
  BY <1>2 DEF ServerStates
<1>12. t.up = s.up /\ t.reason = s.reason
  BY <1>2 DEF ServerStates
<1> HIDE DEF t
<1>13. ~Handshaking(t)
  BY <1>12 DEF Handshaking
<1>14. /\ Len(s.transcript) <= Len(t.transcript)
       /\ Len(t.secret) <= Len(t.transcript)
  BY <1>2, <1>4, <1>5, <1>6, <1>8, <1>11
<1>15. ServerOk(t)
  BY <1>10, <1>11, <1>13, <1>14 DEF ServerOk
<1>16. Nonce(done) \notin used
  BY <1>2, <1>4, <1>5, <1>7 DEF ServerCovers, Before
<1>17. ServerCovers(t, used \cup {Nonce(done)})
  <2> DEFINE m == <<"server", "control", p.secret, 0>>
  <2> SUFFICES ASSUME NEW n \in used \cup {m}, n[1] = "server"
               PROVE  /\ n[2] = "data" => Before(n, t.secret, t.data_number)
                      /\ n[2] = "control" =>
                           Before(n, t.secret, t.control_number)
                      /\ n[2] = "handshake" => Len(t.transcript) >= 4
    BY <1>7 DEF ServerCovers
  <2>1. CASE n = m
    BY <1>11, <2>1 DEF Before
  <2>2. CASE n \in used
    <3>1. /\ n[2] = "data" => Before(n, s.secret, s.data_number)
          /\ n[2] = "control" => Before(n, s.secret, s.control_number)
          /\ n[2] = "handshake" => Len(s.transcript) >= 4
      BY <2>2 DEF ServerCovers
    <3>2. n[3] \in Transcripts
      BY <2>2 DEF Nonces
    <3>3. Len(n[3]) \in Nat
      BY <3>2 DEF Transcripts
    <3>4. \A k : Before(n, s.secret, k) => Len(n[3]) < Len(t.secret)
      BY <1>2, <1>4, <1>5, <1>11, <3>3 DEF Before
    <3>5. Len(s.transcript) >= 4 => Len(t.transcript) >= 4
      BY <1>2, <1>6, <1>8, <1>11
    <3> QED
      BY <3>1, <3>4, <3>5 DEF Before
  <2> QED
    BY <2>1, <2>2
<1>18. Sendable(s, t, done)
  BY <1>7 DEF Sendable
<1>19. Outcome(s, used, t, <<done>>)
  BY <1>14, <1>15, <1>16, <1>17, <1>18 DEF Outcome
<1> QED
  BY <1>1, <1>13, <1>19

-----------------------------------------------------------------------------
(* The steps of the server                                                 *)

\* The server takes a record and finishes the event.
LEMMA TakenStep ==
  ASSUME NonceInv, UNCHANGED client, NEW p \in Paths, Arrived(c2s, p),
         c2s' = [c2s EXCEPT ![p] = Tail(@)]
  PROVE  c2s' \in Queues /\ ShortAuths(c2s') /\ Head(c2s[p]) \in Records
<1>1. c2s \in Queues /\ c2s[p] # <<>> /\ ShortAuths(c2s)
  BY DEF NonceInv, TypeOK, Arrived
<1> QED
  BY <1>1, TailFacts, AuthsTaken

\* The state the handlers start from.
LEMMA OpenedOk ==
  ASSUME NonceInv, server.up, NEW r
  PROVE  LET s == Opened(ExpirePrevious(server), r)
         IN  /\ ServerOk(s) /\ ~Handshaking(s)
             /\ DOMAIN sealed \subseteq Nonces
             /\ ServerCovers(s, DOMAIN sealed)
             /\ s.transcript = server.transcript
             /\ s.pending = server.pending
<1> DEFINE s == Opened(ExpirePrevious(server), r)
<1>1. ServerOk(server) /\ ServerCovers(server, DOMAIN sealed)
      /\ DOMAIN sealed \subseteq Nonces
  BY DEF NonceInv, TypeOK
<1>2. s \in ServerStates /\ Grows(server, s)
      /\ s.transcript = server.transcript
  BY <1>1, OpenedFacts
<1> HIDE DEF s
<1>3. ServerOk(s) /\ ServerCovers(s, DOMAIN sealed)
  BY <1>1, <1>2, GrowsOk
<1>4. ~Handshaking(s) /\ s.pending = server.pending
  BY <1>2 DEF Grows, Handshaking
<1> QED
  BY <1>1, <1>2, <1>3, <1>4 DEF s

\* An outcome is measured by the transcript the handler started from.
LEMMA OutcomeFrom ==
  ASSUME NEW s, NEW s0, s.transcript = s0.transcript,
         NEW used, NEW t, NEW out, Outcome(s, used, t, out)
  PROVE  Outcome(s0, used, t, out)
BY DEF Outcome, Sendable

\* A handler that keeps to its outcome keeps the invariant.
LEMMA HandledStep ==
  ASSUME NonceInv, UNCHANGED client, NEW p \in Paths, Arrived(c2s, p),
         c2s' = [c2s EXCEPT ![p] = Tail(@)],
         NEW t, NEW out, ~Handshaking(t),
         Outcome(Opened(ExpirePrevious(server), Head(c2s[p])), DOMAIN sealed,
                 t, out),
         server.up, ServerFinish(t, p, out, link)
  PROVE  NonceInv'
<1>1. c2s' \in Queues /\ ShortAuths(c2s') /\ link \in Links
  BY TakenStep DEF NonceInv, TypeOK
<1>2. Opened(ExpirePrevious(server), Head(c2s[p])).transcript
        = server.transcript
  BY OpenedOk
<1>3. Outcome(server, DOMAIN sealed, t, out)
  BY <1>2, OutcomeFrom
<1>4. /\ ServerHolds(server', s2c', DOMAIN sealed')
      /\ NonceUnique' /\ link' \in Links
  BY <1>1, <1>3, FinishStep
<1> QED
  BY <1>1, <1>4, ServerKeeps

\* The server gives the session up.
LEMMA ServerEnds ==
  ASSUME NonceInv, UNCHANGED client, c2s' \in Queues, ShortAuths(c2s'),
         NEW e \in ServerStates, Grows(server, e),
         NEW why \in Reasons, why # "none", server' = Down(e, why),
         link' = Closed(link, Paths), UNCHANGED <<s2c, sealed>>
  PROVE  NonceInv'
<1> DEFINE used == DOMAIN sealed
<1>1. /\ client \in ClientStates /\ ServerHolds(server, s2c, used)
      /\ ServerOk(server) /\ ServerCovers(server, used) /\ link \in Links
      /\ NonceUnique
  BY DEF NonceInv, TypeOK, ServerHolds
<1>2. ServerOk(e) /\ ServerCovers(e, used)
      /\ Len(server.transcript) <= Len(e.transcript)
  BY <1>1, GrowsOk DEF Grows
<1>3. ServerOk(server') /\ ServerCovers(server', used)
      /\ server'.transcript = e.transcript
  BY <1>2, DownOk
<1>4. Len(server.transcript) <= Len(server'.transcript)
  BY <1>2, <1>3
<1> HIDE DEF used
<1>5. ServerHolds(server', s2c, used)
  BY <1>1, <1>3, <1>4, SendsNone DEF Paths
<1>6. link' \in Links
  BY <1>1, ClosedType
<1>7. NonceUnique' /\ ServerHolds(server', s2c', DOMAIN sealed')
  BY <1>1, <1>5 DEF NonceUnique, used
<1> QED
  BY <1>6, <1>7, ServerKeeps

\* Every record the server receives after the handshake.
LEMMA ReceiveStep ==
  ASSUME NonceInv, UNCHANGED client, ServerReceives
  PROVE  NonceInv'
<1>1. PICK p \in Paths :
        \/ ServerHandles(p, DataOk, HandlePacket)
        \/ ServerHandles(p, DataOk, HandleProbe)
        \/ ServerHandles(p, PingOk, HandlePing)
        \/ ServerHandles(p, InitOk, AcceptUpdateInit)
        \/ ServerHandles(p, FullInitOk, AcceptFullRekeyInit)
        \/ ServerHandles(p, CommitOk, AcceptUpdateCommit)
        \/ ServerHandles(p, FullConfirmOk, AcceptFullRekeyConfirm)
        \/ ServerRejects(p)
  BY DEF ServerReceives
<1> DEFINE r == Head(c2s[p])
           e == ExpirePrevious(server)
           s == Opened(e, r)
           used == DOMAIN sealed
<1>2. /\ server.up /\ Arrived(c2s, p) /\ c2s' = [c2s EXCEPT ![p] = Tail(@)]
  BY <1>1 DEF ServerHandles, ServerRejects, Reads
<1>3. c2s' \in Queues /\ ShortAuths(c2s') /\ r \in Records
  BY <1>2, TakenStep
<1>4. /\ ServerOk(s) /\ ~Handshaking(s) /\ used \subseteq Nonces
      /\ ServerCovers(s, used) /\ s.transcript = server.transcript
      /\ s.pending = server.pending
  BY <1>2, OpenedOk
<1>5. e \in ServerStates /\ Grows(server, e) /\ ServerOk(server)
  BY OpenedFacts DEF NonceInv
<1>6. e.pending = server.pending
  BY <1>5 DEF Grows
<1>7. CASE ServerHandles(p, DataOk, HandlePacket)
  <2>1. ServerFinish(s, p, <<>>, link)
    BY <1>7 DEF ServerHandles, HandlePacket
  <2>2. Len(s.transcript) <= Len(s.transcript)
    BY <1>4, ServerFacts
  <2>3. Outcome(s, used, s, <<>>)
    BY <1>4, <2>2 DEF Outcome
  <2> QED
    BY <1>2, <1>4, <2>1, <2>3, HandledStep
<1>8. CASE ServerHandles(p, DataOk, HandleProbe)
  <2>1. ServerFinish(SealData(s).state, p, SealData(s).out, link)
    BY <1>8 DEF ServerHandles, HandleProbe
  <2> QED
    BY <1>2, <1>4, <2>1, DataOutcome, HandledStep
<1>9. CASE ServerHandles(p, PingOk, HandlePing)
  <2>1. ServerFinish(HandlePing(s, r).state, p, HandlePing(s, r).out, link)
    BY <1>9 DEF ServerHandles
  <2> QED
    BY <1>2, <1>4, <2>1, PingOutcome, HandledStep
<1>10. CASE ServerHandles(p, InitOk, AcceptUpdateInit)
  <2>1. ServerFinish(AcceptUpdateInit(s, r).state, p,
                     AcceptUpdateInit(s, r).out, link)
    BY <1>10 DEF ServerHandles
  <2> QED
    BY <1>2, <1>3, <1>4, <2>1, InitOutcome, HandledStep
<1>11. CASE ServerHandles(p, FullInitOk, AcceptFullRekeyInit)
  <2>1. ServerFinish(AcceptFullRekeyInit(s, r).state, p,
                     AcceptFullRekeyInit(s, r).out, link)
    BY <1>11 DEF ServerHandles
  <2> QED
    BY <1>2, <1>3, <1>4, <2>1, FullInitOutcome, HandledStep
<1>12. CASE ServerHandles(p, CommitOk, AcceptUpdateCommit)
            \/ ServerHandles(p, FullConfirmOk, AcceptFullRekeyConfirm)
  <2>1. ServerFinish(Switched(s, r).state, p, Switched(s, r).out, link)
    BY <1>12 DEF ServerHandles, AcceptUpdateCommit, AcceptFullRekeyConfirm
  <2>2. e.pending # {}
    BY <1>12 DEF ServerHandles, CommitOk, FullConfirmOk, Confirms
  <2>3. s.pending # {}
    BY <1>4, <1>6, <2>2
  <2> QED
    BY <1>2, <1>3, <1>4, <2>1, <2>3, SwitchOutcome, HandledStep
<1>13. CASE ServerRejects(p)
  <2> DEFINE why == IF ~KnownEpoch(e, r) THEN "unknown epoch"
                    ELSE IF InitAtLimit(e, r) THEN "epoch overflow"
                    ELSE "invalid record"
  <2>1. /\ server' = Down(e, why) /\ link' = Closed(link, Paths)
        /\ UNCHANGED <<s2c, sealed>>
    BY <1>13 DEF ServerRejects
  <2>2. why \in Reasons /\ why # "none"
    BY DEF Reasons
  <2> HIDE DEF why, e
  <2> QED
    BY <1>3, <1>5, <2>1, <2>2, ServerEnds
<1> QED
  BY <1>1, <1>7, <1>8, <1>9, <1>10, <1>11, <1>12, <1>13

\* An event that answers nothing.
LEMMA QuietStep ==
  ASSUME NonceInv, UNCHANGED client, c2s' \in Queues, ShortAuths(c2s'),
         server.up, NEW t \in ServerStates, Grows(server, t),
         NEW p \in Paths, NEW links \in Links,
         ServerFinish(t, p, <<>>, links)
  PROVE  NonceInv'
<1>1. ServerOk(t) /\ ServerCovers(t, DOMAIN sealed)
      /\ Len(server.transcript) <= Len(t.transcript)
  BY GrowsOk DEF NonceInv, Grows
<1>2. ~Handshaking(t)
  BY DEF Grows, Handshaking
<1>3. Outcome(server, DOMAIN sealed, t, <<>>)
  BY <1>1 DEF Outcome
<1>4. /\ ServerHolds(server', s2c', DOMAIN sealed')
      /\ NonceUnique' /\ link' \in Links
  BY <1>2, <1>3, FinishStep
<1> QED
  BY <1>4, ServerKeeps

\* The challenge takes the next number of the current control key.
LEMMA ChallengeStep ==
  ASSUME NonceInv, UNCHANGED client, ServerChallenges
  PROVE  NonceInv'
<1>1. /\ ServerOk(server) /\ ServerCovers(server, DOMAIN sealed)
      /\ DOMAIN sealed \subseteq Nonces /\ link \in Links /\ NonceUnique
      /\ client \in ClientStates /\ ServerHolds(server, s2c, DOMAIN sealed)
  BY DEF NonceInv, TypeOK, ServerHolds
<1>2. c2s' \in Queues /\ ShortAuths(c2s') /\ server.up
  BY DEF NonceInv, TypeOK, ServerChallenges
<1>3. /\ server \in ServerStates /\ server.transcript \in Transcripts
      /\ server.control_number + 1 \in Nat /\ Len(server.transcript) \in Nat
      /\ PATH_TIMEOUT \in Nat /\ "second" \in Paths
  BY <1>1, ServerFacts, KeyUpdateAssumption DEF Paths
<1>4. CASE server.pending # {}
  <2> DEFINE t == [server EXCEPT !.offered = TRUE]
  <2>1. ServerFinish(t, "second", <<>>, Closed(link, {"second"}))
    BY <1>4 DEF ServerChallenges
  <2>2. t \in ServerStates /\ t.up = server.up /\ t.reason = server.reason
    BY <1>3 DEF ServerStates
  <2>3. Grows(server, t)
    BY <1>3, <2>2 DEF ServerStates, Grows
  <2> HIDE DEF t
  <2> QED
    BY <1>1, <1>2, <1>3, <2>1, <2>2, <2>3, ClosedType, QuietStep
<1>5. CASE server.pending = {}
  <2> DEFINE r == ControlRecord(server, "challenge", <<>>)
             u == Append(server.transcript, Label(r))
             t == [server EXCEPT !.offered = TRUE, !.transcript = u,
                                 !.control_number = @ + 1,
                                 !.validating = {PATH_TIMEOUT}]
  <2>1. /\ server' = t /\ s2c' = Sent(s2c, "second", <<r>>)
        /\ sealed' = SealAll(<<r>>) /\ link' = link
    BY <1>3, <1>5 DEF ServerChallenges, ServerStates
  <2>2. /\ "challenge" \in Types /\ "challenge" # "server_hello"
        /\ "challenge" # "ack" /\ <<>> \in Tags
    BY DEF Types, Tags, Transcripts
  <2>3. r \in Records
    BY <1>3, <2>2, ControlFacts
  <2>4. u \in Transcripts /\ Len(u) = Len(server.transcript) + 1
    BY <1>3, <2>3, Extends
  <2> HIDE DEF u
  <2>5. t \in ServerStates
    BY <1>3, <2>4 DEF ServerStates
  <2>6. /\ t.secret = server.secret /\ t.epoch = server.epoch
        /\ t.pending = {} /\ t.transcript = u
        /\ t.data_number = server.data_number
        /\ t.control_number = server.control_number + 1
    BY <1>3, <1>5 DEF ServerStates
  <2>7. t.up = server.up /\ t.reason = server.reason
    BY <1>3 DEF ServerStates
  <2> HIDE DEF t
  <2>8. Len(server.transcript) <= Len(t.transcript)
    BY <1>3, <2>4, <2>6
  <2>9. ~Handshaking(server)
    BY <1>2 DEF Handshaking
  <2>10. Outcome(server, DOMAIN sealed, t, <<r>>)
    BY <1>1, <2>2, <2>5, <2>6, <2>7, <2>8, <2>9, ControlOutcome
  <2> HIDE DEF r
  <2>11. /\ ServerOk(t) /\ Sendable(server, t, r)
         /\ Nonce(r) \notin DOMAIN sealed
         /\ ServerCovers(t, DOMAIN sealed \cup {Nonce(r)})
    BY <2>10 DEF Outcome
  <2>12. /\ DOMAIN sealed' = DOMAIN sealed \cup {Nonce(r)}
         /\ Unique(sealed')
    BY <1>1, <2>1, <2>11, SealOne
  <2>13. ServerHolds(server', s2c', DOMAIN sealed')
    BY <1>1, <1>3, <2>1, <2>8, <2>11, <2>12, SendsOne
  <2> QED
    BY <1>1, <1>2, <2>1, <2>12, <2>13, ServerKeeps DEF NonceUnique, Unique
<1> QED
  BY <1>4, <1>5

\* A validated path, and one that is given up.
LEMMA ValidateStep ==
  ASSUME NonceInv, UNCHANGED client, ServerValidates
  PROVE  NonceInv'
<1> DEFINE r == Head(c2s["second"])
           e == ExpirePrevious(server)
<1>1. /\ ServerOk(server) /\ link \in Links /\ server.up /\ "second" \in Paths
      /\ Arrived(c2s, "second") /\ c2s' = [c2s EXCEPT !["second"] = Tail(@)]
  BY DEF NonceInv, TypeOK, ServerValidates, Paths
<1>2. c2s' \in Queues /\ ShortAuths(c2s') /\ r \in Records
  BY <1>1, TakenStep
<1>3. CASE PathResponseOk(e, r)
  <2> DEFINE u == Append(e.transcript, Label(r))
             t == [e EXCEPT !.transcript = u, !.validating = {},
                            !.carrier = "second", !.draining = {DRAIN_TIME}]
  <2>1. e \in ServerStates /\ Grows(server, e)
    BY <1>1, OpenedFacts
  <2> HIDE DEF e, r
  <2>2. /\ e.transcript \in Transcripts /\ DRAIN_TIME \in Nat
        /\ server.transcript \in Transcripts
    BY <1>1, <2>1, KeyUpdateAssumption DEF ServerStates, ServerOk
  <2>3. u \in Transcripts /\ Len(u) = Len(e.transcript) + 1
        /\ Len(e.transcript) \in Nat
    BY <1>2, <2>2, Extends
  <2>4. CarrierSwitched(e, r) = t
    BY <2>1 DEF CarrierSwitched, ServerStates
  <2>5. ServerFinish(t, "second", <<>>, link)
    BY <1>3, <2>4 DEF ServerValidates, e, r
  <2> HIDE DEF u
  <2>6. t \in ServerStates
    BY <1>1, <2>1, <2>2, <2>3 DEF ServerStates
  <2>7. /\ t.secret = e.secret /\ t.epoch = e.epoch /\ t.pending = e.pending
        /\ t.transcript = u /\ t.data_number = e.data_number
        /\ t.control_number = e.control_number
    BY <2>1 DEF ServerStates
  <2>8. t.up = e.up /\ t.reason = e.reason
    BY <2>1 DEF ServerStates
  <2> HIDE DEF t
  <2>9. Len(server.transcript) \in Nat
    BY <2>2 DEF Transcripts
  <2>10. Grows(server, t)
    BY <2>1, <2>3, <2>7, <2>8, <2>9 DEF Grows
  <2> QED
    BY <1>1, <1>2, <2>5, <2>6, <2>10, QuietStep
<1>4. CASE ~PathResponseOk(e, r)
  <2> DEFINE o == Opened(e, r)
             t == [o EXCEPT !.validating = {}]
  <2>1. o \in ServerStates /\ Grows(server, o)
    BY <1>1, OpenedFacts
  <2>2. ServerFinish(t, "second", <<>>, Closed(link, {"second"}))
    BY <1>4 DEF ServerValidates
  <2> HIDE DEF o
  <2>3. t \in ServerStates /\ t.up = o.up /\ t.reason = o.reason
    BY <2>1 DEF ServerStates
  <2>4. Grows(server, t)
    BY <2>1, <2>3 DEF ServerStates, Grows
  <2> HIDE DEF t
  <2> QED
    BY <1>1, <1>2, <2>2, <2>3, <2>4, ClosedType, QuietStep
<1> QED
  BY <1>3, <1>4

\* The other events of an established session.
LEMMA EventStep ==
  ASSUME NonceInv, UNCHANGED client,
         \/ ServerGivesUpPath \/ ServerEndsDrain \/ ServerSends
         \/ ServerTimer \/ ServerStops \/ ServerSeesClose
  PROVE  NonceInv'
<1>1. /\ ServerOk(server) /\ ServerCovers(server, DOMAIN sealed)
      /\ DOMAIN sealed \subseteq Nonces /\ link \in Links
      /\ server \in ServerStates /\ server.carrier \in Paths
      /\ Len(server.transcript) \in Nat /\ "first" \in Paths
      /\ "second" \in Paths
  <2>1. ServerOk(server)
    BY DEF NonceInv
  <2>2. server.carrier \in Paths
    BY <2>1 DEF ServerOk, ServerStates
  <2> QED
    BY <2>1, <2>2, ServerFacts DEF NonceInv, TypeOK, Paths
<1>2. c2s' \in Queues /\ ShortAuths(c2s') /\ server.up
  BY DEF NonceInv, TypeOK, ServerGivesUpPath, ServerEndsDrain, ServerSends,
         ServerTimer, ServerStops, ServerSeesClose
<1>3. Grows(server, server)
  BY <1>1 DEF Grows
<1>4. CASE ServerGivesUpPath
  <2> DEFINE t == [server EXCEPT !.validating = {}]
  <2>1. t \in ServerStates /\ t.up = server.up /\ t.reason = server.reason
    BY <1>1 DEF ServerStates
  <2>2. Grows(server, t)
    BY <1>1, <2>1 DEF ServerStates, Grows
  <2>3. ServerFinish(t, "second", <<>>, Closed(link, {"second"}))
    BY <1>4 DEF ServerGivesUpPath
  <2> HIDE DEF t
  <2> QED
    BY <1>1, <1>2, <2>1, <2>2, <2>3, ClosedType, QuietStep
<1>5. CASE ServerEndsDrain
  <2> DEFINE t == [server EXCEPT !.draining = {}]
  <2>1. t \in ServerStates /\ t.up = server.up /\ t.reason = server.reason
    BY <1>1 DEF ServerStates
  <2>2. Grows(server, t)
    BY <1>1, <2>1 DEF ServerStates, Grows
  <2>3. ServerFinish(t, "first", <<>>, Closed(link, {"first"}))
    BY <1>5 DEF ServerEndsDrain
  <2> HIDE DEF t
  <2> QED
    BY <1>1, <1>2, <2>1, <2>2, <2>3, ClosedType, QuietStep
<1>6. CASE ServerSends
  <2>1. ServerFinish(SealData(server).state, server.carrier,
                     SealData(server).out, link)
    BY <1>6 DEF ServerSends
  <2>2. ~Handshaking(server)
    BY <1>2 DEF Handshaking
  <2>3. /\ Outcome(server, DOMAIN sealed, SealData(server).state,
                   SealData(server).out)
        /\ ~Handshaking(SealData(server).state)
    BY <1>1, <2>2, DataOutcome
  <2>4. /\ ServerHolds(server', s2c', DOMAIN sealed')
        /\ NonceUnique' /\ link' \in Links
    BY <1>1, <2>1, <2>3, FinishStep
  <2> QED
    BY <1>2, <2>4, ServerKeeps
<1>7. CASE ServerTimer
  <2>1. ServerFinish(server, server.carrier, <<>>, link)
    BY <1>7 DEF ServerTimer
  <2> QED
    BY <1>1, <1>2, <1>3, <2>1, QuietStep
<1>8. CASE ServerStops
  <2>1. "stopped" \in Reasons
    BY DEF Reasons
  <2> QED
    BY <1>1, <1>2, <1>3, <1>8, <2>1, ServerEnds DEF ServerStops
<1>9. CASE ServerSeesClose
  <2>1. "closed" \in Reasons
    BY DEF Reasons
  <2> QED
    BY <1>1, <1>2, <1>3, <1>9, <2>1, ServerEnds DEF ServerSeesClose
<1> QED
  BY <1>4, <1>5, <1>6, <1>7, <1>8, <1>9

-----------------------------------------------------------------------------
(* The handshake of the server                                             *)

\* A message of the handshake joins the transcript.
LEMMA ExtendedServer ==
  ASSUME NEW s, ServerOk(s), NEW r, r.type \in Types
  PROVE  /\ Extended(s, r) \in ServerStates /\ Grows(s, Extended(s, r))
         /\ Len(Extended(s, r).transcript) = Len(s.transcript) + 1
         /\ Len(s.transcript) \in Nat
<1> DEFINE u == Append(s.transcript, r.type)
           t == [s EXCEPT !.transcript = u]
<1>1. s \in ServerStates /\ s.transcript \in Transcripts
  BY ServerFacts
<1>2. u \in Transcripts /\ Len(u) = Len(s.transcript) + 1
      /\ Len(s.transcript) \in Nat
  BY <1>1 DEF Transcripts, Labels
<1>3. Extended(s, r) = t
  BY <1>1 DEF Extended, ServerStates
<1> HIDE DEF u
<1>4. t \in ServerStates /\ t.up = s.up /\ t.reason = s.reason
  BY <1>1, <1>2 DEF ServerStates
<1>5. t.transcript = u /\ Grows(s, t)
  BY <1>1, <1>2, <1>4 DEF ServerStates, Grows
<1> QED
  BY <1>2, <1>3, <1>4, <1>5

\* The keys of the handshake.
LEMMA HellosType ==
  ASSUME NEW e, e.transcript \in Transcripts, Len(e.transcript) >= 2
  PROVE  Hellos(e) \in Transcripts
<1>1. Len(e.transcript) \in Nat
  BY DEF Transcripts
<1>2. 1 \in 1 .. Len(e.transcript) + 1
      /\ 2 \in 0 .. Len(e.transcript)
  BY <1>1
<1> QED
  BY <1>1, <1>2 DEF Hellos, Transcripts

\* The server answers CLIENT_HELLO.
LEMMA HelloStep ==
  ASSUME NonceInv, UNCHANGED client, ServerHello
  PROVE  NonceInv'
<1> DEFINE r == Head(c2s["first"])
           hello == Clear("server", "server_hello", <<r.type>>)
           s1 == Extended(server, r)
           t == Extended(s1, hello)
<1>1. /\ ServerOk(server) /\ server \in ServerStates /\ client \in ClientStates
      /\ ServerHolds(server, s2c, DOMAIN sealed) /\ s2c \in Queues
      /\ ShortHellos(s2c) /\ AcksOnce(server, client, s2c)
      /\ ServerCovers(server, DOMAIN sealed) /\ "first" \in Paths
  BY DEF NonceInv, TypeOK, ServerHolds, Paths
<1>2. /\ Arrived(c2s, "first") /\ c2s' = [c2s EXCEPT !["first"] = Tail(@)]
      /\ server' = t /\ s2c' = Sent(s2c, "first", <<hello>>)
      /\ link' = link /\ sealed' = sealed
  BY DEF ServerHello, Incoming
<1>3. c2s' \in Queues /\ ShortAuths(c2s') /\ r \in Records
  BY <1>1, <1>2, TakenStep
<1>4. r.type \in Types
  BY <1>3 DEF Records
<1> HIDE DEF r
<1>5. /\ hello \in Records /\ hello.type = "server_hello"
      /\ hello.tag = <<r.type>>
  <2>1. /\ "server" \in Froms /\ "clear" \in Kinds /\ "server_hello" \in Types
        /\ <<>> \in Transcripts
    BY DEF Froms, Kinds, Types, Transcripts
  <2>2. <<r.type>> \in Tags
    BY <1>4 DEF Tags, Transcripts, Labels
  <2> QED
    BY <2>1, <2>2 DEF Clear, Record, Records
<1>6. Len(hello.tag) = 1
  BY <1>5
<1>7. hello.type \in Types
  BY <1>5 DEF Types
<1> HIDE DEF hello
<1>8. s1 \in ServerStates /\ Grows(server, s1)
  BY <1>1, <1>4, ExtendedServer
<1>9. ServerOk(s1) /\ ServerCovers(s1, DOMAIN sealed)
      /\ Len(server.transcript) <= Len(s1.transcript)
  BY <1>1, <1>8, GrowsOk DEF Grows
<1> HIDE DEF s1
<1>10. t \in ServerStates /\ Grows(s1, t)
  BY <1>7, <1>9, ExtendedServer
<1>11. ServerOk(t) /\ ServerCovers(t, DOMAIN sealed)
      /\ Len(s1.transcript) <= Len(t.transcript)
  BY <1>9, <1>10, GrowsOk DEF Grows
<1> HIDE DEF t
<1>12. Len(server.transcript) <= Len(t.transcript)
  <2>1. /\ Len(server.transcript) \in Nat /\ Len(t.transcript) \in Nat
        /\ Len(s1.transcript) \in Nat
    BY <1>1, <1>9, <1>11, ServerFacts
  <2> QED
    BY <1>9, <1>11, <2>1
<1>13. Sent(s2c, "first", <<hello>>) \in Queues
  BY <1>1, <1>5, SentFacts
<1>14. ShortHellos(Sent(s2c, "first", <<hello>>))
  BY <1>1, <1>5, <1>6, HellosSent
<1>15. AcksOnce(t, client, Sent(s2c, "first", <<hello>>))
  BY <1>1, <1>5, <1>10, <1>12, AcksSent
<1>16. ServerHolds(server', s2c', DOMAIN sealed')
  BY <1>1, <1>2, <1>11, <1>13, <1>14, <1>15 DEF ServerHolds
<1> QED
  BY <1>2, <1>3, <1>16, ServerKeeps DEF NonceInv, TypeOK, NonceUnique

\* SERVER_FINISH answers CLIENT_AUTH, whose tag is as long as the hellos.
LEMMA FinishesStep ==
  ASSUME NonceInv, UNCHANGED client, ServerFinishes
  PROVE  NonceInv'
<1> DEFINE r == Head(c2s["first"])
           s1 == Extended(server, r)
           finish == SealHandshake(s1, "server", 0, "server_finish")
           t == Extended(s1, finish)
           used == DOMAIN sealed
<1>1. /\ ServerOk(server) /\ server \in ServerStates /\ client \in ClientStates
      /\ ServerHolds(server, s2c, used) /\ c2s \in Queues
      /\ ServerCovers(server, used) /\ used \subseteq Nonces
      /\ "first" \in Paths /\ NonceUnique /\ ShortAuths(c2s)
  BY DEF NonceInv, TypeOK, ServerHolds, Paths
<1>2. /\ Arrived(c2s, "first") /\ c2s' = [c2s EXCEPT !["first"] = Tail(@)]
      /\ server' = t /\ s2c' = Sent(s2c, "first", <<finish>>)
      /\ link' = link /\ sealed' = SealAll(<<finish>>)
      /\ AuthOk(r)
  BY DEF ServerFinishes, Incoming
<1>3. c2s' \in Queues /\ ShortAuths(c2s') /\ r \in Records
  BY <1>1, <1>2, TakenStep
<1>4. r = c2s["first"][1] /\ 1 \in 1 .. Len(c2s["first"])
  BY <1>1, <1>2, TailFacts DEF Arrived
<1> HIDE DEF r
<1>5. /\ r.type = "client_auth" /\ r.tag = server.transcript
      /\ Len(server.transcript) >= 2
  BY <1>2 DEF AuthOk, OpenHandshake, SealHandshake, Record
<1>6. Len(server.transcript) = 2
  BY <1>1, <1>4, <1>5 DEF ShortAuths
<1>7. r.type \in Types
  BY <1>3 DEF Records
<1>8. /\ s1 \in ServerStates /\ Grows(server, s1)
      /\ Len(s1.transcript) = Len(server.transcript) + 1
  BY <1>1, <1>7, ExtendedServer
<1>9. ServerOk(s1) /\ ServerCovers(s1, used)
  BY <1>1, <1>8, GrowsOk
<1> HIDE DEF s1, used
<1>10. s1.transcript \in Transcripts /\ Len(s1.transcript) = 3
  BY <1>6, <1>8, <1>9, ServerFacts
<1>11. Hellos(s1) \in Transcripts
  BY <1>10, HellosType
<1>12. /\ finish \in Records /\ finish.type = "server_finish"
       /\ finish.from = "server"
       /\ Nonce(finish) = <<"server", "handshake", Hellos(s1), 0>>
  <2>1. /\ "server" \in Froms /\ "handshake" \in Kinds
        /\ "server_finish" \in Types /\ s1.transcript \in Tags
    BY <1>10 DEF Froms, Kinds, Types, Tags
  <2> QED
    BY <1>11, <2>1 DEF SealHandshake, Record, Records, Nonce
<1>13. finish.type \in Types
  BY <1>12 DEF Types
<1> HIDE DEF finish
<1>14. /\ t \in ServerStates /\ Grows(s1, t)
       /\ Len(t.transcript) = Len(s1.transcript) + 1
  BY <1>9, <1>13, ExtendedServer
<1>15. ServerOk(t) /\ ServerCovers(t, used)
  BY <1>9, <1>14, GrowsOk
<1> HIDE DEF t
<1>16. Len(t.transcript) = 4 /\ Len(server.transcript) <= Len(t.transcript)
  BY <1>6, <1>10, <1>14
<1>17. Nonce(finish) \notin used
  BY <1>1, <1>6, <1>12 DEF ServerCovers
<1>18. ServerCovers(t, used \cup {Nonce(finish)})
  BY <1>12, <1>15, <1>16 DEF ServerCovers
<1>19. Sendable(server, t, finish)
  BY <1>12 DEF Sendable
<1>20. DOMAIN sealed' = used \cup {Nonce(finish)} /\ Unique(sealed')
  BY <1>1, <1>2, <1>17, SealOne DEF used
<1>21. ServerHolds(t, Sent(s2c, "first", <<finish>>), used \cup {Nonce(finish)})
  BY <1>1, <1>15, <1>16, <1>18, <1>19, SendsOne
<1>22. ServerHolds(server', s2c', DOMAIN sealed')
  BY <1>2, <1>20, <1>21
<1> QED
  BY <1>2, <1>3, <1>20, <1>22, ServerKeeps
     DEF NonceInv, TypeOK, NonceUnique, Unique

\* No data or control record was sealed before the session is established.
LEMMA EstablishStep ==
  ASSUME NonceInv, UNCHANGED client, ServerEstablishes
  PROVE  NonceInv'
<1> DEFINE r == Head(c2s["first"])
           s1 == Extended(server, r)
           t == [s1 EXCEPT !.up = TRUE, !.epoch = 0, !.secret = s1.transcript,
                           !.age = 0, !.deadline = {}]
           used == DOMAIN sealed
<1>1. /\ ServerOk(server) /\ server \in ServerStates /\ client \in ClientStates
      /\ ServerHolds(server, s2c, used) /\ c2s \in Queues
      /\ ServerCovers(server, used) /\ used \subseteq Nonces
      /\ "first" \in Paths /\ NonceUnique
  BY DEF NonceInv, TypeOK, ServerHolds, Paths
<1>2. /\ Arrived(c2s, "first") /\ c2s' = [c2s EXCEPT !["first"] = Tail(@)]
      /\ server' = [Established(s1) EXCEPT !.age = 0, !.deadline = {}]
      /\ s2c' = s2c /\ link' = link /\ sealed' = sealed
      /\ Handshaking(server)
  BY DEF ServerEstablishes, Incoming
<1>3. c2s' \in Queues /\ ShortAuths(c2s') /\ r \in Records
  BY <1>1, <1>2, TakenStep
<1>4. r.type \in Types
  BY <1>3 DEF Records
<1> HIDE DEF r
<1>5. /\ s1 \in ServerStates /\ Grows(server, s1)
      /\ Len(s1.transcript) = Len(server.transcript) + 1
      /\ Len(server.transcript) \in Nat
  BY <1>1, <1>4, ExtendedServer
<1>6. s1.transcript \in Transcripts
  BY <1>5 DEF ServerStates
<1> HIDE DEF s1, used
<1>7. server' = t
  BY <1>2, <1>5 DEF Established, ServerStates
<1>8. t \in ServerStates
  <2> DEFINE k == s1.transcript
             zero == 0
             u == [s1 EXCEPT !.epoch = zero, !.secret = k, !.age = zero,
                             !.deadline = {}]
  <2>1. t = [u EXCEPT !.up = TRUE]
    BY <1>5 DEF ServerStates
  <2>2. k \in Transcripts /\ zero \in Int /\ zero \in Nat
    BY <1>6
  <2> HIDE DEF k, t, zero
  <2>3. u \in ServerStates
    BY <1>5, <2>2 DEF ServerStates
  <2> HIDE DEF u
  <2> QED
    BY <2>1, <2>3 DEF ServerStates
<1>9. /\ t.secret = s1.transcript /\ t.transcript = s1.transcript
      /\ t.pending = s1.pending /\ t.up
  BY <1>5 DEF ServerStates
<1> HIDE DEF t
<1>10. t.pending = {} /\ server.secret = <<>>
       /\ server.data_number = 0 /\ server.control_number = 0
  BY <1>1, <1>2, <1>5, <1>9 DEF ServerOk, Grows
<1>11. ~Handshaking(t)
  BY <1>9 DEF Handshaking
<1>12. Len(t.secret) <= Len(t.transcript)
       /\ Len(server.transcript) <= Len(t.transcript)
  BY <1>5, <1>9
<1>13. ServerOk(t)
  BY <1>8, <1>10, <1>11, <1>12 DEF ServerOk
<1>14. ServerCovers(t, used)
  <2> SUFFICES ASSUME NEW n \in used, n[1] = "server"
               PROVE  /\ n[2] # "data" /\ n[2] # "control"
                      /\ n[2] = "handshake" => Len(t.transcript) >= 4
    BY DEF ServerCovers
  <2>1. n[3] \in Transcripts /\ n[4] \in Nat
    BY <1>1 DEF Nonces
  <2>2. Len(n[3]) \in Nat /\ Len(<<>>) = 0
    BY <2>1 DEF Transcripts
  <2>3. ~Before(n, <<>>, 0)
    BY <2>1, <2>2 DEF Before
  <2>4. n[2] = "handshake" => Len(server.transcript) >= 4
    BY <1>1 DEF ServerCovers
  <2>5. n[2] = "handshake" => Len(t.transcript) >= 4
    BY <1>5, <1>9, <2>4
  <2> QED
    BY <1>1, <1>10, <2>3, <2>5 DEF ServerCovers
<1>15. ServerHolds(server', s2c', DOMAIN sealed')
  BY <1>1, <1>2, <1>7, <1>12, <1>13, <1>14, SendsNone DEF used
<1> QED
  BY <1>2, <1>3, <1>15, ServerKeeps DEF NonceInv, TypeOK, NonceUnique

\* A message that is refused, and a handshake that is given up.
LEMMA RefuseStep ==
  ASSUME NonceInv, UNCHANGED client, ServerRefuses \/ ServerAbandons
  PROVE  NonceInv'
<1>1. /\ server \in ServerStates /\ Len(server.transcript) \in Nat
      /\ "first" \in Paths /\ c2s \in Queues /\ ShortAuths(c2s)
  BY DEF NonceInv, TypeOK, ServerStates, Transcripts, Paths
<1>2. Grows(server, server)
  BY <1>1 DEF Grows
<1>3. CASE ServerRefuses
  <2>1. /\ Arrived(c2s, "first") /\ c2s' = [c2s EXCEPT !["first"] = Tail(@)]
        /\ link' = Closed(link, Paths) /\ UNCHANGED <<s2c, sealed>>
    BY <1>3 DEF ServerRefuses, Incoming
  <2>2. c2s' \in Queues /\ ShortAuths(c2s')
    BY <1>1, <2>1, TakenStep
  <2>3. server' = Down(server, "refused")
        \/ server' = Down(server, "invalid record")
    BY <1>3 DEF ServerRefuses
  <2>4. "refused" \in Reasons /\ "invalid record" \in Reasons
    BY DEF Reasons
  <2> QED
    BY <1>1, <1>2, <2>1, <2>2, <2>3, <2>4, ServerEnds
<1>4. CASE ServerAbandons
  <2>1. "timeout" \in Reasons
    BY DEF Reasons
  <2> QED
    BY <1>1, <1>2, <1>4, <2>1, ServerEnds DEF ServerAbandons
<1> QED
  BY <1>3, <1>4

\* The server's half of the induction.
LEMMA ServerStep ==
  ASSUME NonceInv, ServerTask \/ ServerChoices
  PROVE  NonceInv'
<1>1. UNCHANGED client
  BY DEF ServerTask, ServerChoices
<1>2. \/ ServerHello \/ ServerFinishes \/ ServerEstablishes
      \/ ServerRefuses \/ ServerAbandons \/ ServerReceives
      \/ ServerChallenges \/ ServerValidates
      \/ ServerGivesUpPath \/ ServerEndsDrain \/ ServerSends
      \/ ServerTimer \/ ServerStops \/ ServerSeesClose
  BY DEF ServerTask, ServerChoices, ServerHandshakes
<1> QED
  BY <1>1, <1>2, HelloStep, FinishesStep, EstablishStep, RefuseStep,
     ReceiveStep, ChallengeStep, ValidateStep, EventStep

-----------------------------------------------------------------------------
(* What the client sends                                                   *)

\* The numbers in the client's state.
LEMMA ClientFacts ==
  ASSUME NEW c, ClientOk(c)
  PROVE  /\ c \in ClientStates /\ c.epoch \in Int /\ c.secret \in Transcripts
         /\ c.transcript \in Transcripts /\ c.sock \in Paths
         /\ Len(c.transcript) \in Nat /\ Len(c.secret) \in Nat
         /\ c.data_number \in Nat /\ c.control_number \in Nat
         /\ c.data_number + 1 \in Nat /\ c.control_number + 1 \in Nat
         /\ c.epoch + 1 \in Int
         /\ \A p \in c.pending : /\ p.epoch \in Int /\ p.secret \in Transcripts
                                 /\ p.mode \in Modes /\ p.age \in Nat
                                 /\ Len(p.secret) \in Nat
<1>1. /\ c \in ClientStates /\ c.epoch \in Int /\ c.secret \in Transcripts
      /\ c.transcript \in Transcripts /\ c.sock \in Paths
      /\ c.data_number \in Nat /\ c.control_number \in Nat
  BY DEF ClientOk, ClientStates
<1>2. \A p \in c.pending : /\ p.epoch \in Int /\ p.secret \in Transcripts
                           /\ p.mode \in Modes /\ p.age \in Nat
  BY <1>1 DEF ClientStates
<1>3. \A k \in Transcripts : Len(k) \in Nat
  BY DEF Transcripts
<1> QED
  BY <1>1, <1>2, <1>3

\* The ACKs depend on the client only through the update it has confirmed.
LEMMA AcksFor ==
  ASSUME NEW s, NEW c, NEW d, NEW q, AcksOnce(s, c, q),
         \A p \in d.pending :
           p.phase = "commit" /\ p.mode = "routine" =>
             \E o \in c.pending : /\ o.phase = "commit" /\ o.mode = "routine"
                                  /\ o.secret = p.secret
  PROVE  AcksOnce(s, d, q)
<1>1. \A k : Confirmed(d, k) => Confirmed(c, k)
  BY DEF Confirmed
<1>2. AcksFit(s, d, q)
  BY <1>1 DEF AcksOnce, AcksFit
<1>3. ConfirmedFits(s, d)
  BY DEF AcksOnce, ConfirmedFits
<1> QED
  BY <1>2, <1>3 DEF AcksOnce

\* The invariant again after a step in which the client seals nothing.
LEMMA ClientSilent ==
  ASSUME NonceInv, UNCHANGED <<server, c2s, sealed>>,
         s2c' \in Queues, ShortHellos(s2c'), link' \in Links,
         ClientOk(client'), ClientCovers(client', DOMAIN sealed),
         AcksOnce(server, client', s2c')
  PROVE  NonceInv'
<1>1. TypeOK'
  BY DEF NonceInv, TypeOK, ClientOk
<1>2. NonceUnique' /\ ServerOk(server') /\ ShortAuths(c2s')
      /\ ServerCovers(server', DOMAIN sealed')
  BY DEF NonceInv, NonceUnique
<1>3. ClientCovers(client', DOMAIN sealed') /\ AcksOnce(server', client', s2c')
  OBVIOUS
<1> QED
  BY <1>1, <1>2, <1>3 DEF NonceInv

\* The invariant again after the client has sent one record.
LEMMA ClientTransmits ==
  ASSUME NonceInv, UNCHANGED server, NEW r \in Records, Transmit(r),
         r.from = "client", r.type = "client_auth" => Len(r.tag) = 2,
         Nonce(r) \notin DOMAIN sealed,
         s2c' \in Queues, ShortHellos(s2c'), link' \in Links,
         ClientOk(client'),
         ClientCovers(client', DOMAIN sealed \cup {Nonce(r)}),
         AcksOnce(server, client', s2c')
  PROVE  NonceInv'
<1>1. /\ c2s \in Queues /\ client.sock \in Paths /\ ShortAuths(c2s)
      /\ NonceUnique /\ DOMAIN sealed \subseteq Nonces
      /\ ServerOk(server) /\ ServerCovers(server, DOMAIN sealed)
  BY ClientFacts DEF NonceInv, TypeOK
<1>2. c2s' = Sent(c2s, client.sock, <<r>>) /\ sealed' = SealAll(<<r>>)
  BY DEF Transmit
<1>3. Sent(c2s, client.sock, <<r>>) \in Queues
  BY <1>1, SentFacts
<1>4. ShortAuths(Sent(c2s, client.sock, <<r>>))
  BY <1>1, AuthsSent
<1>5. DOMAIN sealed' = DOMAIN sealed \cup {Nonce(r)} /\ Unique(sealed')
  BY <1>1, <1>2, SealOne
<1>6. Nonce(r) \in Nonces /\ Nonce(r)[1] = "client"
  BY NonceType
<1>7. ServerCovers(server, DOMAIN sealed \cup {Nonce(r)})
  BY <1>1, <1>6 DEF ServerCovers
<1>8. TypeOK'
  BY <1>1, <1>2, <1>3, <1>5, <1>6 DEF NonceInv, TypeOK, ClientOk
<1>9. /\ ServerOk(server') /\ ServerCovers(server', DOMAIN sealed')
      /\ ClientCovers(client', DOMAIN sealed')
      /\ AcksOnce(server', client', s2c')
  BY <1>1, <1>5, <1>7
<1>10. NonceUnique' /\ ShortAuths(c2s')
  BY <1>2, <1>4, <1>5 DEF NonceUnique, Unique
<1> QED
  BY <1>8, <1>9, <1>10 DEF NonceInv

\* The client takes a record.
LEMMA TakenByClient ==
  ASSUME NonceInv, NEW p \in Paths, Arrived(s2c, p),
         s2c' = [s2c EXCEPT ![p] = Tail(@)]
  PROVE  /\ s2c' \in Queues /\ ShortHellos(s2c')
         /\ AcksOnce(server, client, s2c') /\ Head(s2c[p]) \in Records
         /\ Head(s2c[p]) = s2c[p][1] /\ 1 \in 1 .. Len(s2c[p])
<1>1. s2c \in Queues /\ s2c[p] # <<>> /\ ShortHellos(s2c)
      /\ AcksOnce(server, client, s2c)
  BY DEF NonceInv, TypeOK, Arrived
<1> QED
  BY <1>1, TailFacts, HellosTaken, AcksTaken

\* A record under the current control key is new, and counted.
LEMMA ClientControlNext ==
  ASSUME NEW c, NEW d, NEW used, used \subseteq Nonces,
         ClientOk(c), ClientCovers(c, used), Len(d.transcript) \in Nat,
         d.secret = c.secret, d.data_number = c.data_number,
         d.control_number = c.control_number + 1,
         Len(c.transcript) <= Len(d.transcript),
         d.pending = c.pending \/ c.pending = {},
         ~Handshaking(c), ~Handshaking(d)
  PROVE  LET m == <<"client", "control", c.secret, c.control_number>>
         IN  m \notin used /\ ClientCovers(d, used \cup {m})
<1> DEFINE m == <<"client", "control", c.secret, c.control_number>>
<1>1. /\ c.control_number \in Nat /\ Len(c.secret) \in Nat
      /\ Len(c.transcript) \in Nat
  BY ClientFacts
<1>2. m \notin used
  BY <1>1 DEF ClientCovers, Before
<1>3. ASSUME NEW n \in used \cup {m}, n[1] = "client"
      PROVE  /\ n[2] = "data" => Before(n, d.secret, d.data_number)
             /\ n[2] = "control" =>
                  \/ Before(n, d.secret, d.control_number)
                  \/ \E p \in d.pending : /\ p.phase = "commit"
                                          /\ Len(d.secret) < Len(n[3])
                                          /\ Before(n, p.secret, 1)
  <2>1. CASE n = m
    BY <1>1, <2>1 DEF Before
  <2>2. CASE n \in used
    <3>1. n[4] \in Nat
      BY <2>2 DEF Nonces
    <3>2. /\ n[2] = "data" => Before(n, c.secret, c.data_number)
          /\ n[2] = "control" =>
                  \/ Before(n, c.secret, c.control_number)
                  \/ \E p \in c.pending : /\ p.phase = "commit"
                                          /\ Len(c.secret) < Len(n[3])
                                          /\ Before(n, p.secret, 1)
      BY <1>3, <2>2 DEF ClientCovers
    <3>3. Before(n, c.secret, c.control_number)
            => Before(n, d.secret, d.control_number)
      BY <1>1, <3>1 DEF Before
    <3> QED
      BY <3>2, <3>3
  <2> QED
    BY <2>1, <2>2
<1>4. ClientCovers(d, used \cup {m})
  BY <1>3 DEF ClientCovers
<1> QED
  BY <1>2, <1>4

\* A step that seals a record under the current control key.
LEMMA ClientControl ==
  ASSUME NonceInv, UNCHANGED server,
         NEW c, ClientOk(c), ClientCovers(c, DOMAIN sealed), ~Handshaking(c),
         NEW type \in Types, type # "client_auth", NEW tag \in Tags,
         Transmit(ClientRecord(c, "control", c.control_number, type, tag)),
         client' \in ClientStates, client'.secret = c.secret,
         client'.data_number = c.data_number,
         client'.control_number = c.control_number + 1,
         client'.up = c.up, client'.reason = c.reason,
         Len(c.transcript) <= Len(client'.transcript),
         client'.pending = c.pending \/ c.pending = {},
         \A p, q \in client'.pending : p = q,
         \A p \in client'.pending :
           /\ Len(p.secret) <= Len(client'.transcript)
           /\ p.mode = "routine" \/ p.phase = "commit"
                => Len(c.secret) < Len(p.secret),
         AcksOnce(server, client', s2c'),
         s2c' \in Queues, ShortHellos(s2c'), link' \in Links
  PROVE  NonceInv'
<1> DEFINE r == ClientRecord(c, "control", c.control_number, type, tag)
           m == <<"client", "control", c.secret, c.control_number>>
<1>1. /\ c.control_number \in Nat /\ Len(c.secret) \in Nat
      /\ Len(c.transcript) \in Nat /\ c.epoch \in Int
      /\ c.secret \in Transcripts /\ DOMAIN sealed \subseteq Nonces
  BY ClientFacts DEF NonceInv, TypeOK
<1>2. /\ r \in Records /\ Nonce(r) = m /\ r.from = "client" /\ r.type = type
  <2>1. "client" \in Froms /\ "control" \in Kinds
    BY DEF Froms, Kinds
  <2> QED
    BY <1>1, <2>1 DEF ClientRecord, Record, Records, Nonce
<1>3. Len(client'.transcript) \in Nat
  BY DEF ClientStates, Transcripts
<1>4. ~Handshaking(client')
  BY DEF Handshaking
<1>5. Len(client'.secret) <= Len(client'.transcript)
  BY <1>1, <1>3 DEF ClientOk
<1>6. ClientOk(client')
  BY <1>4, <1>5 DEF ClientOk
<1>7. Nonce(r) \notin DOMAIN sealed
      /\ ClientCovers(client', DOMAIN sealed \cup {Nonce(r)})
  BY <1>1, <1>2, <1>3, <1>4, ClientControlNext
<1> HIDE DEF r
<1>8. Transmit(r)
  BY DEF r
<1> QED
  BY <1>2, <1>6, <1>7, <1>8, ClientTransmits

-----------------------------------------------------------------------------
(* The steps of the client                                                 *)

\* A packet takes the next number of the current data key.
LEMMA ClientDataStep ==
  ASSUME NonceInv, UNCHANGED server, ClientSends
  PROVE  NonceInv'
<1> DEFINE c == client
           r == ClientRecord(c, "data", c.data_number, "data", <<>>)
           m == <<"client", "data", c.secret, c.data_number>>
           d == [client EXCEPT !.data_number = @ + 1]
           used == DOMAIN sealed
<1>1. /\ ClientOk(c) /\ c.data_number \in Nat /\ c.data_number + 1 \in Nat
      /\ Len(c.secret) \in Nat /\ Len(c.transcript) \in Nat /\ c.epoch \in Int
      /\ c.secret \in Transcripts /\ used \subseteq Nonces
      /\ c \in ClientStates /\ ClientCovers(c, used)
      /\ AcksOnce(server, c, s2c) /\ s2c \in Queues /\ ShortHellos(s2c)
      /\ link \in Links
  BY ClientFacts DEF NonceInv, TypeOK
<1>2. Transmit(r) /\ client' = d /\ s2c' = s2c /\ link' = link /\ c.up
  BY DEF ClientSends, CanSend
<1>3. r \in Records /\ Nonce(r) = m /\ r.from = "client" /\ r.type = "data"
  <2>1. /\ "client" \in Froms /\ "data" \in Kinds /\ "data" \in Types
        /\ <<>> \in Tags
    BY DEF Froms, Kinds, Types, Tags, Transcripts
  <2> QED
    BY <1>1, <2>1 DEF ClientRecord, Record, Records, Nonce
<1> HIDE DEF r
<1>4. d \in ClientStates /\ d.up = c.up
  BY <1>1 DEF ClientStates
<1>5. /\ d.secret = c.secret /\ d.transcript = c.transcript
      /\ d.pending = c.pending /\ d.control_number = c.control_number
      /\ d.data_number = c.data_number + 1
  BY <1>1 DEF ClientStates
<1> HIDE DEF d, c, used
<1>6. ~Handshaking(d) /\ ~Handshaking(c)
  BY <1>2, <1>4 DEF Handshaking
<1>7. ClientOk(d)
  BY <1>1, <1>4, <1>5, <1>6 DEF ClientOk
<1>8. m \notin used
  BY <1>1 DEF ClientCovers, Before
<1>9. ASSUME NEW n \in used \cup {m}, n[1] = "client"
      PROVE  /\ n[2] = "data" => Before(n, d.secret, d.data_number)
             /\ n[2] = "control" =>
                  \/ Before(n, d.secret, d.control_number)
                  \/ \E p \in d.pending : /\ p.phase = "commit"
                                          /\ Len(d.secret) < Len(n[3])
                                          /\ Before(n, p.secret, 1)
  <2>1. CASE n = m
    BY <1>1, <1>5, <2>1 DEF Before
  <2>2. CASE n \in used
    <3>1. n[4] \in Nat
      BY <1>1, <2>2 DEF Nonces
    <3>2. /\ n[2] = "data" => Before(n, c.secret, c.data_number)
          /\ n[2] = "control" =>
                  \/ Before(n, c.secret, c.control_number)
                  \/ \E p \in c.pending : /\ p.phase = "commit"
                                          /\ Len(c.secret) < Len(n[3])
                                          /\ Before(n, p.secret, 1)
      BY <1>1, <1>9, <2>2 DEF ClientCovers
    <3>3. Before(n, c.secret, c.data_number)
            => Before(n, d.secret, d.data_number)
      BY <1>1, <1>5, <3>1 DEF Before
    <3> QED
      BY <1>5, <3>2, <3>3
  <2> QED
    BY <2>1, <2>2
<1>10. ClientCovers(d, used \cup {m})
  BY <1>6, <1>9 DEF ClientCovers
<1>11. AcksOnce(server, d, s2c)
  BY <1>1, <1>5, AcksFor
<1> QED
  BY <1>1, <1>2, <1>3, <1>7, <1>8, <1>10, <1>11, ClientTransmits DEF used

\* The update the client starts will end with a longer secret.
LEMMA InitiateStep ==
  ASSUME NonceInv, UNCHANGED server,
         NEW c, ClientOk(c), ClientCovers(c, DOMAIN sealed), c.up,
         c.pending = {}, NEW mode \in Modes,
         NEW type \in {"init", "full_init"}, NEW tag \in Tags,
         Initiate(c, mode, type, tag),
         AcksOnce(server, client, s2c'),
         s2c' \in Queues, ShortHellos(s2c'), link' \in Links
  PROVE  NonceInv'
<1> DEFINE r == ClientRecord(c, "control", c.control_number, type, tag)
           u == Append(c.transcript, Label(r))
           k == IF mode = "routine" THEN u ELSE <<>>
           P == {[epoch |-> c.epoch + 1, mode |-> mode, secret |-> k,
                  phase |-> "init", age |-> 0]}
           d == [c EXCEPT !.transcript = u, !.control_number = @ + 1,
                          !.pending = P]
<1>1. /\ c \in ClientStates /\ c.control_number + 1 \in Nat
      /\ c.control_number \in Nat
      /\ Len(c.secret) \in Nat /\ Len(c.transcript) \in Nat
      /\ c.transcript \in Transcripts /\ c.secret \in Transcripts
      /\ c.epoch + 1 \in Int /\ c.epoch \in Int
  BY ClientFacts
<1>2. Transmit(r) /\ client' = d
  BY <1>1 DEF Initiate, ClientStates
<1>3. type \in Types /\ type # "client_auth"
  BY DEF Types
<1>4. r \in Records
  <2>1. "client" \in Froms /\ "control" \in Kinds
    BY DEF Froms, Kinds
  <2> QED
    BY <1>1, <1>3, <2>1, RecordFacts DEF ClientRecord
<1>5. u \in Transcripts /\ Len(u) = Len(c.transcript) + 1
  BY <1>1, <1>4, Extends
<1> HIDE DEF r, u
<1>6. k \in Transcripts /\ Len(k) <= Len(u) /\ (mode = "routine" => k = u)
  BY <1>1, <1>5 DEF Transcripts
<1> HIDE DEF k
<1>7. /\ P \subseteq [epoch : Int, mode : Modes, secret : Transcripts,
                      phase : {"init", "commit"}, age : Nat]
      /\ \A p \in P : p.secret = k /\ p.phase = "init" /\ p.mode = mode
      /\ \A p, q \in P : p = q
  BY <1>1, <1>6
<1> HIDE DEF P
<1>8. d \in ClientStates
  BY <1>1, <1>5, <1>7 DEF ClientStates
<1>9. /\ d.secret = c.secret /\ d.transcript = u /\ d.pending = P
      /\ d.control_number = c.control_number + 1
      /\ d.data_number = c.data_number
  BY <1>1 DEF ClientStates
<1>10. d.up = c.up /\ d.reason = c.reason
  BY <1>1 DEF ClientStates
<1> HIDE DEF d
<1>11. Len(c.transcript) <= Len(d.transcript)
  BY <1>1, <1>5, <1>9
<1>12. Len(c.secret) <= Len(c.transcript)
  BY DEF ClientOk
<1>13. \A p \in d.pending :
         /\ Len(p.secret) <= Len(d.transcript)
         /\ p.mode = "routine" \/ p.phase = "commit"
              => Len(c.secret) < Len(p.secret)
  BY <1>1, <1>5, <1>6, <1>7, <1>9, <1>12
<1>14. AcksOnce(server, d, s2c')
  BY <1>7, <1>9, AcksFor
<1>15. ~Handshaking(c)
  BY DEF Handshaking
<1>16. \A p, q \in d.pending : p = q
  BY <1>7, <1>9
<1> QED
  BY <1>2, <1>3, <1>8, <1>9, <1>10, <1>11, <1>13, <1>14, <1>15, <1>16,
     ClientControl DEF r

\* Record 0 of the next key is sealed under a key longer than any before.
LEMMA ConfirmStep ==
  ASSUME NonceInv, UNCHANGED server, client.up, client.pending # {},
         NEW r \in Records, NEW secret \in Transcripts,
         NEW type \in {"commit", "confirm"}, Confirm(client, r, secret, type),
         Len(client.secret) < Len(secret),
         Len(secret) <= Len(client.transcript) + 1,
         \A n \in DOMAIN sealed :
           n[1] = "client" /\ n[2] = "control" => Len(n[3]) < Len(secret),
         s2c' \in Queues, ShortHellos(s2c'), link' \in Links,
         AcksOnce(server, client, s2c'),
         (\E p \in client.pending : p.mode = "routine") =>
           /\ Len(secret) < Len(server.transcript)
           /\ \A x \in Paths : \A i \in 1 .. Len(s2c'[x]) :
                s2c'[x][i].type = "ack" => s2c'[x][i].tag # secret
  PROVE  NonceInv'
<1> DEFINE c == client
           p == CHOOSE q \in c.pending : TRUE
           after == Append(c.transcript, Label(r))
           a == Record("client", "control", p.epoch, secret, 0, type, secret)
           u == Append(after, Label(a))
           P == {[p EXCEPT !.secret = secret, !.phase = "commit"]}
           d == [c EXCEPT !.transcript = u, !.pending = P]
           m == <<"client", "control", secret, 0>>
           used == DOMAIN sealed
<1>1. /\ ClientOk(c) /\ c \in ClientStates /\ c.transcript \in Transcripts
      /\ Len(c.secret) \in Nat /\ Len(c.transcript) \in Nat
      /\ ClientCovers(c, used) /\ used \subseteq Nonces
  BY ClientFacts DEF NonceInv, TypeOK
<1>2. Transmit(a) /\ client' = d
  BY <1>1 DEF Confirm, ClientStates
<1>3. p \in c.pending
  OBVIOUS
<1> HIDE DEF p
<1>4. p \in [epoch : Int, mode : Modes, secret : Transcripts,
             phase : {"init", "commit"}, age : Nat]
  BY <1>1, <1>3 DEF ClientStates
<1>5. /\ a \in Records /\ a.from = "client" /\ a.type = type
      /\ Nonce(a) = m
  <2>1. /\ "client" \in Froms /\ "control" \in Kinds /\ type \in Types
        /\ secret \in Tags /\ p.epoch \in Int
    BY <1>4 DEF Froms, Kinds, Types, Tags
  <2> QED
    BY <2>1 DEF Record, Records, Nonce
<1>6. after \in Transcripts /\ Len(after) = Len(c.transcript) + 1
  BY <1>1, Extends
<1> HIDE DEF a, after
<1>7. u \in Transcripts /\ Len(u) = Len(after) + 1
  BY <1>5, <1>6, Extends
<1> HIDE DEF u
<1>8. /\ P \subseteq [epoch : Int, mode : Modes, secret : Transcripts,
                      phase : {"init", "commit"}, age : Nat]
      /\ \A q \in P : q.secret = secret /\ q.phase = "commit"
                      /\ q.mode = p.mode
      /\ P # {} /\ \A q, o \in P : q = o
  BY <1>4
<1> HIDE DEF P
<1>9. d \in ClientStates
  BY <1>1, <1>7, <1>8 DEF ClientStates
<1>10. /\ d.secret = c.secret /\ d.transcript = u /\ d.pending = P
       /\ d.control_number = c.control_number
       /\ d.data_number = c.data_number
  BY <1>1 DEF ClientStates
<1>11. d.up = c.up
  BY <1>1 DEF ClientStates
<1> HIDE DEF d, used
<1>12. ~Handshaking(d)
  BY <1>11 DEF Handshaking
<1>13. Len(secret) \in Nat
  BY DEF Transcripts
<1>14. ClientOk(d)
  <2>1. Len(d.secret) <= Len(d.transcript)
    BY <1>1, <1>6, <1>7, <1>10 DEF ClientOk
  <2>2. \A q \in d.pending : /\ Len(q.secret) <= Len(d.transcript)
                             /\ Len(d.secret) < Len(q.secret)
    BY <1>1, <1>6, <1>7, <1>8, <1>10, <1>13
  <2> QED
    BY <1>8, <1>9, <1>10, <1>12, <2>1, <2>2 DEF ClientOk
<1>15. m \notin used
  BY <1>13 DEF used
<1>16. ASSUME NEW n \in used \cup {m}, n[1] = "client"
       PROVE  /\ n[2] = "data" => Before(n, d.secret, d.data_number)
              /\ n[2] = "control" =>
                   \/ Before(n, d.secret, d.control_number)
                   \/ \E q \in d.pending : /\ q.phase = "commit"
                                           /\ Len(d.secret) < Len(n[3])
                                           /\ Before(n, q.secret, 1)
  <2>0. PICK q \in d.pending : q.phase = "commit" /\ q.secret = secret
    BY <1>8, <1>10
  <2>1. CASE n = m
    <3>1. Before(n, q.secret, 1) /\ Len(d.secret) < Len(n[3])
      BY <1>10, <2>0, <2>1 DEF Before
    <3> QED
      BY <2>0, <2>1, <3>1
  <2>2. CASE n \in used
    <3>1. /\ n[2] = "data" => Before(n, c.secret, c.data_number)
          /\ n[2] = "control" =>
                  \/ Before(n, c.secret, c.control_number)
                  \/ Len(c.secret) < Len(n[3])
      BY <1>1, <1>16, <2>2 DEF ClientCovers
    <3>2. n[2] = "control" => Before(n, q.secret, 1)
      BY <1>16, <2>0, <2>2 DEF Before, used
    <3> QED
      BY <1>10, <2>0, <3>1, <3>2
  <2> QED
    BY <2>1, <2>2
<1>17. ClientCovers(d, used \cup {m})
  BY <1>12, <1>16 DEF ClientCovers
<1>18. AcksOnce(server, d, s2c')
  <2>1. CASE p.mode = "routine"
    <3>1. \A k : Confirmed(d, k) => k = secret
      BY <1>8, <1>10 DEF Confirmed
    <3>2. AcksFit(server, d, s2c')
      BY <1>3, <2>1, <3>1 DEF AcksOnce, AcksFit
    <3>3. ConfirmedFits(server, d)
      BY <1>3, <1>8, <1>10, <2>1 DEF ConfirmedFits
    <3> QED
      BY <3>2, <3>3 DEF AcksOnce
  <2>2. CASE p.mode # "routine"
    BY <1>8, <1>10, <2>2, AcksFor
  <2> QED
    BY <2>1, <2>2
<1>19. a.type # "client_auth"
  BY <1>5
<1> QED
  BY <1>2, <1>5, <1>14, <1>15, <1>17, <1>18, <1>19, ClientTransmits DEF used

\* What every other change of the client's state keeps.
ClientSame(d) ==
  /\ d.secret = client.secret /\ d.transcript = client.transcript
  /\ d.pending = client.pending /\ d.data_number = client.data_number
  /\ d.control_number = client.control_number

\* A step that only notes something down.
LEMMA ClientNotes ==
  ASSUME NonceInv, UNCHANGED <<server, c2s, sealed>>,
         client' \in ClientStates, ClientSame(client'),
         ~Handshaking(client'),
         s2c' \in Queues, ShortHellos(s2c'), AcksOnce(server, client, s2c'),
         link' \in Links
  PROVE  NonceInv'
<1>1. ClientOk(client) /\ ClientCovers(client, DOMAIN sealed)
  BY DEF NonceInv
<1>2. ClientOk(client')
  BY <1>1 DEF ClientOk, ClientSame
<1>3. ClientCovers(client', DOMAIN sealed)
  BY <1>1 DEF ClientCovers, ClientSame
<1>4. AcksOnce(server, client', s2c')
  BY AcksFor DEF ClientSame
<1> QED
  BY <1>2, <1>3, <1>4, ClientSilent

\* The client gives the session up.
LEMMA ClientEnds ==
  ASSUME NonceInv, UNCHANGED <<server, c2s, sealed>>,
         NEW why \in Reasons, why # "none", ClientDown(why),
         s2c' \in Queues, ShortHellos(s2c'), AcksOnce(server, client, s2c'),
         link' = Closed(link, Paths)
  PROVE  NonceInv'
<1> DEFINE d == [client EXCEPT !.up = FALSE, !.reason = why]
<1>1. client \in ClientStates /\ link \in Links /\ client' = d
  BY DEF NonceInv, TypeOK, ClientDown
<1>2. d \in ClientStates /\ d.reason = why
  BY <1>1 DEF ClientStates
<1>3. ClientSame(d)
  BY <1>1 DEF ClientStates, ClientSame
<1> HIDE DEF d
<1>4. ~Handshaking(d)
  BY <1>2 DEF Handshaking
<1>5. link' \in Links
  BY <1>1, ClosedType
<1> QED
  BY <1>1, <1>2, <1>3, <1>4, <1>5, ClientNotes

\* The steps the client takes by itself.
LEMMA ClientChoiceStep ==
  ASSUME NonceInv, ClientChoices
  PROVE  NonceInv'
<1> DEFINE c == client
<1>0. UNCHANGED server
  BY DEF ClientChoices
<1>1. /\ ClientOk(c) /\ ClientCovers(c, DOMAIN sealed) /\ s2c \in Queues
      /\ ShortHellos(s2c) /\ AcksOnce(server, c, s2c) /\ link \in Links
      /\ c \in ClientStates /\ c.transcript \in Transcripts
      /\ c.secret \in Transcripts /\ c.control_number + 1 \in Nat
      /\ Len(c.transcript) \in Nat
  BY ClientFacts DEF NonceInv, TypeOK
<1>2. CASE ClientSends
  BY <1>0, <1>2, ClientDataStep
<1>3. ASSUME NEW mode \in {"routine", "full"}, ClientStarts(mode)
      PROVE  NonceInv'
  <2>1. /\ c.up /\ c.pending = {} /\ s2c' = s2c /\ link' = link
        /\ \/ Initiate(c, "routine", "init", <<c.secret, c.transcript>>)
           \/ Initiate(c, "full", "full_init", c.transcript)
    BY <1>3 DEF ClientStarts, CanSend, RoutineInit, FullInit
  <2>2. <<c.secret, c.transcript>> \in Tags /\ c.transcript \in Tags
        /\ "routine" \in Modes /\ "full" \in Modes
    BY <1>1 DEF Tags, Modes
  <2> HIDE DEF c
  <2>3. AcksOnce(server, client, s2c') /\ s2c' \in Queues
        /\ ShortHellos(s2c') /\ link' \in Links
    BY <1>1, <2>1 DEF c
  <2>4. CASE Initiate(c, "routine", "init", <<c.secret, c.transcript>>)
    BY <1>0, <1>1, <2>1, <2>2, <2>3, <2>4, InitiateStep
  <2>5. CASE Initiate(c, "full", "full_init", c.transcript)
    BY <1>0, <1>1, <2>1, <2>2, <2>3, <2>5, InitiateStep
  <2> QED
    BY <2>1, <2>4, <2>5
<1>4. CASE ClientPings
  <2> DEFINE d == [client EXCEPT !.control_number = @ + 1, !.pinging = TRUE]
  <2>1. /\ c.up /\ s2c' = s2c /\ link' = link /\ client' = d
        /\ Transmit(ClientRecord(c, "control", c.control_number, "ping", <<>>))
    BY <1>4 DEF ClientPings, CanSend
  <2>2. d \in ClientStates
    BY <1>1 DEF ClientStates
  <2>3. /\ d.secret = c.secret /\ d.transcript = c.transcript
        /\ d.pending = c.pending /\ d.data_number = c.data_number
        /\ d.control_number = c.control_number + 1
    BY <1>1 DEF ClientStates
  <2>4. d.up = c.up /\ d.reason = c.reason
    BY <1>1 DEF ClientStates
  <2> HIDE DEF d, c
  <2>5. "ping" \in Types /\ "ping" # "client_auth" /\ <<>> \in Tags
    BY DEF Types, Tags, Transcripts
  <2>6. /\ Len(c.transcript) <= Len(d.transcript)
        /\ \A p, q \in d.pending : p = q
        /\ \A p \in d.pending :
             /\ Len(p.secret) <= Len(d.transcript)
             /\ p.mode = "routine" \/ p.phase = "commit"
                  => Len(c.secret) < Len(p.secret)
    BY <1>1, <2>3 DEF ClientOk
  <2>7. AcksOnce(server, d, s2c')
    BY <1>1, <2>1, <2>3, AcksFor
  <2>8. ~Handshaking(c)
    BY <2>1 DEF Handshaking
  <2> QED
    BY <1>0, <1>1, <2>1, <2>2, <2>3, <2>4, <2>5, <2>6, <2>7, <2>8,
       ClientControl
<1>5. CASE ClientDials
  <2> DEFINE d == [client EXCEPT !.sock = "second", !.dialling = TRUE]
  <2>1. /\ client' = d /\ link' = [link EXCEPT !["second"] = "open"]
        /\ UNCHANGED <<c2s, s2c, sealed>> /\ c.up
    BY <1>5 DEF ClientDials, CanSend
  <2>2. d \in ClientStates /\ d.up = c.up
    BY <1>1 DEF ClientStates, Paths
  <2>3. ClientSame(d)
    BY <1>1 DEF ClientStates, ClientSame
  <2> HIDE DEF d
  <2>4. ~Handshaking(d)
    BY <2>1, <2>2 DEF Handshaking
  <2>5. link' \in Links
    BY <1>1, <2>1 DEF Links
  <2> QED
    BY <1>0, <1>1, <2>1, <2>2, <2>3, <2>4, <2>5, ClientNotes
<1>6. CASE ClientDialRefused
  <2>1. "refused" \in Reasons
    BY DEF Reasons
  <2> QED
    BY <1>0, <1>1, <1>6, <2>1, ClientEnds DEF ClientDialRefused, ClientDown
<1>7. CASE ClientStops
  <2>1. "stopped" \in Reasons
    BY DEF Reasons
  <2> QED
    BY <1>0, <1>1, <1>7, <2>1, ClientEnds DEF ClientStops
<1>8. CASE ClientAbandons
  <2> DEFINE why == IF /\ Arrived(s2c, "first")
                       /\ ~ServerHelloOk(Head(s2c["first"]))
                       /\ ~FinishOk(Head(s2c["first"]))
                    THEN "invalid record" ELSE "stopped"
  <2>1. ClientDown(why) /\ link' = Closed(link, Paths)
        /\ UNCHANGED <<c2s, s2c, sealed>>
    BY <1>8 DEF ClientAbandons
  <2>2. why \in Reasons /\ why # "none"
    BY DEF Reasons
  <2> HIDE DEF why
  <2> QED
    BY <1>0, <1>1, <2>1, <2>2, ClientEnds
<1> QED
  BY <1>2, <1>3, <1>4, <1>5, <1>6, <1>7, <1>8 DEF ClientChoices

\* The client answers an ACK once, with the key it has been waiting for.
LEMMA AckStep ==
  ASSUME NonceInv, UNCHANGED server, ClientHandles(AckOk, AcceptUpdateAck)
  PROVE  NonceInv'
<1> DEFINE c == client
           r == Head(s2c[c.sock])
<1>1. /\ ClientOk(c) /\ c.sock \in Paths /\ s2c \in Queues
      /\ ClientCovers(c, DOMAIN sealed) /\ AcksOnce(server, c, s2c)
      /\ link \in Links /\ DOMAIN sealed \subseteq Nonces
      /\ Len(c.transcript) \in Nat /\ Len(c.secret) \in Nat
  BY ClientFacts DEF NonceInv, TypeOK
<1>2. /\ c.up /\ Arrived(s2c, c.sock) /\ AckOk(c, r)
      /\ Confirm(c, r, r.tag, "commit")
      /\ s2c' = [s2c EXCEPT ![c.sock] = Tail(@)] /\ link' = link
  BY DEF ClientHandles, AcceptUpdateAck
<1>3. /\ s2c' \in Queues /\ ShortHellos(s2c') /\ r \in Records
      /\ AcksOnce(server, c, s2c')
      /\ r = s2c[c.sock][1] /\ 1 \in 1 .. Len(s2c[c.sock])
  BY <1>1, <1>2, TakenByClient
<1>4. r.type = "ack"
  BY <1>2 DEF AckOk
<1>5. \A x \in Paths : \A i \in 1 .. Len(s2c'[x]) :
        s2c'[x][i].type = "ack" => s2c'[x][i].tag # r.tag
  BY <1>1, <1>2, <1>4, AcksTaken DEF Arrived
<1> HIDE DEF r, c
<1>6. PICK p \in c.pending : p.mode = "routine" /\ r.tag = p.secret
  BY <1>2 DEF AckOk
<1>7. /\ r.tag \in Transcripts /\ Len(r.tag) < Len(server.transcript)
      /\ ~Confirmed(c, r.tag)
  BY <1>1, <1>3, <1>4 DEF AcksOnce, AcksFit
<1>8. p.phase # "commit"
  BY <1>6, <1>7 DEF Confirmed
<1>9. \A q \in c.pending : q.phase # "commit"
  BY <1>1, <1>6, <1>8 DEF ClientOk
<1>10. Len(c.secret) < Len(r.tag) /\ Len(r.tag) <= Len(c.transcript)
  BY <1>1, <1>6 DEF ClientOk
<1>11. Len(r.tag) \in Nat
  BY <1>7 DEF Transcripts
<1>12. ASSUME NEW n \in DOMAIN sealed, n[1] = "client", n[2] = "control"
       PROVE  Len(n[3]) < Len(r.tag)
  <2>1. Before(n, c.secret, c.control_number)
    BY <1>1, <1>9, <1>12 DEF ClientCovers
  <2>2. n[3] \in Transcripts
    BY <1>1 DEF Nonces
  <2>3. Len(n[3]) \in Nat
    BY <2>2 DEF Transcripts
  <2> QED
    BY <1>1, <1>10, <1>11, <2>1, <2>3 DEF Before
<1>13. Len(r.tag) <= Len(c.transcript) + 1
  BY <1>1, <1>10, <1>11
<1>14. "commit" \in {"commit", "confirm"} /\ c.pending # {} /\ link' \in Links
  BY <1>1, <1>2, <1>6
<1> QED
  BY <1>2, <1>3, <1>5, <1>7, <1>10, <1>12, <1>13, <1>14, ConfirmStep DEF c

\* The key of a full rekey is longer than the transcript before it.
LEMMA ReplyStep ==
  ASSUME NonceInv, UNCHANGED server, ClientHandles(ReplyOk, AcceptFullReply)
  PROVE  NonceInv'
<1> DEFINE c == client
           r == Head(s2c[c.sock])
           k == Append(c.transcript, Label(r))
<1>1. /\ ClientOk(c) /\ c.sock \in Paths /\ s2c \in Queues
      /\ ClientCovers(c, DOMAIN sealed) /\ AcksOnce(server, c, s2c)
      /\ link \in Links /\ DOMAIN sealed \subseteq Nonces
      /\ Len(c.transcript) \in Nat /\ Len(c.secret) \in Nat
      /\ c.transcript \in Transcripts
      /\ \A p \in c.pending : Len(p.secret) \in Nat
  BY ClientFacts DEF NonceInv, TypeOK
<1>2. /\ c.up /\ Arrived(s2c, c.sock) /\ ReplyOk(c, r)
      /\ Confirm(c, r, k, "confirm")
      /\ s2c' = [s2c EXCEPT ![c.sock] = Tail(@)] /\ link' = link
  BY DEF ClientHandles, AcceptFullReply
<1>3. /\ s2c' \in Queues /\ ShortHellos(s2c') /\ r \in Records
      /\ AcksOnce(server, c, s2c')
  BY <1>1, <1>2, TakenByClient
<1> HIDE DEF r, c
<1>4. PICK p \in c.pending : p.mode = "full"
  BY <1>2 DEF ReplyOk
<1>5. ~\E q \in c.pending : q.mode = "routine"
  BY <1>1, <1>4 DEF ClientOk
<1>6. k \in Transcripts /\ Len(k) = Len(c.transcript) + 1
  BY <1>1, <1>3, Extends
<1> HIDE DEF k
<1>7. Len(c.secret) <= Len(c.transcript)
      /\ \A q \in c.pending : Len(q.secret) <= Len(c.transcript)
  BY <1>1 DEF ClientOk
<1>8. ASSUME NEW n \in DOMAIN sealed, n[1] = "client", n[2] = "control"
      PROVE  Len(n[3]) < Len(k)
  <2>1. \/ Before(n, c.secret, c.control_number)
        \/ \E q \in c.pending : Before(n, q.secret, 1)
    BY <1>1, <1>8 DEF ClientCovers
  <2>2. n[3] \in Transcripts
    BY <1>1 DEF Nonces
  <2>3. Len(n[3]) \in Nat
    BY <2>2 DEF Transcripts
  <2> QED
    BY <1>1, <1>6, <1>7, <2>1, <2>3 DEF Before
<1>9. Len(c.secret) < Len(k) /\ Len(k) <= Len(c.transcript) + 1
  BY <1>1, <1>6, <1>7
<1>10. "confirm" \in {"commit", "confirm"} /\ c.pending # {} /\ link' \in Links
  BY <1>1, <1>2, <1>4
<1> QED
  BY <1>2, <1>3, <1>5, <1>6, <1>8, <1>9, <1>10, ConfirmStep DEF c

\* DONE makes the confirmed key the current one: its number 0 is taken.
LEMMA DoneStep ==
  ASSUME NonceInv, UNCHANGED server, ClientHandles(DoneOk, AcceptUpdateDone)
  PROVE  NonceInv'
<1> DEFINE c == client
           r == Head(s2c[c.sock])
           p == CHOOSE q \in c.pending : TRUE
           u == Append(c.transcript, Label(r))
           d == [c EXCEPT !.transcript = u, !.secret = p.secret,
                          !.epoch = p.epoch, !.data_number = 0,
                          !.control_number = 1, !.pending = {}]
           used == DOMAIN sealed
<1>1. /\ ClientOk(c) /\ c.sock \in Paths /\ s2c \in Queues
      /\ ClientCovers(c, used) /\ AcksOnce(server, c, s2c)
      /\ link \in Links /\ used \subseteq Nonces /\ c \in ClientStates
      /\ Len(c.transcript) \in Nat /\ Len(c.secret) \in Nat
      /\ c.transcript \in Transcripts
      /\ \A q \in c.pending : /\ Len(q.secret) \in Nat
                              /\ q.secret \in Transcripts /\ q.epoch \in Int
  BY ClientFacts DEF NonceInv, TypeOK
<1>2. /\ c.up /\ Arrived(s2c, c.sock) /\ DoneOk(c, r)
      /\ client' = d /\ UNCHANGED <<c2s, sealed>>
      /\ s2c' = [s2c EXCEPT ![c.sock] = Tail(@)] /\ link' = link
  BY <1>1 DEF ClientHandles, AcceptUpdateDone, ClientStates
<1>3. /\ s2c' \in Queues /\ ShortHellos(s2c') /\ r \in Records
      /\ AcksOnce(server, c, s2c')
  BY <1>1, <1>2, TakenByClient
<1>4. PICK o \in c.pending : o.phase = "commit"
  BY <1>2 DEF DoneOk
<1>5. p = o /\ p \in c.pending
  BY <1>1, <1>4 DEF ClientOk
<1> HIDE DEF r, c, p, used
<1>6. /\ Len(c.secret) < Len(p.secret) /\ Len(p.secret) <= Len(c.transcript)
      /\ Len(p.secret) \in Nat /\ p.secret \in Transcripts /\ p.epoch \in Int
      /\ \A q \in c.pending : q = p
  BY <1>1, <1>4, <1>5 DEF ClientOk
<1>7. u \in Transcripts /\ Len(u) = Len(c.transcript) + 1
  BY <1>1, <1>3, Extends
<1> HIDE DEF u
<1>8. d \in ClientStates
  <2> DEFINE zero == 0
             one == 1
             e == [c EXCEPT !.transcript = u, !.secret = p.secret,
                            !.epoch = p.epoch, !.data_number = zero,
                            !.control_number = one, !.pending = {}]
  <2>1. zero \in Nat /\ one \in Nat /\ d = e
    OBVIOUS
  <2> HIDE DEF zero, one
  <2>2. e \in ClientStates
    BY <1>1, <1>6, <1>7, <2>1 DEF ClientStates
  <2> QED
    BY <2>1, <2>2
<1>9. /\ d.secret = p.secret /\ d.transcript = u /\ d.pending = {}
      /\ d.control_number = 1 /\ d.data_number = 0
  BY <1>1 DEF ClientStates
<1>10. d.up = c.up
  BY <1>1 DEF ClientStates
<1> HIDE DEF d
<1>11. ~Handshaking(d)
  BY <1>2, <1>10 DEF Handshaking
<1>12. Len(d.secret) <= Len(d.transcript)
  BY <1>1, <1>6, <1>7, <1>9
<1>13. ClientOk(d)
  BY <1>8, <1>9, <1>11, <1>12 DEF ClientOk
<1>14. ASSUME NEW n \in used, n[1] = "client"
       PROVE  /\ n[2] = "data" => Before(n, d.secret, d.data_number)
              /\ n[2] = "control" => Before(n, d.secret, d.control_number)
  <2>1. n[3] \in Transcripts
    BY <1>1 DEF Nonces
  <2>2. Len(n[3]) \in Nat
    BY <2>1 DEF Transcripts
  <2>3. \A k : Before(n, c.secret, k) => Len(n[3]) < Len(d.secret)
    BY <1>1, <1>6, <1>9, <2>2 DEF Before
  <2>4. /\ n[2] = "data" => Before(n, c.secret, c.data_number)
        /\ n[2] = "control" =>
             \/ Before(n, c.secret, c.control_number)
             \/ Before(n, p.secret, 1)
    BY <1>1, <1>6, <1>14 DEF ClientCovers
  <2> QED
    BY <1>9, <2>3, <2>4 DEF Before
<1>15. ClientCovers(d, used)
  BY <1>11, <1>14 DEF ClientCovers
<1>16. AcksOnce(server, d, s2c')
  BY <1>3, <1>9, AcksFor
<1> QED
  BY <1>1, <1>2, <1>3, <1>13, <1>15, <1>16, ClientSilent DEF used

\* A request is counted in before the init it asks for.
LEMMA RequestStep ==
  ASSUME NonceInv, UNCHANGED server,
         ClientHandles(RequestOk, AcceptUpdateRequest)
  PROVE  NonceInv'
<1> DEFINE c == client
           r == Head(s2c[c.sock])
           u == Append(c.transcript, Label(r))
           d == [c EXCEPT !.transcript = u]
<1>1. /\ ClientOk(c) /\ c.sock \in Paths /\ ClientCovers(c, DOMAIN sealed)
      /\ link \in Links /\ c \in ClientStates
      /\ Len(c.transcript) \in Nat /\ c.transcript \in Transcripts
      /\ Len(c.secret) \in Nat /\ c.secret \in Transcripts
  BY ClientFacts DEF NonceInv, TypeOK
<1>2. /\ c.up /\ Arrived(s2c, c.sock) /\ RequestOk(c, r)
      /\ AcceptUpdateRequest(c, r)
      /\ s2c' = [s2c EXCEPT ![c.sock] = Tail(@)] /\ link' = link
  BY DEF ClientHandles
<1>3. /\ s2c' \in Queues /\ ShortHellos(s2c') /\ r \in Records
      /\ AcksOnce(server, client, s2c')
  BY <1>1, <1>2, TakenByClient
<1> HIDE DEF r, c
<1>4. u \in Transcripts /\ Len(u) = Len(c.transcript) + 1
  BY <1>1, <1>3, Extends
<1>5. Initiate(d, "routine", "init", <<d.secret, d.transcript>>)
  BY <1>1, <1>2 DEF AcceptUpdateRequest, RoutineInit, ClientStates
<1> HIDE DEF u
<1>6. d \in ClientStates /\ d.up = c.up
  BY <1>1, <1>4 DEF ClientStates
<1>7. /\ d.secret = c.secret /\ d.transcript = u /\ d.pending = c.pending
      /\ d.control_number = c.control_number
      /\ d.data_number = c.data_number
  BY <1>1 DEF ClientStates
<1> HIDE DEF d
<1>8. c.pending = {} /\ ~Handshaking(c) /\ ~Handshaking(d) /\ d.up
  BY <1>2, <1>6 DEF RequestOk, Handshaking
<1>9. Len(d.secret) <= Len(d.transcript)
  BY <1>1, <1>4, <1>7 DEF ClientOk
<1>10. ClientOk(d)
  BY <1>6, <1>7, <1>8, <1>9 DEF ClientOk
<1>11. ClientCovers(d, DOMAIN sealed)
  BY <1>1, <1>7, <1>8 DEF ClientCovers
<1>12. <<d.secret, d.transcript>> \in Tags /\ "routine" \in Modes
  BY <1>1, <1>4, <1>7 DEF Tags, Modes
<1> QED
  BY <1>1, <1>2, <1>3, <1>5, <1>7, <1>8, <1>10, <1>11, <1>12, InitiateStep

\* The response to a challenge.
LEMMA ResponseStep ==
  ASSUME NonceInv, UNCHANGED server,
         ClientHandles(ChallengeOk, AcceptChallenge)
  PROVE  NonceInv'
<1> DEFINE c == client
           r == Head(s2c[c.sock])
           after == Append(c.transcript, Label(r))
           a == ClientRecord(c, "control", c.control_number, "response", after)
           u == Append(after, Label(a))
           d == [c EXCEPT !.transcript = u, !.control_number = @ + 1,
                          !.dialling = FALSE]
<1>1. /\ ClientOk(c) /\ c.sock \in Paths /\ ClientCovers(c, DOMAIN sealed)
      /\ link \in Links /\ c \in ClientStates /\ c.epoch \in Int
      /\ Len(c.transcript) \in Nat /\ c.transcript \in Transcripts
      /\ Len(c.secret) \in Nat /\ c.secret \in Transcripts
      /\ c.control_number + 1 \in Nat /\ c.control_number \in Nat
      /\ \A p \in c.pending : Len(p.secret) \in Nat
  BY ClientFacts DEF NonceInv, TypeOK
<1>2. /\ c.up /\ Arrived(s2c, c.sock) /\ Transmit(a) /\ client' = d
      /\ s2c' = [s2c EXCEPT ![c.sock] = Tail(@)] /\ link' = link
  BY <1>1 DEF ClientHandles, AcceptChallenge, ClientStates
<1>3. /\ s2c' \in Queues /\ ShortHellos(s2c') /\ r \in Records
      /\ AcksOnce(server, c, s2c')
  BY <1>1, <1>2, TakenByClient
<1> HIDE DEF r, c
<1>4. after \in Transcripts /\ Len(after) = Len(c.transcript) + 1
  BY <1>1, <1>3, Extends
<1> HIDE DEF after
<1>5. "response" \in Types /\ "response" # "client_auth" /\ after \in Tags
  BY <1>4 DEF Types, Tags
<1>6. a \in Records
  <2>1. "client" \in Froms /\ "control" \in Kinds
    BY DEF Froms, Kinds
  <2> QED
    BY <1>1, <1>5, <2>1, RecordFacts DEF ClientRecord
<1>7. u \in Transcripts /\ Len(u) = Len(after) + 1
  BY <1>4, <1>6, Extends
<1> HIDE DEF u
<1>8. d \in ClientStates
  BY <1>1, <1>7 DEF ClientStates
<1>9. /\ d.secret = c.secret /\ d.transcript = u /\ d.pending = c.pending
      /\ d.control_number = c.control_number + 1
      /\ d.data_number = c.data_number
  BY <1>1 DEF ClientStates
<1>10. d.up = c.up /\ d.reason = c.reason
  BY <1>1 DEF ClientStates
<1> HIDE DEF d
<1>11. Len(c.transcript) <= Len(d.transcript)
  BY <1>1, <1>4, <1>7, <1>9
<1>12. \A p \in d.pending :
         /\ Len(p.secret) <= Len(d.transcript)
         /\ p.mode = "routine" \/ p.phase = "commit"
              => Len(c.secret) < Len(p.secret)
  BY <1>1, <1>4, <1>7, <1>9 DEF ClientOk
<1>13. \A p, q \in d.pending : p = q
  BY <1>1, <1>9 DEF ClientOk
<1>14. AcksOnce(server, d, s2c')
  BY <1>3, <1>9, AcksFor
<1>15. ~Handshaking(c)
  BY <1>2 DEF Handshaking
<1> QED
  BY <1>1, <1>2, <1>3, <1>5, <1>8, <1>9, <1>10, <1>11, <1>12, <1>13, <1>14,
     <1>15, ClientControl

\* Data and pongs leave the transcript alone.
LEMMA PlainStep ==
  ASSUME NonceInv, UNCHANGED server, ClientHandles(PlainOk, AcceptPlain)
  PROVE  NonceInv'
<1> DEFINE c == client
           r == Head(s2c[c.sock])
           b == c.pinging /\ r.type # "pong"
           d == [c EXCEPT !.pinging = b]
<1>1. /\ ClientOk(c) /\ c.sock \in Paths /\ link \in Links
      /\ c \in ClientStates
  BY ClientFacts DEF NonceInv, TypeOK
<1>2. /\ c.up /\ Arrived(s2c, c.sock) /\ client' = d
      /\ UNCHANGED <<c2s, sealed>>
      /\ s2c' = [s2c EXCEPT ![c.sock] = Tail(@)] /\ link' = link
  BY <1>1 DEF ClientHandles, AcceptPlain, ClientStates
<1>3. /\ s2c' \in Queues /\ ShortHellos(s2c')
      /\ AcksOnce(server, client, s2c')
  BY <1>1, <1>2, TakenByClient
<1>4. b \in BOOLEAN
  OBVIOUS
<1> HIDE DEF r, b
<1>5. d \in ClientStates /\ d.up = c.up
  BY <1>1, <1>4 DEF ClientStates
<1>6. ClientSame(d)
  BY <1>1 DEF ClientStates, ClientSame
<1> HIDE DEF d
<1>7. ~Handshaking(d)
  BY <1>2, <1>5 DEF Handshaking
<1> QED
  BY <1>1, <1>2, <1>3, <1>5, <1>6, <1>7, ClientNotes

\* A record the client refuses, an update that has expired, a closed carrier.
LEMMA GiveUpStep ==
  ASSUME NonceInv, UNCHANGED server,
         ClientRejects \/ ClientExpires \/ ClientSeesClose
  PROVE  NonceInv'
<1>1. /\ client.sock \in Paths /\ link \in Links /\ s2c \in Queues
      /\ ShortHellos(s2c) /\ AcksOnce(server, client, s2c)
  BY ClientFacts DEF NonceInv, TypeOK
<1>2. CASE ClientRejects
  <2> DEFINE r == Head(s2c[client.sock])
             why == IF r.type = "request" /\ ReadsCurrent(client, r)
                    THEN IF client.pending # {} THEN "concurrent update"
                                                ELSE "epoch overflow"
                    ELSE "invalid record"
  <2>1. /\ ClientDown(why) /\ link' = Closed(link, Paths)
        /\ UNCHANGED <<c2s, sealed>> /\ Arrived(s2c, client.sock)
        /\ s2c' = [s2c EXCEPT ![client.sock] = Tail(@)]
    BY <1>2 DEF ClientRejects, ClientDown
  <2>2. why \in Reasons /\ why # "none"
    BY DEF Reasons
  <2>3. /\ s2c' \in Queues /\ ShortHellos(s2c')
        /\ AcksOnce(server, client, s2c')
    BY <1>1, <2>1, TakenByClient
  <2> HIDE DEF why
  <2> QED
    BY <2>1, <2>2, <2>3, ClientEnds
<1>3. CASE ClientExpires
  <2>1. "timeout" \in Reasons
    BY DEF Reasons
  <2> QED
    BY <1>1, <1>3, <2>1, ClientEnds DEF ClientExpires
<1>4. CASE ClientSeesClose
  <2>1. "closed" \in Reasons
    BY DEF Reasons
  <2> QED
    BY <1>1, <1>4, <2>1, ClientEnds DEF ClientSeesClose
<1> QED
  BY <1>2, <1>3, <1>4

-----------------------------------------------------------------------------
(* The handshake of the client                                             *)

\* A message of the handshake joins the transcript.
LEMMA ExtendedClient ==
  ASSUME NEW c, ClientOk(c), NEW r, r.type \in Types
  PROVE  LET d == Extended(c, r)
         IN  /\ ClientOk(d) /\ d.up = c.up /\ d.reason = c.reason
             /\ d.secret = c.secret /\ d.pending = c.pending
             /\ d.data_number = c.data_number
             /\ d.control_number = c.control_number
             /\ d.transcript = Append(c.transcript, r.type)
             /\ Len(d.transcript) = Len(c.transcript) + 1
<1> DEFINE u == Append(c.transcript, r.type)
           d == [c EXCEPT !.transcript = u]
<1>1. /\ c \in ClientStates /\ c.transcript \in Transcripts
      /\ Len(c.transcript) \in Nat /\ Len(c.secret) \in Nat
      /\ \A p \in c.pending : Len(p.secret) \in Nat
  BY ClientFacts
<1>2. u \in Transcripts /\ Len(u) = Len(c.transcript) + 1
  BY <1>1 DEF Transcripts, Labels
<1>3. Extended(c, r) = d
  BY <1>1 DEF Extended, ClientStates
<1>4. d.transcript = u
  BY <1>1 DEF ClientStates
<1>5. u = Append(c.transcript, r.type)
  OBVIOUS
<1> HIDE DEF u
<1>6. d \in ClientStates
  BY <1>1, <1>2 DEF ClientStates
<1>7. d.up = c.up /\ d.reason = c.reason
  BY <1>1 DEF ClientStates
<1>8. /\ d.secret = c.secret /\ d.pending = c.pending
      /\ d.data_number = c.data_number /\ d.control_number = c.control_number
  BY <1>1 DEF ClientStates
<1> HIDE DEF d
<1>9. Len(d.secret) <= Len(d.transcript)
  BY <1>1, <1>2, <1>4, <1>8 DEF ClientOk
<1>10. \A p \in d.pending :
         /\ Len(p.secret) <= Len(d.transcript)
         /\ p.mode = "routine" \/ p.phase = "commit"
              => Len(d.secret) < Len(p.secret)
  BY <1>1, <1>2, <1>4, <1>8 DEF ClientOk
<1>11. Handshaking(d) => Handshaking(c)
  BY <1>7 DEF Handshaking
<1>12. ClientOk(d)
  BY <1>6, <1>8, <1>9, <1>10, <1>11 DEF ClientOk
<1> QED
  BY <1>2, <1>3, <1>4, <1>5, <1>7, <1>8, <1>12

\* CLIENT_HELLO goes out in the clear.
LEMMA ClientHelloStep ==
  ASSUME NonceInv, UNCHANGED server, ClientHello
  PROVE  NonceInv'
<1> DEFINE r == Clear("client", "client_hello", <<>>)
           d == Extended(client, r)
<1>1. /\ client' = d /\ c2s' = Sent(c2s, "first", <<r>>)
      /\ UNCHANGED <<s2c, link, sealed>>
  BY DEF ClientHello
<1>2. /\ ClientOk(client) /\ ClientCovers(client, DOMAIN sealed)
      /\ c2s \in Queues /\ ShortAuths(c2s) /\ "first" \in Paths
      /\ AcksOnce(server, client, s2c) /\ Len(client.transcript) \in Nat
  BY ClientFacts DEF NonceInv, TypeOK, Paths
<1>3. r \in Records /\ r.type = "client_hello"
  <2>1. /\ "client" \in Froms /\ "clear" \in Kinds /\ "client_hello" \in Types
        /\ <<>> \in Transcripts /\ <<>> \in Tags
    BY DEF Froms, Kinds, Types, Transcripts, Tags
  <2> QED
    BY <2>1 DEF Clear, Record, Records
<1>4. r.type \in Types
  BY <1>3 DEF Types
<1> HIDE DEF r
<1>5. /\ ClientOk(d) /\ d.up = client.up /\ d.reason = client.reason
      /\ d.secret = client.secret /\ d.pending = client.pending
      /\ d.data_number = client.data_number
      /\ d.control_number = client.control_number
      /\ Len(d.transcript) = Len(client.transcript) + 1
  BY <1>2, <1>4, ExtendedClient
<1> HIDE DEF d
<1>6. ClientCovers(d, DOMAIN sealed)
  <2>1. Handshaking(d) => Handshaking(client)
    BY <1>5 DEF Handshaking
  <2>2. Len(client.transcript) >= 3 => Len(d.transcript) >= 3
    BY <1>2, <1>5
  <2> QED
    BY <1>2, <1>5, <2>1, <2>2 DEF ClientCovers
<1>7. AcksOnce(server, d, s2c)
  BY <1>2, <1>5, AcksFor
<1>8. Sent(c2s, "first", <<r>>) \in Queues
  BY <1>2, <1>3, SentFacts
<1>9. ShortAuths(Sent(c2s, "first", <<r>>))
  BY <1>2, <1>3, AuthsSent
<1>10. TypeOK'
  BY <1>1, <1>5, <1>8 DEF NonceInv, TypeOK, ClientOk
<1> QED
  BY <1>1, <1>5, <1>6, <1>7, <1>9, <1>10 DEF NonceInv, NonceUnique

\* CLIENT_AUTH and CLIENT_CONFIRM, each at its place in the handshake.
Stage(number, type) ==
  \/ type = "client_auth" /\ number = 0 /\ Len(client.transcript) = 1
  \/ type = "client_confirm" /\ number = 1 /\ Len(client.transcript) >= 2

Answered(r, number, type) ==
  LET after  == Extended(client, r)
      answer == SealHandshake(after, "client", number, type)
  IN  /\ Transmit(answer)
      /\ client' = IF type = "client_confirm"
                   THEN Established(Extended(after, answer))
                   ELSE Extended(after, answer)

\* A message of the server is taken and answered under a handshake key.
LEMMA AnswerStep ==
  ASSUME NonceInv, UNCHANGED server, Handshaking(client),
         NEW r \in Records, NEW number, NEW type,
         Stage(number, type), Answered(r, number, type),
         s2c' \in Queues, ShortHellos(s2c'), AcksOnce(server, client, s2c'),
         link' \in Links
  PROVE  NonceInv'
<1> DEFINE c1 == Extended(client, r)
           a == SealHandshake(c1, "client", number, type)
           c2 == Extended(c1, a)
           m == <<"client", "handshake", Hellos(c1), number>>
           used == DOMAIN sealed
<1>0. /\ type = "client_auth" => number = 0 /\ Len(client.transcript) = 1
      /\ number = 0 => Len(client.transcript) = 1
      /\ Len(client.transcript) >= 1 /\ number \in Nat
      /\ type = "client_auth" \/ type = "client_confirm"
  BY DEF Stage
<1>1. /\ ClientOk(client) /\ ClientCovers(client, used)
      /\ used \subseteq Nonces /\ Len(client.transcript) \in Nat
      /\ client.secret = <<>> /\ client.pending = {}
      /\ client.data_number = 0 /\ client.control_number = 0
  <2>1. ClientOk(client)
    BY DEF NonceInv
  <2> QED
    BY <2>1, ClientFacts DEF NonceInv, TypeOK, ClientOk
<1>2. r.type \in Types /\ type \in Types
  BY <1>0 DEF Records, Types
<1>3. /\ ClientOk(c1) /\ c1.up = client.up /\ c1.reason = client.reason
      /\ c1.secret = client.secret /\ c1.pending = client.pending
      /\ c1.data_number = client.data_number
      /\ c1.control_number = client.control_number
      /\ Len(c1.transcript) = Len(client.transcript) + 1
  BY <1>1, <1>2, ExtendedClient
<1>4. Transmit(a) /\ client' = IF type = "client_confirm"
                               THEN Established(c2) ELSE c2
  BY DEF Answered
<1> HIDE DEF c1
<1>5. c1.transcript \in Transcripts /\ Len(c1.transcript) >= 2
  BY <1>0, <1>1, <1>3, ClientFacts
<1>6. Hellos(c1) \in Transcripts
  BY <1>5, HellosType
<1>7. /\ a \in Records /\ a.type = type /\ a.from = "client"
      /\ a.tag = c1.transcript /\ Nonce(a) = m
  <2>1. /\ "client" \in Froms /\ "handshake" \in Kinds
        /\ c1.transcript \in Tags /\ number \in Nat
    BY <1>0, <1>5 DEF Froms, Kinds, Tags
  <2> QED
    BY <1>2, <1>6, <2>1 DEF SealHandshake, Record, Records, Nonce
<1>8. a.type = "client_auth" => Len(a.tag) = 2
  <2>1. ASSUME type = "client_auth" PROVE Len(c1.transcript) = 2
    <3>1. Len(client.transcript) = 1
      BY <1>0, <2>1
    <3> QED
      BY <1>3, <3>1
  <2> QED
    BY <1>7, <2>1
<1> HIDE DEF a
<1>9. /\ ClientOk(c2) /\ c2.up = c1.up /\ c2.reason = c1.reason
      /\ c2.secret = c1.secret /\ c2.pending = c1.pending
      /\ c2.data_number = c1.data_number
      /\ c2.control_number = c1.control_number
      /\ Len(c2.transcript) = Len(c1.transcript) + 1
  BY <1>2, <1>3, <1>7, ExtendedClient
<1>10. Nonce(a) \notin used
  <2> SUFFICES ASSUME m \in used PROVE FALSE
    BY <1>7
  <2>1. number = 0 /\ Len(client.transcript) >= 3
    BY <1>1 DEF ClientCovers
  <2> QED
    BY <1>0, <1>1, <2>1
<1> HIDE DEF c2
<1>11. \A n \in used : n[1] = "client" => n[2] # "data" /\ n[2] # "control"
  <2> SUFFICES ASSUME NEW n \in used, n[1] = "client"
               PROVE  n[2] # "data" /\ n[2] # "control"
    OBVIOUS
  <2>1. n[3] \in Transcripts /\ n[4] \in Nat
    BY <1>1 DEF Nonces
  <2>2. Len(n[3]) \in Nat /\ Len(<<>>) = 0
    BY <2>1 DEF Transcripts
  <2>3. ~Before(n, <<>>, 0)
    BY <2>1, <2>2 DEF Before
  <2> QED
    BY <1>1, <2>3 DEF ClientCovers
<1>12. CASE type = "client_auth"
  <2>0. Len(client.transcript) = 1 /\ number = 0 /\ client' = c2
    BY <1>0, <1>4, <1>12
  <2>1. client' = c2 /\ Len(c2.transcript) = 3 /\ number = 0
    BY <1>3, <1>9, <2>0
  <2>2. ASSUME NEW n \in used \cup {m}, n[1] = "client"
        PROVE  /\ n[2] # "data" /\ n[2] # "control"
               /\ n[2] = "handshake" => n[4] = 0 /\ Len(c2.transcript) >= 3
    <3>1. CASE n = m
      BY <2>1, <3>1
    <3>2. CASE n \in used
      BY <1>1, <1>11, <2>1, <2>2, <3>2 DEF ClientCovers
    <3> QED
      BY <3>1, <3>2
  <2>3. ClientCovers(c2, used \cup {m})
    BY <2>2 DEF ClientCovers
  <2>4. AcksOnce(server, c2, s2c')
    BY <1>3, <1>9, AcksFor
  <2> QED
    BY <1>4, <1>7, <1>8, <1>9, <1>10, <2>1, <2>3, <2>4, ClientTransmits
       DEF used
<1>13. CASE type = "client_confirm"
  <2> DEFINE k == c2.transcript
             zero == 0
             e == [c2 EXCEPT !.epoch = zero, !.secret = k]
             d == [e EXCEPT !.up = TRUE]
  <2>1. c2 \in ClientStates /\ k \in Transcripts /\ zero \in Int
        /\ Len(k) \in Nat
    BY <1>9, ClientFacts
  <2>2. client' = d
    BY <1>4, <1>13, <2>1 DEF Established, ClientStates
  <2> HIDE DEF zero, k
  <2>3. e \in ClientStates
    BY <2>1 DEF ClientStates
  <2>4. e.secret = k /\ e.transcript = c2.transcript /\ e.pending = c2.pending
    BY <2>1 DEF ClientStates
  <2> HIDE DEF e
  <2>5. d \in ClientStates /\ d.up = TRUE
    BY <2>3 DEF ClientStates
  <2>6. d.secret = k /\ d.transcript = k /\ d.pending = {}
    BY <1>1, <1>3, <1>9, <2>3, <2>4 DEF ClientStates, k
  <2> HIDE DEF d
  <2>7. ~Handshaking(d) /\ Len(d.secret) <= Len(d.transcript)
    BY <2>1, <2>5, <2>6 DEF Handshaking
  <2>8. ClientOk(d)
    BY <2>5, <2>6, <2>7 DEF ClientOk
  <2>9. ClientCovers(d, used \cup {m})
    BY <1>11, <2>7 DEF ClientCovers
  <2>10. AcksOnce(server, d, s2c')
    BY <2>6, AcksFor
  <2> QED
    BY <1>4, <1>7, <1>8, <1>10, <2>2, <2>8, <2>9, <2>10, ClientTransmits
       DEF used
<1> QED
  BY <1>0, <1>12, <1>13

\* The two messages the client answers in its handshake.
LEMMA ClientHandshakeStep ==
  ASSUME NonceInv, UNCHANGED server, ClientAuth \/ ClientConfirm
  PROVE  NonceInv'
<1> DEFINE r == Head(s2c["first"])
<1>1. /\ "first" \in Paths /\ link \in Links /\ ShortHellos(s2c)
  BY DEF NonceInv, TypeOK, Paths
<1>2. /\ Handshaking(client) /\ Arrived(s2c, "first")
      /\ s2c' = [s2c EXCEPT !["first"] = Tail(@)] /\ link' = link
  BY DEF ClientAuth, ClientConfirm, ClientAnswers, Incoming
<1>3. /\ s2c' \in Queues /\ ShortHellos(s2c') /\ r \in Records
      /\ AcksOnce(server, client, s2c')
      /\ r = s2c["first"][1] /\ 1 \in 1 .. Len(s2c["first"])
  BY <1>1, <1>2, TakenByClient
<1>4. CASE ClientAuth
  <2>1. Answered(r, 0, "client_auth") /\ ServerHelloOk(r)
    BY <1>4 DEF ClientAuth, ClientAnswers, Answered
  <2> HIDE DEF r
  <2>2. r.type = "server_hello" /\ r.tag = client.transcript
    BY <2>1 DEF ServerHelloOk, Clear, Record
  <2>3. Len(client.transcript) = 1
    BY <1>1, <1>3, <2>2 DEF ShortHellos
  <2>4. Stage(0, "client_auth")
    BY <2>3 DEF Stage
  <2> QED
    BY <1>1, <1>2, <1>3, <2>1, <2>4, AnswerStep
<1>5. CASE ClientConfirm
  <2>1. Answered(r, 1, "client_confirm") /\ FinishOk(r)
    BY <1>5 DEF ClientConfirm, ClientAnswers, Answered
  <2> HIDE DEF r
  <2>2. Stage(1, "client_confirm")
    BY <2>1 DEF FinishOk, OpenHandshake, Stage
  <2> QED
    BY <1>1, <1>2, <1>3, <2>1, <2>2, AnswerStep
<1> QED
  BY <1>4, <1>5

\* The client's half of the induction.
LEMMA ClientStep ==
  ASSUME NonceInv, ClientThread \/ ClientChoices
  PROVE  NonceInv'
<1>1. CASE ClientChoices
  BY <1>1, ClientChoiceStep
<1>2. CASE ClientThread
  <2>1. UNCHANGED server
    BY <1>2 DEF ClientThread
  <2>2. \/ ClientHello \/ ClientAuth \/ ClientConfirm
        \/ ClientExpires \/ ClientSeesClose \/ ClientRejects
        \/ ClientHandles(PlainOk, AcceptPlain)
        \/ ClientHandles(RequestOk, AcceptUpdateRequest)
        \/ ClientHandles(AckOk, AcceptUpdateAck)
        \/ ClientHandles(ReplyOk, AcceptFullReply)
        \/ ClientHandles(DoneOk, AcceptUpdateDone)
        \/ ClientHandles(ChallengeOk, AcceptChallenge)
    BY <1>2 DEF ClientThread, ClientHandshakes, ClientReceives
  <2> QED
    BY <2>1, <2>2, ClientHelloStep, ClientHandshakeStep, GiveUpStep,
       PlainStep, RequestStep, AckStep, ReplyStep, DoneStep, ResponseStep
<1> QED
  BY <1>1, <1>2

-----------------------------------------------------------------------------
(* Time and the network                                                    *)

\* Time passes for one of the two ends.
LEMMA TickStep ==
  ASSUME NonceInv, Tick
  PROVE  NonceInv'
<1>1. /\ UNCHANGED <<c2s, s2c, link, sealed>>
      /\ server' = ServerTicks(server) \/ server' = server
      /\ client' = ClientTicks(client) \/ client' = client
  BY DEF Tick, carrierVars
<1>2. /\ server \in ServerStates /\ ServerOk(server) /\ ClientOk(client)
      /\ client \in ClientStates /\ Len(server.transcript) \in Nat
      /\ ServerCovers(server, DOMAIN sealed)
      /\ ClientCovers(client, DOMAIN sealed)
      /\ AcksOnce(server, client, s2c)
  BY ServerFacts DEF NonceInv, TypeOK
<1>3. server' \in ServerStates /\ Grows(server, server')
  <2>1. CASE server' = server
    BY <1>2, <2>1 DEF Grows
  <2>2. CASE server' = ServerTicks(server)
    <3> DEFINE Less(n) == IF n > 0 THEN n - 1 ELSE 0
               Fewer(D) == {Less(n) : n \in D}
               age == IF server.age < UPDATE_INTERVAL THEN server.age + 1
                                                      ELSE server.age
               P == {[p EXCEPT !.left = Less(@)] : p \in server.previous}
               D == Fewer(server.deadline)
               V == Fewer(server.validating)
               R == Fewer(server.draining)
               t == [server EXCEPT !.age = age, !.deadline = D,
                                   !.validating = V, !.draining = R,
                                   !.previous = P]
    <3>1. \A n \in Nat : Less(n) \in Nat
      OBVIOUS
    <3>2. server' = t
      BY <1>2, <2>2 DEF ServerTicks, ServerStates
    <3>3. age \in Nat
      BY <1>2 DEF ServerStates
    <3>4. P \subseteq [epoch : Int, secret : Transcripts, left : Nat,
                       remaining : Nat]
      BY <1>2, <3>1 DEF ServerStates
    <3>5. D \in SUBSET Nat /\ V \in SUBSET Nat /\ R \in SUBSET Nat
      BY <1>2, <3>1 DEF ServerStates
    <3> HIDE DEF age, P, D, V, R
    <3>6. t \in ServerStates
      BY <1>2, <3>3, <3>4, <3>5 DEF ServerStates
    <3>7. t.up = server.up /\ t.reason = server.reason
      BY <1>2 DEF ServerStates
    <3>8. Grows(server, t)
      BY <1>2, <3>7 DEF ServerStates, Grows
    <3> QED
      BY <3>2, <3>6, <3>8
  <2> QED
    BY <1>1, <2>1, <2>2
<1>4. ServerOk(server') /\ ServerCovers(server', DOMAIN sealed)
      /\ Len(server.transcript) <= Len(server'.transcript)
  BY <1>2, <1>3, GrowsOk DEF Grows
<1>5. /\ ClientOk(client') /\ ClientCovers(client', DOMAIN sealed)
      /\ AcksOnce(server, client', s2c)
  <2>1. CASE client' = client
    BY <1>2, <2>1
  <2>2. CASE client' = ClientTicks(client)
    <3> DEFINE Older(n) == IF n < UPDATE_TIMEOUT THEN n + 1 ELSE n
               R(p) == [p EXCEPT !.age = Older(@)]
               P == {R(p) : p \in client.pending}
               d == [client EXCEPT !.pending = P]
    <3>1. client' = d
      BY <1>2, <2>2 DEF ClientTicks, ClientStates
    <3>2. \A n \in Nat : Older(n) \in Nat
      OBVIOUS
    <3> HIDE DEF Older
    <3>3. /\ P \subseteq [epoch : Int, mode : Modes, secret : Transcripts,
                          phase : {"init", "commit"}, age : Nat]
          /\ \A q \in P : \E p \in client.pending :
               /\ q.secret = p.secret /\ q.phase = p.phase
               /\ q.mode = p.mode
          /\ \A p \in client.pending : \E q \in P :
               q.secret = p.secret /\ q.phase = p.phase
      <4>1. ASSUME NEW p \in client.pending
            PROVE  /\ R(p) \in [epoch : Int, mode : Modes,
                                secret : Transcripts,
                                phase : {"init", "commit"}, age : Nat]
                   /\ R(p).secret = p.secret /\ R(p).phase = p.phase
                   /\ R(p).mode = p.mode
        <5>1. p \in [epoch : Int, mode : Modes, secret : Transcripts,
                     phase : {"init", "commit"}, age : Nat]
          BY <1>2 DEF ClientStates
        <5>2. Older(p.age) \in Nat
          BY <3>2, <5>1
        <5> QED
          BY <5>1, <5>2
      <4> HIDE DEF R
      <4> QED
        BY <4>1
    <3>4. \A q, o \in P : q = o
      BY <1>2 DEF ClientOk
    <3>5. client.pending = {} => P = {}
      OBVIOUS
    <3> HIDE DEF P
    <3>6. d \in ClientStates /\ d.up = client.up /\ d.reason = client.reason
      BY <1>2, <3>3 DEF ClientStates
    <3>7. /\ d.secret = client.secret /\ d.transcript = client.transcript
          /\ d.pending = P /\ d.data_number = client.data_number
          /\ d.control_number = client.control_number
      BY <1>2 DEF ClientStates
    <3> HIDE DEF d
    <3>8. Handshaking(d) <=> Handshaking(client)
      BY <3>6 DEF Handshaking
    <3>9. \A p \in d.pending :
            /\ Len(p.secret) <= Len(d.transcript)
            /\ p.mode = "routine" \/ p.phase = "commit"
                 => Len(d.secret) < Len(p.secret)
      BY <1>2, <3>3, <3>7 DEF ClientOk
    <3>10. ClientOk(d)
      BY <1>2, <3>4, <3>5, <3>6, <3>7, <3>8, <3>9 DEF ClientOk
    <3>11. ClientCovers(d, DOMAIN sealed)
      BY <1>2, <3>3, <3>7, <3>8 DEF ClientCovers
    <3>12. AcksOnce(server, d, s2c)
      BY <1>2, <3>3, <3>7, AcksFor
    <3> QED
      BY <3>1, <3>10, <3>11, <3>12
  <2> QED
    BY <1>1, <2>1, <2>2
<1>6. client' \in ClientStates
  BY <1>5 DEF ClientOk
<1>7. AcksOnce(server', client', s2c)
  BY <1>2, <1>3, <1>4, <1>5, <1>6, AcksKept
<1>8. TypeOK'
  BY <1>1, <1>3, <1>6 DEF NonceInv, TypeOK
<1> QED
  BY <1>1, <1>4, <1>5, <1>7, <1>8 DEF NonceInv, NonceUnique

\* A carrier that fails loses what is in flight.
LEMMA NetworkStep ==
  ASSUME NonceInv, NetworkSteps
  PROVE  NonceInv'
<1>1. PICK p \in Paths : CarrierFails(p) \/ CarrierStalls(p)
  BY DEF NetworkSteps
<1>2. UNCHANGED <<server, client, sealed>>
  BY <1>1 DEF NetworkSteps, CarrierFails, CarrierStalls
<1>3. link' \in Links
  BY <1>1 DEF CarrierFails, CarrierStalls, NonceInv, TypeOK, Links
<1>4. /\ c2s \in Queues /\ s2c \in Queues /\ ShortAuths(c2s)
      /\ ShortHellos(s2c) /\ AcksOnce(server, client, s2c)
  BY DEF NonceInv, TypeOK
<1>5. /\ c2s' \in Queues /\ s2c' \in Queues
      /\ ShortAuths(c2s') /\ ShortHellos(s2c')
      /\ AcksOnce(server, client, s2c')
  <2>1. CASE CarrierStalls(p)
    BY <1>4, <2>1 DEF CarrierStalls
  <2>2. CASE CarrierFails(p)
    <3>1. /\ c2s' = [c2s EXCEPT ![p] = <<>>] /\ s2c' = [s2c EXCEPT ![p] = <<>>]
      BY <2>2 DEF CarrierFails
    <3>2. /\ c2s' \in Queues /\ s2c' \in Queues
          /\ c2s'[p] = <<>> /\ s2c'[p] = <<>>
          /\ \A x \in Paths : x # p => c2s'[x] = c2s[x] /\ s2c'[x] = s2c[x]
      BY <1>4, <3>1 DEF Queues
    <3>3. Len(c2s'[p]) = 0 /\ Len(s2c'[p]) = 0 /\ 1 .. 0 = {}
      BY <3>2
    <3>4. \A x \in Paths : \A i \in 1 .. Len(s2c'[x]) :
            x # p /\ i \in 1 .. Len(s2c[x]) /\ s2c'[x][i] = s2c[x][i]
      BY <3>2, <3>3
    <3>5. \A x \in Paths : \A i \in 1 .. Len(c2s'[x]) :
            x # p /\ i \in 1 .. Len(c2s[x]) /\ c2s'[x][i] = c2s[x][i]
      BY <3>2, <3>3
    <3>6. ShortAuths(c2s')
      BY <1>4, <3>5 DEF ShortAuths
    <3>7. ShortHellos(s2c')
      BY <1>4, <3>4 DEF ShortHellos
    <3>8. AcksFit(server, client, s2c')
      BY <1>4, <3>4 DEF AcksOnce, AcksFit
    <3>9. AcksDiffer(s2c')
      <4> SUFFICES ASSUME NEW x \in Paths, NEW y \in Paths,
                          NEW i \in 1 .. Len(s2c'[x]),
                          NEW j \in 1 .. Len(s2c'[y]),
                          s2c'[x][i].type = "ack", s2c'[y][j].type = "ack",
                          s2c'[x][i].tag = s2c'[y][j].tag
                   PROVE  x = y /\ i = j
        BY DEF AcksDiffer
      <4>1. /\ i \in 1 .. Len(s2c[x]) /\ s2c'[x][i] = s2c[x][i]
            /\ j \in 1 .. Len(s2c[y]) /\ s2c'[y][j] = s2c[y][j]
        BY <3>4
      <4> QED
        BY <1>4, <4>1 DEF AcksOnce, AcksDiffer
    <3> QED
      BY <1>4, <3>2, <3>6, <3>7, <3>8, <3>9 DEF AcksOnce
  <2> QED
    BY <1>1, <2>1, <2>2
<1>6. TypeOK'
  BY <1>2, <1>3, <1>5 DEF NonceInv, TypeOK
<1>7. NonceUnique' /\ ServerOk(server') /\ ClientOk(client')
      /\ ServerCovers(server', DOMAIN sealed')
      /\ ClientCovers(client', DOMAIN sealed')
  BY <1>2 DEF NonceInv, NonceUnique
<1> QED
  BY <1>2, <1>5, <1>6, <1>7 DEF NonceInv

-----------------------------------------------------------------------------
(* The theorems                                                            *)

\* The invariant holds before the first record.
LEMMA InitHolds ==
  ASSUME Init
  PROVE  NonceInv
<1>1. DOMAIN sealed = {}
  BY DEF Init, CarrierInit
<1>2. /\ c2s \in Queues /\ s2c \in Queues
      /\ \A p \in Paths : c2s[p] = <<>> /\ s2c[p] = <<>>
  BY DEF Init, CarrierInit, Queues
<1>3. \A p \in Paths : 1 .. Len(c2s[p]) = {} /\ 1 .. Len(s2c[p]) = {}
  BY <1>2
<1>4. link \in Links
  BY DEF Init, CarrierInit, Links
<1>5. <<>> \in Transcripts /\ Len(<<>>) = 0 /\ -1 \in Int
  BY DEF Transcripts
<1>6. /\ server \in ServerStates /\ server.secret = <<>>
      /\ server.transcript = <<>> /\ server.pending = {}
      /\ server.data_number = 0 /\ server.control_number = 0
  <2>1. HANDSHAKE_TIMEOUT \in Nat /\ "none" \in Reasons /\ "first" \in Paths
    BY KeyUpdateAssumption DEF Reasons, Paths
  <2> QED
    BY <1>5, <2>1 DEF Init, InitServer, ServerStates
<1>7. /\ client \in ClientStates /\ client.secret = <<>>
      /\ client.transcript = <<>> /\ client.pending = {}
      /\ client.data_number = 0 /\ client.control_number = 0
  <2>1. "none" \in Reasons /\ "first" \in Paths
    BY DEF Reasons, Paths
  <2> QED
    BY <1>5, <2>1 DEF Init, InitClient, ClientStates
<1>8. ServerOk(server) /\ ClientOk(client)
  BY <1>5, <1>6, <1>7 DEF ServerOk, ClientOk
<1>9. ShortAuths(c2s) /\ ShortHellos(s2c)
  BY <1>3 DEF ShortAuths, ShortHellos
<1>10. AcksOnce(server, client, s2c)
  BY <1>3, <1>7 DEF AcksOnce, AcksFit, AcksDiffer, ConfirmedFits
<1>11. /\ ServerCovers(server, DOMAIN sealed)
       /\ ClientCovers(client, DOMAIN sealed) /\ NonceUnique
  BY <1>1 DEF ServerCovers, ClientCovers, NonceUnique
<1>12. TypeOK
  BY <1>1, <1>2, <1>4, <1>6, <1>7 DEF TypeOK
<1> QED
  BY <1>8, <1>9, <1>10, <1>11, <1>12 DEF NonceInv

\* Every step keeps the invariant.
LEMMA NextHolds ==
  ASSUME NonceInv, [Next]_vars
  PROVE  NonceInv'
<1>1. CASE UNCHANGED vars
  <2>1. UNCHANGED <<server, client, c2s, s2c, link, sealed>>
    BY <1>1 DEF vars
  <2> QED
    BY <2>1 DEF NonceInv, TypeOK, NonceUnique
<1>2. CASE Next
  BY <1>2, ServerStep, ClientStep, TickStep, NetworkStep DEF Next
<1> QED
  BY <1>1, <1>2

\* The inductive invariant: the state is well typed, a later key is longer than
\* an earlier one, every nonce used lies before what its end would use next,
\* and no ACK that is still to come repeats one the client has answered.
THEOREM NonceSafety == Spec => []NonceInv
<1>1. Init => NonceInv
  BY InitHolds
<1>2. NonceInv /\ [Next]_vars => NonceInv'
  BY NextHolds
<1> QED
  BY <1>1, <1>2, PTL DEF Spec

\* Neither end ever seals two records under one key and number: the counters
\* RecordSender starts at 0 and the ones _accept_update_done resets never meet
\* a key they were used with before, whatever the bounds, over any number of
\* updates, migrations, time-outs and failures.
THEOREM NonceNeverReused == Spec => []NonceUnique
<1>1. NonceInv => NonceUnique
  BY DEF NonceInv
<1> QED
  BY <1>1, NonceSafety, PTL

\* A queue that has been read is shorter.
LEMMA TailIsShorter ==
  ASSUME c2s \in Queues, NEW q \in Paths, c2s[q] # <<>>
  PROVE  /\ c2s[q] # Tail(c2s[q])
         /\ \A p \in Paths : \A r : Sent(c2s, p, <<r>>)[q] # Tail(c2s[q])
<1>1. c2s[q] \in Seq(Records)
  BY DEF Queues
<1>2. Len(Tail(c2s[q])) = Len(c2s[q]) - 1 /\ Len(c2s[q]) \in Nat
  BY <1>1
<1>3. c2s[q] # Tail(c2s[q])
  <2> DEFINE s == c2s[q]
             t == Tail(c2s[q])
  <2>1. Len(t) = Len(s) - 1 /\ Len(s) \in Nat
    BY <1>2
  <2> HIDE DEF s, t
  <2>2. s # t
    BY <2>1
  <2> QED
    BY <2>2 DEF s, t
<1>4. ASSUME NEW p \in Paths, NEW r
      PROVE  Sent(c2s, p, <<r>>)[q] # Tail(c2s[q])
  <2> DEFINE l == c2s[q] \o <<r>>
  <2>1. Len(l) = Len(c2s[q]) + 1
    BY <1>1
  <2>2. l # Tail(c2s[q])
    BY <1>2, <2>1
  <2> HIDE DEF l
  <2>3. Sent(c2s, p, <<r>>)[q] = c2s[q] \/ Sent(c2s, p, <<r>>)[q] = l
    BY DEF Sent, Queues, l
  <2> QED
    BY <1>3, <2>2, <2>3
<1> QED
  BY <1>3, <1>4

\* The client only adds to what is on its way to the server.
LEMMA ClientOnlyAdds ==
  ASSUME NonceInv, ClientThread \/ ClientChoices
  PROVE  c2s' = c2s \/ \E p \in Paths : \E r : c2s' = Sent(c2s, p, <<r>>)
<1>1. client.sock \in Paths /\ "first" \in Paths
  BY ClientFacts DEF NonceInv, Paths
<1>2. CASE \E r : Transmit(r)
  BY <1>1, <1>2 DEF Transmit
<1>3. CASE ClientThread
  <2>1. \/ ClientHello \/ ClientAuth \/ ClientConfirm
        \/ ClientExpires \/ ClientSeesClose \/ ClientRejects
        \/ ClientHandles(PlainOk, AcceptPlain)
        \/ ClientHandles(RequestOk, AcceptUpdateRequest)
        \/ ClientHandles(AckOk, AcceptUpdateAck)
        \/ ClientHandles(ReplyOk, AcceptFullReply)
        \/ ClientHandles(DoneOk, AcceptUpdateDone)
        \/ ClientHandles(ChallengeOk, AcceptChallenge)
    BY <1>3 DEF ClientThread, ClientHandshakes, ClientReceives
  <2>2. CASE ClientHello
    BY <1>1, <2>2 DEF ClientHello
  <2>3. CASE ClientAuth \/ ClientConfirm
    <3>1. \E r : Transmit(r)
      BY <2>3 DEF ClientAuth, ClientConfirm, ClientAnswers
    <3> QED
      BY <1>2, <3>1
  <2>4. CASE ClientExpires \/ ClientSeesClose \/ ClientRejects
    BY <2>4 DEF ClientExpires, ClientSeesClose, ClientRejects
  <2>5. CASE ClientHandles(PlainOk, AcceptPlain)
             \/ ClientHandles(DoneOk, AcceptUpdateDone)
    BY <2>5 DEF ClientHandles, AcceptPlain, AcceptUpdateDone
  <2>6. CASE \/ ClientHandles(RequestOk, AcceptUpdateRequest)
             \/ ClientHandles(AckOk, AcceptUpdateAck)
             \/ ClientHandles(ReplyOk, AcceptFullReply)
             \/ ClientHandles(ChallengeOk, AcceptChallenge)
    <3>1. \E r : Transmit(r)
      BY <2>6 DEF ClientHandles, AcceptUpdateRequest, AcceptUpdateAck,
                  AcceptFullReply, AcceptChallenge, RoutineInit, Initiate,
                  Confirm
    <3> QED
      BY <1>2, <3>1
  <2> QED
    BY <2>1, <2>2, <2>3, <2>4, <2>5, <2>6
<1>4. CASE ClientChoices
  <2>1. CASE \/ ClientSends \/ ClientPings
             \/ \E mode \in {"routine", "full"} : ClientStarts(mode)
    <3>1. \E r : Transmit(r)
      BY <2>1 DEF ClientSends, ClientPings, ClientStarts, RoutineInit,
                  FullInit, Initiate
    <3> QED
      BY <1>2, <3>1
  <2>2. CASE \/ ClientDials \/ ClientDialRefused \/ ClientStops
             \/ ClientAbandons
    BY <2>2 DEF ClientDials, ClientDialRefused, ClientStops, ClientAbandons
  <2> QED
    BY <1>4, <2>1, <2>2 DEF ClientChoices
<1> QED
  BY <1>3, <1>4

\* What opens a record of an earlier epoch is a previous epoch within its grace.
LEMMA OldRecordOpens ==
  ASSUME ServerOk(server), NEW r, r.epoch < server.epoch,
         Opens(ExpirePrevious(server), r)
  PROVE  \E p \in server.previous : p.left > 0 /\ p.remaining > 0
<1> DEFINE s == ExpirePrevious(server)
<1>1. /\ s.epoch = server.epoch /\ s.pending = server.pending
      /\ s.previous = {} \/ s = server
      /\ server.epoch \in Int
      /\ \A p \in server.previous : p.left \in Nat /\ p.remaining \in Nat
      /\ s.previous # {} =>
           \A p \in server.previous : p.remaining # 0 /\ p.left # 0
  BY DEF ServerOk, ServerStates, ExpirePrevious
<1> HIDE DEF s
<1>2. ~OpensCurrent(s, r)
  BY <1>1 DEF OpensCurrent
<1>3. ~OpensPending(s, r)
  BY <1>1 DEF OpensPending, ServerOk, ServerStates
<1>4. PICK p \in s.previous : TRUE
  BY <1>2, <1>3 DEF Opens, OpensPrevious, s
<1>5. p \in server.previous /\ p.left # 0 /\ p.remaining # 0
      /\ p.left \in Nat /\ p.remaining \in Nat
  BY <1>1, <1>4
<1>6. p.left > 0 /\ p.remaining > 0
  BY <1>5
<1> QED
  BY <1>5, <1>6

\* After a switch the server takes a record of an earlier epoch only while the
\* time and the number of records left of the grace both allow it (open,
\* expire_previous), whatever the length of the grace and its record budget.
THEOREM OldEpochBounded == Spec => OldEpochIsBounded
<1>1. ASSUME NonceInv, [Next]_vars, NEW q \in Paths,
             c2s[q] # <<>>, c2s'[q] = Tail(c2s[q]), link' = link,
             server.up, server'.up,
             server.validating = {} \/ server'.carrier # server.carrier,
             Head(c2s[q]).epoch < server.epoch
      PROVE  \E p \in server.previous : p.left > 0 /\ p.remaining > 0
  <2> DEFINE e == ExpirePrevious(server)
             r == Head(c2s[q])
  <2>1. /\ c2s \in Queues /\ ServerOk(server) /\ server \in ServerStates
        /\ link \in Links /\ ~Handshaking(server)
    BY <1>1 DEF NonceInv, TypeOK, Handshaking
  <2>2. c2s'[q] # c2s[q]
        /\ ~\E p \in Paths : \E m : c2s' = Sent(c2s, p, <<m>>)
    BY <1>1, <2>1, TailIsShorter
  <2>3. c2s' # c2s
    BY <2>2
  <2>4. /\ ~ClientThread /\ ~ClientChoices
    BY <1>1, <2>2, <2>3, ClientOnlyAdds
  <2>5. ~Tick /\ ~UNCHANGED vars
    BY <2>3 DEF Tick, carrierVars, vars
  <2>6. ~NetworkSteps
    <3> SUFFICES ASSUME NEW p \in Paths, CarrierFails(p) PROVE FALSE
      BY <2>3 DEF NetworkSteps, CarrierStalls
    <3>1. link[p] = "open" /\ link' = [link EXCEPT ![p] = "failed"]
      BY DEF CarrierFails
    <3>2. link'[p] = "failed"
      BY <2>1, <3>1 DEF Links
    <3> QED
      BY <1>1, <3>1, <3>2
  <2>7. ~ServerChoices
    BY <2>3 DEF ServerChoices, ServerSends, ServerStops
  <2>8. ServerReceives \/ ServerValidates
    <3>1. ServerTask
      BY <1>1, <2>4, <2>5, <2>6, <2>7 DEF Next
    <3>2. ~ServerHandshakes /\ ~ServerAbandons
      BY <2>1 DEF ServerHandshakes, ServerAbandons, ServerHello,
                  ServerFinishes, ServerEstablishes, ServerRefuses, Incoming
    <3>3. ~ServerTimer /\ ~ServerSeesClose /\ ~ServerChallenges
          /\ ~ServerGivesUpPath /\ ~ServerEndsDrain
      BY <2>3 DEF ServerTimer, ServerSeesClose, ServerChallenges,
                  ServerGivesUpPath, ServerEndsDrain
    <3> QED
      BY <3>1, <3>2, <3>3 DEF ServerTask
  <2>9. \A p \in Paths : c2s' = [c2s EXCEPT ![p] = Tail(@)] => p = q
    BY <2>1, <2>2 DEF Queues
  <2>10. e.epoch = server.epoch /\ e.pending = server.pending
    BY <2>1 DEF ExpirePrevious, ServerStates
  <2>11. ~OpensCurrent(e, r)
    <3>1. server.epoch \in Int
      BY <2>1 DEF ServerStates
    <3> QED
      BY <1>1, <2>10, <3>1 DEF OpensCurrent
  <2>12. ~OpensPending(e, r)
    <3>1. server.epoch \in Int /\ \A p \in server.pending :
                                    p.epoch \in Int /\ server.epoch < p.epoch
      BY <2>1 DEF ServerStates, ServerOk
    <3> QED
      BY <1>1, <2>10, <3>1 DEF OpensPending
  <2>13. CASE ServerReceives
    <3>1. PICK p \in Paths :
            \/ ServerHandles(p, DataOk, HandlePacket)
            \/ ServerHandles(p, DataOk, HandleProbe)
            \/ ServerHandles(p, PingOk, HandlePing)
            \/ ServerHandles(p, InitOk, AcceptUpdateInit)
            \/ ServerHandles(p, FullInitOk, AcceptFullRekeyInit)
            \/ ServerHandles(p, CommitOk, AcceptUpdateCommit)
            \/ ServerHandles(p, FullConfirmOk, AcceptFullRekeyConfirm)
            \/ ServerRejects(p)
      BY <2>13 DEF ServerReceives
    <3>2. c2s' = [c2s EXCEPT ![p] = Tail(@)]
      BY <3>1 DEF ServerHandles, ServerRejects
    <3>3. p = q
      BY <2>9, <3>2
    <3>4. ~ServerRejects(p)
      <4>1. \A x, y : x \in ServerStates => ~Down(x, y).up
        BY DEF Down, ServerStates
      <4>2. e \in ServerStates
        BY <2>1, OpenedFacts
      <4>3. ServerRejects(p) => \E why : server' = Down(e, why)
        BY DEF ServerRejects
      <4> QED
        BY <1>1, <4>1, <4>2, <4>3
    <3>5. \/ DataOk(e, r) \/ PingOk(e, r) \/ InitOk(e, r)
          \/ FullInitOk(e, r) \/ CommitOk(e, r) \/ FullConfirmOk(e, r)
      BY <3>1, <3>3, <3>4 DEF ServerHandles
    <3> HIDE DEF e, r
    <3>6. Opens(e, r)
      BY <2>11, <2>12, <3>5 DEF DataOk, PingOk, InitOk, FullInitOk, CommitOk,
                                FullConfirmOk, Confirms
    <3> QED
      BY <1>1, <2>1, <3>6, OldRecordOpens DEF e, r
  <2>14. CASE ServerValidates
    <3>1. /\ c2s' = [c2s EXCEPT !["second"] = Tail(@)] /\ "second" \in Paths
          /\ server.validating # {}
      BY <2>14 DEF ServerValidates, Paths
    <3>2. q = "second"
      BY <2>9, <3>1
    <3>3. ~PathResponseOk(e, r)
      BY <2>11 DEF PathResponseOk
    <3> DEFINE o == Opened(e, r)
               t == [o EXCEPT !.validating = {}]
    <3>4. ServerFinish(t, "second", <<>>, Closed(link, {"second"}))
      BY <2>14, <3>2, <3>3 DEF ServerValidates
    <3>5. o \in ServerStates /\ o.carrier = server.carrier
      <4>1. e \in ServerStates /\ o \in ServerStates
        BY <2>1, OpenedFacts
      <4>2. e.carrier = server.carrier
        BY <2>1 DEF ExpirePrevious, ServerStates
      <4> HIDE DEF e
      <4>3. o.carrier = e.carrier
        BY <4>1 DEF Opened, ServerStates
      <4> QED
        BY <4>1, <4>2, <4>3
    <3> HIDE DEF o
    <3>6. t \in ServerStates /\ t.carrier = server.carrier
      BY <3>5 DEF ServerStates
    <3> HIDE DEF t
    <3>7. /\ ~Down(t, "timeout").up
          /\ \A m : Requested(t, m).carrier = server.carrier
      BY <3>6 DEF Down, Requested, ServerStates
    <3>8. server' = Down(t, "timeout") \/ server' = t
          \/ \E m : server' = Requested(t, m)
      BY <3>4 DEF ServerFinish
    <3> QED
      BY <1>1, <3>1, <3>6, <3>7, <3>8
  <2> QED
    BY <2>8, <2>13, <2>14
<1>2. NonceInv /\ [Next]_vars =>
        [\A q \in Paths :
           /\ c2s[q] # <<>> /\ c2s'[q] = Tail(c2s[q]) /\ link' = link
           /\ server.up /\ server'.up
           /\ server.validating = {} \/ server'.carrier # server.carrier
           /\ Head(c2s[q]).epoch < server.epoch
           => \E p \in server.previous : p.left > 0 /\ p.remaining > 0]_vars
  BY <1>1
<1> QED
  BY <1>2, NonceSafety, PTL DEF Spec, OldEpochIsBounded

-----------------------------------------------------------------------------
(***************************************************************************)
(* The keys of the two ends.  They never hold different secrets for one    *)
(* epoch, and they move from epoch to epoch in lockstep, whatever the      *)
(* client starts by itself, however updates collide and wherever the       *)
(* session is migrated to.                                                 *)
(*                                                                         *)
(* Nothing here depends on what the transcripts contain.  The server has   *)
(* one secret for the next epoch, the one its ACK or reply names, and it   *)
(* switches only to the one the client has confirmed.                      *)
(***************************************************************************)

\* The records in flight, whatever carrier they are on.
InFlight(q) == UNION {{q[p][i] : i \in 1 .. Len(q[p])} : p \in Paths}

\* The secret the client has confirmed for the next epoch.
Committed(c, secret) ==
  \E p \in c.pending : p.phase = "commit" /\ p.secret = secret

\* The client comes up first; from then on the server is with it, or one epoch
\* ahead, in the epoch the client has confirmed.
EpochsFit(s, c) ==
  /\ s.epoch \in Int /\ c.epoch \in Int
  /\ s.up => s.epoch >= 0
  /\ c.up => c.epoch >= 0
  /\ Handshaking(s) => s.epoch = -1
  /\ Handshaking(c) => c.epoch = -1
  /\ \/ /\ s.epoch = -1 /\ c.epoch \in {-1, 0}
        /\ s.pending = {} /\ s.previous = {}
     \/ s.epoch >= 0 /\ s.epoch = c.epoch /\ s.secret = c.secret
     \/ /\ c.epoch >= 0 /\ s.epoch = c.epoch + 1
        /\ s.pending = {} /\ Committed(c, s.secret)

\* The server prepares one epoch at a time and remembers one.
ServerKeys(s, c) ==
  /\ \A p, q \in s.pending : p = q
  /\ \A p \in s.pending : p.epoch = s.epoch + 1
  /\ \A p \in s.previous :
       /\ p.epoch = s.epoch - 1
       /\ c.epoch = s.epoch - 1 => p.secret = c.secret
  /\ \A p, q \in s.previous : p.secret = q.secret

\* What the client has confirmed is what the server prepares or has taken.
ClientKeys(s, c) ==
  \A p \in c.pending :
    /\ c.epoch >= 0 /\ p.epoch = c.epoch + 1
    /\ p.phase = "commit" =>
         \/ s.epoch = c.epoch /\ \E q \in s.pending : q.secret = p.secret
         \/ s.epoch = c.epoch + 1 /\ s.secret = p.secret

\* The secret that an ACK or a reply names is the server's for the next epoch.
Names(s, epoch, secret) ==
  /\ epoch <= s.epoch
  /\ epoch = s.epoch => \E q \in s.pending : q.secret = secret
  /\ epoch = s.epoch - 1 => s.secret = secret

ToClient(s, r) ==
  /\ r.epoch \in Int
  /\ r.type = "ack" => Names(s, r.epoch, r.tag)
  /\ r.type = "full_reply" => Names(s, r.epoch, Append(r.tag, Label(r)))
  /\ r.type = "done" => r.epoch <= s.epoch

\* The client uses no epoch before DONE but to confirm it.
ToServer(s, c, r) ==
  /\ r.epoch \in Int
  /\ r.type \in {"init", "full_init", "ping", "response", "data"} =>
       r.epoch <= c.epoch
  /\ r.type \in {"commit", "confirm"} =>
       \/ r.epoch <= c.epoch
       \/ \E p \in c.pending : p.phase = "commit" /\ p.epoch = r.epoch
  /\ r.type \in {"data", "ping"} =>
       /\ r.epoch >= 0
       /\ r.epoch = c.epoch => r.key = c.secret
       /\ r.epoch = s.epoch => r.key = s.secret
       /\ \A p \in s.previous : p.epoch = r.epoch => p.secret = r.key
  /\ r.type = "client_confirm" =>
       /\ c.epoch >= 0
       /\ c.epoch = 0 => c.secret = Append(r.tag, "client_confirm")

KeysHold(s, c, S, C) ==
  /\ EpochsFit(s, c) /\ ServerKeys(s, c) /\ ClientKeys(s, c)
  /\ \A r \in S : ToClient(s, r)
  /\ \A r \in C : ToServer(s, c, r)

KeyInv == KeysHold(server, client, InFlight(s2c), InFlight(c2s))

-----------------------------------------------------------------------------
(* What a step may do to the keys                                          *)

\* The server moves no key, and may only forget the previous epoch.
KeepsKeys(s, t) ==
  /\ t.epoch = s.epoch /\ t.secret = s.secret /\ t.pending = s.pending
  /\ (t.up => s.up) /\ (Handshaking(t) => Handshaking(s))
  /\ \A p \in t.previous :
       \E q \in s.previous : q.epoch = p.epoch /\ q.secret = p.secret

\* The client moves no key; the ages of its update may change.
KeepsClient(c, d) ==
  /\ d.epoch = c.epoch /\ d.secret = c.secret
  /\ (d.up => c.up) /\ (Handshaking(d) => Handshaking(c))
  /\ \A p \in d.pending : \E q \in c.pending :
       p.epoch = q.epoch /\ p.phase = q.phase /\ p.secret = q.secret
  /\ \A q \in c.pending : \E p \in d.pending :
       p.epoch = q.epoch /\ p.phase = q.phase /\ p.secret = q.secret

\* A server that keeps its keys keeps the agreement.
LEMMA ServerStays ==
  ASSUME NEW s, NEW t, NEW c, NEW S, NEW C, KeysHold(s, c, S, C),
         KeepsKeys(s, t)
  PROVE  KeysHold(t, c, S, C)
<1>1. EpochsFit(t, c)
  BY DEF KeysHold, KeepsKeys, EpochsFit
<1>2. ServerKeys(t, c)
  BY DEF KeysHold, KeepsKeys, ServerKeys
<1>3. ClientKeys(t, c)
  BY DEF KeysHold, KeepsKeys, ClientKeys
<1>4. \A r \in S : ToClient(t, r)
  BY DEF KeysHold, KeepsKeys, ToClient, Names
<1>5. ASSUME NEW r \in C PROVE ToServer(t, c, r)
  <2>1. ToServer(s, c, r)
    BY DEF KeysHold
  <2> QED
    BY <2>1 DEF KeepsKeys, ToServer
<1> QED
  BY <1>1, <1>2, <1>3, <1>4, <1>5 DEF KeysHold

\* A client that keeps its keys does too.
LEMMA ClientStays ==
  ASSUME NEW s, NEW c, NEW d, NEW S, NEW C, KeysHold(s, c, S, C),
         KeepsClient(c, d)
  PROVE  KeysHold(s, d, S, C)
<1>1. EpochsFit(s, d)
  BY DEF KeysHold, KeepsClient, EpochsFit, Committed
<1>2. ServerKeys(s, d)
  BY DEF KeysHold, KeepsClient, ServerKeys
<1>3. ClientKeys(s, d)
  BY DEF KeysHold, KeepsClient, ClientKeys
<1>4. ASSUME NEW r \in C PROVE ToServer(s, d, r)
  <2>1. ToServer(s, c, r)
    BY DEF KeysHold
  <2> QED
    BY <2>1 DEF KeepsClient, ToServer
<1> QED
  BY <1>1, <1>2, <1>3, <1>4 DEF KeysHold

\* The server accepts an INIT or a FULL_INIT: nothing was pending, so nothing
\* the client has confirmed and no answer in flight is about the next epoch.
LEMMA AcceptKeys ==
  ASSUME NEW s, NEW t, NEW c, NEW S, NEW C, KeysHold(s, c, S, C),
         s.pending = {}, s.epoch >= 0,
         NEW i \in C, i.type \in {"init", "full_init"}, i.epoch = s.epoch,
         NEW k, NEW p, t.pending = {p}, p.epoch = s.epoch + 1, p.secret = k,
         t.epoch = s.epoch, t.secret = s.secret, t.previous = s.previous,
         t.up => s.up, ~Handshaking(t),
         NEW a, a.epoch = s.epoch,
         \/ a.type = "ack" /\ a.tag = k
         \/ a.type = "full_reply" /\ Append(a.tag, Label(a)) = k
  PROVE  KeysHold(t, c, S \cup {a}, C)
<1>0. s.epoch \in Int /\ c.epoch \in Int
  BY DEF KeysHold, EpochsFit
<1>1. s.epoch <= c.epoch
  BY DEF KeysHold, ToServer
<1>2. s.epoch = c.epoch /\ s.secret = c.secret
  BY <1>0, <1>1 DEF KeysHold, EpochsFit
<1>3. EpochsFit(t, c)
  BY <1>0, <1>2 DEF KeysHold, EpochsFit
<1>4. ServerKeys(t, c)
  BY DEF KeysHold, ServerKeys
<1>5. ClientKeys(t, c)
  BY DEF KeysHold, ClientKeys
<1>6. ASSUME NEW r \in S PROVE ToClient(t, r)
  <2>1. ToClient(s, r)
    BY DEF KeysHold
  <2> QED
    BY <2>1 DEF ToClient, Names
<1>7. ToClient(t, a)
  BY <1>0 DEF ToClient, Names
<1>8. ASSUME NEW r \in C PROVE ToServer(t, c, r)
  <2>1. ToServer(s, c, r)
    BY DEF KeysHold
  <2> QED
    BY <2>1 DEF ToServer
<1> QED
  BY <1>3, <1>4, <1>5, <1>6, <1>7, <1>8 DEF KeysHold

\* The server switches: what opened the confirmation is what the client has
\* confirmed, and it is one epoch ahead from here on.
LEMMA SwitchKeys ==
  ASSUME NEW s, NEW t, NEW c, NEW S, NEW C, KeysHold(s, c, S, C),
         NEW p \in s.pending, NEW i \in C, i.type \in {"commit", "confirm"},
         i.epoch = p.epoch,
         t.epoch = p.epoch, t.secret = p.secret, t.pending = {},
         NEW o, t.previous = {o}, o.epoch = s.epoch, o.secret = s.secret,
         t.up => s.up, ~Handshaking(t),
         NEW a, a.type = "done", a.epoch = p.epoch
  PROVE  /\ KeysHold(t, c, S \cup {a}, C)
         /\ s.epoch >= 0 /\ s.epoch = c.epoch /\ t.epoch = s.epoch + 1
<1>0. s.epoch \in Int /\ c.epoch \in Int /\ p.epoch = s.epoch + 1
  BY DEF KeysHold, EpochsFit, ServerKeys
<1>1. s.epoch = c.epoch /\ s.secret = c.secret /\ s.epoch >= 0
  BY DEF KeysHold, EpochsFit
<1>2. PICK q \in c.pending : q.phase = "commit" /\ q.epoch = i.epoch
  <2>1. ToServer(s, c, i)
    BY DEF KeysHold
  <2> QED
    BY <1>0, <1>1, <2>1 DEF ToServer
<1>3. \A q2 \in c.pending : q2.phase = "commit" => q2.secret = p.secret
  BY <1>0, <1>1 DEF KeysHold, ClientKeys, ServerKeys
<1>4. EpochsFit(t, c)
  BY <1>0, <1>1, <1>2, <1>3 DEF KeysHold, EpochsFit, Committed
<1>5. ServerKeys(t, c)
  BY <1>0, <1>1 DEF ServerKeys
<1>6. ClientKeys(t, c)
  BY <1>0, <1>1, <1>3 DEF KeysHold, ClientKeys
<1>7. ASSUME NEW r \in S PROVE ToClient(t, r)
  <2>1. ToClient(s, r)
    BY DEF KeysHold
  <2>2. \A q2 \in s.pending : q2 = p
    BY DEF KeysHold, ServerKeys
  <2>3. ASSUME NEW k, Names(s, r.epoch, k) PROVE Names(t, r.epoch, k)
    BY <1>0, <2>1, <2>2, <2>3 DEF Names, ToClient
  <2> QED
    BY <1>0, <2>1, <2>3 DEF ToClient
<1>8. ToClient(t, a)
  BY <1>0 DEF ToClient
<1>9. ASSUME NEW r \in C PROVE ToServer(t, c, r)
  <2>1. ToServer(s, c, r)
    BY DEF KeysHold
  <2> QED
    BY <1>0, <1>1, <2>1 DEF ToServer
<1> QED
  BY <1>0, <1>1, <1>4, <1>5, <1>6, <1>7, <1>8, <1>9 DEF KeysHold

\* CLIENT_CONFIRM makes the server's secret the client's.
LEMMA EstablishKeys ==
  ASSUME NEW s, NEW t, NEW c, NEW S, NEW C, KeysHold(s, c, S, C),
         Handshaking(s), NEW i \in C, i.type = "client_confirm",
         t.epoch = 0, t.secret = Append(i.tag, "client_confirm"),
         t.pending = s.pending, t.previous = s.previous, ~Handshaking(t)
  PROVE  /\ KeysHold(t, c, S, C)
         /\ s.epoch = -1 /\ c.epoch = 0 /\ t.secret = c.secret
<1>0. s.epoch = -1 /\ c.epoch \in Int
  BY DEF KeysHold, EpochsFit
<1>1. ToServer(s, c, i)
  BY DEF KeysHold
<1>2. c.epoch = 0 /\ c.secret = t.secret /\ s.pending = {} /\ s.previous = {}
  BY <1>0, <1>1 DEF KeysHold, EpochsFit, ToServer
<1>3. EpochsFit(t, c)
  BY <1>0, <1>2 DEF KeysHold, EpochsFit
<1>4. ServerKeys(t, c)
  BY <1>2 DEF ServerKeys
<1>5. ClientKeys(t, c)
  BY <1>0, <1>2 DEF KeysHold, ClientKeys
<1>6. ASSUME NEW r \in S PROVE ToClient(t, r)
  <2>1. ToClient(s, r)
    BY DEF KeysHold
  <2>2. ASSUME NEW k, Names(s, r.epoch, k) PROVE Names(t, r.epoch, k)
    BY <1>0, <1>2, <2>1, <2>2 DEF Names, ToClient
  <2> QED
    BY <1>0, <2>1, <2>2 DEF ToClient
<1>7. ASSUME NEW r \in C PROVE ToServer(t, c, r)
  <2>1. ToServer(s, c, r)
    BY DEF KeysHold
  <2> QED
    BY <1>0, <1>2, <2>1 DEF ToServer
<1> QED
  BY <1>0, <1>2, <1>3, <1>4, <1>5, <1>6, <1>7 DEF KeysHold

\* The client comes up with the secret its CLIENT_CONFIRM stands for.
LEMMA ConfirmedKeys ==
  ASSUME NEW s, NEW c, NEW d, NEW S, NEW C, KeysHold(s, c, S, C),
         Handshaking(c), NEW a, a.type = "client_confirm", a.epoch \in Int,
         d.epoch = 0, d.secret = Append(a.tag, "client_confirm"),
         d.pending = c.pending, ~Handshaking(d)
  PROVE  KeysHold(s, d, S, C \cup {a}) /\ c.epoch = -1
<1>0. s.epoch \in Int /\ c.epoch = -1
  BY DEF KeysHold, EpochsFit
<1>1. s.epoch = -1 /\ s.pending = {} /\ s.previous = {} /\ c.pending = {}
  BY <1>0 DEF KeysHold, EpochsFit, ClientKeys
<1>2. EpochsFit(s, d)
  BY <1>0, <1>1 DEF KeysHold, EpochsFit
<1>3. ServerKeys(s, d) /\ ClientKeys(s, d)
  BY <1>1 DEF ServerKeys, ClientKeys
<1>4. ASSUME NEW r \in C PROVE ToServer(s, d, r)
  <2>1. ToServer(s, c, r)
    BY DEF KeysHold
  <2> QED
    BY <1>0, <1>1, <2>1 DEF ToServer
<1>5. ToServer(s, d, a)
  BY DEF ToServer
<1> QED
  BY <1>0, <1>2, <1>3, <1>4, <1>5 DEF KeysHold

\* An update the client starts is not confirmed yet.
LEMMA InitiateKeys ==
  ASSUME NEW s, NEW c, NEW d, NEW S, NEW C, KeysHold(s, c, S, C),
         c.pending = {}, c.up,
         d.epoch = c.epoch, d.secret = c.secret, ~Handshaking(d),
         NEW p, d.pending = {p}, p.epoch = c.epoch + 1, p.phase = "init",
         NEW a, a.type \in {"init", "full_init"}, a.epoch = c.epoch
  PROVE  KeysHold(s, d, S, C \cup {a})
<1>0. s.epoch \in Int /\ c.epoch \in Int /\ c.epoch >= 0
  BY DEF KeysHold, EpochsFit
<1>1. EpochsFit(s, d)
  BY <1>0 DEF KeysHold, EpochsFit, Committed
<1>2. ServerKeys(s, d)
  BY DEF KeysHold, ServerKeys
<1>3. ClientKeys(s, d)
  BY <1>0 DEF ClientKeys
<1>4. ASSUME NEW r \in C PROVE ToServer(s, d, r)
  <2>1. ToServer(s, c, r)
    BY DEF KeysHold
  <2> QED
    BY <2>1 DEF ToServer
<1>5. ToServer(s, d, a)
  BY <1>0 DEF ToServer
<1> QED
  BY <1>1, <1>2, <1>3, <1>4, <1>5 DEF KeysHold

\* The client confirms the secret that the ACK or the reply names.
LEMMA ConfirmKeys ==
  ASSUME NEW s, NEW c, NEW d, NEW S, NEW C, KeysHold(s, c, S, C),
         c.up, NEW k, Names(s, c.epoch, k),
         d.epoch = c.epoch, d.secret = c.secret, ~Handshaking(d),
         NEW p, d.pending = {p}, p.epoch = c.epoch + 1, p.phase = "commit",
         p.secret = k,
         NEW a, a.type \in {"commit", "confirm"}, a.epoch = p.epoch
  PROVE  KeysHold(s, d, S, C \cup {a})
<1>0. s.epoch \in Int /\ c.epoch \in Int /\ c.epoch >= 0
  BY DEF KeysHold, EpochsFit
<1>1. \/ s.epoch = c.epoch /\ s.secret = c.secret
         /\ \E q \in s.pending : q.secret = k
      \/ s.epoch = c.epoch + 1 /\ s.pending = {} /\ s.secret = k
  BY <1>0 DEF KeysHold, EpochsFit, Names
<1>2. EpochsFit(s, d)
  BY <1>0, <1>1 DEF KeysHold, EpochsFit, Committed
<1>3. ServerKeys(s, d)
  BY DEF KeysHold, ServerKeys
<1>4. ClientKeys(s, d)
  BY <1>0, <1>1 DEF ClientKeys
<1>5. ASSUME NEW r \in C PROVE ToServer(s, d, r)
  <2>1. ToServer(s, c, r) /\ \A q \in c.pending : q.epoch = p.epoch
    BY DEF KeysHold, ClientKeys
  <2> QED
    BY <2>1 DEF ToServer
<1>6. ToServer(s, d, a)
  BY <1>0 DEF ToServer
<1> QED
  BY <1>2, <1>3, <1>4, <1>5, <1>6 DEF KeysHold

\* DONE takes the client to the server's epoch and secret.
LEMMA DoneKeys ==
  ASSUME NEW s, NEW c, NEW d, NEW S, NEW C, KeysHold(s, c, S, C),
         NEW p \in c.pending, p.phase = "commit",
         NEW r \in S, r.type = "done", r.epoch = p.epoch,
         d.epoch = p.epoch, d.secret = p.secret, d.pending = {},
         ~Handshaking(d)
  PROVE  /\ KeysHold(s, d, S, C)
         /\ c.epoch < s.epoch /\ d.epoch = s.epoch /\ d.secret = s.secret
<1>0. /\ s.epoch \in Int /\ c.epoch \in Int /\ c.epoch >= 0
      /\ p.epoch = c.epoch + 1
  BY DEF KeysHold, EpochsFit, ClientKeys
<1>1. p.epoch <= s.epoch
  BY DEF KeysHold, ToClient
<1>2. s.epoch = c.epoch + 1 /\ s.secret = p.secret
  BY <1>0, <1>1 DEF KeysHold, ClientKeys
<1>3. EpochsFit(s, d)
  BY <1>0, <1>2 DEF KeysHold, EpochsFit
<1>4. ServerKeys(s, d)
  BY <1>0, <1>2 DEF KeysHold, ServerKeys
<1>5. ClientKeys(s, d)
  BY DEF ClientKeys
<1>6. ASSUME NEW i \in C PROVE ToServer(s, d, i)
  <2>1. ToServer(s, c, i) /\ \A q \in c.pending : q.epoch = p.epoch
    BY <1>0 DEF KeysHold, ClientKeys
  <2> QED
    BY <1>0, <1>2, <2>1 DEF ToServer
<1> QED
  BY <1>0, <1>2, <1>3, <1>4, <1>5, <1>6 DEF KeysHold

\* Data goes out under the client's current key.
LEMMA DataKeys ==
  ASSUME NEW s, NEW c, NEW S, NEW C, KeysHold(s, c, S, C), c.up,
         NEW a, a.epoch = c.epoch,
         \/ a.type = "response"
         \/ a.type \in {"data", "ping"} /\ a.key = c.secret
  PROVE  KeysHold(s, c, S, C \cup {a})
<1>0. s.epoch \in Int /\ c.epoch \in Int /\ c.epoch >= 0
  BY DEF KeysHold, EpochsFit
<1>1. s.epoch = c.epoch => s.secret = c.secret
  BY <1>0 DEF KeysHold, EpochsFit
<1>2. \A p \in s.previous : p.epoch = c.epoch => p.secret = c.secret
  BY <1>0 DEF KeysHold, ServerKeys
<1>3. ToServer(s, c, a)
  BY <1>0, <1>1, <1>2 DEF ToServer
<1> QED
  BY <1>3 DEF KeysHold

\* A record of no consequence for the keys joins the ones in flight, and
\* records leave them.
LEMMA FewerInFlight ==
  ASSUME NEW s, NEW c, NEW S, NEW C, KeysHold(s, c, S, C),
         NEW S1, S1 \subseteq S, NEW C1, C1 \subseteq C
  PROVE  KeysHold(s, c, S1, C1)
BY DEF KeysHold

-----------------------------------------------------------------------------
(* The records in flight                                                   *)

\* Sending adds at most the record that is sent.
LEMMA SentInFlight ==
  ASSUME NEW q \in Queues, NEW p \in Paths, NEW r \in Records
  PROVE  /\ Sent(q, p, <<r>>) \in Queues
         /\ InFlight(Sent(q, p, <<r>>)) \subseteq InFlight(q) \cup {r}
<1> DEFINE n == Sent(q, p, <<r>>)
<1>1. n \in Queues
  BY SentFacts
<1>2. \A x \in Paths : \A i \in 1 .. Len(n[x]) :
        n[x][i] = r \/ (i \in 1 .. Len(q[x]) /\ n[x][i] = q[x][i])
  BY SentElements
<1> HIDE DEF n
<1>3. InFlight(n) \subseteq InFlight(q) \cup {r}
  BY <1>2 DEF InFlight
<1> QED
  BY <1>1, <1>3 DEF n

\* Taking a record removes at most that record.
LEMMA TakenInFlight ==
  ASSUME NEW q \in Queues, NEW p \in Paths, q[p] # <<>>
  PROVE  /\ [q EXCEPT ![p] = Tail(@)] \in Queues
         /\ InFlight([q EXCEPT ![p] = Tail(@)]) \subseteq InFlight(q)
         /\ Head(q[p]) \in InFlight(q) /\ Head(q[p]) \in Records
<1> DEFINE n == [q EXCEPT ![p] = Tail(@)]
<1>1. n \in Queues /\ Head(q[p]) \in Records
      /\ Head(q[p]) = q[p][1] /\ 1 \in 1 .. Len(q[p])
  BY TailFacts
<1>2. \A x \in Paths : \A i \in 1 .. Len(n[x]) :
        \/ i \in 1 .. Len(q[x]) /\ n[x][i] = q[x][i]
        \/ i + 1 \in 1 .. Len(q[x]) /\ n[x][i] = q[x][i + 1]
  BY TailElements
<1> HIDE DEF n
<1>3. InFlight(n) \subseteq InFlight(q)
  BY <1>2 DEF InFlight
<1>4. Head(q[p]) \in InFlight(q)
  BY <1>1 DEF InFlight
<1> QED
  BY <1>1, <1>3, <1>4 DEF n

-----------------------------------------------------------------------------
(* The steps of the server                                                 *)

\* What a step has to show: the agreement again, and a step of the lockstep.
KeyStep == KeyInv' /\ [Lockstep!Next]_(Lockstep!vars)

\* A record of the server that says nothing about keys.
Neutral(r) == r.epoch \in Int /\ r.type \notin {"ack", "full_reply", "done"}

\* A server step that moves no key.
LEMMA ServerQuiet ==
  ASSUME KeyInv, UNCHANGED client, KeepsKeys(server, server'),
         InFlight(c2s') \subseteq InFlight(c2s), NEW A,
         InFlight(s2c') \subseteq InFlight(s2c) \cup A,
         \A r \in A : Neutral(r)
  PROVE  KeyStep
<1>1. KeysHold(server', client, InFlight(s2c), InFlight(c2s))
  BY ServerStays DEF KeyInv
<1>2. \A r \in A : ToClient(server', r)
  BY DEF ToClient, Neutral
<1>3. KeysHold(server', client, InFlight(s2c) \cup A, InFlight(c2s))
  BY <1>1, <1>2 DEF KeysHold
<1>4. KeysHold(server', client', InFlight(s2c'), InFlight(c2s'))
  BY <1>3, FewerInFlight
<1>5. UNCHANGED Lockstep!vars
  BY DEF KeepsKeys, Lockstep!vars
<1> QED
  BY <1>4, <1>5 DEF KeyStep, KeyInv

\* The end of an event moves no key either.
LEMMA FinishKeys ==
  ASSUME s2c \in Queues, NEW s, ServerOk(s), ~Handshaking(s),
         NEW p \in Paths, NEW out, NEW links,
         NEW A, Sent(s2c, p, out) \in Queues,
         InFlight(Sent(s2c, p, out)) \subseteq InFlight(s2c) \cup A,
         ServerFinish(s, p, out, links)
  PROVE  LET request == ControlRecord(s, "request", <<>>)
         IN  /\ KeepsKeys(s, server') /\ Neutral(request)
             /\ InFlight(s2c') \subseteq
                  (InFlight(s2c) \cup A) \cup {request}
<1> DEFINE request == ControlRecord(s, "request", <<>>)
           handled == Sent(s2c, p, out)
<1>0. s \in ServerStates /\ s.carrier \in Paths
  BY DEF ServerOk, ServerStates
<1>1. request \in Records /\ Neutral(request)
  <2>1. "request" \in Types /\ <<>> \in Tags
    BY DEF Types, Tags, Transcripts
  <2>2. request \in Records /\ request.type = "request"
    BY <1>0, <2>1, ControlFacts
  <2> QED
    BY <2>2 DEF Records, Neutral
<1> HIDE DEF request, handled
<1>2. CASE 0 \in s.deadline
  <2>1. server' = Down(s, "timeout") /\ s2c' = handled
    BY <1>2 DEF ServerFinish, handled
  <2>2. /\ server'.epoch = s.epoch /\ server'.secret = s.secret
        /\ server'.pending = s.pending /\ server'.previous = s.previous
    BY <1>0, <2>1 DEF Down, ServerStates
  <2>3. ~server'.up /\ server'.reason = "timeout"
    BY <1>0, <2>1 DEF Down, ServerStates
  <2>4. KeepsKeys(s, server')
    BY <2>2, <2>3 DEF KeepsKeys, Handshaking
  <2>5. InFlight(s2c') \subseteq InFlight(s2c) \cup A
    BY <2>1 DEF handled
  <2> QED
    BY <1>1, <2>4, <2>5 DEF request
<1>3. CASE 0 \notin s.deadline /\ UpdateDue(s)
  <2>1. server' = Requested(s, request)
        /\ s2c' = Sent(handled, s.carrier, <<request>>)
    BY <1>3 DEF ServerFinish, handled, request
  <2>2. /\ server'.epoch = s.epoch /\ server'.secret = s.secret
        /\ server'.pending = s.pending /\ server'.previous = s.previous
    BY <1>0, <2>1 DEF Requested, ServerStates
  <2>3. server'.up = s.up /\ server'.reason = s.reason
    BY <1>0, <2>1 DEF Requested, ServerStates
  <2>4. KeepsKeys(s, server')
    BY <2>2, <2>3 DEF KeepsKeys, Handshaking
  <2>5. InFlight(s2c') \subseteq InFlight(handled) \cup {request}
    BY <1>0, <1>1, <2>1, SentInFlight DEF handled
  <2>6. InFlight(s2c') \subseteq (InFlight(s2c) \cup A) \cup {request}
    BY <2>5 DEF handled
  <2> QED
    BY <1>1, <2>4, <2>6 DEF request
<1>4. CASE 0 \notin s.deadline /\ ~UpdateDue(s)
  <2>1. server' = s /\ s2c' = handled
    BY <1>4 DEF ServerFinish, handled
  <2>2. KeepsKeys(s, server')
    BY <2>1 DEF KeepsKeys
  <2>3. InFlight(s2c') \subseteq InFlight(s2c) \cup A
    BY <2>1 DEF handled
  <2> QED
    BY <1>1, <2>2, <2>3 DEF request
<1> QED
  BY <1>2, <1>3, <1>4

\* Keeping the keys twice is keeping them.
LEMMA KeepsTwice ==
  ASSUME NEW s, NEW t, NEW u, KeepsKeys(s, t), KeepsKeys(t, u)
  PROVE  KeepsKeys(s, u)
<1>1. /\ u.epoch = s.epoch /\ u.secret = s.secret /\ u.pending = s.pending
      /\ (u.up => s.up) /\ (Handshaking(u) => Handshaking(s))
  BY DEF KeepsKeys
<1>2. \A p \in u.previous :
        \E q \in s.previous : q.epoch = p.epoch /\ q.secret = p.secret
  BY DEF KeepsKeys
<1> QED
  BY <1>1, <1>2 DEF KeepsKeys

\* An event that moves no key: nothing or one neutral record is sent.
LEMMA EventKeys ==
  ASSUME NonceInv, KeyInv, UNCHANGED client,
         InFlight(c2s') \subseteq InFlight(c2s),
         NEW s, ServerOk(s), ~Handshaking(s), KeepsKeys(server, s),
         NEW p \in Paths, NEW out, NEW links,
         out = <<>> \/ \E r \in Records : out = <<r>> /\ Neutral(r),
         ServerFinish(s, p, out, links)
  PROVE  KeyStep
<1> DEFINE request == ControlRecord(s, "request", <<>>)
           old == InFlight(s2c)
<1>0. s2c \in Queues
  BY DEF NonceInv, TypeOK
<1>1. ASSUME NEW A, Sent(s2c, p, out) \in Queues,
             InFlight(Sent(s2c, p, out)) \subseteq old \cup A,
             \A r \in A : Neutral(r)
      PROVE  KeyStep
  <2>1. /\ KeepsKeys(s, server') /\ Neutral(request)
        /\ InFlight(s2c') \subseteq (old \cup A) \cup {request}
    BY <1>0, <1>1, FinishKeys
  <2> HIDE DEF request, old
  <2>2. /\ InFlight(s2c') \subseteq old \cup (A \cup {request})
        /\ \A r \in A \cup {request} : Neutral(r)
    BY <1>1, <2>1
  <2>3. KeepsKeys(server, server')
    BY <2>1, KeepsTwice
  <2> QED
    BY <2>2, <2>3, ServerQuiet DEF old
<1>2. CASE out = <<>>
  <2>1. InFlight(Sent(s2c, p, out)) \subseteq old \cup {}
        /\ Sent(s2c, p, out) \in Queues /\ \A r \in {} : Neutral(r)
    BY <1>0, <1>2, SentNothing
  <2> QED
    BY <1>1, <2>1
<1>3. CASE \E r \in Records : out = <<r>> /\ Neutral(r)
  <2>1. PICK r \in Records : out = <<r>> /\ Neutral(r)
    BY <1>3
  <2> DEFINE one == {r}
  <2>2. InFlight(Sent(s2c, p, out)) \subseteq old \cup one
        /\ Sent(s2c, p, out) \in Queues /\ \A x \in one : Neutral(x)
    BY <1>0, <2>1, SentInFlight
  <2> HIDE DEF one, old
  <2> QED
    BY <1>1, <2>2
<1> QED
  BY <1>2, <1>3

\* An event that moves the keys: the agreement holds once the handler's record
\* is in flight.
LEMMA MovedKeys ==
  ASSUME NonceInv, UNCHANGED client,
         InFlight(c2s') \subseteq InFlight(c2s),
         NEW s, ServerOk(s), ~Handshaking(s), NEW r \in Records,
         KeysHold(s, client, InFlight(s2c) \cup {r}, InFlight(c2s)),
         NEW p \in Paths, NEW links, ServerFinish(s, p, <<r>>, links)
  PROVE  KeyInv' /\ server'.epoch = s.epoch /\ server'.secret = s.secret
<1> DEFINE out == <<r>>
<1>0. s2c \in Queues
  BY DEF NonceInv, TypeOK
<1>1. /\ Sent(s2c, p, out) \in Queues
      /\ InFlight(Sent(s2c, p, out)) \subseteq InFlight(s2c) \cup {r}
  BY <1>0, SentInFlight
<1> HIDE DEF out
<1> DEFINE S == InFlight(s2c) \cup {r}
           request == ControlRecord(s, "request", <<>>)
<1>2. /\ KeepsKeys(s, server') /\ Neutral(request)
      /\ InFlight(s2c') \subseteq S \cup {request}
  BY <1>0, <1>1, FinishKeys DEF out
<1>4. KeysHold(server', client, S, InFlight(c2s))
  BY <1>2, ServerStays
<1> HIDE DEF S, request
<1>5. ToClient(server', request)
  BY <1>2 DEF ToClient, Neutral
<1>6. KeysHold(server', client, S \cup {request}, InFlight(c2s))
  BY <1>4, <1>5 DEF KeysHold
<1>7. KeysHold(server', client', InFlight(s2c'), InFlight(c2s'))
  BY <1>2, <1>6, FewerInFlight
<1> QED
  BY <1>2, <1>7 DEF KeyInv, KeepsKeys

\* A state that differs in nothing the keys depend on.
LEMMA SameKeys ==
  ASSUME NEW s, NEW t, Grows(s, t), t.previous = s.previous
  PROVE  KeepsKeys(s, t)
BY DEF Grows, KeepsKeys, Handshaking

\* Opening a record forgets the previous epoch or counts its records down.
LEMMA OpenedKeys ==
  ASSUME NEW s, ServerOk(s), NEW r
  PROVE  /\ KeepsKeys(s, ExpirePrevious(s))
         /\ KeepsKeys(s, Opened(ExpirePrevious(s), r))
<1> DEFINE e == ExpirePrevious(s)
           t == Opened(e, r)
<1>1. /\ s \in ServerStates /\ e \in ServerStates /\ t \in ServerStates
      /\ Grows(s, e) /\ Grows(s, t)
  BY OpenedFacts DEF ServerOk
<1>2. e.previous \subseteq s.previous
  BY <1>1 DEF ExpirePrevious, ServerStates
<1>3. KeepsKeys(s, e)
  BY <1>1, <1>2 DEF Grows, KeepsKeys, Handshaking
<1> HIDE DEF e
<1>4. \/ t.previous = e.previous
      \/ t.previous = {[p EXCEPT !.remaining = @ - 1] : p \in e.previous}
  BY <1>1 DEF Opened, ServerStates
<1>5. \A p \in t.previous :
        \E q \in e.previous : q.epoch = p.epoch /\ q.secret = p.secret
  <2>1. CASE t.previous = e.previous
    BY <2>1
  <2>2. CASE t.previous = {[p EXCEPT !.remaining = @ - 1] : p \in e.previous}
    <3> SUFFICES ASSUME NEW p \in e.previous
                 PROVE  /\ [p EXCEPT !.remaining = @ - 1].epoch = p.epoch
                        /\ [p EXCEPT !.remaining = @ - 1].secret = p.secret
      BY <2>2
    <3>1. p \in [epoch : Int, secret : Transcripts, left : Nat,
                 remaining : Nat]
      BY <1>1 DEF ServerStates
    <3> QED
      BY <3>1
  <2> QED
    BY <1>4, <2>1, <2>2
<1> HIDE DEF t
<1>6. KeepsKeys(s, t)
  BY <1>1, <1>2, <1>5 DEF Grows, KeepsKeys, Handshaking
<1> QED
  BY <1>3, <1>6 DEF e, t

\* The server gives the session up.
LEMMA EndsKeys ==
  ASSUME NonceInv, KeyInv, UNCHANGED <<client, s2c>>,
         InFlight(c2s') \subseteq InFlight(c2s),
         NEW e \in ServerStates, KeepsKeys(server, e),
         NEW why, why # "none", server' = Down(e, why)
  PROVE  KeyStep
<1>1. /\ server'.epoch = e.epoch /\ server'.secret = e.secret
      /\ server'.pending = e.pending /\ server'.previous = e.previous
  BY DEF Down, ServerStates
<1>2. ~server'.up /\ server'.reason = why
  BY DEF Down, ServerStates
<1>3. KeepsKeys(server, server')
  BY <1>1, <1>2 DEF KeepsKeys, Handshaking
<1> DEFINE none == {}
<1>4. InFlight(s2c') \subseteq InFlight(s2c) \cup none
      /\ \A r \in none : Neutral(r)
  OBVIOUS
<1> HIDE DEF none
<1> QED
  BY <1>3, <1>4, ServerQuiet

\* An INIT or a FULL_INIT that the server accepts.
LEMMA InitKeys ==
  ASSUME NonceInv, KeyInv, UNCHANGED client, server.up,
         InFlight(c2s') \subseteq InFlight(c2s),
         NEW s, ServerOk(s), ~Handshaking(s), KeepsKeys(server, s),
         s.pending = {}, NEW r \in Records, r \in InFlight(c2s),
         r.epoch = s.epoch, NEW h, NEW p \in Paths,
         \/ r.type = "init" /\ h = AcceptUpdateInit(s, r)
         \/ r.type = "full_init" /\ h = AcceptFullRekeyInit(s, r),
         ServerOk(h.state), ~Handshaking(h.state),
         ServerFinish(h.state, p, h.out, link)
  PROVE  KeyStep
<1> DEFINE S == InFlight(s2c)
           C == InFlight(c2s)
           u == Append(s.transcript, Label(r))
           t == h.state
           k == s.epoch + 1
<1>1. KeysHold(s, client, S, C)
  BY ServerStays DEF KeyInv
<1>2. /\ s \in ServerStates /\ s.epoch \in Int /\ s.transcript \in Transcripts
      /\ u \in Transcripts
  BY ServerFacts, Extends
<1>3. s.epoch >= 0
  BY DEF KeyInv, KeysHold, EpochsFit, KeepsKeys
<1> HIDE DEF S, C, u
<1>6. CASE r.type = "init" /\ h = AcceptUpdateInit(s, r)
  <2> DEFINE a == ControlRecord(s, "ack", u)
             P == [epoch |-> k, secret |-> u, proof |-> "routine"]
  <2> DEFINE new == [s EXCEPT
                      !.transcript = Append(u, Label(a)),
                      !.control_number = @ + 1,
                      !.pending = {P}, !.update_requested = TRUE,
                      !.deadline = {UPDATE_TIMEOUT}]
  <2>0. h.out = <<a>> /\ t = new
    BY <1>6 DEF AcceptUpdateInit, u
  <2> HIDE DEF a, P, t
  <2>1. /\ t.epoch = s.epoch /\ t.secret = s.secret
        /\ t.previous = s.previous /\ t.pending = {P}
    BY <1>2, <2>0 DEF ServerStates
  <2>5. t.up = s.up /\ r \in C /\ ~Handshaking(t)
    BY <1>2, <2>0 DEF ServerStates, C, t
  <2>2. /\ a \in Records /\ a.type = "ack" /\ a.tag = u /\ a.epoch = s.epoch
    <3>1. "ack" \in Types /\ u \in Tags
      BY <1>2 DEF Types, Tags
    <3>2. a.epoch = s.epoch
      BY DEF ControlRecord, Record, a
    <3> QED
      BY <1>2, <3>1, <3>2, ControlFacts DEF a
  <2>3. P.epoch = s.epoch + 1 /\ P.secret = u
    BY DEF P
  <2>4. KeysHold(t, client, S \cup {a}, C)
    BY <1>1, <1>3, <1>6, <2>1, <2>2, <2>3, <2>5, AcceptKeys
  <2>6. ServerOk(t) /\ ServerFinish(t, p, <<a>>, link)
    BY <2>0 DEF t
  <2>7. KeyInv' /\ server'.epoch = s.epoch /\ server'.secret = s.secret
    BY <2>1, <2>2, <2>4, <2>5, <2>6, MovedKeys DEF S, C
  <2> QED
    BY <2>7 DEF KeyStep, KeepsKeys, Lockstep!vars
<1>7. CASE r.type = "full_init" /\ h = AcceptFullRekeyInit(s, r)
  <2> DEFINE a == ControlRecord(s, "full_reply", u)
             next == Append(u, Label(a))
             P == [epoch |-> k, secret |-> next, proof |-> "full"]
  <2> DEFINE new == [s EXCEPT
                      !.transcript = next, !.control_number = @ + 1,
                      !.pending = {P}, !.update_requested = TRUE,
                      !.deadline = {UPDATE_TIMEOUT}]
  <2>0. h.out = <<a>> /\ t = new
    BY <1>7 DEF AcceptFullRekeyInit, u
  <2> HIDE DEF a, P, t, next
  <2>1. /\ t.epoch = s.epoch /\ t.secret = s.secret
        /\ t.previous = s.previous /\ t.pending = {P}
    BY <1>2, <2>0 DEF ServerStates
  <2>5. t.up = s.up /\ r \in C /\ ~Handshaking(t)
    BY <1>2, <2>0 DEF ServerStates, C, t
  <2>2. /\ a \in Records /\ a.type = "full_reply" /\ a.tag = u
        /\ a.epoch = s.epoch
    <3>1. "full_reply" \in Types /\ u \in Tags
      BY <1>2 DEF Types, Tags
    <3>2. a.epoch = s.epoch
      BY DEF ControlRecord, Record, a
    <3> QED
      BY <1>2, <3>1, <3>2, ControlFacts DEF a
  <2>3. P.epoch = s.epoch + 1 /\ P.secret = next
        /\ Append(a.tag, Label(a)) = next
    BY <2>2 DEF P, next
  <2>4. KeysHold(t, client, S \cup {a}, C)
    BY <1>1, <1>3, <1>7, <2>1, <2>2, <2>3, <2>5, AcceptKeys
  <2>6. ServerOk(t) /\ ServerFinish(t, p, <<a>>, link)
    BY <2>0 DEF t
  <2>7. KeyInv' /\ server'.epoch = s.epoch /\ server'.secret = s.secret
    BY <2>1, <2>2, <2>4, <2>5, <2>6, MovedKeys DEF S, C
  <2> QED
    BY <2>7 DEF KeyStep, KeepsKeys, Lockstep!vars
<1> QED
  BY <1>6, <1>7

\* A COMMIT or a CONFIRM that the server accepts.
LEMMA CommitKeys ==
  ASSUME NonceInv, KeyInv, UNCHANGED client,
         InFlight(c2s') \subseteq InFlight(c2s),
         NEW s, ServerOk(s), ~Handshaking(s), KeepsKeys(server, s),
         NEW r \in Records, r \in InFlight(c2s),
         r.type \in {"commit", "confirm"}, OpensPending(s, r),
         ServerOk(Switched(s, r).state), ~Handshaking(Switched(s, r).state),
         NEW p \in Paths,
         ServerFinish(Switched(s, r).state, p, Switched(s, r).out, link)
  PROVE  KeyStep
<1> DEFINE S == InFlight(s2c)
           C == InFlight(c2s)
           q == CHOOSE x \in s.pending : TRUE
           t == Switched(s, r).state
           a == Record("server", "control", q.epoch, q.secret, 0, "done",
                       q.secret)
           o == [epoch |-> s.epoch, secret |-> s.secret,
                 left |-> OLD_EPOCH_GRACE, remaining |-> OLD_EPOCH_RECORDS]
<1>1. KeysHold(s, client, S, C)
  BY ServerStays DEF KeyInv
<1>2. s \in ServerStates
  BY ServerFacts
<1>3. q \in s.pending
  BY DEF OpensPending
<1>4. r.epoch = q.epoch
  BY <1>1, <1>3 DEF OpensPending, KeysHold, ServerKeys
<1> HIDE DEF S, C
<1>5. /\ Switched(s, r).out = <<a>>
      /\ t.epoch = q.epoch /\ t.secret = q.secret /\ t.pending = {}
      /\ t.previous = {o}
  BY <1>2 DEF Switched, ServerStates
<1>6. t.up = s.up /\ ~Handshaking(t) /\ ServerOk(t)
      /\ ServerFinish(t, p, <<a>>, link) /\ r \in C
  BY <1>2, <1>5 DEF Switched, ServerStates, C
<1>7. o.epoch = s.epoch /\ o.secret = s.secret
  OBVIOUS
<1> HIDE DEF q, t, o
<1>8. a \in Records /\ a.type = "done" /\ a.epoch = q.epoch
  <2>1. /\ "server" \in Froms /\ "control" \in Kinds /\ "done" \in Types
        /\ q.secret \in Tags /\ 0 \in Nat
        /\ q.epoch \in Int /\ q.secret \in Transcripts
    BY <1>2, <1>3 DEF Froms, Kinds, Types, Tags, ServerStates
  <2> QED
    BY <2>1 DEF Record, Records
<1> HIDE DEF a
<1>9. /\ KeysHold(t, client, S \cup {a}, C)
      /\ s.epoch >= 0 /\ s.epoch = client.epoch /\ t.epoch = s.epoch + 1
  BY <1>1, <1>3, <1>4, <1>5, <1>6, <1>7, <1>8, SwitchKeys
<1>10. KeyInv' /\ server'.epoch = t.epoch /\ server'.secret = t.secret
  BY <1>6, <1>8, <1>9, MovedKeys DEF S, C
<1>11. t.secret # s.secret
  <2>1. Len(s.secret) < Len(q.secret)
    BY <1>3 DEF ServerOk
  <2>2. Len(s.secret) \in Nat
    BY ServerFacts
  <2> QED
    BY <1>5, <2>1, <2>2
<1>12. server.epoch = s.epoch /\ server.secret = s.secret
  BY DEF KeepsKeys
<1>13. Lockstep!ServerSwitches
  BY <1>9, <1>10, <1>11, <1>12 DEF Lockstep!ServerSwitches
<1> QED
  BY <1>10, <1>13 DEF KeyStep, Lockstep!Next

\* The answers to a probe and to a PING, and a packet for the client.
LEMMA AnswerKeys ==
  ASSUME NEW s, ServerOk(s), NEW r
  PROVE  /\ KeepsKeys(s, SealData(s).state)
         /\ \E a \in Records : SealData(s).out = <<a>> /\ Neutral(a)
         /\ KeepsKeys(s, HandlePing(s, r).state)
         /\ \E a \in Records : HandlePing(s, r).out = <<a>> /\ Neutral(a)
<1>1. s \in ServerStates
  BY ServerFacts
<1>2. KeepsKeys(s, SealData(s).state)
  <2> DEFINE t == [s EXCEPT !.data_records = @ + 1, !.data_number = @ + 1]
  <2>1. SealData(s).state = t
    BY DEF SealData
  <2>2. /\ t.epoch = s.epoch /\ t.secret = s.secret
        /\ t.pending = s.pending /\ t.previous = s.previous
    BY <1>1 DEF ServerStates
  <2>3. t.up = s.up /\ t.reason = s.reason
    BY <1>1 DEF ServerStates
  <2> HIDE DEF t
  <2> QED
    BY <2>1, <2>2, <2>3 DEF KeepsKeys, Handshaking
<1>3. KeepsKeys(s, HandlePing(s, r).state)
  <2> DEFINE t == [s EXCEPT !.control_number = @ + 1]
  <2>1. HandlePing(s, r).state = t
    BY DEF HandlePing
  <2>2. /\ t.epoch = s.epoch /\ t.secret = s.secret
        /\ t.pending = s.pending /\ t.previous = s.previous
    BY <1>1 DEF ServerStates
  <2>3. t.up = s.up /\ t.reason = s.reason
    BY <1>1 DEF ServerStates
  <2> HIDE DEF t
  <2> QED
    BY <2>1, <2>2, <2>3 DEF KeepsKeys, Handshaking
<1>4. DataRecord(s) \in Records /\ Neutral(DataRecord(s))
  <2>1. /\ "server" \in Froms /\ "data" \in Kinds /\ "data" \in Types
        /\ <<>> \in Tags /\ s.epoch \in Int /\ s.secret \in Transcripts
        /\ s.data_number \in Nat
    BY ServerFacts DEF Froms, Kinds, Types, Tags, Transcripts
  <2>2. DataRecord(s) \in Records /\ DataRecord(s).type = "data"
    BY <2>1, RecordFacts DEF DataRecord
  <2> QED
    BY <2>2 DEF Records, Neutral
<1>5. LET a == ControlRecord(s, "pong", <<>>)
      IN  a \in Records /\ Neutral(a)
  <2> DEFINE a == ControlRecord(s, "pong", <<>>)
  <2>1. "pong" \in Types /\ <<>> \in Tags
    BY DEF Types, Tags, Transcripts
  <2>2. a \in Records /\ a.type = "pong"
    BY <1>1, <2>1, ControlFacts
  <2> HIDE DEF a
  <2>3. a \in Records /\ Neutral(a)
    BY <2>2 DEF Records, Neutral
  <2> QED
    BY <2>3 DEF a
<1>6. SealData(s).out = <<DataRecord(s)>>
      /\ HandlePing(s, r).out = <<ControlRecord(s, "pong", <<>>)>>
  BY DEF SealData, HandlePing
<1> QED
  BY <1>2, <1>3, <1>4, <1>5, <1>6

\* Every record the server receives after the handshake.
LEMMA ReceiveKeys ==
  ASSUME NonceInv, KeyInv, UNCHANGED client, ServerReceives
  PROVE  KeyStep
<1>1. PICK p \in Paths :
        \/ ServerHandles(p, DataOk, HandlePacket)
        \/ ServerHandles(p, DataOk, HandleProbe)
        \/ ServerHandles(p, PingOk, HandlePing)
        \/ ServerHandles(p, InitOk, AcceptUpdateInit)
        \/ ServerHandles(p, FullInitOk, AcceptFullRekeyInit)
        \/ ServerHandles(p, CommitOk, AcceptUpdateCommit)
        \/ ServerHandles(p, FullConfirmOk, AcceptFullRekeyConfirm)
        \/ ServerRejects(p)
  BY DEF ServerReceives
<1> DEFINE r == Head(c2s[p])
           e == ExpirePrevious(server)
           s == Opened(e, r)
           used == DOMAIN sealed
<1>2. /\ server.up /\ Arrived(c2s, p) /\ c2s' = [c2s EXCEPT ![p] = Tail(@)]
  BY <1>1 DEF ServerHandles, ServerRejects, Reads
<1>3. /\ InFlight(c2s') \subseteq InFlight(c2s)
      /\ r \in Records /\ r \in InFlight(c2s)
  BY <1>2, TakenInFlight DEF NonceInv, TypeOK, Arrived
<1>4. /\ ServerOk(s) /\ ~Handshaking(s) /\ used \subseteq Nonces
      /\ ServerCovers(s, used)
  BY <1>2, OpenedOk
<1>5. KeepsKeys(server, e) /\ KeepsKeys(server, s) /\ e \in ServerStates
  BY OpenedKeys, OpenedFacts DEF NonceInv
<1>6. s.epoch = e.epoch /\ s.secret = e.secret /\ s.pending = e.pending
  BY <1>5 DEF KeepsKeys
<1> HIDE DEF e
<1>7. CASE ServerHandles(p, DataOk, HandlePacket)
  <2>1. ServerFinish(s, p, <<>>, link)
    BY <1>7 DEF ServerHandles, HandlePacket, e
  <2> QED
    BY <1>3, <1>4, <1>5, <2>1, EventKeys
<1>8. CASE ServerHandles(p, DataOk, HandleProbe)
  <2> DEFINE t == SealData(s).state
             out == SealData(s).out
  <2>1. ServerFinish(t, p, out, link)
    BY <1>8 DEF ServerHandles, HandleProbe, e
  <2>2. ServerOk(t) /\ ~Handshaking(t)
    BY <1>4, DataOutcome DEF Outcome
  <2>3. KeepsKeys(s, t) /\ \E a \in Records : out = <<a>> /\ Neutral(a)
    BY <1>4, AnswerKeys
  <2> HIDE DEF t, out, s
  <2>4. KeepsKeys(server, t)
    BY <1>5, <2>3, KeepsTwice
  <2> QED
    BY <1>3, <2>1, <2>2, <2>3, <2>4, EventKeys
<1>9. CASE ServerHandles(p, PingOk, HandlePing)
  <2> DEFINE t == HandlePing(s, r).state
             out == HandlePing(s, r).out
  <2>1. ServerFinish(t, p, out, link)
    BY <1>9 DEF ServerHandles, e
  <2>2. ServerOk(t) /\ ~Handshaking(t)
    BY <1>4, PingOutcome DEF Outcome
  <2>3. KeepsKeys(s, t) /\ \E a \in Records : out = <<a>> /\ Neutral(a)
    BY <1>4, AnswerKeys
  <2> HIDE DEF t, out, s
  <2>4. KeepsKeys(server, t)
    BY <1>5, <2>3, KeepsTwice
  <2> QED
    BY <1>3, <2>1, <2>2, <2>3, <2>4, EventKeys
<1>10. CASE ServerHandles(p, InitOk, AcceptUpdateInit)
  <2> DEFINE h == AcceptUpdateInit(s, r)
  <2>1. /\ ServerFinish(h.state, p, h.out, link) /\ InitOk(e, r)
    BY <1>10 DEF ServerHandles, e
  <2>2. ServerOk(h.state) /\ ~Handshaking(h.state)
    BY <1>3, <1>4, InitOutcome DEF Outcome
  <2>3. r.type = "init" /\ r.epoch = s.epoch /\ s.pending = {}
    BY <1>6, <2>1 DEF InitOk, OpensCurrent
  <2> HIDE DEF s, r
  <2> QED
    BY <1>2, <1>3, <1>4, <1>5, <2>1, <2>2, <2>3, InitKeys
<1>11. CASE ServerHandles(p, FullInitOk, AcceptFullRekeyInit)
  <2> DEFINE h == AcceptFullRekeyInit(s, r)
  <2>1. /\ ServerFinish(h.state, p, h.out, link) /\ FullInitOk(e, r)
    BY <1>11 DEF ServerHandles, e
  <2>2. ServerOk(h.state) /\ ~Handshaking(h.state)
    BY <1>3, <1>4, FullInitOutcome DEF Outcome
  <2>3. r.type = "full_init" /\ r.epoch = s.epoch /\ s.pending = {}
    BY <1>6, <2>1 DEF FullInitOk, OpensCurrent
  <2> HIDE DEF s, r
  <2> QED
    BY <1>2, <1>3, <1>4, <1>5, <2>1, <2>2, <2>3, InitKeys
<1>12. CASE ServerHandles(p, CommitOk, AcceptUpdateCommit)
            \/ ServerHandles(p, FullConfirmOk, AcceptFullRekeyConfirm)
  <2>1. /\ ServerFinish(Switched(s, r).state, p, Switched(s, r).out, link)
        /\ CommitOk(e, r) \/ FullConfirmOk(e, r)
    BY <1>12 DEF ServerHandles, AcceptUpdateCommit, AcceptFullRekeyConfirm, e
  <2>2. r.type \in {"commit", "confirm"} /\ OpensPending(s, r)
    BY <1>6, <2>1 DEF CommitOk, FullConfirmOk, Confirms, OpensPending
  <2>3. s.pending # {}
    BY <2>2 DEF OpensPending
  <2>4. ServerOk(Switched(s, r).state) /\ ~Handshaking(Switched(s, r).state)
    BY <1>3, <1>4, <2>3, SwitchOutcome DEF Outcome
  <2> HIDE DEF s, r
  <2> QED
    BY <1>3, <1>4, <1>5, <2>1, <2>2, <2>4, CommitKeys
<1>13. CASE ServerRejects(p)
  <2> DEFINE why == IF ~KnownEpoch(e, r) THEN "unknown epoch"
                    ELSE IF InitAtLimit(e, r) THEN "epoch overflow"
                    ELSE "invalid record"
  <2>1. server' = Down(e, why) /\ s2c' = s2c
    BY <1>13 DEF ServerRejects, e
  <2>2. why # "none"
    OBVIOUS
  <2> HIDE DEF why
  <2> QED
    BY <1>3, <1>5, <2>1, <2>2, EndsKeys
<1> QED
  BY <1>1, <1>7, <1>8, <1>9, <1>10, <1>11, <1>12, <1>13

\* An event that answers nothing and moves no key.
LEMMA SilentKeys ==
  ASSUME NonceInv, KeyInv, UNCHANGED client, server.up,
         InFlight(c2s') \subseteq InFlight(c2s),
         NEW t \in ServerStates, Grows(server, t), KeepsKeys(server, t),
         NEW p \in Paths, NEW links, ServerFinish(t, p, <<>>, links)
  PROVE  KeyStep
<1>1. ServerOk(t)
  BY GrowsOk DEF NonceInv
<1>2. ~Handshaking(t)
  BY DEF Grows, Handshaking
<1> QED
  BY <1>1, <1>2, EventKeys

\* A challenge moves no key, nor does a response or a path that is given up.
LEMMA PathKeys ==
  ASSUME NonceInv, KeyInv, UNCHANGED client,
         ServerChallenges \/ ServerValidates
  PROVE  KeyStep
<1>1. /\ ServerOk(server) /\ server \in ServerStates /\ c2s \in Queues
      /\ s2c \in Queues /\ "second" \in Paths /\ server.up
      /\ server.transcript \in Transcripts /\ Len(server.transcript) \in Nat
  BY ServerFacts DEF NonceInv, TypeOK, Paths, ServerChallenges, ServerValidates
<1>2. CASE ServerChallenges /\ server.pending # {}
  <2> DEFINE t == [server EXCEPT !.offered = TRUE]
  <2>1. ServerFinish(t, "second", <<>>, Closed(link, {"second"}))
        /\ c2s' = c2s
    BY <1>2 DEF ServerChallenges
  <2>2. t \in ServerStates /\ t.up = server.up /\ t.reason = server.reason
    BY <1>1 DEF ServerStates
  <2>4. /\ t.secret = server.secret /\ t.pending = server.pending
        /\ t.epoch = server.epoch /\ t.data_number = server.data_number
        /\ t.control_number = server.control_number
        /\ t.transcript = server.transcript /\ t.previous = server.previous
    BY <1>1 DEF ServerStates
  <2> HIDE DEF t
  <2>3. Grows(server, t) /\ t.previous = server.previous
    BY <1>1, <2>2, <2>4 DEF Grows
  <2> QED
    BY <1>1, <2>1, <2>2, <2>3, SameKeys, SilentKeys
<1>3. CASE ServerChallenges /\ server.pending = {}
  <2> DEFINE r == ControlRecord(server, "challenge", <<>>)
             u == Append(server.transcript, Label(r))
             t == [server EXCEPT !.offered = TRUE, !.transcript = u,
                                 !.control_number = @ + 1,
                                 !.validating = {PATH_TIMEOUT}]
             one == {r}
  <2>1. /\ server' = t /\ s2c' = Sent(s2c, "second", <<r>>) /\ c2s' = c2s
    BY <1>1, <1>3 DEF ServerChallenges, ServerStates
  <2>2. r \in Records /\ Neutral(r)
    <3>1. "challenge" \in Types /\ <<>> \in Tags
      BY DEF Types, Tags, Transcripts
    <3>2. r \in Records /\ r.type = "challenge"
      BY <1>1, <3>1, ControlFacts
    <3> HIDE DEF r
    <3> QED
      BY <3>2 DEF Records, Neutral
  <2> HIDE DEF r, u
  <2>3. t.up = server.up /\ t.reason = server.reason
    BY <1>1 DEF ServerStates
  <2>4. /\ t.epoch = server.epoch /\ t.secret = server.secret
        /\ t.pending = server.pending /\ t.previous = server.previous
    BY <1>1 DEF ServerStates
  <2> HIDE DEF t
  <2>5. KeepsKeys(server, server')
    BY <2>1, <2>3, <2>4 DEF KeepsKeys, Handshaking
  <2>6. InFlight(s2c') \subseteq InFlight(s2c) \cup one
        /\ \A x \in one : Neutral(x)
    BY <1>1, <2>1, <2>2, SentInFlight
  <2> HIDE DEF one
  <2> QED
    BY <2>1, <2>5, <2>6, ServerQuiet
<1>4. CASE ServerValidates
  <2> DEFINE r == Head(c2s["second"])
             e == ExpirePrevious(server)
             o == Opened(e, r)
  <2>1. /\ Arrived(c2s, "second") /\ c2s' = [c2s EXCEPT !["second"] = Tail(@)]
    BY <1>4 DEF ServerValidates
  <2>2. InFlight(c2s') \subseteq InFlight(c2s) /\ r \in Records
    BY <1>1, <2>1, TakenInFlight DEF Arrived
  <2>3. /\ KeepsKeys(server, e) /\ KeepsKeys(server, o)
        /\ e \in ServerStates /\ o \in ServerStates
        /\ Grows(server, e) /\ Grows(server, o)
    BY <1>1, OpenedKeys, OpenedFacts
  <2>4. CASE PathResponseOk(e, r)
    <3> DEFINE u == Append(e.transcript, Label(r))
               t == [e EXCEPT !.transcript = u, !.validating = {},
                              !.carrier = "second", !.draining = {DRAIN_TIME}]
    <3>1. ServerFinish(CarrierSwitched(e, r), "second", <<>>, link)
      BY <1>4, <2>4 DEF ServerValidates
    <3> HIDE DEF e, r
    <3>2. CarrierSwitched(e, r) = t
      BY <2>3 DEF CarrierSwitched, ServerStates
    <3>3. /\ e.transcript \in Transcripts /\ DRAIN_TIME \in Nat
      BY <2>3, KeyUpdateAssumption DEF ServerStates
    <3>4. u \in Transcripts /\ Len(u) = Len(e.transcript) + 1
          /\ Len(e.transcript) \in Nat
      BY <2>2, <3>3, Extends
    <3> HIDE DEF u
    <3>5. t \in ServerStates
      BY <1>1, <2>3, <3>3, <3>4 DEF ServerStates
    <3>6. t.up = e.up /\ t.reason = e.reason
      BY <2>3 DEF ServerStates
    <3>7. /\ t.secret = e.secret /\ t.epoch = e.epoch
          /\ t.pending = e.pending /\ t.previous = e.previous
          /\ t.transcript = u /\ t.data_number = e.data_number
          /\ t.control_number = e.control_number
      BY <2>3 DEF ServerStates
    <3> HIDE DEF t
    <3>8. Grows(server, t) /\ KeepsKeys(e, t)
      BY <1>1, <2>3, <3>4, <3>6, <3>7 DEF Grows, KeepsKeys, Handshaking
    <3>9. KeepsKeys(server, t)
      BY <2>3, <3>8, KeepsTwice
    <3>10. ServerFinish(t, "second", <<>>, link)
      BY <3>1, <3>2
    <3> QED
      BY <1>1, <2>2, <3>5, <3>8, <3>9, <3>10, SilentKeys
  <2>5. CASE ~PathResponseOk(e, r)
    <3> DEFINE t == [o EXCEPT !.validating = {}]
    <3>1. ServerFinish(t, "second", <<>>, Closed(link, {"second"}))
      BY <1>4, <2>5 DEF ServerValidates
    <3> HIDE DEF o
    <3>2. t \in ServerStates /\ t.up = o.up /\ t.reason = o.reason
      BY <2>3 DEF ServerStates
    <3>3. Grows(server, t) /\ Grows(o, t) /\ t.previous = o.previous
      <4>1. Len(o.transcript) \in Nat
        BY <2>3 DEF ServerStates, Transcripts
      <4> QED
        BY <2>3, <3>2, <4>1 DEF ServerStates, Grows
    <3> HIDE DEF t
    <3>4. KeepsKeys(server, t)
      BY <2>3, <3>3, SameKeys, KeepsTwice
    <3> QED
      BY <1>1, <2>2, <3>1, <3>2, <3>3, <3>4, SilentKeys
  <2> QED
    BY <2>4, <2>5
<1> QED
  BY <1>2, <1>3, <1>4

\* The other events of an established session.
LEMMA OtherKeys ==
  ASSUME NonceInv, KeyInv, UNCHANGED client,
         \/ ServerGivesUpPath \/ ServerEndsDrain \/ ServerSends
         \/ ServerTimer \/ ServerStops \/ ServerSeesClose
  PROVE  KeyStep
<1>1. /\ ServerOk(server) /\ ServerCovers(server, DOMAIN sealed)
      /\ DOMAIN sealed \subseteq Nonces
      /\ server \in ServerStates /\ server.carrier \in Paths
      /\ Len(server.transcript) \in Nat /\ "first" \in Paths
      /\ "second" \in Paths
  <2>1. ServerOk(server)
    BY DEF NonceInv
  <2>2. server.carrier \in Paths
    BY <2>1 DEF ServerOk, ServerStates
  <2> QED
    BY <2>1, <2>2, ServerFacts DEF NonceInv, TypeOK, Paths
<1>2. c2s' = c2s /\ server.up
  BY DEF ServerGivesUpPath, ServerEndsDrain, ServerSends, ServerTimer,
         ServerStops, ServerSeesClose
<1>3. InFlight(c2s') \subseteq InFlight(c2s)
  BY <1>2
<1>4. Grows(server, server) /\ KeepsKeys(server, server)
  BY <1>1 DEF Grows, KeepsKeys
<1>5. CASE ServerGivesUpPath
  <2> DEFINE t == [server EXCEPT !.validating = {}]
  <2>1. t \in ServerStates /\ t.up = server.up /\ t.reason = server.reason
    BY <1>1 DEF ServerStates
  <2>2. Grows(server, t) /\ t.previous = server.previous
    BY <1>1, <2>1 DEF ServerStates, Grows
  <2>3. ServerFinish(t, "second", <<>>, Closed(link, {"second"}))
    BY <1>5 DEF ServerGivesUpPath
  <2> HIDE DEF t
  <2> QED
    BY <1>1, <1>2, <1>3, <2>1, <2>2, <2>3, SameKeys, SilentKeys
<1>6. CASE ServerEndsDrain
  <2> DEFINE t == [server EXCEPT !.draining = {}]
  <2>1. t \in ServerStates /\ t.up = server.up /\ t.reason = server.reason
    BY <1>1 DEF ServerStates
  <2>2. Grows(server, t) /\ t.previous = server.previous
    BY <1>1, <2>1 DEF ServerStates, Grows
  <2>3. ServerFinish(t, "first", <<>>, Closed(link, {"first"}))
    BY <1>6 DEF ServerEndsDrain
  <2> HIDE DEF t
  <2> QED
    BY <1>1, <1>2, <1>3, <2>1, <2>2, <2>3, SameKeys, SilentKeys
<1>7. CASE ServerSends
  <2> DEFINE t == SealData(server).state
             out == SealData(server).out
  <2>1. ServerFinish(t, server.carrier, out, link)
    BY <1>7 DEF ServerSends
  <2>2. ~Handshaking(server)
    BY <1>2 DEF Handshaking
  <2>3. ServerOk(t) /\ ~Handshaking(t)
    BY <1>1, <2>2, DataOutcome DEF Outcome
  <2>4. KeepsKeys(server, t)
        /\ \E a \in Records : out = <<a>> /\ Neutral(a)
    BY <1>1, AnswerKeys
  <2> HIDE DEF t, out
  <2> QED
    BY <1>1, <1>3, <2>1, <2>3, <2>4, EventKeys
<1>8. CASE ServerTimer
  <2>1. ServerFinish(server, server.carrier, <<>>, link)
    BY <1>8 DEF ServerTimer
  <2> QED
    BY <1>1, <1>2, <1>3, <1>4, <2>1, SilentKeys
<1>9. CASE ServerStops \/ ServerSeesClose
  <2>1. /\ server' = Down(server, "stopped") \/ server' = Down(server, "closed")
        /\ s2c' = s2c
    BY <1>9 DEF ServerStops, ServerSeesClose
  <2> QED
    BY <1>1, <1>3, <1>4, <2>1, EndsKeys
<1> QED
  BY <1>5, <1>6, <1>7, <1>8, <1>9

\* The two messages of the server move no key.
LEMMA HelloKeys ==
  ASSUME NonceInv, KeyInv, UNCHANGED client, ServerHello \/ ServerFinishes
  PROVE  KeyStep
<1> DEFINE r == Head(c2s["first"])
           s1 == Extended(server, r)
<1>1. /\ ServerOk(server) /\ c2s \in Queues /\ s2c \in Queues
      /\ "first" \in Paths
  BY DEF NonceInv, TypeOK, Paths
<1>2. Arrived(c2s, "first") /\ c2s' = [c2s EXCEPT !["first"] = Tail(@)]
  BY DEF ServerHello, ServerFinishes, Incoming
<1>3. InFlight(c2s') \subseteq InFlight(c2s) /\ r \in Records
  BY <1>1, <1>2, TakenInFlight DEF Arrived
<1>4. r.type \in Types
  BY <1>3 DEF Records
<1> HIDE DEF r
<1>5. s1 \in ServerStates /\ Grows(server, s1)
  BY <1>1, <1>4, ExtendedServer
<1>6. ServerOk(s1)
  BY <1>1, <1>5, GrowsOk
<1>7. s1.previous = server.previous /\ s1.transcript \in Transcripts
      /\ Len(s1.transcript) = Len(server.transcript) + 1
      /\ Len(server.transcript) \in Nat
  <2>1. server \in ServerStates
    BY <1>1 DEF ServerOk
  <2> QED
    BY <1>1, <1>4, <1>5, <2>1, ExtendedServer DEF ServerStates, Extended
<1> HIDE DEF s1
<1>8. PICK a \in Records :
        /\ Neutral(a) /\ s2c' = Sent(s2c, "first", <<a>>)
        /\ server' = Extended(s1, a) /\ a.type \in Types
  <2>1. CASE ServerHello
    <3> DEFINE a == Clear("server", "server_hello", <<r.type>>)
    <3>1. server' = Extended(s1, a) /\ s2c' = Sent(s2c, "first", <<a>>)
      BY <2>1 DEF ServerHello, s1, r
    <3>2. a \in Records /\ a.type = "server_hello"
      <4>1. /\ "server" \in Froms /\ "clear" \in Kinds
            /\ "server_hello" \in Types /\ <<>> \in Transcripts
        BY DEF Froms, Kinds, Types, Transcripts
      <4>2. <<r.type>> \in Tags
        BY <1>4 DEF Tags, Transcripts, Labels
      <4> QED
        BY <4>1, <4>2 DEF Clear, Record, Records
    <3> HIDE DEF a
    <3>3. Neutral(a) /\ a.type \in Types
      BY <3>2 DEF Records, Neutral
    <3> QED
      BY <3>1, <3>2, <3>3
  <2>2. CASE ServerFinishes
    <3> DEFINE a == SealHandshake(s1, "server", 0, "server_finish")
    <3>1. server' = Extended(s1, a) /\ s2c' = Sent(s2c, "first", <<a>>)
          /\ AuthOk(r)
      BY <2>2 DEF ServerFinishes, s1, r
    <3>2. Len(server.transcript) >= 2
      BY <3>1 DEF AuthOk, OpenHandshake
    <3>3. Len(s1.transcript) >= 2
      BY <1>7, <3>2
    <3>4. Hellos(s1) \in Transcripts
      BY <1>7, <3>3, HellosType
    <3>5. a \in Records /\ a.type = "server_finish"
      <4>1. /\ "server" \in Froms /\ "handshake" \in Kinds
            /\ "server_finish" \in Types /\ s1.transcript \in Tags
        BY <1>7 DEF Froms, Kinds, Types, Tags
      <4> QED
        BY <3>4, <4>1 DEF SealHandshake, Record, Records
    <3> HIDE DEF a
    <3>6. Neutral(a) /\ a.type \in Types
      BY <3>5 DEF Records, Neutral
    <3> QED
      BY <3>1, <3>5, <3>6
  <2> QED
    BY <2>1, <2>2
<1>9. Grows(s1, server')
  BY <1>6, <1>8, ExtendedServer
<1>10. server'.previous = s1.previous
  BY <1>5, <1>8 DEF Extended, ServerStates
<1>11. KeepsKeys(server, server')
  BY <1>5, <1>7, <1>9, <1>10, SameKeys, KeepsTwice
<1> DEFINE one == {a}
<1>12. InFlight(s2c') \subseteq InFlight(s2c) \cup one
       /\ \A x \in one : Neutral(x)
  BY <1>1, <1>8, SentInFlight
<1> HIDE DEF one
<1> QED
  BY <1>3, <1>11, <1>12, ServerQuiet

\* The server comes up with the client's secret.
LEMMA EstablishedKeys ==
  ASSUME NonceInv, KeyInv, UNCHANGED client, ServerEstablishes
  PROVE  KeyStep
<1> DEFINE r == Head(c2s["first"])
           s1 == Extended(server, r)
           t == [s1 EXCEPT !.up = TRUE, !.epoch = 0, !.secret = s1.transcript,
                           !.age = 0, !.deadline = {}]
           S == InFlight(s2c)
           C == InFlight(c2s)
<1>1. /\ ServerOk(server) /\ server \in ServerStates /\ c2s \in Queues
      /\ "first" \in Paths
  BY DEF NonceInv, TypeOK, Paths
<1>2. /\ Arrived(c2s, "first") /\ c2s' = [c2s EXCEPT !["first"] = Tail(@)]
      /\ server' = [Established(s1) EXCEPT !.age = 0, !.deadline = {}]
      /\ s2c' = s2c /\ Handshaking(server) /\ ConfirmOk(r)
  BY DEF ServerEstablishes, Incoming
<1>3. InFlight(c2s') \subseteq C /\ r \in Records /\ r \in C
  BY <1>1, <1>2, TakenInFlight DEF Arrived
<1>4. r.type \in Types
  BY <1>3 DEF Records
<1> HIDE DEF r, C, S
<1>5. r.type = "client_confirm" /\ r.tag = server.transcript
  BY <1>2 DEF ConfirmOk, OpenHandshake, SealHandshake, Record
<1>6. s1 \in ServerStates /\ Grows(server, s1)
  BY <1>1, <1>4, ExtendedServer
<1>7. s1.transcript = Append(server.transcript, r.type)
      /\ s1.previous = server.previous
  BY <1>1 DEF Extended, ServerStates
<1> HIDE DEF s1
<1>8. server' = t
  BY <1>2, <1>6 DEF Established, ServerStates
<1>9. /\ t.secret = s1.transcript /\ t.epoch = 0
      /\ t.pending = s1.pending /\ t.previous = s1.previous
  BY <1>6 DEF ServerStates
<1>10. t.up
  BY <1>6 DEF ServerStates
<1> HIDE DEF t
<1>11. /\ t.secret = Append(r.tag, "client_confirm") /\ ~Handshaking(t)
       /\ t.pending = server.pending /\ t.previous = server.previous
  BY <1>5, <1>6, <1>7, <1>9, <1>10 DEF Grows, Handshaking
<1>12. KeysHold(server, client, S, C)
  BY DEF KeyInv, S, C
<1>13. /\ KeysHold(t, client, S, C)
       /\ server.epoch = -1 /\ client.epoch = 0 /\ t.secret = client.secret
  <2>1. Handshaking(server) /\ r \in C /\ r.type = "client_confirm"
    BY <1>2, <1>3, <1>5
  <2>2. t.epoch = 0
    BY <1>9
  <2> QED
    BY <1>11, <1>12, <2>1, <2>2, EstablishKeys
<1>14. KeysHold(server', client', InFlight(s2c'), InFlight(c2s'))
  BY <1>2, <1>3, <1>8, <1>13, FewerInFlight DEF S
<1>15. Lockstep!ServerEstablished
  BY <1>8, <1>9, <1>13 DEF Lockstep!ServerEstablished
<1> QED
  BY <1>14, <1>15 DEF KeyStep, KeyInv, Lockstep!Next

\* The server's half of the induction.
LEMMA ServerKeyStep ==
  ASSUME NonceInv, KeyInv, ServerTask \/ ServerChoices
  PROVE  KeyStep
<1>1. UNCHANGED client
  BY DEF ServerTask, ServerChoices
<1>2. \/ ServerHello \/ ServerFinishes \/ ServerEstablishes
      \/ ServerRefuses \/ ServerAbandons \/ ServerReceives
      \/ ServerChallenges \/ ServerValidates
      \/ ServerGivesUpPath \/ ServerEndsDrain \/ ServerSends
      \/ ServerTimer \/ ServerStops \/ ServerSeesClose
  BY DEF ServerTask, ServerChoices, ServerHandshakes
<1>3. CASE ServerRefuses \/ ServerAbandons
  <2>1. server \in ServerStates /\ KeepsKeys(server, server)
        /\ c2s \in Queues /\ "first" \in Paths
    BY DEF NonceInv, TypeOK, KeepsKeys, Paths
  <2>2. InFlight(c2s') \subseteq InFlight(c2s)
    <3>1. CASE ServerRefuses
      BY <2>1, <3>1, TakenInFlight DEF ServerRefuses, Incoming, Arrived
    <3>2. CASE ServerAbandons
      BY <3>2 DEF ServerAbandons
    <3> QED
      BY <1>3, <3>1, <3>2
  <2>3. s2c' = s2c /\ \/ server' = Down(server, "refused")
                      \/ server' = Down(server, "invalid record")
                      \/ server' = Down(server, "timeout")
    BY <1>3 DEF ServerRefuses, ServerAbandons
  <2> QED
    BY <1>1, <2>1, <2>2, <2>3, EndsKeys
<1> QED
  BY <1>1, <1>2, <1>3, HelloKeys, EstablishedKeys, ReceiveKeys, PathKeys,
     OtherKeys

-----------------------------------------------------------------------------
(* The steps of the client                                                 *)

\* A client step that moves no key; what it sends agrees with the keys.
LEMMA ClientQuiet ==
  ASSUME UNCHANGED server, KeepsClient(client, client'), NEW A,
         InFlight(s2c') \subseteq InFlight(s2c),
         InFlight(c2s') \subseteq InFlight(c2s) \cup A,
         KeysHold(server, client, InFlight(s2c), InFlight(c2s) \cup A)
  PROVE  KeyStep
<1> DEFINE C == InFlight(c2s) \cup A
<1> HIDE DEF C
<1>1. KeysHold(server, client', InFlight(s2c), C)
  BY ClientStays DEF C
<1>2. KeysHold(server', client', InFlight(s2c'), InFlight(c2s'))
  BY <1>1, FewerInFlight DEF C
<1>3. UNCHANGED Lockstep!vars
  BY DEF KeepsClient, Lockstep!vars
<1> QED
  BY <1>2, <1>3 DEF KeyStep, KeyInv

\* A client step that sends nothing and moves no key.
LEMMA ClientNotesKeys ==
  ASSUME KeyInv, UNCHANGED <<server, c2s>>, KeepsClient(client, client'),
         InFlight(s2c') \subseteq InFlight(s2c)
  PROVE  KeyStep
<1> DEFINE none == {}
<1>1. InFlight(c2s) \cup none = InFlight(c2s)
  OBVIOUS
<1> HIDE DEF none
<1>2. KeysHold(server, client, InFlight(s2c), InFlight(c2s) \cup none)
  BY <1>1 DEF KeyInv
<1> QED
  BY <1>1, <1>2, ClientQuiet

\* What the client sends.
LEMMA TransmitInFlight ==
  ASSUME NonceInv, NEW a \in Records, Transmit(a)
  PROVE  InFlight(c2s') \subseteq InFlight(c2s) \cup {a}
<1>1. c2s \in Queues /\ client.sock \in Paths
  BY ClientFacts DEF NonceInv, TypeOK
<1> QED
  BY <1>1, SentInFlight DEF Transmit

\* What the client receives.
LEMMA HeadInFlight ==
  ASSUME NonceInv, NEW p \in Paths, Arrived(s2c, p),
         s2c' = [s2c EXCEPT ![p] = Tail(@)]
  PROVE  /\ InFlight(s2c') \subseteq InFlight(s2c)
         /\ Head(s2c[p]) \in Records /\ Head(s2c[p]) \in InFlight(s2c)
BY TakenInFlight DEF NonceInv, TypeOK, Arrived

\* A change of anything but the keys.
LEMMA SameClient ==
  ASSUME NEW c, NEW d, d.epoch = c.epoch, d.secret = c.secret,
         d.pending = c.pending, d.up => c.up,
         Handshaking(d) => Handshaking(c)
  PROVE  KeepsClient(c, d)
BY DEF KeepsClient

\* The client's own records.
LEMMA ClientRecordFacts ==
  ASSUME NEW c, ClientOk(c), NEW kind \in Kinds, NEW number \in Nat,
         NEW type \in Types, NEW tag \in Tags
  PROVE  LET a == ClientRecord(c, kind, number, type, tag)
         IN  /\ a \in Records /\ a.type = type /\ a.tag = tag
             /\ a.epoch = c.epoch /\ a.key = c.secret
<1> DEFINE a == ClientRecord(c, kind, number, type, tag)
<1>1. /\ "client" \in Froms /\ c.epoch \in Int /\ c.secret \in Transcripts
  BY ClientFacts DEF Froms
<1>2. a \in Records /\ a.type = type /\ a.tag = tag
  BY <1>1, RecordFacts DEF ClientRecord
<1>3. a.epoch = c.epoch /\ a.key = c.secret
  BY DEF ClientRecord, Record
<1> QED
  BY <1>2, <1>3

\* Data, a PING or a response.
LEMMA SendKeys ==
  ASSUME NonceInv, KeyInv, UNCHANGED server, client.up,
         InFlight(s2c') \subseteq InFlight(s2c),
         KeepsClient(client, client'),
         NEW a \in Records, Transmit(a), a.epoch = client.epoch,
         \/ a.type = "response"
         \/ a.type \in {"data", "ping"} /\ a.key = client.secret
  PROVE  KeyStep
<1> DEFINE one == {a}
<1>1. InFlight(c2s') \subseteq InFlight(c2s) \cup one
  BY TransmitInFlight
<1>2. KeysHold(server, client, InFlight(s2c), InFlight(c2s) \cup one)
  BY DataKeys DEF KeyInv
<1> HIDE DEF one
<1> QED
  BY <1>1, <1>2, ClientQuiet

\* The client gives the session up.
LEMMA ClientEndsKeys ==
  ASSUME NonceInv, KeyInv, UNCHANGED <<server, c2s>>,
         NEW why, why # "none", ClientDown(why),
         InFlight(s2c') \subseteq InFlight(s2c)
  PROVE  KeyStep
<1> DEFINE d == [client EXCEPT !.up = FALSE, !.reason = why]
<1>1. client \in ClientStates /\ client' = d
  BY DEF NonceInv, TypeOK, ClientDown
<1>2. d.reason = why /\ d.up = FALSE
  BY <1>1 DEF ClientStates
<1>3. /\ d.epoch = client.epoch /\ d.secret = client.secret
      /\ d.pending = client.pending
  BY <1>1 DEF ClientStates
<1> HIDE DEF d
<1>4. KeepsClient(client, d)
  BY <1>2, <1>3, SameClient DEF Handshaking
<1> QED
  BY <1>1, <1>4, ClientNotesKeys

\* An update the client starts, asked or unasked.
LEMMA StartKeys ==
  ASSUME NonceInv, KeyInv, UNCHANGED server, client.up,
         NEW c, ClientOk(c), c.up, c.pending = {}, client.pending = {},
         c.epoch = client.epoch, c.secret = client.secret,
         NEW mode \in Modes, NEW type \in {"init", "full_init"},
         NEW tag \in Tags, Initiate(c, mode, type, tag),
         InFlight(s2c') \subseteq InFlight(s2c)
  PROVE  KeyStep
<1> DEFINE a == ClientRecord(c, "control", c.control_number, type, tag)
           u == Append(c.transcript, Label(a))
           P == [epoch |-> c.epoch + 1, mode |-> mode,
                 secret |-> IF mode = "routine" THEN u ELSE <<>>,
                 phase |-> "init", age |-> 0]
           d == [c EXCEPT !.transcript = u, !.control_number = @ + 1,
                          !.pending = {P}]
           S == InFlight(s2c)
           C == InFlight(c2s)
<1>1. c \in ClientStates
  BY ClientFacts
<1>2. Transmit(a) /\ client' = d
  BY <1>1 DEF Initiate, ClientStates
<1>3. /\ a \in Records /\ a.type \in {"init", "full_init"}
      /\ a.epoch = client.epoch
  <2>1. "control" \in Kinds /\ type \in Types /\ c.control_number \in Nat
    BY ClientFacts DEF Kinds, Types
  <2> QED
    BY <2>1, ClientRecordFacts
<1>4. P.epoch = client.epoch + 1 /\ P.phase = "init"
  OBVIOUS
<1> HIDE DEF a, u, P, S, C
<1>5. d.up = c.up
  BY <1>1 DEF ClientStates
<1>6. d.epoch = c.epoch /\ d.secret = c.secret /\ d.pending = {P}
  BY <1>1 DEF ClientStates
<1> HIDE DEF d
<1>7. ~Handshaking(d) /\ d.epoch = client.epoch /\ d.secret = client.secret
  BY <1>5, <1>6 DEF Handshaking
<1>8. KeysHold(server, client, S, C)
  BY DEF KeyInv, S, C
<1>9. KeysHold(server, d, S, C \cup {a})
  BY <1>3, <1>4, <1>6, <1>7, <1>8, InitiateKeys
<1>10. InFlight(c2s') \subseteq C \cup {a}
  BY <1>2, <1>3, TransmitInFlight DEF C
<1>11. KeysHold(server', client', InFlight(s2c'), InFlight(c2s'))
  BY <1>2, <1>9, <1>10, FewerInFlight DEF S
<1> QED
  BY <1>2, <1>7, <1>11 DEF KeyStep, KeyInv, Lockstep!vars

\* The client confirms an update whose secret is the server's.
LEMMA ConfirmedStepKeys ==
  ASSUME NonceInv, KeyInv, UNCHANGED server, client.up, client.pending # {},
         NEW r \in Records, NEW k \in Transcripts,
         NEW type \in {"commit", "confirm"}, Confirm(client, r, k, type),
         Names(server, client.epoch, k),
         InFlight(s2c') \subseteq InFlight(s2c)
  PROVE  KeyStep
<1> DEFINE c == client
           p == CHOOSE q \in c.pending : TRUE
           a == Record("client", "control", p.epoch, k, 0, type, k)
           u == Append(Append(c.transcript, Label(r)), Label(a))
           P == [p EXCEPT !.secret = k, !.phase = "commit"]
           d == [c EXCEPT !.transcript = u, !.pending = {P}]
           S == InFlight(s2c)
           C == InFlight(c2s)
<1>1. c \in ClientStates /\ ClientOk(c)
  BY DEF NonceInv, TypeOK
<1>2. Transmit(a) /\ client' = d
  BY <1>1 DEF Confirm, ClientStates
<1>3. p \in c.pending
  OBVIOUS
<1>4. p.epoch \in Int /\ p.epoch = c.epoch + 1
  BY <1>1, <1>3, ClientFacts DEF KeyInv, KeysHold, ClientKeys
<1>5. P.epoch = p.epoch /\ P.phase = "commit" /\ P.secret = k
  <2>1. p \in [epoch : Int, mode : Modes, secret : Transcripts,
               phase : {"init", "commit"}, age : Nat]
    BY <1>1, <1>3 DEF ClientStates
  <2> HIDE DEF p
  <2> QED
    BY <2>1
<1>6. /\ a \in Records /\ a.type \in {"commit", "confirm"}
      /\ a.epoch = p.epoch
  <2>1. /\ "client" \in Froms /\ "control" \in Kinds /\ type \in Types
        /\ k \in Tags /\ 0 \in Nat
    BY DEF Froms, Kinds, Types, Tags
  <2> HIDE DEF p
  <2> QED
    BY <1>4, <2>1 DEF Record, Records
<1> HIDE DEF a, u, P, p, S, C, c
<1>7. d.up = c.up
  BY <1>1 DEF ClientStates
<1>8. d.epoch = c.epoch /\ d.secret = c.secret /\ d.pending = {P}
  BY <1>1 DEF ClientStates
<1> HIDE DEF d
<1>9. c.up /\ ~Handshaking(d) /\ Names(server, c.epoch, k)
  BY <1>7 DEF Handshaking, c
<1>10. KeysHold(server, c, S, C)
  BY DEF KeyInv, S, C, c
<1>11. P.epoch = c.epoch + 1 /\ a.epoch = P.epoch
  BY <1>4, <1>5, <1>6
<1>12. KeysHold(server, d, S, C \cup {a})
  BY <1>5, <1>6, <1>8, <1>9, <1>10, <1>11, ConfirmKeys
<1>13. InFlight(c2s') \subseteq C \cup {a}
  BY <1>2, <1>6, TransmitInFlight DEF C
<1>14. KeysHold(server', client', InFlight(s2c'), InFlight(c2s'))
  BY <1>2, <1>12, <1>13, FewerInFlight DEF S
<1> QED
  BY <1>2, <1>8, <1>14 DEF KeyStep, KeyInv, Lockstep!vars, c

\* The client answers an ACK or a reply.
LEMMA AckKeys ==
  ASSUME NonceInv, KeyInv, UNCHANGED server,
         \/ ClientHandles(AckOk, AcceptUpdateAck)
         \/ ClientHandles(ReplyOk, AcceptFullReply)
  PROVE  KeyStep
<1> DEFINE r == Head(s2c[client.sock])
<1>1. client.sock \in Paths /\ client.transcript \in Transcripts
      /\ AcksOnce(server, client, s2c) /\ s2c \in Queues
  BY ClientFacts DEF NonceInv, TypeOK
<1>2. /\ client.up /\ Arrived(s2c, client.sock)
      /\ s2c' = [s2c EXCEPT ![client.sock] = Tail(@)]
      /\ \/ AckOk(client, r) /\ Confirm(client, r, r.tag, "commit")
         \/ /\ ReplyOk(client, r)
            /\ Confirm(client, r, Append(client.transcript, Label(r)),
                       "confirm")
  BY DEF ClientHandles, AcceptUpdateAck, AcceptFullReply
<1>3. /\ InFlight(s2c') \subseteq InFlight(s2c)
      /\ r \in Records /\ r \in InFlight(s2c)
  BY <1>1, <1>2, HeadInFlight
<1>4. r = s2c[client.sock][1] /\ 1 \in 1 .. Len(s2c[client.sock])
  BY <1>1, <1>2, TailFacts DEF Arrived
<1> HIDE DEF r
<1>5. ToClient(server, r)
  BY <1>3 DEF KeyInv, KeysHold
<1>6. CASE AckOk(client, r) /\ Confirm(client, r, r.tag, "commit")
  <2>1. r.type = "ack" /\ r.epoch = client.epoch /\ client.pending # {}
    BY <1>6 DEF AckOk, ReadsCurrent
  <2>2. r.tag \in Transcripts
    BY <1>1, <1>4, <2>1 DEF AcksOnce, AcksFit
  <2>3. Names(server, client.epoch, r.tag)
    BY <1>5, <2>1 DEF ToClient
  <2> QED
    BY <1>2, <1>3, <1>6, <2>1, <2>2, <2>3, ConfirmedStepKeys
<1>7. CASE /\ ReplyOk(client, r)
           /\ Confirm(client, r, Append(client.transcript, Label(r)),
                      "confirm")
  <2> DEFINE k == Append(client.transcript, Label(r))
  <2>1. /\ r.type = "full_reply" /\ r.epoch = client.epoch
        /\ client.pending # {} /\ r.tag = client.transcript
    BY <1>7 DEF ReplyOk, ReadsCurrent
  <2>2. k \in Transcripts
    BY <1>1, <1>3, Extends
  <2>3. Names(server, client.epoch, k)
    BY <1>5, <2>1 DEF ToClient
  <2>4. Confirm(client, r, k, "confirm")
    BY <1>7
  <2> HIDE DEF k
  <2> QED
    BY <1>2, <1>3, <2>1, <2>2, <2>3, <2>4, ConfirmedStepKeys
<1> QED
  BY <1>2, <1>6, <1>7

\* DONE: the client follows the server.
LEMMA FollowKeys ==
  ASSUME NonceInv, KeyInv, UNCHANGED server,
         ClientHandles(DoneOk, AcceptUpdateDone)
  PROVE  KeyStep
<1> DEFINE c == client
           r == Head(s2c[c.sock])
           p == CHOOSE q \in c.pending : TRUE
           u == Append(c.transcript, Label(r))
           d == [c EXCEPT !.transcript = u, !.secret = p.secret,
                          !.epoch = p.epoch, !.data_number = 0,
                          !.control_number = 1, !.pending = {}]
           S == InFlight(s2c)
           C == InFlight(c2s)
<1>1. c.sock \in Paths /\ c \in ClientStates /\ ClientOk(c)
  BY ClientFacts DEF NonceInv, TypeOK
<1>2. /\ c.up /\ Arrived(s2c, c.sock) /\ DoneOk(c, r)
      /\ s2c' = [s2c EXCEPT ![c.sock] = Tail(@)]
      /\ client' = d /\ c2s' = c2s
  BY <1>1 DEF ClientHandles, AcceptUpdateDone, ClientStates
<1>3. InFlight(s2c') \subseteq S /\ r \in Records /\ r \in S
  BY <1>1, <1>2, HeadInFlight
<1>4. r.type = "done" /\ \E q \in c.pending : q.phase = "commit"
                                            /\ q.epoch = r.epoch
  BY <1>2 DEF DoneOk, ReadsPending
<1>5. p \in c.pending /\ p.phase = "commit" /\ r.epoch = p.epoch
  BY <1>1, <1>4 DEF ClientOk
<1> HIDE DEF r, p, u, S, C, c
<1>6. d.epoch = p.epoch /\ d.secret = p.secret /\ d.pending = {}
  BY <1>1 DEF ClientStates
<1>7. d.up = c.up
  BY <1>1 DEF ClientStates
<1> HIDE DEF d
<1>8. ~Handshaking(d) /\ KeysHold(server, c, S, C)
  BY <1>2, <1>7 DEF Handshaking, KeyInv, S, C, c
<1>9. /\ KeysHold(server, d, S, C) /\ c.epoch < server.epoch
      /\ d.epoch = server.epoch /\ d.secret = server.secret
  BY <1>3, <1>4, <1>5, <1>6, <1>8, DoneKeys
<1>10. KeysHold(server', client', InFlight(s2c'), InFlight(c2s'))
  BY <1>2, <1>3, <1>9, FewerInFlight DEF C
<1>11. Lockstep!ClientFollows
  BY <1>2, <1>9 DEF Lockstep!ClientFollows, c
<1> QED
  BY <1>10, <1>11 DEF KeyStep, KeyInv, Lockstep!Next

\* A request counts before the INIT that answers it.
LEMMA AskedKeys ==
  ASSUME NonceInv, KeyInv, UNCHANGED server,
         ClientHandles(RequestOk, AcceptUpdateRequest)
  PROVE  KeyStep
<1> DEFINE r == Head(s2c[client.sock])
           u == Append(client.transcript, Label(r))
           c == [client EXCEPT !.transcript = u]
           tag == <<c.secret, c.transcript>>
<1>1. /\ client.sock \in Paths /\ client \in ClientStates /\ ClientOk(client)
      /\ client.transcript \in Transcripts
  BY ClientFacts DEF NonceInv, TypeOK
<1>2. /\ client.up /\ Arrived(s2c, client.sock) /\ client.pending = {}
      /\ s2c' = [s2c EXCEPT ![client.sock] = Tail(@)]
      /\ Initiate(c, "routine", "init", tag)
  BY <1>1 DEF ClientHandles, AcceptUpdateRequest, RoutineInit, RequestOk,
              ClientStates
<1>3. InFlight(s2c') \subseteq InFlight(s2c) /\ r \in Records
  BY <1>1, <1>2, HeadInFlight
<1>4. u \in Transcripts /\ Len(client.transcript) <= Len(u)
  BY <1>1, <1>3, Extends
<1> HIDE DEF u, r
<1>5. c \in ClientStates /\ c.up = client.up /\ c.reason = client.reason
  BY <1>1, <1>4 DEF ClientStates
<1>6. /\ c.epoch = client.epoch /\ c.secret = client.secret
      /\ c.pending = client.pending /\ c.transcript = u
      /\ c.data_number = client.data_number
      /\ c.control_number = client.control_number
  BY <1>1 DEF ClientStates
<1> HIDE DEF c
<1>7. ~Handshaking(c)
  BY <1>2, <1>5 DEF Handshaking
<1>8. Len(c.secret) <= Len(c.transcript)
  <2>1. Len(client.secret) \in Nat /\ Len(u) \in Nat
        /\ Len(client.transcript) \in Nat
    BY <1>1, <1>4, ClientFacts DEF Transcripts
  <2> QED
    BY <1>1, <1>4, <1>6, <2>1 DEF ClientOk
<1>9. ClientOk(c) /\ c.up /\ c.pending = {}
  BY <1>2, <1>5, <1>6, <1>7, <1>8 DEF ClientOk
<1>10. tag \in Tags /\ "routine" \in Modes
  BY <1>1, <1>4, <1>6, ClientFacts DEF Tags, Modes
<1> HIDE DEF tag
<1> QED
  BY <1>2, <1>3, <1>6, <1>9, <1>10, StartKeys

\* A challenge is answered under the current key.
LEMMA ResponseKeys ==
  ASSUME NonceInv, KeyInv, UNCHANGED server,
         ClientHandles(ChallengeOk, AcceptChallenge)
  PROVE  KeyStep
<1> DEFINE r == Head(s2c[client.sock])
           after == Append(client.transcript, Label(r))
           a == ClientRecord(client, "control", client.control_number,
                             "response", after)
           u == Append(after, Label(a))
           d == [client EXCEPT !.transcript = u, !.control_number = @ + 1,
                               !.dialling = FALSE]
<1>1. /\ client.sock \in Paths /\ client \in ClientStates /\ ClientOk(client)
      /\ client.transcript \in Transcripts /\ client.control_number \in Nat
  BY ClientFacts DEF NonceInv, TypeOK
<1>2. /\ client.up /\ Arrived(s2c, client.sock)
      /\ s2c' = [s2c EXCEPT ![client.sock] = Tail(@)]
      /\ Transmit(a) /\ client' = d
  BY <1>1 DEF ClientHandles, AcceptChallenge, ClientStates
<1>3. InFlight(s2c') \subseteq InFlight(s2c) /\ r \in Records
  BY <1>1, <1>2, HeadInFlight
<1>4. after \in Transcripts
  BY <1>1, <1>3, Extends
<1> HIDE DEF r, after
<1>5. a \in Records /\ a.type = "response" /\ a.epoch = client.epoch
  <2>1. "control" \in Kinds /\ "response" \in Types /\ after \in Tags
    BY <1>4 DEF Kinds, Types, Tags
  <2> QED
    BY <1>1, <2>1, ClientRecordFacts
<1> HIDE DEF a, u
<1>6. d.up = client.up /\ d.reason = client.reason
  BY <1>1 DEF ClientStates
<1>7. /\ d.epoch = client.epoch /\ d.secret = client.secret
      /\ d.pending = client.pending
  BY <1>1 DEF ClientStates
<1> HIDE DEF d
<1>8. KeepsClient(client, client')
  BY <1>2, <1>6, <1>7, SameClient DEF Handshaking
<1> QED
  BY <1>2, <1>3, <1>5, <1>8, SendKeys

\* Data and PONGs, records the client refuses, and the ways it gives up.
LEMMA PlainKeys ==
  ASSUME NonceInv, KeyInv, UNCHANGED server,
         \/ ClientHandles(PlainOk, AcceptPlain)
         \/ ClientRejects \/ ClientExpires \/ ClientSeesClose
  PROVE  KeyStep
<1>1. client.sock \in Paths /\ client \in ClientStates
  BY ClientFacts DEF NonceInv, TypeOK
<1>2. CASE ClientHandles(PlainOk, AcceptPlain)
  <2> DEFINE b == client.pinging /\ Head(s2c[client.sock]).type # "pong"
             d == [client EXCEPT !.pinging = b]
  <2>1. /\ Arrived(s2c, client.sock) /\ c2s' = c2s
        /\ s2c' = [s2c EXCEPT ![client.sock] = Tail(@)]
    BY <1>2 DEF ClientHandles, AcceptPlain
  <2>2. client' = d
    BY <1>1, <1>2 DEF ClientHandles, AcceptPlain, ClientStates
  <2> HIDE DEF b
  <2>3. d.up = client.up /\ d.reason = client.reason
    BY <1>1 DEF ClientStates
  <2>4. /\ d.epoch = client.epoch /\ d.secret = client.secret
        /\ d.pending = client.pending
    BY <1>1 DEF ClientStates
  <2> HIDE DEF d
  <2>5. KeepsClient(client, client')
    BY <2>2, <2>3, <2>4, SameClient DEF Handshaking
  <2>6. InFlight(s2c') \subseteq InFlight(s2c)
    BY <1>1, <2>1, HeadInFlight
  <2> QED
    BY <2>1, <2>5, <2>6, ClientNotesKeys
<1>3. CASE ClientRejects
  <2> DEFINE r == Head(s2c[client.sock])
             why == IF r.type = "request" /\ ReadsCurrent(client, r)
                    THEN IF client.pending # {} THEN "concurrent update"
                                                ELSE "epoch overflow"
                    ELSE "invalid record"
  <2>1. /\ ClientDown(why) /\ c2s' = c2s /\ Arrived(s2c, client.sock)
        /\ s2c' = [s2c EXCEPT ![client.sock] = Tail(@)]
    BY <1>3 DEF ClientRejects, ClientDown
  <2>2. why # "none"
    OBVIOUS
  <2>3. InFlight(s2c') \subseteq InFlight(s2c)
    BY <1>1, <2>1, HeadInFlight
  <2> HIDE DEF why
  <2> QED
    BY <2>1, <2>2, <2>3, ClientEndsKeys
<1>4. CASE ClientExpires \/ ClientSeesClose
  <2>1. /\ ClientDown("timeout") \/ ClientDown("closed")
        /\ c2s' = c2s /\ s2c' = s2c
    BY <1>4 DEF ClientExpires, ClientSeesClose
  <2> QED
    BY <2>1, ClientEndsKeys
<1> QED
  BY <1>2, <1>3, <1>4

\* The steps the client takes by itself.
LEMMA ChoiceKeys ==
  ASSUME NonceInv, KeyInv, ClientChoices
  PROVE  KeyStep
<1>0. UNCHANGED server
  BY DEF ClientChoices
<1>1. /\ client \in ClientStates /\ ClientOk(client)
      /\ client.secret \in Transcripts /\ client.transcript \in Transcripts
      /\ client.data_number \in Nat /\ client.control_number \in Nat
  BY ClientFacts DEF NonceInv, TypeOK
<1>2. CASE ClientSends \/ ClientPings
  <2>1. PICK kind \in {"data", "control"}, type \in {"data", "ping"},
             number \in Nat :
          /\ Transmit(ClientRecord(client, kind, number, type, <<>>))
          /\ s2c' = s2c /\ client.up
    BY <1>1, <1>2 DEF ClientSends, ClientPings, CanSend
  <2> DEFINE a == ClientRecord(client, kind, number, type, <<>>)
  <2>2. /\ a \in Records /\ a.type = type /\ a.epoch = client.epoch
        /\ a.key = client.secret
    <3>1. kind \in Kinds /\ type \in Types /\ <<>> \in Tags
      BY DEF Kinds, Types, Tags, Transcripts
    <3> QED
      BY <1>1, <3>1, ClientRecordFacts
  <2>3. \/ client' = [client EXCEPT !.data_number = @ + 1]
        \/ client' = [client EXCEPT !.control_number = @ + 1,
                                    !.pinging = TRUE]
    BY <1>2 DEF ClientSends, ClientPings
  <2>4. client'.up = client.up /\ client'.reason = client.reason
    BY <1>1, <2>3 DEF ClientStates
  <2>5. /\ client'.epoch = client.epoch /\ client'.secret = client.secret
        /\ client'.pending = client.pending
    BY <1>1, <2>3 DEF ClientStates
  <2>6. KeepsClient(client, client')
    BY <2>4, <2>5, SameClient DEF Handshaking
  <2>7. Transmit(a) /\ InFlight(s2c') \subseteq InFlight(s2c)
    BY <2>1
  <2> HIDE DEF a
  <2> QED
    BY <1>0, <2>1, <2>2, <2>6, <2>7, SendKeys
<1>3. ASSUME NEW mode \in {"routine", "full"}, ClientStarts(mode)
      PROVE  KeyStep
  <2> DEFINE c == client
  <2>1. /\ c.up /\ c.pending = {} /\ s2c' = s2c
        /\ \/ Initiate(c, "routine", "init", <<c.secret, c.transcript>>)
           \/ Initiate(c, "full", "full_init", c.transcript)
    BY <1>3 DEF ClientStarts, CanSend, RoutineInit, FullInit
  <2>2. <<c.secret, c.transcript>> \in Tags /\ c.transcript \in Tags
        /\ "routine" \in Modes /\ "full" \in Modes
    BY <1>1 DEF Tags, Modes
  <2>3. /\ ClientOk(c) /\ c.epoch = client.epoch /\ c.secret = client.secret
        /\ client.up /\ client.pending = {}
        /\ InFlight(s2c') \subseteq InFlight(s2c)
    BY <1>1, <2>1
  <2> HIDE DEF c
  <2>4. CASE Initiate(c, "routine", "init", <<c.secret, c.transcript>>)
    BY <1>0, <2>1, <2>2, <2>3, <2>4, StartKeys
  <2>5. CASE Initiate(c, "full", "full_init", c.transcript)
    BY <1>0, <2>1, <2>2, <2>3, <2>5, StartKeys
  <2> QED
    BY <2>1, <2>4, <2>5
<1>4. CASE ClientDials
  <2> DEFINE d == [client EXCEPT !.sock = "second", !.dialling = TRUE]
  <2>1. client' = d /\ UNCHANGED <<c2s, s2c>>
    BY <1>4 DEF ClientDials
  <2>2. d.up = client.up /\ d.reason = client.reason
    BY <1>1 DEF ClientStates
  <2>3. /\ d.epoch = client.epoch /\ d.secret = client.secret
        /\ d.pending = client.pending
    BY <1>1 DEF ClientStates
  <2> HIDE DEF d
  <2>4. KeepsClient(client, client')
    BY <2>1, <2>2, <2>3, SameClient DEF Handshaking
  <2>5. InFlight(s2c') \subseteq InFlight(s2c)
    BY <2>1
  <2> QED
    BY <1>0, <2>1, <2>4, <2>5, ClientNotesKeys
<1>5. CASE ClientDialRefused \/ ClientStops \/ ClientAbandons
  <2>1. /\ \/ ClientDown("refused") \/ ClientDown("stopped")
           \/ ClientDown("invalid record")
        /\ UNCHANGED <<c2s, s2c>>
    BY <1>5 DEF ClientDialRefused, ClientStops, ClientAbandons, ClientDown
  <2>2. InFlight(s2c') \subseteq InFlight(s2c)
    BY <2>1
  <2> QED
    BY <1>0, <2>1, <2>2, ClientEndsKeys
<1> QED
  BY <1>2, <1>3, <1>4, <1>5 DEF ClientChoices

\* A message of the handshake moves no key of the client.
LEMMA ExtendedKeys ==
  ASSUME NEW c, ClientOk(c), NEW r, r.type \in Types
  PROVE  LET d == Extended(c, r)
         IN  /\ ClientOk(d) /\ KeepsClient(c, d) /\ d.secret = c.secret
             /\ d.pending = c.pending /\ d.epoch = c.epoch
             /\ d.transcript = Append(c.transcript, r.type)
<1> DEFINE d == Extended(c, r)
<1>1. /\ ClientOk(d) /\ d.up = c.up /\ d.reason = c.reason
      /\ d.secret = c.secret /\ d.pending = c.pending
      /\ d.transcript = Append(c.transcript, r.type)
  BY ExtendedClient
<1>2. d.epoch = c.epoch
  BY ClientFacts DEF Extended, ClientStates
<1> HIDE DEF d
<1>3. KeepsClient(c, d)
  BY <1>1, <1>2, SameClient DEF Handshaking
<1> QED
  BY <1>1, <1>2, <1>3 DEF d

\* Keeping the keys twice is keeping them.
LEMMA KeepsClientTwice ==
  ASSUME NEW c, NEW d, NEW e, KeepsClient(c, d), KeepsClient(d, e)
  PROVE  KeepsClient(c, e)
<1>1. /\ e.epoch = c.epoch /\ e.secret = c.secret
      /\ (e.up => c.up) /\ (Handshaking(e) => Handshaking(c))
  BY DEF KeepsClient
<1>2. \A p \in e.pending : \E q \in c.pending :
        p.epoch = q.epoch /\ p.phase = q.phase /\ p.secret = q.secret
  BY DEF KeepsClient
<1>3. \A q \in c.pending : \E p \in e.pending :
        p.epoch = q.epoch /\ p.phase = q.phase /\ p.secret = q.secret
  BY DEF KeepsClient
<1> QED
  BY <1>1, <1>2, <1>3 DEF KeepsClient

\* The client's handshake: it comes up with the secret of its CLIENT_CONFIRM.
LEMMA ClientHandshakeKeys ==
  ASSUME NonceInv, KeyInv, UNCHANGED server, ClientHandshakes
  PROVE  KeyStep
<1>1. /\ ClientOk(client) /\ c2s \in Queues /\ "first" \in Paths
      /\ Len(client.transcript) \in Nat
  BY ClientFacts DEF NonceInv, TypeOK, Paths
<1>2. CASE ClientHello
  <2> DEFINE a == Clear("client", "client_hello", <<>>)
             one == {a}
  <2>1. /\ client' = Extended(client, a) /\ c2s' = Sent(c2s, "first", <<a>>)
        /\ s2c' = s2c
    BY <1>2 DEF ClientHello
  <2>2. a \in Records /\ a.type = "client_hello"
    <3>1. /\ "client" \in Froms /\ "clear" \in Kinds
          /\ "client_hello" \in Types /\ <<>> \in Transcripts /\ <<>> \in Tags
      BY DEF Froms, Kinds, Types, Transcripts, Tags
    <3> QED
      BY <3>1 DEF Clear, Record, Records
  <2>3. a.type \in Types /\ a.epoch \in Int
    BY <2>2 DEF Records
  <2> HIDE DEF a
  <2>4. KeepsClient(client, client')
    BY <1>1, <2>1, <2>3, ExtendedKeys
  <2>5. InFlight(c2s') \subseteq InFlight(c2s) \cup one
    BY <1>1, <2>1, <2>2, SentInFlight
  <2>6. ToServer(server, client, a)
    BY <2>2, <2>3 DEF ToServer
  <2>7. KeysHold(server, client, InFlight(s2c), InFlight(c2s) \cup one)
    BY <2>6 DEF KeyInv, KeysHold
  <2>8. InFlight(s2c') \subseteq InFlight(s2c)
    BY <2>1
  <2> HIDE DEF one
  <2> QED
    BY <2>4, <2>5, <2>7, <2>8, ClientQuiet
<1>3. CASE ClientAuth \/ ClientConfirm
  <2> DEFINE r == Head(s2c["first"])
             c1 == Extended(client, r)
  <2>1. PICK number \in {0, 1}, type \in {"client_auth", "client_confirm"} :
          /\ Answered(r, number, type) /\ Handshaking(client)
          /\ Arrived(s2c, "first")
          /\ s2c' = [s2c EXCEPT !["first"] = Tail(@)]
    BY <1>3 DEF ClientAuth, ClientConfirm, ClientAnswers, Answered, Incoming
  <2> DEFINE a == SealHandshake(c1, "client", number, type)
             c2 == Extended(c1, a)
  <2>2. InFlight(s2c') \subseteq InFlight(s2c) /\ r \in Records
    BY <1>1, <2>1, HeadInFlight
  <2>3. r.type \in Types /\ type \in Types
    BY <2>2 DEF Records, Types
  <2>4. Transmit(a) /\ client' = IF type = "client_confirm"
                                 THEN Established(c2) ELSE c2
    BY <2>1 DEF Answered
  <2>5. Len(client.transcript) >= 1
    <3>1. CASE ClientAuth
      <4>1. /\ ServerHelloOk(r) /\ Arrived(s2c, "first")
            /\ ShortHellos(s2c) /\ s2c \in Queues
        BY <3>1 DEF ClientAuth, ClientAnswers, Incoming, NonceInv, TypeOK
      <4>2. r = s2c["first"][1] /\ 1 \in 1 .. Len(s2c["first"])
        BY <1>1, <4>1, TailFacts DEF Arrived
      <4> HIDE DEF r
      <4>3. r.type = "server_hello" /\ r.tag = client.transcript
        BY <4>1 DEF ServerHelloOk, Clear, Record
      <4>4. Len(client.transcript) = 1
        BY <1>1, <4>1, <4>2, <4>3 DEF ShortHellos
      <4> QED
        BY <4>4
    <3>2. CASE ClientConfirm
      <4>1. FinishOk(r)
        BY <3>2 DEF ClientConfirm, ClientAnswers
      <4> QED
        BY <1>1, <4>1 DEF FinishOk, OpenHandshake
    <3> QED
      BY <1>3, <3>1, <3>2
  <2> HIDE DEF r
  <2>6. /\ ClientOk(c1) /\ KeepsClient(client, c1)
        /\ c1.secret = client.secret /\ c1.pending = client.pending
        /\ c1.transcript = Append(client.transcript, r.type)
    BY <1>1, <2>3, ExtendedKeys
  <2>7. Len(c1.transcript) >= 2
    <3>1. Len(c1.transcript) = Len(client.transcript) + 1
      BY <1>1, <2>3, ExtendedClient
    <3> QED
      BY <1>1, <2>5, <3>1
  <2> HIDE DEF c1
  <2>8. c1.transcript \in Transcripts /\ Hellos(c1) \in Transcripts
    BY <2>6, <2>7, ClientFacts, HellosType
  <2>9. a \in Records /\ a.type = type /\ a.tag = c1.transcript
        /\ a.epoch = 0
    <3>1. /\ "client" \in Froms /\ "handshake" \in Kinds
          /\ c1.transcript \in Tags /\ number \in Nat
      BY <2>8 DEF Froms, Kinds, Tags
    <3> QED
      BY <2>3, <2>8, <3>1 DEF SealHandshake, Record, Records
  <2> HIDE DEF a
  <2>10. /\ ClientOk(c2) /\ KeepsClient(c1, c2)
         /\ c2.secret = c1.secret /\ c2.pending = c1.pending
         /\ c2.transcript = Append(c1.transcript, type)
    BY <2>3, <2>6, <2>9, ExtendedKeys
  <2> HIDE DEF c2
  <2> DEFINE one == {a}
             S == InFlight(s2c)
             C == InFlight(c2s)
  <2>11. InFlight(c2s') \subseteq C \cup one
    BY <2>4, <2>9, TransmitInFlight
  <2>12. CASE type = "client_auth"
    <3>1. client' = c2
      BY <2>4, <2>12
    <3>2. KeepsClient(client, client')
      BY <2>6, <2>10, <3>1, KeepsClientTwice
    <3>3. ToServer(server, client, a)
      BY <2>9, <2>12 DEF ToServer
    <3>4. KeysHold(server, client, S, C \cup one)
      BY <3>3 DEF KeyInv, KeysHold
    <3> HIDE DEF one
    <3> QED
      BY <2>2, <2>11, <3>2, <3>4, ClientQuiet
  <2>13. CASE type = "client_confirm"
    <3> DEFINE k == c2.transcript
               d == [c2 EXCEPT !.up = TRUE, !.epoch = 0, !.secret = k]
    <3>1. c2 \in ClientStates /\ k \in Transcripts
      BY <2>10, ClientFacts
    <3>2. client' = d
      BY <2>4, <2>13 DEF Established
    <3>3. k = Append(a.tag, "client_confirm")
      BY <2>9, <2>10, <2>13
    <3>4. k # client.secret
      <4>1. client.secret = <<>>
        BY <1>1, <2>1 DEF ClientOk
      <4>2. k = Append(c1.transcript, type)
        BY <2>10
      <4>3. Len(k) = Len(c1.transcript) + 1 /\ Len(c1.transcript) \in Nat
        BY <2>3, <2>8, <4>2 DEF Transcripts, Labels
      <4> HIDE DEF k
      <4>4. Len(k) # 0 /\ Len(<<>>) = 0
        BY <4>3
      <4> QED
        BY <4>1, <4>4
    <3> HIDE DEF k
    <3>5. d.up = TRUE
      BY <3>1 DEF ClientStates
    <3>6. d.epoch = 0 /\ d.secret = k /\ d.pending = c2.pending
      BY <3>1 DEF ClientStates
    <3> HIDE DEF d
    <3>7. ~Handshaking(d) /\ d.pending = client.pending
          /\ d.secret = Append(a.tag, "client_confirm")
          /\ a.type = "client_confirm" /\ a.epoch \in Int
      BY <2>6, <2>9, <2>10, <2>13, <3>3, <3>5, <3>6 DEF Handshaking
    <3>8. KeysHold(server, client, S, C) /\ Handshaking(client)
      BY <2>1 DEF KeyInv
    <3> HIDE DEF S, C
    <3>9. KeysHold(server, d, S, C \cup {a}) /\ client.epoch = -1
      BY <3>6, <3>7, <3>8, ConfirmedKeys
    <3>10. KeysHold(server', client', InFlight(s2c'), InFlight(c2s'))
      BY <2>2, <2>11, <3>2, <3>9, FewerInFlight DEF S
    <3>11. Lockstep!ClientEstablished
      BY <3>2, <3>4, <3>6, <3>9 DEF Lockstep!ClientEstablished
    <3> QED
      BY <3>10, <3>11 DEF KeyStep, KeyInv, Lockstep!Next
  <2> QED
    BY <2>12, <2>13
<1> QED
  BY <1>2, <1>3 DEF ClientHandshakes

\* The client's half of the induction.
LEMMA ClientKeyStep ==
  ASSUME NonceInv, KeyInv, ClientThread \/ ClientChoices
  PROVE  KeyStep
<1>1. CASE ClientChoices
  BY <1>1, ChoiceKeys
<1>2. CASE ClientThread
  <2>1. UNCHANGED server
    BY <1>2 DEF ClientThread
  <2>2. \/ ClientHandshakes
        \/ ClientExpires \/ ClientSeesClose \/ ClientRejects
        \/ ClientHandles(PlainOk, AcceptPlain)
        \/ ClientHandles(RequestOk, AcceptUpdateRequest)
        \/ ClientHandles(AckOk, AcceptUpdateAck)
        \/ ClientHandles(ReplyOk, AcceptFullReply)
        \/ ClientHandles(DoneOk, AcceptUpdateDone)
        \/ ClientHandles(ChallengeOk, AcceptChallenge)
    BY <1>2 DEF ClientThread, ClientReceives
  <2> QED
    BY <2>1, <2>2, ClientHandshakeKeys, PlainKeys, AskedKeys, AckKeys,
       FollowKeys, ResponseKeys
<1> QED
  BY <1>1, <1>2

-----------------------------------------------------------------------------
(* Time, the network and the start                                         *)

\* Time passes for the keys' ages only.
LEMMA TickKeys ==
  ASSUME NonceInv, KeyInv, Tick
  PROVE  KeyStep
<1>1. /\ UNCHANGED <<c2s, s2c>>
      /\ server' = ServerTicks(server) \/ server' = server
      /\ client' = ClientTicks(client) \/ client' = client
  BY DEF Tick, carrierVars
<1>2. server \in ServerStates /\ client \in ClientStates
  BY DEF NonceInv, TypeOK
<1>3. KeepsKeys(server, server')
  <2>1. CASE server' = server
    BY <2>1 DEF KeepsKeys
  <2>2. CASE server' = ServerTicks(server)
    <3> DEFINE Less(n) == IF n > 0 THEN n - 1 ELSE 0
               Fewer(D) == {Less(n) : n \in D}
               age == IF server.age < UPDATE_INTERVAL THEN server.age + 1
                                                      ELSE server.age
               R(p) == [p EXCEPT !.left = Less(@)]
               P == {R(p) : p \in server.previous}
               D == Fewer(server.deadline)
               V == Fewer(server.validating)
               E == Fewer(server.draining)
               t == [server EXCEPT !.age = age, !.deadline = D,
                                   !.validating = V, !.draining = E,
                                   !.previous = P]
    <3>1. server' = t
      BY <1>2, <2>2 DEF ServerTicks, ServerStates
    <3> HIDE DEF Less
    <3>2. \A q \in P : \E p \in server.previous :
            p.epoch = q.epoch /\ p.secret = q.secret
      <4>1. ASSUME NEW p \in server.previous
            PROVE  R(p).epoch = p.epoch /\ R(p).secret = p.secret
        <5>1. p \in [epoch : Int, secret : Transcripts, left : Nat,
                     remaining : Nat]
          BY <1>2 DEF ServerStates
        <5> QED
          BY <5>1
      <4> HIDE DEF R
      <4> QED
        BY <4>1
    <3> HIDE DEF age, P, D, V, E
    <3>3. t.up = server.up /\ t.reason = server.reason
      BY <1>2 DEF ServerStates
    <3>4. /\ t.epoch = server.epoch /\ t.secret = server.secret
          /\ t.pending = server.pending /\ t.previous = P
      BY <1>2 DEF ServerStates
    <3> HIDE DEF t
    <3> QED
      BY <3>1, <3>2, <3>3, <3>4 DEF KeepsKeys, Handshaking
  <2> QED
    BY <1>1, <2>1, <2>2
<1>4. KeepsClient(client, client')
  <2>1. CASE client' = client
    BY <2>1, SameClient
  <2>2. CASE client' = ClientTicks(client)
    <3> DEFINE Older(n) == IF n < UPDATE_TIMEOUT THEN n + 1 ELSE n
               R(p) == [p EXCEPT !.age = Older(@)]
               P == {R(p) : p \in client.pending}
               d == [client EXCEPT !.pending = P]
    <3>1. client' = d
      BY <1>2, <2>2 DEF ClientTicks, ClientStates
    <3> HIDE DEF Older
    <3>2. ASSUME NEW p \in client.pending
          PROVE  /\ R(p).epoch = p.epoch /\ R(p).phase = p.phase
                 /\ R(p).secret = p.secret
      <4>1. p \in [epoch : Int, mode : Modes, secret : Transcripts,
                   phase : {"init", "commit"}, age : Nat]
        BY <1>2 DEF ClientStates
      <4> QED
        BY <4>1
    <3> HIDE DEF R
    <3>3. /\ \A p \in P : \E q \in client.pending :
               p.epoch = q.epoch /\ p.phase = q.phase /\ p.secret = q.secret
          /\ \A q \in client.pending : \E p \in P :
               p.epoch = q.epoch /\ p.phase = q.phase /\ p.secret = q.secret
      BY <3>2
    <3> HIDE DEF P
    <3>4. d.up = client.up /\ d.reason = client.reason
      BY <1>2 DEF ClientStates
    <3>5. /\ d.epoch = client.epoch /\ d.secret = client.secret
          /\ d.pending = P
      BY <1>2 DEF ClientStates
    <3> HIDE DEF d
    <3> QED
      BY <3>1, <3>3, <3>4, <3>5 DEF KeepsClient, Handshaking
  <2> QED
    BY <1>1, <2>1, <2>2
<1>5. KeysHold(server', client, InFlight(s2c), InFlight(c2s))
  BY <1>3, ServerStays DEF KeyInv
<1>6. KeysHold(server', client', InFlight(s2c), InFlight(c2s))
  BY <1>4, <1>5, ClientStays
<1>7. UNCHANGED Lockstep!vars
  BY <1>3, <1>4 DEF KeepsKeys, KeepsClient, Lockstep!vars
<1> QED
  BY <1>1, <1>6, <1>7 DEF KeyStep, KeyInv

\* A carrier that fails loses what is in flight.
LEMMA NetworkKeys ==
  ASSUME NonceInv, KeyInv, NetworkSteps
  PROVE  KeyStep
<1>1. PICK p \in Paths : CarrierFails(p) \/ CarrierStalls(p)
  BY DEF NetworkSteps
<1>2. UNCHANGED <<server, client>> /\ c2s \in Queues /\ s2c \in Queues
  BY DEF NetworkSteps, NonceInv, TypeOK
<1>3. ASSUME NEW q \in Queues
      PROVE  InFlight([q EXCEPT ![p] = <<>>]) \subseteq InFlight(q)
  <2> DEFINE n == [q EXCEPT ![p] = <<>>]
  <2>1. n[p] = <<>> /\ \A x \in Paths : x # p => n[x] = q[x]
    BY DEF Queues
  <2> HIDE DEF n
  <2>2. 1 .. Len(n[p]) = {}
    BY <2>1
  <2>3. InFlight(n) \subseteq InFlight(q)
    BY <2>1, <2>2 DEF InFlight
  <2> QED
    BY <2>3 DEF n
<1>4. /\ InFlight(c2s') \subseteq InFlight(c2s)
      /\ InFlight(s2c') \subseteq InFlight(s2c)
  BY <1>1, <1>2, <1>3 DEF CarrierFails, CarrierStalls
<1>5. KeysHold(server', client', InFlight(s2c'), InFlight(c2s'))
  BY <1>2, <1>4, FewerInFlight DEF KeyInv
<1> QED
  BY <1>2, <1>5 DEF KeyStep, KeyInv, Lockstep!vars

\* Every step keeps the agreement and is a step of the lockstep.
LEMMA NextKeys ==
  ASSUME NonceInv, KeyInv, [Next]_vars
  PROVE  KeyStep
<1>1. CASE UNCHANGED vars
  <2>1. UNCHANGED <<server, client, c2s, s2c>>
    BY <1>1 DEF vars
  <2>2. KeyInv'
    BY <2>1 DEF KeyInv
  <2> QED
    BY <2>1, <2>2 DEF KeyStep, Lockstep!vars
<1>2. CASE Next
  BY <1>2, ServerKeyStep, ClientKeyStep, TickKeys, NetworkKeys DEF Next
<1> QED
  BY <1>1, <1>2

\* Nothing is in flight before the first record, and nobody has a key.
LEMMA InitKeysHold ==
  ASSUME Init
  PROVE  KeyInv
<1>1. \A p \in Paths : 1 .. Len(c2s[p]) = {} /\ 1 .. Len(s2c[p]) = {}
  BY DEF Init, CarrierInit
<1>2. InFlight(c2s) = {} /\ InFlight(s2c) = {}
  BY <1>1 DEF InFlight
<1>3. server.epoch = -1 /\ server.pending = {} /\ server.previous = {}
  BY DEF Init, InitServer
<1>4. client.epoch = -1 /\ client.pending = {}
  BY DEF Init, InitClient
<1>5. ~server.up /\ ~client.up
  BY DEF Init, InitServer, InitClient
<1>6. EpochsFit(server, client)
  BY <1>3, <1>4, <1>5 DEF EpochsFit
<1>7. ServerKeys(server, client) /\ ClientKeys(server, client)
  BY <1>3, <1>4 DEF ServerKeys, ClientKeys
<1> QED
  BY <1>2, <1>6, <1>7 DEF KeyInv, KeysHold

-----------------------------------------------------------------------------
(* The theorems                                                            *)

\* The inductive invariant: the two ends are in the same epoch or the server
\* is one ahead, in the one the client has confirmed; what is prepared,
\* confirmed and remembered fits, and so does what is in flight.
THEOREM KeySafety == Spec => [](NonceInv /\ KeyInv)
<1>1. Init => NonceInv /\ KeyInv
  BY InitHolds, InitKeysHold
<1>2. NonceInv /\ KeyInv /\ [Next]_vars => NonceInv' /\ KeyInv'
  BY NextHolds, NextKeys DEF KeyStep
<1> QED
  BY <1>1, <1>2, PTL DEF Spec

\* One secret for each epoch follows from the invariant.
LEMMA OneSecret ==
  ASSUME KeyInv, NEW e \in Nat, NEW k \in Held(e), NEW l \in Held(e)
  PROVE  k = l
<1> DEFINE s == server
           c == client
           Of(x) == \/ e = s.epoch /\ x = s.secret
                    \/ e = c.epoch /\ x = c.secret
                    \/ \E p \in s.pending : e = p.epoch /\ x = p.secret
                    \/ \E p \in s.previous : e = p.epoch /\ x = p.secret
                    \/ \E p \in c.pending :
                         p.phase = "commit" /\ e = p.epoch /\ x = p.secret
<1>1. Of(k) /\ Of(l)
  BY DEF Held
<1>2. EpochsFit(s, c) /\ ServerKeys(s, c) /\ ClientKeys(s, c)
  BY DEF KeyInv, KeysHold
<1> HIDE DEF s, c
<1>3. CASE s.epoch = -1
  <2>1. ASSUME NEW x, Of(x) PROVE x = c.secret
    BY <1>2, <1>3, <2>1 DEF EpochsFit, ServerKeys, ClientKeys
  <2> QED
    BY <1>1, <2>1
<1>4. CASE s.epoch >= 0 /\ s.epoch = c.epoch /\ s.secret = c.secret
  <2>0. s.epoch \in Int
    BY <1>2 DEF EpochsFit
  <2>1. CASE e = s.epoch
    <3>1. ASSUME NEW x, Of(x) PROVE x = s.secret
      BY <1>2, <1>4, <2>0, <2>1, <3>1 DEF ServerKeys, ClientKeys
    <3> QED
      BY <1>1, <3>1
  <2>2. CASE e = s.epoch + 1
    <3>1. ASSUME NEW x, Of(x) PROVE \E p \in s.pending : x = p.secret
      BY <1>2, <1>4, <2>0, <2>2, <3>1 DEF ServerKeys, ClientKeys
    <3>2. PICK p \in s.pending : k = p.secret
      BY <1>1, <3>1
    <3>3. PICK q \in s.pending : l = q.secret
      BY <1>1, <3>1
    <3> QED
      BY <1>2, <3>2, <3>3 DEF ServerKeys
  <2>3. CASE e # s.epoch /\ e # s.epoch + 1
    <3>1. ASSUME NEW x, Of(x) PROVE \E p \in s.previous : x = p.secret
      BY <1>2, <1>4, <2>0, <2>3, <3>1 DEF ServerKeys, ClientKeys
    <3>2. PICK p \in s.previous : k = p.secret
      BY <1>1, <3>1
    <3>3. PICK q \in s.previous : l = q.secret
      BY <1>1, <3>1
    <3> QED
      BY <1>2, <3>2, <3>3 DEF ServerKeys
  <2> QED
    BY <2>1, <2>2, <2>3
<1>5. CASE c.epoch >= 0 /\ s.epoch = c.epoch + 1 /\ s.pending = {}
  <2>0. s.epoch \in Int /\ c.epoch \in Int
    BY <1>2 DEF EpochsFit
  <2>1. CASE e = s.epoch
    <3>1. ASSUME NEW x, Of(x) PROVE x = s.secret
      BY <1>2, <1>5, <2>0, <2>1, <3>1 DEF ServerKeys, ClientKeys
    <3> QED
      BY <1>1, <3>1
  <2>2. CASE e # s.epoch
    <3>1. ASSUME NEW x, Of(x) PROVE x = c.secret
      BY <1>2, <1>5, <2>0, <2>2, <3>1 DEF ServerKeys, ClientKeys
    <3> QED
      BY <1>1, <3>1
  <2> QED
    BY <2>1, <2>2
<1> QED
  BY <1>2, <1>3, <1>4, <1>5 DEF EpochsFit

\* Whatever the two ends hold for one epoch - current, pending, previous or
\* confirmed - is one secret: in every state of every session, whatever the
\* limits, whichever updates the client starts unasked and however they collide
\* (accept_update_init, accept_full_rekey_init, _accept_update_ack).
THEOREM EpochsAgree == Spec => []EpochAgreement
<1>1. NonceInv /\ KeyInv => EpochAgreement
  BY OneSecret DEF EpochAgreement
<1> QED
  BY <1>1, KeySafety, PTL

\* Every session is an EpochLockstep: the server switches first, to a fresh
\* secret, the client follows to that epoch and that secret, and neither gets
\* further ahead (accept_update_commit, accept_full_rekey_confirm,
\* _accept_update_done).
THEOREM SessionImplementsLockstep == Spec => ImplementsLockstep
<1>1. Init => Lockstep!Init
  BY DEF Init, InitServer, InitClient, Lockstep!Init
<1>2. NonceInv /\ KeyInv /\ [Next]_vars => [Lockstep!Next]_(Lockstep!vars)
  BY NextKeys DEF KeyStep
<1> QED
  BY <1>1, <1>2, KeySafety, PTL DEF Spec, ImplementsLockstep, Lockstep!Spec
=============================================================================
