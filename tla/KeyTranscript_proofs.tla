------------------------ MODULE KeyTranscript_proofs ------------------------
(***************************************************************************)
(* The transcripts of the two ends of a session, for every client          *)
(* (Initiates), every limit and every interleaving.                        *)
(*                                                                         *)
(* TranscriptInv says that the session is at one of twelve stages          *)
(* (Phase): which end is ahead, by which one or two records, that these    *)
(* are the only counted records in flight, and what the end that waits for *)
(* them has prepared.  Places and Lines say on which carrier and in which  *)
(* order they lie, which is why every record is read when it is expected.  *)
(* The stages are left only where a record of the server that the client   *)
(* has not counted in crosses one of the client's: the transcripts then    *)
(* fork, and a fork stays because transcripts only grow.                   *)
(*                                                                         *)
(* SettledInv holds on both sides of a fork: a session that has moved to   *)
(* the second carrier has left nothing counted on the first, because the   *)
(* response that moved it proves a transcript the client has had.          *)
(***************************************************************************)
EXTENDS KeyUpdate_proofs

-----------------------------------------------------------------------------
(* The invariant                                                           *)

\* The records in flight on one carrier.
On(q, p) == {q[p][i] : i \in 1 .. Len(q[p])}

\* Records no transcript counts.
Plain(r) == r.type \in {"data", "ping", "pong"}

\* Of the records the transcripts count, at most those of X are in flight.
Flight(Q, X) == \A r \in Q : Plain(r) \/ r \in X

Even(s, c) == s.epoch >= 0 /\ s.epoch = c.epoch /\ s.secret = c.secret

Idle(s, c) == s.pending = {} /\ c.pending = {}

\* Both ends use one carrier; the client has dialled the second one; it has
\* answered the challenge there.
Together(s, c) == c.sock = s.carrier /\ ~c.dialling

Dialling(s, c) == c.dialling /\ c.sock = "second" /\ s.carrier = "first"

Moving(s, c) == ~c.dialling /\ c.sock = "second" /\ s.carrier = "first"

Waiting(c, mode) ==
  \E p \in c.pending : /\ p.phase = "init" /\ p.mode = mode
                       /\ mode = "routine" => p.secret = c.transcript

Prepared(s, proof, secret) ==
  \E p \in s.pending : p.proof = proof /\ p.secret = secret

\* The update that the client starts after the transcript t.
InitFits(r, c, t) ==
  /\ r.epoch = c.epoch /\ r.key = c.secret
  /\ \/ r.type = "init" /\ r.tag = <<c.secret, t>> /\ Waiting(c, "routine")
     \/ r.type = "full_init" /\ r.tag = t /\ Waiting(c, "full")
  /\ c.transcript = Append(t, Label(r))

DoneFits(r, s, c) ==
  /\ r.type = "done" /\ r.epoch = s.epoch /\ r.key = s.secret
  /\ r.tag = s.secret /\ r.kind = "control"
  /\ c.epoch >= 0 /\ s.epoch = c.epoch + 1
  /\ s.pending = {} /\ Committed(c, s.secret)

\* The transcript of the handshake as it grows.
ToHello == <<"client_hello">>

ToHellos == Append(ToHello, "server_hello")

ToAuth == Append(ToHellos, "client_auth")

ToFinish == Append(ToAuth, "server_finish")

HandshakeRecord(from, number, type, tag) ==
  Record(from, "handshake", 0, ToHellos, number, type, tag)

\* What the server has to take before anything else of the client.
Opening(r, l, s, c) ==
  \/ /\ r.type = "response" /\ l = Label(r)
     /\ Even(s, c) /\ Moving(s, c)
  \/ /\ s.transcript = ToFinish /\ l = "client_confirm"
     /\ r = HandshakeRecord("client", 1, "client_confirm", ToFinish)
     /\ s.epoch = -1 /\ c.epoch = 0 /\ Together(s, c)

-----------------------------------------------------------------------------
(* The stages of a session: which end is ahead, and by which records       *)

Greeting(s, c, S, C) ==
  /\ s.epoch = -1 /\ c.epoch = -1 /\ c.sock = "first"
  /\ Together(s, c) /\ Idle(s, c)
  /\ \/ s.transcript = <<>> /\ c.transcript = <<>> /\ C = {} /\ S = {}
     \/ /\ s.transcript = <<>> /\ c.transcript = ToHello
        /\ C \subseteq {Clear("client", "client_hello", <<>>)} /\ S = {}
     \/ /\ s.transcript = ToHellos /\ c.transcript = ToHello /\ C = {}
        /\ S \subseteq {Clear("server", "server_hello", ToHello)}
     \/ /\ s.transcript = ToHellos /\ c.transcript = ToAuth /\ S = {}
        /\ C \subseteq {HandshakeRecord("client", 0, "client_auth", ToHellos)}
     \/ /\ s.transcript = ToFinish /\ c.transcript = ToAuth /\ C = {}
        /\ S \subseteq {HandshakeRecord("server", 0, "server_finish", ToAuth)}

Level(s, c, S, C) ==
  /\ s.transcript = c.transcript
  /\ Even(s, c) /\ Idle(s, c) /\ Flight(S, {}) /\ Flight(C, {})
  /\ Together(s, c) \/ (Dialling(s, c) /\ ~s.offered)

Asked(x, s, c, S, C) ==
  /\ Even(s, c) /\ Idle(s, c) /\ Flight(S, {x}) /\ Flight(C, {})
  /\ x.type = "request" /\ s.transcript = Append(c.transcript, Label(x))
  /\ Together(s, c) \/ (Dialling(s, c) /\ ~s.offered)
  /\ s.update_requested

Started(y, s, c, S, C) ==
  /\ Even(s, c) /\ s.pending = {} /\ Flight(S, {}) /\ Flight(C, {y})
  /\ Together(s, c) /\ InitFits(y, c, s.transcript)
  /\ s.update_requested \/ Initiates # {}

Replied(x, s, c, S, C) ==
  /\ Even(s, c) /\ Flight(S, {x}) /\ Flight(C, {})
  /\ Together(s, c) /\ s.update_requested
  /\ s.transcript = Append(c.transcript, Label(x)) /\ x.tag = c.transcript
  /\ \/ /\ x.type = "ack" /\ Waiting(c, "routine")
        /\ Prepared(s, "routine", c.transcript)
     \/ /\ x.type = "full_reply" /\ Waiting(c, "full")
        /\ Prepared(s, "full", s.transcript)

Committing(y, s, c, S, C) ==
  /\ Even(s, c) /\ Flight(S, {}) /\ Flight(C, {y})
  /\ Together(s, c) /\ s.update_requested
  /\ c.transcript = Append(s.transcript, Label(y))
  /\ y.kind = "control" /\ y.epoch = s.epoch + 1 /\ y.tag = y.key
  /\ Committed(c, y.key)
  /\ \/ y.type = "commit" /\ Prepared(s, "routine", y.key)
     \/ y.type = "confirm" /\ Prepared(s, "full", y.key)

Ahead(x, s, c, S, C) ==
  /\ DoneFits(x, s, c) /\ s.transcript = Append(c.transcript, Label(x))
  /\ Flight(S, {x}) /\ Flight(C, {}) /\ Together(s, c)

AheadAsked(x, z, s, c, S, C) ==
  /\ DoneFits(x, s, c) /\ z.type = "request" /\ z.epoch = s.epoch
  /\ s.transcript = Append(Append(c.transcript, Label(x)), Label(z))
  /\ Flight(S, {x, z}) /\ Flight(C, {}) /\ Together(s, c)
  /\ s.update_requested

Challenged(x, s, c, S, C) ==
  /\ Even(s, c) /\ Idle(s, c) /\ Flight(S, {x}) /\ Flight(C, {})
  /\ Dialling(s, c) /\ s.offered
  /\ x.type = "challenge" /\ s.transcript = Append(c.transcript, Label(x))

ChallengedAsked(x, z, s, c, S, C) ==
  /\ \/ x.type = "request" /\ z.type = "challenge"
     \/ x.type = "challenge" /\ z.type = "request"
  /\ s.transcript = Append(Append(c.transcript, Label(x)), Label(z))
  /\ Even(s, c) /\ Idle(s, c) /\ Flight(S, {x, z}) /\ Flight(C, {})
  /\ Dialling(s, c) /\ s.offered /\ s.update_requested

Responded(y, l, s, c, S, C) ==
  /\ Opening(y, l, s, c) /\ c.transcript = Append(s.transcript, l)
  /\ Idle(s, c) /\ Flight(S, {}) /\ Flight(C, {y})

RespondedStarted(y, z, l, s, c, S, C) ==
  /\ Opening(y, l, s, c) /\ InitFits(z, c, Append(s.transcript, l))
  /\ s.pending = {} /\ Flight(S, {}) /\ Flight(C, {y, z})
  /\ Initiates # {}

Phase(s, c, S, C) ==
  \/ Greeting(s, c, S, C)
  \/ Level(s, c, S, C)
  \/ \E x \in Records :
       \/ Asked(x, s, c, S, C) \/ Started(x, s, c, S, C)
       \/ Replied(x, s, c, S, C) \/ Committing(x, s, c, S, C)
       \/ Ahead(x, s, c, S, C) \/ Challenged(x, s, c, S, C)
       \/ \E l \in Labels : Responded(x, l, s, c, S, C)
  \/ \E x, z \in Records :
       \/ AheadAsked(x, z, s, c, S, C) \/ ChallengedAsked(x, z, s, c, S, C)
       \/ \E l \in Labels : RespondedStarted(x, z, l, s, c, S, C)

-----------------------------------------------------------------------------
(* How the records lie in the queues                                       *)

\* No counted record is in flight twice.
Once(q) ==
  \A x, y \in Paths : \A i \in 1 .. Len(q[x]), j \in 1 .. Len(q[y]) :
    ~Plain(q[x][i]) /\ q[x][i] = q[y][j] => x = y /\ i = j

\* What the client reads is of its epoch up to DONE, and of the server's from
\* there on; and as long as the carrier is open, DONE is there.
DoneFirst(s, c, q, l) ==
  /\ \A i \in 1 .. Len(q) : q[i].type = "done" =>
       \A j \in 1 .. Len(q) : i <= j => q[j].epoch = s.epoch
  /\ \A j \in 1 .. Len(q) : q[j].epoch = c.epoch \/
       \E i \in 1 .. Len(q) : i <= j /\ q[i].type = "done"
  /\ s.epoch # c.epoch /\ l = "open" =>
       \E i \in 1 .. Len(q) : q[i].type = "done"

\* The same for CLIENT_CONFIRM and a server that still waits for it.
ConfirmFirst(q, l) ==
  /\ \A j \in 1 .. Len(q) : \E i \in 1 .. Len(q) :
       i <= j /\ q[i].type = "client_confirm"
  /\ l = "open" => \E i \in 1 .. Len(q) : q[i].type = "client_confirm"

Keyed(s, c, S) ==
  \A r \in S :
    /\ r.type # "ping" /\ r.epoch <= s.epoch
    /\ r.epoch = s.epoch => r.key = s.secret
    /\ r.epoch = c.epoch => r.key = c.secret

\* Where the records of a migration may be.
Places(s, c, cs, sc, lk) ==
  /\ c.sock = "first" => /\ lk["second"] = "none" /\ ~c.dialling
                         /\ On(cs, "second") = {} /\ On(sc, "second") = {}
  /\ c.sock = "second" => /\ Initiates # {}
                          /\ \A r \in On(cs, "first") : Plain(r)
                          /\ ~c.dialling => s.offered
  /\ c.dialling => On(cs, "second") = {}
  /\ s.carrier = "first" => \A r \in On(sc, "second") : r.type = "challenge"
  /\ s.carrier = "second" => c.sock = "second" /\ ~c.dialling
  /\ s.offered => lk["second"] # "none"
  /\ s.validating # {} => s.offered /\ s.carrier = "first"
  /\ s.draining # {} => s.carrier = "second"

Readable(r) == r.type # "pong" /\ (r.type = "data" => r.kind = "data")

Lines(s, c, cs, sc, lk) ==
  /\ Once(cs) /\ Once(sc)
  /\ \A r \in InFlight(cs) : Readable(r)
  /\ s.epoch >= 0 => /\ DoneFirst(s, c, sc[c.sock], lk[c.sock])
                     /\ Keyed(s, c, InFlight(sc))
  /\ s.epoch = -1 /\ c.epoch = 0 => /\ ConfirmFirst(cs["first"], lk["first"])
                                    /\ InFlight(sc) = {}

\* Neither end has refused anything, and no epoch is beyond the last one.
Calm(s, c) ==
  /\ s.epoch <= MaxEpoch /\ (s.pending # {} => s.epoch < MaxEpoch)
  /\ s.reason # "invalid record"
  /\ c.reason \notin {"invalid record", "concurrent update"}

Good(s, c, cs, sc, lk) ==
  /\ Calm(s, c)
  /\ Phase(s, c, InFlight(sc), InFlight(cs))
  /\ Places(s, c, cs, sc, lk)
  /\ Lines(s, c, cs, sc, lk)

\* The transcripts differ, first at a request or a challenge of the server.
Forked(a, b) ==
  \E i \in DOMAIN a \cap DOMAIN b :
    /\ \A j \in 1 .. i - 1 : a[j] = b[j]
    /\ a[i] # b[i] /\ a[i][1] \in {"request", "challenge"}

Fine(s, c, cs, sc, lk) ==
  \/ Good(s, c, cs, sc, lk)
  \/ Initiates # {} /\ Forked(s.transcript, c.transcript)

TranscriptInv == Fine(server, client, c2s, s2c, link)

-----------------------------------------------------------------------------
(* Queues                                                                  *)

\* A transcript with two more labels.
Two(t, a, b) == Append(Append(t, a), b)

\* A record comes last, or first in its carrier's queue and is taken.
Added(q, n, p, r) ==
  /\ \A x \in Paths : x # p => n[x] = q[x]
  /\ Len(n[p]) = Len(q[p]) + 1 /\ n[p][Len(q[p]) + 1] = r
  /\ \A i \in 1 .. Len(q[p]) : n[p][i] = q[p][i]

Put(q, n, p, r, lk) ==
  IF lk[p] = "open" THEN Added(q, n, p, r) ELSE n = q

Taken(q, n, p) ==
  /\ \A x \in Paths : x # p => n[x] = q[x]
  /\ Len(q[p]) >= 1 /\ Len(n[p]) = Len(q[p]) - 1
  /\ \A i \in 1 .. Len(q[p]) - 1 : n[p][i] = q[p][i + 1]

\* Sending into an open carrier puts the record last.
LEMMA SentPut ==
  ASSUME NEW q \in Queues, NEW p \in Paths, NEW r \in Records
  PROVE  Sent(q, p, <<r>>) \in Queues /\ Put(q, Sent(q, p, <<r>>), p, r, link)
<1>1. CASE link[p] # "open"
  BY <1>1 DEF Sent, Put
<1>2. CASE link[p] = "open"
  <2> DEFINE t == q[p] \o <<r>>
             n == [q EXCEPT ![p] = t]
  <2>1. Sent(q, p, <<r>>) = n
    BY <1>2 DEF Sent
  <2>2. q[p] \in Seq(Records)
    BY DEF Queues
  <2>3. /\ t \in Seq(Records) /\ Len(t) = Len(q[p]) + 1
        /\ t[Len(q[p]) + 1] = r
        /\ \A i \in 1 .. Len(q[p]) : t[i] = q[p][i]
    BY <2>2
  <2> HIDE DEF t
  <2>4. n \in Queues /\ n[p] = t /\ \A x \in Paths : x # p => n[x] = q[x]
    BY <2>3 DEF Queues
  <2> QED
    BY <1>2, <2>1, <2>3, <2>4 DEF Put, Added
<1> QED
  BY <1>1, <1>2

\* Receiving takes the first record.
LEMMA TailTaken ==
  ASSUME NEW q \in Queues, NEW p \in Paths, q[p] # <<>>
  PROVE  /\ [q EXCEPT ![p] = Tail(@)] \in Queues
         /\ Taken(q, [q EXCEPT ![p] = Tail(@)], p)
         /\ Head(q[p]) = q[p][1] /\ Head(q[p]) \in Records
<1> DEFINE n == [q EXCEPT ![p] = Tail(@)]
<1>1. /\ n \in Queues /\ \A x \in Paths : x # p => n[x] = q[x]
      /\ Head(q[p]) \in Records /\ Head(q[p]) = q[p][1]
      /\ 1 \in 1 .. Len(q[p]) /\ Len(n[p]) = Len(q[p]) - 1
      /\ \A i \in 1 .. Len(q[p]) - 1 : n[p][i] = q[p][i + 1]
  BY TailFacts
<1> HIDE DEF n
<1>2. Len(q[p]) >= 1
  BY <1>1 DEF Queues
<1> QED
  BY <1>1, <1>2 DEF Taken, n

\* The lengths of queues are numbers.
LEMMA QueueLen ==
  ASSUME NEW q \in Queues
  PROVE  \A p \in Paths : /\ Len(q[p]) \in Nat
                          /\ \A i \in 1 .. Len(q[p]) : q[p][i] \in Records
BY DEF Queues

\* What is in flight once a record has been added.
LEMMA AddedFacts ==
  ASSUME NEW q \in Queues, NEW n \in Queues, NEW p \in Paths, NEW r,
         Added(q, n, p, r)
  PROVE  /\ InFlight(n) = InFlight(q) \cup {r}
         /\ On(n, p) = On(q, p) \cup {r}
         /\ \A x \in Paths : x # p => On(n, x) = On(q, x)
         /\ Once(q) /\ (Plain(r) \/ r \notin InFlight(q)) => Once(n)
<1>0. \A x \in Paths : Len(q[x]) \in Nat /\ Len(n[x]) \in Nat
  BY QueueLen
<1>1. On(n, p) = On(q, p) \cup {r}
  BY <1>0 DEF Added, On
<1>2. \A x \in Paths : x # p => On(n, x) = On(q, x)
  BY DEF Added, On
<1>3. \A m : InFlight(m) = UNION {On(m, x) : x \in Paths}
  BY DEF InFlight, On
<1>4. InFlight(n) = InFlight(q) \cup {r}
  BY <1>1, <1>2, <1>3
<1>5. ASSUME Once(q), Plain(r) \/ r \notin InFlight(q) PROVE Once(n)
  <2> SUFFICES ASSUME NEW x \in Paths, NEW y \in Paths,
                      NEW i \in 1 .. Len(n[x]), NEW j \in 1 .. Len(n[y]),
                      ~Plain(n[x][i]), n[x][i] = n[y][j]
               PROVE  x = y /\ i = j
    BY DEF Once
  <2>1. \A z \in Paths, k \in Nat : k \in 1 .. Len(n[z]) =>
          \/ k \in 1 .. Len(q[z]) /\ n[z][k] = q[z][k]
          \/ z = p /\ k = Len(q[p]) + 1 /\ n[z][k] = r
    BY <1>0 DEF Added
  <2>2. \A z \in Paths, k \in Nat : k \in 1 .. Len(q[z]) =>
          q[z][k] \in InFlight(q)
    BY DEF InFlight
  <2>3. i \in Nat /\ j \in Nat
    BY <1>0
  <2>4. \/ i \in 1 .. Len(q[x]) /\ n[x][i] = q[x][i]
        \/ x = p /\ i = Len(q[p]) + 1 /\ n[x][i] = r
    BY <2>1, <2>3
  <2>5. \/ j \in 1 .. Len(q[y]) /\ n[y][j] = q[y][j]
        \/ y = p /\ j = Len(q[p]) + 1 /\ n[y][j] = r
    BY <2>1, <2>3
  <2>6. CASE /\ i \in 1 .. Len(q[x]) /\ n[x][i] = q[x][i]
             /\ j \in 1 .. Len(q[y]) /\ n[y][j] = q[y][j]
    <3>1. ~Plain(q[x][i]) /\ q[x][i] = q[y][j]
      BY <2>6 DEF Plain
    <3>2. \A k \in 1 .. Len(q[x]) : \A l \in 1 .. Len(q[y]) :
            ~Plain(q[x][k]) /\ q[x][k] = q[y][l] => x = y /\ k = l
      BY <1>5 DEF Once
    <3> QED
      BY <2>6, <3>1, <3>2
  <2> QED
    BY <1>5, <2>2, <2>3, <2>4, <2>5, <2>6
<1> QED
  BY <1>1, <1>2, <1>4, <1>5

\* What is in flight once a record has been taken.
LEMMA TakenFacts ==
  ASSUME NEW q \in Queues, NEW n \in Queues, NEW p \in Paths, Taken(q, n, p)
  PROVE  /\ InFlight(n) \subseteq InFlight(q)
         /\ q[p][1] \in InFlight(q) /\ q[p][1] \in On(q, p)
         /\ q[p][1] \in Records
         /\ \A x \in Paths : On(n, x) \subseteq On(q, x)
         /\ Once(q) => /\ Once(n)
                       /\ ~Plain(q[p][1]) => q[p][1] \notin InFlight(n)
<1>0. \A x \in Paths : Len(q[x]) \in Nat /\ Len(n[x]) \in Nat
  BY QueueLen
<1>1. \A z \in Paths, k \in Nat : k \in 1 .. Len(n[z]) =>
        \/ z # p /\ k \in 1 .. Len(q[z]) /\ n[z][k] = q[z][k]
        \/ z = p /\ k + 1 \in 1 .. Len(q[z]) /\ n[z][k] = q[z][k + 1]
  BY <1>0 DEF Taken
<1>2. \A x \in Paths : On(n, x) \subseteq On(q, x)
  BY <1>0, <1>1 DEF On
<1>3. \A m : InFlight(m) = UNION {On(m, x) : x \in Paths}
  BY DEF InFlight, On
<1>4. 1 \in 1 .. Len(q[p])
  BY <1>0 DEF Taken
<1>5. q[p][1] \in On(q, p) /\ q[p][1] \in Records
  BY <1>4, QueueLen DEF On
<1>6. ASSUME Once(q) PROVE Once(n)
  <2> SUFFICES ASSUME NEW x \in Paths, NEW y \in Paths,
                      NEW i \in 1 .. Len(n[x]), NEW j \in 1 .. Len(n[y]),
                      ~Plain(n[x][i]), n[x][i] = n[y][j]
               PROVE  x = y /\ i = j
    BY DEF Once
  <2>1. i \in Nat /\ j \in Nat
    BY <1>0
  <2>2. PICK k \in Nat : k \in 1 .. Len(q[x]) /\ n[x][i] = q[x][k]
                         /\ k = (IF x = p THEN i + 1 ELSE i)
    BY <1>1, <2>1
  <2>3. PICK l \in Nat : l \in 1 .. Len(q[y]) /\ n[y][j] = q[y][l]
                         /\ l = (IF y = p THEN j + 1 ELSE j)
    BY <1>1, <2>1
  <2>4. x = y /\ k = l
    <3>1. ~Plain(q[x][k]) /\ q[x][k] = q[y][l]
      BY <2>2, <2>3 DEF Plain
    <3>2. \A a \in 1 .. Len(q[x]) : \A b \in 1 .. Len(q[y]) :
            ~Plain(q[x][a]) /\ q[x][a] = q[y][b] => x = y /\ a = b
      BY <1>6 DEF Once
    <3> QED
      BY <2>2, <2>3, <3>1, <3>2
  <2> QED
    BY <2>1, <2>2, <2>3, <2>4
<1>7. ASSUME Once(q), ~Plain(q[p][1]), q[p][1] \in InFlight(n) PROVE FALSE
  <2>1. PICK x \in Paths : q[p][1] \in On(n, x)
    BY <1>3, <1>7
  <2>2. PICK i \in 1 .. Len(n[x]) : n[x][i] = q[p][1]
    BY <2>1 DEF On
  <2>3. PICK k \in Nat : k \in 1 .. Len(q[x]) /\ n[x][i] = q[x][k]
                         /\ k = (IF x = p THEN i + 1 ELSE i)
    BY <1>0, <1>1, <2>2
  <2>4. x = p /\ k = 1
    BY <1>4, <1>7, <2>2, <2>3 DEF Once
  <2> QED
    BY <1>0, <2>2, <2>3, <2>4
<1> QED
  BY <1>2, <1>3, <1>5, <1>6, <1>7

-----------------------------------------------------------------------------
(* Steps that leave the transcripts alone                                  *)

\* The server has changed nothing that the invariant speaks of.
Like(s, t) ==
  /\ t.transcript = s.transcript /\ t.epoch = s.epoch /\ t.secret = s.secret
  /\ t.pending = s.pending /\ t.carrier = s.carrier
  /\ s.update_requested => t.update_requested
  /\ t.offered <=> s.offered

\* The client has not either; its update may have aged.
LikeC(c, d) ==
  /\ d.transcript = c.transcript /\ d.epoch = c.epoch /\ d.secret = c.secret
  /\ d.sock = c.sock
  /\ d.dialling <=> c.dialling
  /\ \A p \in d.pending : \E q \in c.pending :
       p.phase = q.phase /\ p.mode = q.mode /\ p.secret = q.secret
  /\ \A q \in c.pending : \E p \in d.pending :
       p.phase = q.phase /\ p.mode = q.mode /\ p.secret = q.secret

\* Records leave, or plain ones join.
Quieter(Q, N, up) == \A r \in N : r \in Q \/ (Plain(r) /\ up)

\* Plain records do not count.
LEMMA FlightKept ==
  ASSUME NEW Q, NEW N, NEW X, NEW up, Flight(Q, X), Quieter(Q, N, up)
  PROVE  Flight(N, X)
BY DEF Flight, Quieter

\* The relations between the two ends stay.
LEMMA RelationsKept ==
  ASSUME NEW s, NEW t, NEW c, NEW d, Like(s, t), LikeC(c, d)
  PROVE  /\ Even(s, c) => Even(t, d)
         /\ Idle(s, c) => Idle(t, d)
         /\ Together(s, c) => Together(t, d)
         /\ Dialling(s, c) => Dialling(t, d)
         /\ Moving(s, c) => Moving(t, d)
         /\ \A m : Waiting(c, m) => Waiting(d, m)
         /\ \A k : Committed(c, k) => Committed(d, k)
         /\ \A f, k : Prepared(s, f, k) => Prepared(t, f, k)
         /\ \A r, u : InitFits(r, c, u) => InitFits(r, d, u)
         /\ \A r : DoneFits(r, s, c) => DoneFits(r, t, d)
         /\ \A r, l : Opening(r, l, s, c) => Opening(r, l, t, d)
<1>1. Even(s, c) => Even(t, d)
  BY DEF Even, Like, LikeC
<1>2. Idle(s, c) => Idle(t, d)
  BY DEF Idle, Like, LikeC
<1>3. Together(s, c) => Together(t, d)
  BY DEF Together, Like, LikeC
<1>4. Dialling(s, c) => Dialling(t, d)
  BY DEF Dialling, Like, LikeC
<1>5. Moving(s, c) => Moving(t, d)
  BY DEF Moving, Like, LikeC
<1>6. \A m : Waiting(c, m) => Waiting(d, m)
  BY DEF Waiting, LikeC
<1>7. \A k : Committed(c, k) => Committed(d, k)
  BY DEF Committed, LikeC
<1>8. \A f, k : Prepared(s, f, k) => Prepared(t, f, k)
  BY DEF Prepared, Like
<1>9. \A r, u : InitFits(r, c, u) => InitFits(r, d, u)
  BY <1>6 DEF InitFits, LikeC
<1>10. \A r : DoneFits(r, s, c) => DoneFits(r, t, d)
  BY <1>7 DEF DoneFits, Like, LikeC
<1>11. \A r, l : Opening(r, l, s, c) => Opening(r, l, t, d)
  BY <1>1, <1>3, <1>5 DEF Opening, Like, LikeC
<1> QED
  BY <1>1, <1>2, <1>3, <1>4, <1>5, <1>6, <1>7, <1>8, <1>9, <1>10, <1>11

\* A phase goes on when records leave or plain ones join.
LEMMA PhaseKept ==
  ASSUME NEW s, NEW t, NEW c, NEW d, NEW S, NEW C, NEW S1, NEW C1,
         Like(s, t), LikeC(c, d), Phase(s, c, S, C),
         Quieter(S, S1, s.epoch >= 0), Quieter(C, C1, c.epoch >= 0)
  PROVE  Phase(t, d, S1, C1)
<1>0. /\ Even(s, c) => Even(t, d)
      /\ Idle(s, c) => Idle(t, d)
      /\ Together(s, c) => Together(t, d)
      /\ Dialling(s, c) => Dialling(t, d)
      /\ \A m : Waiting(c, m) => Waiting(d, m)
      /\ \A k : Committed(c, k) => Committed(d, k)
      /\ \A f, k : Prepared(s, f, k) => Prepared(t, f, k)
      /\ \A r, u : InitFits(r, c, u) => InitFits(r, d, u)
      /\ \A r : DoneFits(r, s, c) => DoneFits(r, t, d)
      /\ \A r, l : Opening(r, l, s, c) => Opening(r, l, t, d)
  BY RelationsKept
<1>00. /\ t.transcript = s.transcript /\ d.transcript = c.transcript
       /\ t.epoch = s.epoch /\ d.epoch = c.epoch /\ d.sock = c.sock
       /\ t.pending = s.pending /\ (s.update_requested => t.update_requested)
       /\ (t.offered <=> s.offered)
  BY DEF Like, LikeC
<1>F. \A X : /\ Flight(S, X) => Flight(S1, X)
             /\ Flight(C, X) => Flight(C1, X)
  BY FlightKept
<1>1. CASE Greeting(s, c, S, C)
  <2>1. S1 \subseteq S /\ C1 \subseteq C
    BY <1>1 DEF Greeting, Quieter
  <2>2. Greeting(t, d, S1, C1)
    BY <1>0, <1>00, <1>1, <2>1 DEF Greeting
  <2> QED
    BY <2>2 DEF Phase
<1>2. CASE Level(s, c, S, C)
  <2>1. Level(t, d, S1, C1)
    BY <1>0, <1>00, <1>F, <1>2 DEF Level
  <2> QED
    BY <2>1 DEF Phase
<1>3. ASSUME NEW x \in Records, Asked(x, s, c, S, C) PROVE Phase(t, d, S1, C1)
  <2>1. Asked(x, t, d, S1, C1)
    BY <1>0, <1>00, <1>F, <1>3 DEF Asked
  <2> QED
    BY <2>1 DEF Phase
<1>4. ASSUME NEW x \in Records, Started(x, s, c, S, C) PROVE Phase(t, d, S1, C1)
  <2>1. Started(x, t, d, S1, C1)
    BY <1>0, <1>00, <1>F, <1>4 DEF Started
  <2> QED
    BY <2>1 DEF Phase
<1>5. ASSUME NEW x \in Records, Replied(x, s, c, S, C) PROVE Phase(t, d, S1, C1)
  <2>1. Replied(x, t, d, S1, C1)
    BY <1>0, <1>00, <1>F, <1>5 DEF Replied
  <2> QED
    BY <2>1 DEF Phase
<1>6. ASSUME NEW x \in Records, Committing(x, s, c, S, C)
      PROVE  Phase(t, d, S1, C1)
  <2>1. Committing(x, t, d, S1, C1)
    BY <1>0, <1>00, <1>F, <1>6 DEF Committing
  <2> QED
    BY <2>1 DEF Phase
<1>7. ASSUME NEW x \in Records, Ahead(x, s, c, S, C) PROVE Phase(t, d, S1, C1)
  <2>1. Ahead(x, t, d, S1, C1)
    BY <1>0, <1>00, <1>F, <1>7 DEF Ahead
  <2> QED
    BY <2>1 DEF Phase
<1>8. ASSUME NEW x \in Records, Challenged(x, s, c, S, C)
      PROVE  Phase(t, d, S1, C1)
  <2>1. Challenged(x, t, d, S1, C1)
    BY <1>0, <1>00, <1>F, <1>8 DEF Challenged
  <2> QED
    BY <2>1 DEF Phase
<1>9. ASSUME NEW x \in Records, NEW z \in Records,
             AheadAsked(x, z, s, c, S, C)
      PROVE  Phase(t, d, S1, C1)
  <2>1. AheadAsked(x, z, t, d, S1, C1)
    BY <1>0, <1>00, <1>F, <1>9 DEF AheadAsked
  <2> QED
    BY <2>1 DEF Phase
<1>10. ASSUME NEW x \in Records, NEW z \in Records,
             ChallengedAsked(x, z, s, c, S, C)
      PROVE  Phase(t, d, S1, C1)
  <2>1. ChallengedAsked(x, z, t, d, S1, C1)
    BY <1>0, <1>00, <1>F, <1>10 DEF ChallengedAsked
  <2> QED
    BY <2>1 DEF Phase
<1>11. ASSUME NEW x \in Records, NEW l \in Labels, Responded(x, l, s, c, S, C)
      PROVE  Phase(t, d, S1, C1)
  <2>1. Responded(x, l, t, d, S1, C1)
    BY <1>0, <1>00, <1>F, <1>11 DEF Responded
  <2> QED
    BY <2>1 DEF Phase
<1>12. ASSUME NEW x \in Records, NEW z \in Records, NEW l \in Labels,
             RespondedStarted(x, z, l, s, c, S, C)
      PROVE  Phase(t, d, S1, C1)
  <2>1. RespondedStarted(x, z, l, t, d, S1, C1)
    BY <1>0, <1>00, <1>F, <1>12 DEF RespondedStarted
  <2> QED
    BY <2>1 DEF Phase
<1> QED
  BY <1>1, <1>2, <1>3, <1>4, <1>5, <1>6, <1>7, <1>8, <1>9, <1>10, <1>11,
     <1>12 DEF Phase

\* Records of the server's epoch come after DONE.
LEMMA DoneAdded ==
  ASSUME NEW s, NEW c, NEW q, NEW n, NEW r, NEW l,
         Len(q) \in Nat, Len(n) = Len(q) + 1, n[Len(q) + 1] = r,
         \A i \in 1 .. Len(q) : n[i] = q[i],
         DoneFirst(s, c, q, "open"), r.epoch = s.epoch
  PROVE  DoneFirst(s, c, n, l)
<1>1. \A i \in 1 .. Len(n) : i \in 1 .. Len(q) \/ i = Len(q) + 1
  OBVIOUS
<1>2. \A i \in 1 .. Len(n) : n[i].type = "done" =>
        \A j \in 1 .. Len(n) : i <= j => n[j].epoch = s.epoch
  <2> SUFFICES ASSUME NEW i \in 1 .. Len(n), n[i].type = "done",
                      NEW j \in 1 .. Len(n), i <= j
               PROVE  n[j].epoch = s.epoch
    OBVIOUS
  <2>1. CASE j = Len(q) + 1
    BY <2>1
  <2>2. CASE j \in 1 .. Len(q)
    <3>1. i \in 1 .. Len(q) /\ q[i].type = "done" /\ n[j] = q[j]
      BY <2>2
    <3> QED
      BY <2>2, <3>1 DEF DoneFirst
  <2> QED
    BY <1>1, <2>1, <2>2
<1>3. ASSUME NEW j \in 1 .. Len(n), n[j].epoch # c.epoch
      PROVE  \E i \in 1 .. Len(n) : i <= j /\ n[i].type = "done"
  <2>1. CASE j \in 1 .. Len(q)
    <3>1. PICK i \in 1 .. Len(q) : i <= j /\ q[i].type = "done"
      BY <1>3, <2>1 DEF DoneFirst
    <3> QED
      BY <3>1
  <2>2. CASE j = Len(q) + 1
    <3>1. PICK i \in 1 .. Len(q) : q[i].type = "done"
      BY <1>3, <2>2 DEF DoneFirst
    <3> QED
      BY <2>2, <3>1
  <2> QED
    BY <1>1, <2>1, <2>2
<1>4. ASSUME s.epoch # c.epoch
      PROVE  \E i \in 1 .. Len(n) : n[i].type = "done"
  <2>1. PICK i \in 1 .. Len(q) : q[i].type = "done"
    BY <1>4 DEF DoneFirst
  <2> QED
    BY <2>1
<1> QED
  BY <1>2, <1>3, <1>4 DEF DoneFirst

\* Taking anything but DONE leaves it ahead of its epoch.
LEMMA DoneTaken ==
  ASSUME NEW s, NEW c, NEW q, NEW n, NEW l,
         Len(q) \in Nat, Len(q) >= 1, Len(n) = Len(q) - 1,
         \A i \in 1 .. Len(q) - 1 : n[i] = q[i + 1],
         DoneFirst(s, c, q, l), q[1].type # "done"
  PROVE  DoneFirst(s, c, n, l)
<1>1. \A i \in 1 .. Len(n) : i + 1 \in 1 .. Len(q) /\ n[i] = q[i + 1]
  OBVIOUS
<1>2. \A i \in 1 .. Len(q) : i = 1 \/ (i - 1 \in 1 .. Len(n) /\ n[i - 1] = q[i])
  OBVIOUS
<1>3. \A i \in 1 .. Len(n) : n[i].type = "done" =>
        \A j \in 1 .. Len(n) : i <= j => n[j].epoch = s.epoch
  BY <1>1 DEF DoneFirst
<1>4. ASSUME NEW j \in 1 .. Len(n), n[j].epoch # c.epoch
      PROVE  \E i \in 1 .. Len(n) : i <= j /\ n[i].type = "done"
  <2>1. PICK i \in 1 .. Len(q) : i <= j + 1 /\ q[i].type = "done"
    BY <1>1, <1>4 DEF DoneFirst
  <2>2. i - 1 \in 1 .. Len(n) /\ n[i - 1].type = "done" /\ i - 1 <= j
    BY <1>2, <2>1
  <2> QED
    BY <2>2
<1>5. ASSUME s.epoch # c.epoch, l = "open"
      PROVE  \E i \in 1 .. Len(n) : n[i].type = "done"
  <2>1. PICK i \in 1 .. Len(q) : q[i].type = "done"
    BY <1>5 DEF DoneFirst
  <2>2. i - 1 \in 1 .. Len(n) /\ n[i - 1].type = "done"
    BY <1>2, <2>1
  <2> QED
    BY <2>2
<1> QED
  BY <1>3, <1>4, <1>5 DEF DoneFirst

\* Whatever the client sends comes after CLIENT_CONFIRM.
LEMMA ConfirmAdded ==
  ASSUME NEW q, NEW n, NEW r, NEW l,
         Len(q) \in Nat, Len(n) = Len(q) + 1, n[Len(q) + 1] = r,
         \A i \in 1 .. Len(q) : n[i] = q[i], ConfirmFirst(q, "open")
  PROVE  ConfirmFirst(n, l)
<1>1. PICK i \in 1 .. Len(q) : q[i].type = "client_confirm"
  BY DEF ConfirmFirst
<1>2. ASSUME NEW j \in 1 .. Len(n)
      PROVE  \E k \in 1 .. Len(n) : k <= j /\ n[k].type = "client_confirm"
  <2>1. CASE j \in 1 .. Len(q)
    <3>1. PICK k \in 1 .. Len(q) : k <= j /\ q[k].type = "client_confirm"
      BY <2>1 DEF ConfirmFirst
    <3> QED
      BY <3>1
  <2>2. CASE j = Len(q) + 1
    BY <1>1, <2>2
  <2> QED
    BY <2>1, <2>2
<1>3. i \in 1 .. Len(n) /\ n[i].type = "client_confirm"
  BY <1>1
<1> QED
  BY <1>2, <1>3 DEF ConfirmFirst

\* The server's validation and draining only end.
Still(s, t) ==
  /\ t.validating # {} => s.validating # {}
  /\ t.draining # {} => s.draining # {}

\* Ends that change nothing of what matters.
LEMMA GoodLike ==
  ASSUME NEW s, NEW t, NEW c, NEW d, NEW cs, NEW sc, NEW lk,
         Good(s, c, cs, sc, lk), Like(s, t), LikeC(c, d), Still(s, t),
         Calm(t, d)
  PROVE  Good(t, d, cs, sc, lk)
<1>1. Phase(t, d, InFlight(sc), InFlight(cs))
  <2>1. \A Q, up : Quieter(Q, Q, up)
    BY DEF Quieter
  <2> QED
    BY <2>1, PhaseKept DEF Good
<1>2. Places(t, d, cs, sc, lk)
  BY DEF Good, Places, Like, LikeC, Still
<1>3. Lines(t, d, cs, sc, lk)
  BY DEF Good, Lines, DoneFirst, Keyed, Like, LikeC
<1> QED
  BY <1>1, <1>2, <1>3 DEF Good

\* An end is like itself.
LEMMA LikeItself ==
  ASSUME NEW s, NEW c
  PROVE  Like(s, s) /\ LikeC(c, c) /\ Still(s, s)
BY DEF Like, LikeC, Still

\* The server takes a record of an established session.
LEMMA GoodTaken ==
  ASSUME NEW s, NEW c, NEW cs \in Queues, NEW sc, NEW lk,
         NEW n \in Queues, NEW p \in Paths,
         Good(s, c, cs, sc, lk), s.epoch >= 0, Taken(cs, n, p)
  PROVE  Good(s, c, n, sc, lk)
<1>1. /\ InFlight(n) \subseteq InFlight(cs)
      /\ \A x \in Paths : On(n, x) \subseteq On(cs, x)
      /\ Once(cs) => Once(n)
  BY TakenFacts
<1>2. Phase(s, c, InFlight(sc), InFlight(n))
  <2>1. /\ Quieter(InFlight(sc), InFlight(sc), s.epoch >= 0)
        /\ Quieter(InFlight(cs), InFlight(n), c.epoch >= 0)
    BY <1>1 DEF Quieter
  <2> QED
    BY <2>1, LikeItself, PhaseKept DEF Good
<1>3. Places(s, c, n, sc, lk)
  BY <1>1 DEF Good, Places, Paths
<1>4. Lines(s, c, n, sc, lk)
  BY <1>1 DEF Good, Lines
<1> QED
  BY <1>2, <1>3, <1>4 DEF Good

\* The client takes a record other than DONE.
LEMMA GoodRead ==
  ASSUME NEW s, NEW c, NEW cs, NEW sc \in Queues, NEW lk,
         NEW n \in Queues, c.sock \in Paths,
         Good(s, c, cs, sc, lk), Taken(sc, n, c.sock),
         sc[c.sock][1].type # "done"
  PROVE  Good(s, c, cs, n, lk)
<1>1. /\ InFlight(n) \subseteq InFlight(sc)
      /\ \A x \in Paths : On(n, x) \subseteq On(sc, x)
      /\ Once(sc) => Once(n)
  BY TakenFacts
<1>2. Phase(s, c, InFlight(n), InFlight(cs))
  <2>1. /\ Quieter(InFlight(sc), InFlight(n), s.epoch >= 0)
        /\ Quieter(InFlight(cs), InFlight(cs), c.epoch >= 0)
    BY <1>1 DEF Quieter
  <2> QED
    BY <2>1, LikeItself, PhaseKept DEF Good
<1>3. Places(s, c, cs, n, lk)
  BY <1>1 DEF Good, Places, Paths
<1>4. DoneFirst(s, c, sc[c.sock], lk[c.sock]) =>
        DoneFirst(s, c, n[c.sock], lk[c.sock])
  BY QueueLen, DoneTaken DEF Taken
<1>5. Lines(s, c, cs, n, lk)
  BY <1>1, <1>4 DEF Good, Lines, Keyed
<1> QED
  BY <1>2, <1>3, <1>5 DEF Good

\* An established server is with the client or one epoch ahead.
LEMMA PhaseEpochs ==
  ASSUME NEW s, NEW c, NEW S, NEW C, Phase(s, c, S, C), s.epoch >= 0
  PROVE  Even(s, c) \/ (c.epoch >= 0 /\ s.epoch = c.epoch + 1)
<1>1. s.epoch # -1
  OBVIOUS
<1> QED
  BY <1>1 DEF Phase, Greeting, Level, Asked, Started, Replied, Committing,
              Ahead, AheadAsked, Challenged, ChallengedAsked, Responded,
              RespondedStarted, Opening, DoneFits

\* What the server sends under its current key goes where it belongs.
LEMMA LinesSaid ==
  ASSUME NEW s, NEW c, NEW cs, NEW sc \in Queues, NEW lk,
         NEW n \in Queues, NEW p \in Paths, NEW r, c.sock \in Paths,
         s.epoch \in Int, c.epoch \in Int, s.epoch >= 0,
         Phase(s, c, InFlight(sc), InFlight(cs)), Lines(s, c, cs, sc, lk),
         r.type # "ping", r.epoch = s.epoch, r.key = s.secret,
         Plain(r) \/ r \notin InFlight(sc), Added(sc, n, p, r),
         lk[p] = "open"
  PROVE  Lines(s, c, cs, n, lk)
<1>1. /\ InFlight(n) = InFlight(sc) \cup {r}
      /\ Once(sc) => Once(n)
  BY AddedFacts
<1>2. DoneFirst(s, c, n[c.sock], lk[c.sock])
  <2>1. DoneFirst(s, c, sc[c.sock], lk[c.sock])
    BY DEF Lines
  <2>2. CASE c.sock = p
    <3>1. DoneFirst(s, c, sc[p], "open")
      BY <2>1, <2>2
    <3>2. /\ Len(sc[p]) \in Nat /\ Len(n[p]) = Len(sc[p]) + 1
          /\ n[p][Len(sc[p]) + 1] = r
          /\ \A i \in 1 .. Len(sc[p]) : n[p][i] = sc[p][i]
      BY QueueLen DEF Added
    <3>3. DoneFirst(s, c, n[p], "open")
      BY <3>1, <3>2, DoneAdded
    <3> QED
      BY <2>2, <3>3
  <2>3. CASE c.sock # p
    BY <2>1, <2>3 DEF Added
  <2> QED
    BY <2>2, <2>3
<1>3. r.epoch = c.epoch => r.key = c.secret
  <2>1. Even(s, c) \/ (c.epoch >= 0 /\ s.epoch = c.epoch + 1)
    BY PhaseEpochs
  <2>2. CASE Even(s, c)
    BY <2>2 DEF Even
  <2>3. CASE s.epoch = c.epoch + 1
    <3>1. s.epoch # c.epoch
      BY <2>3
    <3> QED
      BY <3>1
  <2> QED
    BY <2>1, <2>2, <2>3
<1>4. Keyed(s, c, InFlight(n))
  BY <1>1, <1>3 DEF Lines, Keyed
<1> QED
  BY <1>1, <1>2, <1>4 DEF Lines

\* It goes to the carrier the session is on, or is a challenge.
LEMMA PlacesSaid ==
  ASSUME NEW s, NEW c, NEW cs, NEW sc \in Queues, NEW lk,
         NEW n \in Queues, NEW p \in Paths, NEW r, s.carrier \in Paths,
         Places(s, c, cs, sc, lk), Added(sc, n, p, r),
         \/ p = "first" \/ s.carrier = "second"
         \/ r.type = "challenge" /\ c.sock # "first"
  PROVE  Places(s, c, cs, n, lk)
<1>1. /\ On(n, p) = On(sc, p) \cup {r}
      /\ \A x \in Paths : x # p => On(n, x) = On(sc, x)
  BY AddedFacts
<1>2. "second" \in Paths
  BY DEF Paths
<1>3. CASE p = "first"
  <2>1. On(n, "second") = On(sc, "second")
    BY <1>1, <1>2, <1>3
  <2> QED
    BY <2>1 DEF Places
<1>4. CASE s.carrier = "second"
  BY <1>4 DEF Places
<1>5. CASE r.type = "challenge" /\ c.sock # "first"
  <2>1. \A x \in On(n, "second") : x \in On(sc, "second") \/ x = r
    BY <1>1, <1>2
  <2> QED
    BY <1>5, <2>1 DEF Places
<1> QED
  BY <1>3, <1>4, <1>5

\* The server sends a record no transcript counts.
LEMMA GoodSaid ==
  ASSUME NEW s, NEW c, NEW cs, NEW sc \in Queues, NEW lk,
         NEW n \in Queues, NEW p \in Paths, NEW r, c.sock \in Paths,
         Good(s, c, cs, sc, lk), s.epoch >= 0,
         s.epoch \in Int, c.epoch \in Int, s.carrier \in Paths,
         s.carrier = "first" => p = "first",
         r.type \in {"data", "pong"}, r.epoch = s.epoch, r.key = s.secret,
         Put(sc, n, p, r, lk)
  PROVE  Good(s, c, cs, n, lk)
<1>1. CASE lk[p] # "open"
  BY <1>1 DEF Put
<1>2. CASE lk[p] = "open"
  <2>0. Added(sc, n, p, r) /\ Plain(r) /\ r.type # "ping"
    BY <1>2 DEF Put, Plain
  <2>1. InFlight(n) = InFlight(sc) \cup {r}
    BY <2>0, AddedFacts
  <2>2. Phase(s, c, InFlight(n), InFlight(cs))
    <3>1. /\ Quieter(InFlight(sc), InFlight(n), s.epoch >= 0)
          /\ Quieter(InFlight(cs), InFlight(cs), c.epoch >= 0)
      BY <2>0, <2>1 DEF Quieter
    <3> QED
      BY <3>1, LikeItself, PhaseKept DEF Good
  <2>3. Places(s, c, cs, n, lk)
    <3>1. p = "first" \/ s.carrier = "second"
      BY DEF Paths
    <3> QED
      BY <2>0, <3>1, PlacesSaid DEF Good
  <2>4. Lines(s, c, cs, n, lk)
    BY <1>2, <2>0, LinesSaid DEF Good
  <2> QED
    BY <2>2, <2>3, <2>4 DEF Good
<1> QED
  BY <1>1, <1>2

\* The client sends a record no transcript counts.
LEMMA GoodSent ==
  ASSUME NEW s, NEW c, NEW cs \in Queues, NEW sc, NEW lk,
         NEW n \in Queues, NEW r, c.sock \in Paths,
         Good(s, c, cs, sc, lk), c.epoch >= 0, ~c.dialling,
         r.type \in {"data", "ping"}, Readable(r), Put(cs, n, c.sock, r, lk)
  PROVE  Good(s, c, n, sc, lk)
<1> DEFINE p == c.sock
<1>1. CASE lk[p] # "open"
  BY <1>1 DEF Put
<1>2. CASE lk[p] = "open"
  <2>0. Added(cs, n, p, r) /\ Plain(r)
    BY <1>2 DEF Put, Plain
  <2>1. /\ InFlight(n) = InFlight(cs) \cup {r}
        /\ On(n, p) = On(cs, p) \cup {r}
        /\ \A x \in Paths : x # p => On(n, x) = On(cs, x)
        /\ Once(cs) => Once(n)
    BY <2>0, AddedFacts
  <2>2. Phase(s, c, InFlight(sc), InFlight(n))
    <3>1. /\ Quieter(InFlight(sc), InFlight(sc), s.epoch >= 0)
          /\ Quieter(InFlight(cs), InFlight(n), c.epoch >= 0)
      BY <2>0, <2>1 DEF Quieter
    <3> QED
      BY <3>1, LikeItself, PhaseKept DEF Good
  <2>3. Places(s, c, n, sc, lk)
    BY <2>1 DEF Good, Places, Paths
  <2>4. ConfirmFirst(cs["first"], lk["first"]) =>
          ConfirmFirst(n["first"], lk["first"])
    <3>1. "first" \in Paths
      BY DEF Paths
    <3>2. CASE p = "first"
      BY <1>2, <2>0, <3>1, <3>2, QueueLen, ConfirmAdded DEF Added
    <3>3. CASE p # "first"
      BY <2>0, <3>1, <3>3 DEF Added
    <3> QED
      BY <3>2, <3>3
  <2>5. Lines(s, c, n, sc, lk)
    BY <2>1, <2>4 DEF Good, Lines
  <2> QED
    BY <2>2, <2>3, <2>5 DEF Good
<1> QED
  BY <1>1, <1>2

\* Carriers close, stall or fail, and lose what is on them.
LEMMA GoodShut ==
  ASSUME NEW s, NEW c, NEW cs, NEW sc, NEW lk, NEW lk1,
         Good(s, c, cs, sc, lk), c.sock \in Paths,
         \A p \in Paths : /\ lk1[p] = "open" => lk[p] = "open"
                          /\ lk1[p] = "none" <=> lk[p] = "none"
  PROVE  Good(s, c, cs, sc, lk1)
<1>1. Places(s, c, cs, sc, lk1)
  BY DEF Good, Places, Paths
<1>2. Lines(s, c, cs, sc, lk1)
  <2>1. lk1["first"] = "open" => lk["first"] = "open"
    BY DEF Paths
  <2> QED
    BY <2>1 DEF Good, Lines, DoneFirst, ConfirmFirst
<1> QED
  BY <1>1, <1>2 DEF Good

-----------------------------------------------------------------------------
(* Transcripts                                                             *)

Longer(a, b) == Len(a) <= Len(b) /\ \A i \in 1 .. Len(a) : b[i] = a[i]

\* A transcript grows at its end.
LEMMA LongerFacts ==
  ASSUME NEW t \in Transcripts
  PROVE  /\ Longer(t, t)
         /\ \A l \in Labels : Append(t, l) \in Transcripts
                              /\ Longer(t, Append(t, l))
         /\ \A u, v \in Transcripts :
              Longer(t, u) /\ Longer(u, v) => Longer(t, v)
<1>1. Longer(t, t)
  BY DEF Longer, Transcripts
<1>2. ASSUME NEW l \in Labels
      PROVE  Append(t, l) \in Transcripts /\ Longer(t, Append(t, l))
  BY DEF Longer, Transcripts
<1>3. ASSUME NEW u \in Transcripts, NEW v \in Transcripts,
             Longer(t, u), Longer(u, v)
      PROVE  Longer(t, v)
  BY <1>3 DEF Longer, Transcripts
<1> QED
  BY <1>1, <1>2, <1>3

\* Transcripts that have forked stay so.
LEMMA ForkStays ==
  ASSUME NEW a \in Transcripts, NEW b \in Transcripts,
         NEW a1 \in Transcripts, NEW b1 \in Transcripts,
         Forked(a, b), Longer(a, a1), Longer(b, b1)
  PROVE  Forked(a1, b1)
<1>1. /\ DOMAIN a = 1 .. Len(a) /\ DOMAIN b = 1 .. Len(b)
      /\ DOMAIN a1 = 1 .. Len(a1) /\ DOMAIN b1 = 1 .. Len(b1)
      /\ Len(a) \in Nat /\ Len(b) \in Nat
      /\ Len(a1) \in Nat /\ Len(b1) \in Nat
  BY DEF Transcripts
<1>2. PICK i \in DOMAIN a \cap DOMAIN b :
        /\ \A j \in 1 .. i - 1 : a[j] = b[j]
        /\ a[i] # b[i] /\ a[i][1] \in {"request", "challenge"}
  BY DEF Forked
<1>3. i \in DOMAIN a1 \cap DOMAIN b1
  BY <1>1 DEF Longer
<1>4. /\ \A j \in 1 .. i - 1 : a1[j] = b1[j]
      /\ a1[i] # b1[i] /\ a1[i][1] \in {"request", "challenge"}
  BY <1>1, <1>2 DEF Longer
<1> QED
  BY <1>3, <1>4 DEF Forked

\* They fork where the client counts something else than the server's record.
LEMMA ForkAt ==
  ASSUME NEW t \in Transcripts, NEW x \in Records, NEW l \in Labels,
         NEW a \in Transcripts, NEW b \in Transcripts,
         x.type \in {"request", "challenge"}, l # Label(x),
         Longer(Append(t, Label(x)), a), Longer(Append(t, l), b)
  PROVE  Forked(a, b)
<1> DEFINE k == Label(x)
<1>1. k \in Labels /\ k[1] \in {"request", "challenge"}
  BY DEF Records, Label, Labels
<1> HIDE DEF k
<1> DEFINE u == Append(t, k)
           v == Append(t, l)
<1>2. /\ u \in Transcripts /\ v \in Transcripts
      /\ Len(u) = Len(t) + 1 /\ Len(v) = Len(t) + 1 /\ Len(t) \in Nat
      /\ u[Len(t) + 1] = k /\ v[Len(t) + 1] = l
      /\ \A j \in 1 .. Len(t) : u[j] = v[j]
      /\ DOMAIN u = 1 .. Len(u) /\ DOMAIN v = 1 .. Len(v)
  BY <1>1 DEF Transcripts
<1>3. l # k /\ Longer(u, a) /\ Longer(v, b)
  BY DEF k
<1> HIDE DEF u, v
<1>4. Len(t) + 1 \in DOMAIN u \cap DOMAIN v
  BY <1>2
<1>5. Forked(u, v)
  BY <1>1, <1>2, <1>3, <1>4 DEF Forked
<1> QED
  BY <1>2, <1>3, <1>5, ForkStays

\* Records of different types have different labels.
LEMMA LabelsDiffer ==
  ASSUME NEW x \in Records, NEW y \in Records, x.type # y.type
  PROVE  Label(x) # Label(y)
BY DEF Label, Records

-----------------------------------------------------------------------------
(* From stage to stage: the server                                         *)

\* A counted record that the server reads starts an update or confirms one.
LEMMA ServerReads ==
  ASSUME NEW s, NEW c, NEW S, NEW C, NEW r \in C, Phase(s, c, S, C),
         s.epoch >= 0, c.sock = s.carrier, ~Plain(r)
  PROVE  Started(r, s, c, S, C) \/ Committing(r, s, c, S, C)
<1>1. ~Flight(C, {})
  BY DEF Flight
<1>2. s.epoch # -1
  OBVIOUS
<1>3. \A y, l : ~Opening(y, l, s, c)
  BY <1>2 DEF Opening, Moving
<1>4. ASSUME NEW y, Flight(C, {y}) PROVE r = y
  BY <1>4 DEF Flight
<1>5. ~Greeting(s, c, S, C) /\ ~Level(s, c, S, C)
  BY <1>1, <1>2 DEF Greeting, Level
<1>6. ASSUME NEW x PROVE /\ ~Asked(x, s, c, S, C) /\ ~Replied(x, s, c, S, C)
                         /\ ~Ahead(x, s, c, S, C)
                         /\ ~Challenged(x, s, c, S, C)
                         /\ \A z : /\ ~AheadAsked(x, z, s, c, S, C)
                                   /\ ~ChallengedAsked(x, z, s, c, S, C)
  BY <1>1 DEF Asked, Replied, Ahead, Challenged, AheadAsked, ChallengedAsked
<1>7. ASSUME NEW x, NEW l PROVE /\ ~Responded(x, l, s, c, S, C)
                                /\ \A z : ~RespondedStarted(x, z, l, s, c, S, C)
  BY <1>3 DEF Responded, RespondedStarted
<1>8. PICK x : Started(x, s, c, S, C) \/ Committing(x, s, c, S, C)
  BY <1>5, <1>6, <1>7 DEF Phase
<1>9. r = x
  BY <1>4, <1>8 DEF Started, Committing
<1> QED
  BY <1>8, <1>9

\* The answer a of the server that has become t to the INIT or FULL_INIT y,
\* and the confirmation y of a client that was c when it got the answer r.
ReplyFits(y, a, t) ==
  \/ y.type = "init" /\ a.type = "ack" /\ Prepared(t, "routine", a.tag)
  \/ /\ y.type = "full_init" /\ a.type = "full_reply"
     /\ Prepared(t, "full", t.transcript)

ConfirmFits(r, y, c) ==
  \/ r.type = "ack" /\ y.type = "commit" /\ y.key = r.tag
  \/ /\ r.type = "full_reply" /\ y.type = "confirm"
     /\ y.key = Append(c.transcript, Label(r))

\* It answers an INIT or a FULL_INIT.
LEMMA PhaseReplied ==
  ASSUME NEW s, NEW t, NEW c, NEW S, NEW C, NEW S1, NEW C1,
         NEW y \in Records, NEW a \in Records,
         Started(y, s, c, S, C), S1 \subseteq S \cup {a}, C1 \subseteq C,
         y \notin C1, a.tag = Append(s.transcript, Label(y)),
         t.transcript = Two(s.transcript, Label(y), Label(a)),
         t.epoch = s.epoch, t.secret = s.secret, t.carrier = s.carrier,
         t.update_requested,
         ReplyFits(y, a, t)
  PROVE  Replied(a, t, c, S1, C1) /\ a \notin S
<1>1. Even(t, c) /\ Together(t, c)
  BY DEF Started, Even, Together
<1>2. Flight(S1, {a}) /\ Flight(C1, {}) /\ a \notin S
  BY DEF Started, Flight, Plain, ReplyFits
<1>3. c.transcript = a.tag
  BY DEF Started, InitFits
<1>5. t.transcript = Append(c.transcript, Label(a))
  BY <1>3 DEF Two
<1>4. \/ y.type = "init" /\ Waiting(c, "routine")
      \/ y.type = "full_init" /\ Waiting(c, "full")
  BY DEF Started, InitFits
<1> QED
  BY <1>1, <1>2, <1>3, <1>4, <1>5 DEF Replied, ReplyFits

\* It takes the confirmation and switches.
LEMMA PhaseSwitched ==
  ASSUME NEW s, NEW t, NEW c, NEW S, NEW C, NEW S1, NEW C1,
         NEW y \in Records, NEW a \in Records,
         Committing(y, s, c, S, C), S1 \subseteq S \cup {a}, C1 \subseteq C,
         y \notin C1, c.epoch \in Int,
         t.transcript = Two(s.transcript, Label(y), Label(a)),
         t.epoch = s.epoch + 1, t.secret = y.key, t.pending = {},
         t.carrier = s.carrier,
         a.type = "done", a.kind = "control", a.epoch = t.epoch,
         a.key = t.secret, a.tag = t.secret
  PROVE  Ahead(a, t, c, S1, C1) /\ a \notin S
<1>1. Together(t, c)
  BY DEF Committing, Together
<1>2. Flight(S1, {a}) /\ Flight(C1, {}) /\ a \notin S
  BY DEF Committing, Flight, Plain
<1>3. c.epoch >= 0 /\ s.epoch = c.epoch
  BY DEF Committing, Even
<1>4. DoneFits(a, t, c)
  BY <1>3 DEF Committing, DoneFits
<1>5. t.transcript = Append(c.transcript, Label(a))
  BY DEF Committing, Two
<1> QED
  BY <1>1, <1>2, <1>4, <1>5 DEF Ahead

\* It asks for an update: the client will see that next, or the transcripts
\* fork at the request.
LEMMA PhaseAsked ==
  ASSUME NEW s, NEW t, NEW c, NEW S, NEW C, NEW S1, NEW a \in Records,
         Phase(s, c, S, C), S1 \subseteq S \cup {a},
         s.transcript \in Transcripts, c.transcript \in Transcripts,
         s.epoch >= 0, s.pending = {}, ~s.update_requested,
         c.sock = "second" => Initiates # {},
         t.transcript = Append(s.transcript, Label(a)), t.epoch = s.epoch,
         t.secret = s.secret, t.carrier = s.carrier, t.update_requested,
         t.pending = s.pending, t.offered <=> s.offered,
         a.type = "request", a.epoch = s.epoch
  PROVE  /\ a \notin S
         /\ \/ Phase(t, c, S1, C)
            \/ Initiates # {} /\ Forked(t.transcript, c.transcript)
<1>1. /\ Even(s, c) => Even(t, c)
      /\ Idle(s, c) => Idle(t, c)
      /\ Together(s, c) => Together(t, c)
      /\ Dialling(s, c) => Dialling(t, c)
      /\ \A r : DoneFits(r, s, c) => DoneFits(r, t, c)
  BY DEF Even, Idle, Together, Dialling, DoneFits
<1>2. \A X : Flight(S, X) => Flight(S1, X \cup {a})
  BY DEF Flight
<1>3. \A X : Flight(S, X) /\ (\A r \in X : r.type # "request") => a \notin S
  BY DEF Flight, Plain
<1>4. s.epoch # -1
  OBVIOUS
<1>5. ASSUME NEW l \in Labels, l # Label(a),
             Longer(Append(s.transcript, l), c.transcript)
      PROVE  Forked(t.transcript, c.transcript)
  <2>0. t.transcript \in Transcripts
    BY Extends
  <2>1. Longer(Append(s.transcript, Label(a)), t.transcript)
    BY <2>0, LongerFacts
  <2> QED
    BY <1>5, <2>0, <2>1, ForkAt
<1>6. ~Greeting(s, c, S, C)
  BY <1>4 DEF Greeting
<1>7. CASE Level(s, c, S, C)
  <2>1. Flight(S1, {a}) /\ a \notin S
    BY <1>2, <1>3, <1>7 DEF Level
  <2>2. Asked(a, t, c, S1, C)
    BY <1>1, <1>7, <2>1 DEF Level, Asked
  <2> QED
    BY <2>1, <2>2 DEF Phase
<1>8. ASSUME NEW x \in Records
      PROVE  /\ ~Asked(x, s, c, S, C) /\ ~Replied(x, s, c, S, C)
             /\ ~Committing(x, s, c, S, C)
             /\ \A z : /\ ~AheadAsked(x, z, s, c, S, C)
                       /\ ~ChallengedAsked(x, z, s, c, S, C)
  BY DEF Asked, Replied, Committing, AheadAsked, ChallengedAsked
<1>9. ASSUME NEW x \in Records, Started(x, s, c, S, C)
      PROVE  /\ a \notin S
             /\ Initiates # {} /\ Forked(t.transcript, c.transcript)
  <2>1. a \notin S /\ Initiates # {}
    BY <1>3, <1>9 DEF Started
  <2>2. x.type # "request" /\ c.transcript = Append(s.transcript, Label(x))
    BY <1>9 DEF Started, InitFits
  <2>3. Label(x) \in Labels /\ Label(x) # Label(a)
    BY <2>2, Extends, LabelsDiffer
  <2>4. Longer(Append(s.transcript, Label(x)), c.transcript)
    BY <2>2, LongerFacts
  <2> QED
    BY <1>5, <2>1, <2>3, <2>4
<1>10. ASSUME NEW x \in Records, Ahead(x, s, c, S, C)
       PROVE  a \notin S /\ Phase(t, c, S1, C)
  <2>1. Flight(S1, {x, a}) /\ a \notin S
    <3>1. Flight(S, {x}) /\ x.type # "request"
      BY <1>10 DEF Ahead, DoneFits
    <3>2. Flight(S1, {x} \cup {a})
      BY <1>2, <3>1
    <3>3. {x} \cup {a} = {x, a}
      OBVIOUS
    <3>4. a \notin S
      BY <1>3, <3>1
    <3> QED
      BY <3>2, <3>3, <3>4
  <2>2. AheadAsked(x, a, t, c, S1, C)
    BY <1>1, <1>10, <2>1 DEF Ahead, AheadAsked
  <2> QED
    BY <2>1, <2>2 DEF Phase
<1>11. ASSUME NEW x \in Records, Challenged(x, s, c, S, C)
       PROVE  a \notin S /\ Phase(t, c, S1, C)
  <2>1. Flight(S1, {x, a}) /\ a \notin S
    <3>1. Flight(S, {x}) /\ x.type # "request"
      BY <1>11 DEF Challenged
    <3>2. Flight(S1, {x} \cup {a})
      BY <1>2, <3>1
    <3>3. {x} \cup {a} = {x, a}
      OBVIOUS
    <3>4. a \notin S
      BY <1>3, <3>1
    <3> QED
      BY <3>2, <3>3, <3>4
  <2>2. ChallengedAsked(x, a, t, c, S1, C)
    BY <1>1, <1>11, <2>1 DEF Challenged, ChallengedAsked
  <2> QED
    BY <2>1, <2>2 DEF Phase
<1>12. ASSUME NEW x \in Records, NEW l, Opening(x, l, s, c),
              Flight(S, {}), Longer(Append(s.transcript, l), c.transcript)
       PROVE  /\ a \notin S
              /\ Initiates # {} /\ Forked(t.transcript, c.transcript)
  <2>1. x.type = "response" /\ l = Label(x) /\ Moving(s, c)
    BY <1>4, <1>12 DEF Opening
  <2>2. a \notin S /\ Initiates # {}
    BY <1>3, <1>12, <2>1 DEF Moving
  <2>3. l \in Labels /\ l # Label(a)
    BY <2>1, Extends, LabelsDiffer
  <2> QED
    BY <1>5, <1>12, <2>2, <2>3
<1>13. ASSUME NEW x \in Records, NEW l \in Labels, Responded(x, l, s, c, S, C)
       PROVE  /\ a \notin S
              /\ Initiates # {} /\ Forked(t.transcript, c.transcript)
  <2>1. Opening(x, l, s, c) /\ Flight(S, {})
        /\ c.transcript = Append(s.transcript, l)
    BY <1>13 DEF Responded
  <2>2. Longer(Append(s.transcript, l), c.transcript)
    BY <2>1, LongerFacts
  <2> QED
    BY <1>12, <2>1, <2>2
<1>14. ASSUME NEW x \in Records, NEW z \in Records, NEW l \in Labels,
              RespondedStarted(x, z, l, s, c, S, C)
       PROVE  /\ a \notin S
              /\ Initiates # {} /\ Forked(t.transcript, c.transcript)
  <2>1. Opening(x, l, s, c) /\ Flight(S, {})
        /\ c.transcript = Append(Append(s.transcript, l), Label(z))
    BY <1>14 DEF RespondedStarted, InitFits
  <2>2. Append(s.transcript, l) \in Transcripts /\ Label(z) \in Labels
    BY Extends, LongerFacts
  <2>3. Longer(Append(s.transcript, l), c.transcript)
    BY <2>1, <2>2, LongerFacts
  <2> QED
    BY <1>12, <2>1, <2>3
<1> QED
  BY <1>6, <1>7, <1>8, <1>9, <1>10, <1>11, <1>13, <1>14 DEF Phase

\* It challenges the carrier the client has dialled.
LEMMA PhaseChallenged ==
  ASSUME NEW s, NEW t, NEW c, NEW S, NEW C, NEW S1, NEW a \in Records,
         Phase(s, c, S, C), S1 \subseteq S \cup {a},
         s.epoch >= 0, c.dialling, ~s.offered,
         t.transcript = Append(s.transcript, Label(a)), t.epoch = s.epoch,
         t.secret = s.secret, t.carrier = s.carrier, t.offered,
         t.pending = s.pending, s.update_requested => t.update_requested,
         a.type = "challenge"
  PROVE  a \notin S /\ Phase(t, c, S1, C)
<1>1. /\ Even(s, c) => Even(t, c)
      /\ Idle(s, c) => Idle(t, c)
      /\ Dialling(s, c) => Dialling(t, c)
  BY DEF Even, Idle, Dialling
<1>2. \A X : Flight(S, X) => Flight(S1, X \cup {a})
  BY DEF Flight
<1>3. \A X : Flight(S, X) /\ (\A r \in X : r.type # "challenge") => a \notin S
  BY DEF Flight, Plain
<1>4. s.epoch # -1 /\ ~Together(s, c) /\ ~Moving(s, c)
  BY DEF Together, Moving
<1>5. CASE Level(s, c, S, C)
  <2>1. Flight(S1, {a}) /\ a \notin S
    BY <1>2, <1>3, <1>5 DEF Level
  <2>2. Challenged(a, t, c, S1, C)
    BY <1>1, <1>4, <1>5, <2>1 DEF Level, Challenged
  <2> QED
    BY <2>1, <2>2 DEF Phase
<1>6. ASSUME NEW x \in Records, Asked(x, s, c, S, C)
      PROVE  a \notin S /\ Phase(t, c, S1, C)
  <2>1. Flight(S1, {x, a}) /\ a \notin S
    <3>1. Flight(S, {x}) /\ x.type # "challenge"
      BY <1>6 DEF Asked
    <3>2. Flight(S1, {x} \cup {a})
      BY <1>2, <3>1
    <3>3. {x} \cup {a} = {x, a}
      OBVIOUS
    <3>4. a \notin S
      BY <1>3, <3>1
    <3> QED
      BY <3>2, <3>3, <3>4
  <2>2. ChallengedAsked(x, a, t, c, S1, C)
    BY <1>1, <1>4, <1>6, <2>1 DEF Asked, ChallengedAsked
  <2> QED
    BY <2>1, <2>2 DEF Phase
<1>7. \A x, l : ~Opening(x, l, s, c)
  BY <1>4 DEF Opening
<1> QED
  BY <1>4, <1>5, <1>6, <1>7
     DEF Phase, Greeting, Started, Replied, Committing, Ahead, Challenged,
         AheadAsked, ChallengedAsked, Responded, RespondedStarted

\* What it had to take first has come: CLIENT_CONFIRM, or the response to its
\* challenge.
LEMMA PhaseOpened ==
  ASSUME NEW s, NEW t, NEW c, NEW S, NEW C, NEW C1, NEW r \in C, NEW k,
         Phase(s, c, S, C), C1 \subseteq C, r \notin C1,
         r.type = k, k \in {"response", "client_confirm"},
         k = "client_confirm" => s.epoch = -1,
         k = "response" => s.epoch >= 0,
         t.transcript = Append(s.transcript,
                               IF k = "response" THEN Label(r) ELSE k),
         t.pending = {}, Even(t, c), Together(t, c)
  PROVE  Phase(t, c, S, C1)
<1>0. ~Plain(r) /\ r.type \notin {"init", "full_init", "commit", "confirm",
                                  "client_hello", "client_auth"}
  BY DEF Plain
<1>1. ~Flight(C, {})
  BY <1>0 DEF Flight
<1>2. ASSUME NEW y, Flight(C, {y}) PROVE r = y
  BY <1>0, <1>2 DEF Flight
<1>3. ~Greeting(s, c, S, C) /\ ~Level(s, c, S, C)
  BY <1>0, <1>1 DEF Greeting, Level, Clear, Record, HandshakeRecord
<1>4. ASSUME NEW x PROVE /\ ~Asked(x, s, c, S, C) /\ ~Replied(x, s, c, S, C)
                         /\ ~Ahead(x, s, c, S, C)
                         /\ ~Challenged(x, s, c, S, C)
                         /\ \A z : /\ ~AheadAsked(x, z, s, c, S, C)
                                   /\ ~ChallengedAsked(x, z, s, c, S, C)
  BY <1>1 DEF Asked, Replied, Ahead, Challenged, AheadAsked, ChallengedAsked
<1>5. ASSUME NEW x, Started(x, s, c, S, C) \/ Committing(x, s, c, S, C)
      PROVE  FALSE
  BY <1>0, <1>2, <1>5 DEF Started, InitFits, Committing
<1>6. ASSUME NEW x, NEW l, Opening(x, l, s, c), x = r
      PROVE  t.transcript = Append(s.transcript, l)
  <2>1. HandshakeRecord("client", 1, "client_confirm", ToFinish).type
          = "client_confirm"
    BY DEF HandshakeRecord, Record
  <2> QED
    BY <1>6, <2>1 DEF Opening
<1>7. ASSUME NEW x, NEW l, Responded(x, l, s, c, S, C)
      PROVE  Phase(t, c, S, C1)
  <2>1. x = r
    BY <1>2, <1>7 DEF Responded
  <2>2. t.transcript = c.transcript
    BY <1>6, <1>7, <2>1 DEF Responded
  <2>3. Flight(S, {}) /\ Flight(C1, {}) /\ Idle(t, c)
    BY <1>7, <2>1 DEF Responded, Flight, Idle
  <2>4. Level(t, c, S, C1)
    BY <2>2, <2>3 DEF Level
  <2> QED
    BY <2>4 DEF Phase
<1>8. ASSUME NEW x, NEW z \in Records, NEW l,
             RespondedStarted(x, z, l, s, c, S, C)
      PROVE  Phase(t, c, S, C1)
  <2>1. z.type \in {"init", "full_init"}
    BY <1>8 DEF RespondedStarted, InitFits
  <2>2. x = r
    BY <1>0, <1>8, <2>1 DEF RespondedStarted, Flight
  <2>3. InitFits(z, c, t.transcript)
    BY <1>6, <1>8, <2>2 DEF RespondedStarted
  <2>4. Flight(S, {}) /\ Flight(C1, {z})
    BY <1>8, <2>2 DEF RespondedStarted, Flight
  <2>5. Started(z, t, c, S, C1)
    BY <1>8, <2>3, <2>4 DEF RespondedStarted, Started
  <2> QED
    BY <2>5 DEF Phase
<1> QED
  BY <1>3, <1>4, <1>5, <1>7, <1>8 DEF Phase

-----------------------------------------------------------------------------
(* From stage to stage: the client                                         *)

\* Its relations to the server where the update it waits for is all that is new.
LEMMA ClientRelations ==
  ASSUME NEW s, NEW c, NEW d, d.epoch = c.epoch, d.secret = c.secret,
         d.sock = c.sock, d.dialling <=> c.dialling
  PROVE  /\ Even(s, c) => Even(s, d)
         /\ Together(s, c) => Together(s, d)
         /\ Moving(s, c) => Moving(s, d)
         /\ \A r, l : Opening(r, l, s, c) => Opening(r, l, s, d)
BY DEF Even, Together, Moving, Opening

\* It starts an update by itself: the server will see that next, or has
\* asked for one already and the transcripts fork.
LEMMA PhaseStarts ==
  ASSUME NEW s, NEW c, NEW d, NEW S, NEW C, NEW C1, NEW y \in Records,
         Phase(s, c, S, C), C1 \subseteq C \cup {y},
         s.transcript \in Transcripts, c.transcript \in Transcripts,
         c.epoch >= 0, c.pending = {}, ~c.dialling, Initiates # {},
         d.epoch = c.epoch, d.secret = c.secret, d.sock = c.sock,
         ~d.dialling, InitFits(y, d, c.transcript)
  PROVE  /\ y \notin C
         /\ \/ Phase(s, d, S, C1)
            \/ Initiates # {} /\ Forked(s.transcript, d.transcript)
<1>1. /\ Even(s, c) => Even(s, d)
      /\ Together(s, c) => Together(s, d)
      /\ \A r, l : Opening(r, l, s, c) => Opening(r, l, s, d)
  BY ClientRelations
<1>2. \A X : Flight(C, X) => Flight(C1, X \cup {y})
  BY DEF Flight
<1>3. y.type \in {"init", "full_init"}
      /\ d.transcript = Append(c.transcript, Label(y))
  BY DEF InitFits
<1>4. \A X : Flight(C, X) /\ (\A r \in X : r.type \notin {"init", "full_init"})
               => y \notin C
  BY <1>3 DEF Flight, Plain
<1>5. c.epoch # -1 /\ ~Dialling(s, c)
  BY DEF Dialling
<1>6. CASE Level(s, c, S, C)
  <2>1. y \notin C /\ Flight(C1, {y})
    BY <1>2, <1>4, <1>6 DEF Level
  <2>2. Started(y, s, d, S, C1)
    BY <1>1, <1>5, <1>6, <2>1 DEF Level, Started, Idle
  <2> QED
    BY <2>1, <2>2 DEF Phase
<1>7. ASSUME NEW x \in Records, Asked(x, s, c, S, C)
      PROVE  y \notin C /\ Forked(s.transcript, d.transcript)
  <2>1. y \notin C
    BY <1>4, <1>7 DEF Asked
  <2>2. x.type = "request" /\ s.transcript = Append(c.transcript, Label(x))
    BY <1>7 DEF Asked
  <2>3. Label(y) \in Labels /\ Label(y) # Label(x)
    BY <1>3, <2>2, Extends, LabelsDiffer
  <2>4. d.transcript \in Transcripts
    BY <1>3, Extends
  <2>5. /\ Longer(Append(c.transcript, Label(x)), s.transcript)
        /\ Longer(Append(c.transcript, Label(y)), d.transcript)
    BY <1>3, <2>2, <2>4, LongerFacts
  <2> QED
    BY <2>1, <2>2, <2>3, <2>4, <2>5, ForkAt
<1>8. ASSUME NEW x \in Records, NEW l \in Labels, Responded(x, l, s, c, S, C)
      PROVE  y \notin C /\ Phase(s, d, S, C1)
  <2>1. x.type \notin {"init", "full_init"}
    BY <1>8 DEF Responded, Opening, HandshakeRecord, Record
  <2>2. Flight(C, {x}) /\ {x} \cup {y} = {x, y}
    BY <1>8 DEF Responded
  <2>3. y \notin C
    BY <1>4, <2>1, <2>2
  <2>4. Flight(C1, {x, y})
    BY <1>2, <2>2
  <2>5. RespondedStarted(x, y, l, s, d, S, C1)
    BY <1>1, <1>8, <2>4 DEF Responded, RespondedStarted, Idle
  <2> QED
    BY <2>3, <2>5 DEF Phase
<1>9. \A m, k : ~Waiting(c, m) /\ ~Committed(c, k)
  BY DEF Waiting, Committed
<1> QED
  BY <1>5, <1>6, <1>7, <1>8, <1>9
     DEF Phase, Greeting, Started, InitFits, Replied, Committing, Ahead,
         DoneFits, Challenged, AheadAsked, ChallengedAsked, RespondedStarted

\* It answers a request with an INIT.
LEMMA PhaseAnswers ==
  ASSUME NEW s, NEW c, NEW d, NEW S, NEW C, NEW S1, NEW C1, NEW r \in S,
         NEW y \in Records, Phase(s, c, S, C), S1 \subseteq S, r \notin S1,
         C1 \subseteq C \cup {y}, r.type = "request",
         c.epoch >= 0, c.pending = {}, ~Dialling(s, c),
         d.epoch = c.epoch, d.secret = c.secret, d.sock = c.sock,
         d.dialling <=> c.dialling,
         InitFits(y, d, Append(c.transcript, Label(r)))
  PROVE  y \notin C /\ Phase(s, d, S1, C1)
<1>1. /\ Even(s, c) => Even(s, d)
      /\ Together(s, c) => Together(s, d)
  BY ClientRelations
<1>2. ~Flight(S, {})
  BY DEF Flight, Plain
<1>3. c.epoch # -1
  OBVIOUS
<1>4. \A m, k : ~Waiting(c, m) /\ ~Committed(c, k)
  BY DEF Waiting, Committed
<1>5. PICK x \in Records : Asked(x, s, c, S, C)
  BY <1>2, <1>3, <1>4
     DEF Phase, Greeting, Level, Started, Replied, Committing, Ahead,
         DoneFits, Challenged, AheadAsked, ChallengedAsked, Responded,
         RespondedStarted
<1>6. x = r
  BY <1>5 DEF Asked, Flight, Plain
<1>7. y.type \in {"init", "full_init"}
  BY DEF InitFits
<1>8. Flight(S1, {}) /\ Flight(C1, {y}) /\ y \notin C
  BY <1>5, <1>6, <1>7 DEF Asked, Flight, Plain
<1>9. Started(y, s, d, S1, C1)
  BY <1>1, <1>5, <1>6, <1>8 DEF Asked, Started, Idle
<1> QED
  BY <1>8, <1>9 DEF Phase

\* It confirms the epoch that an ACK or a reply names.
LEMMA PhaseConfirms ==
  ASSUME NEW s, NEW c, NEW d, NEW S, NEW C, NEW S1, NEW C1, NEW r \in S,
         NEW y \in Records, Phase(s, c, S, C), S1 \subseteq S, r \notin S1,
         C1 \subseteq C \cup {y}, c.epoch >= 0,
         d.epoch = c.epoch, d.secret = c.secret, d.sock = c.sock,
         d.dialling <=> c.dialling,
         d.transcript = Two(c.transcript, Label(r), Label(y)),
         y.kind = "control", y.epoch = c.epoch + 1, y.tag = y.key,
         Committed(d, y.key),
         ConfirmFits(r, y, c)
  PROVE  y \notin C /\ Phase(s, d, S1, C1)
<1>1. /\ Even(s, c) => Even(s, d)
      /\ Together(s, c) => Together(s, d)
  BY ClientRelations
<1>2. ~Flight(S, {}) /\ r.type \in {"ack", "full_reply"}
  BY DEF ConfirmFits, Flight, Plain
<1>3. c.epoch # -1
  OBVIOUS
<1>4. ASSUME NEW x, Flight(S, {x}) PROVE x = r
  BY <1>2, <1>4 DEF Flight, Plain
<1>5. ASSUME NEW x, NEW z, Flight(S, {x, z}) PROVE x = r \/ z = r
  BY <1>2, <1>5 DEF Flight, Plain
<1>6. Replied(r, s, c, S, C)
  <2>1. ~Greeting(s, c, S, C) /\ ~Level(s, c, S, C)
    BY <1>2, <1>3 DEF Greeting, Level
  <2>2. ASSUME NEW x
        PROVE  /\ ~Asked(x, s, c, S, C) /\ ~Started(x, s, c, S, C)
               /\ ~Committing(x, s, c, S, C) /\ ~Ahead(x, s, c, S, C)
               /\ ~Challenged(x, s, c, S, C)
               /\ \A l : ~Responded(x, l, s, c, S, C)
    BY <1>2, <1>4 DEF Asked, Started, Committing, Ahead, DoneFits, Challenged,
                      Responded
  <2>3. ASSUME NEW x, NEW z
        PROVE  /\ ~AheadAsked(x, z, s, c, S, C)
               /\ ~ChallengedAsked(x, z, s, c, S, C)
               /\ \A l : ~RespondedStarted(x, z, l, s, c, S, C)
    BY <1>2, <1>5 DEF AheadAsked, DoneFits, ChallengedAsked, RespondedStarted
  <2>4. PICK x : Replied(x, s, c, S, C)
    BY <2>1, <2>2, <2>3 DEF Phase
  <2>5. x = r
    BY <1>4, <2>4 DEF Replied
  <2> QED
    BY <2>4, <2>5
<1>7. Flight(S1, {}) /\ Flight(C1, {y}) /\ y \notin C
  BY <1>6 DEF Replied, Flight, Plain, ConfirmFits
<1>8. s.epoch = c.epoch
  BY <1>6 DEF Replied, Even
<1>9. Committing(y, s, d, S1, C1)
  BY <1>1, <1>6, <1>7, <1>8 DEF Replied, Committing, Two, ConfirmFits
<1> QED
  BY <1>7, <1>9 DEF Phase

\* It follows the server to the next epoch.
LEMMA PhaseFollows ==
  ASSUME NEW s, NEW c, NEW d, NEW S, NEW C, NEW S1, NEW r \in S,
         Phase(s, c, S, C), S1 \subseteq S, r \notin S1, r.type = "done",
         c.epoch \in Int, c.epoch >= 0,
         d.epoch = s.epoch, d.secret = s.secret, d.pending = {},
         d.sock = c.sock, d.dialling <=> c.dialling,
         d.transcript = Append(c.transcript, Label(r))
  PROVE  Phase(s, d, S1, C)
<1>1. Together(s, c) => Together(s, d)
  BY DEF Together
<1>2. ~Flight(S, {}) /\ c.epoch # -1
  BY DEF Flight, Plain
<1>3. ASSUME NEW x, Flight(S, {x}) PROVE x = r /\ Flight(S1, {})
  BY <1>3 DEF Flight, Plain
<1>4. ASSUME NEW x, NEW z, Flight(S, {x, z}) PROVE x = r \/ z = r
  BY <1>4 DEF Flight, Plain
<1>5. \A x : DoneFits(x, s, c) => Even(s, d) /\ Idle(s, d)
  BY DEF DoneFits, Even, Idle
<1>6. ASSUME NEW x \in Records, Ahead(x, s, c, S, C)
      PROVE  Phase(s, d, S1, C)
  <2>1. x = r /\ Flight(S1, {})
    BY <1>3, <1>6 DEF Ahead
  <2>2. s.transcript = d.transcript
    BY <1>6, <2>1 DEF Ahead
  <2>3. Even(s, d) /\ Idle(s, d) /\ Together(s, d)
    BY <1>1, <1>5, <1>6 DEF Ahead
  <2>4. Level(s, d, S1, C)
    BY <1>6, <2>1, <2>2, <2>3 DEF Ahead, Level
  <2> QED
    BY <2>4 DEF Phase
<1>7. ASSUME NEW x \in Records, NEW z \in Records,
             AheadAsked(x, z, s, c, S, C)
      PROVE  Phase(s, d, S1, C)
  <2>1. x = r
    BY <1>4, <1>7 DEF AheadAsked
  <2>2. Flight(S1, {z})
    BY <1>7, <2>1 DEF AheadAsked, Flight
  <2>3. Asked(z, s, d, S1, C)
    BY <1>1, <1>5, <1>7, <2>1, <2>2 DEF AheadAsked, Asked
  <2> QED
    BY <2>3 DEF Phase
<1> QED
  BY <1>2, <1>3, <1>4, <1>6, <1>7
     DEF Phase, Greeting, Level, Asked, Started, Replied, Committing,
         Challenged, ChallengedAsked, Responded, RespondedStarted

\* It answers a challenge: the server will see that next, or has asked for an
\* update meanwhile and the transcripts fork.
LEMMA PhaseResponds ==
  ASSUME NEW s, NEW c, NEW d, NEW S, NEW C, NEW S1, NEW C1, NEW r \in S,
         NEW y \in Records, Phase(s, c, S, C), S1 \subseteq S, r \notin S1,
         C1 \subseteq C \cup {y}, r \in Records, r.type = "challenge",
         y.type = "response", c.epoch >= 0,
         s.transcript \in Transcripts, c.transcript \in Transcripts,
         c.sock = "second" => Initiates # {},
         d.epoch = c.epoch, d.secret = c.secret, d.sock = c.sock,
         d.pending = c.pending, ~d.dialling,
         d.transcript = Two(c.transcript, Label(r), Label(y))
  PROVE  /\ y \notin C /\ s.offered
         /\ \/ Phase(s, d, S1, C1)
            \/ Initiates # {} /\ Forked(s.transcript, d.transcript)
<1>1. ~Flight(S, {}) /\ c.epoch # -1
  BY DEF Flight, Plain
<1>2. ASSUME NEW x, Flight(S, {x}) PROVE x = r /\ Flight(S1, {})
  BY <1>2 DEF Flight, Plain
<1>3. ASSUME NEW x, NEW z, Flight(S, {x, z}) PROVE x = r \/ z = r
  BY <1>3 DEF Flight, Plain
<1>4. ASSUME Flight(C, {}) PROVE y \notin C /\ Flight(C1, {y})
  BY <1>4 DEF Flight, Plain
<1>5. ASSUME NEW x \in Records, Challenged(x, s, c, S, C)
      PROVE  y \notin C /\ s.offered /\ Phase(s, d, S1, C1)
  <2>1. x = r /\ Flight(S1, {}) /\ y \notin C /\ Flight(C1, {y})
    BY <1>2, <1>4, <1>5 DEF Challenged
  <2>2. Even(s, d) /\ Idle(s, d) /\ Moving(s, d)
    BY <1>5 DEF Challenged, Even, Idle, Dialling, Moving
  <2>3. Label(y) \in Labels
    BY Extends
  <2>4. Responded(y, Label(y), s, d, S1, C1)
    BY <1>5, <2>1, <2>2 DEF Challenged, Responded, Opening, Two
  <2>5. s.offered
    BY <1>5 DEF Challenged
  <2> QED
    BY <2>1, <2>3, <2>4, <2>5 DEF Phase
<1>6. ASSUME NEW x \in Records, NEW z \in Records,
             ChallengedAsked(x, z, s, c, S, C)
      PROVE  /\ y \notin C /\ s.offered
             /\ Initiates # {} /\ Forked(s.transcript, d.transcript)
  <2>1. y \notin C /\ s.offered /\ Initiates # {}
    BY <1>4, <1>6 DEF ChallengedAsked, Dialling
  <2>2. s.transcript = Append(Append(c.transcript, Label(x)), Label(z))
    BY <1>6 DEF ChallengedAsked
  <2>a. d.transcript = Append(Append(c.transcript, Label(r)), Label(y))
    BY DEF Two
  <2>3. \A q \in Records : Label(q) \in Labels
    BY Extends
  <2>4. \A u \in Transcripts, k, l \in Labels :
          /\ Append(u, k) \in Transcripts
          /\ Append(Append(u, k), l) \in Transcripts
          /\ Longer(Append(Append(u, k), l), Append(Append(u, k), l))
          /\ Longer(Append(u, k), Append(Append(u, k), l))
    BY LongerFacts
  <2>5. d.transcript \in Transcripts
    BY <2>3, <2>4, <2>a
  <2>6. CASE x.type = "request" /\ z.type = "challenge"
    <3>1. Label(r) # Label(x)
      BY <2>6, LabelsDiffer
    <3>2. /\ Longer(Append(c.transcript, Label(x)), s.transcript)
          /\ Longer(Append(c.transcript, Label(r)), d.transcript)
      BY <2>2, <2>3, <2>4, <2>a
    <3> QED
      BY <2>1, <2>3, <2>5, <2>6, <3>1, <3>2, ForkAt
  <2>7. CASE x.type = "challenge" /\ z.type = "request"
    <3>1. x = r
      BY <1>3, <1>6, <2>7 DEF ChallengedAsked
    <3>2. Label(y) # Label(z)
      BY <2>7, LabelsDiffer
    <3>3. /\ Longer(Append(Append(c.transcript, Label(r)), Label(z)),
                    s.transcript)
          /\ Longer(Append(Append(c.transcript, Label(r)), Label(y)),
                    d.transcript)
          /\ Append(c.transcript, Label(r)) \in Transcripts
      BY <2>2, <2>3, <2>4, <2>a, <3>1
    <3> QED
      BY <2>1, <2>3, <2>5, <2>7, <3>2, <3>3, ForkAt
  <2> QED
    BY <1>6, <2>6, <2>7 DEF ChallengedAsked
<1> QED
  BY <1>1, <1>2, <1>3, <1>5, <1>6
     DEF Phase, Greeting, Level, Asked, Started, Replied, Committing, Ahead,
         AheadAsked, DoneFits, Responded, RespondedStarted

\* It dials the second carrier.
LEMMA PhaseDials ==
  ASSUME NEW s, NEW c, NEW d, NEW S, NEW C, Phase(s, c, S, C),
         s.epoch >= 0, ~s.offered, c.pending = {}, c.sock = "first",
         ~c.dialling, d.epoch = c.epoch, d.secret = c.secret,
         d.transcript = c.transcript, d.pending = c.pending,
         d.sock = "second", d.dialling
  PROVE  /\ Even(s, d) /\ Flight(C, {}) /\ Phase(s, d, S, C)
         /\ s.carrier = "first"
<1>1. s.epoch # -1 /\ ~Dialling(s, c) /\ ~Moving(s, c)
  BY DEF Dialling, Moving
<1>2. \A m, k : ~Waiting(c, m) /\ ~Committed(c, k)
  BY DEF Waiting, Committed
<1>3. \A x, l : ~Opening(x, l, s, c)
  BY <1>1 DEF Opening
<1>4. /\ Even(s, c) => Even(s, d)
      /\ Idle(s, c) => Idle(s, d)
      /\ Together(s, c) => Dialling(s, d) /\ s.carrier = "first"
  BY DEF Even, Idle, Together, Dialling
<1>5. CASE Level(s, c, S, C)
  <2>1. Level(s, d, S, C)
    BY <1>1, <1>4, <1>5 DEF Level
  <2> QED
    BY <1>1, <1>4, <1>5, <2>1 DEF Level, Phase
<1>6. ASSUME NEW x \in Records, Asked(x, s, c, S, C)
      PROVE  /\ Even(s, d) /\ Flight(C, {}) /\ Phase(s, d, S, C)
             /\ s.carrier = "first"
  <2>1. Asked(x, s, d, S, C)
    BY <1>1, <1>4, <1>6 DEF Asked
  <2> QED
    BY <1>1, <1>4, <1>6, <2>1 DEF Asked, Phase
<1> QED
  BY <1>1, <1>2, <1>3, <1>5, <1>6
     DEF Phase, Greeting, Started, InitFits, Replied, Committing, Ahead,
         DoneFits, Challenged, AheadAsked, ChallengedAsked, Responded,
         RespondedStarted

-----------------------------------------------------------------------------
(* From stage to stage: the handshake                                      *)

\* The transcripts of the handshake are told apart by their lengths, and the
\* keys are derived from the first two messages.
LEMMA HandshakeFacts ==
  /\ ToHello \in Transcripts /\ Len(ToHello) = 1
  /\ ToHellos \in Transcripts /\ Len(ToHellos) = 2
  /\ ToAuth \in Transcripts /\ Len(ToAuth) = 3
  /\ ToFinish \in Transcripts /\ Len(ToFinish) = 4
  /\ ToHello = Append(<<>>, "client_hello") /\ Len(<<>>) = 0
  /\ SubSeq(ToHellos, 1, 2) = ToHellos
  /\ SubSeq(ToAuth, 1, 2) = ToHellos
  /\ SubSeq(ToFinish, 1, 2) = ToHellos
<1>1. {"client_hello", "server_hello", "client_auth", "server_finish"}
        \subseteq Labels
  BY DEF Labels, Types
<1>2. /\ ToHello \in Transcripts /\ Len(ToHello) = 1
      /\ ToHello = Append(<<>>, "client_hello") /\ Len(<<>>) = 0
  BY <1>1 DEF ToHello, Transcripts
<1>3. ASSUME NEW T \in Transcripts, NEW l \in Labels
      PROVE  /\ Append(T, l) \in Transcripts /\ Len(Append(T, l)) = Len(T) + 1
             /\ \A i \in 1 .. Len(T) : Append(T, l)[i] = T[i]
  BY DEF Transcripts
<1>4. ToHellos \in Transcripts /\ Len(ToHellos) = 2
  BY <1>1, <1>2, <1>3 DEF ToHellos
<1>5. ToAuth \in Transcripts /\ Len(ToAuth) = 3
      /\ \A i \in 1 .. 2 : ToAuth[i] = ToHellos[i]
  <2>1. /\ Append(ToHellos, "client_auth") \in Transcripts
        /\ Len(Append(ToHellos, "client_auth")) = Len(ToHellos) + 1
        /\ \A i \in 1 .. Len(ToHellos) :
             Append(ToHellos, "client_auth")[i] = ToHellos[i]
    BY <1>1, <1>3, <1>4
  <2> QED
    BY <1>4, <2>1 DEF ToAuth
<1>6. ToFinish \in Transcripts /\ Len(ToFinish) = 4
      /\ \A i \in 1 .. 2 : ToFinish[i] = ToHellos[i]
  <2>1. /\ Append(ToAuth, "server_finish") \in Transcripts
        /\ Len(Append(ToAuth, "server_finish")) = Len(ToAuth) + 1
        /\ \A i \in 1 .. Len(ToAuth) :
             Append(ToAuth, "server_finish")[i] = ToAuth[i]
    BY <1>1, <1>3, <1>5
  <2> QED
    BY <1>5, <2>1 DEF ToFinish
<1>7. ASSUME NEW T \in Transcripts, Len(T) >= 2,
             \A i \in 1 .. 2 : T[i] = ToHellos[i]
      PROVE  SubSeq(T, 1, 2) = ToHellos
  <2>1. /\ SubSeq(T, 1, 2) \in Seq(Labels) /\ Len(SubSeq(T, 1, 2)) = 2
        /\ \A i \in 1 .. 2 : SubSeq(T, 1, 2)[i] = T[i]
    BY <1>7 DEF Transcripts
  <2>2. ToHellos \in Seq(Labels)
    BY <1>4 DEF Transcripts
  <2> QED
    BY <1>4, <1>7, <2>1, <2>2, SeqEqual
<1> QED
  BY <1>2, <1>4, <1>5, <1>6, <1>7

\* A client that has not come up is in its handshake, and so is the server.
LEMMA StillGreeting ==
  ASSUME NEW s, NEW c, NEW S, NEW C, Phase(s, c, S, C), c.epoch = -1
  PROVE  Greeting(s, c, S, C)
<1>1. ~Even(s, c) /\ c.epoch # 0 /\ ~(c.epoch >= 0)
  BY DEF Even
<1>2. \A x, l : ~Opening(x, l, s, c) /\ ~DoneFits(x, s, c)
  BY <1>1 DEF Opening, DoneFits
<1> QED
  BY <1>1, <1>2
     DEF Phase, Level, Asked, Started, Replied, Committing, Ahead,
         Challenged, AheadAsked, ChallengedAsked, Responded, RespondedStarted

\* The transcript of one end and what is on its way to it tell the stage.
LEMMA GreetingStages ==
  ASSUME NEW s, NEW c, NEW S, NEW C, Greeting(s, c, S, C)
  PROVE  /\ c.transcript = <<>> => s.transcript = <<>> /\ C = {} /\ S = {}
         /\ s.transcript = <<>> /\ C # {} =>
              /\ c.transcript = ToHello /\ S = {}
              /\ C \subseteq {Clear("client", "client_hello", <<>>)}
         /\ c.transcript = ToHello /\ S # {} =>
              /\ s.transcript = ToHellos /\ C = {}
              /\ S \subseteq {Clear("server", "server_hello", ToHello)}
         /\ s.transcript = ToHellos /\ C # {} =>
              /\ c.transcript = ToAuth /\ S = {}
              /\ C \subseteq
                   {HandshakeRecord("client", 0, "client_auth", ToHellos)}
         /\ c.transcript = ToAuth /\ S # {} =>
              /\ s.transcript = ToFinish /\ C = {}
              /\ S \subseteq
                   {HandshakeRecord("server", 0, "server_finish", ToAuth)}
         /\ C # {} => s.transcript \in {<<>>, ToHellos}
         /\ S # {} => c.transcript \in {ToHello, ToAuth}
<1> DEFINE a == Clear("client", "client_hello", <<>>)
           b == Clear("server", "server_hello", ToHello)
           e == HandshakeRecord("client", 0, "client_auth", ToHellos)
           f == HandshakeRecord("server", 0, "server_finish", ToAuth)
<1>1. /\ ToHello # <<>> /\ ToHellos # <<>> /\ ToAuth # <<>>
      /\ ToFinish # <<>> /\ ToHellos # ToHello /\ ToAuth # ToHello
      /\ ToFinish # ToHellos
  BY HandshakeFacts
<1>2. \/ s.transcript = <<>> /\ c.transcript = <<>> /\ C = {} /\ S = {}
      \/ /\ s.transcript = <<>> /\ c.transcript = ToHello
         /\ C \subseteq {a} /\ S = {}
      \/ /\ s.transcript = ToHellos /\ c.transcript = ToHello /\ C = {}
         /\ S \subseteq {b}
      \/ /\ s.transcript = ToHellos /\ c.transcript = ToAuth /\ S = {}
         /\ C \subseteq {e}
      \/ /\ s.transcript = ToFinish /\ c.transcript = ToAuth /\ C = {}
         /\ S \subseteq {f}
  BY DEF Greeting
<1> HIDE DEF a, b, e, f
<1>3. /\ c.transcript = <<>> => s.transcript = <<>> /\ C = {} /\ S = {}
      /\ s.transcript = <<>> /\ C # {} =>
           c.transcript = ToHello /\ S = {} /\ C \subseteq {a}
      /\ c.transcript = ToHello /\ S # {} =>
           s.transcript = ToHellos /\ C = {} /\ S \subseteq {b}
      /\ s.transcript = ToHellos /\ C # {} =>
           c.transcript = ToAuth /\ S = {} /\ C \subseteq {e}
      /\ c.transcript = ToAuth /\ S # {} =>
           s.transcript = ToFinish /\ C = {} /\ S \subseteq {f}
      /\ C # {} => s.transcript \in {<<>>, ToHellos}
      /\ S # {} => c.transcript \in {ToHello, ToAuth}
  BY <1>1, <1>2
<1> QED
  BY <1>3 DEF a, b, e, f

\* What does not change while the handshake goes on.
Greets(s, t, c, d) ==
  /\ t.epoch = s.epoch /\ t.pending = s.pending /\ t.carrier = s.carrier
  /\ d.epoch = c.epoch /\ d.pending = c.pending /\ d.sock = c.sock
  /\ d.dialling <=> c.dialling

\* The client's first message.
LEMMA GreetHello ==
  ASSUME NEW s, NEW c, NEW d, NEW S, NEW C, NEW C1, Greeting(s, c, S, C),
         Greets(s, s, c, d), c.transcript = <<>>, d.transcript = ToHello,
         C1 \subseteq C \cup {Clear("client", "client_hello", <<>>)}
  PROVE  C = {} /\ Greeting(s, d, S, C1)
<1>1. s.transcript = <<>> /\ C = {} /\ S = {}
  BY GreetingStages
<1>2. Together(s, d) /\ Idle(s, d)
  BY DEF Greeting, Greets, Together, Idle
<1> QED
  BY <1>1, <1>2 DEF Greeting, Greets

\* The server's answer.
LEMMA GreetHellos ==
  ASSUME NEW s, NEW t, NEW c, NEW S, NEW C, NEW S1, NEW C1, NEW r \in C,
         Greeting(s, c, S, C), Greets(s, t, c, c), s.transcript = <<>>,
         t.transcript = ToHellos, C1 \subseteq C, r \notin C1,
         S1 \subseteq S \cup {Clear("server", "server_hello", ToHello)}
  PROVE  S = {} /\ Greeting(t, c, S1, C1)
<1>1. c.transcript = ToHello /\ C1 = {} /\ S = {}
  BY GreetingStages
<1>2. Together(t, c) /\ Idle(t, c)
  BY DEF Greeting, Greets, Together, Idle
<1> QED
  BY <1>1, <1>2 DEF Greeting, Greets

\* The client proves who it is.
LEMMA GreetAuth ==
  ASSUME NEW s, NEW c, NEW d, NEW S, NEW C, NEW S1, NEW C1, NEW r \in S,
         Greeting(s, c, S, C), Greets(s, s, c, d), c.transcript = ToHello,
         d.transcript = ToAuth, S1 \subseteq S, r \notin S1,
         C1 \subseteq C \cup
           {HandshakeRecord("client", 0, "client_auth", ToHellos)}
  PROVE  C = {} /\ Greeting(s, d, S1, C1)
<1>1. s.transcript = ToHellos /\ C = {} /\ S1 = {}
  BY GreetingStages
<1>2. Together(s, d) /\ Idle(s, d)
  BY DEF Greeting, Greets, Together, Idle
<1> QED
  BY <1>1, <1>2 DEF Greeting, Greets

\* The server finishes.
LEMMA GreetFinish ==
  ASSUME NEW s, NEW t, NEW c, NEW S, NEW C, NEW S1, NEW C1, NEW r \in C,
         Greeting(s, c, S, C), Greets(s, t, c, c), s.transcript = ToHellos,
         t.transcript = ToFinish, C1 \subseteq C, r \notin C1,
         S1 \subseteq S \cup
           {HandshakeRecord("server", 0, "server_finish", ToAuth)}
  PROVE  S = {} /\ Greeting(t, c, S1, C1)
<1>1. c.transcript = ToAuth /\ C1 = {} /\ S = {}
  BY GreetingStages
<1>2. Together(t, c) /\ Idle(t, c)
  BY DEF Greeting, Greets, Together, Idle
<1> QED
  BY <1>1, <1>2 DEF Greeting, Greets

\* The client confirms, and its session is established.
LEMMA GreetConfirm ==
  ASSUME NEW s, NEW c, NEW d, NEW S, NEW C, NEW S1, NEW C1, NEW r \in S,
         Greeting(s, c, S, C), c.transcript = ToAuth,
         S1 \subseteq S, r \notin S1,
         d.transcript = Append(ToFinish, "client_confirm"), d.epoch = 0,
         d.pending = c.pending, d.sock = c.sock, d.dialling <=> c.dialling,
         HandshakeRecord("client", 1, "client_confirm", ToFinish) \in Records,
         C1 \subseteq C \cup
           {HandshakeRecord("client", 1, "client_confirm", ToFinish)}
  PROVE  C = {} /\ S1 = {} /\ Phase(s, d, S1, C1)
<1> DEFINE y == HandshakeRecord("client", 1, "client_confirm", ToFinish)
<1>0. s.transcript = ToFinish /\ C = {} /\ S1 = {}
  BY GreetingStages
<1>1. s.transcript = ToFinish /\ C = {} /\ S1 = {} /\ s.epoch = -1
  BY <1>0 DEF Greeting
<1>2. Together(s, d) /\ Idle(s, d)
  BY DEF Greeting, Together, Idle
<1>3. "client_confirm" \in Labels
  BY DEF Labels, Types
<1> HIDE DEF y
<1>4. Opening(y, "client_confirm", s, d)
  BY <1>1, <1>2 DEF Opening, y
<1>5. y \in Records /\ C1 \subseteq {y}
  BY <1>1 DEF y
<1>6. Responded(y, "client_confirm", s, d, S1, C1)
  BY <1>1, <1>2, <1>4, <1>5 DEF Responded, Flight
<1> QED
  BY <1>1, <1>3, <1>5, <1>6 DEF Phase

-----------------------------------------------------------------------------
(* The queues from stage to stage                                          *)

\* What is in flight after a record was sent.
LEMMA PutFacts ==
  ASSUME NEW q \in Queues, NEW n \in Queues, NEW p \in Paths, NEW r, NEW lk,
         Put(q, n, p, r, lk)
  PROVE  /\ InFlight(n) \subseteq InFlight(q) \cup {r}
         /\ lk[p] = "open" => Added(q, n, p, r)
         /\ lk[p] # "open" => n = q
         /\ \A x \in Paths : x # p => On(n, x) = On(q, x)
         /\ Once(q) /\ (Plain(r) \/ r \notin InFlight(q)) => Once(n)
<1>1. CASE lk[p] = "open"
  BY <1>1, AddedFacts DEF Put
<1>2. CASE lk[p] # "open"
  BY <1>2 DEF Put
<1> QED
  BY <1>1, <1>2

\* The server sends a counted record under its current key.
LEMMA GoodSays ==
  ASSUME NEW s, NEW t, NEW c, NEW cs, NEW sc \in Queues, NEW lk,
         NEW n \in Queues, NEW p \in Paths, NEW a, c.sock \in Paths,
         s.epoch \in Int, c.epoch \in Int, s.epoch >= 0, t.carrier \in Paths,
         Phase(s, c, InFlight(sc), InFlight(cs)), Lines(s, c, cs, sc, lk),
         Places(t, c, cs, sc, lk), Calm(t, c),
         t.epoch = s.epoch, t.secret = s.secret,
         a.type # "ping", a.epoch = s.epoch, a.key = s.secret,
         a \notin InFlight(sc), Put(sc, n, p, a, lk),
         \/ p = "first" \/ t.carrier = "second"
         \/ a.type = "challenge" /\ c.sock # "first",
         Phase(t, c, InFlight(n), InFlight(cs))
  PROVE  Good(t, c, cs, n, lk)
<1>1. Lines(s, c, cs, n, lk) /\ Places(t, c, cs, n, lk)
  <2>1. CASE lk[p] # "open"
    BY <2>1 DEF Put
  <2>2. CASE lk[p] = "open"
    <3>1. Added(sc, n, p, a)
      BY <2>2 DEF Put
    <3>2. Lines(s, c, cs, n, lk)
      BY <2>2, <3>1, LinesSaid
    <3>3. Places(t, c, cs, n, lk)
      BY <3>1, PlacesSaid
    <3> QED
      BY <3>2, <3>3
  <2> QED
    BY <2>1, <2>2
<1>2. Lines(t, c, cs, n, lk)
  BY <1>1 DEF Lines, DoneFirst, Keyed
<1> QED
  BY <1>1, <1>2 DEF Good

\* The server switches and sends DONE.
LEMMA GoodSwitches ==
  ASSUME NEW s, NEW t, NEW c, NEW cs, NEW sc \in Queues, NEW lk,
         NEW n \in Queues, NEW p \in Paths, NEW a, NEW y, NEW C,
         s.epoch \in Int, c.epoch \in Int, t.carrier = s.carrier,
         t.offered <=> s.offered, Still(s, t), Calm(t, c), p = c.sock,
         Committing(y, s, c, InFlight(sc), C),
         Lines(s, c, cs, sc, lk), Places(s, c, cs, sc, lk),
         t.epoch = s.epoch + 1, a.epoch = t.epoch, a.key = t.secret,
         a.type = "done", Put(sc, n, p, a, lk), a \notin InFlight(sc),
         Phase(t, c, InFlight(n), InFlight(cs))
  PROVE  Good(t, c, cs, n, lk)
<1>0. /\ s.epoch >= 0 /\ s.epoch = c.epoch /\ c.sock = s.carrier
      /\ \A r \in InFlight(sc) : Plain(r)
  BY DEF Committing, Even, Together, Flight
<1>1. s.carrier \in Paths
  BY <1>0
<1>2. Places(t, c, cs, sc, lk)
  BY DEF Places, Still
<1>3. Places(t, c, cs, n, lk)
  <2>1. CASE lk[p] # "open"
    BY <1>2, <2>1 DEF Put
  <2>2. CASE lk[p] = "open"
    <3>1. Added(sc, n, p, a) /\ (p = "first" \/ t.carrier = "second")
      BY <1>0, <2>2 DEF Put, Paths
    <3> QED
      BY <1>1, <1>2, <3>1, PlacesSaid
  <2> QED
    BY <2>1, <2>2
<1>4. /\ InFlight(n) \subseteq InFlight(sc) \cup {a}
      /\ Once(sc) => Once(n)
  BY PutFacts
<1>5. /\ DoneFirst(s, c, sc[p], lk[p]) /\ Keyed(s, c, InFlight(sc))
      /\ Once(cs) /\ Once(sc) /\ \A r \in InFlight(cs) : Readable(r)
  BY <1>0 DEF Lines
<1>6. Keyed(t, c, InFlight(n))
  <2> SUFFICES ASSUME NEW r \in InFlight(n)
               PROVE  /\ r.type # "ping" /\ r.epoch <= t.epoch
                      /\ r.epoch = t.epoch => r.key = t.secret
                      /\ r.epoch = c.epoch => r.key = c.secret
    BY DEF Keyed
  <2>1. CASE r = a
    BY <1>0, <2>1
  <2>2. CASE r \in InFlight(sc)
    <3>1. r \in Records
      BY <2>2, QueueLen DEF InFlight
    <3>2. r.epoch \in Int
      BY <3>1 DEF Records
    <3> QED
      BY <1>0, <1>5, <2>2, <3>2 DEF Keyed
  <2> QED
    BY <1>4, <2>1, <2>2
<1>7. \A j \in 1 .. Len(sc[p]) :
        sc[p][j].type # "done" /\ sc[p][j].epoch = c.epoch
  <2>1. \A j \in 1 .. Len(sc[p]) : sc[p][j].type # "done"
    BY <1>0 DEF InFlight, Plain
  <2> QED
    BY <1>5, <2>1 DEF DoneFirst
<1>8. DoneFirst(t, c, n[p], lk[p])
  <2>1. CASE lk[p] # "open"
    <3>1. n[p] = sc[p]
      BY <2>1 DEF Put
    <3> QED
      BY <1>7, <2>1, <3>1 DEF DoneFirst
  <2>2. CASE lk[p] = "open"
    <3> DEFINE q == sc[p]
               m == n[p]
    <3>1. /\ Len(q) \in Nat /\ Len(m) = Len(q) + 1 /\ m[Len(q) + 1] = a
          /\ \A i \in 1 .. Len(q) : m[i] = q[i]
      BY <2>2, QueueLen DEF Put, Added
    <3>2. \A i \in 1 .. Len(q) : q[i].type # "done" /\ q[i].epoch = c.epoch
      BY <1>7
    <3> HIDE DEF q, m
    <3>3. \A i \in 1 .. Len(m) :
            \/ i \in 1 .. Len(q) /\ m[i].type # "done" /\ m[i].epoch = c.epoch
            \/ i = Len(m) /\ m[i].type = "done" /\ m[i].epoch = t.epoch
      BY <3>1, <3>2
    <3>4. Len(m) \in 1 .. Len(m) /\ m[Len(m)].type = "done"
      BY <3>1
    <3>5. \A i \in 1 .. Len(m) : m[i].type = "done" =>
            \A j \in 1 .. Len(m) : i <= j => m[j].epoch = t.epoch
      BY <3>1, <3>3
    <3>6. ASSUME NEW j \in 1 .. Len(m)
          PROVE  \/ m[j].epoch = c.epoch
                 \/ \E i \in 1 .. Len(m) : i <= j /\ m[i].type = "done"
      BY <3>1, <3>3, <3>4
    <3>7. DoneFirst(t, c, m, lk[p])
      BY <3>4, <3>5, <3>6 DEF DoneFirst
    <3> QED
      BY <3>7 DEF m
  <2> QED
    BY <2>1, <2>2
<1>9. Lines(t, c, cs, n, lk)
  <2>1. t.epoch # -1
    BY <1>0
  <2> QED
    BY <1>4, <1>5, <1>6, <1>8, <2>1 DEF Lines
<1> QED
  BY <1>3, <1>9 DEF Good

\* The client sends a counted record.
LEMMA GoodTells ==
  ASSUME NEW s, NEW c, NEW d, NEW cs \in Queues, NEW sc, NEW lk,
         NEW n \in Queues, NEW y, c.sock \in Paths, Calm(s, d),
         Lines(s, c, cs, sc, lk), Places(s, c, cs, sc, lk),
         d.epoch = c.epoch, d.secret = c.secret, d.sock = c.sock,
         ~d.dialling, c.sock = "second" => s.offered,
         s.carrier = "second" => ~c.dialling,
         Readable(y), y \notin InFlight(cs), Put(cs, n, c.sock, y, lk),
         Phase(s, d, InFlight(sc), InFlight(n))
  PROVE  Good(s, d, n, sc, lk)
<1> DEFINE p == c.sock
<1>1. /\ InFlight(n) \subseteq InFlight(cs) \cup {y}
      /\ \A x \in Paths : x # p => On(n, x) = On(cs, x)
      /\ Once(cs) => Once(n)
  BY PutFacts
<1>2. "first" \in Paths /\ "second" \in Paths
  BY DEF Paths
<1>3. Places(s, d, n, sc, lk)
  <2>1. CASE c.sock = "first"
    <3>1. On(n, "second") = On(cs, "second")
      BY <1>1, <1>2, <2>1
    <3> QED
      BY <2>1, <3>1 DEF Places
  <2>2. CASE c.sock = "second"
    <3>1. On(n, "first") = On(cs, "first")
      BY <1>1, <1>2, <2>2
    <3> QED
      BY <2>2, <3>1 DEF Places
  <2> QED
    BY <2>1, <2>2 DEF Paths
<1>4. ConfirmFirst(cs["first"], lk["first"]) =>
        ConfirmFirst(n["first"], lk["first"])
  <2>1. CASE p = "first" /\ lk[p] = "open"
    <3>1. /\ Len(cs[p]) \in Nat /\ Len(n[p]) = Len(cs[p]) + 1
          /\ n[p][Len(cs[p]) + 1] = y
          /\ \A i \in 1 .. Len(cs[p]) : n[p][i] = cs[p][i]
      BY <2>1, QueueLen DEF Put, Added
    <3>2. ConfirmFirst(cs[p], "open") => ConfirmFirst(n[p], "open")
      BY <3>1, ConfirmAdded
    <3> QED
      BY <2>1, <3>2
  <2>2. CASE p # "first" \/ lk[p] # "open"
    BY <1>2, <2>2 DEF Put, Added
  <2> QED
    BY <2>1, <2>2
<1>5. Lines(s, d, n, sc, lk)
  BY <1>1, <1>4 DEF Lines, DoneFirst, Keyed
<1> QED
  BY <1>3, <1>5 DEF Good

\* The client takes DONE.
LEMMA GoodFollows ==
  ASSUME NEW s, NEW c, NEW d, NEW cs, NEW sc \in Queues, NEW lk,
         NEW n \in Queues, c.sock \in Paths, Calm(s, d), s.epoch >= 0,
         Lines(s, c, cs, sc, lk), Places(s, c, cs, sc, lk),
         Taken(sc, n, c.sock), sc[c.sock][1].type = "done",
         d.epoch = s.epoch, d.secret = s.secret, d.sock = c.sock,
         d.dialling <=> c.dialling,
         Phase(s, d, InFlight(n), InFlight(cs))
  PROVE  Good(s, d, cs, n, lk)
<1>1. /\ InFlight(n) \subseteq InFlight(sc)
      /\ \A x \in Paths : On(n, x) \subseteq On(sc, x)
      /\ Once(sc) => Once(n)
  BY TakenFacts
<1>2. Places(s, d, cs, n, lk)
  BY <1>1 DEF Places, Paths
<1>3. DoneFirst(s, d, n[d.sock], lk[d.sock])
  <2> DEFINE q == sc[c.sock]
             m == n[c.sock]
  <2>1. /\ Len(q) \in Nat /\ Len(q) >= 1 /\ Len(m) = Len(q) - 1
        /\ \A i \in 1 .. Len(q) - 1 : m[i] = q[i + 1]
    BY QueueLen DEF Taken
  <2>2. q[1].type = "done" /\ DoneFirst(s, c, q, lk[c.sock])
    BY DEF Lines
  <2> HIDE DEF q, m
  <2>3. \A j \in 1 .. Len(q) : q[j].epoch = s.epoch
    <3>1. 1 \in 1 .. Len(q)
      BY <2>1
    <3> QED
      BY <2>2, <3>1 DEF DoneFirst
  <2>4. \A j \in 1 .. Len(m) : m[j].epoch = s.epoch
    BY <2>1, <2>3
  <2>5. DoneFirst(s, d, m, lk[c.sock])
    BY <2>4 DEF DoneFirst
  <2> QED
    BY <2>5 DEF m
<1>4. Lines(s, d, cs, n, lk)
  <2>1. s.epoch # -1
    OBVIOUS
  <2> QED
    BY <1>1, <1>3, <2>1 DEF Lines, Keyed
<1> QED
  BY <1>2, <1>4 DEF Good

\* The client dials the second carrier.
LEMMA GoodDials ==
  ASSUME NEW s, NEW c, NEW d, NEW cs, NEW sc \in Queues, NEW lk, NEW lk1,
         Calm(s, d), Lines(s, c, cs, sc, lk), Places(s, c, cs, sc, lk),
         c.sock = "first", s.epoch >= 0, s.carrier = "first",
         Initiates # {}, d.epoch = c.epoch, d.secret = c.secret,
         d.sock = "second", d.dialling, Even(s, d),
         Flight(InFlight(cs), {}), lk1["second"] = "open",
         Phase(s, d, InFlight(sc), InFlight(cs))
  PROVE  Good(s, d, cs, sc, lk1)
<1>1. "first" \in Paths /\ "second" \in Paths
  BY DEF Paths
<1>2. \A r \in On(cs, "first") : Plain(r)
  BY <1>1 DEF Flight, InFlight, On
<1>4. Places(s, d, cs, sc, lk1)
  BY <1>2 DEF Places
<1>5. DoneFirst(s, d, sc["second"], lk1["second"])
  <2>1. On(sc, "second") = {} /\ Len(sc["second"]) \in Nat
    BY <1>1, QueueLen DEF Places
  <2>2. Len(sc["second"]) = 0
    <3>1. ASSUME Len(sc["second"]) # 0 PROVE FALSE
      <4>1. 1 \in 1 .. Len(sc["second"])
        BY <2>1, <3>1
      <4> QED
        BY <2>1, <4>1 DEF On
    <3> QED
      BY <3>1
  <2> QED
    BY <2>2 DEF DoneFirst, Even
<1>6. Lines(s, d, cs, sc, lk1)
  <2>1. s.epoch # -1
    OBVIOUS
  <2> QED
    BY <1>5, <2>1 DEF Lines, Keyed
<1> QED
  BY <1>4, <1>6 DEF Good

\* A carrier is reset and loses what is in flight.
Lost(q, n, p) == n[p] = <<>> /\ \A x \in Paths : x # p => n[x] = q[x]

\* A carrier fails and loses what is on it.
LEMMA GoodFails ==
  ASSUME NEW s, NEW c, NEW cs \in Queues, NEW sc \in Queues, NEW lk,
         NEW cs1, NEW sc1, NEW lk1, NEW p \in Paths,
         Good(s, c, cs, sc, lk), c.sock \in Paths, lk[p] = "open",
         Lost(cs, cs1, p), Lost(sc, sc1, p),
         lk1[p] = "failed", \A x \in Paths : x # p => lk1[x] = lk[x]
  PROVE  Good(s, c, cs1, sc1, lk1)
<1>0. /\ cs1[p] = <<>> /\ \A x \in Paths : x # p => cs1[x] = cs[x]
      /\ sc1[p] = <<>> /\ \A x \in Paths : x # p => sc1[x] = sc[x]
  BY DEF Lost
<1>1. ASSUME NEW q \in Queues, NEW n, n[p] = <<>>,
             \A x \in Paths : x # p => n[x] = q[x]
      PROVE  /\ \A x \in Paths : On(n, x) \subseteq On(q, x)
             /\ InFlight(n) \subseteq InFlight(q)
             /\ Once(q) => Once(n)
  <2>1. Len(n[p]) = 0
    BY <1>1
  <2>2. \A x \in Paths : On(n, x) \subseteq On(q, x)
    BY <1>1, <2>1 DEF On
  <2>3. \A m : InFlight(m) = UNION {On(m, x) : x \in Paths}
    BY DEF InFlight, On
  <2>4. Once(q) => Once(n)
    BY <1>1, <2>1 DEF Once
  <2> QED
    BY <2>2, <2>3, <2>4
<1>2. /\ cs1[p] = <<>> /\ \A x \in Paths : x # p => cs1[x] = cs[x]
      /\ \A x \in Paths : On(cs1, x) \subseteq On(cs, x)
      /\ InFlight(cs1) \subseteq InFlight(cs)
      /\ Once(cs) => Once(cs1)
  BY <1>0, <1>1
<1>3. /\ sc1[p] = <<>> /\ \A x \in Paths : x # p => sc1[x] = sc[x]
      /\ \A x \in Paths : On(sc1, x) \subseteq On(sc, x)
      /\ InFlight(sc1) \subseteq InFlight(sc)
      /\ Once(sc) => Once(sc1)
  BY <1>0, <1>1
<1>4. Phase(s, c, InFlight(sc1), InFlight(cs1))
  <2>1. /\ Quieter(InFlight(sc), InFlight(sc1), s.epoch >= 0)
        /\ Quieter(InFlight(cs), InFlight(cs1), c.epoch >= 0)
    BY <1>2, <1>3 DEF Quieter
  <2> QED
    BY <2>1, LikeItself, PhaseKept DEF Good
<1>5. Places(s, c, cs1, sc1, lk1)
  <2>1. \A x \in Paths : lk1[x] = "none" <=> lk[x] = "none"
    OBVIOUS
  <2> QED
    BY <1>2, <1>3, <2>1 DEF Good, Places, Paths
<1>6. ASSUME DoneFirst(s, c, sc[c.sock], lk[c.sock])
      PROVE  DoneFirst(s, c, sc1[c.sock], lk1[c.sock])
  <2>1. CASE c.sock = p
    <3>1. Len(sc1[c.sock]) = 0 /\ lk1[c.sock] # "open"
      BY <1>3, <2>1
    <3> QED
      BY <3>1 DEF DoneFirst
  <2>2. CASE c.sock # p
    BY <1>3, <1>6, <2>2
  <2> QED
    BY <2>1, <2>2
<1>7. ASSUME ConfirmFirst(cs["first"], lk["first"])
      PROVE  ConfirmFirst(cs1["first"], lk1["first"])
  <2>0. "first" \in Paths
    BY DEF Paths
  <2>1. CASE p = "first"
    <3>1. Len(cs1["first"]) = 0 /\ lk1["first"] # "open"
      BY <1>2, <2>1
    <3> QED
      BY <3>1 DEF ConfirmFirst
  <2>2. CASE p # "first"
    BY <1>2, <1>7, <2>0, <2>2
  <2> QED
    BY <2>1, <2>2
<1>8. Lines(s, c, cs1, sc1, lk1)
  BY <1>2, <1>3, <1>6, <1>7 DEF Good, Lines, Keyed
<1> QED
  BY <1>4, <1>5, <1>8 DEF Good

-----------------------------------------------------------------------------
(* The server's events                                                     *)

\* Carriers may be closed, never opened.
Shut(lk, lk1) ==
  \A p \in Paths : /\ lk1[p] = "open" => lk[p] = "open"
                   /\ lk1[p] = "none" <=> lk[p] = "none"

\* Closing carriers only shuts them.
LEMMA ClosedShut ==
  ASSUME NEW lk, NEW P
  PROVE  /\ Shut(lk, lk) /\ Shut(lk, Closed(lk, P))
         /\ \A l, m : Shut(lk, l) /\ Shut(l, m) => Shut(lk, m)
<1>1. \A p \in Paths :
        Closed(lk, P)[p] = IF p \in P /\ lk[p] = "open" THEN "closed"
                                                        ELSE lk[p]
  BY DEF Closed
<1>2. Shut(lk, Closed(lk, P))
  BY <1>1 DEF Shut
<1> QED
  BY <1>2 DEF Shut

\* The end of an event: a request goes out, or not.
LEMMA FinishGood ==
  ASSUME NonceInv, UNCHANGED client, NEW s \in ServerStates, s.epoch >= 0,
         NEW p \in Paths, NEW out, Sent(s2c, p, out) \in Queues,
         Good(s, client, c2s', Sent(s2c, p, out), link),
         NEW links, Shut(link, links), ServerFinish(s, p, out, links)
  PROVE  TranscriptInv'
<1> DEFINE n == Sent(s2c, p, out)
           c == client
           a == ControlRecord(s, "request", <<>>)
           cs == c2s'
<1>0. /\ c.sock \in Paths /\ c.epoch \in Int /\ c.transcript \in Transcripts
      /\ s.epoch \in Int /\ s.transcript \in Transcripts
      /\ s.carrier \in Paths
  BY ClientFacts DEF NonceInv, ServerStates
<1>1. /\ a \in Records /\ a.type = "request" /\ a.epoch = s.epoch
      /\ a.key = s.secret
  <2>1. "request" \in Types /\ <<>> \in Tags
    BY DEF Types, Tags, Transcripts
  <2>2. a.epoch = s.epoch /\ a.key = s.secret
    BY DEF ControlRecord, Record
  <2> QED
    BY <2>1, <2>2, ControlFacts
<1>2. Good(s, c, cs, n, link) /\ n \in Queues /\ client' = c
  OBVIOUS
<1> HIDE DEF n, a, cs
<1>3. ASSUME NEW t, Good(t, c, cs, s2c', link), server' = t,
             Shut(links, link')
      PROVE  TranscriptInv'
  <2>1. Shut(link, link')
    BY <1>3, ClosedShut
  <2>2. Good(server', client', c2s', s2c', link')
    BY <1>0, <1>2, <1>3, <2>1, GoodShut DEF Shut, cs
  <2> QED
    BY <2>2 DEF TranscriptInv, Fine
<1>4. CASE 0 \in s.deadline
  <2> DEFINE t == Down(s, "timeout")
  <2>1. /\ server' = t /\ s2c' = n /\ link' = Closed(links, Paths)
    BY <1>4 DEF ServerFinish, n
  <2>2. /\ t.transcript = s.transcript /\ t.epoch = s.epoch
        /\ t.secret = s.secret /\ t.pending = s.pending
        /\ t.carrier = s.carrier /\ t.validating = s.validating
        /\ t.draining = s.draining /\ t.reason = "timeout"
    BY DEF Down, ServerStates
  <2>3. t.update_requested = s.update_requested /\ t.offered = s.offered
    BY DEF Down, ServerStates
  <2> HIDE DEF t
  <2>4. Like(s, t) /\ Still(s, t) /\ LikeC(c, c)
    BY <2>2, <2>3, LikeItself DEF Like, Still
  <2>5. Calm(t, c)
    BY <1>2, <2>2 DEF Good, Calm
  <2>6. Good(t, c, cs, n, link)
    BY <1>2, <2>4, <2>5, GoodLike
  <2>7. Shut(links, link')
    BY <2>1, ClosedShut
  <2> QED
    BY <1>3, <2>1, <2>6, <2>7
<1>5. CASE 0 \notin s.deadline /\ ~UpdateDue(s)
  <2>1. server' = s /\ s2c' = n /\ link' = links
    BY <1>5 DEF ServerFinish, n
  <2>2. Shut(links, link')
    BY <2>1, ClosedShut
  <2> QED
    BY <1>2, <1>3, <2>1, <2>2
<1>6. CASE 0 \notin s.deadline /\ UpdateDue(s)
  <2> DEFINE t == Requested(s, a)
             m == Sent(n, s.carrier, <<a>>)
  <2>1. /\ server' = t /\ s2c' = m /\ link' = links
    BY <1>6 DEF ServerFinish, n, a
  <2>2. /\ t.transcript = Append(s.transcript, Label(a))
        /\ t.epoch = s.epoch /\ t.secret = s.secret /\ t.pending = s.pending
        /\ t.carrier = s.carrier /\ t.validating = s.validating
        /\ t.draining = s.draining /\ t.reason = s.reason
    BY DEF Requested, ServerStates
  <2>3. t.update_requested /\ t.offered = s.offered
    BY DEF Requested, ServerStates
  <2>4. s.pending = {} /\ ~s.update_requested
    BY <1>6 DEF UpdateDue
  <2>5. m \in Queues /\ Put(n, m, s.carrier, a, link)
    BY <1>0, <1>1, <1>2, SentPut
  <2> HIDE DEF t, m
  <2>6. InFlight(m) \subseteq InFlight(n) \cup {a}
    BY <1>0, <1>2, <2>5, PutFacts
  <2>7. /\ Phase(s, c, InFlight(n), InFlight(cs))
        /\ Lines(s, c, cs, n, link) /\ Places(s, c, cs, n, link)
        /\ Calm(s, c)
    BY <1>2 DEF Good
  <2>8. c.sock = "second" => Initiates # {}
    BY <2>7 DEF Places
  <2>9. /\ a \notin InFlight(n)
        /\ \/ Phase(t, c, InFlight(m), InFlight(cs))
           \/ Initiates # {} /\ Forked(t.transcript, c.transcript)
    BY <1>0, <1>1, <2>2, <2>3, <2>4, <2>6, <2>7, <2>8, PhaseAsked
  <2>10. CASE Initiates # {} /\ Forked(t.transcript, c.transcript)
    BY <1>2, <2>1, <2>10 DEF TranscriptInv, Fine
  <2>11. CASE Phase(t, c, InFlight(m), InFlight(cs))
    <3>1. Places(t, c, cs, n, link) /\ Calm(t, c)
      BY <2>2, <2>3, <2>7 DEF Places, Calm
    <3>2. s.carrier = "first" \/ t.carrier = "second"
      BY <1>0, <2>2 DEF Paths
    <3>3. a.type # "ping"
      BY <1>1
    <3>4. Good(t, c, cs, m, link)
      BY <1>0, <1>1, <1>2, <2>2, <2>5, <2>7, <2>9, <2>11, <3>1, <3>2, <3>3,
         GoodSays
    <3>5. Shut(links, link')
      BY <2>1, ClosedShut
    <3> QED
      BY <1>3, <2>1, <3>4, <3>5
  <2> QED
    BY <2>9, <2>10, <2>11
<1> QED
  BY <1>4, <1>5, <1>6

\* A counted record that the session task reads is where both ends are.
LEMMA ReadPlace ==
  ASSUME NEW s, NEW c, NEW cs, NEW sc, NEW lk, NEW p \in Paths,
         NEW r \in On(cs, p), Places(s, c, cs, sc, lk), ~Plain(r),
         c.sock \in Paths, s.carrier \in Paths,
         p = s.carrier \/ s.draining # {}
  PROVE  p = c.sock /\ c.sock = s.carrier
<1>1. CASE c.sock = "first"
  <2>1. p # "second"
    BY <1>1 DEF Places
  <2> QED
    BY <1>1, <2>1 DEF Places, Paths
<1>2. CASE c.sock = "second"
  <2>1. p # "first"
    BY <1>2 DEF Places
  <2> QED
    BY <1>2, <2>1 DEF Places, Paths
<1> QED
  BY <1>1, <1>2 DEF Paths

\* Opening a record changes nothing that matters.
LEMMA OpenedLike ==
  ASSUME NEW s, ServerOk(s), NEW r
  PROVE  /\ Like(s, ExpirePrevious(s)) /\ Still(s, ExpirePrevious(s))
         /\ Like(s, Opened(ExpirePrevious(s), r))
         /\ Still(s, Opened(ExpirePrevious(s), r))
         /\ ExpirePrevious(s).reason = s.reason
         /\ Opened(ExpirePrevious(s), r).reason = s.reason
         /\ ExpirePrevious(s).previous \subseteq s.previous
<1> DEFINE e == ExpirePrevious(s)
           t == Opened(e, r)
<1>1. s \in ServerStates /\ e \in ServerStates /\ t \in ServerStates
  BY OpenedFacts DEF ServerOk
<1>2. /\ e.transcript = s.transcript /\ e.epoch = s.epoch
      /\ e.secret = s.secret /\ e.pending = s.pending
      /\ e.carrier = s.carrier /\ e.validating = s.validating
      /\ e.draining = s.draining /\ e.reason = s.reason
      /\ e.previous \subseteq s.previous
  BY <1>1 DEF ExpirePrevious, ServerStates
<1>3. e.update_requested = s.update_requested /\ e.offered = s.offered
  BY <1>1 DEF ExpirePrevious, ServerStates
<1> HIDE DEF e
<1>4. /\ t.transcript = e.transcript /\ t.epoch = e.epoch
      /\ t.secret = e.secret /\ t.pending = e.pending
      /\ t.carrier = e.carrier /\ t.validating = e.validating
      /\ t.draining = e.draining /\ t.reason = e.reason
  BY <1>1 DEF Opened, ServerStates
<1>5. t.update_requested = e.update_requested /\ t.offered = e.offered
  BY <1>1 DEF Opened, ServerStates
<1> HIDE DEF t
<1>6. Like(s, e) /\ Still(s, e)
  BY <1>2, <1>3 DEF Like, Still
<1>7. Like(s, t) /\ Still(s, t)
  BY <1>2, <1>3, <1>4, <1>5 DEF Like, Still
<1> QED
  BY <1>2, <1>4, <1>6, <1>7 DEF e, t

\* The server sends nothing, or something that is not counted.
PlainOut(t, out) ==
  \/ out = <<>>
  \/ \E a \in Records : /\ out = <<a>> /\ a.type \in {"data", "pong"}
                        /\ a.epoch = t.epoch /\ a.key = t.secret

\* The end of an event that moves no transcript and sends nothing.
LEMMA QuietGood ==
  ASSUME NonceInv, UNCHANGED client, NEW p \in Paths,
         NEW s, NEW t \in ServerStates,
         Good(s, client, c2s', s2c, link), s.epoch >= 0, Like(s, t),
         Still(s, t), t.reason = s.reason,
         NEW links, Shut(link, links), ServerFinish(t, p, <<>>, links)
  PROVE  TranscriptInv'
<1>1. /\ s2c \in Queues /\ t.epoch >= 0 /\ LikeC(client, client)
  BY LikeItself DEF NonceInv, TypeOK, Like
<1>2. Calm(t, client)
  BY DEF Good, Calm, Like
<1>3. Good(t, client, c2s', s2c, link)
  BY <1>1, <1>2, GoodLike
<1>4. Sent(s2c, p, <<>>) = s2c
  BY <1>1, SentNothing
<1> QED
  BY <1>1, <1>3, <1>4, FinishGood

\* The end of an event that moves no transcript.
LEMMA EventGood ==
  ASSUME NonceInv, UNCHANGED client, NEW p \in Paths,
         NEW s, NEW t \in ServerStates,
         Good(s, client, c2s', s2c, link), s.epoch >= 0, Like(s, t),
         Still(s, t), t.reason = s.reason, t.carrier = "first" => p = "first",
         NEW out, PlainOut(t, out), NEW links, Shut(link, links),
         ServerFinish(t, p, out, links)
  PROVE  TranscriptInv'
<1>0. /\ s2c \in Queues /\ client.sock \in Paths
      /\ client.epoch \in Int /\ t.carrier \in Paths /\ t.epoch \in Int
      /\ t.epoch >= 0 /\ t.epoch = s.epoch /\ t.carrier = s.carrier
  BY ClientFacts DEF NonceInv, TypeOK, ServerStates, Like
<1>1. CASE out = <<>>
  BY <1>1, QuietGood
<1>2. Good(t, client, c2s', s2c, link)
  <2>1. Calm(t, client)
    BY DEF Good, Calm, Like
  <2>2. LikeC(client, client)
    BY LikeItself
  <2> QED
    BY <2>1, <2>2, GoodLike
<1>3. ASSUME NEW a \in Records, out = <<a>>, a.type \in {"data", "pong"},
             a.epoch = t.epoch, a.key = t.secret
      PROVE  TranscriptInv'
  <2> DEFINE n == Sent(s2c, p, out)
  <2>1. n \in Queues /\ Put(s2c, n, p, a, link)
    BY <1>0, <1>3, SentPut
  <2> HIDE DEF n
  <2>2. Good(t, client, c2s', n, link)
    BY <1>0, <1>2, <1>3, <2>1, GoodSaid
  <2> QED
    BY <1>0, <2>1, <2>2, FinishGood DEF n
<1> QED
  BY <1>1, <1>3 DEF PlainOut

\* The server takes a record and answers nothing that is counted.
LEMMA AnswerGood ==
  ASSUME NonceInv, UNCHANGED client, c2s' \in Queues, NEW p \in Paths,
         Taken(c2s, c2s', p), NEW s, NEW t \in ServerStates,
         Good(s, client, c2s, s2c, link), s.epoch >= 0, Like(s, t),
         Still(s, t), t.reason = s.reason, p = s.carrier \/ s.draining # {},
         NEW out, PlainOut(t, out), NEW links, Shut(link, links),
         ServerFinish(t, p, out, links)
  PROVE  TranscriptInv'
<1>0. /\ c2s \in Queues /\ t.carrier \in Paths /\ t.carrier = s.carrier
  BY DEF NonceInv, TypeOK, ServerStates, Like
<1>1. Good(s, client, c2s', s2c, link)
  BY <1>0, GoodTaken
<1>2. t.carrier = "first" => p = "first"
  BY <1>0 DEF Good, Places
<1> QED
  BY <1>1, <1>2, EventGood

\* The server accepts an INIT or a FULL_INIT.
LEMMA AcceptGood ==
  ASSUME NonceInv, UNCHANGED client, c2s' \in Queues, NEW p \in Paths,
         Taken(c2s, c2s', p), NEW s \in ServerStates, s.epoch >= 0,
         s.epoch < MaxEpoch,
         Good(s, client, c2s, s2c, link), p = s.carrier \/ s.draining # {},
         NEW r, r = c2s[p][1], NEW h,
         \/ r.type = "init" /\ h = AcceptUpdateInit(s, r)
         \/ r.type = "full_init" /\ h = AcceptFullRekeyInit(s, r),
         h.state \in ServerStates, ServerFinish(h.state, p, h.out, link)
  PROVE  TranscriptInv'
<1> DEFINE u == Append(s.transcript, Label(r))
           S == InFlight(s2c)
           C == InFlight(c2s)
           C1 == InFlight(c2s')
           c == client
           t == h.state
<1>0. /\ c2s \in Queues /\ s2c \in Queues /\ c.sock \in Paths
      /\ c.epoch \in Int /\ s.carrier \in Paths /\ s.epoch \in Int
      /\ s.transcript \in Transcripts /\ s.secret \in Transcripts
  BY ClientFacts DEF NonceInv, TypeOK, ServerStates
<1>1. /\ Phase(s, c, S, C) /\ Places(s, c, c2s, s2c, link)
      /\ Lines(s, c, c2s, s2c, link) /\ Calm(s, c) /\ Once(c2s)
  BY DEF Good, Lines
<1>2. ~Plain(r)
  BY DEF Plain
<1>3. /\ C1 \subseteq C /\ r \in C /\ r \in On(c2s, p) /\ r \in Records
      /\ r \notin C1
  BY <1>0, <1>1, <1>2, TakenFacts
<1>4. p = c.sock /\ c.sock = s.carrier
  BY <1>0, <1>1, <1>2, <1>3, ReadPlace
<1>5. Good(s, c, c2s', s2c, link)
  BY <1>0, GoodTaken
<1> HIDE DEF S, C, C1
<1>6. Started(r, s, c, S, C)
  BY <1>1, <1>2, <1>3, <1>4, ServerReads DEF Committing
<1>7. u \in Transcripts /\ u \in Tags
  BY <1>0, <1>3, Extends DEF Tags
<1> HIDE DEF u
<1>8. ASSUME NEW a \in Records, h.out = <<a>>, a.tag = u,
             a.epoch = s.epoch, a.key = s.secret,
             a.type \in {"ack", "full_reply"},
             t.transcript = Append(a.tag, Label(a)), t.epoch = s.epoch,
             t.secret = s.secret, t.carrier = s.carrier, t.update_requested,
             t.offered <=> s.offered, t.validating = s.validating,
             t.draining = s.draining, t.reason = s.reason,
             ReplyFits(r, a, t)
      PROVE  TranscriptInv'
  <2> DEFINE n == Sent(s2c, p, <<a>>)
  <2>1. n \in Queues /\ Put(s2c, n, p, a, link)
    BY <1>0, SentPut
  <2> HIDE DEF n, t
  <2>2. InFlight(n) \subseteq S \cup {a}
    BY <1>0, <2>1, PutFacts DEF S
  <2>3. Replied(a, t, c, InFlight(n), C1) /\ a \notin S
    <3>1. /\ a.tag = Append(s.transcript, Label(r))
          /\ t.transcript = Two(s.transcript, Label(r), Label(a))
          /\ t.epoch = s.epoch /\ t.secret = s.secret
          /\ t.carrier = s.carrier
      BY <1>8 DEF u, Two
    <3>2. t.update_requested
      BY <1>8
    <3>3. ReplyFits(r, a, t)
      BY <1>8
    <3>4. r \in Records /\ r \notin C1
      BY <1>3
    <3>5. C1 \subseteq C
      BY <1>3
    <3> QED
      BY <1>6, <2>2, <3>1, <3>2, <3>3, <3>4, <3>5, PhaseReplied
  <2>4. Phase(t, c, InFlight(n), C1)
    BY <2>3 DEF Phase
  <2>5. /\ Phase(s, c, S, C1) /\ Lines(s, c, c2s', s2c, link)
        /\ Places(s, c, c2s', s2c, link)
    BY <1>5 DEF Good, S, C1
  <2>6. Places(t, c, c2s', s2c, link) /\ Calm(t, c)
    BY <1>1, <1>8, <2>5 DEF Places, Calm
  <2>7. /\ p = "first" \/ t.carrier = "second"
        /\ a.type # "ping" /\ t.carrier \in Paths
    BY <1>0, <1>4, <1>8 DEF Paths
  <2>8. Good(t, c, c2s', n, link)
    BY <1>0, <1>8, <2>1, <2>3, <2>4, <2>5, <2>6, <2>7, GoodSays DEF S, C1
  <2>9. n = Sent(s2c, p, h.out) /\ t \in ServerStates /\ t.epoch >= 0
        /\ ServerFinish(t, p, h.out, link)
    BY <1>8 DEF n, t
  <2>10. Shut(link, link)
    BY ClosedShut
  <2> QED
    BY <2>1, <2>8, <2>9, <2>10, FinishGood
<1>9. CASE r.type = "init" /\ h = AcceptUpdateInit(s, r)
  <2> DEFINE a == ControlRecord(s, "ack", u)
             P == [epoch |-> s.epoch + 1, secret |-> u, proof |-> "routine"]
             new == [s EXCEPT
                      !.transcript = Append(u, Label(a)),
                      !.control_number = @ + 1,
                      !.pending = {P}, !.update_requested = TRUE,
                      !.deadline = {UPDATE_TIMEOUT}]
  <2>1. h.out = <<a>> /\ t = new
    BY <1>9 DEF AcceptUpdateInit, u
  <2>2. /\ a \in Records /\ a.type = "ack" /\ a.tag = u
        /\ a.epoch = s.epoch /\ a.key = s.secret
    <3>1. "ack" \in Types
      BY DEF Types
    <3>2. a.epoch = s.epoch /\ a.key = s.secret
      BY DEF ControlRecord, Record
    <3> QED
      BY <1>7, <3>1, <3>2, ControlFacts
  <2> HIDE DEF a, P, t
  <2>3. /\ t.transcript = Append(u, Label(a)) /\ t.epoch = s.epoch
        /\ t.secret = s.secret /\ t.carrier = s.carrier /\ t.pending = {P}
        /\ t.validating = s.validating
        /\ t.draining = s.draining /\ t.reason = s.reason
    BY <2>1 DEF ServerStates
  <2>4. t.update_requested /\ (t.offered <=> s.offered)
    BY <2>1 DEF ServerStates
  <2>5. ReplyFits(r, a, t)
    BY <1>9, <2>2, <2>3 DEF Prepared, P, ReplyFits
  <2> QED
    BY <1>8, <1>9, <2>1, <2>2, <2>3, <2>4, <2>5
<1>10. CASE r.type = "full_init" /\ h = AcceptFullRekeyInit(s, r)
  <2> DEFINE a == ControlRecord(s, "full_reply", u)
             k == Append(u, Label(a))
             P == [epoch |-> s.epoch + 1, secret |-> k, proof |-> "full"]
             new == [s EXCEPT
                      !.transcript = k, !.control_number = @ + 1,
                      !.pending = {P}, !.update_requested = TRUE,
                      !.deadline = {UPDATE_TIMEOUT}]
  <2>1. h.out = <<a>> /\ t = new
    BY <1>10 DEF AcceptFullRekeyInit, u
  <2>2. /\ a \in Records /\ a.type = "full_reply" /\ a.tag = u
        /\ a.epoch = s.epoch /\ a.key = s.secret
    <3>1. "full_reply" \in Types
      BY DEF Types
    <3>2. a.epoch = s.epoch /\ a.key = s.secret
      BY DEF ControlRecord, Record
    <3> QED
      BY <1>7, <3>1, <3>2, ControlFacts
  <2> HIDE DEF a, P, t, k
  <2>3. /\ t.transcript = k /\ t.epoch = s.epoch
        /\ t.secret = s.secret /\ t.carrier = s.carrier /\ t.pending = {P}
        /\ t.validating = s.validating
        /\ t.draining = s.draining /\ t.reason = s.reason
    BY <2>1 DEF ServerStates
  <2>4. t.update_requested /\ (t.offered <=> s.offered)
    BY <2>1 DEF ServerStates
  <2>5. ReplyFits(r, a, t)
    BY <1>10, <2>2, <2>3 DEF Prepared, P, ReplyFits
  <2>6. t.transcript = Append(a.tag, Label(a))
    BY <2>2, <2>3 DEF k
  <2> QED
    BY <1>8, <1>10, <2>1, <2>2, <2>3, <2>4, <2>5, <2>6
<1> QED
  BY <1>9, <1>10

\* The server accepts a COMMIT or a CONFIRM.
LEMMA SwitchGood ==
  ASSUME NonceInv, UNCHANGED client, c2s' \in Queues, NEW p \in Paths,
         Taken(c2s, c2s', p), NEW s \in ServerStates, s.epoch >= 0,
         Good(s, client, c2s, s2c, link), p = s.carrier \/ s.draining # {},
         NEW r, r = c2s[p][1], r.type \in {"commit", "confirm"},
         OpensPending(s, r), \A x, y \in s.pending : x = y,
         \A x \in s.pending : x.epoch = s.epoch + 1,
         Switched(s, r).state \in ServerStates,
         ServerFinish(Switched(s, r).state, p, Switched(s, r).out, link)
  PROVE  TranscriptInv'
<1> DEFINE S == InFlight(s2c)
           C == InFlight(c2s)
           C1 == InFlight(c2s')
           c == client
           t == Switched(s, r).state
           q == CHOOSE x \in s.pending : TRUE
           a == Record("server", "control", q.epoch, q.secret, 0, "done",
                       q.secret)
           n == Sent(s2c, p, <<a>>)
<1>0. /\ c2s \in Queues /\ s2c \in Queues /\ c.sock \in Paths
      /\ c.epoch \in Int /\ s.carrier \in Paths /\ s.epoch \in Int
  BY ClientFacts DEF NonceInv, TypeOK, ServerStates
<1>1. /\ Phase(s, c, S, C) /\ Places(s, c, c2s, s2c, link)
      /\ Lines(s, c, c2s, s2c, link) /\ Calm(s, c) /\ Once(c2s)
  BY DEF Good, Lines
<1>2. ~Plain(r)
  BY DEF Plain
<1>3. /\ C1 \subseteq C /\ r \in C /\ r \in On(c2s, p) /\ r \in Records
      /\ r \notin C1
  BY <1>0, <1>1, <1>2, TakenFacts
<1>4. p = c.sock /\ c.sock = s.carrier
  BY <1>0, <1>1, <1>2, <1>3, ReadPlace
<1>5. Good(s, c, c2s', s2c, link)
  BY <1>0, GoodTaken
<1> HIDE DEF S, C, C1
<1>6. Committing(r, s, c, S, C)
  BY <1>1, <1>2, <1>3, <1>4, ServerReads DEF Started, InitFits
<1>7. q \in s.pending /\ q.secret = r.key /\ q.epoch = s.epoch + 1
  BY DEF OpensPending
<1> DEFINE u == Append(Append(s.transcript, Label(r)), Label(a))
           o == [epoch |-> s.epoch, secret |-> s.secret,
                 left |-> OLD_EPOCH_GRACE, remaining |-> OLD_EPOCH_RECORDS]
           new == [s EXCEPT
                    !.transcript = u, !.epoch = q.epoch, !.secret = q.secret,
                    !.pending = {}, !.previous = {o}, !.age = 0,
                    !.data_records = 0, !.update_requested = FALSE,
                    !.deadline = {}, !.data_number = 0, !.control_number = 1]
<1>a. Switched(s, r).out = <<a>> /\ t = new
  BY DEF Switched
<1> HIDE DEF q, t, u, o, a
<1>8. /\ Switched(s, r).out = <<a>>
      /\ t.epoch = q.epoch /\ t.secret = q.secret /\ t.pending = {}
      /\ t.transcript = u
      /\ t.carrier = s.carrier /\ t.validating = s.validating
      /\ t.draining = s.draining /\ t.reason = s.reason
  BY <1>a DEF ServerStates
<1>9. t.offered <=> s.offered
  BY <1>a DEF ServerStates
<1>10. /\ a \in Records /\ a.type = "done" /\ a.epoch = q.epoch
       /\ a.key = q.secret /\ a.tag = q.secret /\ a.kind = "control"
  <2>1. /\ "server" \in Froms /\ "control" \in Kinds /\ "done" \in Types
        /\ q.secret \in Tags /\ 0 \in Nat
        /\ q.epoch \in Int /\ q.secret \in Transcripts
    BY <1>7 DEF Froms, Kinds, Types, Tags, ServerStates
  <2> QED
    BY <2>1 DEF Record, Records, a
<1>11. n \in Queues /\ Put(s2c, n, p, a, link)
  BY <1>0, <1>10, SentPut
<1> HIDE DEF n
<1>12. InFlight(n) \subseteq S \cup {a}
  BY <1>0, <1>11, PutFacts DEF S
<1>13. Ahead(a, t, c, InFlight(n), C1) /\ a \notin S
  <2>1. /\ t.epoch = s.epoch + 1 /\ t.secret = r.key
        /\ a.epoch = t.epoch /\ a.key = t.secret /\ a.tag = t.secret
    BY <1>7, <1>8, <1>10
  <2>2. t.transcript = Two(s.transcript, Label(r), Label(a))
    BY <1>8 DEF u, Two
  <2>3. /\ t.pending = {} /\ t.carrier = s.carrier /\ c.epoch \in Int
        /\ a.type = "done" /\ a.kind = "control"
        /\ a \in Records /\ r \in Records /\ r \notin C1
    BY <1>0, <1>3, <1>8, <1>10
  <2>4. C1 \subseteq C
    BY <1>3
  <2> QED
    BY <1>6, <1>12, <2>1, <2>2, <2>3, <2>4, PhaseSwitched
<1>14. Phase(t, c, InFlight(n), C1)
  BY <1>10, <1>13 DEF Phase
<1>15. Lines(s, c, c2s', s2c, link) /\ Places(s, c, c2s', s2c, link)
  BY <1>5 DEF Good
<1>16. Calm(t, c) /\ Still(s, t)
  <2>1. s.epoch < MaxEpoch /\ MaxEpoch \in Nat
    BY <1>1, <1>7, KeyUpdateAssumption DEF Calm
  <2>2. t.epoch <= MaxEpoch
    BY <1>0, <1>7, <1>8, <2>1
  <2> QED
    BY <1>1, <1>8, <2>2 DEF Calm, Still
<1>17. t.epoch = s.epoch + 1 /\ a.epoch = t.epoch /\ a.key = t.secret
  BY <1>7, <1>8, <1>10
<1>18. Good(t, c, c2s', n, link)
  BY <1>0, <1>4, <1>6, <1>8, <1>9, <1>10, <1>11, <1>13, <1>14, <1>15,
     <1>16, <1>17, GoodSwitches DEF S, C1
<1>19. /\ n = Sent(s2c, p, Switched(s, r).out) /\ t \in ServerStates
       /\ t.epoch >= 0 /\ ServerFinish(t, p, Switched(s, r).out, link)
  BY <1>0, <1>8, <1>17 DEF n, t
<1>20. Shut(link, link)
  BY ClosedShut
<1> QED
  BY <1>11, <1>18, <1>19, <1>20, FinishGood

\* An end that goes down without refusing anything leaves all in order.
LEMMA GoodDown ==
  ASSUME NEW s \in ServerStates, NEW c, NEW cs, NEW sc, NEW lk, NEW lk1,
         Good(s, c, cs, sc, lk), c.sock \in Paths, Shut(lk, lk1),
         NEW why, why # "invalid record"
  PROVE  Good(Down(s, why), c, cs, sc, lk1)
<1> DEFINE t == Down(s, why)
<1>1. /\ t.transcript = s.transcript /\ t.epoch = s.epoch
      /\ t.secret = s.secret /\ t.pending = s.pending
      /\ t.carrier = s.carrier /\ t.validating = s.validating
      /\ t.draining = s.draining /\ t.reason = why
  BY DEF Down, ServerStates
<1>2. t.update_requested = s.update_requested /\ t.offered = s.offered
  BY DEF Down, ServerStates
<1> HIDE DEF t
<1>3. Like(s, t) /\ Still(s, t) /\ LikeC(c, c)
  BY <1>1, <1>2, LikeItself DEF Like, Still
<1>4. Calm(t, c)
  BY <1>1 DEF Good, Calm
<1>5. Good(t, c, cs, sc, lk)
  BY <1>3, <1>4, GoodLike
<1>6. Good(t, c, cs, sc, lk1)
  BY <1>5, GoodShut DEF Shut
<1> QED
  BY <1>6 DEF t

\* The server takes every record it can open, so it refuses none as invalid.
LEMMA NeverInvalid ==
  ASSUME NEW s, NEW e, NEW c, NEW cs \in Queues, NEW sc, NEW lk,
         NEW p \in Paths, NEW r \in On(cs, p), r \in InFlight(cs),
         Good(s, c, cs, sc, lk), KeysHold(s, c, InFlight(sc), InFlight(cs)),
         s.epoch >= 0, c.sock \in Paths, s.carrier \in Paths,
         p = s.carrier \/ s.draining # {},
         Like(s, e), e.previous \subseteq s.previous, KnownEpoch(e, r)
  PROVE  \/ DataOk(e, r) \/ PingOk(e, r) \/ InitOk(e, r)
         \/ FullInitOk(e, r) \/ CommitOk(e, r) \/ FullConfirmOk(e, r)
         \/ InitAtLimit(e, r)
<1> DEFINE S == InFlight(sc)
           C == InFlight(cs)
<1>1. /\ Calm(s, c) /\ Phase(s, c, S, C) /\ Places(s, c, cs, sc, lk)
      /\ Readable(r)
  BY DEF Good, Lines
<1>2. /\ EpochsFit(s, c) /\ ServerKeys(s, c) /\ ToServer(s, c, r)
  BY DEF KeysHold
<1>3. /\ e.epoch = s.epoch /\ e.secret = s.secret /\ e.pending = s.pending
      /\ e.transcript = s.transcript
  BY DEF Like
<1>4. s.epoch \in Int /\ c.epoch \in Int /\ MaxEpoch \in Nat
  BY <1>2, KeyUpdateAssumption DEF EpochsFit
<1> HIDE DEF S, C
<1>5. CASE Plain(r)
  <2>1. r.type \in {"data", "ping"} /\ (r.type = "data" => r.kind = "data")
    BY <1>1, <1>5 DEF Plain, Readable
  <2>2. /\ r.epoch <= c.epoch /\ r.epoch \in Int
        /\ r.epoch = s.epoch => r.key = s.secret
        /\ \A q \in s.previous : q.epoch = r.epoch => q.secret = r.key
    BY <1>2, <2>1 DEF ToServer
  <2>3. ASSUME NEW q \in s.pending, q.epoch = r.epoch PROVE FALSE
    <3>1. q.epoch = s.epoch + 1
      BY <1>2, <2>3 DEF ServerKeys
    <3>2. s.epoch = c.epoch
      BY <1>2, <2>3 DEF EpochsFit
    <3> QED
      BY <1>4, <2>2, <2>3, <3>1, <3>2
  <2>4. OpensCurrent(e, r) \/ OpensPrevious(e, r)
    BY <1>3, <2>2, <2>3 DEF KnownEpoch, OpensCurrent, OpensPrevious
  <2> QED
    BY <2>1, <2>4 DEF DataOk, PingOk, Opens
<1>6. CASE ~Plain(r)
  <2>1. c.sock = s.carrier
    BY <1>1, <1>6, ReadPlace
  <2>2. r \in C
    BY DEF C
  <2>3. Started(r, s, c, S, C) \/ Committing(r, s, c, S, C)
    BY <1>1, <1>6, <2>1, <2>2, ServerReads
  <2>4. CASE Started(r, s, c, S, C)
    <3>1. /\ Even(s, c) /\ s.pending = {} /\ InitFits(r, c, s.transcript)
      BY <2>4 DEF Started
    <3>2. /\ OpensCurrent(e, r)
          /\ \/ r.type = "init" /\ r.tag = <<e.secret, e.transcript>>
             \/ r.type = "full_init" /\ r.tag = e.transcript
      BY <1>3, <3>1 DEF InitFits, Even, OpensCurrent
    <3>a. s.epoch <= MaxEpoch
      BY <1>1 DEF Calm
    <3>b. s.epoch < MaxEpoch \/ s.epoch = MaxEpoch
      BY <1>4, <3>a
    <3>3. e.epoch < MaxEpoch \/ e.epoch = MaxEpoch
      BY <1>3, <3>b
    <3> QED
      BY <1>3, <3>1, <3>2, <3>3 DEF InitOk, FullInitOk, InitAtLimit
  <2>5. CASE Committing(r, s, c, S, C)
    <3>1. /\ r.kind = "control" /\ r.epoch = s.epoch + 1 /\ r.tag = r.key
          /\ \/ r.type = "commit" /\ Prepared(s, "routine", r.key)
             \/ r.type = "confirm" /\ Prepared(s, "full", r.key)
      BY <2>5 DEF Committing
    <3>2. \A f : Prepared(s, f, r.key) => Confirms(e, r, f)
      BY <1>2, <1>3, <3>1 DEF Prepared, Confirms, OpensPending, ServerKeys
    <3> QED
      BY <3>1, <3>2 DEF CommitOk, FullConfirmOk
  <2> QED
    BY <2>3, <2>4, <2>5
<1> QED
  BY <1>5, <1>6

\* The server refuses a record.
LEMMA RejectGood ==
  ASSUME NonceInv, KeyInv, Good(server, client, c2s, s2c, link),
         UNCHANGED client, NEW p \in Paths, ServerRejects(p)
  PROVE  TranscriptInv'
<1> DEFINE r == Head(c2s[p])
           e == ExpirePrevious(server)
           why == IF ~KnownEpoch(e, r) THEN "unknown epoch"
                  ELSE IF InitAtLimit(e, r) THEN "epoch overflow"
                  ELSE "invalid record"
<1>1. /\ server.up /\ Arrived(c2s, p) /\ c2s' = [c2s EXCEPT ![p] = Tail(@)]
      /\ p = server.carrier \/ server.draining # {}
      /\ link' = Closed(link, Paths) /\ s2c' = s2c
      /\ server' = Down(e, why)
      /\ ~(DataOk(e, r) \/ PingOk(e, r) \/ InitOk(e, r)
           \/ FullInitOk(e, r) \/ CommitOk(e, r) \/ FullConfirmOk(e, r))
  BY DEF ServerRejects, Reads
<1>2. /\ c2s \in Queues /\ ServerOk(server) /\ client.sock \in Paths
      /\ server.carrier \in Paths /\ c2s[p] # <<>>
  BY <1>1, ClientFacts DEF NonceInv, TypeOK, ServerStates, Arrived
<1>3. /\ c2s' \in Queues /\ Taken(c2s, c2s', p) /\ r = c2s[p][1]
  BY <1>1, <1>2, TailTaken
<1>4. r \in InFlight(c2s) /\ r \in On(c2s, p)
  BY <1>2, <1>3, TakenFacts
<1>5. server.epoch >= 0
  BY <1>1 DEF KeyInv, KeysHold, EpochsFit
<1>6. /\ Like(server, e) /\ Still(server, e) /\ e.reason = server.reason
      /\ e.previous \subseteq server.previous /\ e \in ServerStates
  BY <1>2, OpenedLike, OpenedFacts
<1> HIDE DEF e, r
<1>7. KeysHold(server, client, InFlight(s2c), InFlight(c2s))
  BY DEF KeyInv
<1>8. KnownEpoch(e, r) => InitAtLimit(e, r)
  BY <1>1, <1>2, <1>4, <1>5, <1>6, <1>7, NeverInvalid
<1>9. why # "invalid record"
  BY <1>8
<1> HIDE DEF why
<1>10. Good(server, client, c2s', s2c, link)
  BY <1>2, <1>3, <1>5, GoodTaken
<1>11. LikeC(client, client) /\ Calm(e, client)
  BY <1>6, <1>10, LikeItself DEF Good, Calm, Like
<1>12. Good(e, client, c2s', s2c, link)
  BY <1>6, <1>10, <1>11, GoodLike
<1>13. Shut(link, link')
  BY <1>1, ClosedShut
<1>14. Good(Down(e, why), client, c2s', s2c, link')
  BY <1>2, <1>6, <1>9, <1>12, <1>13, GoodDown
<1> QED
  BY <1>1, <1>14 DEF TranscriptInv, Fine

\* What the server answers to a data record or a ping is not counted, and
\* moves nothing else.
LEMMA AnswerLike ==
  ASSUME NEW s, ServerOk(s), NEW r
  PROVE  /\ Like(s, SealData(s).state) /\ Still(s, SealData(s).state)
         /\ SealData(s).state.reason = s.reason
         /\ PlainOut(SealData(s).state, SealData(s).out)
         /\ Like(s, HandlePing(s, r).state) /\ Still(s, HandlePing(s, r).state)
         /\ HandlePing(s, r).state.reason = s.reason
         /\ PlainOut(HandlePing(s, r).state, HandlePing(s, r).out)
<1>0. /\ s \in ServerStates /\ s.epoch \in Int /\ s.secret \in Transcripts
      /\ s.data_number \in Nat
  BY ServerFacts
<1>1. /\ Like(s, SealData(s).state) /\ Still(s, SealData(s).state)
      /\ SealData(s).state.reason = s.reason
      /\ PlainOut(SealData(s).state, SealData(s).out)
  <2> DEFINE t == [s EXCEPT !.data_records = @ + 1, !.data_number = @ + 1]
             a == DataRecord(s)
  <2>1. SealData(s).state = t /\ SealData(s).out = <<a>>
    BY DEF SealData
  <2>2. /\ t.transcript = s.transcript /\ t.epoch = s.epoch
        /\ t.secret = s.secret /\ t.pending = s.pending
        /\ t.carrier = s.carrier /\ t.validating = s.validating
        /\ t.draining = s.draining /\ t.reason = s.reason
    BY <1>0 DEF ServerStates
  <2>3. t.update_requested = s.update_requested /\ t.offered = s.offered
    BY <1>0 DEF ServerStates
  <2>4. a \in Records /\ a.type = "data"
    <3>1. /\ "server" \in Froms /\ "data" \in Kinds /\ "data" \in Types
          /\ <<>> \in Tags
      BY DEF Froms, Kinds, Types, Tags, Transcripts
    <3> QED
      BY <1>0, <3>1, RecordFacts DEF DataRecord
  <2>5. a.epoch = s.epoch /\ a.key = s.secret
    BY DEF DataRecord, Record
  <2> HIDE DEF t, a
  <2>6. Like(s, t) /\ Still(s, t)
    BY <2>2, <2>3 DEF Like, Still
  <2>7. PlainOut(t, <<a>>)
    BY <2>2, <2>4, <2>5 DEF PlainOut
  <2> QED
    BY <2>1, <2>2, <2>6, <2>7
<1>2. /\ Like(s, HandlePing(s, r).state) /\ Still(s, HandlePing(s, r).state)
      /\ HandlePing(s, r).state.reason = s.reason
      /\ PlainOut(HandlePing(s, r).state, HandlePing(s, r).out)
  <2> DEFINE t == [s EXCEPT !.control_number = @ + 1]
             a == ControlRecord(s, "pong", <<>>)
  <2>1. HandlePing(s, r).state = t /\ HandlePing(s, r).out = <<a>>
    BY DEF HandlePing
  <2>2. /\ t.transcript = s.transcript /\ t.epoch = s.epoch
        /\ t.secret = s.secret /\ t.pending = s.pending
        /\ t.carrier = s.carrier /\ t.validating = s.validating
        /\ t.draining = s.draining /\ t.reason = s.reason
    BY <1>0 DEF ServerStates
  <2>3. t.update_requested = s.update_requested /\ t.offered = s.offered
    BY <1>0 DEF ServerStates
  <2>4. a \in Records /\ a.type = "pong"
    <3>1. "pong" \in Types /\ <<>> \in Tags
      BY DEF Types, Tags, Transcripts
    <3> QED
      BY <1>0, <3>1, ControlFacts
  <2>5. a.epoch = s.epoch /\ a.key = s.secret
    BY DEF ControlRecord, Record
  <2> HIDE DEF t, a
  <2>6. Like(s, t) /\ Still(s, t)
    BY <2>2, <2>3 DEF Like, Still
  <2>7. PlainOut(t, <<a>>)
    BY <2>2, <2>4, <2>5 DEF PlainOut
  <2> QED
    BY <2>1, <2>2, <2>6, <2>7
<1> QED
  BY <1>1, <1>2

\* Likenesses compose.
LEMMA LikeTwice ==
  ASSUME NEW s, NEW t, NEW u, Like(s, t), Like(t, u), Still(s, t), Still(t, u)
  PROVE  Like(s, u) /\ Still(s, u)
BY DEF Like, Still

\* Every record the server receives after the handshake.
LEMMA ReceiveGood ==
  ASSUME NonceInv, KeyInv, Good(server, client, c2s, s2c, link),
         UNCHANGED client, ServerReceives
  PROVE  TranscriptInv'
<1>1. PICK p \in Paths :
        \/ ServerHandles(p, DataOk, HandlePacket)
        \/ ServerHandles(p, DataOk, HandleProbe)
        \/ ServerHandles(p, PingOk, HandlePing)
        \/ ServerHandles(p, InitOk, AcceptUpdateInit)
        \/ ServerHandles(p, FullInitOk, AcceptFullRekeyInit)
        \/ ServerHandles(p, CommitOk, AcceptUpdateCommit)
        \/ ServerHandles(p, FullConfirmOk, AcceptFullRekeyConfirm)
        \/ ServerRejects(p)
  BY DEF ServerReceives
<1> DEFINE r == Head(c2s[p])
           e == ExpirePrevious(server)
           s == Opened(e, r)
           used == DOMAIN sealed
<1>2. /\ server.up /\ Arrived(c2s, p) /\ c2s' = [c2s EXCEPT ![p] = Tail(@)]
      /\ p = server.carrier \/ server.draining # {}
  BY <1>1 DEF ServerHandles, ServerRejects, Reads
<1>3. /\ c2s \in Queues /\ ServerOk(server) /\ c2s[p] # <<>>
  BY <1>2 DEF NonceInv, TypeOK, Arrived
<1>4. /\ c2s' \in Queues /\ Taken(c2s, c2s', p) /\ r = c2s[p][1]
      /\ r \in Records
  BY <1>2, <1>3, TailTaken
<1>5. /\ ServerOk(s) /\ ~Handshaking(s) /\ used \subseteq Nonces
      /\ ServerCovers(s, used) /\ s \in ServerStates
  BY <1>2, OpenedOk, ServerFacts
<1>6. /\ Like(server, e) /\ Like(server, s) /\ Still(server, s)
      /\ s.reason = server.reason
  BY <1>3, OpenedLike
<1>7. /\ s.epoch = e.epoch /\ s.secret = e.secret /\ s.pending = e.pending
      /\ s.epoch = server.epoch /\ s.pending = server.pending
      /\ s.carrier = server.carrier
  BY <1>6 DEF Like
<1>8. server.epoch >= 0 /\ s.epoch >= 0
  BY <1>2, <1>7 DEF KeyInv, KeysHold, EpochsFit
<1> HIDE DEF e, s, r
<1>9. LikeC(client, client) /\ Calm(s, client)
  BY <1>6, LikeItself DEF Good, Calm, Like
<1>10. Good(s, client, c2s, s2c, link)
  BY <1>6, <1>9, GoodLike
<1>11. Shut(link, link)
  BY ClosedShut
<1>12. p = s.carrier \/ s.draining # {}
  <2>1. server.draining # {} => s.draining # {}
    <3>1. e.draining = server.draining
      BY <1>3 DEF ExpirePrevious, e, ServerOk, ServerStates
    <3>2. e \in ServerStates
      BY <1>3, OpenedFacts DEF e
    <3>3. s.draining = e.draining
      BY <3>2 DEF Opened, s, ServerStates
    <3> QED
      BY <3>1, <3>3
  <2> QED
    BY <1>2, <1>7, <2>1
<1>13. CASE ServerHandles(p, DataOk, HandlePacket)
  <2>1. ServerFinish(s, p, <<>>, link)
    BY <1>13 DEF ServerHandles, HandlePacket, e, s, r
  <2>2. PlainOut(s, <<>>)
    BY DEF PlainOut
  <2> QED
    BY <1>2, <1>4, <1>5, <1>6, <1>8, <1>11, <2>1, <2>2, AnswerGood
<1>14. CASE \/ ServerHandles(p, DataOk, HandleProbe)
            \/ ServerHandles(p, PingOk, HandlePing)
  <2>1. PICK h : /\ h = SealData(s) \/ h = HandlePing(s, r)
                 /\ ServerFinish(h.state, p, h.out, link)
    BY <1>14 DEF ServerHandles, HandleProbe, e, s, r
  <2> DEFINE t == h.state
             out == h.out
  <2>2. t \in ServerStates
    BY <1>5, <2>1, DataOutcome, PingOutcome DEF Outcome, ServerOk
  <2>3. Like(s, t) /\ Still(s, t) /\ t.reason = s.reason /\ PlainOut(t, out)
    BY <1>5, <2>1, AnswerLike
  <2>4. ServerFinish(t, p, out, link)
    BY <2>1
  <2> HIDE DEF t, out
  <2>5. Like(server, t) /\ Still(server, t) /\ t.reason = server.reason
    BY <1>6, <2>3, LikeTwice
  <2> QED
    BY <1>2, <1>4, <1>8, <1>11, <2>2, <2>3, <2>4, <2>5, AnswerGood
<1>15. CASE \/ ServerHandles(p, InitOk, AcceptUpdateInit)
            \/ ServerHandles(p, FullInitOk, AcceptFullRekeyInit)
  <2>1. PICK h : /\ \/ r.type = "init" /\ h = AcceptUpdateInit(s, r)
                    \/ r.type = "full_init" /\ h = AcceptFullRekeyInit(s, r)
                 /\ ServerFinish(h.state, p, h.out, link)
                 /\ e.epoch < MaxEpoch
    BY <1>15 DEF ServerHandles, InitOk, FullInitOk, e, s, r
  <2>2. h.state \in ServerStates
    BY <1>4, <1>5, <2>1, InitOutcome, FullInitOutcome DEF Outcome, ServerOk
  <2>3. s.epoch < MaxEpoch
    BY <1>7, <2>1
  <2> QED
    BY <1>4, <1>5, <1>8, <1>10, <1>12, <2>1, <2>2, <2>3, AcceptGood
<1>16. CASE ServerHandles(p, CommitOk, AcceptUpdateCommit)
            \/ ServerHandles(p, FullConfirmOk, AcceptFullRekeyConfirm)
  <2>1. /\ ServerFinish(Switched(s, r).state, p, Switched(s, r).out, link)
        /\ CommitOk(e, r) \/ FullConfirmOk(e, r)
    BY <1>16 DEF ServerHandles, AcceptUpdateCommit, AcceptFullRekeyConfirm,
                 e, s, r
  <2>2. r.type \in {"commit", "confirm"} /\ OpensPending(s, r)
    BY <1>7, <2>1 DEF CommitOk, FullConfirmOk, Confirms, OpensPending
  <2>3. s.pending # {}
    BY <2>2 DEF OpensPending
  <2>4. Switched(s, r).state \in ServerStates
    BY <1>4, <1>5, <2>3, SwitchOutcome DEF Outcome, ServerOk
  <2>5. /\ \A x, y \in s.pending : x = y
        /\ \A x \in s.pending : x.epoch = s.epoch + 1
    BY <1>7 DEF KeyInv, KeysHold, ServerKeys
  <2> QED
    BY <1>4, <1>5, <1>8, <1>10, <1>12, <2>1, <2>2, <2>4, <2>5, SwitchGood
<1>17. CASE ServerRejects(p)
  BY <1>17, RejectGood
<1> QED
  BY <1>1, <1>13, <1>14, <1>15, <1>16, <1>17

\* While the client dials, the server prepares no epoch.
LEMMA DiallingIdle ==
  ASSUME NEW s, NEW c, NEW S, NEW C, Phase(s, c, S, C), c.dialling
  PROVE  s.pending = {}
<1>1. ~Together(s, c) /\ ~Moving(s, c)
  BY DEF Together, Moving
<1>2. \A x, l : ~Opening(x, l, s, c)
  BY <1>1 DEF Opening
<1> QED
  BY <1>1, <1>2
     DEF Phase, Greeting, Level, Asked, Started, Replied, Committing, Ahead,
         Challenged, AheadAsked, ChallengedAsked, Responded, RespondedStarted,
         Idle

\* Nor while a response is on its way.
LEMMA ResponseIdle ==
  ASSUME NEW s, NEW c, NEW S, NEW C, NEW r \in C, Phase(s, c, S, C),
         r.type = "response"
  PROVE  s.pending = {} /\ (s.epoch >= 0 => Even(s, c)) /\ Flight(S, {})
<1>1. ~Flight(C, {})
  BY DEF Flight, Plain
<1>2. ASSUME NEW y, Flight(C, {y}) PROVE y = r
  BY <1>2 DEF Flight, Plain
<1>3. ~Greeting(s, c, S, C) /\ ~Level(s, c, S, C)
  BY <1>1 DEF Greeting, Level, Clear, Record, HandshakeRecord
<1>4. ASSUME NEW x PROVE /\ ~Asked(x, s, c, S, C) /\ ~Replied(x, s, c, S, C)
                         /\ ~Ahead(x, s, c, S, C)
                         /\ ~Challenged(x, s, c, S, C)
                         /\ \A z : /\ ~AheadAsked(x, z, s, c, S, C)
                                   /\ ~ChallengedAsked(x, z, s, c, S, C)
  BY <1>1 DEF Asked, Replied, Ahead, Challenged, AheadAsked, ChallengedAsked
<1>5. ASSUME NEW x, Started(x, s, c, S, C) \/ Committing(x, s, c, S, C)
      PROVE  FALSE
  BY <1>2, <1>5 DEF Started, InitFits, Committing
<1>6. ASSUME NEW x, NEW l, Opening(x, l, s, c)
      PROVE  s.epoch >= 0 => Even(s, c)
  BY <1>6 DEF Opening
<1> QED
  BY <1>3, <1>4, <1>5, <1>6 DEF Phase, Responded, RespondedStarted, Idle

\* The second carrier is offered, and challenged.
LEMMA ChallengeGood ==
  ASSUME NonceInv, KeyInv, Good(server, client, c2s, s2c, link),
         UNCHANGED client, ServerChallenges
  PROVE  TranscriptInv'
<1> DEFINE s == server
           c == client
           S == InFlight(s2c)
           C == InFlight(c2s)
           a == ControlRecord(s, "challenge", <<>>)
           u == Append(s.transcript, Label(a))
           t == [s EXCEPT !.offered = TRUE, !.transcript = u,
                          !.control_number = @ + 1,
                          !.validating = {PATH_TIMEOUT}]
           n == Sent(s2c, "second", <<a>>)
<1>1. /\ ServerOk(s) /\ s \in ServerStates /\ s2c \in Queues
      /\ "second" \in Paths /\ c.sock \in Paths /\ s.carrier \in Paths
      /\ c.epoch \in Int /\ s.epoch \in Int
  <2>1. ServerOk(s) /\ s2c \in Queues /\ c.sock \in Paths /\ c.epoch \in Int
    BY ClientFacts DEF NonceInv, TypeOK
  <2> QED
    BY <2>1 DEF ServerOk, ServerStates, Paths
<1>2. s.up /\ ~s.offered /\ link["second"] # "none" /\ c2s' = c2s
  BY DEF ServerChallenges
<1>3. s.epoch >= 0
  BY <1>2 DEF KeyInv, KeysHold, EpochsFit
<1>4. /\ Calm(s, c) /\ Phase(s, c, S, C) /\ Places(s, c, c2s, s2c, link)
      /\ Lines(s, c, c2s, s2c, link)
  BY DEF Good
<1>5. c.sock = "second" /\ c.dialling /\ s.carrier = "first"
  BY <1>1, <1>2, <1>4 DEF Places, Paths
<1>6. s.pending = {}
  BY <1>4, <1>5, DiallingIdle
<1>7. server' = t /\ s2c' = n /\ link' = link
  BY <1>1, <1>6 DEF ServerChallenges, ServerStates
<1>8. a \in Records /\ a.type = "challenge"
  <2>1. "challenge" \in Types /\ <<>> \in Tags
    BY DEF Types, Tags, Transcripts
  <2> QED
    BY <1>1, <2>1, ControlFacts
<1>9. a.epoch = s.epoch /\ a.key = s.secret
  BY DEF ControlRecord, Record
<1> HIDE DEF a, u
<1>10. /\ t.transcript = u /\ t.epoch = s.epoch
       /\ t.secret = s.secret /\ t.pending = s.pending
       /\ t.carrier = s.carrier /\ t.validating = {PATH_TIMEOUT}
       /\ t.draining = s.draining /\ t.reason = s.reason
  BY <1>1 DEF ServerStates
<1>11. t.update_requested = s.update_requested /\ t.offered = TRUE
  BY <1>1 DEF ServerStates
<1>12. n \in Queues /\ Put(s2c, n, "second", a, link)
  BY <1>1, <1>8, SentPut
<1> HIDE DEF t, n
<1>13. InFlight(n) \subseteq S \cup {a}
  BY <1>1, <1>12, PutFacts
<1> HIDE DEF S, C
<1>14. a \notin S /\ Phase(t, c, InFlight(n), C)
  <2>1. /\ t.transcript = Append(s.transcript, Label(a))
    BY <1>10 DEF u
  <2>2. t.offered /\ (s.update_requested => t.update_requested)
    BY <1>11
  <2>3. /\ t.epoch = s.epoch /\ t.secret = s.secret /\ t.pending = s.pending
        /\ t.carrier = s.carrier
    BY <1>10
  <2> QED
    BY <1>2, <1>3, <1>4, <1>5, <1>8, <1>13, <2>1, <2>2, <2>3,
       PhaseChallenged
<1>15. Places(t, c, c2s, s2c, link)
  BY <1>2, <1>4, <1>5, <1>10, <1>11 DEF Places
<1>16. Calm(t, c)
  BY <1>4, <1>10 DEF Calm
<1>17. c.sock # "first" /\ a.type # "ping" /\ t.carrier \in Paths
  BY <1>1, <1>5, <1>8, <1>10
<1>18. Good(t, c, c2s, n, link)
  BY <1>1, <1>3, <1>4, <1>8, <1>9, <1>10, <1>12, <1>14, <1>15, <1>16, <1>17,
     GoodSays DEF S, C
<1> QED
  BY <1>2, <1>7, <1>18 DEF TranscriptInv, Fine

\* What comes on the second carrier while its path is validated.
LEMMA ValidateGood ==
  ASSUME NonceInv, KeyInv, Good(server, client, c2s, s2c, link),
         UNCHANGED client, ServerValidates
  PROVE  TranscriptInv'
<1> DEFINE c == client
           r == Head(c2s["second"])
           e == ExpirePrevious(server)
           o == Opened(e, r)
           S == InFlight(s2c)
           C == InFlight(c2s)
           C1 == InFlight(c2s')
<1>1. /\ ServerOk(server) /\ c2s \in Queues /\ s2c \in Queues
      /\ "second" \in Paths /\ c.sock \in Paths /\ server.carrier \in Paths
  <2>1. /\ ServerOk(server) /\ s2c \in Queues /\ c.sock \in Paths
        /\ c2s \in Queues
    BY ClientFacts DEF NonceInv, TypeOK
  <2> QED
    BY <2>1 DEF ServerOk, ServerStates, Paths
<1>2. /\ server.up /\ server.validating # {} /\ c2s["second"] # <<>>
      /\ c2s' = [c2s EXCEPT !["second"] = Tail(@)]
  BY DEF ServerValidates, Arrived
<1>3. server.epoch >= 0
  BY <1>2 DEF KeyInv, KeysHold, EpochsFit
<1>4. /\ c2s' \in Queues /\ Taken(c2s, c2s', "second") /\ r = c2s["second"][1]
      /\ r \in Records
  BY <1>1, <1>2, TailTaken
<1>5. /\ Phase(server, c, S, C) /\ Once(c2s)
      /\ Places(server, c, c2s, s2c, link)
  BY DEF Good, Lines
<1>6. /\ C1 \subseteq C /\ r \in C /\ r \in On(c2s, "second")
      /\ ~Plain(r) => r \notin C1
  BY <1>1, <1>4, <1>5, TakenFacts
<1>7. /\ server.offered /\ server.carrier = "first" /\ c.sock = "second"
      /\ ~c.dialling
  BY <1>1, <1>2, <1>5, <1>6 DEF Places, Paths
<1>8. Good(server, c, c2s', s2c, link)
  BY <1>1, <1>3, <1>4, GoodTaken
<1>9. /\ Like(server, e) /\ Like(server, o)
      /\ Still(server, e) /\ Still(server, o)
      /\ e.reason = server.reason /\ o.reason = server.reason
      /\ e \in ServerStates /\ o \in ServerStates
  BY <1>1, OpenedLike, OpenedFacts
<1>10. Shut(link, link) /\ Shut(link, Closed(link, {"second"}))
  BY ClosedShut
<1>11. CASE PathResponseOk(e, r)
  <2> DEFINE u == Append(e.transcript, Label(r))
             t == [e EXCEPT !.transcript = u, !.validating = {},
                            !.carrier = "second", !.draining = {DRAIN_TIME}]
  <2>1. ServerFinish(CarrierSwitched(e, r), "second", <<>>, link)
    BY <1>11 DEF ServerValidates
  <2>2. r.type = "response"
    BY <1>11 DEF PathResponseOk
  <2> HIDE DEF e, r
  <2>3. CarrierSwitched(e, r) = t
    BY <1>9 DEF CarrierSwitched, ServerStates
  <2>4. e.transcript \in Transcripts /\ DRAIN_TIME \in Nat
    BY <1>9, KeyUpdateAssumption DEF ServerStates
  <2>5. u \in Transcripts
    BY <1>4, <2>4, Extends
  <2>6. e.transcript = server.transcript
    BY <1>9 DEF Like
  <2> HIDE DEF u
  <2>7. t \in ServerStates
    BY <1>1, <1>9, <2>4, <2>5 DEF ServerStates
  <2>8. /\ t.secret = e.secret /\ t.epoch = e.epoch /\ t.pending = e.pending
        /\ t.transcript = u /\ t.validating = {} /\ t.carrier = "second"
        /\ t.reason = e.reason
    BY <1>9 DEF ServerStates
  <2>9. t.offered = e.offered
    BY <1>9 DEF ServerStates
  <2> HIDE DEF t
  <2>10. /\ t.secret = server.secret /\ t.epoch = server.epoch
         /\ t.pending = server.pending /\ t.reason = server.reason
    BY <1>9, <2>8 DEF Like
  <2>11. t.offered
    BY <1>7, <1>9, <2>9 DEF Like
  <2>12. Phase(t, c, S, C1)
    <3>1. r \notin C1
      BY <1>6, <2>2 DEF Plain
    <3>2. server.pending = {} /\ Even(server, c)
      BY <1>3, <1>5, <1>6, <2>2, ResponseIdle
    <3>3. Even(t, c) /\ t.pending = {} /\ Together(t, c)
      BY <1>7, <2>8, <2>10, <3>2 DEF Even, Together
    <3>4. t.transcript = Append(server.transcript, Label(r))
      BY <2>6, <2>8 DEF u
    <3> DEFINE k == "response"
    <3>5. /\ k = r.type /\ k \in {"response", "client_confirm"}
          /\ k = "client_confirm" => server.epoch = -1
          /\ k = "response" => server.epoch >= 0
          /\ t.transcript = Append(server.transcript,
                              IF k = "response" THEN Label(r) ELSE k)
      BY <1>3, <2>2, <3>4
    <3> HIDE DEF k, S, C, C1
    <3> QED
      BY <1>5, <1>6, <3>1, <3>3, <3>5, PhaseOpened
  <2>13. Places(t, c, c2s', s2c, link)
    BY <1>7, <1>8, <2>8, <2>11 DEF Good, Places
  <2>14. Lines(t, c, c2s', s2c, link)
    BY <1>8, <2>10 DEF Good, Lines, DoneFirst, Keyed
  <2>15. Calm(t, c)
    BY <1>8, <2>10 DEF Good, Calm
  <2>16. Good(t, c, c2s', s2c, link)
    BY <2>12, <2>13, <2>14, <2>15 DEF Good
  <2>17. Sent(s2c, "second", <<>>) = s2c
    BY <1>1, SentNothing
  <2>18. t.epoch >= 0 /\ ServerFinish(t, "second", <<>>, link)
    BY <1>3, <2>1, <2>3, <2>10
  <2> QED
    BY <1>1, <1>10, <2>7, <2>16, <2>17, <2>18, FinishGood
<1>12. CASE ~PathResponseOk(e, r)
  <2> DEFINE t == [o EXCEPT !.validating = {}]
  <2>1. ServerFinish(t, "second", <<>>, Closed(link, {"second"}))
    BY <1>12 DEF ServerValidates
  <2> HIDE DEF o
  <2>2. t \in ServerStates
    BY <1>9 DEF ServerStates
  <2>3. /\ t.secret = o.secret /\ t.epoch = o.epoch /\ t.pending = o.pending
        /\ t.transcript = o.transcript /\ t.validating = {}
        /\ t.carrier = o.carrier /\ t.draining = o.draining
        /\ t.reason = o.reason
    BY <1>9 DEF ServerStates
  <2>4. t.offered = o.offered /\ t.update_requested = o.update_requested
    BY <1>9 DEF ServerStates
  <2> HIDE DEF t
  <2>5. Like(o, t) /\ Still(o, t)
    BY <2>3, <2>4 DEF Like, Still
  <2>6. Like(server, t) /\ Still(server, t) /\ t.reason = server.reason
    BY <1>9, <2>3, <2>5, LikeTwice
  <2> QED
    BY <1>1, <1>3, <1>8, <1>10, <2>1, <2>2, <2>6, QuietGood
<1> QED
  BY <1>11, <1>12

\* The other events of an established session.
LEMMA OtherGood ==
  ASSUME NonceInv, KeyInv, Good(server, client, c2s, s2c, link),
         UNCHANGED client,
         \/ ServerGivesUpPath \/ ServerEndsDrain \/ ServerSends
         \/ ServerTimer \/ ServerStops \/ ServerSeesClose
  PROVE  TranscriptInv'
<1>1. /\ ServerOk(server) /\ ServerCovers(server, DOMAIN sealed)
      /\ DOMAIN sealed \subseteq Nonces
      /\ server \in ServerStates /\ server.carrier \in Paths
      /\ "first" \in Paths /\ "second" \in Paths /\ client.sock \in Paths
  <2>1. ServerOk(server) /\ client.sock \in Paths
    BY ClientFacts DEF NonceInv
  <2>2. server.carrier \in Paths
    BY <2>1 DEF ServerOk, ServerStates
  <2> QED
    BY <2>1, <2>2, ServerFacts DEF NonceInv, TypeOK, Paths
<1>2. c2s' = c2s /\ server.up
  BY DEF ServerGivesUpPath, ServerEndsDrain, ServerSends, ServerTimer,
         ServerStops, ServerSeesClose
<1>3. server.epoch >= 0 /\ Good(server, client, c2s', s2c, link)
  BY <1>2 DEF KeyInv, KeysHold, EpochsFit
<1>4. /\ Like(server, server) /\ Still(server, server)
      /\ \A lk, P : Shut(lk, lk) /\ Shut(lk, Closed(lk, P))
  BY LikeItself, ClosedShut
<1>5. CASE ServerGivesUpPath
  <2> DEFINE t == [server EXCEPT !.validating = {}]
             links == Closed(link, {"second"})
  <2>1. t \in ServerStates
    BY <1>1 DEF ServerStates
  <2>2. /\ t.secret = server.secret /\ t.epoch = server.epoch
        /\ t.pending = server.pending /\ t.transcript = server.transcript
        /\ t.validating = {} /\ t.carrier = server.carrier
        /\ t.draining = server.draining /\ t.reason = server.reason
    BY <1>1 DEF ServerStates
  <2>3. /\ t.offered = server.offered
        /\ t.update_requested = server.update_requested
    BY <1>1 DEF ServerStates
  <2>4. ServerFinish(t, "second", <<>>, links) /\ Shut(link, links)
    BY <1>4, <1>5 DEF ServerGivesUpPath
  <2> HIDE DEF t, links
  <2>5. Like(server, t) /\ Still(server, t)
    BY <2>2, <2>3 DEF Like, Still
  <2> QED
    BY <1>1, <1>3, <2>1, <2>2, <2>4, <2>5, QuietGood
<1>6. CASE ServerEndsDrain
  <2> DEFINE t == [server EXCEPT !.draining = {}]
             links == Closed(link, {"first"})
  <2>1. t \in ServerStates
    BY <1>1 DEF ServerStates
  <2>2. /\ t.secret = server.secret /\ t.epoch = server.epoch
        /\ t.pending = server.pending /\ t.transcript = server.transcript
        /\ t.draining = {} /\ t.carrier = server.carrier
        /\ t.validating = server.validating /\ t.reason = server.reason
    BY <1>1 DEF ServerStates
  <2>3. /\ t.offered = server.offered
        /\ t.update_requested = server.update_requested
    BY <1>1 DEF ServerStates
  <2>4. ServerFinish(t, "first", <<>>, links) /\ Shut(link, links)
    BY <1>4, <1>6 DEF ServerEndsDrain
  <2> HIDE DEF t, links
  <2>5. Like(server, t) /\ Still(server, t)
    BY <2>2, <2>3 DEF Like, Still
  <2> QED
    BY <1>1, <1>3, <2>1, <2>2, <2>4, <2>5, QuietGood
<1>7. CASE ServerSends
  <2> DEFINE t == SealData(server).state
             out == SealData(server).out
             p == server.carrier
  <2>1. ServerFinish(t, p, out, link)
    BY <1>7 DEF ServerSends
  <2>2. ~Handshaking(server)
    BY <1>2 DEF Handshaking
  <2>3. t \in ServerStates
    BY <1>1, <2>2, DataOutcome DEF Outcome, ServerOk
  <2>4. /\ Like(server, t) /\ Still(server, t) /\ t.reason = server.reason
        /\ PlainOut(t, out)
    BY <1>1, AnswerLike
  <2> HIDE DEF t, out
  <2>5. (t.carrier = "first" => p = "first") /\ p \in Paths
    BY <1>1, <2>4 DEF Like
  <2> HIDE DEF p
  <2> QED
    BY <1>3, <1>4, <2>1, <2>3, <2>4, <2>5, EventGood
<1>8. CASE ServerTimer
  <2>1. ServerFinish(server, server.carrier, <<>>, link)
    BY <1>8 DEF ServerTimer
  <2> QED
    BY <1>1, <1>3, <1>4, <2>1, QuietGood
<1>9. CASE ServerStops \/ ServerSeesClose
  <2>1. PICK why : /\ why \in {"stopped", "closed"}
                   /\ server' = Down(server, why)
    BY <1>9 DEF ServerStops, ServerSeesClose
  <2>2. s2c' = s2c /\ Shut(link, link') /\ client' = client
    BY <1>4, <1>9 DEF ServerStops, ServerSeesClose
  <2>3. Good(Down(server, why), client, c2s', s2c, link')
    BY <1>1, <1>3, <2>1, <2>2, GoodDown
  <2> QED
    BY <2>1, <2>2, <2>3 DEF TranscriptInv, Fine
<1> QED
  BY <1>5, <1>6, <1>7, <1>8, <1>9

-----------------------------------------------------------------------------
(* The handshake, from step to step                                        *)

\* Before the server is up the handshake is going on, or CLIENT_CONFIRM is all
\* that is missing.
LEMMA EarlyPhase ==
  ASSUME NEW s, NEW c, NEW S, NEW C, Phase(s, c, S, C), s.epoch = -1,
         c.epoch \in Int
  PROVE  \/ Greeting(s, c, S, C)
         \/ /\ s.transcript = ToFinish /\ c.epoch = 0 /\ Together(s, c)
            /\ s.pending = {}
            /\ \A r \in C :
                 \/ Plain(r) \/ r.type \in {"init", "full_init"}
                 \/ r = HandshakeRecord("client", 1, "client_confirm", ToFinish)
<1>1. ~Even(s, c)
  BY DEF Even
<1>2. \A x : ~DoneFits(x, s, c)
  BY DEF DoneFits
<1>3. ASSUME NEW x, NEW l, Opening(x, l, s, c)
      PROVE  /\ s.transcript = ToFinish /\ c.epoch = 0 /\ Together(s, c)
             /\ x = HandshakeRecord("client", 1, "client_confirm", ToFinish)
  BY <1>1, <1>3 DEF Opening
<1>4. ASSUME NEW x, NEW l, Responded(x, l, s, c, S, C)
      PROVE  /\ s.transcript = ToFinish /\ c.epoch = 0 /\ Together(s, c)
             /\ s.pending = {}
             /\ \A r \in C : Plain(r) \/
                  r = HandshakeRecord("client", 1, "client_confirm", ToFinish)
  <2>1. Opening(x, l, s, c) /\ Idle(s, c) /\ Flight(C, {x})
    BY <1>4 DEF Responded
  <2> QED
    BY <1>3, <2>1 DEF Idle, Flight
<1>5. ASSUME NEW x, NEW z, NEW l, RespondedStarted(x, z, l, s, c, S, C)
      PROVE  /\ s.transcript = ToFinish /\ c.epoch = 0 /\ Together(s, c)
             /\ s.pending = {}
             /\ \A r \in C :
                  \/ Plain(r) \/ r.type \in {"init", "full_init"}
                  \/ r = HandshakeRecord("client", 1, "client_confirm",
                                         ToFinish)
  <2>1. /\ Opening(x, l, s, c) /\ s.pending = {} /\ Flight(C, {x, z})
        /\ z.type \in {"init", "full_init"}
    BY <1>5 DEF RespondedStarted, InitFits
  <2> QED
    BY <1>3, <2>1 DEF Flight
<1>6. CASE \E x, l : Responded(x, l, s, c, S, C)
  BY <1>4, <1>6
<1>7. CASE \E x, z, l : RespondedStarted(x, z, l, s, c, S, C)
  BY <1>5, <1>7
<1>8. \/ Greeting(s, c, S, C)
      \/ \E x, l : Responded(x, l, s, c, S, C)
      \/ \E x, z, l : RespondedStarted(x, z, l, s, c, S, C)
  BY <1>1, <1>2
     DEF Phase, Level, Asked, Started, Replied, Committing, Ahead,
         Challenged, AheadAsked, ChallengedAsked
<1> QED
  BY <1>6, <1>7, <1>8

\* A step of the handshake keeps the queues in order.
LEMMA GreetGood ==
  ASSUME NEW s, NEW t, NEW c, NEW d, NEW cs, NEW sc, NEW lk, NEW n, NEW m,
         Places(s, c, cs, sc, lk), Greeting(s, c, InFlight(sc), InFlight(cs)),
         Greeting(t, d, InFlight(m), InFlight(n)), Once(n), Once(m),
         \A r \in InFlight(n) : Readable(r),
         On(n, "second") \subseteq On(cs, "second"),
         On(m, "second") \subseteq On(sc, "second"),
         t.offered <=> s.offered, Still(s, t), Calm(t, d)
  PROVE  Good(t, d, n, m, lk)
<1>1. c.sock = "first" /\ d.sock = "first" /\ t.carrier = "first" /\ ~d.dialling
      /\ t.epoch = -1 /\ d.epoch = -1
  BY DEF Greeting, Together
<1>2. /\ lk["second"] = "none" /\ On(n, "second") = {}
      /\ On(m, "second") = {} /\ ~s.offered
  BY <1>1 DEF Places
<1>3. Places(t, d, n, m, lk)
  BY <1>1, <1>2 DEF Places, Still
<1>4. Lines(t, d, n, m, lk)
  BY <1>1 DEF Lines
<1>5. Phase(t, d, InFlight(m), InFlight(n))
  BY DEF Phase
<1> QED
  BY <1>3, <1>4, <1>5 DEF Good

\* What the handshake leaves alone.
Aside(s, t) ==
  /\ t.epoch = s.epoch /\ t.pending = s.pending /\ t.carrier = s.carrier
  /\ t.validating = s.validating /\ t.draining = s.draining
  /\ t.reason = s.reason /\ t.secret = s.secret
  /\ t.offered <=> s.offered

\* A message of the handshake only joins the transcript.
LEMMA ExtendedAside ==
  ASSUME NEW s, ServerOk(s), NEW r, r.type \in Types
  PROVE  /\ ServerOk(Extended(s, r)) /\ Aside(s, Extended(s, r))
         /\ Extended(s, r).transcript = Append(s.transcript, r.type)
<1> DEFINE t == [s EXCEPT !.transcript = Append(@, r.type)]
<1>1. Extended(s, r) = t /\ s \in ServerStates
  BY DEF Extended, ServerOk
<1>2. ServerOk(Extended(s, r))
  BY ExtendedServer, GrowsOk
<1>3. /\ t.epoch = s.epoch /\ t.pending = s.pending /\ t.carrier = s.carrier
      /\ t.validating = s.validating /\ t.draining = s.draining
      /\ t.reason = s.reason /\ t.secret = s.secret
      /\ t.transcript = Append(s.transcript, r.type)
  BY <1>1 DEF ServerStates
<1>4. t.offered = s.offered
  BY <1>1 DEF ServerStates
<1> HIDE DEF t
<1>5. Aside(s, t)
  BY <1>3, <1>4 DEF Aside
<1> QED
  BY <1>1, <1>2, <1>3, <1>5

\* What a handshaking server finds when it reads.
LEMMA ServerIncoming ==
  ASSUME NonceInv, KeyInv, Good(server, client, c2s, s2c, link),
         Handshaking(server), Arrived(c2s, "first"),
         c2s' = [c2s EXCEPT !["first"] = Tail(@)]
  PROVE  LET r == Head(c2s["first"])
         IN  /\ c2s' \in Queues /\ Taken(c2s, c2s', "first")
             /\ r = c2s["first"][1] /\ r \in Records
             /\ r \in InFlight(c2s) /\ r \in On(c2s, "first")
             /\ InFlight(c2s') \subseteq InFlight(c2s) /\ Once(c2s')
             /\ ~Plain(r) => r \notin InFlight(c2s')
             /\ \A q \in InFlight(c2s') : Readable(q)
             /\ \A x \in Paths : On(c2s', x) \subseteq On(c2s, x)
             /\ server.epoch = -1 /\ client.epoch \in Int
             /\ ServerOk(server)
             /\ Phase(server, client, InFlight(s2c), InFlight(c2s))
             /\ Places(server, client, c2s, s2c, link)
             /\ Lines(server, client, c2s, s2c, link)
<1>1. c2s \in Queues /\ "first" \in Paths /\ c2s["first"] # <<>>
  BY DEF NonceInv, TypeOK, Paths, Arrived
<1>2. /\ c2s' \in Queues /\ Taken(c2s, c2s', "first")
      /\ Head(c2s["first"]) = c2s["first"][1] /\ Head(c2s["first"]) \in Records
  BY <1>1, TailTaken
<1>3. Once(c2s) /\ \A q \in InFlight(c2s) : Readable(q)
  BY DEF Good, Lines
<1>4. server.epoch = -1 /\ client.epoch \in Int /\ ServerOk(server)
  BY ClientFacts DEF NonceInv, KeyInv, KeysHold, EpochsFit
<1> DEFINE r == Head(c2s["first"])
<1>5. r = c2s["first"][1] /\ r \in Records
  BY <1>2
<1> HIDE DEF r
<1>6. /\ InFlight(c2s') \subseteq InFlight(c2s)
      /\ r \in InFlight(c2s) /\ r \in On(c2s, "first")
      /\ \A x \in Paths : On(c2s', x) \subseteq On(c2s, x)
      /\ Once(c2s') /\ (~Plain(r) => r \notin InFlight(c2s'))
  <2> DEFINE n == c2s'
  <2>1. n \in Queues /\ Taken(c2s, n, "first")
    BY <1>2
  <2> HIDE DEF n
  <2>2. /\ InFlight(n) \subseteq InFlight(c2s)
        /\ r \in InFlight(c2s) /\ r \in On(c2s, "first")
        /\ \A x \in Paths : On(n, x) \subseteq On(c2s, x)
        /\ Once(n) /\ (~Plain(r) => r \notin InFlight(n))
    BY <1>1, <1>3, <1>5, <2>1, TakenFacts
  <2> QED
    BY <2>2 DEF n
<1>7. \A q \in InFlight(c2s') : Readable(q)
  BY <1>3, <1>6
<1>8. /\ Phase(server, client, InFlight(s2c), InFlight(c2s))
      /\ Places(server, client, c2s, s2c, link)
      /\ Lines(server, client, c2s, s2c, link)
  BY DEF Good
<1> QED
  BY <1>2, <1>4, <1>5, <1>6, <1>7, <1>8 DEF r

\* The server's answer in the handshake.
LEMMA GreetedGood ==
  ASSUME NonceInv, KeyInv, Good(server, client, c2s, s2c, link),
         UNCHANGED <<client, link>>, Handshaking(server),
         Arrived(c2s, "first"), c2s' = [c2s EXCEPT !["first"] = Tail(@)],
         NEW a \in Records, s2c' = Sent(s2c, "first", <<a>>),
         Greeting(server, client, InFlight(s2c), InFlight(c2s)),
         InFlight(s2c) = {}, Aside(server, server'),
         Greeting(server', client, InFlight(s2c'), InFlight(c2s'))
  PROVE  TranscriptInv'
<1>1. s2c \in Queues /\ "first" \in Paths /\ "second" \in Paths
  BY DEF NonceInv, TypeOK, Paths
<1>2. s2c' \in Queues /\ Put(s2c, s2c', "first", a, link)
  BY <1>1, SentPut
<1>3. Once(s2c) /\ a \notin InFlight(s2c)
  BY DEF Good, Lines
<1>4. Once(s2c') /\ On(s2c', "second") = On(s2c, "second")
  BY <1>1, <1>2, <1>3, PutFacts
<1>5. /\ Once(c2s') /\ \A q \in InFlight(c2s') : Readable(q)
      /\ On(c2s', "second") \subseteq On(c2s, "second")
      /\ Places(server, client, c2s, s2c, link)
  BY <1>1, ServerIncoming
<1>6. /\ Still(server, server') /\ Calm(server', client)
      /\ server'.offered <=> server.offered
  BY DEF Good, Calm, Aside, Still
<1>7. Good(server', client, c2s', s2c', link)
  BY <1>4, <1>5, <1>6, GreetGood
<1> QED
  BY <1>7 DEF TranscriptInv, Fine

\* The server answers CLIENT_HELLO.
LEMMA HelloGood ==
  ASSUME NonceInv, KeyInv, Good(server, client, c2s, s2c, link),
         UNCHANGED client, ServerHello
  PROVE  TranscriptInv'
<1> DEFINE r == Head(c2s["first"])
           a == Clear("server", "server_hello", ToHello)
           s1 == Extended(server, r)
           S == InFlight(s2c)
           C == InFlight(c2s)
<1>1. /\ Handshaking(server) /\ Arrived(c2s, "first")
      /\ c2s' = [c2s EXCEPT !["first"] = Tail(@)]
      /\ r.type = "client_hello" /\ server.transcript = <<>> /\ link' = link
  BY DEF ServerHello, Incoming
<1>2. server' = Extended(s1, a) /\ s2c' = Sent(s2c, "first", <<a>>)
  BY <1>1 DEF ServerHello, ToHello
<1>3. /\ r \in C /\ InFlight(c2s') \subseteq C /\ ServerOk(server)
      /\ ~Plain(r) => r \notin InFlight(c2s')
      /\ Phase(server, client, S, C) /\ server.epoch = -1
      /\ client.epoch \in Int
  BY <1>1, ServerIncoming
<1>4. r \notin InFlight(c2s')
  BY <1>1, <1>3 DEF Plain
<1>5. /\ a \in Records /\ a.type = "server_hello" /\ a.type \in Types
      /\ r.type \in Types
  <2>1. /\ "server" \in Froms /\ "clear" \in Kinds
        /\ "server_hello" \in Types /\ <<>> \in Transcripts
        /\ "client_hello" \in Types /\ ToHello \in Tags
    BY HandshakeFacts DEF Froms, Kinds, Types, Transcripts, Tags
  <2> QED
    BY <1>1, <2>1 DEF Clear, Record, Records
<1> HIDE DEF r, a
<1>6. ServerOk(s1) /\ Aside(server, s1)
      /\ s1.transcript = Append(server.transcript, r.type)
  BY <1>3, <1>5, ExtendedAside
<1> HIDE DEF s1
<1>7. /\ Aside(s1, server')
      /\ server'.transcript = Append(s1.transcript, a.type)
  BY <1>2, <1>5, <1>6, ExtendedAside
<1>8. server'.transcript = ToHellos
  BY <1>1, <1>5, <1>6, <1>7, HandshakeFacts DEF ToHellos
<1>9. Aside(server, server') /\ Greets(server, server', client, client)
  BY <1>6, <1>7 DEF Aside, Greets
<1>10. Greeting(server, client, S, C)
  <2>1. server.transcript # ToFinish
    <3>1. Len(ToFinish) = 4 /\ Len(<<>>) = 0
      BY HandshakeFacts
    <3>2. ToFinish # <<>>
      BY <3>1
    <3> QED
      BY <1>1, <3>2
  <2> HIDE DEF S, C
  <2> QED
    BY <1>3, <2>1, EarlyPhase
<1>11. s2c \in Queues /\ "first" \in Paths
  BY DEF NonceInv, TypeOK, Paths
<1>12. InFlight(s2c') \subseteq S \cup {a}
  BY <1>2, <1>5, <1>11, SentInFlight
<1>13. S = {} /\ Greeting(server', client, InFlight(s2c'), InFlight(c2s'))
  <2> HIDE DEF S, C
  <2>1. InFlight(s2c') \subseteq
          S \cup {Clear("server", "server_hello", ToHello)}
    BY <1>12 DEF a
  <2>2. r \in C /\ server.transcript = <<>> /\ InFlight(c2s') \subseteq C
    BY <1>1, <1>3
  <2> QED
    BY <1>4, <1>8, <1>9, <1>10, <2>1, <2>2, GreetHellos
<1> QED
  BY <1>1, <1>2, <1>5, <1>9, <1>10, <1>13, GreetedGood

\* The server takes CLIENT_AUTH and finishes.
LEMMA FinishesGood ==
  ASSUME NonceInv, KeyInv, Good(server, client, c2s, s2c, link),
         UNCHANGED client, ServerFinishes
  PROVE  TranscriptInv'
<1> DEFINE r == Head(c2s["first"])
           s1 == Extended(server, r)
           a == SealHandshake(s1, "server", 0, "server_finish")
           S == InFlight(s2c)
           C == InFlight(c2s)
<1>1. /\ Handshaking(server) /\ Arrived(c2s, "first")
      /\ c2s' = [c2s EXCEPT !["first"] = Tail(@)]
      /\ AuthOk(r) /\ link' = link
      /\ server' = Extended(s1, a) /\ s2c' = Sent(s2c, "first", <<a>>)
  BY DEF ServerFinishes, Incoming
<1>2. /\ r \in C /\ InFlight(c2s') \subseteq C /\ ServerOk(server)
      /\ ~Plain(r) => r \notin InFlight(c2s')
      /\ Phase(server, client, S, C) /\ server.epoch = -1
      /\ client.epoch \in Int
  BY <1>1, ServerIncoming
<1> HIDE DEF r
<1>3. r.type = "client_auth" /\ Len(server.transcript) >= 2
  BY <1>1 DEF AuthOk, OpenHandshake, SealHandshake, Record
<1>4. r \notin InFlight(c2s')
  BY <1>2, <1>3 DEF Plain
<1>5. Greeting(server, client, S, C)
  <2>1. ~Plain(r) /\ r.type \notin {"init", "full_init"}
        /\ r # HandshakeRecord("client", 1, "client_confirm", ToFinish)
    BY <1>3 DEF Plain, HandshakeRecord, Record
  <2> HIDE DEF S, C
  <2> QED
    BY <1>2, <2>1, EarlyPhase
<1>6. server.transcript = ToHellos
  <2>1. C # {}
    BY <1>2
  <2> HIDE DEF S, C
  <2>2. server.transcript \in {<<>>, ToHellos}
    BY <1>5, <2>1, GreetingStages
  <2> QED
    BY <1>3, <2>2, HandshakeFacts
<1>7. r.type \in Types
  BY <1>3 DEF Types
<1>8. ServerOk(s1) /\ Aside(server, s1)
      /\ s1.transcript = Append(server.transcript, r.type)
  BY <1>2, <1>7, ExtendedAside
<1> HIDE DEF s1
<1>9. s1.transcript = ToAuth
  BY <1>3, <1>6, <1>8 DEF ToAuth
<1>10. a = HandshakeRecord("server", 0, "server_finish", ToAuth)
  BY <1>9, HandshakeFacts DEF SealHandshake, HandshakeRecord, Hellos
<1>11. a \in Records /\ a.type = "server_finish" /\ a.type \in Types
  <2>1. /\ "server" \in Froms /\ "handshake" \in Kinds
        /\ "server_finish" \in Types /\ ToHellos \in Transcripts
        /\ ToAuth \in Tags
    BY HandshakeFacts DEF Froms, Kinds, Types, Tags
  <2> QED
    BY <1>10, <2>1 DEF HandshakeRecord, Record, Records
<1> HIDE DEF a
<1>12. /\ Aside(s1, server')
       /\ server'.transcript = Append(s1.transcript, a.type)
  BY <1>1, <1>8, <1>11, ExtendedAside
<1>13. server'.transcript = ToFinish
  BY <1>9, <1>11, <1>12 DEF ToFinish
<1>14. Aside(server, server') /\ Greets(server, server', client, client)
  BY <1>8, <1>12 DEF Aside, Greets
<1>15. s2c \in Queues /\ "first" \in Paths
  BY DEF NonceInv, TypeOK, Paths
<1>16. InFlight(s2c') \subseteq S \cup {a}
  BY <1>1, <1>11, <1>15, SentInFlight
<1>17. S = {} /\ Greeting(server', client, InFlight(s2c'), InFlight(c2s'))
  <2> HIDE DEF S, C
  <2>1. InFlight(s2c') \subseteq
          S \cup {HandshakeRecord("server", 0, "server_finish", ToAuth)}
    BY <1>10, <1>16
  <2> QED
    BY <1>2, <1>4, <1>5, <1>6, <1>13, <1>14, <2>1, GreetFinish
<1> QED
  BY <1>1, <1>5, <1>11, <1>14, <1>17, GreetedGood

\* What is in a queue is in flight.
LEMMA QueuedInFlight ==
  ASSUME NEW q, NEW p \in Paths, NEW i \in 1 .. Len(q[p])
  PROVE  q[p][i] \in InFlight(q) /\ q[p][i] \in On(q, p)
BY DEF InFlight, On

\* Nothing is in flight when the queues are empty.
LEMMA NoneInFlight ==
  ASSUME NEW q \in Queues, InFlight(q) = {}, NEW p \in Paths
  PROVE  Len(q[p]) = 0
<1>1. Len(q[p]) \in Nat
  BY QueueLen
<1>2. ASSUME NEW i \in 1 .. Len(q[p])
      PROVE  FALSE
  BY <1>2, QueuedInFlight
<1>3. 1 \notin 1 .. Len(q[p])
  BY <1>2
<1> QED
  BY <1>1, <1>3

\* The handshake ends at the server with CLIENT_CONFIRM.
LEMMA EstablishesGood ==
  ASSUME NonceInv, KeyInv, Good(server, client, c2s, s2c, link),
         UNCHANGED client, ServerEstablishes
  PROVE  TranscriptInv'
<1> DEFINE c == client
           r == Head(c2s["first"])
           s1 == Extended(server, r)
           t == [s1 EXCEPT !.up = TRUE, !.epoch = 0, !.secret = s1.transcript,
                           !.age = 0, !.deadline = {}]
           S == InFlight(s2c)
           C == InFlight(c2s)
           C1 == InFlight(c2s')
<1>1. /\ Handshaking(server) /\ Arrived(c2s, "first")
      /\ c2s' = [c2s EXCEPT !["first"] = Tail(@)]
      /\ ConfirmOk(r) /\ link' = link /\ s2c' = s2c
      /\ server' = [Established(s1) EXCEPT !.age = 0, !.deadline = {}]
  BY DEF ServerEstablishes, Incoming
<1>2. /\ r \in C /\ C1 \subseteq C /\ ServerOk(server)
      /\ ~Plain(r) => r \notin C1
      /\ Phase(server, c, S, C) /\ server.epoch = -1 /\ c.epoch \in Int
  BY <1>1, ServerIncoming
<1>3. /\ Once(c2s') /\ \A q \in C1 : Readable(q)
      /\ \A x \in Paths : On(c2s', x) \subseteq On(c2s, x)
      /\ Places(server, c, c2s, s2c, link) /\ Lines(server, c, c2s, s2c, link)
  BY <1>1, ServerIncoming
<1> HIDE DEF r
<1>4. /\ r.type = "client_confirm" /\ r.tag = server.transcript
      /\ Len(server.transcript) >= 2
  BY <1>1 DEF ConfirmOk, OpenHandshake, SealHandshake, Record
<1>5. r \notin C1 /\ r.type \in Types
  BY <1>2, <1>4 DEF Plain, Types
<1>6. ~Greeting(server, c, S, C)
  <2> SUFFICES ASSUME Greeting(server, c, S, C)
               PROVE  FALSE
    OBVIOUS
  <2>1. C # {}
    BY <1>2
  <2> HIDE DEF S, C
  <2>2. server.transcript \in {<<>>, ToHellos}
    BY <2>1, GreetingStages
  <2>3. server.transcript = ToHellos
    BY <1>4, <2>2, HandshakeFacts
  <2>4. C \subseteq {HandshakeRecord("client", 0, "client_auth", ToHellos)}
    BY <2>1, <2>3, GreetingStages
  <2>5. r.type = "client_auth"
    BY <1>2, <2>4 DEF HandshakeRecord, Record
  <2> QED
    BY <1>4, <2>5
<1>7. /\ server.transcript = ToFinish /\ c.epoch = 0 /\ Together(server, c)
      /\ server.pending = {}
  <2> HIDE DEF S, C
  <2> QED
    BY <1>2, <1>6, EarlyPhase
<1>8. /\ ServerOk(s1) /\ Aside(server, s1)
      /\ s1.transcript = Append(server.transcript, r.type)
  BY <1>2, <1>5, ExtendedAside
<1> HIDE DEF s1
<1>9. s1 \in ServerStates
  BY <1>8 DEF ServerOk
<1>10. server' = t
  BY <1>1, <1>9 DEF Established, ServerStates
<1>11. /\ t.epoch = 0 /\ t.secret = s1.transcript /\ t.pending = s1.pending
       /\ t.previous = s1.previous
       /\ t.transcript = s1.transcript /\ t.carrier = s1.carrier
       /\ t.validating = s1.validating /\ t.draining = s1.draining
       /\ t.reason = s1.reason
  BY <1>9 DEF ServerStates
<1>12. t.offered = s1.offered /\ t.up
  BY <1>9 DEF ServerStates
<1> HIDE DEF t
<1>13. /\ t.pending = server.pending /\ t.carrier = server.carrier
       /\ t.validating = server.validating /\ t.draining = server.draining
       /\ t.reason = server.reason
       /\ t.offered <=> server.offered
       /\ t.transcript = Append(server.transcript, "client_confirm")
       /\ t.secret = Append(r.tag, "client_confirm")
  BY <1>4, <1>8, <1>11, <1>12 DEF Aside
<1>14. t.secret = c.secret
  <2>1. /\ r.tag \in Transcripts
        /\ c.secret = Append(r.tag, "client_confirm")
    <3>1. ToServer(server, c, r)
      BY <1>2 DEF KeyInv, KeysHold
    <3> QED
      BY <1>2, <1>4, <1>7, <3>1, ServerFacts DEF ToServer
  <2> QED
    BY <1>13, <2>1
<1>15. Even(t, c) /\ Together(t, c) /\ t.pending = {}
  BY <1>7, <1>11, <1>13, <1>14 DEF Even, Together
<1>16. Phase(t, c, S, C1)
  <2> DEFINE k == "client_confirm"
  <2>1. /\ k = r.type /\ k \in {"response", "client_confirm"}
        /\ k = "client_confirm" => server.epoch = -1
        /\ k = "response" => server.epoch >= 0
        /\ t.transcript = Append(server.transcript,
                                 IF k = "response" THEN Label(r) ELSE k)
    BY <1>2, <1>4, <1>13
  <2> HIDE DEF k, S, C, C1
  <2> QED
    BY <1>2, <1>5, <1>15, <2>1, PhaseOpened
<1>17. Places(t, c, c2s', s2c, link)
  <2>1. /\ On(c2s', "first") \subseteq On(c2s, "first")
        /\ On(c2s', "second") \subseteq On(c2s, "second")
    BY <1>3 DEF Paths
  <2> QED
    BY <1>3, <1>13, <2>1 DEF Places
<1>18. Lines(t, c, c2s', s2c, link)
  <2>1. S = {} /\ Once(s2c)
    BY <1>2, <1>3, <1>7 DEF Lines
  <2>2. s2c \in Queues /\ c.sock \in Paths
    BY ClientFacts DEF NonceInv, TypeOK
  <2>3. Len(s2c[c.sock]) = 0
    BY <2>1, <2>2, NoneInFlight
  <2>4. DoneFirst(t, c, s2c[c.sock], link[c.sock])
    BY <1>7, <1>11, <2>3 DEF DoneFirst
  <2>5. Keyed(t, c, S)
    BY <2>1 DEF Keyed
  <2> QED
    BY <1>3, <1>11, <2>1, <2>4, <2>5 DEF Lines
<1>19. Calm(t, c)
  <2>1. MaxEpoch \in Nat
    BY KeyUpdateAssumption
  <2>2. t.epoch <= MaxEpoch
    BY <1>11, <2>1
  <2> QED
    BY <1>13, <1>15, <2>2 DEF Good, Calm
<1>20. Good(t, c, c2s', s2c, link)
  BY <1>16, <1>17, <1>18, <1>19 DEF Good
<1> QED
  BY <1>1, <1>10, <1>20 DEF TranscriptInv, Fine

\* The server refuses the handshake only for its own reasons, or gives it up.
LEMMA RefuseGood ==
  ASSUME NonceInv, KeyInv, Good(server, client, c2s, s2c, link),
         UNCHANGED client, ServerRefuses \/ ServerAbandons
  PROVE  TranscriptInv'
<1> DEFINE c == client
           r == Head(c2s["first"])
           S == InFlight(s2c)
           C == InFlight(c2s)
           C1 == InFlight(c2s')
<1>1. /\ server \in ServerStates /\ c.sock \in Paths
      /\ Shut(link, Closed(link, Paths))
  BY ClientFacts, ClosedShut DEF NonceInv, TypeOK
<1>2. CASE ServerAbandons
  <2>1. /\ server' = Down(server, "timeout") /\ link' = Closed(link, Paths)
        /\ c2s' = c2s /\ s2c' = s2c
    BY <1>2 DEF ServerAbandons
  <2>2. Good(Down(server, "timeout"), c, c2s, s2c, Closed(link, Paths))
    BY <1>1, GoodDown
  <2> QED
    BY <2>1, <2>2 DEF TranscriptInv, Fine
<1>3. CASE ServerRefuses
  <2>1. /\ Handshaking(server) /\ Arrived(c2s, "first")
        /\ c2s' = [c2s EXCEPT !["first"] = Tail(@)]
        /\ link' = Closed(link, Paths) /\ s2c' = s2c
    BY <1>3 DEF ServerRefuses, Incoming
  <2>2. /\ r \in C /\ C1 \subseteq C /\ server.epoch = -1
        /\ c.epoch \in Int /\ Phase(server, c, S, C)
        /\ r = c2s["first"][1] /\ "second" \in Paths
    BY <2>1, ServerIncoming DEF Paths
  <2>3. /\ Once(c2s') /\ \A q \in C1 : Readable(q)
        /\ On(c2s', "second") \subseteq On(c2s, "second")
        /\ Places(server, c, c2s, s2c, link)
        /\ Lines(server, c, c2s, s2c, link)
    BY <2>1, <2>2, ServerIncoming
  <2>4. C # {}
    BY <2>2
  <2>5. CASE r.type = "client_hello" /\ server.transcript = <<>>
    <3>1. server' = Down(server, "refused")
      BY <1>3, <2>5 DEF ServerRefuses
    <3>2. ToFinish # <<>>
      <4>1. Len(ToFinish) = 4 /\ Len(<<>>) = 0
        BY HandshakeFacts
      <4> QED
        BY <4>1
    <3> HIDE DEF r
    <3>3. Greeting(server, c, S, C)
      <4> HIDE DEF S, C
      <4> QED
        BY <2>2, <2>5, <3>2, EarlyPhase
    <3>4. Greeting(server, c, S, C1)
      <4> HIDE DEF S, C, C1
      <4>1. /\ c.transcript = ToHello /\ S = {}
            /\ C \subseteq {Clear("client", "client_hello", <<>>)}
        BY <2>4, <2>5, <3>3, GreetingStages
      <4>2. C1 \subseteq {Clear("client", "client_hello", <<>>)}
        BY <2>2, <4>1
      <4> QED
        BY <2>5, <3>3, <4>1, <4>2 DEF Greeting
    <3>5. Once(s2c) /\ Still(server, server) /\ Calm(server, c)
      BY LikeItself DEF Good, Lines
    <3>6. Good(server, c, c2s', s2c, link)
      BY <2>3, <3>3, <3>4, <3>5, GreetGood
    <3>7. Good(Down(server, "refused"), c, c2s', s2c, Closed(link, Paths))
      BY <1>1, <3>6, GoodDown
    <3> QED
      BY <2>1, <3>1, <3>7 DEF TranscriptInv, Fine
  <2>6. CASE ~(r.type = "client_hello" /\ server.transcript = <<>>)
    <3>1. ~AuthOk(r) /\ ~ConfirmOk(r)
      BY <1>3, <2>6 DEF ServerRefuses
    <3> HIDE DEF r
    <3>2. ~Greeting(server, c, S, C)
      <4> SUFFICES ASSUME Greeting(server, c, S, C)
                   PROVE  FALSE
        OBVIOUS
      <4> HIDE DEF S, C
      <4>1. server.transcript \in {<<>>, ToHellos}
        BY <2>4, GreetingStages
      <4>2. CASE server.transcript = <<>>
        <5>1. C \subseteq {Clear("client", "client_hello", <<>>)}
          BY <2>4, <4>2, GreetingStages
        <5>2. r.type = "client_hello"
          BY <2>2, <5>1 DEF Clear, Record
        <5> QED
          BY <2>6, <4>2, <5>2
      <4>3. CASE server.transcript = ToHellos
        <5>1. C \subseteq
                {HandshakeRecord("client", 0, "client_auth", ToHellos)}
          BY <2>4, <4>3, GreetingStages
        <5>2. r = HandshakeRecord("client", 0, "client_auth", ToHellos)
          BY <2>2, <5>1
        <5>3. r.from = "client"
          BY <5>2 DEF HandshakeRecord, Record
        <5>4. Len(server.transcript) >= 2 /\ Hellos(server) = ToHellos
          BY <4>3, HandshakeFacts DEF Hellos
        <5>5. r = SealHandshake(server, r.from, 0, "client_auth")
          BY <4>3, <5>2, <5>3, <5>4 DEF SealHandshake, HandshakeRecord
        <5>6. AuthOk(r)
          BY <5>4, <5>5 DEF AuthOk, OpenHandshake
        <5> QED
          BY <3>1, <5>6
      <4> QED
        BY <4>1, <4>2, <4>3
    <3>3. /\ server.transcript = ToFinish /\ c.epoch = 0
          /\ \A q \in C :
               \/ Plain(q) \/ q.type \in {"init", "full_init"}
               \/ q = HandshakeRecord("client", 1, "client_confirm", ToFinish)
      <4> HIDE DEF S, C
      <4> QED
        BY <2>2, <3>2, EarlyPhase
    <3>4. r.type = "client_confirm"
      <4>1. ConfirmFirst(c2s["first"], link["first"])
        BY <2>2, <2>3, <3>3 DEF Lines
      <4>2. c2s \in Queues /\ "first" \in Paths /\ c2s["first"] # <<>>
        BY <2>1 DEF NonceInv, TypeOK, Paths, Arrived
      <4>3. Len(c2s["first"]) \in Nat /\ 1 \in 1 .. Len(c2s["first"])
        BY <4>2, TailFacts, QueueLen
      <4>4. PICK i \in 1 .. Len(c2s["first"]) :
              i <= 1 /\ c2s["first"][i].type = "client_confirm"
        BY <4>1, <4>3 DEF ConfirmFirst
      <4>5. i = 1
        BY <4>3, <4>4
      <4> QED
        BY <2>2, <4>4, <4>5
    <3>5. r = HandshakeRecord("client", 1, "client_confirm", ToFinish)
      BY <2>2, <3>3, <3>4 DEF Plain
    <3>6. r.from = "client"
      BY <3>5 DEF HandshakeRecord, Record
    <3>7. Len(server.transcript) >= 2 /\ Hellos(server) = ToHellos
      BY <3>3, HandshakeFacts DEF Hellos
    <3>8. r = SealHandshake(server, r.from, 1, "client_confirm")
      BY <3>3, <3>5, <3>6, <3>7 DEF SealHandshake, HandshakeRecord
    <3>9. ConfirmOk(r)
      BY <3>7, <3>8 DEF ConfirmOk, OpenHandshake
    <3> QED
      BY <3>1, <3>9
  <2> QED
    BY <2>5, <2>6
<1> QED
  BY <1>2, <1>3

\* The server's half of the induction.
LEMMA ServerGood ==
  ASSUME NonceInv, KeyInv, Good(server, client, c2s, s2c, link),
         ServerTask \/ ServerChoices
  PROVE  TranscriptInv'
<1>1. UNCHANGED client
  BY DEF ServerTask, ServerChoices
<1>2. \/ ServerHello \/ ServerFinishes \/ ServerEstablishes
      \/ ServerRefuses \/ ServerAbandons \/ ServerReceives
      \/ ServerChallenges \/ ServerValidates
      \/ ServerGivesUpPath \/ ServerEndsDrain \/ ServerSends
      \/ ServerTimer \/ ServerStops \/ ServerSeesClose
  BY DEF ServerTask, ServerChoices, ServerHandshakes
<1> QED
  BY <1>1, <1>2, HelloGood, FinishesGood, EstablishesGood, RefuseGood,
     ReceiveGood, ChallengeGood, ValidateGood, OtherGood

-----------------------------------------------------------------------------
(* The steps of the client                                                 *)

\* A client that ends changes nothing the stages are about.
LEMMA GoodClientDown ==
  ASSUME NEW s, NEW c \in ClientStates, NEW cs, NEW sc, NEW lk, NEW lk1,
         Good(s, c, cs, sc, lk), Shut(lk, lk1),
         NEW why, why \notin {"invalid record", "concurrent update"}
  PROVE  Good(s, [c EXCEPT !.up = FALSE, !.reason = why], cs, sc, lk1)
<1> DEFINE d == [c EXCEPT !.up = FALSE, !.reason = why]
<1>1. /\ d.transcript = c.transcript /\ d.epoch = c.epoch
      /\ d.secret = c.secret /\ d.sock = c.sock /\ d.pending = c.pending
      /\ d.reason = why /\ c.sock \in Paths
  BY DEF ClientStates
<1>2. d.dialling = c.dialling
  BY DEF ClientStates
<1> HIDE DEF d
<1>3. LikeC(c, d)
  BY <1>1, <1>2 DEF LikeC
<1>4. Calm(s, d)
  BY <1>1 DEF Good, Calm
<1>5. Like(s, s) /\ Still(s, s)
  BY LikeItself
<1>6. Good(s, d, cs, sc, lk)
  BY <1>3, <1>4, <1>5, GoodLike
<1>7. Good(s, d, cs, sc, lk1)
  BY <1>1, <1>6, GoodShut DEF Shut
<1> QED
  BY <1>7 DEF d

\* What the client finds when it reads.
LEMMA ClientIncoming ==
  ASSUME NonceInv, KeyInv, Good(server, client, c2s, s2c, link),
         NEW p \in Paths, Arrived(s2c, p),
         s2c' = [s2c EXCEPT ![p] = Tail(@)]
  PROVE  LET r == Head(s2c[p])
         IN  /\ s2c' \in Queues /\ Taken(s2c, s2c', p)
             /\ r = s2c[p][1] /\ r \in Records
             /\ r \in InFlight(s2c) /\ r \in On(s2c, p)
             /\ InFlight(s2c') \subseteq InFlight(s2c) /\ Once(s2c')
             /\ ~Plain(r) => r \notin InFlight(s2c')
             /\ \A x \in Paths : On(s2c', x) \subseteq On(s2c, x)
<1> DEFINE r == Head(s2c[p])
<1>1. s2c \in Queues /\ s2c[p] # <<>> /\ Once(s2c)
  BY DEF NonceInv, TypeOK, Arrived, Good, Lines
<1>2. s2c' \in Queues /\ Taken(s2c, s2c', p) /\ r = s2c[p][1] /\ r \in Records
  BY <1>1, TailTaken
<1> HIDE DEF r
<1>3. /\ InFlight(s2c') \subseteq InFlight(s2c)
      /\ r \in InFlight(s2c) /\ r \in On(s2c, p)
      /\ \A x \in Paths : On(s2c', x) \subseteq On(s2c, x)
      /\ Once(s2c') /\ (~Plain(r) => r \notin InFlight(s2c'))
  <2> DEFINE n == s2c'
  <2>1. n \in Queues /\ Taken(s2c, n, p)
    BY <1>2
  <2> HIDE DEF n
  <2>2. /\ InFlight(n) \subseteq InFlight(s2c)
        /\ r \in InFlight(s2c) /\ r \in On(s2c, p)
        /\ \A x \in Paths : On(n, x) \subseteq On(s2c, x)
        /\ Once(n) /\ (~Plain(r) => r \notin InFlight(n))
    BY <1>1, <1>2, <2>1, TakenFacts
  <2> QED
    BY <2>2 DEF n
<1> QED
  BY <1>2, <1>3 DEF r

\* A message of the handshake only joins the transcript.
LEMMA ExtendedClientAside ==
  ASSUME NEW c, ClientOk(c), NEW r, r.type \in Types
  PROVE  LET d == Extended(c, r)
         IN  /\ ClientOk(d) /\ d.secret = c.secret /\ d.epoch = c.epoch
             /\ d.pending = c.pending /\ d.sock = c.sock
             /\ d.reason = c.reason
             /\ d.dialling <=> c.dialling
             /\ d.transcript = Append(c.transcript, r.type)
<1> DEFINE d == Extended(c, r)
<1>1. /\ ClientOk(d) /\ d.secret = c.secret
      /\ d.epoch = c.epoch /\ d.pending = c.pending
      /\ d.transcript = Append(c.transcript, r.type)
  BY ExtendedKeys
<1>2. d.sock = c.sock /\ d.reason = c.reason
  BY ClientFacts DEF Extended, ClientStates
<1>3. d.dialling = c.dialling
  BY ClientFacts DEF Extended, ClientStates
<1> HIDE DEF d
<1> QED
  BY <1>1, <1>2, <1>3 DEF d

\* The client's message in the handshake.
LEMMA ClientGreets ==
  ASSUME NonceInv, KeyInv, Good(server, client, c2s, s2c, link),
         UNCHANGED <<server, link>>, NEW a \in Records, Readable(a),
         InFlight(c2s) = {}, c2s' = Sent(c2s, "first", <<a>>), Once(s2c'),
         On(s2c', "second") \subseteq On(s2c, "second"),
         Greeting(server, client, InFlight(s2c), InFlight(c2s)),
         Greeting(server, client', InFlight(s2c'), InFlight(c2s')),
         client'.reason = client.reason
  PROVE  TranscriptInv'
<1>1. c2s \in Queues /\ "first" \in Paths /\ "second" \in Paths
  BY DEF NonceInv, TypeOK, Paths
<1>2. c2s' \in Queues /\ Put(c2s, c2s', "first", a, link)
  BY <1>1, SentPut
<1>3. Once(c2s) /\ a \notin InFlight(c2s)
  BY DEF Good, Lines
<1>4. /\ Once(c2s') /\ On(c2s', "second") = On(c2s, "second")
      /\ InFlight(c2s') \subseteq InFlight(c2s) \cup {a}
  BY <1>1, <1>2, <1>3, PutFacts
<1>5. \A q \in InFlight(c2s') : Readable(q)
  BY <1>4
<1>6. /\ Still(server, server) /\ Calm(server, client')
      /\ Places(server, client, c2s, s2c, link)
  BY LikeItself DEF Good, Calm
<1>7. Good(server, client', c2s', s2c', link)
  BY <1>4, <1>5, <1>6, GreetGood
<1> QED
  BY <1>7 DEF TranscriptInv, Fine

\* A client in its handshake is in the first stage.
LEMMA ClientEarly ==
  ASSUME NonceInv, KeyInv, Good(server, client, c2s, s2c, link),
         Handshaking(client)
  PROVE  /\ Greeting(server, client, InFlight(s2c), InFlight(c2s))
         /\ client.sock = "first" /\ client.epoch = -1
         /\ "first" \in Paths /\ "second" \in Paths
         /\ ClientOk(client) /\ c2s \in Queues /\ s2c \in Queues
<1>1. client.epoch = -1
  BY DEF KeyInv, KeysHold, EpochsFit
<1>2. Phase(server, client, InFlight(s2c), InFlight(c2s))
  BY DEF Good
<1>3. Greeting(server, client, InFlight(s2c), InFlight(c2s))
  BY <1>1, <1>2, StillGreeting
<1> QED
  BY <1>1, <1>3 DEF Greeting, Paths, NonceInv, TypeOK

\* The client says hello.
LEMMA ClientHelloGood ==
  ASSUME NonceInv, KeyInv, Good(server, client, c2s, s2c, link),
         UNCHANGED server, ClientHello
  PROVE  TranscriptInv'
<1> DEFINE a == Clear("client", "client_hello", <<>>)
           S == InFlight(s2c)
           C == InFlight(c2s)
<1>1. /\ Handshaking(client) /\ client.transcript = <<>>
      /\ client' = Extended(client, a) /\ c2s' = Sent(c2s, "first", <<a>>)
      /\ s2c' = s2c /\ link' = link
  BY DEF ClientHello
<1>2. /\ Greeting(server, client, S, C) /\ "first" \in Paths
      /\ ClientOk(client) /\ c2s \in Queues
  BY <1>1, ClientEarly
<1>3. a \in Records /\ a.type = "client_hello"
  <2>1. /\ "client" \in Froms /\ "clear" \in Kinds
        /\ "client_hello" \in Types /\ <<>> \in Transcripts /\ <<>> \in Tags
    BY DEF Froms, Kinds, Types, Transcripts, Tags
  <2> QED
    BY <2>1 DEF Clear, Record, Records
<1> HIDE DEF a
<1>4. a.type \in Types /\ Readable(a)
  BY <1>3 DEF Types, Readable
<1>5. /\ client'.epoch = client.epoch /\ client'.pending = client.pending
      /\ client'.sock = client.sock /\ client'.reason = client.reason
      /\ client'.dialling <=> client.dialling
      /\ client'.transcript = Append(client.transcript, a.type)
  BY <1>1, <1>2, <1>4, ExtendedClientAside
<1>6. client'.transcript = ToHello /\ Greets(server, server, client, client')
  BY <1>1, <1>3, <1>5, HandshakeFacts DEF Greets
<1>7. InFlight(c2s') \subseteq C \cup {a}
  BY <1>1, <1>2, <1>3, SentInFlight
<1>8. C = {} /\ Greeting(server, client', S, InFlight(c2s'))
  <2> HIDE DEF S, C
  <2>1. InFlight(c2s') \subseteq
          C \cup {Clear("client", "client_hello", <<>>)}
    BY <1>7 DEF a
  <2>2. client.transcript = <<>>
    BY <1>1
  <2> QED
    BY <1>2, <1>6, <2>1, <2>2, GreetHello
<1>9. Once(s2c') /\ On(s2c', "second") \subseteq On(s2c, "second")
  BY <1>1 DEF Good, Lines
<1>10. Greeting(server, client', InFlight(s2c'), InFlight(c2s'))
  BY <1>1, <1>8
<1> QED
  BY <1>1, <1>2, <1>3, <1>4, <1>5, <1>8, <1>9, <1>10, ClientGreets

\* What a handshaking client takes from the server, and what it answers.
LEMMA ClientTakes ==
  ASSUME NonceInv, KeyInv, Good(server, client, c2s, s2c, link),
         Handshaking(client), Arrived(s2c, "first"),
         NEW r, r = Head(s2c["first"])
  PROVE  /\ r \in InFlight(s2c)
         /\ \/ /\ client.transcript = ToHello
               /\ r = Clear("server", "server_hello", ToHello)
            \/ /\ client.transcript = ToAuth
               /\ r = HandshakeRecord("server", 0, "server_finish", ToAuth)
<1> DEFINE S == InFlight(s2c)
           C == InFlight(c2s)
<1>1. /\ Greeting(server, client, S, C) /\ s2c \in Queues /\ "first" \in Paths
      /\ s2c["first"] # <<>>
  BY ClientEarly DEF Arrived
<1>2. r \in S
  BY <1>1, TakenInFlight
<1>3. S # {}
  BY <1>2
<1> HIDE DEF S, C
<1>4. client.transcript \in {ToHello, ToAuth}
  BY <1>1, <1>3, GreetingStages
<1>5. CASE client.transcript = ToHello
  <2>1. S \subseteq {Clear("server", "server_hello", ToHello)}
    BY <1>1, <1>3, <1>5, GreetingStages
  <2> QED
    BY <1>2, <1>5, <2>1 DEF S
<1>6. CASE client.transcript = ToAuth
  <2>1. S \subseteq {HandshakeRecord("server", 0, "server_finish", ToAuth)}
    BY <1>1, <1>3, <1>6, GreetingStages
  <2> QED
    BY <1>2, <1>6, <2>1 DEF S
<1> QED
  BY <1>4, <1>5, <1>6

\* A message under the handshake keys is a record.
LEMMA HandshakeRecordType ==
  ASSUME NEW from \in Froms, NEW number \in Nat, NEW type \in Types,
         NEW tag \in Transcripts
  PROVE  /\ HandshakeRecord(from, number, type, tag) \in Records
         /\ HandshakeRecord(from, number, type, tag).type = type
         /\ HandshakeRecord(from, number, type, tag).from = from
<1>1. "handshake" \in Kinds /\ ToHellos \in Transcripts /\ tag \in Tags
  BY HandshakeFacts DEF Kinds, Tags
<1> QED
  BY <1>1 DEF HandshakeRecord, Record, Records

\* The client authenticates itself.
LEMMA ClientAuthGood ==
  ASSUME NonceInv, KeyInv, Good(server, client, c2s, s2c, link),
         UNCHANGED server, ClientAuth
  PROVE  TranscriptInv'
<1> DEFINE r == Head(s2c["first"])
           c1 == Extended(client, r)
           a == SealHandshake(c1, "client", 0, "client_auth")
           S == InFlight(s2c)
           C == InFlight(c2s)
<1>1. /\ Handshaking(client) /\ Arrived(s2c, "first")
      /\ ServerHelloOk(r) /\ Transmit(a) /\ client' = Extended(c1, a)
      /\ s2c' = [s2c EXCEPT !["first"] = Tail(@)] /\ link' = link
  BY DEF ClientAuth, ClientAnswers, Incoming
<1>2. /\ Greeting(server, client, S, C) /\ client.sock = "first"
      /\ "first" \in Paths /\ "second" \in Paths
      /\ ClientOk(client) /\ c2s \in Queues
  BY <1>1, ClientEarly
<1>3. /\ r \in S /\ InFlight(s2c') \subseteq S /\ Once(s2c')
      /\ ~Plain(r) => r \notin InFlight(s2c')
      /\ On(s2c', "second") \subseteq On(s2c, "second")
  BY <1>1, <1>2, ClientIncoming
<1>4. r.type = "server_hello" /\ r.type \in Types
  BY <1>1 DEF ServerHelloOk, Clear, Record, Types
<1>5. client.transcript = ToHello
  <2>1. \/ client.transcript = ToHello
        \/ r = HandshakeRecord("server", 0, "server_finish", ToAuth)
    BY <1>1, ClientTakes
  <2> QED
    BY <1>4, <2>1 DEF HandshakeRecord, Record
<1>6. r \notin InFlight(s2c')
  BY <1>3, <1>4 DEF Plain
<1> HIDE DEF r
<1>7. /\ ClientOk(c1) /\ c1.epoch = client.epoch
      /\ c1.pending = client.pending /\ c1.sock = client.sock
      /\ c1.reason = client.reason
      /\ c1.dialling <=> client.dialling
      /\ c1.transcript = Append(client.transcript, r.type)
  BY <1>2, <1>4, ExtendedClientAside
<1> HIDE DEF c1
<1>8. c1.transcript = ToHellos
  BY <1>4, <1>5, <1>7 DEF ToHellos
<1>9. a = HandshakeRecord("client", 0, "client_auth", ToHellos)
  BY <1>8, HandshakeFacts DEF SealHandshake, HandshakeRecord, Hellos
<1>10. a \in Records /\ a.type = "client_auth" /\ a.type \in Types
  <2>1. /\ "client" \in Froms /\ "client_auth" \in Types /\ 0 \in Nat
        /\ ToHellos \in Transcripts
    BY HandshakeFacts DEF Froms, Types
  <2> HIDE DEF a
  <2> QED
    BY <1>9, <2>1, HandshakeRecordType
<1> HIDE DEF a
<1>11. /\ client'.epoch = c1.epoch /\ client'.pending = c1.pending
       /\ client'.sock = c1.sock /\ client'.reason = c1.reason
       /\ client'.dialling <=> c1.dialling
       /\ client'.transcript = Append(c1.transcript, a.type)
  BY <1>1, <1>7, <1>10, ExtendedClientAside
<1>12. client'.transcript = ToAuth /\ Greets(server, server, client, client')
  BY <1>7, <1>8, <1>10, <1>11 DEF Greets, ToAuth
<1>13. c2s' = Sent(c2s, "first", <<a>>)
  BY <1>1, <1>2 DEF Transmit
<1>14. InFlight(c2s') \subseteq C \cup {a}
  BY <1>2, <1>10, <1>13, SentInFlight
<1>15. C = {} /\ Greeting(server, client', InFlight(s2c'), InFlight(c2s'))
  <2> HIDE DEF S, C
  <2>1. InFlight(c2s') \subseteq
          C \cup {HandshakeRecord("client", 0, "client_auth", ToHellos)}
    BY <1>9, <1>14
  <2>2. r \in S /\ InFlight(s2c') \subseteq S
    BY <1>3
  <2> QED
    BY <1>2, <1>5, <1>6, <1>12, <2>1, <2>2, GreetAuth
<1>16. Readable(a) /\ client'.reason = client.reason
  BY <1>7, <1>10, <1>11 DEF Readable
<1> QED
  BY <1>1, <1>2, <1>3, <1>10, <1>13, <1>15, <1>16, ClientGreets

\* The client confirms and is up.
LEMMA ClientConfirmGood ==
  ASSUME NonceInv, KeyInv, Good(server, client, c2s, s2c, link),
         UNCHANGED server, ClientConfirm
  PROVE  TranscriptInv'
<1> DEFINE r == Head(s2c["first"])
           c1 == Extended(client, r)
           a == SealHandshake(c1, "client", 1, "client_confirm")
           c2 == Extended(c1, a)
           S == InFlight(s2c)
           C == InFlight(c2s)
           S1 == InFlight(s2c')
           C1 == InFlight(c2s')
           d == [c2 EXCEPT !.up = TRUE, !.epoch = 0, !.secret = c2.transcript]
<1>1. /\ Handshaking(client) /\ Arrived(s2c, "first")
      /\ FinishOk(r) /\ Transmit(a) /\ client' = Established(c2)
      /\ s2c' = [s2c EXCEPT !["first"] = Tail(@)] /\ link' = link
  BY DEF ClientConfirm, ClientAnswers, Incoming
<1>2. /\ Greeting(server, client, S, C) /\ client.sock = "first"
      /\ "first" \in Paths /\ "second" \in Paths
      /\ ClientOk(client) /\ c2s \in Queues
  BY <1>1, ClientEarly
<1>3. /\ r \in S /\ S1 \subseteq S /\ Once(s2c')
      /\ ~Plain(r) => r \notin S1
      /\ On(s2c', "second") \subseteq On(s2c, "second")
  BY <1>1, <1>2, ClientIncoming
<1>4. r.type = "server_finish" /\ r.type \in Types
  BY <1>1 DEF FinishOk, OpenHandshake, SealHandshake, Record, Types
<1>5. client.transcript = ToAuth
  <2>1. \/ client.transcript = ToAuth
        \/ r = Clear("server", "server_hello", ToHello)
    BY <1>1, ClientTakes
  <2> QED
    BY <1>4, <2>1 DEF Clear, Record
<1>6. r \notin S1
  BY <1>3, <1>4 DEF Plain
<1> HIDE DEF r
<1>7. /\ ClientOk(c1) /\ c1.epoch = client.epoch
      /\ c1.pending = client.pending /\ c1.sock = client.sock
      /\ c1.reason = client.reason
      /\ c1.dialling <=> client.dialling
      /\ c1.transcript = Append(client.transcript, r.type)
  BY <1>2, <1>4, ExtendedClientAside
<1> HIDE DEF c1
<1>8. c1.transcript = ToFinish
  BY <1>4, <1>5, <1>7 DEF ToFinish
<1>9. a = HandshakeRecord("client", 1, "client_confirm", ToFinish)
  BY <1>8, HandshakeFacts DEF SealHandshake, HandshakeRecord, Hellos
<1>10. a \in Records /\ a.type = "client_confirm" /\ a.type \in Types
  <2>1. /\ "client" \in Froms /\ "client_confirm" \in Types /\ 1 \in Nat
        /\ ToFinish \in Transcripts
    BY HandshakeFacts DEF Froms, Types
  <2> HIDE DEF a
  <2> QED
    BY <1>9, <2>1, HandshakeRecordType
<1> HIDE DEF a
<1>11. /\ ClientOk(c2) /\ c2.pending = c1.pending
       /\ c2.sock = c1.sock /\ c2.reason = c1.reason
       /\ c2.dialling <=> c1.dialling
       /\ c2.transcript = Append(c1.transcript, a.type)
  BY <1>1, <1>7, <1>10, ExtendedClientAside
<1> HIDE DEF c2
<1>12. c2 \in ClientStates
  BY <1>11, ClientFacts
<1>13. client' = d
  BY <1>1 DEF Established
<1>14. /\ d.epoch = 0 /\ d.pending = c2.pending /\ d.sock = c2.sock
       /\ d.reason = c2.reason /\ d.transcript = c2.transcript
  BY <1>12 DEF ClientStates
<1>15. d.dialling = c2.dialling
  BY <1>12 DEF ClientStates
<1> HIDE DEF d
<1>16. /\ d.transcript = Append(ToFinish, "client_confirm") /\ d.epoch = 0
       /\ d.pending = client.pending /\ d.sock = client.sock
       /\ d.reason = client.reason
       /\ d.dialling <=> client.dialling
  BY <1>7, <1>8, <1>10, <1>11, <1>14, <1>15
<1>17. c2s' = Sent(c2s, "first", <<a>>)
  BY <1>1, <1>2 DEF Transmit
<1>18. c2s' \in Queues /\ Put(c2s, c2s', "first", a, link)
  BY <1>2, <1>10, <1>17, SentPut
<1>19. /\ C1 \subseteq C \cup {a}
       /\ link["first"] = "open" => Added(c2s, c2s', "first", a)
       /\ link["first"] # "open" => c2s' = c2s
       /\ On(c2s', "second") = On(c2s, "second")
       /\ Once(c2s) /\ (Plain(a) \/ a \notin C) => Once(c2s')
  BY <1>2, <1>18, PutFacts
<1>20. C = {} /\ S1 = {} /\ Phase(server, d, S1, C1)
  <2> HIDE DEF S, C, S1, C1
  <2>1. /\ HandshakeRecord("client", 1, "client_confirm", ToFinish) \in Records
        /\ C1 \subseteq C \cup
             {HandshakeRecord("client", 1, "client_confirm", ToFinish)}
    BY <1>9, <1>10, <1>19
  <2>2. r \in S /\ S1 \subseteq S
    BY <1>3
  <2> QED
    BY <1>2, <1>5, <1>6, <1>16, <2>1, <2>2, GreetConfirm
<1>21. /\ Places(server, client, c2s, s2c, link) /\ Once(c2s)
       /\ Calm(server, client) /\ \A q \in C : Readable(q)
  BY DEF Good, Lines
<1>22. Places(server, d, c2s', s2c', link)
  <2>1. /\ server.carrier = "first" /\ ~client.dialling
    BY <1>2 DEF Greeting, Together
  <2> QED
    BY <1>2, <1>3, <1>16, <1>19, <1>21, <2>1 DEF Places
<1>23. ConfirmFirst(c2s'["first"], link["first"])
  <2>1. Len(c2s["first"]) = 0
    BY <1>2, <1>20, NoneInFlight
  <2>2. CASE link["first"] = "open"
    <3>1. Len(c2s'["first"]) = 1 /\ c2s'["first"][1] = a
      BY <1>19, <2>1, <2>2 DEF Added
    <3> QED
      BY <1>10, <3>1 DEF ConfirmFirst
  <2>3. CASE link["first"] # "open"
    BY <1>19, <2>1, <2>3 DEF ConfirmFirst
  <2> QED
    BY <2>2, <2>3
<1>24. Lines(server, d, c2s', s2c', link)
  <2>1. Readable(a) /\ a \notin C
    BY <1>10, <1>20 DEF Readable
  <2>2. \A q \in C1 : Readable(q)
    BY <1>19, <1>21, <2>1
  <2>3. Once(c2s') /\ server.epoch = -1
    BY <1>2, <1>19, <1>21, <2>1 DEF Greeting
  <2> QED
    BY <1>3, <1>20, <1>23, <2>2, <2>3 DEF Lines
<1>25. Calm(server, d)
  BY <1>16, <1>21 DEF Calm
<1>26. Good(server, d, c2s', s2c', link)
  BY <1>20, <1>22, <1>24, <1>25 DEF Good
<1> QED
  BY <1>1, <1>13, <1>26 DEF TranscriptInv, Fine

\* The client gives the handshake up for no message of the server.
LEMMA ClientAbandonsGood ==
  ASSUME NonceInv, KeyInv, Good(server, client, c2s, s2c, link),
         UNCHANGED server, ClientAbandons
  PROVE  TranscriptInv'
<1> DEFINE r == Head(s2c["first"])
           bad == Arrived(s2c, "first") /\ ~ServerHelloOk(r) /\ ~FinishOk(r)
           why == IF bad THEN "invalid record" ELSE "stopped"
<1>1. /\ Handshaking(client) /\ ClientDown(why)
      /\ link' = Closed(link, Paths) /\ c2s' = c2s /\ s2c' = s2c
  BY DEF ClientAbandons
<1>2. ~bad
  <2> SUFFICES ASSUME bad
               PROVE  FALSE
    OBVIOUS
  <2>1. Arrived(s2c, "first") /\ ~ServerHelloOk(r) /\ ~FinishOk(r)
    OBVIOUS
  <2> HIDE DEF bad
  <2>2. \/ /\ client.transcript = ToHello
           /\ r = Clear("server", "server_hello", ToHello)
        \/ /\ client.transcript = ToAuth
           /\ r = HandshakeRecord("server", 0, "server_finish", ToAuth)
    BY <1>1, <2>1, ClientTakes
  <2> HIDE DEF r
  <2>3. CASE /\ client.transcript = ToHello
             /\ r = Clear("server", "server_hello", ToHello)
    BY <2>1, <2>3 DEF ServerHelloOk
  <2>4. CASE /\ client.transcript = ToAuth
             /\ r = HandshakeRecord("server", 0, "server_finish", ToAuth)
    <3>1. Len(client.transcript) >= 2 /\ Hellos(client) = ToHellos
      BY <2>4, HandshakeFacts DEF Hellos
    <3>2. r.from = "server"
      BY <2>4 DEF HandshakeRecord, Record
    <3>3. r = SealHandshake(client, r.from, 0, "server_finish")
      BY <2>4, <3>1, <3>2 DEF SealHandshake, HandshakeRecord
    <3>4. FinishOk(r)
      BY <3>1, <3>3 DEF FinishOk, OpenHandshake
    <3> QED
      BY <2>1, <3>4
  <2> QED
    BY <2>2, <2>3, <2>4
<1>3. client' = [client EXCEPT !.up = FALSE, !.reason = "stopped"]
  BY <1>1, <1>2 DEF ClientDown
<1>4. client \in ClientStates /\ Shut(link, Closed(link, Paths))
  BY ClosedShut DEF NonceInv, TypeOK
<1>5. Good(server, client', c2s, s2c, Closed(link, Paths))
  BY <1>3, <1>4, GoodClientDown
<1> QED
  BY <1>1, <1>5 DEF TranscriptInv, Fine

\* What every step of the client starts from.
LEMMA ClientBase ==
  ASSUME NonceInv, KeyInv, Good(server, client, c2s, s2c, link)
  PROVE  /\ ClientOk(client) /\ client \in ClientStates
         /\ client.sock \in Paths /\ c2s \in Queues /\ s2c \in Queues
         /\ server.epoch \in Int /\ client.epoch \in Int
         /\ server.transcript \in Transcripts
         /\ client.transcript \in Transcripts
         /\ client.up => client.epoch >= 0
         /\ server.up => server.epoch >= 0
         /\ Phase(server, client, InFlight(s2c), InFlight(c2s))
         /\ Places(server, client, c2s, s2c, link)
         /\ Lines(server, client, c2s, s2c, link)
         /\ Calm(server, client)
         /\ Shut(link, Closed(link, Paths))
BY ClientFacts, ServerFacts, ClosedShut
   DEF NonceInv, TypeOK, KeyInv, KeysHold, EpochsFit, Good

\* The client sends data or pings.
LEMMA SendsGood ==
  ASSUME NonceInv, KeyInv, Good(server, client, c2s, s2c, link),
         UNCHANGED server, ClientSends \/ ClientPings
  PROVE  TranscriptInv'
<1>1. /\ ClientOk(client) /\ client \in ClientStates /\ client.sock \in Paths
      /\ c2s \in Queues /\ (client.up => client.epoch >= 0)
      /\ Calm(server, client)
  BY ClientBase
<1>2. s2c' = s2c /\ link' = link /\ client.up /\ ~client.dialling
  BY DEF ClientSends, ClientPings, CanSend
<1>3. PICK a \in Records : /\ Transmit(a) /\ Readable(a)
                           /\ a.type \in {"data", "ping"}
  <2>1. CASE ClientSends
    <3> DEFINE a == ClientRecord(client, "data", client.data_number, "data",
                                 <<>>)
    <3>1. Transmit(a)
      BY <2>1 DEF ClientSends
    <3>2. /\ "data" \in Kinds /\ "data" \in Types /\ <<>> \in Tags
          /\ client.data_number \in Nat
      BY <1>1, ClientFacts DEF Kinds, Types, Tags, Transcripts
    <3>3. a \in Records /\ a.type = "data"
      BY <1>1, <3>2, ClientRecordFacts
    <3>4. a.kind = "data"
      BY DEF ClientRecord, Record
    <3> HIDE DEF a
    <3> QED
      BY <3>1, <3>3, <3>4 DEF Readable
  <2>2. CASE ClientPings
    <3> DEFINE a == ClientRecord(client, "control", 1, "ping", <<>>)
    <3>1. Transmit(a)
      BY <2>2 DEF ClientPings
    <3>2. /\ "control" \in Kinds /\ "ping" \in Types /\ <<>> \in Tags
          /\ 1 \in Nat
      BY DEF Kinds, Types, Tags, Transcripts
    <3>3. a \in Records /\ a.type = "ping"
      BY <1>1, <3>2, ClientRecordFacts
    <3> HIDE DEF a
    <3> QED
      BY <3>1, <3>3 DEF Readable
  <2> QED
    BY <2>1, <2>2
<1>4. c2s' = Sent(c2s, client.sock, <<a>>)
  BY <1>3 DEF Transmit
<1>5. c2s' \in Queues /\ Put(c2s, c2s', client.sock, a, link)
  BY <1>1, <1>4, SentPut
<1>6. Good(server, client, c2s', s2c, link)
  BY <1>1, <1>2, <1>3, <1>5, GoodSent
<1>7. /\ client'.transcript = client.transcript
      /\ client'.epoch = client.epoch /\ client'.secret = client.secret
      /\ client'.sock = client.sock /\ client'.pending = client.pending
      /\ client'.reason = client.reason
  BY <1>1 DEF ClientSends, ClientPings, ClientStates
<1>8. client'.dialling <=> client.dialling
  BY <1>1 DEF ClientSends, ClientPings, ClientStates
<1>9. LikeC(client, client') /\ Calm(server, client')
  BY <1>1, <1>7, <1>8 DEF LikeC, Calm
<1>10. Like(server, server) /\ Still(server, server)
  BY LikeItself
<1>11. Good(server, client', c2s', s2c, link)
  BY <1>6, <1>9, <1>10, GoodLike
<1> QED
  BY <1>2, <1>11 DEF TranscriptInv, Fine

\* The client dials the second carrier.
LEMMA DialsGood ==
  ASSUME NonceInv, KeyInv, Good(server, client, c2s, s2c, link),
         UNCHANGED server, server.up, ClientDials
  PROVE  TranscriptInv'
<1> DEFINE d == [client EXCEPT !.sock = "second", !.dialling = TRUE]
           S == InFlight(s2c)
           C == InFlight(c2s)
<1>1. /\ client \in ClientStates /\ s2c \in Queues
      /\ (server.up => server.epoch >= 0)
      /\ Phase(server, client, S, C) /\ Places(server, client, c2s, s2c, link)
      /\ Lines(server, client, c2s, s2c, link) /\ Calm(server, client)
  BY ClientBase
<1>2. /\ client.sock = "first" /\ client.pending = {} /\ client' = d
      /\ link' = [link EXCEPT !["second"] = "open"] /\ c2s' = c2s
      /\ s2c' = s2c /\ ~client.dialling /\ Initiates # {}
  BY DEF ClientDials, CanSend
<1>3. link'["second"] = "open"
  BY <1>2 DEF NonceInv, TypeOK, Links, Paths
<1>4. ~server.offered
  BY <1>1, <1>2 DEF Places
<1>5. /\ d.transcript = client.transcript /\ d.epoch = client.epoch
      /\ d.secret = client.secret /\ d.sock = "second"
      /\ d.pending = client.pending /\ d.reason = client.reason
  BY <1>1 DEF ClientStates
<1>6. d.dialling
  BY <1>1 DEF ClientStates
<1> HIDE DEF d, S, C
<1>7. /\ Even(server, d) /\ Flight(C, {}) /\ Phase(server, d, S, C)
      /\ server.carrier = "first"
  BY <1>1, <1>2, <1>4, <1>5, <1>6, PhaseDials
<1>8. Calm(server, d)
  BY <1>1, <1>5 DEF Calm
<1>9. server.epoch >= 0
  BY <1>1
<1>10. Good(server, d, c2s, s2c, link')
  BY <1>1, <1>2, <1>3, <1>5, <1>6, <1>7, <1>8, <1>9, GoodDials DEF S, C
<1> QED
  BY <1>2, <1>10 DEF TranscriptInv, Fine

\* The client gives up for a reason of its own.
LEMMA GivesUpGood ==
  ASSUME NonceInv, KeyInv, Good(server, client, c2s, s2c, link),
         UNCHANGED server, \/ ClientDialRefused \/ ClientStops
                           \/ ClientExpires \/ ClientSeesClose
  PROVE  TranscriptInv'
<1>1. client \in ClientStates /\ Shut(link, Closed(link, Paths))
  BY ClientBase
<1>2. /\ link' = Closed(link, Paths) /\ c2s' = c2s /\ s2c' = s2c
      /\ \E why \in {"refused", "timeout", "stopped", "closed"} :
           client' = [client EXCEPT !.up = FALSE, !.reason = why]
  BY DEF ClientDialRefused, ClientStops, ClientExpires, ClientSeesClose,
         ClientDown
<1>3. PICK why \in {"refused", "timeout", "stopped", "closed"} :
        client' = [client EXCEPT !.up = FALSE, !.reason = why]
  BY <1>2
<1>4. why \notin {"invalid record", "concurrent update"}
  BY <1>3
<1>5. Good(server, client', c2s, s2c, Closed(link, Paths))
  BY <1>1, <1>3, <1>4, GoodClientDown
<1> QED
  BY <1>2, <1>5 DEF TranscriptInv, Fine

\* The client starts an update, routine or full.
Begins(c) == RoutineInit(c) \/ FullInit(c)

\* It sends an INIT that fits the transcript, and remembers it.
LEMMA BeginsFits ==
  ASSUME NEW c, ClientOk(c), Begins(c)
  PROVE  \E y \in Records :
           /\ Readable(y) /\ Transmit(y) /\ InitFits(y, client', c.transcript)
           /\ client'.epoch = c.epoch /\ client'.secret = c.secret
           /\ client'.sock = c.sock /\ client'.reason = c.reason
           /\ client'.dialling <=> c.dialling
<1>1. PICK mode \in Modes, type \in Types, tag \in Tags :
        /\ Initiate(c, mode, type, tag)
        /\ \/ /\ mode = "routine" /\ type = "init"
              /\ tag = <<c.secret, c.transcript>>
           \/ mode = "full" /\ type = "full_init" /\ tag = c.transcript
  <2>1. /\ "routine" \in Modes /\ "full" \in Modes /\ "init" \in Types
        /\ "full_init" \in Types
    BY DEF Modes, Types
  <2>2. /\ c.transcript \in Tags /\ <<c.secret, c.transcript>> \in Tags
    BY ClientFacts DEF Tags
  <2> QED
    BY <2>1, <2>2 DEF Begins, RoutineInit, FullInit
<1> DEFINE y == ClientRecord(c, "control", c.control_number, type, tag)
           after == Append(c.transcript, Label(y))
           p == [epoch |-> c.epoch + 1, mode |-> mode,
                 secret |-> IF mode = "routine" THEN after ELSE <<>>,
                 phase |-> "init", age |-> 0]
           d == [c EXCEPT !.transcript = after, !.control_number = @ + 1,
                          !.pending = {p}]
<1>2. Transmit(y) /\ client' = d
  BY <1>1 DEF Initiate
<1>3. /\ y \in Records /\ y.type = type /\ y.tag = tag
      /\ y.epoch = c.epoch /\ y.key = c.secret
  <2>1. "control" \in Kinds /\ c.control_number \in Nat
    BY ClientFacts DEF Kinds
  <2> QED
    BY <2>1, ClientRecordFacts
<1> HIDE DEF y
<1>4. c \in ClientStates
  BY ClientFacts
<1>5. /\ p.phase = "init" /\ p.mode = mode
      /\ mode = "routine" => p.secret = after
  OBVIOUS
<1> HIDE DEF p, after
<1>6. /\ d.epoch = c.epoch /\ d.secret = c.secret /\ d.sock = c.sock
      /\ d.reason = c.reason /\ d.transcript = after /\ d.pending = {p}
  BY <1>4 DEF ClientStates
<1>7. d.dialling = c.dialling
  BY <1>4 DEF ClientStates
<1> HIDE DEF d
<1>8. Waiting(d, mode)
  BY <1>5, <1>6 DEF Waiting
<1>9. d.transcript = Append(c.transcript, Label(y))
  BY <1>6 DEF after
<1>10. InitFits(y, d, c.transcript)
  BY <1>1, <1>3, <1>6, <1>8, <1>9 DEF InitFits
<1>11. Readable(y)
  BY <1>1, <1>3 DEF Readable
<1> QED
  BY <1>2, <1>3, <1>6, <1>7, <1>10, <1>11

\* An update that the client starts unasked.
LEMMA StartsGood ==
  ASSUME NonceInv, KeyInv, Good(server, client, c2s, s2c, link),
         UNCHANGED server, NEW mode, ClientStarts(mode)
  PROVE  TranscriptInv'
<1> DEFINE S == InFlight(s2c)
           C == InFlight(c2s)
           C1 == InFlight(c2s')
<1>1. /\ ClientOk(client) /\ client.sock \in Paths /\ c2s \in Queues
      /\ server.transcript \in Transcripts
      /\ client.transcript \in Transcripts
      /\ (client.up => client.epoch >= 0)
      /\ Phase(server, client, S, C)
  BY ClientBase
<1>2. /\ Places(server, client, c2s, s2c, link)
      /\ Lines(server, client, c2s, s2c, link) /\ Calm(server, client)
  BY ClientBase
<1>3. /\ s2c' = s2c /\ link' = link /\ client.up /\ ~client.dialling
      /\ client.pending = {} /\ Initiates # {} /\ Begins(client)
  BY DEF ClientStarts, CanSend, Begins
<1>4. PICK y \in Records :
        /\ Readable(y) /\ Transmit(y)
        /\ InitFits(y, client', client.transcript)
        /\ client'.epoch = client.epoch /\ client'.secret = client.secret
        /\ client'.sock = client.sock /\ client'.reason = client.reason
        /\ client'.dialling <=> client.dialling
  BY <1>1, <1>3, BeginsFits
<1>5. c2s' = Sent(c2s, client.sock, <<y>>)
  BY <1>4 DEF Transmit
<1>6. c2s' \in Queues /\ Put(c2s, c2s', client.sock, y, link)
  BY <1>1, <1>5, SentPut
<1>7. C1 \subseteq C \cup {y}
  BY <1>1, <1>6, PutFacts
<1>8. /\ y \notin C
      /\ \/ Phase(server, client', S, C1)
         \/ Initiates # {} /\ Forked(server.transcript, client'.transcript)
  <2>1. client.epoch >= 0 /\ ~client'.dialling
    BY <1>1, <1>3, <1>4
  <2> HIDE DEF S, C, C1
  <2> QED
    BY <1>1, <1>3, <1>4, <1>7, <2>1, PhaseStarts
<1>9. CASE Phase(server, client', S, C1)
  <2>1. /\ Calm(server, client') /\ ~client'.dialling
        /\ client.sock = "second" => server.offered
        /\ server.carrier = "second" => ~client.dialling
    BY <1>2, <1>3, <1>4 DEF Calm, Places
  <2>2. Good(server, client', c2s', s2c, link)
    BY <1>1, <1>2, <1>4, <1>6, <1>8, <1>9, <2>1, GoodTells
  <2> QED
    BY <1>3, <2>2 DEF TranscriptInv, Fine
<1>10. CASE Initiates # {} /\ Forked(server.transcript, client'.transcript)
  BY <1>10 DEF TranscriptInv, Fine
<1> QED
  BY <1>8, <1>9, <1>10

\* The client reads the server's records where the session is.
LEMMA ReadsTogether ==
  ASSUME NEW s, NEW c, NEW cs, NEW sc, NEW lk, Places(s, c, cs, sc, lk),
         c.sock \in Paths, s.carrier \in Paths,
         NEW r \in On(sc, c.sock), r.type # "challenge"
  PROVE  ~c.dialling /\ (c.sock = "second" => s.offered)
<1>1. ~c.dialling
  <2> SUFFICES ASSUME c.dialling
               PROVE  FALSE
    OBVIOUS
  <2>1. c.sock = "second" /\ s.carrier = "first"
    BY DEF Places, Paths
  <2> QED
    BY <2>1 DEF Places
<1> QED
  BY <1>1 DEF Places

\* What the client reads next, before it is taken.
LEMMA ClientReads ==
  ASSUME NonceInv, KeyInv, Good(server, client, c2s, s2c, link),
         Arrived(s2c, client.sock),
         s2c' = [s2c EXCEPT ![client.sock] = Tail(@)],
         NEW r, r = Head(s2c[client.sock])
  PROVE  /\ r \in Records /\ r \in InFlight(s2c)
         /\ r = s2c[client.sock][1]
         /\ s2c' \in Queues /\ Taken(s2c, s2c', client.sock)
         /\ InFlight(s2c') \subseteq InFlight(s2c)
         /\ ~Plain(r) => r \notin InFlight(s2c')
         /\ r.type # "done" => /\ Good(server, client, c2s, s2c', link)
                               /\ Lines(server, client, c2s, s2c', link)
                               /\ Places(server, client, c2s, s2c', link)
         /\ r.type # "challenge" =>
              ~client.dialling /\ (client.sock = "second" => server.offered)
<1>1. /\ client.sock \in Paths /\ s2c \in Queues /\ server.carrier \in Paths
      /\ Places(server, client, c2s, s2c, link)
  BY ClientBase DEF NonceInv, TypeOK, ServerStates
<1>2. /\ r \in Records /\ r \in InFlight(s2c) /\ r \in On(s2c, client.sock)
      /\ r = s2c[client.sock][1]
      /\ s2c' \in Queues /\ Taken(s2c, s2c', client.sock)
      /\ InFlight(s2c') \subseteq InFlight(s2c)
      /\ ~Plain(r) => r \notin InFlight(s2c')
  BY <1>1, ClientIncoming
<1>3. r.type # "done" => Good(server, client, c2s, s2c', link)
  BY <1>1, <1>2, GoodRead
<1>4. r.type # "challenge" =>
        ~client.dialling /\ (client.sock = "second" => server.offered)
  BY <1>1, <1>2, ReadsTogether
<1> QED
  BY <1>2, <1>3, <1>4 DEF Good

\* Data and PONGs.
LEMMA PlainGood ==
  ASSUME NonceInv, KeyInv, Good(server, client, c2s, s2c, link),
         UNCHANGED server, ClientHandles(PlainOk, AcceptPlain)
  PROVE  TranscriptInv'
<1> DEFINE r == Head(s2c[client.sock])
           b == client.pinging /\ r.type # "pong"
           d == [client EXCEPT !.pinging = b]
<1>1. client \in ClientStates /\ Calm(server, client)
  BY ClientBase
<1>2. /\ Arrived(s2c, client.sock) /\ c2s' = c2s /\ PlainOk(client, r)
      /\ s2c' = [s2c EXCEPT ![client.sock] = Tail(@)] /\ link' = link
  BY DEF ClientHandles, AcceptPlain
<1>3. client' = d
  BY <1>1 DEF ClientHandles, AcceptPlain, ClientStates
<1> HIDE DEF r, b
<1>4. r.type # "done"
  BY <1>2 DEF PlainOk
<1>5. Good(server, client, c2s, s2c', link)
  BY <1>2, <1>4, ClientReads DEF r
<1>6. /\ d.transcript = client.transcript /\ d.epoch = client.epoch
      /\ d.secret = client.secret /\ d.sock = client.sock
      /\ d.pending = client.pending /\ d.reason = client.reason
  BY <1>1 DEF ClientStates
<1>7. d.dialling = client.dialling
  BY <1>1 DEF ClientStates
<1> HIDE DEF d
<1>8. LikeC(client, d) /\ Calm(server, d)
  BY <1>1, <1>6, <1>7 DEF LikeC, Calm
<1>9. Like(server, server) /\ Still(server, server)
  BY LikeItself
<1>10. Good(server, d, c2s, s2c', link)
  BY <1>5, <1>8, <1>9, GoodLike
<1> QED
  BY <1>2, <1>3, <1>10 DEF TranscriptInv, Fine

\* The client answers a request with an update.
LEMMA AskedGood ==
  ASSUME NonceInv, KeyInv, Good(server, client, c2s, s2c, link),
         UNCHANGED server, ClientHandles(RequestOk, AcceptUpdateRequest)
  PROVE  TranscriptInv'
<1> DEFINE r == Head(s2c[client.sock])
           u == Append(client.transcript, Label(r))
           c == [client EXCEPT !.transcript = u]
           S == InFlight(s2c)
           C == InFlight(c2s)
           S1 == InFlight(s2c')
           C1 == InFlight(c2s')
<1>1. /\ ClientOk(client) /\ client \in ClientStates /\ client.sock \in Paths
      /\ c2s \in Queues /\ client.transcript \in Transcripts
      /\ (client.up => client.epoch >= 0)
      /\ Phase(server, client, S, C) /\ Calm(server, client)
      /\ Places(server, client, c2s, s2c, link)
  BY ClientBase
<1>2. /\ client.up /\ Arrived(s2c, client.sock) /\ RequestOk(client, r)
      /\ s2c' = [s2c EXCEPT ![client.sock] = Tail(@)] /\ link' = link
      /\ RoutineInit(c)
  BY <1>1 DEF ClientHandles, AcceptUpdateRequest, ClientStates
<1> HIDE DEF r
<1>3. r.type = "request" /\ client.pending = {}
  BY <1>2 DEF RequestOk
<1>4. /\ r \in Records /\ r \in S /\ S1 \subseteq S /\ s2c' \in Queues
      /\ r \notin S1
      /\ Lines(server, client, c2s, s2c', link)
      /\ Places(server, client, c2s, s2c', link)
      /\ ~client.dialling /\ (client.sock = "second" => server.offered)
  BY <1>2, <1>3, ClientReads DEF r, Plain
<1>5. u \in Transcripts /\ Len(client.transcript) <= Len(u)
  BY <1>1, <1>4, Extends
<1> HIDE DEF u
<1>6. c \in ClientStates /\ c.up = client.up
  BY <1>1, <1>5 DEF ClientStates
<1>7. /\ c.epoch = client.epoch /\ c.secret = client.secret
      /\ c.pending = client.pending /\ c.transcript = u
      /\ c.sock = client.sock /\ c.reason = client.reason
  BY <1>1 DEF ClientStates
<1>8. c.dialling = client.dialling
  BY <1>1 DEF ClientStates
<1> HIDE DEF c
<1>9. ClientOk(c)
  <2>1. Len(client.secret) \in Nat /\ Len(u) \in Nat
        /\ Len(client.transcript) \in Nat
    BY <1>1, <1>5, ClientFacts DEF Transcripts
  <2>2. Len(c.secret) <= Len(c.transcript)
    BY <1>1, <1>5, <1>7, <2>1 DEF ClientOk
  <2>3. ~Handshaking(c) /\ c.pending = {}
    BY <1>2, <1>3, <1>6, <1>7 DEF Handshaking
  <2> QED
    BY <1>6, <2>2, <2>3 DEF ClientOk
<1>10. Begins(c)
  BY <1>2 DEF Begins
<1>11. PICK y \in Records :
         /\ Readable(y) /\ Transmit(y) /\ InitFits(y, client', c.transcript)
         /\ client'.epoch = c.epoch /\ client'.secret = c.secret
         /\ client'.sock = c.sock /\ client'.reason = c.reason
         /\ client'.dialling <=> c.dialling
  BY <1>9, <1>10, BeginsFits
<1>12. c2s' = Sent(c2s, client.sock, <<y>>)
  BY <1>11 DEF Transmit
<1>13. c2s' \in Queues /\ Put(c2s, c2s', client.sock, y, link)
  BY <1>1, <1>12, SentPut
<1>14. C1 \subseteq C \cup {y}
  BY <1>1, <1>13, PutFacts
<1>15. /\ client'.epoch = client.epoch /\ client'.secret = client.secret
       /\ client'.sock = client.sock /\ client'.reason = client.reason
       /\ client'.dialling <=> client.dialling
       /\ InitFits(y, client', Append(client.transcript, Label(r)))
  BY <1>7, <1>8, <1>11 DEF u
<1>16. y \notin C /\ Phase(server, client', S1, C1)
  <2>1. client.epoch >= 0 /\ ~Dialling(server, client)
    BY <1>1, <1>2, <1>4 DEF Dialling
  <2>2. r \in S /\ S1 \subseteq S /\ r \notin S1
    BY <1>4
  <2>3. Phase(server, client, S, C)
    BY <1>1
  <2>4. y \in Records /\ C1 \subseteq C \cup {y}
    BY <1>14
  <2>5. r.type = "request" /\ client.pending = {}
    BY <1>3
  <2> DEFINE d == client'
  <2>6. /\ d.epoch = client.epoch /\ d.secret = client.secret
        /\ d.sock = client.sock
    BY <1>15
  <2>7. d.dialling <=> client.dialling
    BY <1>15
  <2>8. InitFits(y, d, Append(client.transcript, Label(r)))
    BY <1>15
  <2> HIDE DEF S, C, S1, C1, d
  <2>9. y \notin C /\ Phase(server, d, S1, C1)
    BY <2>1, <2>2, <2>3, <2>4, <2>5, <2>6, <2>7, <2>8, PhaseAnswers
  <2> QED
    BY <2>9 DEF d
<1>17. Calm(server, client') /\ ~client'.dialling
  BY <1>1, <1>4, <1>15 DEF Calm
<1>18. Good(server, client', c2s', s2c', link)
  <2>1. Readable(y)
    BY <1>11
  <2> QED
    BY <1>1, <1>4, <1>13, <1>15, <1>16, <1>17, <2>1, GoodTells
<1> QED
  BY <1>2, <1>18 DEF TranscriptInv, Fine

\* What a confirmation of type t under the secret k answers.
Settles(r, k, t, c) == \A y : y.type = t /\ y.key = k => ConfirmFits(r, y, c)

\* The client takes the ACK or the reply r.
Reading(r) ==
  /\ client.up /\ client.pending # {} /\ Arrived(s2c, client.sock)
  /\ s2c' = [s2c EXCEPT ![client.sock] = Tail(@)]
  /\ r = Head(s2c[client.sock]) /\ r.type \in {"ack", "full_reply"}

\* The client confirms the epoch that an ACK or a reply names.
LEMMA ConfirmsGood ==
  ASSUME NonceInv, KeyInv, Good(server, client, c2s, s2c, link),
         UNCHANGED <<server, link>>, NEW r, Reading(r),
         NEW k \in Transcripts, NEW type \in {"commit", "confirm"},
         Confirm(client, r, k, type), Settles(r, k, type, client)
  PROVE  TranscriptInv'
<1> DEFINE c == client
           p == CHOOSE q \in c.pending : TRUE
           y == Record("client", "control", p.epoch, k, 0, type, k)
           u == Append(Append(c.transcript, Label(r)), Label(y))
           P == [p EXCEPT !.secret = k, !.phase = "commit"]
           d == [c EXCEPT !.transcript = u, !.pending = {P}]
           S == InFlight(s2c)
           C == InFlight(c2s)
           S1 == InFlight(s2c')
           C1 == InFlight(c2s')
<1>1. /\ ClientOk(c) /\ c \in ClientStates /\ c.sock \in Paths
      /\ c2s \in Queues /\ (c.up => c.epoch >= 0)
      /\ Phase(server, c, S, C) /\ Calm(server, c)
      /\ Places(server, c, c2s, s2c, link)
  BY ClientBase
<1>2. Transmit(y) /\ client' = d
  BY <1>1 DEF Confirm, ClientStates
<1>3. p \in c.pending
  BY DEF Reading
<1>4. p.epoch \in Int /\ p.epoch = c.epoch + 1
  BY <1>1, <1>3, ClientFacts DEF KeyInv, KeysHold, ClientKeys
<1>5. P.phase = "commit" /\ P.secret = k
  <2>1. p \in [epoch : Int, mode : Modes, secret : Transcripts,
               phase : {"init", "commit"}, age : Nat]
    BY <1>1, <1>3 DEF ClientStates
  <2> HIDE DEF p
  <2> QED
    BY <2>1
<1>6. /\ y \in Records /\ y.type = type /\ y.key = k /\ y.tag = y.key
      /\ y.epoch = c.epoch + 1 /\ y.kind = "control"
  <2>1. /\ "client" \in Froms /\ "control" \in Kinds /\ type \in Types
        /\ k \in Tags /\ 0 \in Nat
    BY DEF Froms, Kinds, Types, Tags
  <2> HIDE DEF p
  <2> QED
    BY <1>4, <2>1 DEF Record, Records
<1> HIDE DEF y, P, p
<1>7. u = Two(c.transcript, Label(r), Label(y))
  BY DEF Two
<1> HIDE DEF u
<1>8. /\ d.epoch = c.epoch /\ d.secret = c.secret /\ d.pending = {P}
      /\ d.sock = c.sock /\ d.reason = c.reason /\ d.transcript = u
  BY <1>1 DEF ClientStates
<1>9. d.dialling = c.dialling
  BY <1>1 DEF ClientStates
<1> HIDE DEF d
<1>10. Committed(d, y.key) /\ ConfirmFits(r, y, c) /\ Readable(y)
  BY <1>5, <1>6, <1>8 DEF Committed, Readable, Settles
<1>11. /\ r \in S /\ S1 \subseteq S /\ s2c' \in Queues /\ r \notin S1
       /\ Lines(server, c, c2s, s2c', link)
       /\ Places(server, c, c2s, s2c', link)
       /\ ~c.dialling /\ (c.sock = "second" => server.offered)
  BY ClientReads DEF Plain, Reading
<1>12. c2s' = Sent(c2s, c.sock, <<y>>)
  BY <1>2 DEF Transmit
<1>13. c2s' \in Queues /\ Put(c2s, c2s', c.sock, y, link)
  BY <1>1, <1>6, <1>12, SentPut
<1>14. C1 \subseteq C \cup {y}
  BY <1>1, <1>6, <1>13, PutFacts
<1>15. y \notin C /\ Phase(server, d, S1, C1)
  <2>1. c.epoch >= 0 /\ c.epoch \in Int
    BY <1>1 DEF ClientStates, Reading
  <2>2. r \in S /\ S1 \subseteq S /\ r \notin S1
    BY <1>11
  <2>3. Phase(server, c, S, C)
    BY <1>1
  <2>4. y \in Records /\ C1 \subseteq C \cup {y}
    BY <1>6, <1>14
  <2>5. /\ d.epoch = c.epoch /\ d.secret = c.secret /\ d.sock = c.sock
        /\ d.transcript = Two(c.transcript, Label(r), Label(y))
    BY <1>7, <1>8
  <2>6. d.dialling <=> c.dialling
    BY <1>9
  <2>7. y.kind = "control" /\ y.epoch = c.epoch + 1 /\ y.tag = y.key
    BY <1>6
  <2>8. Committed(d, y.key) /\ ConfirmFits(r, y, c)
    BY <1>10
  <2> HIDE DEF S, C, S1, C1, c
  <2> QED
    BY <2>1, <2>2, <2>3, <2>4, <2>5, <2>6, <2>7, <2>8, PhaseConfirms
<1>16. Calm(server, d) /\ ~d.dialling
  BY <1>1, <1>8, <1>9, <1>11 DEF Calm
<1>17. Good(server, d, c2s', s2c', link)
  BY <1>1, <1>8, <1>10, <1>11, <1>13, <1>15, <1>16, GoodTells
<1> QED
  BY <1>2, <1>17 DEF TranscriptInv, Fine

\* An ACK or a full reply is confirmed.
LEMMA AckGood ==
  ASSUME NonceInv, KeyInv, Good(server, client, c2s, s2c, link),
         UNCHANGED server, \/ ClientHandles(AckOk, AcceptUpdateAck)
                           \/ ClientHandles(ReplyOk, AcceptFullReply)
  PROVE  TranscriptInv'
<1> DEFINE r == Head(s2c[client.sock])
<1>1. client.sock \in Paths /\ client.transcript \in Transcripts
      /\ AcksOnce(server, client, s2c) /\ s2c \in Queues
  BY ClientFacts DEF NonceInv, TypeOK
<1>2. /\ client.up /\ Arrived(s2c, client.sock) /\ link' = link
      /\ s2c' = [s2c EXCEPT ![client.sock] = Tail(@)]
      /\ \/ AckOk(client, r) /\ Confirm(client, r, r.tag, "commit")
         \/ /\ ReplyOk(client, r)
            /\ Confirm(client, r, Append(client.transcript, Label(r)),
                       "confirm")
  BY DEF ClientHandles, AcceptUpdateAck, AcceptFullReply
<1>3. r \in Records
  BY <1>1, <1>2, HeadInFlight
<1>4. r = s2c[client.sock][1] /\ 1 \in 1 .. Len(s2c[client.sock])
  BY <1>1, <1>2, TailFacts DEF Arrived
<1>5. r = Head(s2c[client.sock])
  OBVIOUS
<1> HIDE DEF r
<1>6. CASE AckOk(client, r) /\ Confirm(client, r, r.tag, "commit")
  <2>1. r.type = "ack" /\ client.pending # {}
    BY <1>6 DEF AckOk
  <2>2. r.tag \in Transcripts
    BY <1>1, <1>4, <2>1 DEF AcksOnce, AcksFit
  <2>3. Reading(r)
    BY <1>2, <1>5, <2>1 DEF Reading
  <2>4. Settles(r, r.tag, "commit", client)
    BY <2>1 DEF Settles, ConfirmFits
  <2> QED
    BY <1>2, <1>6, <2>2, <2>3, <2>4, ConfirmsGood
<1>7. CASE /\ ReplyOk(client, r)
           /\ Confirm(client, r, Append(client.transcript, Label(r)),
                      "confirm")
  <2> DEFINE k == Append(client.transcript, Label(r))
  <2>1. r.type = "full_reply" /\ client.pending # {}
    BY <1>7 DEF ReplyOk
  <2>2. k \in Transcripts
    BY <1>1, <1>3, Extends
  <2>3. Reading(r)
    BY <1>2, <1>5, <2>1 DEF Reading
  <2>4. Settles(r, k, "confirm", client)
    BY <2>1 DEF Settles, ConfirmFits
  <2>5. Confirm(client, r, k, "confirm")
    BY <1>7
  <2> HIDE DEF k
  <2> QED
    BY <1>2, <2>2, <2>3, <2>4, <2>5, ConfirmsGood
<1> QED
  BY <1>2, <1>6, <1>7

\* DONE: the client follows.
LEMMA DoneGood ==
  ASSUME NonceInv, KeyInv, Good(server, client, c2s, s2c, link),
         UNCHANGED server, ClientHandles(DoneOk, AcceptUpdateDone)
  PROVE  TranscriptInv'
<1> DEFINE c == client
           r == Head(s2c[c.sock])
           p == CHOOSE q \in c.pending : TRUE
           u == Append(c.transcript, Label(r))
           d == [c EXCEPT !.transcript = u, !.secret = p.secret,
                          !.epoch = p.epoch, !.data_number = 0,
                          !.control_number = 1, !.pending = {}]
           S == InFlight(s2c)
           C == InFlight(c2s)
           S1 == InFlight(s2c')
<1>1. /\ ClientOk(c) /\ c \in ClientStates /\ c.sock \in Paths
      /\ s2c \in Queues /\ c.epoch \in Int /\ server.epoch \in Int
      /\ (c.up => c.epoch >= 0)
      /\ Phase(server, c, S, C) /\ Calm(server, c)
      /\ Places(server, c, c2s, s2c, link)
      /\ Lines(server, c, c2s, s2c, link)
  BY ClientBase
<1>2. /\ c.up /\ Arrived(s2c, c.sock) /\ DoneOk(c, r) /\ link' = link
      /\ s2c' = [s2c EXCEPT ![c.sock] = Tail(@)]
      /\ client' = d /\ c2s' = c2s
  BY <1>1 DEF ClientHandles, AcceptUpdateDone, ClientStates
<1>3. r.type = "done" /\ \E q \in c.pending : q.phase = "commit"
                                            /\ q.epoch = r.epoch
  BY <1>2 DEF DoneOk, ReadsPending
<1>4. /\ S1 \subseteq S /\ s2c' \in Queues /\ r \in S /\ r \notin S1
      /\ Taken(s2c, s2c', c.sock) /\ r = s2c[c.sock][1]
  BY <1>2, <1>3, ClientReads DEF Plain
<1>5. p \in c.pending /\ p.phase = "commit" /\ r.epoch = p.epoch
  BY <1>1, <1>3 DEF ClientOk
<1> HIDE DEF r, p, u, S, C, c, S1
<1>6. /\ d.epoch = p.epoch /\ d.secret = p.secret /\ d.pending = {}
      /\ d.sock = c.sock /\ d.reason = c.reason /\ d.transcript = u
  BY <1>1 DEF ClientStates
<1>7. d.up = c.up /\ d.dialling = c.dialling
  BY <1>1 DEF ClientStates
<1> HIDE DEF d
<1>8. ~Handshaking(d) /\ KeysHold(server, c, S, C)
  BY <1>2, <1>7 DEF Handshaking, KeyInv, S, C, c
<1>9. /\ c.epoch < server.epoch
      /\ d.epoch = server.epoch /\ d.secret = server.secret
  <2>1. r \in S /\ r.type = "done"
    BY <1>3, <1>4
  <2>2. d.epoch = p.epoch /\ d.secret = p.secret /\ d.pending = {}
    BY <1>6
  <2>3. c.epoch < server.epoch
    BY <1>5, <1>8, <2>1, <2>2, DoneKeys
  <2>4. p.epoch = server.epoch /\ p.secret = server.secret
    BY <1>1, <1>5, <1>8, <2>3 DEF KeysHold, ClientKeys
  <2> QED
    BY <2>2, <2>3, <2>4
<1>10. Phase(server, d, S1, C)
  <2>1. c.epoch \in Int /\ c.epoch >= 0 /\ Phase(server, c, S, C)
    BY <1>1, <1>2
  <2>2. S1 \subseteq S /\ r \in S /\ r \notin S1 /\ r.type = "done"
    BY <1>3, <1>4
  <2>3. /\ d.epoch = server.epoch /\ d.secret = server.secret
        /\ d.pending = {} /\ d.sock = c.sock
        /\ d.transcript = Append(c.transcript, Label(r))
    BY <1>6, <1>9 DEF u
  <2>4. d.dialling <=> c.dialling
    BY <1>7
  <2> QED
    BY <2>1, <2>2, <2>3, <2>4, PhaseFollows
<1>11. Calm(server, d)
  BY <1>1, <1>6 DEF Calm
<1>12. Good(server, d, c2s, s2c', link)
  <2>1. server.epoch >= 0
    BY <1>1, <1>2, <1>9
  <2>2. d.dialling <=> c.dialling
    BY <1>7
  <2>3. Phase(server, d, InFlight(s2c'), InFlight(c2s))
    BY <1>10 DEF S1, C
  <2>4. s2c[c.sock][1].type = "done"
    BY <1>3, <1>4
  <2>5. /\ Lines(server, c, c2s, s2c, link) /\ s2c \in Queues
        /\ Places(server, c, c2s, s2c, link) /\ c.sock \in Paths
    BY <1>1
  <2>6. /\ d.epoch = server.epoch /\ d.secret = server.secret
        /\ d.sock = c.sock
    BY <1>6, <1>9
  <2>7. s2c' \in Queues /\ Taken(s2c, s2c', c.sock)
    BY <1>4
  <2> QED
    BY <1>11, <2>1, <2>2, <2>3, <2>4, <2>5, <2>6, <2>7, GoodFollows
<1> QED
  BY <1>2, <1>12 DEF TranscriptInv, Fine

\* A challenge is answered.
LEMMA RespondsGood ==
  ASSUME NonceInv, KeyInv, Good(server, client, c2s, s2c, link),
         UNCHANGED server, ClientHandles(ChallengeOk, AcceptChallenge)
  PROVE  TranscriptInv'
<1> DEFINE c == client
           r == Head(s2c[c.sock])
           after == Append(c.transcript, Label(r))
           y == ClientRecord(c, "control", c.control_number, "response",
                             after)
           u == Append(after, Label(y))
           d == [c EXCEPT !.transcript = u, !.control_number = @ + 1,
                          !.dialling = FALSE]
           S == InFlight(s2c)
           C == InFlight(c2s)
           S1 == InFlight(s2c')
           C1 == InFlight(c2s')
<1>1. /\ ClientOk(c) /\ c \in ClientStates /\ c.sock \in Paths
      /\ c2s \in Queues /\ c.control_number \in Nat
      /\ server.transcript \in Transcripts /\ c.transcript \in Transcripts
      /\ (c.up => c.epoch >= 0)
      /\ Phase(server, c, S, C) /\ Calm(server, c)
      /\ Places(server, c, c2s, s2c, link)
  BY ClientBase DEF ClientStates
<1>2. /\ c.up /\ Arrived(s2c, c.sock) /\ ChallengeOk(c, r) /\ link' = link
      /\ s2c' = [s2c EXCEPT ![c.sock] = Tail(@)]
      /\ Transmit(y) /\ client' = d
  BY <1>1 DEF ClientHandles, AcceptChallenge, ClientStates
<1>3. r.type = "challenge"
  BY <1>2 DEF ChallengeOk
<1>4. /\ r \in Records /\ r \in S /\ S1 \subseteq S /\ s2c' \in Queues
      /\ r \notin S1
      /\ Lines(server, c, c2s, s2c', link)
      /\ Places(server, c, c2s, s2c', link)
  BY <1>2, <1>3, ClientReads DEF Plain
<1>5. after \in Transcripts
  BY <1>1, <1>4, Extends
<1> HIDE DEF r
<1>6. u = Two(c.transcript, Label(r), Label(y))
  BY DEF Two
<1> HIDE DEF after
<1>7. y \in Records /\ y.type = "response"
  <2>1. "control" \in Kinds /\ "response" \in Types /\ after \in Tags
    BY <1>5 DEF Kinds, Types, Tags
  <2> QED
    BY <1>1, <2>1, ClientRecordFacts
<1> HIDE DEF y, u
<1>8. Readable(y)
  BY <1>7 DEF Readable
<1>9. /\ d.epoch = c.epoch /\ d.secret = c.secret /\ d.pending = c.pending
      /\ d.sock = c.sock /\ d.reason = c.reason /\ d.transcript = u
  BY <1>1 DEF ClientStates
<1>10. ~d.dialling
  BY <1>1 DEF ClientStates
<1> HIDE DEF d
<1>11. c2s' \in Queues /\ Put(c2s, c2s', c.sock, y, link)
  <2>1. c2s' = Sent(c2s, c.sock, <<y>>)
    BY <1>2 DEF Transmit
  <2> QED
    BY <1>1, <1>7, <2>1, SentPut
<1>12. C1 \subseteq C \cup {y}
  BY <1>1, <1>7, <1>11, PutFacts
<1>13. /\ c.sock = "second" => Initiates # {}
       /\ server.carrier = "second" => ~c.dialling
  BY <1>1 DEF Places
<1>14. /\ y \notin C /\ server.offered
       /\ \/ Phase(server, d, S1, C1)
          \/ Initiates # {} /\ Forked(server.transcript, d.transcript)
  <2>1. c.epoch >= 0 /\ Phase(server, c, S, C)
    BY <1>1, <1>2
  <2>2. /\ r \in S /\ S1 \subseteq S /\ r \notin S1 /\ r \in Records
        /\ r.type = "challenge"
    BY <1>3, <1>4
  <2>3. y \in Records /\ C1 \subseteq C \cup {y} /\ y.type = "response"
    BY <1>7, <1>12
  <2>4. server.transcript \in Transcripts /\ c.transcript \in Transcripts
    BY <1>1
  <2>5. /\ d.epoch = c.epoch /\ d.secret = c.secret /\ d.sock = c.sock
        /\ d.pending = c.pending
        /\ d.transcript = Two(c.transcript, Label(r), Label(y))
    BY <1>6, <1>9
  <2>6. c.sock = "second" => Initiates # {}
    BY <1>13
  <2> HIDE DEF S, C, S1, C1, c
  <2> QED
    BY <1>10, <2>1, <2>2, <2>3, <2>4, <2>5, <2>6, PhaseResponds
<1>15. CASE Initiates # {} /\ Forked(server.transcript, d.transcript)
  BY <1>2, <1>15 DEF TranscriptInv, Fine
<1>16. CASE Phase(server, d, S1, C1)
  <2>1. Calm(server, d)
    BY <1>1, <1>9 DEF Calm
  <2>2. /\ c2s \in Queues /\ c2s' \in Queues /\ c.sock \in Paths
        /\ Put(c2s, c2s', c.sock, y, link)
    BY <1>1, <1>11
  <2>3. /\ Lines(server, c, c2s, s2c', link)
        /\ Places(server, c, c2s, s2c', link)
    BY <1>4
  <2>4. d.epoch = c.epoch /\ d.secret = c.secret /\ d.sock = c.sock
    BY <1>9
  <2>5. /\ c.sock = "second" => server.offered
        /\ server.carrier = "second" => ~c.dialling
    BY <1>13, <1>14
  <2>6. Phase(server, d, InFlight(s2c'), InFlight(c2s'))
        /\ y \notin InFlight(c2s)
    BY <1>14, <1>16
  <2> HIDE DEF S, C, S1, C1, c
  <2>7. Good(server, d, c2s', s2c', link)
    BY <1>8, <1>10, <2>1, <2>2, <2>3, <2>4, <2>5, <2>6, GoodTells
  <2> QED
    BY <1>2, <2>7 DEF TranscriptInv, Fine
<1> QED
  BY <1>14, <1>15, <1>16

-----------------------------------------------------------------------------
(* The client refuses nothing                                              *)

\* A record of the client's epoch, or DONE.
Due(c, r) == r.epoch = c.epoch \/ r.type = "done"

\* The client can handle the record, unless its epochs are used up.
Awaits(c, r) ==
  \/ AckOk(c, r) \/ ReplyOk(c, r) \/ DoneOk(c, r) \/ ChallengeOk(c, r)
  \/ PlainOk(c, r)
  \/ r.type = "request" /\ ReadsCurrent(c, r) /\ c.pending = {}

\* DONE is what a client that has committed waits for.
LEMMA AwaitsDone ==
  ASSUME NEW s, NEW c, NEW r, DoneFits(r, s, c), ClientKeys(s, c)
  PROVE  Awaits(c, r)
<1>1. PICK p \in c.pending : p.phase = "commit" /\ p.secret = s.secret
  BY DEF DoneFits, Committed
<1>2. p.epoch = r.epoch
  BY DEF DoneFits, ClientKeys
<1>3. ReadsPending(c, r)
  BY <1>1, <1>2 DEF DoneFits, ReadsPending
<1> QED
  BY <1>1, <1>3 DEF Awaits, DoneOk, DoneFits

\* Whatever the client reads in order, it has reason to expect.
LEMMA NeverRefused ==
  ASSUME NEW s, NEW c, NEW S, NEW C, NEW r \in S, Phase(s, c, S, C),
         Keyed(s, c, S), ClientKeys(s, c), s.epoch >= 0, c.epoch \in Int,
         Due(c, r)
  PROVE  Awaits(c, r)
<1>1. r.epoch = c.epoch => r.key = c.secret
  BY DEF Keyed
<1>2. CASE Plain(r)
  <2>1. r.type \in {"data", "pong"}
    BY <1>2 DEF Plain, Keyed
  <2>2. r.epoch = c.epoch
    BY <2>1 DEF Due
  <2> QED
    BY <1>1, <2>1, <2>2 DEF Awaits, PlainOk, ReadsCurrent
<1>3. ASSUME ~Plain(r), r.type # "done"
      PROVE  ReadsCurrent(c, r)
  BY <1>1, <1>3 DEF Due, ReadsCurrent
<1>4. CASE Level(s, c, S, C) \/ Greeting(s, c, S, C)
  BY <1>2, <1>4 DEF Level, Greeting, Flight
<1>5. ASSUME NEW x \in Records, ~Plain(r),
             \/ Asked(x, s, c, S, C) \/ Started(x, s, c, S, C)
             \/ Replied(x, s, c, S, C) \/ Committing(x, s, c, S, C)
             \/ Ahead(x, s, c, S, C) \/ Challenged(x, s, c, S, C)
             \/ \E l \in Labels : Responded(x, l, s, c, S, C)
      PROVE  Awaits(c, r)
  <2>1. CASE Asked(x, s, c, S, C)
    BY <1>3, <1>5, <2>1 DEF Asked, Flight, Idle, Awaits
  <2>2. CASE Replied(x, s, c, S, C)
    <3>1. r = x
      BY <1>5, <2>2 DEF Replied, Flight
    <3>2. CASE x.type = "ack" /\ Waiting(c, "routine")
      BY <1>3, <1>5, <2>2, <3>1, <3>2
         DEF Replied, Waiting, Awaits, AckOk
    <3>3. CASE x.type = "full_reply" /\ Waiting(c, "full")
      BY <1>3, <1>5, <2>2, <3>1, <3>3
         DEF Replied, Waiting, Awaits, ReplyOk
    <3> QED
      BY <2>2, <3>2, <3>3 DEF Replied
  <2>3. CASE Ahead(x, s, c, S, C)
    <3>1. r = x /\ DoneFits(x, s, c)
      BY <1>5, <2>3 DEF Ahead, Flight
    <3> QED
      BY <3>1, AwaitsDone
  <2>4. CASE Challenged(x, s, c, S, C)
    BY <1>3, <1>5, <2>4 DEF Challenged, Flight, Awaits, ChallengeOk
  <2>5. CASE \/ Started(x, s, c, S, C) \/ Committing(x, s, c, S, C)
             \/ \E l \in Labels : Responded(x, l, s, c, S, C)
    BY <1>5, <2>5 DEF Started, Committing, Responded, Flight
  <2> QED
    BY <1>5, <2>1, <2>2, <2>3, <2>4, <2>5
<1>6. ASSUME NEW x \in Records, NEW z \in Records, ~Plain(r),
             \/ AheadAsked(x, z, s, c, S, C)
             \/ ChallengedAsked(x, z, s, c, S, C)
             \/ \E l \in Labels : RespondedStarted(x, z, l, s, c, S, C)
      PROVE  Awaits(c, r)
  <2>1. CASE AheadAsked(x, z, s, c, S, C)
    <3>1. (r = x \/ r = z) /\ DoneFits(x, s, c)
      BY <1>6, <2>1 DEF AheadAsked, Flight
    <3>2. r # z
      BY <2>1 DEF AheadAsked, DoneFits, Due
    <3>3. r = x
      BY <3>1, <3>2
    <3> QED
      BY <3>1, <3>3, AwaitsDone
  <2>2. CASE ChallengedAsked(x, z, s, c, S, C)
    <3>1. r = x \/ r = z
      BY <1>6, <2>2 DEF ChallengedAsked, Flight
    <3>2. c.pending = {} /\ r.type \in {"request", "challenge"}
      BY <2>2, <3>1 DEF ChallengedAsked, Idle
    <3> QED
      BY <1>3, <1>6, <3>2 DEF Awaits, ChallengeOk
  <2>3. CASE \E l \in Labels : RespondedStarted(x, z, l, s, c, S, C)
    BY <1>6, <2>3 DEF RespondedStarted, Flight
  <2> QED
    BY <1>6, <2>1, <2>2, <2>3
<1> QED
  BY <1>2, <1>4, <1>5, <1>6 DEF Phase

\* The client only ends the session for want of epochs.
LEMMA RejectsGood ==
  ASSUME NonceInv, KeyInv, Good(server, client, c2s, s2c, link),
         UNCHANGED server, ClientRejects
  PROVE  TranscriptInv'
<1> DEFINE r == Head(s2c[client.sock])
           why == IF r.type = "request" /\ ReadsCurrent(client, r)
                  THEN IF client.pending # {} THEN "concurrent update"
                                              ELSE "epoch overflow"
                  ELSE "invalid record"
<1>1. /\ client.up /\ Arrived(s2c, client.sock)
      /\ ~(AckOk(client, r) \/ ReplyOk(client, r) \/ DoneOk(client, r)
           \/ ChallengeOk(client, r) \/ PlainOk(client, r))
      /\ client' = [client EXCEPT !.up = FALSE, !.reason = why]
      /\ s2c' = [s2c EXCEPT ![client.sock] = Tail(@)]
      /\ link' = Closed(link, Paths) /\ c2s' = c2s
  BY DEF ClientRejects
<1>2. /\ client \in ClientStates /\ client.sock \in Paths
      /\ server.epoch \in Int /\ client.epoch \in Int
      /\ client.epoch >= 0 /\ s2c \in Queues
      /\ Phase(server, client, InFlight(s2c), InFlight(c2s))
      /\ Lines(server, client, c2s, s2c, link)
      /\ Shut(link, Closed(link, Paths))
  BY <1>1, ClientBase
<1>3. /\ r \in InFlight(s2c) /\ r = s2c[client.sock][1]
      /\ r.type # "done" => Good(server, client, c2s, s2c', link)
      /\ Taken(s2c, s2c', client.sock)
  BY <1>1, ClientReads
<1> HIDE DEF r
<1>4. server.epoch >= 0
  <2> SUFFICES ASSUME server.epoch < 0
               PROVE  FALSE
    BY <1>2
  <2>1. server.epoch = -1
    BY <1>2 DEF KeyInv, KeysHold, EpochsFit
  <2>2. ~Greeting(server, client, InFlight(s2c), InFlight(c2s))
    BY <1>2 DEF Greeting
  <2>3. client.epoch = 0
    BY <1>2, <2>1, <2>2, EarlyPhase
  <2> QED
    BY <1>2, <1>3, <2>1, <2>3 DEF Lines
<1>5. Due(client, r)
  <2> DEFINE q == s2c[client.sock]
  <2>1. Len(q) \in Nat /\ Len(q) >= 1
    BY <1>2, <1>3, QueueLen DEF Taken
  <2>2. DoneFirst(server, client, q, link[client.sock])
    BY <1>2, <1>4 DEF Lines
  <2> HIDE DEF q
  <2>3. q[1].epoch = client.epoch \/
          \E i \in 1 .. Len(q) : i <= 1 /\ q[i].type = "done"
    BY <2>1, <2>2 DEF DoneFirst
  <2>4. q[1].epoch = client.epoch \/ q[1].type = "done"
    BY <2>1, <2>3
  <2> QED
    BY <1>3, <2>4 DEF Due, q
<1>6. Awaits(client, r)
  <2>1. Keyed(server, client, InFlight(s2c))
    BY <1>2, <1>4 DEF Lines
  <2>2. ClientKeys(server, client)
    BY DEF KeyInv, KeysHold
  <2> QED
    BY <1>2, <1>3, <1>4, <1>5, <2>1, <2>2, NeverRefused
<1>7. r.type = "request" /\ why = "epoch overflow"
  BY <1>1, <1>6 DEF Awaits
<1> HIDE DEF why
<1>8. Good(server, client', c2s, s2c', link')
  <2>1. Good(server, client, c2s, s2c', link)
    BY <1>3, <1>7
  <2>2. why \notin {"invalid record", "concurrent update"}
    BY <1>7
  <2> QED
    BY <1>1, <1>2, <2>1, <2>2, GoodClientDown
<1> QED
  BY <1>1, <1>8 DEF TranscriptInv, Fine

\* Every step of the client keeps a session that has not forked fine.
LEMMA ClientGood ==
  ASSUME NonceInv, KeyInv, Good(server, client, c2s, s2c, link),
         ClientThread \/ ClientChoices
  PROVE  TranscriptInv'
<1>1. UNCHANGED server
  BY DEF ClientThread, ClientChoices
<1>2. \/ ClientHello \/ ClientAuth \/ ClientConfirm
      \/ ClientReceives \/ ClientExpires \/ ClientSeesClose
      \/ ClientSends \/ ClientPings \/ ClientStops \/ ClientAbandons
      \/ ClientDialRefused \/ (server.up /\ ClientDials)
      \/ \E mode \in {"routine", "full"} : ClientStarts(mode)
  BY DEF ClientThread, ClientChoices, ClientHandshakes
<1>3. CASE ClientReceives
  BY <1>1, <1>3, PlainGood, AskedGood, AckGood, DoneGood, RespondsGood,
     RejectsGood DEF ClientReceives
<1>4. CASE ClientHello \/ ClientAuth \/ ClientConfirm \/ ClientAbandons
  BY <1>1, <1>4, ClientHelloGood, ClientAuthGood, ClientConfirmGood,
     ClientAbandonsGood
<1>5. CASE \/ ClientDialRefused \/ ClientStops \/ ClientExpires
           \/ ClientSeesClose
  BY <1>1, <1>5, GivesUpGood
<1>6. CASE ClientSends \/ ClientPings
  BY <1>1, <1>6, SendsGood
<1>7. CASE server.up /\ ClientDials
  BY <1>1, <1>7, DialsGood
<1>8. CASE \E mode \in {"routine", "full"} : ClientStarts(mode)
  BY <1>1, <1>8, StartsGood
<1> QED
  BY <1>2, <1>3, <1>4, <1>5, <1>6, <1>7, <1>8

-----------------------------------------------------------------------------
(* Time, the network and the start                                         *)

\* A carrier that fails or stalls takes nothing back.
LEMMA NetworkGood ==
  ASSUME NonceInv, KeyInv, Good(server, client, c2s, s2c, link), NetworkSteps
  PROVE  TranscriptInv'
<1>1. PICK p \in Paths : CarrierFails(p) \/ CarrierStalls(p)
  BY DEF NetworkSteps
<1>2. /\ UNCHANGED <<server, client>> /\ c2s \in Queues /\ s2c \in Queues
      /\ client.sock \in Paths /\ link \in Links
  BY ClientBase DEF NetworkSteps, NonceInv, TypeOK
<1>3. CASE CarrierFails(p)
  <2> DEFINE n == c2s'
             m == s2c'
             l == link'
  <2>1. Lost(c2s, n, p) /\ Lost(s2c, m, p) /\ link[p] = "open"
    BY <1>2, <1>3 DEF CarrierFails, Queues, Lost
  <2>2. l[p] = "failed" /\ \A x \in Paths : x # p => l[x] = link[x]
    BY <1>2, <1>3 DEF CarrierFails, Links
  <2>3. c2s \in Queues /\ s2c \in Queues /\ client.sock \in Paths
    BY <1>2
  <2> HIDE DEF n, m, l
  <2>4. Good(server, client, n, m, l)
    BY <2>1, <2>2, <2>3, GoodFails
  <2> QED
    BY <1>2, <2>4 DEF TranscriptInv, Fine, n, m, l
<1>4. CASE CarrierStalls(p)
  <2>1. \A x \in Paths : /\ link'[x] = "open" => link[x] = "open"
                         /\ link'[x] = "none" <=> link[x] = "none"
    BY <1>2, <1>4 DEF CarrierStalls, Links
  <2>2. Good(server, client, c2s, s2c, link')
    BY <1>2, <2>1, GoodShut
  <2> QED
    BY <1>2, <1>4, <2>2 DEF TranscriptInv, Fine, CarrierStalls
<1> QED
  BY <1>1, <1>3, <1>4

\* A tick of the server's clocks.
LEMMA ServerTicksLike ==
  ASSUME NEW s \in ServerStates
  PROVE  /\ Like(s, ServerTicks(s)) /\ Still(s, ServerTicks(s))
         /\ ServerTicks(s).reason = s.reason
<1> DEFINE Less(n) == IF n > 0 THEN n - 1 ELSE 0
           Fewer(D) == {Less(n) : n \in D}
           age == IF s.age < UPDATE_INTERVAL THEN s.age + 1 ELSE s.age
           P == {[p EXCEPT !.left = Less(@)] : p \in s.previous}
           D == Fewer(s.deadline)
           V == Fewer(s.validating)
           E == Fewer(s.draining)
           t == [s EXCEPT !.age = age, !.deadline = D, !.validating = V,
                          !.draining = E, !.previous = P]
<1>1. ServerTicks(s) = t
  BY DEF ServerTicks, ServerStates
<1> HIDE DEF Less
<1>2. (V # {} => s.validating # {}) /\ (E # {} => s.draining # {})
  OBVIOUS
<1> HIDE DEF age, P, D, V, E
<1>3. /\ t.transcript = s.transcript /\ t.epoch = s.epoch
      /\ t.secret = s.secret /\ t.pending = s.pending
      /\ t.carrier = s.carrier /\ t.validating = V /\ t.draining = E
      /\ t.reason = s.reason
  BY DEF ServerStates
<1>4. t.update_requested = s.update_requested /\ t.offered = s.offered
  BY DEF ServerStates
<1> HIDE DEF t
<1> QED
  BY <1>1, <1>2, <1>3, <1>4 DEF Like, Still

\* A tick of the client's.
LEMMA ClientTicksLike ==
  ASSUME NEW c \in ClientStates
  PROVE  LikeC(c, ClientTicks(c)) /\ ClientTicks(c).reason = c.reason
<1> DEFINE Older(n) == IF n < UPDATE_TIMEOUT THEN n + 1 ELSE n
           R(p) == [p EXCEPT !.age = Older(@)]
           P == {R(p) : p \in c.pending}
           d == [c EXCEPT !.pending = P]
<1>1. ClientTicks(c) = d
  BY DEF ClientTicks, ClientStates
<1> HIDE DEF Older
<1>2. ASSUME NEW p \in c.pending
      PROVE  /\ R(p).mode = p.mode /\ R(p).phase = p.phase
             /\ R(p).secret = p.secret
  <2>1. p \in [epoch : Int, mode : Modes, secret : Transcripts,
               phase : {"init", "commit"}, age : Nat]
    BY DEF ClientStates
  <2> QED
    BY <2>1
<1> HIDE DEF R
<1>3. /\ \A p \in P : \E q \in c.pending :
           p.phase = q.phase /\ p.mode = q.mode /\ p.secret = q.secret
      /\ \A q \in c.pending : \E p \in P :
           p.phase = q.phase /\ p.mode = q.mode /\ p.secret = q.secret
  BY <1>2
<1> HIDE DEF P
<1>4. /\ d.transcript = c.transcript /\ d.epoch = c.epoch
      /\ d.secret = c.secret /\ d.sock = c.sock /\ d.pending = P
      /\ d.reason = c.reason
  BY DEF ClientStates
<1>5. d.dialling = c.dialling
  BY DEF ClientStates
<1> HIDE DEF d
<1> QED
  BY <1>1, <1>3, <1>4, <1>5 DEF LikeC

\* Time passes.
LEMMA TickGood ==
  ASSUME NonceInv, KeyInv, Good(server, client, c2s, s2c, link), Tick
  PROVE  TranscriptInv'
<1>1. /\ c2s' = c2s /\ s2c' = s2c /\ link' = link
      /\ server' = ServerTicks(server) \/ server' = server
      /\ client' = ClientTicks(client) \/ client' = client
  BY DEF Tick, carrierVars
<1>2. server \in ServerStates /\ client \in ClientStates
  BY DEF NonceInv, TypeOK
<1> DEFINE t == server'
           d == client'
<1>3. Like(server, t) /\ Still(server, t) /\ t.reason = server.reason
  BY <1>1, <1>2, LikeItself, ServerTicksLike
<1>4. LikeC(client, d) /\ d.reason = client.reason
  BY <1>1, <1>2, LikeItself, ClientTicksLike
<1> HIDE DEF t, d
<1>5. Calm(t, d)
  BY <1>3, <1>4 DEF Good, Calm, Like
<1>6. Good(t, d, c2s, s2c, link)
  BY <1>3, <1>4, <1>5, GoodLike
<1> QED
  BY <1>1, <1>6 DEF TranscriptInv, Fine, t, d

\* A session begins with nothing said.
LEMMA InitGood ==
  ASSUME Init
  PROVE  Good(server, client, c2s, s2c, link)
<1>1. \A p \in Paths : /\ 1 .. Len(c2s[p]) = {} /\ 1 .. Len(s2c[p]) = {}
                       /\ Len(c2s[p]) = 0 /\ Len(s2c[p]) = 0
  BY DEF Init, CarrierInit
<1>2. InFlight(c2s) = {} /\ InFlight(s2c) = {}
  BY <1>1 DEF InFlight
<1>3. "first" \in Paths /\ "second" \in Paths
  BY DEF Paths
<1>4. On(c2s, "second") = {} /\ On(s2c, "second") = {}
  BY <1>1, <1>3 DEF On
<1>5. Once(c2s) /\ Once(s2c)
  BY <1>1 DEF Once
<1>6. link["second"] = "none"
  BY <1>3 DEF Init, CarrierInit
<1>7. /\ server.epoch = -1 /\ server.pending = {} /\ server.reason = "none"
      /\ server.transcript = <<>> /\ server.carrier = "first"
      /\ server.validating = {} /\ server.draining = {}
  BY DEF Init, InitServer
<1>8. /\ client.epoch = -1 /\ client.pending = {} /\ client.reason = "none"
      /\ client.transcript = <<>> /\ client.sock = "first"
  BY DEF Init, InitClient
<1>9. ~server.offered /\ ~client.dialling
  BY DEF Init, InitServer, InitClient
<1>10. Calm(server, client)
  BY <1>7, <1>8, KeyUpdateAssumption DEF Calm
<1>11. Phase(server, client, InFlight(s2c), InFlight(c2s))
  BY <1>2, <1>7, <1>8, <1>9 DEF Phase, Greeting, Together, Idle
<1>12. Places(server, client, c2s, s2c, link)
  BY <1>4, <1>6, <1>7, <1>8, <1>9 DEF Places
<1>13. Lines(server, client, c2s, s2c, link)
  BY <1>2, <1>5, <1>7, <1>8 DEF Lines
<1> QED
  BY <1>10, <1>11, <1>12, <1>13 DEF Good

-----------------------------------------------------------------------------
(* Transcripts only grow, and a session that has moved is settled          *)

\* Once the session has moved, nothing counted is on the first carrier; and a
\* response proves a transcript the client has had.
Settled(s, c, cs, sc) ==
  /\ s.carrier = "second" =>
       /\ c.sock = "second" /\ ~Handshaking(s)
       /\ \A r \in On(cs, "first") : r.type \in {"data", "ping"}
       /\ \A r \in On(sc, "first") : r.type \in {"data", "pong"}
  /\ c.sock = "second" => ~Handshaking(c)
  /\ \A r \in InFlight(cs) : r.type = "response" =>
       r.tag \in Transcripts /\ Longer(r.tag, c.transcript)

SettledInv == Settled(server, client, c2s, s2c)

SettledStep ==
  /\ Longer(server.transcript, server'.transcript)
  /\ Longer(client.transcript, client'.transcript)
  /\ SettledInv'

\* Records may have been taken from a queue.
Thinner(q, n) ==
  InFlight(n) \subseteq InFlight(q) /\ On(n, "first") \subseteq On(q, "first")

\* To a client that has left the first carrier nothing else is said there.
Spoken(q, n, carrier) ==
  carrier = "second" =>
    \A r \in On(n, "first") : r \in On(q, "first")
                              \/ r.type \in {"data", "pong"}

\* What a handler may answer on a carrier.
Apt(carrier, p, out) ==
  \/ out = <<>>
  \/ \E a \in Records : /\ out = <<a>>
                        /\ carrier = "second" /\ p = "first" =>
                             a.type \in {"data", "pong"}

\* A queue loses only what is taken from it.
LEMMA ThinnerFacts ==
  ASSUME NEW q \in Queues
  PROVE  /\ Thinner(q, q)
         /\ \A p \in Paths : q[p] # <<>> =>
              Thinner(q, [q EXCEPT ![p] = Tail(@)])
<1>1. Thinner(q, q)
  BY DEF Thinner
<1>2. ASSUME NEW p \in Paths, q[p] # <<>>
      PROVE  Thinner(q, [q EXCEPT ![p] = Tail(@)])
  <2> DEFINE n == [q EXCEPT ![p] = Tail(@)]
  <2>1. n \in Queues /\ Taken(q, n, p)
    BY <1>2, TailTaken
  <2> HIDE DEF n
  <2>2. /\ InFlight(n) \subseteq InFlight(q)
        /\ \A x \in Paths : On(n, x) \subseteq On(q, x)
    BY <2>1, TakenFacts
  <2>3. "first" \in Paths
    BY DEF Paths
  <2> QED
    BY <2>2, <2>3 DEF Thinner, n
<1> QED
  BY <1>1, <1>2

\* What the carriers hold after an answer.
LEMMA AptSpoken ==
  ASSUME NEW q \in Queues, NEW p \in Paths, NEW out, NEW carrier,
         Apt(carrier, p, out)
  PROVE  /\ Sent(q, p, out) \in Queues /\ Spoken(q, Sent(q, p, out), carrier)
<1>1. CASE out = <<>>
  <2>1. Sent(q, p, out) = q
    BY <1>1, SentNothing
  <2> QED
    BY <2>1 DEF Spoken
<1>2. ASSUME NEW a \in Records, out = <<a>>,
             carrier = "second" /\ p = "first" => a.type \in {"data", "pong"}
      PROVE  /\ Sent(q, p, out) \in Queues
             /\ Spoken(q, Sent(q, p, out), carrier)
  <2> DEFINE n == Sent(q, p, <<a>>)
  <2>1. n \in Queues /\ Put(q, n, p, a, link)
    BY SentPut
  <2> HIDE DEF n
  <2>2. "first" \in Paths
    BY DEF Paths
  <2>3. /\ n = q \/ Added(q, n, p, a)
        /\ "first" # p => On(n, "first") = On(q, "first")
    BY <2>1, <2>2, PutFacts
  <2>4. On(n, p) \subseteq On(q, p) \cup {a}
    BY <2>1, <2>3, AddedFacts
  <2>5. Spoken(q, n, carrier)
    BY <1>2, <2>3, <2>4 DEF Spoken
  <2> QED
    BY <1>2, <2>1, <2>5 DEF n
<1> QED
  BY <1>1, <1>2 DEF Apt

\* The end of every event of the server.
LEMMA FinishSays ==
  ASSUME s2c \in Queues, NEW t \in ServerStates, ~Handshaking(t),
         NEW p \in Paths, NEW out, Apt(t.carrier, p, out), NEW links,
         ServerFinish(t, p, out, links)
  PROVE  /\ Longer(t.transcript, server'.transcript)
         /\ server'.carrier = t.carrier /\ ~Handshaking(server')
         /\ Spoken(s2c, s2c', t.carrier)
<1> DEFINE request == ControlRecord(t, "request", <<>>)
           n == Sent(s2c, p, out)
<1>1. n \in Queues /\ Spoken(s2c, n, t.carrier)
  BY AptSpoken
<1>2. t.transcript \in Transcripts /\ t.carrier \in Paths
  BY DEF ServerStates
<1>3. CASE server' = Down(t, "timeout") /\ s2c' = n
  <2> DEFINE u == [t EXCEPT !.up = FALSE, !.reason = "timeout"]
  <2>1. server' = u
    BY <1>3 DEF Down
  <2>2. u.transcript = t.transcript /\ u.carrier = t.carrier
        /\ u.reason = "timeout"
    BY DEF ServerStates
  <2> HIDE DEF u
  <2> QED
    BY <1>1, <1>2, <1>3, <2>1, <2>2, LongerFacts DEF Handshaking
<1>4. CASE server' = t /\ s2c' = n
  BY <1>1, <1>2, <1>4, LongerFacts
<1>5. CASE /\ server' = Requested(t, request)
           /\ s2c' = Sent(n, t.carrier, <<request>>)
  <2>1. request \in Records
    <3>1. "request" \in Types /\ <<>> \in Tags
      BY DEF Types, Tags, Transcripts
    <3> QED
      BY <3>1, ControlFacts
  <2> HIDE DEF request, n
  <2> DEFINE v == Append(t.transcript, Label(request))
             u == [t EXCEPT !.transcript = v, !.control_number = @ + 1,
                            !.update_requested = TRUE,
                            !.deadline = {UPDATE_TIMEOUT}]
  <2>2. server' = u
    BY <1>5 DEF Requested
  <2>3. Longer(t.transcript, v)
    BY <1>2, <2>1, Extends, LongerFacts
  <2> HIDE DEF v
  <2>4. u.transcript = v /\ u.carrier = t.carrier /\ u.reason = t.reason
    BY DEF ServerStates
  <2>5. u.up = t.up
    BY DEF ServerStates
  <2> HIDE DEF u
  <2>6. Apt(t.carrier, t.carrier, <<request>>)
    BY <2>1 DEF Apt
  <2>7. Spoken(n, s2c', t.carrier)
    BY <1>1, <1>2, <1>5, <2>6, AptSpoken
  <2>8. Spoken(s2c, s2c', t.carrier)
    BY <1>1, <2>7 DEF Spoken
  <2> QED
    BY <2>2, <2>3, <2>4, <2>5, <2>8 DEF Handshaking
<1> QED
  BY <1>3, <1>4, <1>5 DEF ServerFinish

\* A server that stays on its carrier.
LEMMA StaysSettled ==
  ASSUME SettledInv, UNCHANGED client, client.transcript \in Transcripts,
         Thinner(c2s, c2s'), Longer(server.transcript, server'.transcript),
         server'.carrier = server.carrier,
         Handshaking(server') => Handshaking(server),
         Spoken(s2c, s2c', server.carrier)
  PROVE  SettledStep
<1>1. Longer(client.transcript, client'.transcript)
  BY LongerFacts
<1>2. Settled(server', client, c2s', s2c')
  BY DEF SettledInv, Settled, Thinner, Spoken
<1> QED
  BY <1>1, <1>2 DEF SettledStep, SettledInv

\* An event of an established server.
LEMMA EventSettled ==
  ASSUME NonceInv, SettledInv, UNCHANGED client, Thinner(c2s, c2s'),
         NEW t \in ServerStates, ~Handshaking(t), t.carrier = server.carrier,
         Longer(server.transcript, t.transcript),
         NEW p \in Paths, NEW out, Apt(t.carrier, p, out), NEW links,
         ServerFinish(t, p, out, links), server' \in ServerStates
  PROVE  SettledStep
<1>1. /\ s2c \in Queues /\ client.transcript \in Transcripts
      /\ server.transcript \in Transcripts
      /\ t.transcript \in Transcripts /\ server'.transcript \in Transcripts
  BY DEF NonceInv, TypeOK, ServerStates, ClientStates
<1>2. /\ Longer(t.transcript, server'.transcript)
      /\ server'.carrier = t.carrier /\ ~Handshaking(server')
      /\ Spoken(s2c, s2c', t.carrier)
  BY <1>1, FinishSays
<1>3. Longer(server.transcript, server'.transcript)
  BY <1>1, <1>2, LongerFacts
<1> QED
  BY <1>1, <1>2, <1>3, StaysSettled

\* Two labels more.
LEMMA LongerTwo ==
  ASSUME NEW t \in Transcripts, NEW r \in Records, NEW a \in Records
  PROVE  Longer(t, Append(Append(t, Label(r)), Label(a)))
<1>1. Append(t, Label(r)) \in Transcripts /\ Label(a) \in Labels
  BY Extends
<1>2. Append(Append(t, Label(r)), Label(a)) \in Transcripts
  BY <1>1, Extends
<1> QED
  BY <1>1, <1>2, Extends, LongerFacts

\* The handlers of updates answer with one record and stay on the carrier.
LEMMA HandlersGrow ==
  ASSUME NEW s, ServerOk(s), NEW r \in Records,
         NEW h, \/ h = AcceptUpdateInit(s, r)
                \/ h = AcceptFullRekeyInit(s, r)
                \/ h = Switched(s, r) /\ s.pending # {}
  PROVE  /\ h.state.carrier = s.carrier
         /\ Longer(s.transcript, h.state.transcript)
         /\ \E a \in Records : h.out = <<a>>
<1>1. s \in ServerStates /\ s.transcript \in Transcripts
  BY ServerFacts
<1> DEFINE next == Append(s.transcript, Label(r))
<1>2. next \in Transcripts /\ next \in Tags
  BY <1>1, Extends DEF Tags
<1>3. CASE h = AcceptUpdateInit(s, r)
  <2> DEFINE a == ControlRecord(s, "ack", next)
             u == Append(next, Label(a))
             P == {[epoch |-> s.epoch + 1, secret |-> next,
                    proof |-> "routine"]}
             t == [s EXCEPT !.transcript = u, !.control_number = @ + 1,
                            !.pending = P, !.update_requested = TRUE,
                            !.deadline = {UPDATE_TIMEOUT}]
  <2>1. h.state = t /\ h.out = <<a>>
    BY <1>3 DEF AcceptUpdateInit
  <2>2. a \in Records
    BY <1>1, <1>2, ControlFacts DEF Types
  <2> HIDE DEF a
  <2>3. Longer(s.transcript, u)
    BY <1>1, <2>2, LongerTwo
  <2> HIDE DEF u, P
  <2>4. t.transcript = u /\ t.carrier = s.carrier
    BY <1>1 DEF ServerStates
  <2> QED
    BY <2>1, <2>2, <2>3, <2>4
<1>4. CASE h = AcceptFullRekeyInit(s, r)
  <2> DEFINE a == ControlRecord(s, "full_reply", next)
             u == Append(next, Label(a))
             P == {[epoch |-> s.epoch + 1, secret |-> u, proof |-> "full"]}
             t == [s EXCEPT !.transcript = u, !.control_number = @ + 1,
                            !.pending = P, !.update_requested = TRUE,
                            !.deadline = {UPDATE_TIMEOUT}]
  <2>1. h.state = t /\ h.out = <<a>>
    BY <1>4 DEF AcceptFullRekeyInit
  <2>2. a \in Records
    BY <1>1, <1>2, ControlFacts DEF Types
  <2> HIDE DEF a
  <2>3. Longer(s.transcript, u)
    BY <1>1, <2>2, LongerTwo
  <2> HIDE DEF u, P
  <2>4. t.transcript = u /\ t.carrier = s.carrier
    BY <1>1 DEF ServerStates
  <2> QED
    BY <2>1, <2>2, <2>3, <2>4
<1>5. CASE h = Switched(s, r) /\ s.pending # {}
  <2> DEFINE p == CHOOSE q \in s.pending : TRUE
             a == Record("server", "control", p.epoch, p.secret, 0, "done",
                         p.secret)
             u == Append(next, Label(a))
             R == {[epoch |-> s.epoch, secret |-> s.secret,
                    left |-> OLD_EPOCH_GRACE,
                    remaining |-> OLD_EPOCH_RECORDS]}
             t == [s EXCEPT !.transcript = u, !.epoch = p.epoch,
                            !.secret = p.secret, !.pending = {},
                            !.previous = R, !.age = 0, !.data_records = 0,
                            !.update_requested = FALSE, !.deadline = {},
                            !.data_number = 0, !.control_number = 1]
  <2>1. h.state = t /\ h.out = <<a>>
    BY <1>5 DEF Switched
  <2>2. p \in s.pending
    BY <1>5
  <2> HIDE DEF p
  <2>3. p.epoch \in Int /\ p.secret \in Transcripts /\ p.secret \in Tags
    BY <1>1, <2>2 DEF ServerStates, Tags
  <2>4. a \in Records
    <3>1. /\ "server" \in Froms /\ "control" \in Kinds /\ "done" \in Types
          /\ 0 \in Nat
      BY DEF Froms, Kinds, Types
    <3> QED
      BY <2>3, <3>1, RecordFacts
  <2> HIDE DEF a
  <2>5. Longer(s.transcript, u)
    BY <1>1, <2>4, LongerTwo
  <2> HIDE DEF u, R
  <2>6. t.transcript = u /\ t.carrier = s.carrier
    BY <1>1 DEF ServerStates
  <2> QED
    BY <2>1, <2>4, <2>5, <2>6
<1> QED
  BY <1>3, <1>4, <1>5

\* The session's records are handled.
LEMMA ReceiveSettled ==
  ASSUME NonceInv, NonceInv', SettledInv, UNCHANGED client, ServerReceives
  PROVE  SettledStep
<1>1. PICK p \in Paths :
        \/ ServerHandles(p, DataOk, HandlePacket)
        \/ ServerHandles(p, DataOk, HandleProbe)
        \/ ServerHandles(p, PingOk, HandlePing)
        \/ ServerHandles(p, InitOk, AcceptUpdateInit)
        \/ ServerHandles(p, FullInitOk, AcceptFullRekeyInit)
        \/ ServerHandles(p, CommitOk, AcceptUpdateCommit)
        \/ ServerHandles(p, FullConfirmOk, AcceptFullRekeyConfirm)
        \/ ServerRejects(p)
  BY DEF ServerReceives
<1> DEFINE r == Head(c2s[p])
           e == ExpirePrevious(server)
           s == Opened(e, r)
           used == DOMAIN sealed
<1>2. /\ server.up /\ Arrived(c2s, p) /\ c2s' = [c2s EXCEPT ![p] = Tail(@)]
      /\ c2s[p] # <<>>
  BY <1>1 DEF ServerHandles, ServerRejects, Reads, Arrived
<1>3. /\ c2s \in Queues /\ s2c \in Queues /\ server' \in ServerStates
      /\ ServerOk(server) /\ server.transcript \in Transcripts
      /\ client.transcript \in Transcripts /\ server \in ServerStates
  BY DEF NonceInv, TypeOK, ServerStates, ClientStates
<1>4. Thinner(c2s, c2s') /\ r \in Records /\ r \in On(c2s, p)
  <2>1. /\ [c2s EXCEPT ![p] = Tail(@)] \in Queues
        /\ Taken(c2s, [c2s EXCEPT ![p] = Tail(@)], p) /\ r = c2s[p][1]
    BY <1>2, <1>3, TailTaken
  <2>2. c2s' \in Queues /\ Taken(c2s, c2s', p)
    BY <1>2, <2>1
  <2>3. c2s[p][1] \in On(c2s, p) /\ c2s[p][1] \in Records
    BY <1>3, <2>2, TakenFacts
  <2>4. Thinner(c2s, c2s')
    BY <1>2, <1>3, ThinnerFacts
  <2> QED
    BY <2>1, <2>3, <2>4
<1>5. /\ ServerOk(s) /\ ~Handshaking(s) /\ used \subseteq Nonces
      /\ ServerCovers(s, used) /\ s.transcript = server.transcript
      /\ s.pending = server.pending
  BY <1>2, OpenedOk
<1>6. /\ Like(server, e) /\ Like(server, s) /\ e \in ServerStates
      /\ e.reason = server.reason
  BY <1>3, OpenedLike, OpenedFacts
<1>7. server.carrier = "second" /\ p = "first" => r.type \in {"data", "ping"}
  BY <1>4 DEF SettledInv, Settled
<1> HIDE DEF r
<1>8. CASE ServerHandles(p, DataOk, HandlePacket)
  <2>1. ServerFinish(s, p, <<>>, link)
    BY <1>8 DEF ServerHandles, HandlePacket, r
  <2> HIDE DEF s, e
  <2>2. s \in ServerStates /\ s.carrier = server.carrier
    BY <1>5, <1>6, ServerFacts DEF Like
  <2>3. Longer(server.transcript, s.transcript) /\ Apt(s.carrier, p, <<>>)
    BY <1>3, <1>5, LongerFacts DEF Apt
  <2> QED
    BY <1>3, <1>4, <1>5, <2>1, <2>2, <2>3, EventSettled
<1>9. ASSUME NEW h, ServerFinish(h.state, p, h.out, link), ServerOk(h.state),
             ~Handshaking(h.state), h.state.carrier = s.carrier,
             Longer(s.transcript, h.state.transcript),
             Apt(s.carrier, p, h.out)
      PROVE  SettledStep
  <2> HIDE DEF s, e
  <2> DEFINE t == h.state
             out == h.out
  <2>1. ServerFinish(t, p, out, link) /\ ~Handshaking(t) /\ t \in ServerStates
    BY <1>9, ServerFacts
  <2>2. t.carrier = server.carrier /\ Longer(server.transcript, t.transcript)
    BY <1>5, <1>6, <1>9 DEF Like
  <2>3. Apt(t.carrier, p, out)
    BY <1>9
  <2> HIDE DEF t, out
  <2> QED
    BY <1>3, <1>4, <2>1, <2>2, <2>3, EventSettled
<1>10. CASE ServerHandles(p, DataOk, HandleProbe)
  <2> DEFINE h == SealData(s)
  <2>1. ServerFinish(h.state, p, h.out, link)
    BY <1>10 DEF ServerHandles, HandleProbe, r
  <2> HIDE DEF s, e
  <2>2. ServerOk(h.state) /\ ~Handshaking(h.state)
    BY <1>5, DataOutcome DEF Outcome
  <2>3. Like(s, h.state) /\ PlainOut(h.state, h.out)
    BY <1>5, AnswerLike
  <2>4. /\ h.state.carrier = s.carrier
        /\ Longer(s.transcript, h.state.transcript)
    BY <1>5, <2>3, ServerFacts, LongerFacts DEF Like
  <2>5. Apt(s.carrier, p, h.out)
    BY <2>3 DEF PlainOut, Apt
  <2> HIDE DEF h
  <2> QED
    BY <1>9, <2>1, <2>2, <2>4, <2>5
<1>11. CASE ServerHandles(p, PingOk, HandlePing)
  <2> DEFINE h == HandlePing(s, r)
  <2>1. ServerFinish(h.state, p, h.out, link)
    BY <1>11 DEF ServerHandles, r
  <2> HIDE DEF s, e
  <2>2. ServerOk(h.state) /\ ~Handshaking(h.state)
    BY <1>5, PingOutcome DEF Outcome
  <2>3. Like(s, h.state) /\ PlainOut(h.state, h.out)
    BY <1>5, AnswerLike
  <2>4. /\ h.state.carrier = s.carrier
        /\ Longer(s.transcript, h.state.transcript)
    BY <1>5, <2>3, ServerFacts, LongerFacts DEF Like
  <2>5. Apt(s.carrier, p, h.out)
    BY <2>3 DEF PlainOut, Apt
  <2> HIDE DEF h
  <2> QED
    BY <1>9, <2>1, <2>2, <2>4, <2>5
<1>12. CASE \/ ServerHandles(p, InitOk, AcceptUpdateInit)
            \/ ServerHandles(p, FullInitOk, AcceptFullRekeyInit)
            \/ ServerHandles(p, CommitOk, AcceptUpdateCommit)
            \/ ServerHandles(p, FullConfirmOk, AcceptFullRekeyConfirm)
  <2>1. PICK h : /\ ServerFinish(h.state, p, h.out, link)
                 /\ \/ h = AcceptUpdateInit(s, r) /\ InitOk(e, r)
                    \/ h = AcceptFullRekeyInit(s, r) /\ FullInitOk(e, r)
                    \/ /\ h = Switched(s, r)
                       /\ CommitOk(e, r) \/ FullConfirmOk(e, r)
    BY <1>12 DEF ServerHandles, r, AcceptUpdateCommit, AcceptFullRekeyConfirm
  <2> HIDE DEF s, e
  <2>2. r.type \in {"init", "full_init", "commit", "confirm"}
    BY <2>1 DEF InitOk, FullInitOk, CommitOk, FullConfirmOk
  <2>3. CommitOk(e, r) \/ FullConfirmOk(e, r) => s.pending # {}
    BY <1>5, <1>6 DEF CommitOk, FullConfirmOk, Confirms, Like
  <2>4. \/ h = AcceptUpdateInit(s, r) \/ h = AcceptFullRekeyInit(s, r)
        \/ h = Switched(s, r) /\ s.pending # {}
    BY <2>1, <2>3
  <2>5. /\ h.state.carrier = s.carrier
        /\ Longer(s.transcript, h.state.transcript)
        /\ \E a \in Records : h.out = <<a>>
    BY <1>4, <1>5, <2>4, HandlersGrow
  <2>6. ServerOk(h.state) /\ ~Handshaking(h.state)
    BY <1>4, <1>5, <2>4, InitOutcome, FullInitOutcome, SwitchOutcome
       DEF Outcome
  <2>7. ~(s.carrier = "second" /\ p = "first")
    BY <1>6, <1>7, <2>2 DEF Like
  <2>8. Apt(s.carrier, p, h.out)
    BY <2>5, <2>7 DEF Apt
  <2> QED
    BY <1>9, <2>1, <2>5, <2>6, <2>8
<1>13. CASE ServerRejects(p)
  <2> DEFINE why == IF ~KnownEpoch(e, r) THEN "unknown epoch"
                    ELSE IF InitAtLimit(e, r) THEN "epoch overflow"
                    ELSE "invalid record"
             u == [e EXCEPT !.up = FALSE, !.reason = why]
  <2>1. server' = u /\ s2c' = s2c
    BY <1>13 DEF ServerRejects, Down, r
  <2>2. why # "none"
    OBVIOUS
  <2> HIDE DEF why, e, s
  <2>3. u.transcript = e.transcript /\ u.carrier = e.carrier /\ u.reason = why
    BY <1>6 DEF ServerStates
  <2> HIDE DEF u
  <2>4. /\ Longer(server.transcript, server'.transcript)
        /\ server'.carrier = server.carrier /\ ~Handshaking(server')
    BY <1>3, <1>6, <2>1, <2>2, <2>3, LongerFacts DEF Like, Handshaking
  <2>5. Spoken(s2c, s2c', server.carrier)
    BY <2>1 DEF Spoken
  <2> QED
    BY <1>3, <1>4, <2>4, <2>5, StaysSettled
<1> QED
  BY <1>1, <1>8, <1>10, <1>11, <1>12, <1>13

\* Of an established server's state only clocks and flags change.
Idles(s, t) ==
  /\ t \in ServerStates /\ t.transcript = s.transcript
  /\ t.carrier = s.carrier /\ t.up = s.up

\* An event without an answer.
LEMMA QuietSettled ==
  ASSUME NonceInv, NonceInv', SettledInv, UNCHANGED client,
         Thinner(c2s, c2s'), server.up, NEW t, Idles(server, t),
         NEW p \in Paths, NEW links, ServerFinish(t, p, <<>>, links)
  PROVE  SettledStep
<1>1. server \in ServerStates /\ server' \in ServerStates
  BY DEF NonceInv, TypeOK
<1>2. Longer(server.transcript, t.transcript)
  BY <1>1, LongerFacts DEF Idles, ServerStates
<1>3. /\ t \in ServerStates /\ ~Handshaking(t) /\ t.carrier = server.carrier
      /\ Apt(t.carrier, p, <<>>)
  BY DEF Idles, Handshaking, Apt
<1> QED
  BY <1>1, <1>2, <1>3, EventSettled

\* The server's other events.
LEMMA OtherSettled ==
  ASSUME NonceInv, NonceInv', SettledInv, UNCHANGED client,
         \/ ServerGivesUpPath \/ ServerEndsDrain \/ ServerSends
         \/ ServerTimer \/ ServerStops \/ ServerSeesClose
  PROVE  SettledStep
<1>1. /\ server \in ServerStates /\ server' \in ServerStates
      /\ ServerOk(server) /\ c2s \in Queues /\ c2s' = c2s
      /\ client.transcript \in Transcripts
      /\ server.transcript \in Transcripts
      /\ DOMAIN sealed \subseteq Nonces /\ server.carrier \in Paths
      /\ ServerCovers(server, DOMAIN sealed)
  BY DEF NonceInv, TypeOK, ServerStates, ClientStates, ServerGivesUpPath,
         ServerEndsDrain, ServerSends, ServerTimer, ServerStops,
         ServerSeesClose
<1>2. Thinner(c2s, c2s')
  BY <1>1, ThinnerFacts
<1>3. "first" \in Paths /\ "second" \in Paths
  BY DEF Paths
<1>4. CASE ServerGivesUpPath
  <2> DEFINE t == [server EXCEPT !.validating = {}]
  <2>1. server.up /\ ServerFinish(t, "second", <<>>, Closed(link, {"second"}))
    BY <1>4 DEF ServerGivesUpPath
  <2>2. t \in ServerStates /\ t.up = server.up
    BY <1>1 DEF ServerStates
  <2>3. Idles(server, t)
    BY <1>1, <2>2 DEF Idles, ServerStates
  <2> HIDE DEF t
  <2> QED
    BY <1>2, <1>3, <2>1, <2>3, QuietSettled
<1>5. CASE ServerEndsDrain
  <2> DEFINE t == [server EXCEPT !.draining = {}]
  <2>1. server.up /\ ServerFinish(t, "first", <<>>, Closed(link, {"first"}))
    BY <1>5 DEF ServerEndsDrain
  <2>2. t \in ServerStates /\ t.up = server.up
    BY <1>1 DEF ServerStates
  <2>3. Idles(server, t)
    BY <1>1, <2>2 DEF Idles, ServerStates
  <2> HIDE DEF t
  <2> QED
    BY <1>2, <1>3, <2>1, <2>3, QuietSettled
<1>6. CASE ServerTimer
  <2>1. server.up /\ ServerFinish(server, server.carrier, <<>>, link)
    BY <1>6 DEF ServerTimer
  <2>2. Idles(server, server)
    BY <1>1 DEF Idles
  <2> QED
    BY <1>1, <1>2, <2>1, <2>2, QuietSettled
<1>7. CASE ServerSends
  <2> DEFINE t == SealData(server).state
             out == SealData(server).out
  <2>1. server.up /\ ServerFinish(t, server.carrier, out, link)
    BY <1>7 DEF ServerSends
  <2>2. ~Handshaking(server)
    BY <2>1 DEF Handshaking
  <2>3. t \in ServerStates /\ ~Handshaking(t)
    BY <1>1, <2>2, DataOutcome DEF Outcome, ServerOk
  <2>4. Like(server, t) /\ PlainOut(t, out)
    BY <1>1, AnswerLike
  <2>5. Longer(server.transcript, t.transcript) /\ t.carrier = server.carrier
    BY <1>1, <2>4, LongerFacts DEF Like
  <2>6. Apt(t.carrier, server.carrier, out)
    BY <2>4 DEF PlainOut, Apt
  <2> HIDE DEF t, out
  <2> QED
    BY <1>1, <1>2, <2>1, <2>3, <2>5, <2>6, EventSettled
<1>8. CASE ServerStops \/ ServerSeesClose
  <2>1. PICK why : server' = Down(server, why) /\ why # "none" /\ s2c' = s2c
    BY <1>8 DEF ServerStops, ServerSeesClose
  <2> DEFINE u == [server EXCEPT !.up = FALSE, !.reason = why]
  <2>2. server' = u
    BY <2>1 DEF Down
  <2>3. /\ u.transcript = server.transcript /\ u.carrier = server.carrier
        /\ u.reason = why
    BY <1>1 DEF ServerStates
  <2> HIDE DEF u
  <2>4. /\ Longer(server.transcript, server'.transcript)
        /\ server'.carrier = server.carrier /\ ~Handshaking(server')
    BY <1>1, <2>1, <2>2, <2>3, LongerFacts DEF Handshaking
  <2>5. Spoken(s2c, s2c', server.carrier)
    BY <2>1 DEF Spoken
  <2> QED
    BY <1>1, <1>2, <2>4, <2>5, StaysSettled
<1> QED
  BY <1>4, <1>5, <1>6, <1>7, <1>8

\* A second carrier is offered, and challenged or refused.
LEMMA ChallengeSettled ==
  ASSUME NonceInv, NonceInv', SettledInv, UNCHANGED client, ServerChallenges
  PROVE  SettledStep
<1>1. /\ server \in ServerStates /\ server' \in ServerStates
      /\ c2s \in Queues /\ s2c \in Queues /\ c2s' = c2s /\ server.up
      /\ client.transcript \in Transcripts
      /\ server.transcript \in Transcripts
  BY DEF NonceInv, TypeOK, ServerStates, ClientStates, ServerChallenges
<1>2. Thinner(c2s, c2s') /\ "second" \in Paths
  BY <1>1, ThinnerFacts DEF Paths
<1>3. CASE server.pending # {}
  <2> DEFINE t == [server EXCEPT !.offered = TRUE]
  <2>1. ServerFinish(t, "second", <<>>, Closed(link, {"second"}))
    BY <1>3 DEF ServerChallenges
  <2>2. t \in ServerStates /\ t.up = server.up
    BY <1>1 DEF ServerStates
  <2>3. Idles(server, t)
    BY <1>1, <2>2 DEF Idles, ServerStates
  <2> HIDE DEF t
  <2> QED
    BY <1>1, <1>2, <2>1, <2>3, QuietSettled
<1>4. CASE server.pending = {}
  <2> DEFINE a == ControlRecord(server, "challenge", <<>>)
             v == Append(server.transcript, Label(a))
             u == [server EXCEPT !.offered = TRUE, !.transcript = v,
                                 !.control_number = @ + 1,
                                 !.validating = {PATH_TIMEOUT}]
  <2>1. server' = u /\ s2c' = Sent(s2c, "second", <<a>>)
    BY <1>4 DEF ServerChallenges
  <2>2. a \in Records
    <3>1. "challenge" \in Types /\ <<>> \in Tags
      BY DEF Types, Tags, Transcripts
    <3> QED
      BY <1>1, <3>1, ControlFacts
  <2> HIDE DEF a
  <2>3. Longer(server.transcript, v)
    BY <1>1, <2>2, Extends, LongerFacts
  <2> HIDE DEF v
  <2>4. u.transcript = v /\ u.carrier = server.carrier
    BY <1>1 DEF ServerStates
  <2>5. u.up = server.up
    BY <1>1 DEF ServerStates
  <2> HIDE DEF u
  <2>6. /\ Longer(server.transcript, server'.transcript)
        /\ server'.carrier = server.carrier /\ ~Handshaking(server')
    BY <1>1, <2>1, <2>3, <2>4, <2>5 DEF Handshaking
  <2>7. Apt(server.carrier, "second", <<a>>)
    BY <2>2 DEF Apt
  <2>8. Spoken(s2c, s2c', server.carrier)
    BY <1>1, <1>2, <2>1, <2>7, AptSpoken
  <2> QED
    BY <1>1, <1>2, <2>6, <2>8, StaysSettled
<1> QED
  BY <1>3, <1>4

\* A transcript that is a part of the other has not forked from it.
LEMMA PartNotForked ==
  ASSUME NEW a \in Transcripts, NEW b \in Transcripts, Longer(a, b)
  PROVE  ~Forked(a, b)
<1>1. DOMAIN a = 1 .. Len(a)
  BY DEF Transcripts
<1> QED
  BY <1>1 DEF Forked, Longer

\* The session moves: the response proves that nothing is left behind.
LEMMA SwitchSettled ==
  ASSUME NonceInv, NonceInv', KeyInv, TranscriptInv, SettledInv,
         UNCHANGED client, server.up, c2s["second"] # <<>>,
         NEW r, r = Head(c2s["second"]),
         c2s' = [c2s EXCEPT !["second"] = Tail(@)],
         NEW s, Idles(server, s), PathResponseOk(s, r), NEW links,
         ServerFinish(CarrierSwitched(s, r), "second", <<>>, links)
  PROVE  SettledStep
<1> DEFINE v == Append(s.transcript, Label(r))
           t == [s EXCEPT !.transcript = v, !.validating = {},
                          !.carrier = "second", !.draining = {DRAIN_TIME}]
<1>1. /\ server \in ServerStates /\ server' \in ServerStates
      /\ c2s \in Queues /\ s2c \in Queues /\ client.sock \in Paths
      /\ client.transcript \in Transcripts
      /\ server.transcript \in Transcripts
  BY DEF NonceInv, TypeOK, ServerStates, ClientStates
<1>2. "first" \in Paths /\ "second" \in Paths
  BY DEF Paths
<1>3. /\ r \in Records /\ r \in InFlight(c2s) /\ r \in On(c2s, "second")
      /\ Thinner(c2s, c2s')
  <2>1. /\ [c2s EXCEPT !["second"] = Tail(@)] \in Queues
        /\ Taken(c2s, [c2s EXCEPT !["second"] = Tail(@)], "second")
        /\ r = c2s["second"][1]
    BY <1>1, <1>2, TailTaken
  <2>2. c2s' \in Queues /\ Taken(c2s, c2s', "second")
    BY <2>1
  <2>3. /\ c2s["second"][1] \in On(c2s, "second")
        /\ c2s["second"][1] \in InFlight(c2s)
        /\ c2s["second"][1] \in Records
    BY <1>1, <1>2, <2>2, TakenFacts
  <2>4. Thinner(c2s, c2s')
    BY <1>1, <1>2, ThinnerFacts
  <2> QED
    BY <2>1, <2>3, <2>4
<1>4. r.type = "response" /\ r.tag = server.transcript
  BY DEF PathResponseOk, Idles
<1>5. ~Forked(server.transcript, client.transcript)
  <2>1. Longer(server.transcript, client.transcript)
    BY <1>3, <1>4 DEF SettledInv, Settled
  <2> QED
    BY <1>1, <2>1, PartNotForked
<1>6. Good(server, client, c2s, s2c, link)
  BY <1>5 DEF TranscriptInv, Fine
<1>7. /\ Phase(server, client, InFlight(s2c), InFlight(c2s))
      /\ Places(server, client, c2s, s2c, link)
      /\ Lines(server, client, c2s, s2c, link)
  BY <1>6 DEF Good
<1>8. /\ client.sock = "second"
      /\ \A q \in On(c2s, "first") : q.type \in {"data", "ping"}
  <2>1. client.sock = "second"
    BY <1>1, <1>3, <1>7 DEF Places, Paths
  <2>2. \A q \in On(c2s, "first") : Plain(q)
    BY <1>7, <2>1 DEF Places
  <2>3. On(c2s, "first") \subseteq InFlight(c2s)
    BY <1>2 DEF On, InFlight
  <2>4. \A q \in On(c2s, "first") : Readable(q)
    BY <1>7, <2>3 DEF Lines
  <2> QED
    BY <2>1, <2>2, <2>4 DEF Plain, Readable
<1>9. \A q \in On(s2c, "first") : q.type \in {"data", "pong"}
  <2> DEFINE S == InFlight(s2c)
             C == InFlight(c2s)
  <2>1. server.epoch \in Int /\ server.epoch >= 0
    BY DEF KeyInv, KeysHold, EpochsFit
  <2>2. On(s2c, "first") \subseteq S
    BY <1>2 DEF On, InFlight
  <2>3. Keyed(server, client, S) /\ Phase(server, client, S, C) /\ r \in C
    BY <1>3, <1>7, <2>1 DEF Lines
  <2> HIDE DEF S, C
  <2>4. Flight(S, {})
    BY <1>4, <2>3, ResponseIdle
  <2> QED
    BY <2>2, <2>3, <2>4 DEF Flight, Plain, Keyed
<1>10. Longer(server.transcript, v) /\ v \in Transcripts
  BY <1>1, <1>3, Extends, LongerFacts DEF Idles
<1>11. t \in ServerStates /\ t.up = s.up
  <2>1. DRAIN_TIME \in Nat
    BY KeyUpdateAssumption
  <2> HIDE DEF v
  <2> QED
    BY <1>2, <1>10, <2>1 DEF Idles, ServerStates
<1> HIDE DEF v
<1>12. t.transcript = v /\ t.carrier = "second"
  BY DEF Idles, ServerStates
<1>13. ServerFinish(t, "second", <<>>, links)
  BY DEF CarrierSwitched, v
<1> HIDE DEF t
<1>14. ~Handshaking(t) /\ Apt(t.carrier, "second", <<>>)
  BY <1>11 DEF Idles, Handshaking, Apt
<1>15. /\ Longer(t.transcript, server'.transcript)
       /\ server'.carrier = t.carrier /\ ~Handshaking(server')
       /\ Spoken(s2c, s2c', t.carrier)
  BY <1>1, <1>2, <1>11, <1>13, <1>14, FinishSays
<1>16. Longer(server.transcript, server'.transcript)
  <2>1. server'.transcript \in Transcripts
    BY <1>1 DEF ServerStates
  <2> QED
    BY <1>1, <1>10, <1>12, <1>15, <2>1, LongerFacts
<1>17. Settled(server', client, c2s', s2c')
  BY <1>3, <1>8, <1>9, <1>12, <1>15
     DEF SettledInv, Settled, Thinner, Spoken
<1>18. Longer(client.transcript, client'.transcript)
  BY <1>1, LongerFacts
<1> QED
  BY <1>16, <1>17, <1>18 DEF SettledStep, SettledInv

\* The response is checked, and the session moves or stays.
LEMMA ValidateSettled ==
  ASSUME NonceInv, NonceInv', KeyInv, TranscriptInv, SettledInv,
         UNCHANGED client, ServerValidates
  PROVE  SettledStep
<1> DEFINE r == Head(c2s["second"])
           s == ExpirePrevious(server)
           o == Opened(s, r)
           t == [o EXCEPT !.validating = {}]
<1>1. /\ server.up /\ c2s["second"] # <<>>
      /\ c2s' = [c2s EXCEPT !["second"] = Tail(@)]
      /\ \/ /\ PathResponseOk(s, r)
            /\ ServerFinish(CarrierSwitched(s, r), "second", <<>>, link)
         \/ ServerFinish(t, "second", <<>>, Closed(link, {"second"}))
  BY DEF ServerValidates, Arrived
<1>2. ServerOk(server) /\ c2s \in Queues /\ "second" \in Paths
  BY DEF NonceInv, TypeOK, Paths
<1>3. /\ s \in ServerStates /\ o \in ServerStates
      /\ Grows(server, s) /\ Grows(server, o)
      /\ Like(server, s) /\ Like(server, o)
  BY <1>2, OpenedFacts, OpenedLike
<1>4. r = Head(c2s["second"])
  OBVIOUS
<1> HIDE DEF r, s, o
<1>5. Idles(server, s)
  BY <1>3 DEF Idles, Grows, Like
<1>6. t \in ServerStates /\ t.up = o.up
  BY <1>3 DEF ServerStates
<1>7. t.transcript = o.transcript /\ t.carrier = o.carrier
  BY <1>3 DEF ServerStates
<1> HIDE DEF t
<1>8. Idles(server, t)
  BY <1>3, <1>6, <1>7 DEF Idles, Grows, Like
<1>9. CASE /\ PathResponseOk(s, r)
           /\ ServerFinish(CarrierSwitched(s, r), "second", <<>>, link)
  BY <1>1, <1>4, <1>5, <1>9, SwitchSettled
<1>10. CASE ServerFinish(t, "second", <<>>, Closed(link, {"second"}))
  <2>1. Thinner(c2s, c2s')
    BY <1>1, <1>2, ThinnerFacts
  <2> QED
    BY <1>1, <1>2, <1>8, <1>10, <2>1, QuietSettled
<1> QED
  BY <1>1, <1>9, <1>10

\* The messages of the handshake make a transcript longer.
LEMMA ExtendedLonger ==
  ASSUME NEW t \in Transcripts, NEW type \in Types
  PROVE  Append(t, type) \in Transcripts /\ Longer(t, Append(t, type))
<1>1. type \in Labels
  BY DEF Labels
<1> QED
  BY <1>1, LongerFacts

\* The handshake takes place on the first carrier.
LEMMA GreetingSettled ==
  ASSUME NonceInv, NonceInv', SettledInv, UNCHANGED client,
         \/ ServerHello \/ ServerFinishes \/ ServerEstablishes
         \/ ServerRefuses \/ ServerAbandons
  PROVE  SettledStep
<1> DEFINE r == Head(c2s["first"])
<1>1. /\ ServerOk(server) /\ server \in ServerStates /\ c2s \in Queues
      /\ client.transcript \in Transcripts
      /\ server.transcript \in Transcripts
  BY DEF NonceInv, TypeOK, ServerStates, ClientStates
<1>2. Handshaking(server)
  BY DEF ServerHello, ServerFinishes, ServerEstablishes, ServerRefuses,
         ServerAbandons, Incoming
<1>3. \/ c2s' = c2s
      \/ c2s["first"] # <<>> /\ c2s' = [c2s EXCEPT !["first"] = Tail(@)]
  BY DEF ServerHello, ServerFinishes, ServerEstablishes, ServerRefuses,
         ServerAbandons, Incoming, Arrived
<1>4. Thinner(c2s, c2s') /\ "first" \in Paths
  BY <1>1, <1>3, ThinnerFacts DEF Paths
<1>5. Spoken(s2c, s2c', server.carrier)
  BY <1>2 DEF SettledInv, Settled, Spoken
<1>6. ASSUME Longer(server.transcript, server'.transcript),
             server'.carrier = server.carrier
      PROVE  SettledStep
  BY <1>1, <1>2, <1>4, <1>5, <1>6, StaysSettled
<1> HIDE DEF r
<1>7. CASE ServerHello
  <2> DEFINE a == Clear("server", "server_hello", <<r.type>>)
             t == Extended(server, r)
             u == Extended(t, a)
  <2>1. server' = u
    BY <1>7 DEF ServerHello, r
  <2>2. r.type \in Types /\ a.type \in Types
    BY <1>7 DEF ServerHello, Clear, Record, Types, r
  <2> HIDE DEF a
  <2>3. /\ ServerOk(t) /\ Aside(server, t)
        /\ t.transcript = Append(server.transcript, r.type)
    BY <1>1, <2>2, ExtendedAside
  <2> HIDE DEF t
  <2>4. /\ Aside(t, u) /\ u.transcript = Append(t.transcript, a.type)
    BY <2>2, <2>3, ExtendedAside
  <2> HIDE DEF u
  <2>5. t.transcript \in Transcripts /\ Longer(server.transcript, t.transcript)
    BY <1>1, <2>2, <2>3, ExtendedLonger
  <2>6. u.transcript \in Transcripts /\ Longer(t.transcript, u.transcript)
    BY <2>2, <2>4, <2>5, ExtendedLonger
  <2>7. Longer(server.transcript, u.transcript)
    BY <1>1, <2>5, <2>6, LongerFacts
  <2> QED
    BY <1>6, <2>1, <2>3, <2>4, <2>7 DEF Aside
<1>8. CASE ServerFinishes
  <2> DEFINE t == Extended(server, r)
             a == SealHandshake(t, "server", 0, "server_finish")
             u == Extended(t, a)
  <2>1. server' = u /\ c2s["first"] # <<>>
    BY <1>8 DEF ServerFinishes, Incoming, Arrived, r
  <2>2. r \in Records /\ r.type \in Types
    <3>1. r \in Records
      BY <1>1, <1>4, <2>1, TailTaken DEF r
    <3> QED
      BY <3>1 DEF Records
  <2>3. a.type \in Types
    BY DEF SealHandshake, Record, Types
  <2> HIDE DEF a
  <2>4. /\ ServerOk(t) /\ Aside(server, t)
        /\ t.transcript = Append(server.transcript, r.type)
    BY <1>1, <2>2, ExtendedAside
  <2> HIDE DEF t
  <2>5. /\ Aside(t, u) /\ u.transcript = Append(t.transcript, a.type)
    BY <2>3, <2>4, ExtendedAside
  <2> HIDE DEF u
  <2>6. t.transcript \in Transcripts /\ Longer(server.transcript, t.transcript)
    BY <1>1, <2>2, <2>4, ExtendedLonger
  <2>7. u.transcript \in Transcripts /\ Longer(t.transcript, u.transcript)
    BY <2>3, <2>5, <2>6, ExtendedLonger
  <2>8. Longer(server.transcript, u.transcript)
    BY <1>1, <2>6, <2>7, LongerFacts
  <2> QED
    BY <1>6, <2>1, <2>4, <2>5, <2>8 DEF Aside
<1>9. CASE ServerEstablishes
  <2> DEFINE t == Extended(server, r)
             u == [t EXCEPT !.up = TRUE, !.epoch = 0,
                            !.secret = t.transcript, !.age = 0,
                            !.deadline = {}]
  <2>1. c2s["first"] # <<>>
    BY <1>9 DEF ServerEstablishes, Incoming, Arrived
  <2>2. r \in Records /\ r.type \in Types
    <3>1. r \in Records
      BY <1>1, <1>4, <2>1, TailTaken DEF r
    <3> QED
      BY <3>1 DEF Records
  <2>3. /\ ServerOk(t) /\ Aside(server, t)
        /\ t.transcript = Append(server.transcript, r.type)
    BY <1>1, <2>2, ExtendedAside
  <2>4. server' = [Established(t) EXCEPT !.age = 0, !.deadline = {}]
    BY <1>9 DEF ServerEstablishes, r
  <2> HIDE DEF t
  <2>5. t \in ServerStates
    BY <2>3 DEF ServerOk
  <2>6. server' = u
    BY <2>4, <2>5 DEF Established, ServerStates
  <2>7. u.transcript = t.transcript /\ u.carrier = t.carrier
    BY <2>5 DEF ServerStates
  <2> HIDE DEF u
  <2>8. Longer(server.transcript, t.transcript)
    BY <1>1, <2>2, <2>3, ExtendedLonger
  <2> QED
    BY <1>6, <2>3, <2>6, <2>7, <2>8 DEF Aside
<1>10. CASE ServerRefuses \/ ServerAbandons
  <2>1. PICK why : server' = Down(server, why)
    BY <1>10 DEF ServerRefuses, ServerAbandons
  <2> DEFINE u == [server EXCEPT !.up = FALSE, !.reason = why]
  <2>2. server' = u
    BY <2>1 DEF Down
  <2>3. u.transcript = server.transcript /\ u.carrier = server.carrier
    BY <1>1 DEF ServerStates
  <2> HIDE DEF u
  <2> QED
    BY <1>1, <1>6, <2>2, <2>3, LongerFacts
<1> QED
  BY <1>7, <1>8, <1>9, <1>10

\* Every step of the server.
LEMMA ServerSettled ==
  ASSUME NonceInv, NonceInv', KeyInv, TranscriptInv, SettledInv,
         ServerTask \/ ServerChoices
  PROVE  SettledStep
<1>1. UNCHANGED client
  BY DEF ServerTask, ServerChoices
<1>2. \/ ServerHello \/ ServerFinishes \/ ServerEstablishes
      \/ ServerRefuses \/ ServerAbandons \/ ServerReceives
      \/ ServerChallenges \/ ServerValidates
      \/ ServerGivesUpPath \/ ServerEndsDrain \/ ServerSends
      \/ ServerTimer \/ ServerStops \/ ServerSeesClose
  BY DEF ServerTask, ServerChoices, ServerHandshakes
<1> QED
  BY <1>1, <1>2, GreetingSettled, ReceiveSettled, ChallengeSettled,
     ValidateSettled, OtherSettled

\* What the client sends, if anything; t is its transcript afterwards.
Told(t) ==
  \/ c2s' = c2s
  \/ \E y \in Records : /\ c2s' = Sent(c2s, client.sock, <<y>>)
                        /\ y.type = "response" =>
                             y.tag \in Transcripts /\ Longer(y.tag, t)

\* A client that has moved neither returns nor starts over.
Abides(c, d) ==
  /\ c.sock = "second" => d.sock = "second"
  /\ d.sock = "second" => ~Handshaking(d)

\* A client speaks on its own carrier only.
LEMMA ClientSpeaks ==
  ASSUME NonceInv, NonceInv', SettledInv, UNCHANGED server,
         Thinner(s2c, s2c'), Longer(client.transcript, client'.transcript),
         Abides(client, client'), Told(client'.transcript)
  PROVE  SettledStep
<1> DEFINE d == client'
           n == c2s'
           m == s2c'
<1>1. /\ c2s \in Queues /\ n \in Queues /\ client.sock \in Paths
      /\ server.transcript \in Transcripts /\ "first" \in Paths
      /\ client.transcript \in Transcripts /\ d.transcript \in Transcripts
  <2>1. /\ c2s \in Queues /\ client.sock \in Paths /\ "first" \in Paths
        /\ server.transcript \in Transcripts
        /\ client.transcript \in Transcripts
    BY DEF NonceInv, TypeOK, ServerStates, ClientStates, Paths
  <2>2. n \in Queues /\ d \in ClientStates
    BY DEF NonceInv, TypeOK
  <2>3. d.transcript \in Transcripts
    BY <2>2 DEF ClientStates
  <2> QED
    BY <2>1, <2>2, <2>3
<1>2. /\ client.sock = "second" => On(n, "first") = On(c2s, "first")
      /\ \A r \in InFlight(n) : r \in InFlight(c2s) \/
           (r.type = "response" =>
              r.tag \in Transcripts /\ Longer(r.tag, d.transcript))
  <2>1. CASE n = c2s
    BY <2>1
  <2>2. ASSUME NEW y \in Records, n = Sent(c2s, client.sock, <<y>>),
               y.type = "response" =>
                 y.tag \in Transcripts /\ Longer(y.tag, d.transcript)
        PROVE  /\ client.sock = "second" => On(n, "first") = On(c2s, "first")
               /\ \A r \in InFlight(n) : r \in InFlight(c2s) \/
                    (r.type = "response" =>
                       r.tag \in Transcripts /\ Longer(r.tag, d.transcript))
    <3>1. Put(c2s, n, client.sock, y, link)
      BY <1>1, <2>2, SentPut
    <3> HIDE DEF n, d
    <3>2. /\ InFlight(n) \subseteq InFlight(c2s) \cup {y}
          /\ \A x \in Paths : x # client.sock => On(n, x) = On(c2s, x)
      BY <1>1, <3>1, PutFacts
    <3> QED
      BY <1>1, <2>2, <3>2
  <2> QED
    BY <2>1, <2>2 DEF Told
<1>3. /\ Thinner(s2c, m) /\ Longer(client.transcript, d.transcript)
      /\ Abides(client, d)
  OBVIOUS
<1> HIDE DEF d, n, m
<1>4. \A r \in InFlight(c2s) : r.type = "response" =>
        r.tag \in Transcripts /\ Longer(r.tag, d.transcript)
  BY <1>1, <1>3, LongerFacts DEF SettledInv, Settled
<1>5. Settled(server, d, n, m)
  BY <1>2, <1>3, <1>4 DEF SettledInv, Settled, Thinner, Abides
<1>6. Longer(server.transcript, server.transcript)
  BY <1>1, LongerFacts
<1> QED
  BY <1>3, <1>5, <1>6 DEF SettledStep, SettledInv, d, n, m

\* What the client's steps have in common.
LEMMA ClientStart ==
  ASSUME NonceInv, KeyInv
  PROVE  /\ ClientOk(client) /\ client \in ClientStates
         /\ client.sock \in Paths /\ c2s \in Queues /\ s2c \in Queues
         /\ client.transcript \in Transcripts
         /\ client.up => client.epoch >= 0
         /\ Longer(client.transcript, client.transcript)
         /\ Thinner(s2c, s2c)
<1>1. /\ ClientOk(client) /\ client \in ClientStates
      /\ client.sock \in Paths /\ c2s \in Queues /\ s2c \in Queues
      /\ client.transcript \in Transcripts
      /\ client.up => client.epoch >= 0
  BY ClientFacts DEF NonceInv, TypeOK, KeyInv, KeysHold, EpochsFit
<1> QED
  BY <1>1, LongerFacts, ThinnerFacts

\* Steps that leave the transcript alone.
LEMMA SendsSettled ==
  ASSUME NonceInv, NonceInv', KeyInv, SettledInv, UNCHANGED server,
         \/ ClientSends \/ ClientPings \/ ClientDials
         \/ ClientDialRefused \/ ClientStops \/ ClientExpires
         \/ ClientSeesClose \/ ClientAbandons \/ ClientRejects
         \/ ClientHandles(PlainOk, AcceptPlain)
  PROVE  SettledStep
<1>1. /\ client \in ClientStates /\ ClientOk(client)
      /\ client.sock \in Paths /\ s2c \in Queues
      /\ Longer(client.transcript, client.transcript)
      /\ Thinner(s2c, s2c)
  BY ClientStart
<1>2. ASSUME client'.transcript = client.transcript, Abides(client, client'),
             c2s' = c2s, Thinner(s2c, s2c')
      PROVE  SettledStep
  <2>1. /\ Told(client'.transcript)
        /\ Longer(client.transcript, client'.transcript)
    BY <1>1, <1>2 DEF Told
  <2> QED
    BY <1>2, <2>1, ClientSpeaks
<1>3. CASE ClientSends \/ ClientPings
  <2>1. s2c' = s2c /\ client.up
    BY <1>3 DEF ClientSends, ClientPings, CanSend
  <2>2. client'.transcript = client.transcript /\ client'.sock = client.sock
    BY <1>1, <1>3 DEF ClientSends, ClientPings, ClientStates
  <2>3. client'.up
    BY <1>1, <1>3, <2>1 DEF ClientSends, ClientPings, ClientStates
  <2>4. PICK a \in Records : Transmit(a) /\ a.type # "response"
    <3>1. CASE ClientSends
      <4> DEFINE a == ClientRecord(client, "data", client.data_number,
                                   "data", <<>>)
      <4>1. Transmit(a)
        BY <3>1 DEF ClientSends
      <4>2. /\ "data" \in Kinds /\ "data" \in Types /\ <<>> \in Tags
            /\ client.data_number \in Nat
        BY <1>1, ClientFacts DEF Kinds, Types, Tags, Transcripts
      <4>3. a \in Records /\ a.type = "data"
        BY <1>1, <4>2, ClientRecordFacts
      <4> HIDE DEF a
      <4> QED
        BY <4>1, <4>3
    <3>2. CASE ClientPings
      <4> DEFINE a == ClientRecord(client, "control", 1, "ping", <<>>)
      <4>1. Transmit(a)
        BY <3>2 DEF ClientPings
      <4>2. /\ "control" \in Kinds /\ "ping" \in Types /\ <<>> \in Tags
            /\ 1 \in Nat
        BY DEF Kinds, Types, Tags, Transcripts
      <4>3. a \in Records /\ a.type = "ping"
        BY <1>1, <4>2, ClientRecordFacts
      <4> HIDE DEF a
      <4> QED
        BY <4>1, <4>3
    <3> QED
      BY <1>3, <3>1, <3>2
  <2>5. /\ Told(client'.transcript) /\ Abides(client, client')
        /\ Longer(client.transcript, client'.transcript)
    BY <1>1, <2>2, <2>3, <2>4 DEF Told, Transmit, Abides, Handshaking
  <2> QED
    BY <1>1, <2>1, <2>5, ClientSpeaks
<1>4. CASE ClientDials
  <2> DEFINE d == [client EXCEPT !.sock = "second", !.dialling = TRUE]
  <2>1. client' = d /\ c2s' = c2s /\ s2c' = s2c /\ client.up
    BY <1>4 DEF ClientDials, CanSend
  <2>2. d.transcript = client.transcript /\ d.sock = "second"
    BY <1>1 DEF ClientStates
  <2>3. d.up = client.up
    BY <1>1 DEF ClientStates
  <2> HIDE DEF d
  <2>4. Abides(client, d)
    BY <2>1, <2>2, <2>3 DEF Abides, Handshaking
  <2> QED
    BY <1>1, <1>2, <2>1, <2>2, <2>4
<1>5. ASSUME NEW why, client' = [client EXCEPT !.up = FALSE, !.reason = why],
             why # "none", c2s' = c2s, Thinner(s2c, s2c')
      PROVE  SettledStep
  <2> DEFINE d == [client EXCEPT !.up = FALSE, !.reason = why]
  <2>1. /\ d.transcript = client.transcript /\ d.sock = client.sock
        /\ d.reason = why
    BY <1>1 DEF ClientStates
  <2>2. client' = d
    BY <1>5
  <2> HIDE DEF d
  <2>3. Abides(client, d)
    BY <1>5, <2>1 DEF Abides, Handshaking
  <2> QED
    BY <1>2, <1>5, <2>1, <2>2, <2>3
<1>6. CASE \/ ClientDialRefused \/ ClientStops \/ ClientExpires
           \/ ClientSeesClose \/ ClientAbandons
  <2>1. /\ c2s' = c2s /\ s2c' = s2c
        /\ \E why \in {"refused", "timeout", "stopped", "closed",
                       "invalid record"} :
             client' = [client EXCEPT !.up = FALSE, !.reason = why]
    BY <1>6 DEF ClientDialRefused, ClientStops, ClientExpires,
                ClientSeesClose, ClientAbandons, ClientDown
  <2> QED
    BY <1>1, <1>5, <2>1
<1>7. CASE ClientRejects
  <2>1. /\ c2s' = c2s /\ s2c[client.sock] # <<>>
        /\ s2c' = [s2c EXCEPT ![client.sock] = Tail(@)]
        /\ \E why \in {"concurrent update", "epoch overflow",
                       "invalid record"} :
             client' = [client EXCEPT !.up = FALSE, !.reason = why]
    BY <1>7 DEF ClientRejects, Arrived
  <2>2. Thinner(s2c, s2c')
    BY <1>1, <2>1, ThinnerFacts
  <2> QED
    BY <1>5, <2>1, <2>2
<1>8. CASE ClientHandles(PlainOk, AcceptPlain)
  <2> DEFINE b == client.pinging /\ Head(s2c[client.sock]).type # "pong"
             d == [client EXCEPT !.pinging = b]
  <2>1. /\ c2s' = c2s /\ s2c[client.sock] # <<>> /\ client.up
        /\ s2c' = [s2c EXCEPT ![client.sock] = Tail(@)]
    BY <1>8 DEF ClientHandles, AcceptPlain, Arrived
  <2>2. client' = d
    BY <1>1, <1>8 DEF ClientHandles, AcceptPlain, ClientStates
  <2>3. Thinner(s2c, s2c')
    BY <1>1, <2>1, ThinnerFacts
  <2> HIDE DEF b
  <2>4. d.transcript = client.transcript /\ d.sock = client.sock
    BY <1>1 DEF ClientStates
  <2>5. d.up = client.up
    BY <1>1 DEF ClientStates
  <2> HIDE DEF d
  <2>6. Abides(client, d)
    BY <2>1, <2>4, <2>5 DEF Abides, Handshaking
  <2> QED
    BY <1>2, <2>1, <2>2, <2>3, <2>4, <2>6
<1> QED
  BY <1>3, <1>4, <1>6, <1>7, <1>8

\* A client that is up keeps its carrier and sends one record.
LEMMA UpdateSettled ==
  ASSUME NonceInv, NonceInv', KeyInv', SettledInv, UNCHANGED server,
         Thinner(s2c, s2c'), client.epoch >= 0, client.epoch \in Int,
         client'.epoch = client.epoch, client'.sock = client.sock,
         Longer(client.transcript, client'.transcript),
         Told(client'.transcript)
  PROVE  SettledStep
<1> DEFINE d == client'
<1>1. Handshaking(d) => d.epoch = -1
  BY DEF KeyInv, KeysHold, EpochsFit
<1>2. d.epoch = client.epoch /\ d.sock = client.sock
  OBVIOUS
<1> HIDE DEF d
<1>3. Abides(client, d)
  BY <1>1, <1>2 DEF Abides
<1> QED
  BY <1>3, ClientSpeaks DEF d

\* An update that the client starts, from the state c.
LEMMA BeginsSettled ==
  ASSUME NonceInv, NonceInv', KeyInv', SettledInv, UNCHANGED server,
         Thinner(s2c, s2c'), NEW c, ClientOk(c), Begins(c),
         c.epoch = client.epoch, c.sock = client.sock, c.epoch >= 0,
         Longer(client.transcript, c.transcript),
         client.transcript \in Transcripts
  PROVE  SettledStep
<1>1. PICK y \in Records :
        /\ Transmit(y) /\ InitFits(y, client', c.transcript)
        /\ client'.epoch = c.epoch /\ client'.sock = c.sock
  BY BeginsFits
<1>2. c.transcript \in Transcripts /\ c.epoch \in Int
  BY ClientFacts
<1>3. client'.transcript = Append(c.transcript, Label(y))
      /\ y.type # "response"
  BY <1>1 DEF InitFits
<1>4. /\ client'.transcript \in Transcripts
      /\ Longer(c.transcript, client'.transcript)
  BY <1>2, <1>3, Extends, LongerFacts
<1>5. Longer(client.transcript, client'.transcript)
  BY <1>2, <1>4, LongerFacts
<1>6. Told(client'.transcript)
  BY <1>1, <1>3 DEF Told, Transmit
<1> QED
  BY <1>1, <1>2, <1>5, <1>6, UpdateSettled

\* Updates begin unasked, or with a request.
LEMMA BeginningSettled ==
  ASSUME NonceInv, NonceInv', KeyInv, KeyInv', SettledInv, UNCHANGED server,
         \/ \E mode \in {"routine", "full"} : ClientStarts(mode)
         \/ ClientHandles(RequestOk, AcceptUpdateRequest)
  PROVE  SettledStep
<1>1. /\ ClientOk(client) /\ client \in ClientStates /\ client.sock \in Paths
      /\ client.transcript \in Transcripts
      /\ (client.up => client.epoch >= 0)
      /\ Longer(client.transcript, client.transcript)
      /\ s2c \in Queues /\ Thinner(s2c, s2c)
  BY ClientStart
<1>2. CASE \E mode \in {"routine", "full"} : ClientStarts(mode)
  <2>1. s2c' = s2c /\ client.up /\ Begins(client)
    BY <1>2 DEF ClientStarts, CanSend, Begins
  <2> QED
    BY <1>1, <2>1, BeginsSettled
<1>3. CASE ClientHandles(RequestOk, AcceptUpdateRequest)
  <2> DEFINE r == Head(s2c[client.sock])
             u == Append(client.transcript, Label(r))
             c == [client EXCEPT !.transcript = u]
  <2>1. /\ client.up /\ Arrived(s2c, client.sock) /\ RequestOk(client, r)
        /\ s2c' = [s2c EXCEPT ![client.sock] = Tail(@)] /\ RoutineInit(c)
    BY <1>1, <1>3 DEF ClientHandles, AcceptUpdateRequest, ClientStates
  <2>2. r \in Records
    BY <1>1, <2>1, HeadInFlight
  <2>3. Thinner(s2c, s2c')
    BY <1>1, <2>1, ThinnerFacts DEF Arrived
  <2> HIDE DEF r
  <2>4. client.pending = {} /\ client.epoch >= 0
    BY <1>1, <2>1 DEF RequestOk
  <2>5. /\ u \in Transcripts /\ Len(client.transcript) <= Len(u)
        /\ Longer(client.transcript, u)
    BY <1>1, <2>2, Extends, LongerFacts
  <2> HIDE DEF u
  <2>6. c \in ClientStates /\ c.up = client.up
    BY <1>1, <2>5 DEF ClientStates
  <2>7. /\ c.epoch = client.epoch /\ c.secret = client.secret
        /\ c.pending = client.pending /\ c.transcript = u
        /\ c.sock = client.sock
    BY <1>1 DEF ClientStates
  <2> HIDE DEF c
  <2>8. ClientOk(c)
    <3>1. Len(client.secret) \in Nat /\ Len(u) \in Nat
          /\ Len(client.transcript) \in Nat
      BY <1>1, <2>5, ClientFacts DEF Transcripts
    <3>2. Len(c.secret) <= Len(c.transcript)
      BY <1>1, <2>5, <2>7, <3>1 DEF ClientOk
    <3>3. ~Handshaking(c) /\ c.pending = {}
      BY <2>1, <2>4, <2>6, <2>7 DEF Handshaking
    <3> QED
      BY <2>6, <3>2, <3>3 DEF ClientOk
  <2>9. Begins(c)
    BY <2>1 DEF Begins
  <2>10. c.epoch >= 0 /\ Longer(client.transcript, c.transcript)
    BY <2>4, <2>5, <2>7
  <2> QED
    BY <1>1, <2>3, <2>7, <2>8, <2>9, <2>10, BeginsSettled
<1> QED
  BY <1>2, <1>3

\* A confirmation follows the record r in the transcript.
LEMMA ConfirmsSettled ==
  ASSUME NonceInv, NonceInv', KeyInv, KeyInv', SettledInv, UNCHANGED server,
         NEW r \in Records, Reading(r),
         NEW k \in Transcripts, NEW type \in {"commit", "confirm"},
         Confirm(client, r, k, type)
  PROVE  SettledStep
<1> DEFINE c == client
           p == CHOOSE q \in c.pending : TRUE
           y == Record("client", "control", p.epoch, k, 0, type, k)
           u == Append(Append(c.transcript, Label(r)), Label(y))
           P == [p EXCEPT !.secret = k, !.phase = "commit"]
           d == [c EXCEPT !.transcript = u, !.pending = {P}]
<1>1. /\ ClientOk(c) /\ c \in ClientStates /\ c.sock \in Paths
      /\ c2s \in Queues /\ s2c \in Queues /\ (c.up => c.epoch >= 0)
      /\ c.transcript \in Transcripts /\ c.epoch \in Int
  BY ClientStart, ClientFacts
<1>2. Transmit(y) /\ client' = d
  BY <1>1 DEF Confirm, ClientStates
<1>3. p \in c.pending
  BY DEF Reading
<1>4. p.epoch \in Int
  BY <1>1, <1>3, ClientFacts
<1>5. y \in Records /\ y.type = type
  <2>1. /\ "client" \in Froms /\ "control" \in Kinds /\ type \in Types
        /\ k \in Tags /\ 0 \in Nat
    BY DEF Froms, Kinds, Types, Tags
  <2> HIDE DEF p
  <2> QED
    BY <1>4, <2>1 DEF Record, Records
<1> HIDE DEF y, P, p
<1>6. Longer(c.transcript, u)
  BY <1>1, <1>5, LongerTwo
<1> HIDE DEF u
<1>7. d.epoch = c.epoch /\ d.sock = c.sock /\ d.transcript = u
  BY <1>1 DEF ClientStates
<1> HIDE DEF d
<1>8. Thinner(s2c, s2c') /\ c.epoch >= 0
  BY <1>1, ThinnerFacts DEF Reading, Arrived
<1>9. Told(d.transcript)
  BY <1>2, <1>5 DEF Told, Transmit
<1> QED
  BY <1>1, <1>2, <1>6, <1>7, <1>8, <1>9, UpdateSettled

\* An ACK or a full reply is confirmed.
LEMMA AckSettled ==
  ASSUME NonceInv, NonceInv', KeyInv, KeyInv', SettledInv, UNCHANGED server,
         \/ ClientHandles(AckOk, AcceptUpdateAck)
         \/ ClientHandles(ReplyOk, AcceptFullReply)
  PROVE  SettledStep
<1> DEFINE r == Head(s2c[client.sock])
<1>1. client.sock \in Paths /\ client.transcript \in Transcripts
      /\ AcksOnce(server, client, s2c) /\ s2c \in Queues
  BY ClientFacts DEF NonceInv, TypeOK
<1>2. /\ client.up /\ Arrived(s2c, client.sock)
      /\ s2c' = [s2c EXCEPT ![client.sock] = Tail(@)]
      /\ \/ AckOk(client, r) /\ Confirm(client, r, r.tag, "commit")
         \/ /\ ReplyOk(client, r)
            /\ Confirm(client, r, Append(client.transcript, Label(r)),
                       "confirm")
  BY DEF ClientHandles, AcceptUpdateAck, AcceptFullReply
<1>3. r \in Records
  BY <1>1, <1>2, HeadInFlight
<1>4. r = s2c[client.sock][1] /\ 1 \in 1 .. Len(s2c[client.sock])
  BY <1>1, <1>2, TailFacts DEF Arrived
<1>5. r = Head(s2c[client.sock])
  OBVIOUS
<1> HIDE DEF r
<1>6. CASE AckOk(client, r) /\ Confirm(client, r, r.tag, "commit")
  <2>1. r.type = "ack" /\ client.pending # {}
    BY <1>6 DEF AckOk
  <2>2. r.tag \in Transcripts
    BY <1>1, <1>4, <2>1 DEF AcksOnce, AcksFit
  <2>3. Reading(r)
    BY <1>2, <1>5, <2>1 DEF Reading
  <2> QED
    BY <1>3, <1>6, <2>2, <2>3, ConfirmsSettled
<1>7. CASE /\ ReplyOk(client, r)
           /\ Confirm(client, r, Append(client.transcript, Label(r)),
                      "confirm")
  <2> DEFINE k == Append(client.transcript, Label(r))
  <2>1. r.type = "full_reply" /\ client.pending # {}
    BY <1>7 DEF ReplyOk
  <2>2. k \in Transcripts
    BY <1>1, <1>3, Extends
  <2>3. Reading(r)
    BY <1>2, <1>5, <2>1 DEF Reading
  <2>4. Confirm(client, r, k, "confirm")
    BY <1>7
  <2> HIDE DEF k
  <2> QED
    BY <1>3, <2>2, <2>3, <2>4, ConfirmsSettled
<1> QED
  BY <1>2, <1>6, <1>7

\* DONE joins the transcript and is not answered.
LEMMA DoneSettled ==
  ASSUME NonceInv, NonceInv', KeyInv, SettledInv, UNCHANGED server,
         ClientHandles(DoneOk, AcceptUpdateDone)
  PROVE  SettledStep
<1> DEFINE c == client
           r == Head(s2c[c.sock])
           p == CHOOSE q \in c.pending : TRUE
           u == Append(c.transcript, Label(r))
           d == [c EXCEPT !.transcript = u, !.secret = p.secret,
                          !.epoch = p.epoch, !.data_number = 0,
                          !.control_number = 1, !.pending = {}]
<1>1. /\ c \in ClientStates /\ c.sock \in Paths /\ s2c \in Queues
      /\ c.transcript \in Transcripts
  BY ClientStart
<1>2. /\ c.up /\ Arrived(s2c, c.sock) /\ c2s' = c2s /\ client' = d
      /\ s2c' = [s2c EXCEPT ![c.sock] = Tail(@)]
  BY <1>1 DEF ClientHandles, AcceptUpdateDone, ClientStates
<1>3. Thinner(s2c, s2c') /\ r \in Records
  BY <1>1, <1>2, ThinnerFacts, HeadInFlight DEF Arrived
<1> HIDE DEF r, p
<1>4. Longer(c.transcript, u)
  BY <1>1, <1>3, Extends, LongerFacts
<1> HIDE DEF u
<1>5. d.sock = c.sock /\ d.transcript = u
  BY <1>1 DEF ClientStates
<1>6. d.up = c.up
  BY <1>1 DEF ClientStates
<1> HIDE DEF d
<1>7. Abides(c, d) /\ Told(d.transcript)
  BY <1>2, <1>5, <1>6 DEF Abides, Handshaking, Told
<1> QED
  BY <1>2, <1>3, <1>4, <1>5, <1>7, ClientSpeaks

\* A response proves the transcript up to the challenge.
LEMMA RespondsSettled ==
  ASSUME NonceInv, NonceInv', KeyInv, KeyInv', SettledInv, UNCHANGED server,
         ClientHandles(ChallengeOk, AcceptChallenge)
  PROVE  SettledStep
<1> DEFINE c == client
           r == Head(s2c[c.sock])
           after == Append(c.transcript, Label(r))
           y == ClientRecord(c, "control", c.control_number, "response",
                             after)
           u == Append(after, Label(y))
           d == [c EXCEPT !.transcript = u, !.control_number = @ + 1,
                          !.dialling = FALSE]
<1>1. /\ ClientOk(c) /\ c \in ClientStates /\ c.sock \in Paths
      /\ s2c \in Queues /\ c.control_number \in Nat /\ c.epoch \in Int
      /\ c.transcript \in Transcripts /\ (c.up => c.epoch >= 0)
  BY ClientStart, ClientFacts
<1>2. /\ c.up /\ Arrived(s2c, c.sock) /\ Transmit(y) /\ client' = d
      /\ s2c' = [s2c EXCEPT ![c.sock] = Tail(@)]
  BY <1>1 DEF ClientHandles, AcceptChallenge, ClientStates
<1>3. Thinner(s2c, s2c') /\ r \in Records
  BY <1>1, <1>2, ThinnerFacts, HeadInFlight DEF Arrived
<1> HIDE DEF r
<1>4. after \in Transcripts /\ Longer(c.transcript, after)
  BY <1>1, <1>3, Extends, LongerFacts
<1> HIDE DEF after
<1>5. y \in Records /\ y.type = "response" /\ y.tag = after
  <2>1. "control" \in Kinds /\ "response" \in Types /\ after \in Tags
    BY <1>4 DEF Kinds, Types, Tags
  <2> QED
    BY <1>1, <2>1, ClientRecordFacts
<1> HIDE DEF y
<1>6. u \in Transcripts /\ Longer(after, u)
  BY <1>4, <1>5, Extends, LongerFacts
<1> HIDE DEF u
<1>7. Longer(c.transcript, u)
  BY <1>1, <1>4, <1>6, LongerFacts
<1>8. d.epoch = c.epoch /\ d.sock = c.sock /\ d.transcript = u
  BY <1>1 DEF ClientStates
<1> HIDE DEF d
<1>9. Told(d.transcript)
  BY <1>2, <1>4, <1>5, <1>6, <1>8 DEF Told, Transmit
<1> QED
  BY <1>1, <1>2, <1>3, <1>7, <1>8, <1>9, UpdateSettled

\* The client's messages of the handshake, on the first carrier.
LEMMA ClientGreetingSettled ==
  ASSUME NonceInv, NonceInv', KeyInv, SettledInv, UNCHANGED server,
         ClientHello \/ ClientAuth \/ ClientConfirm
  PROVE  SettledStep
<1>1. /\ ClientOk(client) /\ client \in ClientStates /\ "first" \in Paths
      /\ client.transcript \in Transcripts /\ c2s \in Queues
      /\ s2c \in Queues /\ Thinner(s2c, s2c) /\ Len(client.transcript) \in Nat
  BY ClientStart, ClientFacts DEF Paths
<1>2. Handshaking(client)
  BY DEF ClientHello, ClientAuth, ClientConfirm, ClientAnswers, Incoming
<1>3. client.sock = "first"
  BY <1>1, <1>2, ClientFacts DEF SettledInv, Settled, Paths
<1>4. ASSUME NEW y \in Records, y.type # "response", Thinner(s2c, s2c'),
             c2s' = Sent(c2s, "first", <<y>>), client'.sock = client.sock,
             Longer(client.transcript, client'.transcript)
      PROVE  SettledStep
  <2>1. Abides(client, client') /\ Told(client'.transcript)
    BY <1>3, <1>4 DEF Abides, Told
  <2> QED
    BY <1>4, <2>1, ClientSpeaks
<1>5. CASE ClientHello
  <2> DEFINE a == Clear("client", "client_hello", <<>>)
  <2>1. /\ client' = Extended(client, a) /\ c2s' = Sent(c2s, "first", <<a>>)
        /\ s2c' = s2c
    BY <1>5 DEF ClientHello
  <2>2. a \in Records /\ a.type = "client_hello"
    <3>1. /\ "client" \in Froms /\ "clear" \in Kinds
          /\ "client_hello" \in Types /\ <<>> \in Transcripts /\ <<>> \in Tags
      BY DEF Froms, Kinds, Types, Transcripts, Tags
    <3> QED
      BY <3>1 DEF Clear, Record, Records
  <2>3. a.type \in Types
    BY <2>2 DEF Types
  <2> HIDE DEF a
  <2>4. /\ client'.sock = client.sock
        /\ client'.transcript = Append(client.transcript, a.type)
    BY <1>1, <2>1, <2>3, ExtendedClientAside
  <2>5. Longer(client.transcript, client'.transcript)
    BY <1>1, <2>3, <2>4, ExtendedLonger
  <2> QED
    BY <1>1, <1>4, <2>1, <2>2, <2>4, <2>5
<1>6. CASE ClientAuth \/ ClientConfirm
  <2> DEFINE r == Head(s2c["first"])
             c1 == Extended(client, r)
  <2>1. PICK number \in {0, 1}, type \in {"client_auth", "client_confirm"} :
          /\ Answered(r, number, type)
          /\ Arrived(s2c, "first")
          /\ s2c' = [s2c EXCEPT !["first"] = Tail(@)]
    BY <1>6 DEF ClientAuth, ClientConfirm, ClientAnswers, Answered, Incoming
  <2> DEFINE a == SealHandshake(c1, "client", number, type)
             c2 == Extended(c1, a)
  <2>2. Thinner(s2c, s2c') /\ r \in Records
    BY <1>1, <2>1, HeadInFlight, ThinnerFacts DEF Arrived
  <2>3. r.type \in Types /\ type \in Types
    BY <2>2 DEF Records, Types
  <2>4. Transmit(a) /\ client' = IF type = "client_confirm"
                                 THEN Established(c2) ELSE c2
    BY <2>1 DEF Answered
  <2>5. Len(client.transcript) >= 1
    <3>1. CASE ClientAuth
      <4>1. /\ ServerHelloOk(r) /\ Arrived(s2c, "first") /\ ShortHellos(s2c)
        BY <3>1 DEF ClientAuth, ClientAnswers, Incoming, NonceInv
      <4>2. r = s2c["first"][1] /\ 1 \in 1 .. Len(s2c["first"])
        BY <1>1, <4>1, TailFacts DEF Arrived
      <4> HIDE DEF r
      <4>3. r.type = "server_hello" /\ r.tag = client.transcript
        BY <4>1 DEF ServerHelloOk, Clear, Record
      <4>4. Len(client.transcript) = 1
        BY <1>1, <4>1, <4>2, <4>3 DEF ShortHellos
      <4> QED
        BY <4>4
    <3>2. CASE ClientConfirm
      <4>1. FinishOk(r)
        BY <3>2 DEF ClientConfirm, ClientAnswers
      <4> QED
        BY <1>1, <4>1 DEF FinishOk, OpenHandshake
    <3> QED
      BY <1>6, <3>1, <3>2
  <2> HIDE DEF r
  <2>6. /\ ClientOk(c1) /\ c1.sock = client.sock
        /\ c1.transcript = Append(client.transcript, r.type)
    BY <1>1, <2>3, ExtendedClientAside
  <2>7. Len(c1.transcript) >= 2
    <3>1. Len(c1.transcript) = Len(client.transcript) + 1
      BY <1>1, <2>3, ExtendedClient
    <3> QED
      BY <1>1, <2>5, <3>1
  <2> HIDE DEF c1
  <2>8. c1.transcript \in Transcripts /\ Hellos(c1) \in Transcripts
    BY <2>6, <2>7, ClientFacts, HellosType
  <2>9. a \in Records /\ a.type = type
    <3>1. /\ "client" \in Froms /\ "handshake" \in Kinds
          /\ c1.transcript \in Tags /\ number \in Nat
      BY <2>8 DEF Froms, Kinds, Tags
    <3> QED
      BY <2>3, <2>8, <3>1 DEF SealHandshake, Record, Records
  <2> HIDE DEF a
  <2>10. /\ ClientOk(c2) /\ c2.sock = c1.sock
         /\ c2.transcript = Append(c1.transcript, type)
    BY <2>3, <2>6, <2>9, ExtendedClientAside
  <2> HIDE DEF c2
  <2>11. c2 \in ClientStates /\ c2.transcript \in Transcripts
    BY <2>10, ClientFacts
  <2>12. client'.sock = c2.sock /\ client'.transcript = c2.transcript
    <3> DEFINE d == [c2 EXCEPT !.up = TRUE, !.epoch = 0,
                               !.secret = c2.transcript]
    <3>1. client' = d \/ client' = c2
      BY <2>4 DEF Established
    <3>2. d.sock = c2.sock /\ d.transcript = c2.transcript
      BY <2>11 DEF ClientStates
    <3> HIDE DEF d
    <3> QED
      BY <3>1, <3>2
  <2>13. Longer(client.transcript, c1.transcript)
    BY <1>1, <2>3, <2>6, ExtendedLonger
  <2>14. Longer(c1.transcript, c2.transcript)
    BY <2>3, <2>8, <2>10, ExtendedLonger
  <2>15. Longer(client.transcript, client'.transcript)
    BY <1>1, <2>8, <2>11, <2>12, <2>13, <2>14, LongerFacts
  <2>16. c2s' = Sent(c2s, "first", <<a>>) /\ a.type # "response"
    BY <1>3, <2>4, <2>9 DEF Transmit
  <2> QED
    BY <1>4, <2>2, <2>6, <2>9, <2>10, <2>12, <2>15, <2>16
<1> QED
  BY <1>5, <1>6

\* Every step of the client.
LEMMA ClientSettled ==
  ASSUME NonceInv, NonceInv', KeyInv, KeyInv', SettledInv,
         ClientThread \/ ClientChoices
  PROVE  SettledStep
<1>1. UNCHANGED server
  BY DEF ClientThread, ClientChoices
<1>2. \/ ClientHello \/ ClientAuth \/ ClientConfirm
      \/ ClientReceives \/ ClientExpires \/ ClientSeesClose
      \/ ClientSends \/ ClientPings \/ ClientStops \/ ClientAbandons
      \/ ClientDialRefused \/ ClientDials
      \/ \E mode \in {"routine", "full"} : ClientStarts(mode)
  BY DEF ClientThread, ClientChoices, ClientHandshakes
<1>3. CASE ClientReceives
  BY <1>1, <1>3, SendsSettled, BeginningSettled, AckSettled, DoneSettled,
     RespondsSettled DEF ClientReceives
<1>4. CASE ClientHello \/ ClientAuth \/ ClientConfirm
  BY <1>1, <1>4, ClientGreetingSettled
<1>5. CASE \E mode \in {"routine", "full"} : ClientStarts(mode)
  BY <1>1, <1>5, BeginningSettled
<1> QED
  BY <1>1, <1>2, <1>3, <1>4, <1>5, SendsSettled

-----------------------------------------------------------------------------
(* All steps together                                                      *)

\* Neither a tick nor a carrier that fails changes what is settled.
LEMMA KeptSettled ==
  ASSUME NonceInv, SettledInv, Thinner(c2s, c2s'), Thinner(s2c, s2c'),
         server'.transcript = server.transcript,
         client'.transcript = client.transcript,
         server'.carrier = server.carrier, client'.sock = client.sock,
         Handshaking(server') => Handshaking(server),
         Handshaking(client') => Handshaking(client)
  PROVE  SettledStep
<1> DEFINE t == server'
           d == client'
           n == c2s'
           m == s2c'
<1>1. /\ server.transcript \in Transcripts
      /\ client.transcript \in Transcripts
  BY DEF NonceInv, TypeOK, ServerStates, ClientStates
<1>2. /\ Thinner(c2s, n) /\ Thinner(s2c, m)
      /\ t.transcript = server.transcript /\ d.transcript = client.transcript
      /\ t.carrier = server.carrier /\ d.sock = client.sock
      /\ Handshaking(t) => Handshaking(server)
      /\ Handshaking(d) => Handshaking(client)
  OBVIOUS
<1> HIDE DEF t, d, n, m
<1>3. Settled(t, d, n, m)
  BY <1>2 DEF SettledInv, Settled, Thinner
<1>4. /\ Longer(server.transcript, t.transcript)
      /\ Longer(client.transcript, d.transcript)
  BY <1>1, <1>2, LongerFacts
<1> QED
  BY <1>3, <1>4 DEF SettledStep, SettledInv, t, d, n, m

\* A carrier that fails loses what it held.
LEMMA NetworkSettled ==
  ASSUME NonceInv, SettledInv, NetworkSteps
  PROVE  SettledStep
<1>1. PICK p \in Paths : CarrierFails(p) \/ CarrierStalls(p)
  BY DEF NetworkSteps
<1>2. UNCHANGED <<server, client>> /\ c2s \in Queues /\ s2c \in Queues
  BY DEF NetworkSteps, NonceInv, TypeOK
<1>3. ASSUME NEW q \in Queues, NEW n, n = q \/ n = [q EXCEPT ![p] = <<>>]
      PROVE  Thinner(q, n)
  <2>1. CASE n = q
    BY <2>1 DEF Thinner
  <2>2. CASE n = [q EXCEPT ![p] = <<>>]
    <3>1. n[p] = <<>> /\ \A x \in Paths : x # p => n[x] = q[x]
      BY <2>2 DEF Queues
    <3>2. On(n, p) = {} /\ \A x \in Paths : x # p => On(n, x) = On(q, x)
      BY <3>1 DEF On
    <3>3. "first" \in Paths
      BY DEF Paths
    <3>4. \A r : /\ r \in InFlight(n) <=> \E x \in Paths : r \in On(n, x)
                 /\ r \in InFlight(q) <=> \E x \in Paths : r \in On(q, x)
      BY DEF InFlight, On
    <3> QED
      BY <3>2, <3>3, <3>4 DEF Thinner
  <2> QED
    BY <1>3, <2>1, <2>2
<1>4. Thinner(c2s, c2s') /\ Thinner(s2c, s2c')
  <2>1. /\ c2s' = c2s \/ c2s' = [c2s EXCEPT ![p] = <<>>]
        /\ s2c' = s2c \/ s2c' = [s2c EXCEPT ![p] = <<>>]
    BY <1>1 DEF CarrierFails, CarrierStalls
  <2> QED
    BY <1>2, <1>3, <2>1
<1> QED
  BY <1>2, <1>4, KeptSettled

\* Time passes.
LEMMA TickSettled ==
  ASSUME NonceInv, SettledInv, Tick
  PROVE  SettledStep
<1>1. /\ c2s' = c2s /\ s2c' = s2c
      /\ server' = ServerTicks(server) \/ server' = server
      /\ client' = ClientTicks(client) \/ client' = client
  BY DEF Tick, carrierVars
<1>2. /\ server \in ServerStates /\ client \in ClientStates
      /\ c2s \in Queues /\ s2c \in Queues
  BY DEF NonceInv, TypeOK
<1> DEFINE t == server'
           d == client'
<1>3. Like(server, t) /\ t.reason = server.reason
  BY <1>1, <1>2, LikeItself, ServerTicksLike
<1>4. LikeC(client, d) /\ d.reason = client.reason
  BY <1>1, <1>2, LikeItself, ClientTicksLike
<1>5. t.up = server.up
  BY <1>1, <1>2 DEF ServerTicks, ServerStates
<1>6. d.up = client.up
  BY <1>1, <1>2 DEF ClientTicks, ClientStates
<1> HIDE DEF t, d
<1>7. /\ t.transcript = server.transcript /\ t.carrier = server.carrier
      /\ d.transcript = client.transcript /\ d.sock = client.sock
  BY <1>3, <1>4 DEF Like, LikeC
<1>8. /\ Handshaking(t) => Handshaking(server)
      /\ Handshaking(d) => Handshaking(client)
  BY <1>3, <1>4, <1>5, <1>6 DEF Handshaking
<1>9. Thinner(c2s, c2s') /\ Thinner(s2c, s2c')
  BY <1>1 DEF Thinner
<1> QED
  BY <1>7, <1>8, <1>9, KeptSettled DEF t, d

\* Every step, whether the transcripts have forked or not.
LEMMA NextSettled ==
  ASSUME NonceInv, NonceInv', KeyInv, KeyInv', TranscriptInv, SettledInv, Next
  PROVE  SettledStep
BY ServerSettled, ClientSettled, NetworkSettled, TickSettled DEF Next

\* Every step of a session keeps it fine.
LEMMA NextFine ==
  ASSUME NonceInv, NonceInv', KeyInv, KeyInv', TranscriptInv, SettledInv,
         [Next]_vars
  PROVE  TranscriptInv' /\ SettledInv'
<1>1. CASE UNCHANGED vars
  BY <1>1 DEF vars, TranscriptInv, SettledInv
<1>2. CASE Next
  <2>1. SettledStep
    BY <1>2, NextSettled
  <2>2. CASE Good(server, client, c2s, s2c, link)
    BY <1>2, <2>1, <2>2, ServerGood, ClientGood, NetworkGood, TickGood
       DEF Next, SettledStep
  <2>3. CASE Initiates # {} /\ Forked(server.transcript, client.transcript)
    <3> DEFINE t == server'
               d == client'
    <3>1. /\ server.transcript \in Transcripts
          /\ client.transcript \in Transcripts
      BY DEF NonceInv, TypeOK, ServerStates, ClientStates
    <3>2. t \in ServerStates /\ d \in ClientStates
      BY DEF NonceInv, TypeOK
    <3>3. t.transcript \in Transcripts /\ d.transcript \in Transcripts
      BY <3>2 DEF ServerStates, ClientStates
    <3>4. /\ Longer(server.transcript, t.transcript)
          /\ Longer(client.transcript, d.transcript)
      BY <2>1 DEF SettledStep
    <3> HIDE DEF t, d
    <3>5. Forked(t.transcript, d.transcript)
      BY <2>3, <3>1, <3>3, <3>4, ForkStays
    <3> QED
      BY <2>1, <2>3, <3>5 DEF TranscriptInv, Fine, SettledStep, t, d
  <2> QED
    BY <2>2, <2>3 DEF TranscriptInv, Fine
<1> QED
  BY <1>1, <1>2

\* A session starts with no transcript.
LEMMA InitFine ==
  ASSUME Init
  PROVE  TranscriptInv /\ SettledInv
<1>1. TranscriptInv
  BY InitGood DEF TranscriptInv, Fine
<1>2. server.carrier = "first" /\ client.sock = "first"
  BY DEF Init, InitServer, InitClient
<1>3. \A r \in InFlight(c2s) : FALSE
  <2>1. \A p \in Paths : Len(c2s[p]) = 0
    BY DEF Init, CarrierInit
  <2> QED
    BY <2>1 DEF InFlight
<1> QED
  BY <1>1, <1>2, <1>3 DEF SettledInv, Settled

-----------------------------------------------------------------------------
(* What it comes to                                                        *)

\* At every point of a session the two ends are at one of the stages above,
\* or their transcripts have forked; and a session that has moved to the
\* second carrier has left nothing counted behind.
THEOREM TranscriptSafety ==
  Spec => [](NonceInv /\ KeyInv /\ TranscriptInv /\ SettledInv)
<1>1. Init => TranscriptInv /\ SettledInv
  BY InitFine
<1>2. /\ NonceInv /\ NonceInv' /\ KeyInv /\ KeyInv'
      /\ TranscriptInv /\ SettledInv /\ [Next]_vars
      => TranscriptInv' /\ SettledInv'
  BY NextFine
<1> QED
  BY <1>1, <1>2, KeySafety, PTL DEF Spec

\* No end ever refuses a record of the other as invalid or as a concurrent
\* update unless the transcripts have forked, at a request or a challenge of
\* the server: for every set of updates, pings and migrations the client starts
\* and every limit (request_update_if_due, path_challenge, accept_update_init,
\* _accept_update_request).
THEOREM RefusalsNeedForks == Spec => []RefusedOnlyWhenForked
<1>1. TranscriptInv => RefusedOnlyWhenForked
  <2>1. Good(server, client, c2s, s2c, link) => UpdatesNeverCollide
    BY DEF Good, Calm, UpdatesNeverCollide
  <2>2. Forked(server.transcript, client.transcript) => RefusedOnlyWhenForked
    BY DEF Forked, RefusedOnlyWhenForked
  <2> QED
    BY <2>1, <2>2 DEF TranscriptInv, Fine, RefusedOnlyWhenForked
<1> QED
  BY <1>1, TranscriptSafety, PTL

\* Once the session has moved, nothing the transcript counts is left on the
\* first carrier, which nobody reads any more (path_challenge,
\* accept_path_response, the swap in run_established_session).
THEOREM NothingStranded == Spec => []NothingIsStranded
<1>1. NonceInv /\ SettledInv => NothingIsStranded
  <2> SUFFICES ASSUME NonceInv, SettledInv, server.carrier = "second",
                      NEW i \in DOMAIN s2c["first"]
               PROVE  s2c["first"][i].type \in {"data", "pong"}
    BY DEF NothingIsStranded
  <2>1. s2c["first"] \in Seq(Records)
    BY DEF NonceInv, TypeOK, Queues, Paths
  <2>2. i \in 1 .. Len(s2c["first"])
    BY <2>1
  <2>3. s2c["first"][i] \in On(s2c, "first")
    BY <2>2 DEF On
  <2> QED
    BY <2>3 DEF SettledInv, Settled
<1> QED
  BY <1>1, TranscriptSafety, PTL

\* At every stage one transcript continues the other.
LEMMA PhaseAgrees ==
  ASSUME NEW s, NEW c, NEW S, NEW C, Phase(s, c, S, C),
         s.transcript \in Transcripts, c.transcript \in Transcripts
  PROVE  \/ Longer(s.transcript, c.transcript)
         \/ Longer(c.transcript, s.transcript)
<1> DEFINE a == s.transcript
           b == c.transcript
<1>1. /\ a \in Transcripts /\ b \in Transcripts
      /\ Longer(a, a) /\ Longer(b, b)
  BY LongerFacts
<1>2. ASSUME NEW t \in Transcripts, NEW l \in Labels
      PROVE  /\ Append(t, l) \in Transcripts /\ Longer(t, Append(t, l))
             /\ \A k \in Labels : Longer(t, Append(Append(t, l), k))
  <2>1. Append(t, l) \in Transcripts /\ Longer(t, Append(t, l))
    BY LongerFacts
  <2>2. ASSUME NEW k \in Labels
        PROVE  Longer(t, Append(Append(t, l), k))
    BY <2>1, LongerFacts
  <2> QED
    BY <2>1, <2>2
<1>3. \A r \in Records : Label(r) \in Labels
  BY <1>1, Extends
<1> HIDE DEF a, b
<1>4. CASE Greeting(s, c, S, C)
  <2>1. /\ {"client_hello", "server_hello", "client_auth", "server_finish"}
             \subseteq Labels
        /\ {<<>>, ToHello, ToHellos, ToAuth} \subseteq Transcripts
        /\ ToHello = Append(<<>>, "client_hello")
    BY HandshakeFacts DEF Labels, Types, Transcripts
  <2>2. /\ Longer(<<>>, ToHello) /\ Longer(ToHello, ToHellos)
        /\ Longer(ToHellos, ToAuth) /\ Longer(ToAuth, ToFinish)
    BY <1>2, <2>1 DEF ToHellos, ToAuth, ToFinish
  <2>3. \/ a = b
        \/ a = <<>> /\ b = ToHello
        \/ a = ToHellos /\ b = ToHello
        \/ a = ToHellos /\ b = ToAuth
        \/ a = ToFinish /\ b = ToAuth
    BY <1>4 DEF Greeting, a, b
  <2> QED
    BY <1>1, <2>2, <2>3 DEF a, b
<1>5. CASE Level(s, c, S, C)
  BY <1>1, <1>5 DEF Level, a, b
<1>6. ASSUME NEW x \in Records,
             \/ Asked(x, s, c, S, C) \/ Started(x, s, c, S, C)
             \/ Replied(x, s, c, S, C) \/ Committing(x, s, c, S, C)
             \/ Ahead(x, s, c, S, C) \/ Challenged(x, s, c, S, C)
             \/ \E l \in Labels : Responded(x, l, s, c, S, C)
      PROVE  Longer(a, b) \/ Longer(b, a)
  <2>1. \E l \in Labels : a = Append(b, l) \/ b = Append(a, l)
    BY <1>3, <1>6 DEF Asked, Started, InitFits, Replied, Committing, Ahead,
                      Challenged, Responded, a, b
  <2> QED
    BY <1>1, <1>2, <2>1
<1>7. ASSUME NEW x \in Records, NEW z \in Records,
             \/ AheadAsked(x, z, s, c, S, C)
             \/ ChallengedAsked(x, z, s, c, S, C)
             \/ \E l \in Labels : RespondedStarted(x, z, l, s, c, S, C)
      PROVE  Longer(a, b) \/ Longer(b, a)
  <2>1. \E l, k \in Labels :
          a = Append(Append(b, l), k) \/ b = Append(Append(a, l), k)
    BY <1>3, <1>7 DEF AheadAsked, ChallengedAsked, RespondedStarted,
                      InitFits, a, b
  <2> QED
    BY <1>1, <1>2, <2>1
<1> QED
  BY <1>4, <1>5, <1>6, <1>7 DEF Phase, a, b

\* The start of a longer transcript is the shorter one.
LEMMA LongerIsPrefix ==
  ASSUME NEW t \in Transcripts, NEW u \in Transcripts, Longer(t, u)
  PROVE  IsPrefix(t, u)
<1> DEFINE n == Len(t)
           p == SubSeq(t, 1, n)
           q == SubSeq(u, 1, n)
<1>1. /\ n \in Nat /\ n <= Len(u) /\ Len(u) \in Nat
      /\ \A i \in 1 .. n : u[i] = t[i]
  BY DEF Longer, Transcripts
<1>2. /\ p \in Seq(Labels) /\ Len(p) = n /\ \A i \in 1 .. n : p[i] = t[i]
  BY <1>1 DEF Transcripts
<1>3. /\ q \in Seq(Labels) /\ Len(q) = n /\ \A i \in 1 .. n : q[i] = u[i]
  <2> HIDE DEF n
  <2> QED
    BY <1>1 DEF Transcripts
<1> HIDE DEF p, q
<1>4. p = q
  BY <1>1, <1>2, <1>3, SeqEqual
<1> QED
  BY <1>1, <1>4 DEF IsPrefix, p, q, n

\* One transcript continues the other, or they have forked at a request or a
\* challenge of the server.
LEMMA AgreesOrForks ==
  ASSUME NonceInv, TranscriptInv
  PROVE  TranscriptAgreement \/ /\ Initiates # {}
                                /\ Forked(server.transcript, client.transcript)
<1>1. /\ server.transcript \in Transcripts
      /\ client.transcript \in Transcripts
  BY DEF NonceInv, TypeOK, ServerStates, ClientStates
<1>2. CASE Good(server, client, c2s, s2c, link)
  <2>1. \/ Longer(server.transcript, client.transcript)
        \/ Longer(client.transcript, server.transcript)
    BY <1>1, <1>2, PhaseAgrees DEF Good
  <2> QED
    BY <1>1, <2>1, LongerIsPrefix DEF TranscriptAgreement
<1> QED
  BY <1>2 DEF TranscriptInv, Fine

\* The transcripts of the two ends never differ but at a request or a challenge
\* of the server that the client has not counted in: for every client.
THEOREM ForksOnlyAtRequests ==
  Spec => [](TranscriptAgreement \/ Forked(server.transcript,
                                           client.transcript))
<1>1. NonceInv /\ TranscriptInv =>
        TranscriptAgreement \/ Forked(server.transcript, client.transcript)
  BY AgreesOrForks
<1> QED
  BY <1>1, TranscriptSafety, PTL

\* With the Windows client, which starts nothing by itself, the transcripts
\* never fork (transcript_next, control_transcript).
THEOREM TranscriptsAgree ==
  ASSUME Initiates = {}
  PROVE  Spec => []TranscriptAgreement
<1>1. NonceInv /\ TranscriptInv => TranscriptAgreement
  BY AgreesOrForks
<1> QED
  BY <1>1, TranscriptSafety, PTL

\* Nor does either end ever refuse a record of the other (accept_update_init,
\* accept_update_commit, receive and its handlers).
THEOREM NoUpdateCollides ==
  ASSUME Initiates = {}
  PROVE  Spec => []UpdatesNeverCollide
<1>1. TranscriptInv => UpdatesNeverCollide
  BY DEF TranscriptInv, Fine, Good, Calm, UpdatesNeverCollide
<1> QED
  BY <1>1, TranscriptSafety, PTL
=============================================================================
