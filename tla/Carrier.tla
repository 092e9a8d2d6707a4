------------------------------- MODULE Carrier ------------------------------
(***************************************************************************)
(* The carriers of a session: the one it was set up on and, when it is     *)
(* migrated, a second one.  Each (WebSocket, HTTP/2 or HTTP/3 stream) is   *)
(* two first-in first-out queues of encrypted records that close together. *)
(*                                                                         *)
(* Hashes, tags and keys are kept as what they bind.  The control          *)
(* transcript is the sequence of the labels of the records hashed into it; *)
(* an epoch secret is the transcript it was derived from; a tag is the     *)
(* value the HMAC or the signature covers, and it verifies exactly when    *)
(* both ends computed the same value.                                      *)
(***************************************************************************)
EXTENDS Integers, Sequences, SequencesExt, FiniteSets

CONSTANTS
  MaxEpoch,        \* u32::MAX, the largest epoch a header can carry
  UPDATE_TIMEOUT,  \* how long a key update may take, in ticks
  ClientData,      \* bound: data records the client sends in one epoch
  ServerData,      \* bound: data records the server sends in one epoch
  DataEpochs,      \* bound: the client sends data in epochs below this one
  QueueBound       \* bound: a data record is sent to a shorter queue only

Paths == {"first", "second"}

VARIABLES
  c2s, s2c,        \* the records in flight on each carrier and direction
  link,            \* what a carrier is: "none" yet, "open", "closed" by an end,
                   \* "failed", or "stalled": cut off with nobody told
  sealed           \* history: how often each AEAD nonce was used

carrierVars == <<c2s, s2c, link, sealed>>

\* RecordHeader, with the key the body is sealed under and the body's tag.
Record(from, kind, epoch, key, number, type, tag) ==
  [from |-> from, kind |-> kind, epoch |-> epoch, key |-> key,
   number |-> number, type |-> type, tag |-> tag]

\* What a record contributes to the control transcript.
Label(r) == <<r.type, r.epoch, r.number>>

\* An AEAD nonce is the number xored into the iv of one traffic key, and the
\* four traffic keys of an epoch differ by direction and kind.
Nonce(r) == <<r.from, r.kind, r.key, r.number>>

SealAll(out) ==
  [n \in DOMAIN sealed \cup {Nonce(out[i]) : i \in DOMAIN out} |->
     (IF n \in DOMAIN sealed THEN sealed[n] ELSE 0)
       + Cardinality({i \in DOMAIN out : Nonce(out[i]) = n})]

\* Records sent into a closed carrier are lost; the sender learns of it later.
Sent(queues, p, out) ==
  IF link[p] = "open" THEN [queues EXCEPT ![p] = @ \o out] ELSE queues

CarrierInit ==
  /\ c2s = [p \in Paths |-> <<>>]
  /\ s2c = [p \in Paths |-> <<>>]
  /\ link = [p \in Paths |-> IF p = "first" THEN "open" ELSE "none"]
  /\ sealed = <<>>

\* An end closes carriers.  Across a stalled one the other end hears nothing.
Closed(links, paths) ==
  [p \in Paths |->
     IF p \in paths /\ links[p] = "open" THEN "closed" ELSE links[p]]

Gone(p) == link[p] \in {"closed", "failed"}

Arrived(queues, p) == link[p] # "stalled" /\ queues[p] # <<>>

\* The network resets the connection and loses everything in flight.
CarrierFails(p) ==
  /\ link[p] = "open"
  /\ link' = [link EXCEPT ![p] = "failed"]
  /\ c2s' = [c2s EXCEPT ![p] = <<>>]
  /\ s2c' = [s2c EXCEPT ![p] = <<>>]
  /\ UNCHANGED sealed

\* The network stops delivering without a word: no record and no close.
CarrierStalls(p) ==
  /\ link[p] = "open"
  /\ link' = [link EXCEPT ![p] = "stalled"]
  /\ UNCHANGED <<c2s, s2c, sealed>>
=============================================================================
