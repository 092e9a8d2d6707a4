--------------------------- MODULE GateAdmission ----------------------------
(***************************************************************************)
(* The gate in front of the server: maybe_tunnel and h2_tunnel first ask   *)
(* check_admission_rate about the source address and then                  *)
(* validate_gate_token about the bearer token.  Each of the two is one     *)
(* critical section and nothing is awaited between them, so a request is   *)
(* one step.                                                               *)
(*                                                                         *)
(* Time is counted in fractions of a second because the two clocks differ: *)
(* the token's window compares whole Unix seconds, the replay cache and    *)
(* the rate table compare Instants.  A token is identified with the Unix   *)
(* time it carries; its client id and nonce are unique to it.              *)
(***************************************************************************)
EXTENDS Integers, Sequences, SequencesExt, FiniteSets, Functions

CONSTANTS
  Sources,            \* the source addresses
  Tokens,             \* the tokens clients made, by the time they carry
  TicksPerSecond,     \* how finely an Instant is resolved
  GATE_WINDOW_SECS,   \* how far a token's time may be from the server's
  GATE_REPLAY_SECS,   \* how long the replay cache remembers a token
  RATE_SECS,          \* the admission window, 60 seconds
  RATE_ATTEMPTS,      \* attempts of one source in it, 60
  RATE_SOURCES,       \* sources the table holds, 8192
  MaxTime             \* bound: the last tick of the clock

\* The code has windows of 90, 180 and 60 seconds: a token is remembered for
\* as long as its window is wide.
ASSUME GateAssumption ==
  /\ Tokens \subseteq Nat
  /\ {TicksPerSecond, GATE_WINDOW_SECS, RATE_ATTEMPTS} \subseteq Nat \ {0}
  /\ {GATE_REPLAY_SECS, RATE_SECS, RATE_SOURCES, MaxTime} \subseteq Nat
  /\ GATE_REPLAY_SECS >= 2 * GATE_WINDOW_SECS

VARIABLES
  now,             \* the clock, in ticks
  gate_replay,     \* Runtime.gate_replay: when each remembered token was seen
  admission_rate,  \* Runtime.admission_rate: the attempts of each source
  accepted,        \* history: when each token was accepted
  admitted         \* history: when each source passed the rate check

vars == <<now, gate_replay, admission_rate, accepted, admitted>>

Init ==
  /\ now = 0
  /\ gate_replay = <<>>
  /\ admission_rate = <<>>
  /\ accepted = [t \in Tokens |-> <<>>]
  /\ admitted = [s \in Sources |-> <<>>]

\* f with x mapped to y, whether or not it was in f's domain.
Put(f, x, y) == [z \in DOMAIN f \cup {x} |-> IF z = x THEN y ELSE f[z]]

-----------------------------------------------------------------------------
(* check_admission_rate                                                    *)

RateCutoff == now - RATE_SECS * TicksPerSecond

\* Mutant: a source is forgotten as soon as its oldest attempt is too old.
RetainedByOldest ==
  Restrict(admission_rate,
           {s \in DOMAIN admission_rate :
              Head(admission_rate[s]) >= RateCutoff})

\* A source is forgotten when its latest attempt is too old.
Retained ==
  Restrict(admission_rate,
           {s \in DOMAIN admission_rate :
              Last(admission_rate[s]) >= RateCutoff})

\* How many attempts the loop pops from the front of the queue.
Popped(attempts) ==
  CHOOSE n \in 0 .. Len(attempts) :
    /\ \A i \in 1 .. n : attempts[i] < RateCutoff
    /\ n < Len(attempts) => attempts[n + 1] >= RateCutoff

Attempts(s) ==
  IF s \in DOMAIN Retained
  THEN SubSeq(Retained[s], Popped(Retained[s]) + 1, Len(Retained[s]))
  ELSE <<>>

TableFull(s) ==
  /\ Cardinality(DOMAIN Retained) >= RATE_SOURCES
  /\ s \notin DOMAIN Retained

RateExceeded(s) == Len(Attempts(s)) >= RATE_ATTEMPTS

RateAllows(s) == ~TableFull(s) /\ ~RateExceeded(s)

\* The table is pruned whatever the answer; the old attempts of s are dropped
\* unless the table was full.
CheckAdmissionRate(s) ==
  /\ admission_rate' =
       IF TableFull(s) THEN Retained
       ELSE IF RateExceeded(s) THEN Put(Retained, s, Attempts(s))
       ELSE Put(Retained, s, Append(Attempts(s), now))
  /\ admitted' = IF RateAllows(s)
                 THEN [admitted EXCEPT ![s] = Append(@, now)]
                 ELSE admitted

-----------------------------------------------------------------------------
(* validate_gate_token                                                     *)

UnixTime == now \div TicksPerSecond

Distance(a, b) == IF a >= b THEN a - b ELSE b - a

InWindow(t) == Distance(UnixTime, t) <= GATE_WINDOW_SECS

\* Mutant: the cache remembers a token for the half-width of its window only.
RememberedBriefly ==
  Restrict(gate_replay,
           {t \in DOMAIN gate_replay :
              gate_replay[t] >= now - GATE_WINDOW_SECS * TicksPerSecond})

Remembered ==
  Restrict(gate_replay,
           {t \in DOMAIN gate_replay :
              gate_replay[t] >= now - GATE_REPLAY_SECS * TicksPerSecond})

\* A token that reaches the cache is put there, a replayed one again.
ValidateGateToken(t) ==
  /\ gate_replay' = Put(Remembered, t, now)
  /\ accepted' = IF t \in DOMAIN Remembered
                 THEN accepted
                 ELSE [accepted EXCEPT ![t] = Append(@, now)]

-----------------------------------------------------------------------------

\* A request over the rate is answered like a request for a missing page.
OverRate(s) ==
  /\ ~RateAllows(s)
  /\ CheckAdmissionRate(s)
  /\ UNCHANGED <<now, gate_replay, accepted>>

\* No token, a malformed one, a wrong MAC or a time outside the window.
BadToken(s) ==
  /\ RateAllows(s)
  /\ CheckAdmissionRate(s)
  /\ UNCHANGED <<now, gate_replay, accepted>>

GoodToken(s, t) ==
  /\ RateAllows(s)
  /\ InWindow(t)
  /\ CheckAdmissionRate(s)
  /\ ValidateGateToken(t)
  /\ UNCHANGED now

Tick ==
  /\ now < MaxTime
  /\ now' = now + 1
  /\ UNCHANGED <<gate_replay, admission_rate, accepted, admitted>>

Next ==
  \/ \E s \in Sources : OverRate(s) \/ BadToken(s)
  \/ \E s \in Sources, t \in Tokens : GoodToken(s, t)
  \/ Tick

Spec == Init /\ [][Next]_vars

-----------------------------------------------------------------------------
(* Properties                                                              *)

\* What the table knows of the attempts of a source.
Known(s) == IF s \in DOMAIN admission_rate THEN admission_rate[s] ELSE <<>>

\* However requests and pruning interleave, the table knows every attempt of
\* the last window, of whatever window no source gets more than its share, and
\* the table stays within its limit (check_admission_rate: retain by the
\* latest attempt, pop the oldest ones, refuse a further source).
RateRemembersWindow ==
  /\ Cardinality(DOMAIN admission_rate) <= RATE_SOURCES
  /\ \A s \in Sources :
       LET seen == admitted[s]
           forgotten == Len(seen) - Len(Known(s))
       IN  /\ Known(s) = SubSeq(seen, forgotten + 1, Len(seen))
           /\ \A i \in 1 .. forgotten : seen[i] < RateCutoff
           /\ \A i \in 1 .. Len(seen) - RATE_ATTEMPTS :
                seen[i + RATE_ATTEMPTS] - seen[i] > RATE_SECS * TicksPerSecond

\* What the code does guarantee: a token is accepted a second time only when
\* the first time was in the first second of its window and the second time is
\* in the last one; never a third time (validate_gate_token).
ReplayOnlyAcrossTheWindow ==
  \A t \in Tokens :
    \/ Len(accepted[t]) <= 1
    \/ /\ Len(accepted[t]) = 2
       /\ accepted[t][1] \div TicksPerSecond = t - GATE_WINDOW_SECS
       /\ accepted[t][2] \div TicksPerSecond = t + GATE_WINDOW_SECS
=============================================================================
