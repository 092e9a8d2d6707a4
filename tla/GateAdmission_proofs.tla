------------------------ MODULE GateAdmission_proofs ------------------------
(***************************************************************************)
(* The gate, for every number of sources and tokens, every resolution of   *)
(* the clock and every width of its windows: the rate table forgets        *)
(* nothing it will need, and a token gets in twice only across its whole   *)
(* window.                                                                 *)
(***************************************************************************)
EXTENDS GateAdmission, FiniteSetTheorems, SequenceTheorems,
        WellFoundedInduction, TLAPS

TypeOK ==
  /\ now \in Nat
  /\ DOMAIN gate_replay \subseteq Tokens
  /\ \A t \in DOMAIN gate_replay : gate_replay[t] \in Nat
  /\ accepted \in [Tokens -> Seq(Nat)]
  /\ DOMAIN admission_rate \subseteq Sources
  /\ \A s \in DOMAIN admission_rate :
       admission_rate[s] \in Seq(Nat) /\ admission_rate[s] # <<>>
  /\ admitted \in [Sources -> Seq(Nat)]

-----------------------------------------------------------------------------
(* Arithmetic                                                              *)

\* A product of naturals is one.
LEMMA Product ==
  ASSUME NEW a \in Nat, NEW b \in Nat
  PROVE  a * b \in Nat
OBVIOUS

\* The spans of the replay cache and of the rate table, in ticks.
LEMMA SpanType ==
  /\ GATE_REPLAY_SECS * TicksPerSecond \in Nat
  /\ RATE_SECS * TicksPerSecond \in Nat
BY GateAssumption, Product

\* An Instant lies in the second it is rounded down to.
LEMMA SecondOf ==
  ASSUME NEW a \in Nat, NEW b \in Nat \ {0}
  PROVE  /\ a \div b \in Nat
         /\ b * (a \div b) <= a
         /\ a < b * (a \div b) + b
<1>1. a = b * (a \div b) + (a % b)
  OBVIOUS
<1>2. a % b \in 0 .. b - 1
  OBVIOUS
<1>3. a \div b \in Nat
  OBVIOUS
<1>4. b * (a \div b) \in Nat
  BY <1>3, Product
<1> QED
  BY <1>1, <1>2, <1>3, <1>4

\* Multiplication is monotone.
LEMMA Monotone ==
  ASSUME NEW a \in Nat, NEW b \in Nat, NEW c \in Nat, a <= b
  PROVE  c * a <= c * b
<1>1. PICK d \in Nat : b = a + d
  <2>1. b - a \in Nat /\ b = a + (b - a)
    OBVIOUS
  <2> QED
    BY <2>1
<1>2. c * b = c * a + c * d
  BY <1>1
<1>3. c * a \in Nat /\ c * d \in Nat
  BY Product
<1> QED
  BY <1>2, <1>3

\* Two Instants further apart than n seconds are at least n seconds apart as
\* Unix times.
LEMMA SecondsApart ==
  ASSUME NEW a \in Nat, NEW b \in Nat, NEW n \in Nat,
         NEW k \in Nat \ {0}, b - a > n * k
  PROVE  b \div k >= a \div k + n
<1> DEFINE d == a \div k
           e == b \div k
<1>1. d \in Nat /\ k * d <= a /\ e \in Nat /\ b < k * e + k
  BY SecondOf
<1> HIDE DEF d, e
<1>2. SUFFICES ASSUME e + 1 <= d + n PROVE FALSE
  BY <1>1 DEF d, e
<1>3. k * (e + 1) <= k * (d + n)
  BY <1>1, <1>2, Monotone
<1>4. k * (e + 1) = k * e + k /\ k * (d + n) = k * d + n * k
  BY <1>1
<1>5. k * e \in Nat /\ k * d \in Nat /\ n * k \in Nat
  BY <1>1, Product
<1> QED
  BY <1>1, <1>3, <1>4, <1>5

-----------------------------------------------------------------------------
(* The replay cache                                                        *)

\* What the cache knows of a token: one it holds was not accepted since the
\* time it holds, one it does not hold was accepted long ago or never.
CacheKnows ==
  \A t \in Tokens : \A i \in 1 .. Len(accepted[t]) :
    /\ t \in DOMAIN gate_replay => accepted[t][i] <= gate_replay[t]
    /\ t \notin DOMAIN gate_replay =>
         accepted[t][i] < now - GATE_REPLAY_SECS * TicksPerSecond

\* A token is accepted only inside its window.
AcceptedInWindow ==
  \A t \in Tokens : \A i \in 1 .. Len(accepted[t]) :
    Distance(accepted[t][i] \div TicksPerSecond, t) <= GATE_WINDOW_SECS

\* Between two acceptances of a token the cache has forgotten it.
AcceptedApart ==
  \A t \in Tokens : \A i, j \in 1 .. Len(accepted[t]) :
    i < j => accepted[t][j] - accepted[t][i]
               > GATE_REPLAY_SECS * TicksPerSecond

\* Every acceptance lies in the past.
AcceptedBefore ==
  \A t \in Tokens :
    /\ \A i \in 1 .. Len(accepted[t]) : accepted[t][i] <= now
    /\ t \in DOMAIN gate_replay => gate_replay[t] <= now

ReplayInv ==
  CacheKnows /\ AcceptedInWindow /\ AcceptedApart /\ AcceptedBefore

-----------------------------------------------------------------------------
(* The rate table                                                          *)

\* Attempts are recorded in the order of time.
InOrder ==
  \A s \in Sources :
    /\ \A i \in 1 .. Len(admitted[s]) : admitted[s][i] <= now
    /\ \A i, j \in 1 .. Len(admitted[s]) :
         i <= j => admitted[s][i] <= admitted[s][j]

RateInv ==
  /\ IsFiniteSet(DOMAIN admission_rate)
  /\ InOrder
  /\ \A s \in Sources : Len(Known(s)) <= Len(admitted[s])
  /\ RateRemembersWindow

GateInv == TypeOK /\ ReplayInv /\ RateInv

-----------------------------------------------------------------------------
(* What the operators of the rate table compute                            *)

\* The queue k is the end of the attempts, and what is not in it is too old.
Remembers(k, seen) ==
  /\ Len(k) <= Len(seen)
  /\ k = SubSeq(seen, Len(seen) - Len(k) + 1, Len(seen))
  /\ \A i \in 1 .. Len(seen) - Len(k) : seen[i] < RateCutoff

\* The loop that pops the front of a queue ends.
LEMMA PoppedFacts ==
  ASSUME now \in Nat, NEW q \in Seq(Nat)
  PROVE  /\ Popped(q) \in 0 .. Len(q)
         /\ \A i \in 1 .. Popped(q) : q[i] < RateCutoff
<1> DEFINE T == {n \in 0 .. Len(q) : n < Len(q) => q[n + 1] >= RateCutoff}
<1>1. T \subseteq Nat /\ Len(q) \in T
  OBVIOUS
<1>2. PICK n \in T : \A m \in T : ~(<<m, n>> \in OpToRel(<, Nat))
  BY <1>1, NatLessThanWellFounded, WFMin
<1>3. \A m \in T : ~(m < n)
  BY <1>1, <1>2 DEF OpToRel
<1>4. n \in 0 .. Len(q) /\ (n < Len(q) => q[n + 1] >= RateCutoff)
  OBVIOUS
<1>5. ASSUME NEW i \in 1 .. n PROVE q[i] < RateCutoff
  <2>1. i - 1 \in 0 .. Len(q) /\ i - 1 < n /\ i - 1 < Len(q)
        /\ (i - 1) + 1 = i
    BY <1>4
  <2>2. i - 1 \notin T
    BY <1>3, <2>1
  <2>3. ~(q[i] >= RateCutoff)
    BY <2>1, <2>2
  <2>4. q[i] \in Nat /\ RateCutoff \in Int
    BY <2>1, SpanType DEF RateCutoff
  <2> QED
    BY <2>3, <2>4
<1>6. \E k \in 0 .. Len(q) :
        /\ \A i \in 1 .. k : q[i] < RateCutoff
        /\ k < Len(q) => q[k + 1] >= RateCutoff
  BY <1>4, <1>5
<1> QED
  BY <1>6 DEF Popped

\* The end of a queue after n elements.
LEMMA SuffixFacts ==
  ASSUME NEW q \in Seq(Nat), NEW n \in 0 .. Len(q)
  PROVE  /\ SubSeq(q, n + 1, Len(q)) \in Seq(Nat)
         /\ Len(SubSeq(q, n + 1, Len(q))) = Len(q) - n
         /\ \A i \in 1 .. Len(q) - n : SubSeq(q, n + 1, Len(q))[i] = q[n + i]
BY SMTT(30)

\* A queue something was pushed on is not empty.
LEMMA NotEmpty ==
  ASSUME NEW q \in Seq(Nat), NEW t \in Nat
  PROVE  Append(q, t) # <<>>
BY AppendProperties, ZenonT(30)

\* Two queues are equal when their elements are.
LEMMA SameQueue ==
  ASSUME NEW q \in Seq(Nat), NEW r \in Seq(Nat), Len(q) = Len(r),
         \A i \in 1 .. Len(q) : q[i] = r[i]
  PROVE  q = r
OBVIOUS

\* Remembers, element by element.
LEMMA RemembersFacts ==
  ASSUME NEW seen \in Seq(Nat), NEW k \in Seq(Nat)
  PROVE  Remembers(k, seen) <=>
           /\ Len(k) <= Len(seen)
           /\ \A i \in 1 .. Len(k) : k[i] = seen[(Len(seen) - Len(k)) + i]
           /\ \A i \in 1 .. Len(seen) - Len(k) : seen[i] < RateCutoff
<1> DEFINE f == Len(seen) - Len(k)
           u == SubSeq(seen, f + 1, Len(seen))
<1>0. Len(k) \in Nat /\ Len(seen) \in Nat /\ f \in Int
  OBVIOUS
<1> SUFFICES ASSUME Len(k) <= Len(seen)
             PROVE  k = u <=> \A i \in 1 .. Len(k) : k[i] = seen[f + i]
  BY DEF Remembers
<1>1. f \in 0 .. Len(seen) /\ Len(seen) - f = Len(k)
  BY <1>0
<1> HIDE DEF f
<1>2. u \in Seq(Nat) /\ Len(u) = Len(k)
      /\ \A i \in 1 .. Len(k) : u[i] = seen[f + i]
  BY <1>1, SuffixFacts
<1> HIDE DEF u
<1>3. (\A i \in 1 .. Len(k) : k[i] = seen[f + i]) => k = u
  BY <1>2, SameQueue
<1> QED
  BY <1>2, <1>3

\* Taking old attempts off the front leaves a queue that remembers.
LEMMA PoppedRemembers ==
  ASSUME now \in Nat, NEW seen \in Seq(Nat), NEW k \in Seq(Nat),
         Remembers(k, seen), NEW n \in 0 .. Len(k),
         \A i \in 1 .. n : k[i] < RateCutoff
  PROVE  /\ SubSeq(k, n + 1, Len(k)) \in Seq(Nat)
         /\ Remembers(SubSeq(k, n + 1, Len(k)), seen)
<1> DEFINE rest == SubSeq(k, n + 1, Len(k))
           f == Len(seen) - Len(k)
<1>0. Len(k) \in Nat /\ Len(seen) \in Nat /\ n \in Nat
  OBVIOUS
<1>1. /\ f \in Nat /\ Len(k) + f = Len(seen)
      /\ \A i \in 1 .. Len(k) : k[i] = seen[f + i]
      /\ \A i \in 1 .. f : seen[i] < RateCutoff
  BY <1>0, RemembersFacts
<1>2. rest \in Seq(Nat) /\ Len(rest) = Len(k) - n
      /\ \A i \in 1 .. Len(k) - n : rest[i] = k[n + i]
  BY SuffixFacts
<1> HIDE DEF rest, f
<1>3. Len(seen) - Len(rest) = f + n /\ Len(rest) <= Len(seen)
  <2>1. Len(rest) = Len(k) - n /\ Len(k) + f = Len(seen) /\ f \in Nat
    BY <1>1, <1>2
  <2> QED
    BY <1>0, <2>1
<1>4. ASSUME NEW i \in 1 .. Len(rest)
      PROVE  rest[i] = seen[(Len(seen) - Len(rest)) + i]
  <2>1. n + i \in 1 .. Len(k) /\ f + (n + i) = (f + n) + i
    BY <1>0, <1>1, <1>2
  <2>2. rest[i] = k[n + i] /\ k[n + i] = seen[f + (n + i)]
    BY <1>1, <1>2, <2>1
  <2> QED
    BY <1>3, <2>1, <2>2
<1>5. ASSUME NEW i \in 1 .. f + n PROVE seen[i] < RateCutoff
  <2>1. CASE i <= f
    BY <1>1, <2>1
  <2>2. CASE i > f
    <3>1. i - f \in 1 .. n /\ i - f \in 1 .. Len(k) /\ f + (i - f) = i
      BY <1>0, <1>1, <2>2
    <3>2. k[i - f] = seen[i] /\ k[i - f] < RateCutoff
      BY <1>1, <3>1
    <3> QED
      BY <3>2
  <2> QED
    BY <1>0, <1>1, <2>1, <2>2
<1>6. Remembers(rest, seen)
  BY <1>2, <1>3, <1>4, <1>5, RemembersFacts
<1> QED
  BY <1>2, <1>6 DEF rest

\* The queue after an attempt that was admitted.
LEMMA AppendRemembers ==
  ASSUME now \in Nat, NEW seen \in Seq(Nat), NEW k \in Seq(Nat),
         Remembers(k, seen)
  PROVE  Remembers(Append(k, now), Append(seen, now))
<1> DEFINE q == Append(k, now)
           a == Append(seen, now)
           f == Len(seen) - Len(k)
<1>1. /\ q \in Seq(Nat) /\ Len(q) = Len(k) + 1 /\ q[Len(k) + 1] = now
      /\ \A i \in 1 .. Len(k) : q[i] = k[i]
  OBVIOUS
<1>2. /\ a \in Seq(Nat) /\ Len(a) = Len(seen) + 1 /\ a[Len(seen) + 1] = now
      /\ \A i \in 1 .. Len(seen) : a[i] = seen[i]
  OBVIOUS
<1>3. Len(k) \in Nat /\ Len(seen) \in Nat
  OBVIOUS
<1>4. /\ f \in Nat /\ Len(k) + f = Len(seen)
      /\ \A i \in 1 .. Len(k) : k[i] = seen[f + i]
      /\ \A i \in 1 .. f : seen[i] < RateCutoff
  BY <1>3, RemembersFacts
<1> HIDE DEF q, a, f
<1>5. Len(a) - Len(q) = f /\ Len(q) <= Len(a)
  <2>1. /\ Len(a) = Len(seen) + 1 /\ Len(q) = Len(k) + 1
        /\ f \in Nat /\ Len(k) + f = Len(seen)
    BY <1>1, <1>2, <1>4
  <2> QED
    BY <1>3, <2>1
<1>6. ASSUME NEW i \in 1 .. Len(q) PROVE q[i] = a[f + i]
  <2>1. CASE i = Len(k) + 1
    <3>0. f \in Nat /\ Len(k) + f = Len(seen)
      BY <1>4
    <3>1. f + i = Len(seen) + 1
      BY <1>3, <2>1, <3>0
    <3> QED
      BY <1>1, <1>2, <2>1, <3>1
  <2>2. CASE i # Len(k) + 1
    <3>1. i \in 1 .. Len(k) /\ f + i \in 1 .. Len(seen)
      BY <1>1, <1>3, <1>4, <2>2, SMTT(30)
    <3> QED
      BY <1>1, <1>2, <1>4, <3>1
  <2> QED
    BY <2>1, <2>2
<1>7. ASSUME NEW i \in 1 .. f PROVE a[i] < RateCutoff
  <2>1. i \in 1 .. Len(seen)
    BY <1>3, <1>4
  <2> QED
    BY <1>2, <1>4, <2>1
<1>8. Remembers(q, a)
  BY <1>1, <1>2, <1>5, <1>6, <1>7, RemembersFacts
<1> QED
  BY <1>8 DEF q, a

-----------------------------------------------------------------------------
(* The steps of check_admission_rate                                       *)

\* What is left of the attempts of a source after retain.
Kept(s) == IF s \in DOMAIN Retained THEN Retained[s] ELSE <<>>

\* What retain keeps, it keeps as it was.
LEMMA RetainedFacts ==
  /\ DOMAIN Retained \subseteq DOMAIN admission_rate
  /\ \A s \in DOMAIN Retained : Retained[s] = admission_rate[s]
  /\ \A s \in DOMAIN admission_rate \ DOMAIN Retained :
       ~(Last(admission_rate[s]) >= RateCutoff)
BY DEF Retained, Restrict

\* A source is forgotten only when all its attempts are too old.
LEMMA KeptRemembers ==
  ASSUME TypeOK, RateInv, NEW s \in Sources
  PROVE  Kept(s) \in Seq(Nat) /\ Remembers(Kept(s), admitted[s])
<1> DEFINE seen == admitted[s]
           k == Known(s)
<1>1. seen \in Seq(Nat) /\ now \in Nat /\ RateCutoff \in Int
  BY SpanType DEF TypeOK, RateCutoff
<1>2. k \in Seq(Nat) /\ Remembers(k, seen)
  <2>1. k \in Seq(Nat)
    BY DEF TypeOK, Known
  <2> QED
    BY <2>1 DEF RateInv, RateRemembersWindow, Remembers
<1>3. CASE s \in DOMAIN Retained
  BY <1>2, <1>3, RetainedFacts DEF Kept, Known
<1>4. CASE s \in DOMAIN admission_rate /\ s \notin DOMAIN Retained
  <2> DEFINE f == Len(seen) - Len(k)
  <2>1. k = admission_rate[s] /\ k # <<>> /\ ~(Last(k) >= RateCutoff)
    BY <1>4, RetainedFacts DEF TypeOK, Known
  <2>2. Len(k) \in Nat /\ Len(seen) \in Nat /\ Len(k) \in 1 .. Len(k)
        /\ k[Len(k)] \in Nat
    BY <1>1, <1>2, <2>1
  <2>3. k[Len(k)] < RateCutoff
    BY <1>1, <2>1, <2>2 DEF Last
  <2>4. f \in Nat /\ f + Len(k) = Len(seen)
    BY <1>1, <1>2, <2>2, RemembersFacts
  <2>5. k[Len(k)] = seen[Len(seen)]
    BY <1>1, <1>2, <2>2, <2>4, RemembersFacts
  <2>6. Len(seen) \in 1 .. Len(seen)
    BY <2>2, <2>4
  <2>7. \A i \in 1 .. Len(seen) : seen[i] <= seen[Len(seen)]
    BY <2>2, <2>6 DEF RateInv, InOrder
  <2>8. \A i \in 1 .. Len(seen) : seen[i] \in Nat
    BY <1>1
  <2>9. \A i \in 1 .. Len(seen) : seen[i] < RateCutoff
    BY <1>1, <2>3, <2>5, <2>6, <2>7, <2>8
  <2>10. Kept(s) = <<>>
    BY <1>4 DEF Kept
  <2> DEFINE e == <<>>
  <2>11. e \in Seq(Nat) /\ Len(e) = 0 /\ Len(seen) - 0 = Len(seen)
    BY <2>2
  <2> HIDE DEF e
  <2>12. Remembers(e, seen)
    <3>1. \A i \in 1 .. Len(e) : FALSE
      BY <2>11
    <3>2. Len(e) <= Len(seen)
      BY <2>2, <2>11
    <3>3. \A i \in 1 .. Len(seen) - Len(e) : seen[i] < RateCutoff
      BY <2>9, <2>11
    <3> QED
      BY <1>1, <2>11, <3>1, <3>2, <3>3, RemembersFacts
  <2> USE DEF e
  <2> QED
    BY <2>10, <2>11, <2>12
<1>5. CASE s \notin DOMAIN admission_rate
  <2>1. Kept(s) = k
    BY <1>5, RetainedFacts DEF Kept, Known
  <2> QED
    BY <1>2, <2>1
<1> QED
  BY <1>3, <1>4, <1>5

\* The queue the limit is applied to has every attempt of the window.
LEMMA AttemptsRemember ==
  ASSUME TypeOK, RateInv, NEW s \in Sources
  PROVE  Attempts(s) \in Seq(Nat) /\ Remembers(Attempts(s), admitted[s])
<1>1. now \in Nat /\ admitted[s] \in Seq(Nat)
  BY DEF TypeOK
<1>2. Kept(s) \in Seq(Nat) /\ Remembers(Kept(s), admitted[s])
  BY KeptRemembers
<1>3. CASE s \in DOMAIN Retained
  <2>1. Attempts(s) = SubSeq(Kept(s), Popped(Kept(s)) + 1, Len(Kept(s)))
    BY <1>3 DEF Attempts, Kept
  <2> QED
    BY <1>1, <1>2, <2>1, PoppedFacts, PoppedRemembers
<1>4. CASE s \notin DOMAIN Retained
  BY <1>2, <1>4 DEF Attempts, Kept
<1> QED
  BY <1>3, <1>4

\* The share of a source, in whatever window.
Shared(seen) ==
  \A i \in 1 .. Len(seen) - RATE_ATTEMPTS :
    seen[i + RATE_ATTEMPTS] - seen[i] > RATE_SECS * TicksPerSecond

\* An attempt is admitted only when the last RATE_ATTEMPTS were not all recent.
LEMMA ShareKept ==
  ASSUME now \in Nat, NEW seen \in Seq(Nat), NEW k \in Seq(Nat),
         Remembers(k, seen), Len(k) < RATE_ATTEMPTS, Shared(seen)
  PROVE  Shared(Append(seen, now))
<1> DEFINE a == Append(seen, now)
           span == RATE_SECS * TicksPerSecond
<1>1. Len(seen) \in Nat /\ Len(k) \in Nat /\ RATE_ATTEMPTS \in Nat
      /\ span \in Nat
  BY GateAssumption, SpanType
<1>2. Len(a) = Len(seen) + 1 /\ a[Len(seen) + 1] = now
      /\ \A i \in 1 .. Len(seen) : a[i] = seen[i]
  OBVIOUS
<1> HIDE DEF a
<1>3. SUFFICES ASSUME NEW i \in 1 .. Len(a) - RATE_ATTEMPTS
               PROVE  a[i + RATE_ATTEMPTS] - a[i] > span
  BY DEF Shared, a
<1> HIDE DEF span
<1>4. i \in 1 .. Len(seen) /\ i + RATE_ATTEMPTS <= Len(seen) + 1
  BY <1>1, <1>2, GateAssumption
<1>5. CASE i + RATE_ATTEMPTS = Len(seen) + 1
  <2>1. i \in 1 .. Len(seen) - Len(k)
    BY <1>1, <1>4, <1>5
  <2>2. seen[i] < now - span /\ seen[i] \in Nat
    BY <1>4, <2>1 DEF Remembers, RateCutoff, span
  <2> QED
    BY <1>1, <1>2, <1>4, <1>5, <2>2
<1>6. CASE i + RATE_ATTEMPTS # Len(seen) + 1
  <2>1. i \in 1 .. Len(seen) - RATE_ATTEMPTS
        /\ i + RATE_ATTEMPTS \in 1 .. Len(seen)
    BY <1>1, <1>4, <1>6
  <2>2. seen[i + RATE_ATTEMPTS] - seen[i] > span
    BY <2>1 DEF Shared, span
  <2> QED
    BY <1>2, <1>4, <2>1, <2>2
<1> QED
  BY <1>5, <1>6

\* What Put changes.
LEMMA PutFacts ==
  ASSUME NEW f, NEW x, NEW y
  PROVE  /\ DOMAIN Put(f, x, y) = DOMAIN f \cup {x}
         /\ Put(f, x, y)[x] = y
         /\ \A z \in DOMAIN f : z # x => Put(f, x, y)[z] = f[z]
BY DEF Put

\* The check, as one of its three outcomes.
LEMMA RateOutcomes ==
  ASSUME TypeOK, NEW s \in Sources, CheckAdmissionRate(s)
  PROVE  \/ /\ TableFull(s)
            /\ admission_rate' = Retained /\ admitted' = admitted
         \/ /\ ~TableFull(s) /\ RateExceeded(s)
            /\ admission_rate' = Put(Retained, s, Attempts(s))
            /\ admitted' = admitted
         \/ /\ ~TableFull(s) /\ ~RateExceeded(s)
            /\ admission_rate' = Put(Retained, s, Append(Attempts(s), now))
            /\ admitted' = [admitted EXCEPT ![s] = Append(@, now)]
BY DEF CheckAdmissionRate, RateAllows

\* Pruning makes no room that was not there, and a source is added only when
\* there is room.
LEMMA TableStep ==
  ASSUME TypeOK, RateInv, NEW s \in Sources, CheckAdmissionRate(s)
  PROVE  /\ IsFiniteSet(DOMAIN admission_rate')
         /\ Cardinality(DOMAIN admission_rate') <= RATE_SOURCES
<1> DEFINE D == DOMAIN Retained
<1>0. RATE_SOURCES \in Nat
  BY GateAssumption
<1>1. IsFiniteSet(D) /\ Cardinality(D) \in Nat
      /\ Cardinality(D) <= RATE_SOURCES
  <2>1. /\ IsFiniteSet(DOMAIN admission_rate)
        /\ Cardinality(DOMAIN admission_rate) <= RATE_SOURCES
    BY DEF RateInv, RateRemembersWindow
  <2>2. /\ IsFiniteSet(D)
        /\ Cardinality(D) <= Cardinality(DOMAIN admission_rate)
    BY <2>1, RetainedFacts, FS_Subset
  <2>3. Cardinality(D) \in Nat /\ Cardinality(DOMAIN admission_rate) \in Nat
    BY <2>1, <2>2, FS_CardinalityType
  <2> QED
    BY <1>0, <2>1, <2>2, <2>3
<1>2. CASE TableFull(s)
  BY <1>1, <1>2, RateOutcomes
<1>3. CASE ~TableFull(s)
  <2>1. DOMAIN admission_rate' = D \cup {s}
    <3>1. \A y : DOMAIN Put(Retained, s, y) = D \cup {s}
      BY PutFacts
    <3>2. \E y : admission_rate' = Put(Retained, s, y)
      <4>1. \/ admission_rate' = Put(Retained, s, Attempts(s))
            \/ admission_rate' = Put(Retained, s, Append(Attempts(s), now))
        BY <1>3, RateOutcomes
      <4> QED
        BY <4>1
    <3>3. PICK y : admission_rate' = Put(Retained, s, y)
      BY <3>2
    <3> QED
      BY <3>1, <3>3
  <2>2. /\ IsFiniteSet(D \cup {s})
        /\ Cardinality(D \cup {s})
             = IF s \in D THEN Cardinality(D) ELSE Cardinality(D) + 1
    BY <1>1, FS_AddElement
  <2>3. s \in D \/ Cardinality(D) < RATE_SOURCES
    BY <1>0, <1>1, <1>3 DEF TableFull
  <2> HIDE DEF D
  <2>4. Cardinality(D \cup {s}) <= RATE_SOURCES
    BY <1>0, <1>1, <2>2, <2>3
  <2> QED
    BY <2>1, <2>2, <2>4
<1> QED
  BY <1>2, <1>3

\* What the table and the history of a source are after a check.
LEMMA SourceStep ==
  ASSUME TypeOK, RateInv, NEW s \in Sources, CheckAdmissionRate(s),
         NEW r \in Sources
  PROVE  /\ Known(r)' \in Seq(Nat)
         /\ r \in DOMAIN admission_rate' => Known(r)' # <<>>
         /\ admitted'[r] \in Seq(Nat)
         /\ \/ admitted'[r] = admitted[r]
            \/ admitted'[r] = Append(admitted[r], now)
         /\ Remembers(Known(r)', admitted'[r])
         /\ Shared(admitted'[r])
<1> DEFINE a == Attempts(s)
<1>1. /\ now \in Nat /\ admitted[r] \in Seq(Nat) /\ admitted[s] \in Seq(Nat)
      /\ admitted \in [Sources -> Seq(Nat)]
  BY DEF TypeOK
<1>2. /\ Kept(r) \in Seq(Nat) /\ Remembers(Kept(r), admitted[r])
      /\ r \in DOMAIN Retained => Kept(r) # <<>>
  BY KeptRemembers, RetainedFacts DEF Kept, TypeOK
<1>3. a \in Seq(Nat) /\ Remembers(a, admitted[s])
  BY AttemptsRemember
<1>4. Shared(admitted[r])
  BY DEF RateInv, RateRemembersWindow, Shared
<1>5. RATE_ATTEMPTS \in Nat \ {0}
  BY GateAssumption
<1> HIDE DEF a
<1>6. CASE TableFull(s)
  <2>1. admission_rate' = Retained /\ admitted' = admitted
    BY <1>6, RateOutcomes
  <2>2. Known(r)' = Kept(r)
    BY <2>1 DEF Known, Kept
  <2> QED
    BY <1>1, <1>2, <1>4, <2>1, <2>2
<1>7. CASE ~TableFull(s) /\ r # s
  <2>1. admitted'[r] = admitted[r]
    BY <1>1, <1>7, RateOutcomes
  <2>2. PICK q : admission_rate' = Put(Retained, s, q)
    BY <1>7, RateOutcomes
  <2>3. Known(r)' = Kept(r) /\ (r \in DOMAIN admission_rate' =>
                                  r \in DOMAIN Retained)
    <3> DEFINE new == Put(Retained, s, q)
    <3>1. /\ DOMAIN new = DOMAIN Retained \cup {s}
          /\ r \in DOMAIN Retained => new[r] = Retained[r]
      BY <1>7 DEF Put
    <3> HIDE DEF new
    <3>2. admission_rate' = new
      BY <2>2 DEF new
    <3> QED
      BY <1>7, <3>1, <3>2 DEF Known, Kept
  <2> QED
    BY <1>1, <1>2, <1>4, <2>1, <2>3
<1>8. CASE ~TableFull(s) /\ RateExceeded(s) /\ r = s
  <2>1. admission_rate' = Put(Retained, s, a) /\ admitted' = admitted
    BY <1>8, RateOutcomes DEF a
  <2>2. Known(r)' = a
    <3>1. s \in DOMAIN admission_rate' /\ admission_rate'[s] = a
      BY <2>1 DEF Put
    <3> QED
      BY <1>8, <3>1 DEF Known
  <2>3. a # <<>>
    <3>1. Len(a) >= RATE_ATTEMPTS
      BY <1>8 DEF RateExceeded, a
    <3> QED
      BY <1>3, <1>5, <3>1
  <2> QED
    BY <1>1, <1>3, <1>4, <1>8, <2>1, <2>2, <2>3
<1>9. CASE ~TableFull(s) /\ ~RateExceeded(s) /\ r = s
  <2>1. /\ admission_rate' = Put(Retained, s, Append(a, now))
        /\ admitted' = [admitted EXCEPT ![s] = Append(@, now)]
    BY <1>9, RateOutcomes DEF a
  <2>2. Known(r)' = Append(a, now)
    <3>1. /\ s \in DOMAIN admission_rate'
          /\ admission_rate'[s] = Append(a, now)
      BY <2>1 DEF Put
    <3> QED
      BY <1>9, <3>1 DEF Known
  <2>3. admitted'[r] = Append(admitted[r], now)
    BY <1>1, <1>9, <2>1
  <2>4. Append(a, now) \in Seq(Nat) /\ Append(a, now) # <<>>
        /\ Append(admitted[r], now) \in Seq(Nat)
    <3>1. /\ Append(a, now) \in Seq(Nat)
          /\ Append(admitted[r], now) \in Seq(Nat)
      BY <1>1, <1>3
    <3>2. Append(a, now) # <<>>
      BY <1>1, <1>3, NotEmpty
    <3> QED
      BY <3>1, <3>2
  <2>5. Len(a) < RATE_ATTEMPTS
    BY <1>3, <1>5, <1>9 DEF RateExceeded, a
  <2>6. Remembers(Append(a, now), Append(admitted[r], now))
    BY <1>1, <1>3, <1>9, AppendRemembers
  <2>7. Shared(Append(admitted[r], now))
    BY <1>1, <1>3, <1>4, <1>9, <2>5, ShareKept
  <2> QED
    BY <2>2, <2>3, <2>4, <2>6, <2>7
<1> QED
  BY <1>6, <1>7, <1>8, <1>9

\* A further attempt comes after the ones before it.
LEMMA AppendInOrder ==
  ASSUME NEW seen \in Seq(Nat), NEW t \in Nat,
         \A i \in 1 .. Len(seen) : seen[i] <= t,
         \A i, j \in 1 .. Len(seen) : i <= j => seen[i] <= seen[j],
         NEW a, a = seen \/ a = Append(seen, t)
  PROVE  /\ \A i \in 1 .. Len(a) : a[i] <= t
         /\ \A i, j \in 1 .. Len(a) : i <= j => a[i] <= a[j]
<1>1. CASE a = seen
  BY <1>1
<1>2. CASE a = Append(seen, t)
  <2>1. Len(a) = Len(seen) + 1 /\ a[Len(seen) + 1] = t /\ Len(seen) \in Nat
        /\ \A i \in 1 .. Len(seen) : a[i] = seen[i]
    BY <1>2
  <2>2. \A i \in 1 .. Len(a) : i \in 1 .. Len(seen) \/ i = Len(seen) + 1
    BY <2>1
  <2>3. \A i \in 1 .. Len(a) : a[i] <= t
    BY <2>1, <2>2
  <2>4. ASSUME NEW i \in 1 .. Len(a), NEW j \in 1 .. Len(a), i <= j
        PROVE  a[i] <= a[j]
    <3>1. CASE j = Len(seen) + 1
      BY <2>1, <2>3, <3>1
    <3>2. CASE j \in 1 .. Len(seen)
      <4>1. i \in 1 .. Len(seen)
        BY <2>1, <2>4, <3>2
      <4> QED
        BY <2>1, <2>4, <3>2, <4>1
    <3> QED
      BY <2>2, <3>1, <3>2
  <2> QED
    BY <2>3, <2>4
<1> QED
  BY <1>1, <1>2

\* A check of the rate keeps the invariant of the table.
LEMMA RateStep ==
  ASSUME TypeOK, RateInv, NEW s \in Sources, CheckAdmissionRate(s),
         now' = now
  PROVE  RateInv'
<1>1. RateCutoff' = RateCutoff
  BY DEF RateCutoff
<1>2. /\ IsFiniteSet(DOMAIN admission_rate')
      /\ Cardinality(DOMAIN admission_rate') <= RATE_SOURCES
  BY TableStep
<1>3. InOrder'
  <2>1. SUFFICES ASSUME NEW r \in Sources
                 PROVE  /\ \A i \in 1 .. Len(admitted'[r]) :
                             admitted'[r][i] <= now
                        /\ \A i, j \in 1 .. Len(admitted'[r]) :
                             i <= j => admitted'[r][i] <= admitted'[r][j]
    BY DEF InOrder
  <2>2. /\ admitted[r] \in Seq(Nat) /\ now \in Nat
        /\ \A i \in 1 .. Len(admitted[r]) : admitted[r][i] <= now
        /\ \A i, j \in 1 .. Len(admitted[r]) :
             i <= j => admitted[r][i] <= admitted[r][j]
    BY DEF TypeOK, RateInv, InOrder
  <2>3. admitted'[r] = admitted[r] \/ admitted'[r] = Append(admitted[r], now)
    BY SourceStep
  <2> QED
    BY <2>2, <2>3, AppendInOrder
<1>4. \A r \in Sources :
        Remembers(Known(r)', admitted'[r]) /\ Shared(admitted'[r])
  BY SourceStep
<1> QED
  BY <1>1, <1>2, <1>3, <1>4
     DEF RateInv, RateRemembersWindow, Remembers, Shared

\* Nothing is forgotten by the passing of time: the cutoff only grows.
LEMMA RateTick ==
  ASSUME TypeOK, RateInv, Tick
  PROVE  RateInv'
<1>1. now \in Nat /\ now' = now + 1 /\ RateCutoff \in Int
      /\ RateCutoff' = RateCutoff + 1
  BY SpanType DEF TypeOK, Tick, RateCutoff
<1>2. admission_rate' = admission_rate /\ admitted' = admitted
  BY DEF Tick
<1>3. \A s \in Sources : Known(s)' = Known(s)
  BY <1>2 DEF Known
<1>4. InOrder'
  <2>1. \A s \in Sources : \A i \in 1 .. Len(admitted[s]) :
          admitted[s][i] \in Nat
    BY DEF TypeOK
  <2> QED
    BY <1>1, <1>2, <2>1 DEF RateInv, InOrder
<1>5. \A s \in Sources :
        /\ Len(Known(s)) <= Len(admitted[s])
        /\ Known(s) = SubSeq(admitted[s],
                             Len(admitted[s]) - Len(Known(s)) + 1,
                             Len(admitted[s]))
        /\ Shared(admitted[s])
  BY DEF RateInv, RateRemembersWindow, Shared
<1>6. ASSUME NEW s \in Sources,
             NEW i \in 1 .. Len(admitted[s]) - Len(Known(s))
      PROVE  admitted[s][i] < RateCutoff'
  <2>1. Known(s) \in Seq(Nat)
    BY DEF TypeOK, Known
  <2>2. Len(Known(s)) \in Nat /\ Len(admitted[s]) \in Nat
        /\ admitted[s] \in Seq(Nat)
    BY <2>1 DEF TypeOK
  <2>3. i \in 1 .. Len(admitted[s])
    BY <2>2
  <2>4. admitted[s][i] \in Nat
    BY <2>2, <2>3
  <2>5. admitted[s][i] < RateCutoff
    BY DEF RateInv, RateRemembersWindow
  <2> QED
    BY <1>1, <2>4, <2>5
<1>7. IsFiniteSet(DOMAIN admission_rate)
      /\ Cardinality(DOMAIN admission_rate) <= RATE_SOURCES
  BY DEF RateInv, RateRemembersWindow
<1> QED
  BY <1>2, <1>3, <1>4, <1>5, <1>6, <1>7
     DEF RateInv, RateRemembersWindow, Shared

-----------------------------------------------------------------------------
(* The steps of validate_gate_token                                        *)

\* What the cache keeps, it keeps as it was.
LEMMA RememberedFacts ==
  /\ DOMAIN Remembered \subseteq DOMAIN gate_replay
  /\ \A t \in DOMAIN Remembered : Remembered[t] = gate_replay[t]
  /\ \A t \in DOMAIN gate_replay \ DOMAIN Remembered :
       ~(gate_replay[t] >= now - GATE_REPLAY_SECS * TicksPerSecond)
BY DEF Remembered, Restrict

\* A token the cache has forgotten, or never knew, was not accepted recently.
LEMMA ForgottenLongAgo ==
  ASSUME TypeOK, CacheKnows, NEW t \in Tokens, t \notin DOMAIN Remembered,
         NEW i \in 1 .. Len(accepted[t])
  PROVE  accepted[t][i] < now - GATE_REPLAY_SECS * TicksPerSecond
<1> DEFINE span == GATE_REPLAY_SECS * TicksPerSecond
<1>1. span \in Nat /\ now \in Nat /\ accepted[t][i] \in Nat
  BY SpanType DEF TypeOK
<1>2. CASE t \notin DOMAIN gate_replay
  BY <1>2 DEF CacheKnows
<1>3. CASE t \in DOMAIN gate_replay
  <2>1. gate_replay[t] \in Nat /\ accepted[t][i] <= gate_replay[t]
    BY <1>3 DEF TypeOK, CacheKnows
  <2>2. ~(gate_replay[t] >= now - span)
    BY <1>3, RememberedFacts
  <2> HIDE DEF span
  <2>3. accepted[t][i] < now - span
    BY <1>1, <2>1, <2>2
  <2> QED
    BY <2>3 DEF span
<1> QED
  BY <1>2, <1>3

\* A token in its window keeps the invariant of the cache.
LEMMA ReplayStep ==
  ASSUME TypeOK, ReplayInv, NEW t \in Tokens,
         InWindow(t), ValidateGateToken(t), now' = now
  PROVE  ReplayInv'
<1> DEFINE span == GATE_REPLAY_SECS * TicksPerSecond
<1>1. span \in Nat /\ now \in Nat /\ accepted \in [Tokens -> Seq(Nat)]
      /\ DOMAIN gate_replay \subseteq Tokens
  BY SpanType DEF TypeOK
<1> HIDE DEF span
<1>2. /\ DOMAIN gate_replay' = DOMAIN Remembered \cup {t}
      /\ gate_replay'[t] = now
      /\ \A u \in DOMAIN Remembered : u # t => gate_replay'[u] = gate_replay[u]
  BY RememberedFacts DEF ValidateGateToken, Put
<1>3. ASSUME NEW u \in Tokens, u # t
      PROVE  accepted'[u] = accepted[u]
  BY <1>1, <1>3 DEF ValidateGateToken
<1>4. CASE t \in DOMAIN Remembered
  <2>1. accepted' = accepted
    BY <1>4 DEF ValidateGateToken
  <2>2. ASSUME NEW u \in Tokens, NEW i \in 1 .. Len(accepted[u])
        PROVE  /\ u \in DOMAIN gate_replay' =>
                    accepted[u][i] <= gate_replay'[u]
               /\ u \notin DOMAIN gate_replay' => accepted[u][i] < now - span
    BY <1>1, <1>2, RememberedFacts, ForgottenLongAgo
       DEF ReplayInv, CacheKnows, AcceptedBefore, span
  <2> QED
    BY <1>1, <1>2, <2>1, <2>2, RememberedFacts
       DEF ReplayInv, CacheKnows, AcceptedInWindow, AcceptedApart,
           AcceptedBefore, span
<1>5. CASE t \notin DOMAIN Remembered
  <2> DEFINE old == accepted[t]
             new == accepted'[t]
  <2>1. new = Append(old, now) /\ old \in Seq(Nat)
    BY <1>1, <1>5 DEF ValidateGateToken
  <2>2. Len(new) = Len(old) + 1 /\ new[Len(old) + 1] = now
        /\ Len(old) \in Nat /\ \A i \in 1 .. Len(old) : new[i] = old[i]
    BY <1>1, <2>1
  <2>3. \A i \in 1 .. Len(old) : old[i] < now - span /\ old[i] \in Nat
    BY <1>5, <2>1, ForgottenLongAgo DEF ReplayInv, span
  <2>4. \A i \in 1 .. Len(new) : i \in 1 .. Len(old) \/ i = Len(old) + 1
    BY <2>2
  <2> HIDE DEF new, old
  <2>5. \A i \in 1 .. Len(new) : new[i] <= now
    BY <1>1, <2>2, <2>3, <2>4
  <2>6. \A i \in 1 .. Len(new) :
          Distance(new[i] \div TicksPerSecond, t) <= GATE_WINDOW_SECS
    BY <2>2, <2>4 DEF ReplayInv, AcceptedInWindow, InWindow, UnixTime, old
  <2>7. ASSUME NEW i \in 1 .. Len(new), NEW j \in 1 .. Len(new), i < j
        PROVE  new[j] - new[i] > span
    <3>1. i \in 1 .. Len(old)
      BY <2>2, <2>4, <2>7
    <3>2. CASE j = Len(old) + 1
      BY <1>1, <2>2, <2>3, <3>1, <3>2
    <3>3. CASE j \in 1 .. Len(old)
      BY <2>2, <2>7, <3>1, <3>3 DEF ReplayInv, AcceptedApart, span, old
    <3> QED
      BY <2>4, <3>2, <3>3
  <2>8. ASSUME NEW u \in Tokens, u # t, NEW i \in 1 .. Len(accepted[u])
        PROVE  /\ u \in DOMAIN gate_replay' =>
                    accepted[u][i] <= gate_replay'[u]
               /\ u \notin DOMAIN gate_replay' => accepted[u][i] < now - span
    BY <1>1, <1>2, <2>8, RememberedFacts, ForgottenLongAgo
       DEF ReplayInv, CacheKnows, span
  <2>9. CacheKnows'
    BY <1>2, <1>3, <2>5, <2>8 DEF CacheKnows, new, span
  <2>10. AcceptedInWindow'
    BY <1>3, <2>6 DEF ReplayInv, AcceptedInWindow, new
  <2>11. AcceptedApart'
    BY <1>3, <2>7 DEF ReplayInv, AcceptedApart, new, span
  <2>12. AcceptedBefore'
    BY <1>1, <1>2, <1>3, <2>5, RememberedFacts, SMTT(30)
       DEF ReplayInv, AcceptedBefore, new
  <2> QED
    BY <2>9, <2>10, <2>11, <2>12 DEF ReplayInv
<1> QED
  BY <1>4, <1>5

\* The cache forgets nothing by the passing of time.
LEMMA ReplayTick ==
  ASSUME TypeOK, ReplayInv, Tick
  PROVE  ReplayInv'
<1> DEFINE span == GATE_REPLAY_SECS * TicksPerSecond
<1>1. now \in Nat /\ now' = now + 1 /\ span \in Nat
      /\ gate_replay' = gate_replay /\ accepted' = accepted
  BY SpanType DEF TypeOK, Tick
<1>2. /\ \A t \in DOMAIN gate_replay : gate_replay[t] \in Nat
      /\ \A t \in Tokens : \A i \in 1 .. Len(accepted[t]) :
           accepted[t][i] \in Nat
  BY DEF TypeOK
<1>3. CacheKnows'
  <2>1. \A t \in Tokens : \A i \in 1 .. Len(accepted[t]) :
          t \notin DOMAIN gate_replay => accepted[t][i] < now - span
    BY DEF ReplayInv, CacheKnows
  <2> HIDE DEF span
  <2>2. \A t \in Tokens : \A i \in 1 .. Len(accepted[t]) :
          t \notin DOMAIN gate_replay => accepted[t][i] < now' - span
    BY <1>1, <1>2, <2>1
  <2> QED
    BY <1>1, <2>2 DEF ReplayInv, CacheKnows, span
<1>4. AcceptedInWindow' /\ AcceptedApart'
  BY <1>1 DEF ReplayInv, AcceptedInWindow, AcceptedApart
<1> HIDE DEF span
<1>5. AcceptedBefore'
  BY <1>1, <1>2 DEF ReplayInv, AcceptedBefore
<1> QED
  BY <1>3, <1>4, <1>5 DEF ReplayInv

-----------------------------------------------------------------------------
(* The invariant                                                           *)

\* A check of the rate keeps the types.
LEMMA CheckType ==
  ASSUME TypeOK, RateInv, NEW s \in Sources, CheckAdmissionRate(s)
  PROVE  /\ DOMAIN admission_rate' \subseteq Sources
         /\ \A r \in DOMAIN admission_rate' :
              admission_rate'[r] \in Seq(Nat) /\ admission_rate'[r] # <<>>
         /\ admitted' \in [Sources -> Seq(Nat)]
<1>1. DOMAIN admission_rate' \subseteq Sources
  <2>1. DOMAIN admission_rate' \subseteq DOMAIN Retained \cup {s}
    BY RateOutcomes DEF Put
  <2> QED
    BY <2>1, RetainedFacts DEF TypeOK
<1>2. ASSUME NEW r \in DOMAIN admission_rate'
      PROVE  admission_rate'[r] \in Seq(Nat) /\ admission_rate'[r] # <<>>
  <2>1. r \in Sources
    BY <1>1
  <2>2. Known(r)' = admission_rate'[r]
    BY DEF Known
  <2> QED
    BY <2>1, <2>2, SourceStep
<1>3. /\ DOMAIN admitted' = Sources
      /\ admitted' = [r \in Sources |-> admitted'[r]]
  BY RateOutcomes DEF TypeOK
<1>4. \A r \in Sources : admitted'[r] \in Seq(Nat)
  BY SourceStep
<1> QED
  BY <1>1, <1>2, <1>3, <1>4

\* A check of a token keeps the types.
LEMMA ValidateType ==
  ASSUME TypeOK, NEW t \in Tokens, ValidateGateToken(t)
  PROVE  /\ DOMAIN gate_replay' \subseteq Tokens
         /\ \A u \in DOMAIN gate_replay' : gate_replay'[u] \in Nat
         /\ accepted' \in [Tokens -> Seq(Nat)]
<1>1. /\ DOMAIN gate_replay' = DOMAIN Remembered \cup {t}
      /\ gate_replay'[t] = now
      /\ \A u \in DOMAIN Remembered : u # t => gate_replay'[u] = gate_replay[u]
  BY RememberedFacts DEF ValidateGateToken, Put
<1>2. /\ DOMAIN gate_replay' \subseteq Tokens
      /\ \A u \in DOMAIN gate_replay' : gate_replay'[u] \in Nat
  BY <1>1, RememberedFacts DEF TypeOK
<1>3. accepted' \in [Tokens -> Seq(Nat)]
  BY DEF TypeOK, ValidateGateToken
<1> QED
  BY <1>2, <1>3

\* The gate starts with the invariant.
LEMMA GateInit ==
  ASSUME Init
  PROVE  GateInv
<1>1. TypeOK
  BY DEF Init, TypeOK
<1>2. ReplayInv
  BY DEF Init, ReplayInv, CacheKnows, AcceptedInWindow, AcceptedApart,
         AcceptedBefore
<1>3. RateInv
  <2>1. DOMAIN admission_rate = {}
    BY DEF Init
  <2>2. IsFiniteSet(DOMAIN admission_rate)
        /\ Cardinality(DOMAIN admission_rate) = 0
    BY <2>1, FS_EmptySet
  <2>3. RATE_SOURCES \in Nat /\ RATE_ATTEMPTS \in Nat \ {0}
    BY GateAssumption
  <2>4. \A s \in Sources : Known(s) = <<>> /\ admitted[s] = <<>>
    BY <2>1 DEF Known, Init
  <2>5. InOrder
    BY <2>4 DEF InOrder
  <2>6. ASSUME NEW s \in Sources
        PROVE  /\ Len(Known(s)) <= Len(admitted[s])
               /\ Known(s) = SubSeq(admitted[s],
                                    Len(admitted[s]) - Len(Known(s)) + 1,
                                    Len(admitted[s]))
               /\ \A i \in 1 .. Len(admitted[s]) - Len(Known(s)) :
                    admitted[s][i] < RateCutoff
               /\ Shared(admitted[s])
    <3> DEFINE e == <<>>
    <3>1. e \in Seq(Nat) /\ Len(e) = 0 /\ SubSeq(e, 1, 0) = e
      OBVIOUS
    <3>2. Known(s) = e /\ admitted[s] = e
      BY <2>4
    <3> HIDE DEF e
    <3>3. \A i \in 1 .. 0 - RATE_ATTEMPTS : FALSE
      BY <2>3
    <3>4. Shared(e)
      BY <3>1, <3>3 DEF Shared
    <3> QED
      BY <3>1, <3>2, <3>4
  <2>7. Cardinality(DOMAIN admission_rate) <= RATE_SOURCES
    BY <2>2, <2>3
  <2> QED
    BY <2>2, <2>5, <2>6, <2>7 DEF RateInv, RateRemembersWindow, Shared
<1> QED
  BY <1>1, <1>2, <1>3 DEF GateInv

\* Every step of the gate keeps the invariant.
LEMMA GateStep ==
  ASSUME GateInv, [Next]_vars
  PROVE  GateInv'
<1> USE DEF GateInv
<1>1. ASSUME NEW s \in Sources, OverRate(s) \/ BadToken(s)
      PROVE  GateInv'
  <2>1. CheckAdmissionRate(s)
        /\ UNCHANGED <<now, gate_replay, accepted>>
    BY <1>1 DEF OverRate, BadToken
  <2>2. RateInv'
    BY <2>1, RateStep
  <2>3. TypeOK'
    BY <2>1, CheckType DEF TypeOK
  <2>4. ReplayInv'
    BY <2>1 DEF ReplayInv, CacheKnows, AcceptedInWindow, AcceptedApart,
                AcceptedBefore
  <2> QED
    BY <2>2, <2>3, <2>4
<1>2. ASSUME NEW s \in Sources, NEW t \in Tokens, GoodToken(s, t)
      PROVE  GateInv'
  <2>1. InWindow(t) /\ CheckAdmissionRate(s) /\ ValidateGateToken(t)
        /\ now' = now
    BY <1>2 DEF GoodToken
  <2>2. RateInv'
    BY <2>1, RateStep
  <2>3. ReplayInv'
    BY <2>1, ReplayStep
  <2>4. TypeOK'
    BY <2>1, CheckType, ValidateType DEF TypeOK
  <2> QED
    BY <2>2, <2>3, <2>4
<1>3. CASE Tick
  <2>1. TypeOK'
    BY <1>3 DEF Tick, TypeOK
  <2> QED
    BY <1>3, <2>1, RateTick, ReplayTick
<1>4. CASE UNCHANGED vars
  <2>1. TypeOK'
    BY <1>4 DEF vars, TypeOK
  <2>2. ReplayInv'
    BY <1>4 DEF vars, ReplayInv, CacheKnows, AcceptedInWindow, AcceptedApart,
                AcceptedBefore
  <2>3. RateInv'
    BY <1>4 DEF vars, RateInv, InOrder, RateRemembersWindow, Known, RateCutoff
  <2> QED
    BY <2>1, <2>2, <2>3
<1> QED
  BY <1>1, <1>2, <1>3, <1>4 DEF Next

\* What the replay cache and the rate table know, in every reachable state.
THEOREM GateSafety == Spec => []GateInv
BY GateInit, GateStep, PTL DEF Spec

\* The rate table knows every attempt of the last window, no source gets more
\* than its share in whatever window, and the table stays within its limit
\* (check_admission_rate), for every number of sources and every limit.
THEOREM RateKept == Spec => []RateRemembersWindow
<1>1. GateInv => RateRemembersWindow
  BY DEF GateInv, RateInv
<1> QED
  BY <1>1, GateSafety, PTL

\* Two acceptances of one token are at the two ends of its window.
LEMMA TwoAcceptances ==
  ASSUME GateInv, NEW t \in Tokens,
         NEW i \in 1 .. Len(accepted[t]), NEW j \in 1 .. Len(accepted[t]),
         i < j
  PROVE  /\ accepted[t][i] \div TicksPerSecond = t - GATE_WINDOW_SECS
         /\ accepted[t][j] \div TicksPerSecond = t + GATE_WINDOW_SECS
<1> DEFINE T == TicksPerSecond
           W == GATE_WINDOW_SECS
           a == accepted[t][i]
           b == accepted[t][j]
<1>1. t \in Nat /\ T \in Nat \ {0} /\ W \in Nat
      /\ GATE_REPLAY_SECS \in Nat /\ GATE_REPLAY_SECS >= 2 * W
  BY GateAssumption
<1>2. a \in Nat /\ b \in Nat
  BY DEF GateInv, TypeOK
<1>3. b - a > GATE_REPLAY_SECS * T
  BY DEF GateInv, ReplayInv, AcceptedApart
<1>4. Distance(a \div T, t) <= W /\ Distance(b \div T, t) <= W
  BY DEF GateInv, ReplayInv, AcceptedInWindow
<1> HIDE DEF a, b, T, W
<1>5. b \div T >= a \div T + GATE_REPLAY_SECS
  BY <1>1, <1>2, <1>3, SecondsApart
<1>6. a \div T \in Nat /\ b \div T \in Nat
  BY <1>1, <1>2, SecondOf
<1>7. a \div T = t - W /\ b \div T = t + W
  BY <1>1, <1>4, <1>5, <1>6, SMTT(30) DEF Distance
<1> QED
  BY <1>7 DEF a, b, T, W

\* A token is accepted a second time only in the last second of its window
\* after a first time in the first one, and never a third time
\* (validate_gate_token), for every window and every resolution of the clock.
THEOREM ReplayBounded == Spec => []ReplayOnlyAcrossTheWindow
<1>1. ASSUME GateInv PROVE ReplayOnlyAcrossTheWindow
  <2>1. SUFFICES ASSUME NEW t \in Tokens, ~(Len(accepted[t]) <= 1)
                 PROVE  /\ Len(accepted[t]) = 2
                        /\ accepted[t][1] \div TicksPerSecond
                             = t - GATE_WINDOW_SECS
                        /\ accepted[t][2] \div TicksPerSecond
                             = t + GATE_WINDOW_SECS
    BY DEF ReplayOnlyAcrossTheWindow
  <2>2. Len(accepted[t]) \in Nat
    BY <1>1 DEF GateInv, TypeOK
  <2>3. 1 \in 1 .. Len(accepted[t]) /\ 2 \in 1 .. Len(accepted[t])
    BY <2>1, <2>2
  <2>4. Len(accepted[t]) = 2
    <3>1. SUFFICES ASSUME Len(accepted[t]) # 2 PROVE FALSE
      OBVIOUS
    <3> DEFINE n == Len(accepted[t])
    <3>2. 3 \in 1 .. n
      <4>1. n \in Nat /\ ~(n <= 1) /\ n # 2
        BY <2>1, <2>2, <3>1
      <4> HIDE DEF n
      <4> QED
        BY <4>1
    <3>3. /\ accepted[t][2] \div TicksPerSecond = t + GATE_WINDOW_SECS
          /\ accepted[t][2] \div TicksPerSecond = t - GATE_WINDOW_SECS
      BY <1>1, <2>3, <3>2, TwoAcceptances
    <3>4. t \in Nat /\ GATE_WINDOW_SECS \in Nat \ {0}
      BY GateAssumption
    <3> QED
      BY <3>3, <3>4
  <2> QED
    BY <1>1, <2>3, <2>4, TwoAcceptances
<1> QED
  BY <1>1, GateSafety, PTL
=============================================================================
