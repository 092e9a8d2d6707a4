------------------------ MODULE SessionPolicy_proofs ------------------------
(***************************************************************************)
(* The token bucket shapes every session to its rate, whatever the rate,   *)
(* the burst, the resolution of the clock and the sizes of the packets.    *)
(***************************************************************************)
EXTENDS SessionPolicy, TLAPS

\* The replenishment is rounded down, by less than one.
LEMMA FloorBound ==
  ASSUME NEW a \in Nat, NEW b \in Nat \ {0}
  PROVE  /\ a \div b \in Nat
         /\ b * (a \div b) <= a
         /\ a <= b * (a \div b) + (b - 1)
<1>1. a = b * (a \div b) + (a % b)
  OBVIOUS
<1>2. a % b \in 0 .. b - 1
  OBVIOUS
<1>3. a \div b \in Nat
  OBVIOUS
<1> QED
  BY <1>1, <1>2, <1>3

\* The wait is rounded up, by less than one.
LEMMA CeilingBound ==
  ASSUME NEW a \in Nat, NEW b \in Nat \ {0}
  PROVE  /\ (a + b - 1) \div b \in Nat
         /\ a <= b * ((a + b - 1) \div b)
         /\ b * ((a + b - 1) \div b) <= a + (b - 1)
<1> DEFINE c == a + b - 1
<1>0. c \in Nat
  OBVIOUS
<1>1. c = b * (c \div b) + (c % b)
  BY <1>0
<1>2. c % b \in 0 .. b - 1
  BY <1>0
<1>3. c \div b \in Nat
  BY <1>0
<1>4. b * (c \div b) \in Int
  BY <1>3
<1> QED
  BY <1>1, <1>2, <1>3, <1>4

\* A product of naturals is one, and multiplication distributes: the facts the
\* arithmetic below uses, stated once.
LEMMA Product ==
  ASSUME NEW a \in Nat, NEW b \in Nat
  PROVE  a * b \in Nat
OBVIOUS

\* Multiplication distributes over addition.
LEMMA Distributes ==
  ASSUME NEW a \in Int, NEW b \in Int, NEW c \in Int
  PROVE  a * (b + c) = a * b + a * c
OBVIOUS

\* Multiplication commutes.
LEMMA Commutes ==
  ASSUME NEW a \in Int, NEW b \in Int
  PROVE  a * b = b * a
OBVIOUS

\* What the bucket holds when reserve comes to take from it: no more than its
\* capacity, and no more than it held plus what the rate has earned.
LEMMA FilledBound ==
  ASSUME TypeOK, BucketIsCurrent, ended = "no"
  PROVE  /\ Filled \in 0 .. Capacity
         /\ Resolution * Filled
              <= Resolution * tokens + Rate * now - Rate * updated_at
<1> USE PolicyAssumption
<1> DEFINE e == now - updated_at
<1>1. e \in Nat /\ Elapsed = e /\ now = updated_at + e
  BY DEF Elapsed, TypeOK, BucketIsCurrent
<1>2. Elapsed * Rate = Rate * e /\ Rate * e \in Nat
  BY <1>1, Product, Commutes
<1>3. Replenished \in Nat /\ Resolution * Replenished <= Rate * e
  BY <1>1, <1>2, FloorBound DEF Replenished
<1>4. Rate * now = Rate * updated_at + Rate * e
  BY <1>1, Distributes DEF TypeOK
<1>5. Filled \in 0 .. Capacity /\ Filled <= tokens + Replenished
  BY <1>3 DEF Filled, TypeOK
<1>6. PICK d \in Nat : tokens + Replenished = Filled + d
  <2>1. tokens + Replenished - Filled \in Nat
    BY <1>3, <1>5 DEF TypeOK
  <2> QED
    BY <1>3, <1>5, <2>1 DEF TypeOK
<1>7. Resolution * Filled <= Resolution * tokens + Resolution * Replenished
  <2>1. Resolution * (Filled + d) = Resolution * Filled + Resolution * d
    BY <1>5, Distributes
  <2>2. Resolution * (tokens + Replenished)
          = Resolution * tokens + Resolution * Replenished
    BY <1>3, Distributes DEF TypeOK
  <2>3. Resolution * d \in Nat /\ Resolution * Filled \in Nat
    BY <1>5, Product
  <2> QED
    BY <1>6, <2>1, <2>2, <2>3
<1>8. /\ Resolution * Filled \in Nat /\ Resolution * tokens \in Nat
      /\ Resolution * Replenished \in Nat
      /\ Rate * updated_at \in Nat /\ Rate * now \in Nat
  BY <1>3, <1>5, Product DEF TypeOK
<1> HIDE DEF e
<1> QED
  BY <1>2, <1>3, <1>4, <1>5, <1>7, <1>8

\* The delay earns at least the tokens that are missing.
LEMMA DelayBound ==
  ASSUME TypeOK, BucketIsCurrent, ended = "no", NEW bytes \in Nat
  PROVE  /\ Delay(bytes) \in Nat
         /\ bytes <= Filled => Delay(bytes) = 0
         /\ bytes > Filled =>
              Resolution * bytes <= Resolution * Filled + Rate * Delay(bytes)
<1> USE PolicyAssumption
<1>1. Filled \in Nat
  BY FilledBound
<1>2. CASE bytes <= Filled
  BY <1>1, <1>2 DEF Delay
<1>3. CASE bytes > Filled
  <2> DEFINE m == bytes - Filled
  <2>1. m \in Nat /\ bytes = Filled + m
    BY <1>1, <1>3
  <2>2. m * Resolution = Resolution * m /\ Resolution * m \in Nat
    BY <2>1, Product, Commutes
  <2>3. Delay(bytes) = (m * Resolution + Rate - 1) \div Rate
    BY <1>1, <1>3 DEF Delay
  <2>4. Delay(bytes) \in Nat /\ Resolution * m <= Rate * Delay(bytes)
    BY <2>2, <2>3, CeilingBound
  <2>5. Resolution * bytes = Resolution * Filled + Resolution * m
    BY <1>1, <2>1, Distributes
  <2>6. Resolution * Filled \in Nat /\ Rate * Delay(bytes) \in Nat
    BY <1>1, <2>4, Product
  <2> HIDE DEF m
  <2> QED
    BY <1>1, <1>3, <2>2, <2>4, <2>5, <2>6
<1> QED
  BY <1>1, <1>2, <1>3

\* Taking bytes keeps the account: in both branches of TokenBucket::reserve
\* the bytes are paid for by the tokens held and by the time of the wait.
LEMMA TakeKeepsAccount ==
  ASSUME TypeOK, BucketIsCurrent, Account, ended = "no",
         NEW bytes \in Nat, Take(bytes)
  PROVE  /\ tokens' \in 0 .. Capacity
         /\ updated_at' \in Nat
         /\ Resolution * ((transferred + bytes) + tokens')
              <= Resolution * Capacity + Rate * updated_at'
<1> USE PolicyAssumption
<1>1. /\ now \in Nat /\ tokens \in Nat /\ updated_at \in Nat
      /\ transferred \in Nat
  BY DEF TypeOK
<1>2. Filled \in 0 .. Capacity
  BY FilledBound
<1>3. Delay(bytes) \in Nat
  BY DelayBound
<1>4. updated_at' = now + Delay(bytes)
  BY DEF Take
<1>5. Resolution * transferred + Resolution * tokens
        <= Resolution * Capacity + Rate * updated_at
  BY <1>1, Distributes DEF Account
<1>6. Resolution * transferred + Resolution * Filled
        <= Resolution * Capacity + Rate * now
  <2>1. Resolution * Filled
          <= Resolution * tokens + Rate * now - Rate * updated_at
    BY FilledBound
  <2>2. /\ Resolution * transferred \in Nat /\ Resolution * tokens \in Nat
        /\ Resolution * Filled \in Nat /\ Resolution * Capacity \in Nat
        /\ Rate * now \in Nat /\ Rate * updated_at \in Nat
    BY <1>1, <1>2, Product
  <2> QED
    BY <1>5, <2>1, <2>2
<1>7. CASE bytes <= Filled
  <2>1. tokens' = Filled - bytes /\ Delay(bytes) = 0
    BY <1>7, <1>2, DelayBound DEF Take
  <2>2. (transferred + bytes) + tokens' = transferred + Filled
    BY <1>1, <1>2, <2>1
  <2>3. Resolution * (transferred + Filled)
          = Resolution * transferred + Resolution * Filled
    BY <1>1, <1>2, Distributes
  <2>4. updated_at' = now
    BY <1>1, <1>4, <2>1
  <2> QED
    BY <1>1, <1>2, <1>6, <1>7, <2>1, <2>2, <2>3, <2>4
<1>8. CASE bytes > Filled
  <2>1. tokens' = 0
    BY <1>8, <1>2 DEF Take
  <2>2. Resolution * bytes <= Resolution * Filled + Rate * Delay(bytes)
    BY <1>8, DelayBound
  <2>3. (transferred + bytes) + tokens' = transferred + bytes
    BY <1>1, <2>1
  <2>4. Resolution * (transferred + bytes)
          = Resolution * transferred + Resolution * bytes
    BY <1>1, Distributes
  <2>5. Rate * updated_at' = Rate * now + Rate * Delay(bytes)
    BY <1>1, <1>3, <1>4, Distributes
  <2>6. /\ Resolution * transferred \in Nat /\ Resolution * bytes \in Nat
        /\ Resolution * Filled \in Nat /\ Resolution * Capacity \in Nat
        /\ Rate * now \in Nat /\ Rate * Delay(bytes) \in Nat
    BY <1>1, <1>2, <1>3, Product
  <2>7. Resolution * transferred + Resolution * bytes
          <= Resolution * Capacity + (Rate * now + Rate * Delay(bytes))
    BY <1>6, <2>2, <2>6
  <2>8. tokens' \in 0 .. Capacity /\ updated_at' \in Nat
    BY <1>1, <1>3, <1>4, <2>1
  <2> QED
    BY <2>3, <2>4, <2>5, <2>7, <2>8
<1> QED
  BY <1>2, <1>7, <1>8

\* What the bucket holds and what it spilled when reserve comes to take from
\* it: no less than it held plus what the rate has earned, but for the rounding.
LEMMA FilledGrants ==
  ASSUME TypeOK, BucketIsCurrent, ended = "no"
  PROVE  /\ tokens + Replenished - Filled \in Nat
         /\ Resolution * Filled + Resolution * (tokens + Replenished - Filled)
              + (IF Elapsed = 0 THEN 0 ELSE Resolution - 1)
              >= Resolution * tokens + Rate * now - Rate * updated_at
<1> USE PolicyAssumption
<1> DEFINE e == now - updated_at
           d == tokens + Replenished - Filled
<1>1. e \in Nat /\ Elapsed = e /\ now = updated_at + e
  BY DEF Elapsed, TypeOK, BucketIsCurrent
<1>2. Elapsed * Rate = Rate * e /\ Rate * e \in Nat
  BY <1>1, Product, Commutes
<1>3. Replenished \in Nat /\ Rate * e <= Resolution * Replenished + (Resolution - 1)
  BY <1>1, <1>2, FloorBound DEF Replenished
<1>4. Rate * now = Rate * updated_at + Rate * e
  BY <1>1, Distributes DEF TypeOK
<1>5. d \in Nat /\ Filled \in Nat /\ Filled + d = tokens + Replenished
  BY <1>3 DEF Filled, TypeOK
<1>6. Resolution * Filled + Resolution * d = Resolution * tokens + Resolution * Replenished
  BY <1>3, <1>5, Distributes DEF TypeOK
<1>7. /\ Resolution * Filled \in Nat /\ Resolution * d \in Nat
      /\ Resolution * tokens \in Nat /\ Resolution * Replenished \in Nat
      /\ Rate * updated_at \in Nat /\ Rate * now \in Nat
  BY <1>3, <1>5, Product DEF TypeOK
<1>8. Rate * e <= Resolution * Replenished + (IF Elapsed = 0 THEN 0 ELSE Resolution - 1)
  <2>1. CASE e = 0
    <3>1. Rate * e = 0
      BY <2>1
    <3> QED
      BY <1>1, <1>7, <2>1, <3>1
  <2>2. CASE e # 0
    BY <1>1, <1>3, <2>2
  <2> QED
    BY <2>1, <2>2
<1>9. (IF Elapsed = 0 THEN 0 ELSE Resolution - 1) \in Nat
  OBVIOUS
<1>10. d = tokens + Replenished - Filled
  OBVIOUS
<1> HIDE DEF e, d
<1> QED
  BY <1>2, <1>4, <1>5, <1>6, <1>7, <1>8, <1>9, <1>10

\* The delay earns the tokens that are missing, but for the rounding.
LEMMA DelayGrants ==
  ASSUME TypeOK, BucketIsCurrent, ended = "no", NEW bytes \in Nat, bytes > Filled
  PROVE  /\ Delay(bytes) # 0
         /\ Rate * Delay(bytes) <= Resolution * bytes - Resolution * Filled + (Rate - 1)
<1> USE PolicyAssumption
<1>1. Filled \in Nat
  BY FilledBound
<1> DEFINE m == bytes - Filled
<1>2. m \in Nat \ {0} /\ bytes = Filled + m
  BY <1>1
<1>3. m * Resolution = Resolution * m /\ Resolution * m \in Nat \ {0}
  BY <1>2, Product, Commutes
<1>4. Delay(bytes) = (m * Resolution + Rate - 1) \div Rate
  BY <1>1 DEF Delay
<1>5. /\ Delay(bytes) \in Nat
      /\ Resolution * m <= Rate * Delay(bytes)
      /\ Rate * Delay(bytes) <= Resolution * m + (Rate - 1)
  BY <1>3, <1>4, CeilingBound
<1>6. Resolution * bytes = Resolution * Filled + Resolution * m
  BY <1>1, <1>2, Distributes
<1>7. Resolution * Filled \in Nat /\ Rate * Delay(bytes) \in Nat
  BY <1>1, <1>5, Product
<1>8. Delay(bytes) # 0
  <2>1. Rate * 0 = 0
    OBVIOUS
  <2> QED
    BY <1>3, <1>5, <2>1
<1> HIDE DEF m
<1> QED
  BY <1>3, <1>5, <1>6, <1>7, <1>8

\* A reserve costs the session no more than Loss: in both branches of
\* TokenBucket::reserve the tokens held and the time of the wait are worth the
\* bytes and no more.
LEMMA TakeGrants ==
  ASSUME TypeOK, BucketIsCurrent, RateIsGranted, ended = "no",
         NEW bytes \in Nat, Take(bytes)
  PROVE  /\ Loss(bytes) \in Nat
         /\ Resolution * ((transferred + bytes) + tokens') + (lost + Loss(bytes))
              >= Resolution * Capacity + Rate * updated_at'
<1> USE PolicyAssumption
<1> DEFINE spilled == Resolution * (tokens + Replenished - Filled)
           floor   == IF Elapsed = 0 THEN 0 ELSE Resolution - 1
           ceiling == IF Delay(bytes) = 0 THEN 0 ELSE Rate - 1
<1>1. /\ now \in Nat /\ tokens \in Nat /\ updated_at \in Nat
      /\ transferred \in Nat /\ lost \in Nat
  BY DEF TypeOK
<1>2. Filled \in 0 .. Capacity /\ Filled \in Nat
  BY FilledBound
<1>3. Delay(bytes) \in Nat
  BY DelayBound
<1>4. updated_at' = now + Delay(bytes)
  BY DEF Take
<1>5. /\ spilled \in Nat /\ floor \in Nat /\ ceiling \in Nat
      /\ Loss(bytes) = spilled + floor + ceiling
  BY FilledGrants, Product DEF Loss
<1>6. Resolution * Filled + spilled + floor
        >= Resolution * tokens + Rate * now - Rate * updated_at
  BY FilledGrants
<1>7. ceiling = IF Delay(bytes) = 0 THEN 0 ELSE Rate - 1
  OBVIOUS
<1> HIDE DEF spilled, floor, ceiling
<1>8. Resolution * transferred + Resolution * tokens + lost
        >= Resolution * Capacity + Rate * updated_at
  BY <1>1, Distributes DEF RateIsGranted
<1>9. /\ Resolution * transferred \in Nat /\ Resolution * tokens \in Nat
      /\ Resolution * Filled \in Nat /\ Resolution * Capacity \in Nat
      /\ Resolution * bytes \in Nat
      /\ Rate * now \in Nat /\ Rate * updated_at \in Nat
      /\ Rate * Delay(bytes) \in Nat
  BY <1>1, <1>2, <1>3, Product
<1>10. Resolution * transferred + Resolution * Filled + lost + spilled + floor
         >= Resolution * Capacity + Rate * now
  BY <1>1, <1>5, <1>6, <1>8, <1>9
<1>11. CASE bytes <= Filled
  <2>1. tokens' = Filled - bytes /\ Delay(bytes) = 0
    BY <1>2, <1>11, DelayBound DEF Take
  <2>2. (transferred + bytes) + tokens' = transferred + Filled /\ updated_at' = now
    BY <1>1, <1>2, <1>4, <2>1
  <2>3. Resolution * (transferred + Filled)
          = Resolution * transferred + Resolution * Filled
    BY <1>1, <1>2, Distributes
  <2> QED
    BY <1>1, <1>5, <1>9, <1>10, <2>2, <2>3
<1>12. CASE bytes > Filled
  <2>1. tokens' = 0
    BY <1>2, <1>12 DEF Take
  <2>2. (transferred + bytes) + tokens' = transferred + bytes
    BY <1>1, <2>1
  <2>3. Resolution * (transferred + bytes)
          = Resolution * transferred + Resolution * bytes
    BY <1>1, Distributes
  <2>4. Rate * updated_at' = Rate * now + Rate * Delay(bytes)
    BY <1>1, <1>3, <1>4, Distributes
  <2>5. Rate * Delay(bytes) <= Resolution * bytes - Resolution * Filled + ceiling
    BY <1>7, <1>12, DelayGrants
  <2> QED
    BY <1>1, <1>5, <1>9, <1>10, <2>2, <2>3, <2>4, <2>5
<1> QED
  BY <1>2, <1>5, <1>11, <1>12

\* IInv is inductive.  Account is what makes it so: ShapedToRate alone says
\* nothing of the tokens a session has saved up.
THEOREM Inductive == Spec => []IInv
<1> USE PolicyAssumption
<1>1. Init => IInv
  <2> SUFFICES ASSUME Init PROVE IInv
    OBVIOUS
  <2>1. Resolution * Capacity \in Nat /\ Rate * 0 = 0 /\ Resolution * 0 = 0
    BY Product
  <2> QED
    BY <2>1 DEF Init, IInv, TypeOK, BucketIsCurrent, Account, ShapedToRate
<1>2. IInv /\ [Next]_vars => IInv'
  <2> SUFFICES ASSUME IInv, [Next]_vars PROVE IInv'
    OBVIOUS
  <2>0. TypeOK /\ BucketIsCurrent /\ Account /\ ShapedToRate
    BY DEF IInv
  <2>1. ASSUME NEW bytes \in Sizes, Pass(bytes)
        PROVE  IInv'
    <3>0. bytes \in Nat /\ ended = "no" /\ ended' = "no"
      BY <2>1 DEF Pass
    <3>1. Delay(bytes) \in Nat
      BY <2>0, <3>0, DelayBound
    <3>2. /\ now' = now + Delay(bytes) /\ updated_at' = now'
          /\ transferred' = transferred + bytes
      BY <2>1 DEF Pass, Take
    <3>3. /\ tokens' \in 0 .. Capacity
          /\ Resolution * (transferred' + tokens')
               <= Resolution * Capacity + Rate * updated_at'
      BY <2>0, <2>1, <3>0, <3>2, TakeKeepsAccount DEF Pass
    <3>10. lost' \in Nat
      <4>1. Loss(bytes) \in Nat
        BY <2>0, <3>0, <3>1, FilledGrants, Product DEF Loss
      <4> QED
        BY <2>0, <2>1, <4>1 DEF Pass, TypeOK
    <3>4. TypeOK'
      BY <2>0, <3>0, <3>1, <3>2, <3>3, <3>10 DEF TypeOK
    <3>5. now' \in Nat /\ tokens' \in Nat /\ transferred' \in Nat
      <4>1. now' \in Nat /\ transferred' \in Nat
        BY <3>4 DEF TypeOK
      <4> QED
        BY <3>3, <4>1
    <3>6. BucketIsCurrent'
      BY <3>2, <3>5 DEF BucketIsCurrent
    <3>7. Account'
      BY <3>3 DEF Account
    <3>8. ShapedToRate'
      <4>1. Resolution * (transferred' + tokens')
              = Resolution * transferred' + Resolution * tokens'
        BY <3>5, Distributes
      <4>2. /\ Resolution * transferred' \in Nat
            /\ Resolution * tokens' \in Nat
            /\ Rate * now' \in Nat /\ Resolution * Capacity \in Nat
        BY <3>5, Product
      <4> QED
        BY <3>2, <3>3, <4>1, <4>2 DEF ShapedToRate
    <3> QED
      BY <3>4, <3>6, <3>7, <3>8 DEF IInv
  <2>2. ASSUME NEW bytes \in Sizes, RefuseOverQuota(bytes)
        PROVE  IInv'
    BY <2>0, <2>2 DEF RefuseOverQuota, IInv, TypeOK, BucketIsCurrent, Account,
                      ShapedToRate
  <2>3. ASSUME NEW bytes \in Sizes, RefuseTooLate(bytes)
        PROVE  IInv'
    <3>1. tokens' \in 0 .. Capacity /\ updated_at' \in Nat
      BY <2>0, <2>3, TakeKeepsAccount DEF RefuseTooLate
    <3> QED
      BY <2>0, <2>3, <3>1 DEF RefuseTooLate, IInv, TypeOK, BucketIsCurrent,
                              Account, ShapedToRate
  <2>4. CASE Expire
    BY <2>0, <2>4 DEF Expire, IInv, TypeOK, BucketIsCurrent, Account,
                      ShapedToRate
  <2>5. CASE Tick
    <3>0. now \in Int /\ Rate \in Int /\ Rate * 1 = Rate
      <4>1. now \in Nat
        BY <2>0 DEF TypeOK
      <4>2. Rate \in Int
        BY ONLY PolicyAssumption
      <4>3. Rate * 1 = Rate
        BY ONLY <4>2
      <4> QED
        BY ONLY <4>1, <4>2, <4>3
    <3>1. Rate * (now + 1) = Rate * now + Rate
      <4>1. Rate * (now + 1) = Rate * now + Rate * 1
        BY ONLY <3>0, Distributes
      <4> QED
        BY ONLY <3>0, <4>1
    <3>2. /\ Rate * now \in Nat /\ Resolution * Capacity \in Nat
          /\ Resolution * transferred \in Nat
      BY <2>0, Product DEF TypeOK
    <3>3. ShapedToRate'
      BY <2>0, <2>5, <3>1, <3>2 DEF Tick, ShapedToRate
    <3> QED
      BY <2>0, <2>5, <3>3 DEF Tick, IInv, TypeOK, BucketIsCurrent, Account
  <2>6. CASE UNCHANGED vars
    BY <2>0, <2>6 DEF vars, IInv, TypeOK, BucketIsCurrent, Account,
                      ShapedToRate
  <2> QED
    BY <2>1, <2>2, <2>3, <2>4, <2>5, <2>6 DEF Next
<1> QED
  BY <1>1, <1>2, PTL DEF Spec

\* No session ever gets more than its burst plus its rate times the time that
\* has passed (TokenBucket::reserve).
THEOREM Shaped == Spec => []ShapedToRate
<1>1. IInv => ShapedToRate
  BY DEF IInv
<1> QED
  BY <1>1, Inductive, PTL

\* A session that always has traffic gets its burst and its rate, less only what
\* a full bucket spilled and less than a token and a unit of time for every
\* reserve (TokenBucket::reserve).
THEOREM RateGranted == Spec => []RateIsGranted
<1> USE PolicyAssumption
<1>1. Init => RateIsGranted
  <2> SUFFICES ASSUME Init PROVE RateIsGranted
    OBVIOUS
  <2>1. Resolution * Capacity \in Nat /\ Rate * 0 = 0
    BY Product
  <2> QED
    BY <2>1 DEF Init, RateIsGranted
<1>2. IInv /\ RateIsGranted /\ [Next]_vars => RateIsGranted'
  <2> SUFFICES ASSUME IInv, RateIsGranted, [Next]_vars PROVE RateIsGranted'
    OBVIOUS
  <2>1. ASSUME NEW bytes \in Sizes, Pass(bytes) PROVE RateIsGranted'
    <3>1. bytes \in Nat /\ ended = "no" /\ Take(bytes)
      BY <2>1 DEF Pass
    <3>2. transferred' = transferred + bytes /\ lost' = lost + Loss(bytes)
      BY <2>1 DEF Pass
    <3>3. Resolution * ((transferred + bytes) + tokens') + (lost + Loss(bytes))
            >= Resolution * Capacity + Rate * updated_at'
      BY <3>1, TakeGrants DEF IInv
    <3> QED
      BY <3>2, <3>3 DEF RateIsGranted
  <2>2. ASSUME NEW bytes \in Sizes, RefuseOverQuota(bytes) PROVE RateIsGranted'
    BY <2>2 DEF RefuseOverQuota, RateIsGranted
  <2>3. ASSUME NEW bytes \in Sizes, RefuseTooLate(bytes) PROVE RateIsGranted'
    BY <2>3 DEF RefuseTooLate, RateIsGranted
  <2>4. CASE Expire
    BY <2>4 DEF Expire, RateIsGranted
  <2>5. CASE Tick
    BY <2>5 DEF Tick, RateIsGranted
  <2>6. CASE UNCHANGED vars
    BY <2>6 DEF vars, RateIsGranted
  <2> QED
    BY <2>1, <2>2, <2>3, <2>4, <2>5, <2>6 DEF Next
<1> QED
  BY <1>1, <1>2, Inductive, PTL DEF Spec
=============================================================================
