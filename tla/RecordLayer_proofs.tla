------------------------- MODULE RecordLayer_proofs -------------------------
(***************************************************************************)
(* The replay window is right for every width, hard limit and number       *)
(* range: IInv is inductive, and with it every step of the code's window   *)
(* is a step of AntiReplay.                                                *)
(***************************************************************************)
EXTENDS RecordLayer, TLAPS

(* Arithmetic of the circular bitmap.                                      *)

\* Multiples of W are at least W apart.
LEMMA QuotientGap ==
  ASSUME NEW W \in Nat \ {0}, NEW p \in Int, NEW q \in Int, p < q
  PROVE  W * p + W <= W * q
<1>1. PICK d \in Nat : q = p + 1 + d
  <2>1. q - p - 1 \in Nat /\ q = p + 1 + (q - p - 1)
    OBVIOUS
  <2> QED
    BY <2>1
<1>2. W * q = W * p + W + W * d
  BY <1>1
<1>3. W * d >= 0
  OBVIOUS
<1> QED
  BY <1>2, <1>3

\* Two numbers less than Width apart share a slot of ReplayWindow::slot only
\* when they are equal.
LEMMA SlotInjective ==
  ASSUME NEW a \in Nat, NEW b \in Nat,
         a <= b, b < a + Width, Slot(a) = Slot(b)
  PROVE  a = b
<1> DEFINE p == a \div Width
           q == b \div Width
<1>0. Width \in Nat \ {0}
  BY RecordLayerAssumption
<1>1. p \in Int /\ q \in Int
  BY <1>0
<1>2. a = Width * p + Slot(a) /\ b = Width * q + Slot(b)
  BY <1>0 DEF Slot
<1>3. Slot(a) \in Int
  BY <1>0 DEF Slot
<1>4. ~(p < q)
  <2> SUFFICES ASSUME p < q PROVE FALSE
    OBVIOUS
  <2>1. Width * p + Width <= Width * q
    BY <1>0, <1>1, QuotientGap
  <2> HIDE DEF p, q
  <2> QED
    BY <1>0, <1>1, <1>2, <1>3, <2>1
<1>5. ~(q < p)
  <2> SUFFICES ASSUME q < p PROVE FALSE
    OBVIOUS
  <2>1. Width * q + Width <= Width * p
    BY <1>0, <1>1, QuotientGap
  <2> HIDE DEF p, q
  <2> QED
    BY <1>0, <1>1, <1>2, <1>3, <2>1
<1>6. p = q
  BY <1>1, <1>4, <1>5
<1> QED
  BY <1>2, <1>6

\* Every number has a bit.
LEMMA SlotType ==
  ASSUME NEW a \in Nat
  PROVE  Slot(a) \in 0 .. Width - 1
BY RecordLayerAssumption DEF Slot

\* SaturatingAdd never saturates for a number the sender can hand out.
LEMMA NoSaturation ==
  ASSUME NEW n \in Number
  PROVE  SaturatingAdd(n, Width) = n + Width
BY RecordLayerAssumption DEF SaturatingAdd, Number

-----------------------------------------------------------------------------
(* The window's answers.                                                   *)

\* plausible() says exactly whether a number the sender can hand out is new
\* and inside the window.
LEMMA PlausibleMeaning ==
  ASSUME IInv, NEW n \in Number
  PROVE  Plausible(n) <=>
           \/ ~initialized
           \/ n > highest
           \/ highest < n + Width /\ opened[n] = 0
<1>1. SaturatingAdd(n, Width) = n + Width
  BY NoSaturation
<1>2. n \in Nat /\ highest \in Nat /\ Width \in Nat \ {0} /\ opened[n] \in Nat
  BY RecordLayerAssumption DEF IInv, TypeOK, Number
<1>3. CASE ~initialized
  BY <1>3 DEF Plausible
<1>4. CASE initialized /\ n > highest
  BY <1>1, <1>2, <1>4 DEF Plausible
<1>5. CASE initialized /\ n <= highest /\ highest < n + Width
  <2>1. Slot(n) \in bits <=> opened[n] > 0
    BY <1>5 DEF IInv, BitsTellOpened
  <2> QED
    BY <1>1, <1>2, <1>5, <2>1 DEF Plausible
<1>6. CASE initialized /\ n + Width <= highest
  BY <1>1, <1>2, <1>6 DEF Plausible
<1> QED
  BY <1>2, <1>3, <1>4, <1>5, <1>6

\* A plausible number was never opened, and after the window has moved its own
\* bit is clear: the second test of commit_authenticated never fires.
LEMMA PlausibleIsNew ==
  ASSUME IInv, NEW n \in Number, Plausible(n)
  PROVE  opened[n] = 0 /\ Committed(n)
<1>1. n \in Nat /\ highest \in Nat /\ Width \in Nat \ {0} /\ opened[n] \in Nat
  BY RecordLayerAssumption DEF IInv, TypeOK, Number
<1>2. \/ ~initialized
      \/ initialized /\ n > highest
      \/ initialized /\ n <= highest /\ highest < n + Width /\ opened[n] = 0
  BY <1>1, PlausibleMeaning
<1>3. CASE ~initialized
  BY <1>1, <1>3
    DEF IInv, HighestIsOpened, BitsTellOpened, Committed, Advanced
<1>4. CASE initialized /\ n > highest
  <2>1. opened[n] = 0
    BY <1>1, <1>4 DEF IInv, HighestIsOpened
  <2>2. Slot(n) \notin Cleared(n)
    BY <1>1, <1>4 DEF Cleared
  <2> QED
    BY <1>4, <2>1, <2>2 DEF Committed, Advanced
<1>5. CASE initialized /\ n <= highest /\ highest < n + Width /\ opened[n] = 0
  BY <1>1, <1>5 DEF IInv, BitsTellOpened, Committed, Advanced
<1> QED
  BY <1>2, <1>3, <1>4, <1>5

-----------------------------------------------------------------------------
(* IInv is inductive.                                                      *)

\* The step that matters: opening a record keeps the bitmap right.
LEMMA OpenPreserves ==
  ASSUME IInv, NEW n \in Number, Open(n)
  PROVE  IInv'
<1>1. /\ n \in Nat /\ highest \in Nat /\ highest \in Number
      /\ Width \in Nat \ {0} /\ HardLimit \in Nat
      /\ opened \in [Number -> Nat] /\ bits \subseteq 0 .. Width - 1
      /\ n \in HeaderNumber
  BY RecordLayerAssumption DEF IInv, TypeOK, Number, HeaderNumber
<1>2. opened[n] = 0 /\ Committed(n)
  BY PlausibleIsNew DEF Open
<1>3. opened' = [opened EXCEPT ![n] = 1]
  BY <1>1, <1>2 DEF Open
<1>4. /\ initialized' = TRUE
      /\ highest' = IF initialized /\ n <= highest THEN highest ELSE n
      /\ bits' = Advanced(n) \cup {Slot(n)}
      /\ verdict' = Verdict(n, TRUE, TRUE)
      /\ next_number' = next_number
  BY <1>2 DEF Open, CommitAuthenticated
<1>5. TypeOK'
  <2>1. bits' \subseteq 0 .. Width - 1
    BY <1>1, <1>4, SlotType DEF Advanced, Cleared
  <2>2. opened' \in [Number -> Nat]
    BY <1>1, <1>3
  <2>3. next_number' \in 0 .. HardLimit /\ highest' \in Number
    BY <1>1, <1>4 DEF IInv, TypeOK
  <2>4. verdict' \in [number : HeaderNumber, genuine : BOOLEAN, accepted : BOOLEAN]
    BY <1>1, <1>4 DEF Verdict
  <2> QED
    BY <1>4, <2>1, <2>2, <2>3, <2>4 DEF TypeOK
<1>6. OpenedAtMostOnce'
  BY <1>1, <1>3 DEF IInv, OpenedAtMostOnce
<1>7. HighestIsOpened'
  <2>1. opened'[highest'] > 0
    BY <1>1, <1>3, <1>4 DEF IInv, HighestIsOpened
  <2>2. ASSUME NEW m \in Number, opened'[m] > 0
        PROVE  m <= highest'
    <3>1. m \in Nat
      BY <1>1 DEF Number
    <3>2. CASE m = n
      BY <1>1, <1>4, <3>2
    <3>3. CASE m # n
      <4>1. initialized /\ m <= highest
        BY <1>1, <1>3, <2>2, <3>3 DEF IInv, HighestIsOpened
      <4> QED
        BY <1>1, <1>4, <3>1, <4>1
    <3> QED
      BY <3>2, <3>3
  <2> QED
    BY <1>4, <2>1, <2>2 DEF HighestIsOpened
<1>8. BitsTellOpened'
  <2> SUFFICES ASSUME NEW m \in Number, m <= highest', highest' < m + Width
               PROVE  Slot(m) \in bits' <=> opened'[m] > 0
    BY <1>4 DEF BitsTellOpened, Slot
  <2>1. m \in Nat /\ n <= highest' /\ highest' \in Nat
    BY <1>1, <1>4 DEF Number
  <2>2. CASE m = n
    BY <1>1, <1>3, <1>4, <2>2
  <2>3. CASE m # n
    <3>1. opened'[m] = opened[m]
      BY <1>1, <1>3, <2>3
    <3>2. CASE ~initialized
      <4>1. highest' = n /\ bits' = {Slot(n)} /\ opened[m] = 0
        <5>1. bits = {}
          BY <3>2 DEF IInv, BitsTellOpened
        <5>2. opened[m] = 0
          BY <1>1, <3>2 DEF IInv, HighestIsOpened
        <5> QED
          BY <1>4, <3>2, <5>1, <5>2 DEF Advanced
      <4>2. Slot(m) # Slot(n)
        BY <1>1, <2>1, <2>3, <4>1, SlotInjective
      <4> QED
        BY <3>1, <4>1, <4>2
    <3>3. CASE initialized /\ n <= highest
      <4>1. highest' = highest /\ bits' = bits \cup {Slot(n)}
        BY <1>1, <1>4, <3>3 DEF Advanced
      <4>2. Slot(m) \in bits <=> opened[m] > 0
        BY <3>3, <4>1 DEF IInv, BitsTellOpened
      <4>3. highest < n + Width
        BY <1>1, <3>3, PlausibleMeaning DEF Open
      <4>4. Slot(m) # Slot(n)
        <5>1. CASE m < n
          BY <1>1, <2>1, <2>3, <3>3, <4>1, <5>1, SlotInjective
        <5>2. CASE n < m
          BY <1>1, <2>1, <2>3, <3>3, <4>1, <4>3, <5>2, SlotInjective
        <5> QED
          BY <1>1, <2>1, <2>3, <5>1, <5>2
      <4> QED
        BY <3>1, <4>1, <4>2, <4>4
    <3>4. CASE initialized /\ n > highest
      <4>1. highest' = n /\ bits' = Cleared(n) \cup {Slot(n)}
        BY <1>1, <1>4, <3>4 DEF Advanced
      <4>2. Slot(m) # Slot(n)
        BY <1>1, <2>1, <2>3, <4>1, SlotInjective
      <4>3. CASE m > highest
        <5>1. opened[m] = 0
          BY <1>1, <2>1, <4>3 DEF IInv, HighestIsOpened, TypeOK
        <5>2. m \in highest + 1 .. n
          BY <1>1, <2>1, <4>1, <4>3
        <5>3. Slot(m) \notin Cleared(n)
          BY <5>2 DEF Cleared
        <5> QED
          BY <3>1, <4>1, <4>2, <5>1, <5>3
      <4>4. CASE m <= highest
        <5>1. n - highest < Width /\ highest < m + Width
          BY <1>1, <2>1, <3>4, <4>1, <4>4
        <5>2. Slot(m) \in bits <=> opened[m] > 0
          BY <3>4, <4>4, <5>1 DEF IInv, BitsTellOpened
        <5>3. ASSUME NEW c \in highest + 1 .. n
              PROVE  Slot(c) # Slot(m)
          <6>1. c \in Nat /\ m < c /\ c < m + Width
            BY <1>1, <2>1, <4>1, <4>4
          <6> QED
            BY <2>1, <6>1, SlotInjective
        <5>4. Slot(m) \in Cleared(n) <=> Slot(m) \in bits
          BY <1>1, <5>1, <5>3 DEF Cleared
        <5> QED
          BY <3>1, <4>1, <4>2, <5>2, <5>4
      <4> QED
        BY <1>1, <2>1, <4>3, <4>4
    <3> QED
      BY <1>1, <3>2, <3>3, <3>4
  <2> QED
    BY <2>2, <2>3
<1> QED
  BY <1>5, <1>6, <1>7, <1>8 DEF IInv

\* IInv holds in every reachable state of the record layer.
THEOREM Inductive == Spec => []IInv
<1>1. Init => IInv
  <2> SUFFICES ASSUME Init PROVE IInv
    OBVIOUS
  <2>1. 0 \in Number /\ 0 \in HeaderNumber /\ 0 \in 0 .. HardLimit
    BY RecordLayerAssumption DEF Number, HeaderNumber
  <2>2. opened \in [Number -> Nat] /\ \A n \in Number : opened[n] = 0
    BY DEF Init
  <2>3. TypeOK
    BY <2>1, <2>2 DEF Init, TypeOK, Verdict
  <2>4. OpenedAtMostOnce /\ HighestIsOpened /\ BitsTellOpened
    BY <2>2 DEF Init, OpenedAtMostOnce, HighestIsOpened, BitsTellOpened
  <2> QED
    BY <2>3, <2>4 DEF IInv
<1>2. IInv /\ [Next]_vars => IInv'
  <2> SUFFICES ASSUME IInv, [Next]_vars
               PROVE  IInv'
    OBVIOUS
  <2>1. CASE Seal
    BY <2>1, RecordLayerAssumption
      DEF Seal, IInv, TypeOK, OpenedAtMostOnce, HighestIsOpened,
          BitsTellOpened, Slot
  <2>2. ASSUME NEW n \in Number, Refuse(n)
        PROVE  IInv'
    <3>1. n \in HeaderNumber
      BY RecordLayerAssumption DEF Number, HeaderNumber
    <3> QED
      BY <2>2, <3>1
        DEF Refuse, Verdict, IInv, TypeOK, OpenedAtMostOnce,
            HighestIsOpened, BitsTellOpened, Slot
  <2>3. ASSUME NEW n \in Number, Open(n)
        PROVE  IInv'
    BY <2>3, OpenPreserves
  <2>4. ASSUME NEW n \in HeaderNumber, Forge(n)
        PROVE  IInv'
    BY <2>4
      DEF Forge, Verdict, IInv, TypeOK, OpenedAtMostOnce,
          HighestIsOpened, BitsTellOpened, Slot
  <2>5. CASE UNCHANGED vars
    BY <2>5
      DEF vars, IInv, TypeOK, OpenedAtMostOnce, HighestIsOpened,
          BitsTellOpened, Slot
  <2> QED
    BY <2>1, <2>2, <2>3, <2>4, <2>5 DEF Next
<1> QED
  BY <1>1, <1>2, PTL DEF Spec

\* Every variable of the sender and of the window keeps its type; in particular
\* the counter of RecordSender never passes the hard limit.
THEOREM TypeCorrect == Spec => []TypeOK
BY Inductive, PTL DEF IInv

\* No record's plaintext reaches the session twice, for every window width and
\* every order of delivery.
THEOREM AtMostOnce == Spec => []OpenedAtMostOnce
BY Inductive, PTL DEF IInv

\* The circular bitmap tells exactly what was opened inside the window.
THEOREM BitmapExact == Spec => []BitsTellOpened
BY Inductive, PTL DEF IInv

-----------------------------------------------------------------------------
(* Refinement.                                                             *)

\* Under IInv the code's precheck is the acceptance rule of AntiReplay.
LEMMA PlausibleIsAcceptable ==
  ASSUME IInv, NEW n \in Number
  PROVE  Plausible(n) <=> Abs!Acceptable(n)
<1>1. n \in Nat /\ highest \in Nat /\ highest \in Number /\ Width \in Nat \ {0}
  BY RecordLayerAssumption DEF IInv, TypeOK, Number
<1>2. Abs!Opened = {m \in Number : opened[m] > 0}
  BY DEF Abs!Opened, Abs!Number, Number
<1>3. \A m \in Number : m \in Nat /\ opened[m] \in Nat
  BY <1>1 DEF IInv, TypeOK, Number
<1>4. ~initialized => \A m \in Number : opened[m] = 0
  BY <1>3 DEF IInv, HighestIsOpened
<1>5. initialized =>
        opened[highest] > 0 /\ \A m \in Number : opened[m] > 0 => m <= highest
  BY DEF IInv, HighestIsOpened
<1>6. Plausible(n) <=>
        ~initialized \/ n > highest \/ (highest < n + Width /\ opened[n] = 0)
  BY PlausibleMeaning
<1>7. CASE ~initialized
  BY <1>2, <1>4, <1>6, <1>7 DEF Abs!Acceptable
<1>8. CASE initialized
  <2>1. Plausible(n) => Abs!Acceptable(n)
    BY <1>1, <1>2, <1>3, <1>5, <1>6, <1>8 DEF Abs!Acceptable
  <2>2. Abs!Acceptable(n) => highest < n + Width /\ opened[n] = 0
    BY <1>1, <1>2, <1>3, <1>5, <1>8 DEF Abs!Acceptable
  <2> QED
    BY <1>6, <2>1, <2>2
<1> QED
  BY <1>7, <1>8

\* The sender and the circular replay window implement AntiReplay: a genuine
\* record is accepted exactly when it is new and inside the window.
THEOREM Refinement == Spec => ImplementsAntiReplay
<1>1. Init => Abs!Init
  BY DEF Init, Abs!Init, Abs!Number, Number, Abs!NoVerdict, Verdict
<1>2. IInv /\ [Next]_vars => [Abs!Next]_(Abs!vars)
  <2> SUFFICES ASSUME IInv, [Next]_vars
               PROVE  Abs!Next \/ UNCHANGED Abs!vars
    OBVIOUS
  <2>0. Number = Abs!Number
    BY DEF Number, Abs!Number
  <2>1. CASE Seal
    BY <2>1, RecordLayerAssumption
      DEF Seal, Abs!Next, Abs!Seal, Abs!vars, IInv, TypeOK
  <2>2. ASSUME NEW n \in Number, Refuse(n)
        PROVE  Abs!Arrive(n)
    <3>1. ~Abs!Acceptable(n)
      BY <2>2, PlausibleIsAcceptable DEF Refuse
    <3>2. Abs!Acceptable(n) = FALSE
      BY <3>1 DEF Abs!Acceptable
    <3> QED
      BY <2>2, <3>1, <3>2 DEF Refuse, Abs!Arrive, Verdict, Abs!Verdict
  <2>3. ASSUME NEW n \in Number, Open(n)
        PROVE  Abs!Arrive(n)
    <3>1. Plausible(n) /\ Committed(n) /\ Abs!Acceptable(n)
      BY <2>3, PlausibleIsAcceptable, PlausibleIsNew DEF Open
    <3> QED
      BY <2>3, <3>1 DEF Open, Abs!Arrive, Verdict, Abs!Verdict
  <2>4. ASSUME NEW n \in HeaderNumber, Forge(n)
        PROVE  Abs!Forge(n)
    BY <2>4 DEF Forge, Abs!Forge, Verdict, Abs!Verdict
  <2>5. CASE UNCHANGED vars
    BY <2>5 DEF vars, Abs!vars
  <2> QED
    BY <2>0, <2>1, <2>2, <2>3, <2>4, <2>5
      DEF Next, Abs!Next, HeaderNumber
<1> QED
  BY <1>1, <1>2, Inductive, PTL DEF Spec, ImplementsAntiReplay, Abs!Spec
=============================================================================
