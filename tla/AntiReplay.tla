----------------------------- MODULE AntiReplay -----------------------------
(***************************************************************************)
(* What one direction of one epoch promises about record numbers, without  *)
(* any bitmap: the sender hands out 0, 1, 2, ... and stops at its hard     *)
(* limit; the receiver hands a record's plaintext to the session exactly   *)
(* when the record is genuine, was never handed over before and is less    *)
(* than Width behind the highest number handed over so far.  RecordLayer   *)
(* is the code's implementation of this.                                   *)
(***************************************************************************)
EXTENDS Integers

CONSTANTS
  Width,        \* numbers this far behind the highest one are too old
  HardLimit,    \* records one key may ever seal
  MaxNumber     \* the largest number a header can carry

VARIABLES
  next_number,  \* the next number the sender uses
  opened,       \* how often each sealed number's plaintext was handed over
  verdict       \* the last record the receiver looked at, and its answer

vars == <<next_number, opened, verdict>>

Number == 0 .. HardLimit - 1

NoVerdict == [number |-> 0, genuine |-> FALSE, accepted |-> FALSE]

Verdict(n, genuine, accepted) ==
  [number |-> n, genuine |-> genuine, accepted |-> accepted]

Opened == {n \in Number : opened[n] > 0}

\* The acceptance rule: new, and not Width or more behind the highest.
Acceptable(n) == n \notin Opened /\ \A m \in Opened : m < n + Width

Init ==
  /\ next_number = 0
  /\ opened = [n \in Number |-> 0]
  /\ verdict = NoVerdict

Seal ==
  /\ next_number < HardLimit
  /\ next_number' = next_number + 1
  /\ UNCHANGED <<opened, verdict>>

\* A genuine record arrives, whatever its order and for the how-manieth time.
Arrive(n) ==
  /\ n < next_number
  /\ verdict' = Verdict(n, TRUE, Acceptable(n))
  /\ opened' = IF Acceptable(n) THEN [opened EXCEPT ![n] = @ + 1] ELSE opened
  /\ UNCHANGED next_number

\* A record that was never sealed is refused and leaves no trace.
Forge(n) ==
  /\ verdict' = Verdict(n, FALSE, FALSE)
  /\ UNCHANGED <<next_number, opened>>

Next ==
  \/ Seal
  \/ \E n \in Number : Arrive(n)
  \/ \E n \in 0 .. MaxNumber : Forge(n)

Spec == Init /\ [][Next]_vars
=============================================================================
