----------------------------- MODULE RecordLayer ----------------------------
(***************************************************************************)
(* One direction of one epoch of the record layer: a RecordSender, the     *)
(* carriers between the peers, which may reorder records and show one      *)
(* twice (a draining and a fresh carrier run side by side during a         *)
(* migration), and a RecordReceiver with its ReplayWindow.                 *)
(*                                                                         *)
(* The Windows client's ReplayWindow (client_core.py) is the same          *)
(* algorithm on integers that do not saturate.                             *)
(*                                                                         *)
(* The window's words and masks are one set of bit positions.  A record is *)
(* its number: the AEAD accepts a record exactly when the sender sealed    *)
(* it, so a record is genuine if its number was handed out.                *)
(***************************************************************************)
EXTENDS Integers

CONSTANTS
  Width,        \* ReplayWindow.width
  HardLimit,    \* MAX_RECORDS_PER_EPOCH
  MaxNumber     \* u64::MAX

\* The real values are Width in 256..16384, HardLimit = 2^32 and
\* MaxNumber = 2^64 - 1.
ASSUME RecordLayerAssumption ==
  /\ Width \in Nat \ {0}
  /\ HardLimit \in Nat \ {0}
  /\ MaxNumber \in Nat
  /\ HardLimit + Width <= MaxNumber

VARIABLES
  next_number,  \* RecordSender.next_number
  initialized,  \* ReplayWindow.initialized
  highest,      \* ReplayWindow.highest
  bits,         \* ReplayWindow.bits, as the set of the positions that are 1
  opened,       \* history: how often open() returned each number's plaintext
  verdict       \* history: the record open() last looked at and its result

vars == <<next_number, initialized, highest, bits, opened, verdict>>

Number == 0 .. HardLimit - 1

HeaderNumber == 0 .. MaxNumber

Verdict(n, genuine, accepted) ==
  [number |-> n, genuine |-> genuine, accepted |-> accepted]

-----------------------------------------------------------------------------
(* ReplayWindow                                                            *)

SaturatingAdd(a, b) == IF a + b <= MaxNumber THEN a + b ELSE MaxNumber

Slot(n) == n % Width

\* Mutant: without the lower edge of the window.
PlausibleNoEdge(n) == ~initialized \/ n > highest \/ Slot(n) \notin bits

Plausible(n) ==
  \/ ~initialized
  \/ /\ ~(SaturatingAdd(n, Width) <= highest)
     /\ n > highest \/ Slot(n) \notin bits

\* Mutant: the loop starts one number late.
ClearedLate(n) ==
  IF n - highest >= Width
  THEN {}
  ELSE bits \ {Slot(c) : c \in highest + 2 .. n}

\* The bits after the window moved up to n: all of them go when the jump is at
\* least as wide as the window, else those of the numbers jumped over and n's.
Cleared(n) ==
  IF n - highest >= Width
  THEN {}
  ELSE bits \ {Slot(c) : c \in highest + 1 .. n}

\* The bits when commit_authenticated comes to test n's own one.
Advanced(n) == IF initialized /\ n > highest THEN Cleared(n) ELSE bits

Committed(n) == Slot(n) \notin Advanced(n)

CommitAuthenticated(n) ==
  /\ initialized' = TRUE
  /\ highest' = IF initialized /\ n <= highest THEN highest ELSE n
  /\ bits' = Advanced(n) \cup {Slot(n)}

-----------------------------------------------------------------------------
(* RecordSender and RecordReceiver                                         *)

Init ==
  /\ next_number = 0
  /\ initialized = FALSE
  /\ highest = 0
  /\ bits = {}
  /\ opened = [n \in Number |-> 0]
  /\ verdict = Verdict(0, FALSE, FALSE)

\* Mutant: the counter runs past the limit.
SealPastLimit ==
  /\ next_number' = next_number + 1
  /\ UNCHANGED <<initialized, highest, bits, opened, verdict>>

\* RecordSender::seal.  Past the limit it stores the limit back and fails.
Seal ==
  /\ next_number' = IF next_number >= HardLimit THEN HardLimit
                                                ELSE next_number + 1
  /\ UNCHANGED <<initialized, highest, bits, opened, verdict>>

\* RecordReceiver::open of a sealed record that fails the replay precheck.
Refuse(n) ==
  /\ n < next_number
  /\ ~Plausible(n)
  /\ verdict' = Verdict(n, TRUE, FALSE)
  /\ UNCHANGED <<next_number, initialized, highest, bits, opened>>

\* RecordReceiver::open of a sealed record that passes it.
Open(n) ==
  /\ n < next_number
  /\ Plausible(n)
  /\ CommitAuthenticated(n)
  /\ verdict' = Verdict(n, TRUE, Committed(n))
  /\ opened' = IF Committed(n) THEN [opened EXCEPT ![n] = @ + 1] ELSE opened
  /\ UNCHANGED next_number

\* Mutant: the window moves before the AEAD has authenticated the record.
ForgeMoves(n) ==
  /\ Plausible(n)
  /\ CommitAuthenticated(n)
  /\ verdict' = Verdict(n, FALSE, FALSE)
  /\ UNCHANGED <<next_number, opened>>

\* RecordReceiver::open of a record nobody sealed: whether the precheck or
\* the AEAD stops it, the window is left alone.
Forge(n) ==
  /\ verdict' = Verdict(n, FALSE, FALSE)
  /\ UNCHANGED <<next_number, initialized, highest, bits, opened>>

Next ==
  \/ Seal
  \/ \E n \in Number : Refuse(n)
  \/ \E n \in Number : Open(n)
  \/ \E n \in HeaderNumber : Forge(n)

Spec == Init /\ [][Next]_vars

-----------------------------------------------------------------------------
(* Properties                                                              *)

TypeOK ==
  /\ next_number \in 0 .. HardLimit
  /\ initialized \in BOOLEAN
  /\ highest \in Number
  /\ bits \in SUBSET (0 .. Width - 1)
  /\ opened \in [Number -> Nat]
  /\ verdict \in [number : HeaderNumber, genuine : BOOLEAN, accepted : BOOLEAN]

\* No record's plaintext reaches the session twice, in whatever order and
\* however often the carriers deliver it (RecordReceiver::open,
\* ReplayWindow::commit_authenticated).
OpenedAtMostOnce == \A n \in Number : opened[n] <= 1

\* highest is the largest number ever opened, and none was opened before the
\* window is initialised (ReplayWindow::commit_authenticated).
HighestIsOpened ==
  /\ initialized => opened[highest] > 0
  /\ \A n \in Number : opened[n] > 0 => initialized /\ n <= highest

\* Inside the window the circular bitmap tells exactly which numbers were
\* opened: no bit of a number the window has left behind survives to stand
\* for the number that now shares its slot (the clearing loop and the fill of
\* ReplayWindow::commit_authenticated).
BitsTellOpened ==
  IF initialized
  THEN \A n \in Number : n <= highest /\ highest < n + Width =>
         (Slot(n) \in bits <=> opened[n] > 0)
  ELSE bits = {}

\* The inductive invariant of RecordLayer_proofs.
IInv == TypeOK /\ OpenedAtMostOnce /\ HighestIsOpened /\ BitsTellOpened

\* The receiver accepts a genuine record exactly when it is new and less than
\* Width behind the highest one, and a forged one never moves the window:
\* the record layer implements the bitmap-free specification.
Abs == INSTANCE AntiReplay

ImplementsAntiReplay == Abs!Spec
=============================================================================
