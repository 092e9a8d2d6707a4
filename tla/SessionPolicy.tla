---------------------------- MODULE SessionPolicy ---------------------------
(***************************************************************************)
(* The policy of one session: its lifetime, its quota and the token bucket *)
(* that shapes it (session.rs), used by the session task (shape_traffic    *)
(* and the deadline branch of run_established_session in main.rs), which   *)
(* sleeps for the delay before it does anything else.                      *)
(*                                                                         *)
(* Time starts at 0 with the session.  A second has Resolution units of    *)
(* time, 10^9 in the code.                                                 *)
(***************************************************************************)
EXTENDS Integers

CONSTANTS
  Rate,         \* bandwidth_bytes_per_second
  Capacity,     \* Rate clamped to MINIMUM_BURST_BYTES..MAXIMUM_BURST_BYTES
  Quota,        \* quota_bytes, 0 for none
  Deadline,     \* when the lifetime ends
  Resolution,   \* units of time in a second
  Sizes         \* the sizes of the packets or batches a session passes on

\* SessionPolicy::new refuses a rate below 1024 and a lifetime below a minute.
ASSUME PolicyAssumption ==
  /\ Rate \in Nat \ {0}
  /\ Capacity \in Nat
  /\ Quota \in Nat
  /\ Deadline \in Nat \ {0}
  /\ Resolution \in Nat \ {0}
  /\ Sizes \subseteq Nat

VARIABLES
  now,          \* the session task's clock
  tokens,       \* TokenBucket.tokens
  updated_at,   \* TokenBucket.updated_at
  transferred,  \* SessionPolicy.transferred
  ended,        \* "no", or the error that ended the session
  lost          \* history: the tokens the session lost, times Resolution

vars == <<now, tokens, updated_at, transferred, ended, lost>>

Init ==
  /\ now = 0
  /\ tokens = Capacity
  /\ updated_at = 0
  /\ transferred = 0
  /\ ended = "no"
  /\ lost = 0

-----------------------------------------------------------------------------
(* TokenBucket::reserve                                                    *)

Elapsed == IF now >= updated_at THEN now - updated_at ELSE 0

\* Mutant: only whole seconds earn anything.
ReplenishedBySeconds == (Elapsed \div Resolution) * Rate

Replenished == (Elapsed * Rate) \div Resolution

Filled ==
  IF tokens + Replenished <= Capacity THEN tokens + Replenished ELSE Capacity

\* Mutant: the wait is rounded down.
DelayDown(bytes) ==
  IF bytes <= Filled THEN 0
  ELSE ((bytes - Filled) * Resolution) \div Rate

\* The wait for the tokens that are missing, rounded up.
Delay(bytes) ==
  IF bytes <= Filled THEN 0
  ELSE ((bytes - Filled) * Resolution + Rate - 1) \div Rate

\* Mutant: the tokens earned during the wait are counted again after it.
TakeEarly(bytes) ==
  /\ tokens' = IF bytes <= Filled THEN Filled - bytes ELSE 0
  /\ updated_at' = now

\* The tokens are taken, and those the wait will earn are taken in advance.
Take(bytes) ==
  /\ tokens' = IF bytes <= Filled THEN Filled - bytes ELSE 0
  /\ updated_at' = now + Delay(bytes)

-----------------------------------------------------------------------------
(* SessionPolicy::reserve                                                  *)

OverQuota(bytes) == Quota # 0 /\ transferred + bytes > Quota

TooLate(bytes) == now + Delay(bytes) >= Deadline

\* What a reserve may cost the session: what a full bucket spills, less than a
\* token for a replenishment and less than a unit of time for a wait.
Loss(bytes) ==
  Resolution * (tokens + Replenished - Filled)
    + (IF Elapsed = 0 THEN 0 ELSE Resolution - 1)
    + (IF Delay(bytes) = 0 THEN 0 ELSE Rate - 1)

\* Traffic passes: the task sleeps for the delay and passes it on.
Pass(bytes) ==
  /\ ended = "no"
  /\ now < Deadline
  /\ ~OverQuota(bytes)
  /\ ~TooLate(bytes)
  /\ Take(bytes)
  /\ transferred' = transferred + bytes
  /\ now' = now + Delay(bytes)
  /\ lost' = lost + Loss(bytes)
  /\ UNCHANGED ended

RefuseOverQuota(bytes) ==
  /\ ended = "no"
  /\ now < Deadline
  /\ OverQuota(bytes)
  /\ ended' = "session quota exceeded"
  /\ UNCHANGED <<now, tokens, updated_at, transferred, lost>>

\* The bucket has been charged by the time the session gives up.
RefuseTooLate(bytes) ==
  /\ ended = "no"
  /\ now < Deadline
  /\ ~OverQuota(bytes)
  /\ TooLate(bytes)
  /\ Take(bytes)
  /\ ended' = "session lifetime expires during shaping"
  /\ UNCHANGED <<now, transferred, lost>>

\* The deadline branch of the session task, or reserve's own test.
Expire ==
  /\ ended = "no"
  /\ now >= Deadline
  /\ ended' = "session lifetime expired"
  /\ UNCHANGED <<now, tokens, updated_at, transferred, lost>>

Tick ==
  /\ ended = "no"
  /\ now < Deadline
  /\ now' = now + 1
  /\ UNCHANGED <<tokens, updated_at, transferred, ended, lost>>

Next ==
  \/ \E bytes \in Sizes :
       Pass(bytes) \/ RefuseOverQuota(bytes) \/ RefuseTooLate(bytes)
  \/ Expire
  \/ Tick

Spec == Init /\ [][Next]_vars

-----------------------------------------------------------------------------
(* Properties                                                              *)

TypeOK ==
  /\ now \in Nat
  /\ tokens \in 0 .. Capacity
  /\ updated_at \in Nat
  /\ transferred \in Nat
  /\ lost \in Nat
  /\ ended \in {"no", "session quota exceeded", "session lifetime expired",
                "session lifetime expires during shaping"}

\* While the session lives the bucket is never charged for the future: the
\* task has slept through every wait (shape_traffic).
BucketIsCurrent == ended = "no" => updated_at <= now

\* The account of the bucket: what has passed and what may still pass at once
\* is covered by the burst and by the rate, up to updated_at.
Account ==
  ended = "no" =>
    Resolution * (transferred + tokens)
      <= Resolution * Capacity + Rate * updated_at

\* In any session, however its traffic comes, no more than the burst plus the
\* rate times the time passed has been passed on: the roundings of the
\* replenishment and of the wait never add up in the session's favour
\* (TokenBucket::reserve).
ShapedToRate ==
  Resolution * transferred <= Resolution * Capacity + Rate * now

\* A session gets the rate it was promised: what has passed and what may pass
\* at once falls short of the burst plus the rate times the time by no more than
\* what a full bucket spilled and the roundings, each less than a token or a unit
\* of time, however its traffic comes (TokenBucket::reserve).
RateIsGranted ==
  ended = "no" =>
    Resolution * (transferred + tokens) + lost
      >= Resolution * Capacity + Rate * updated_at

\* The inductive invariant of SessionPolicy_proofs.
IInv == TypeOK /\ BucketIsCurrent /\ Account /\ ShapedToRate
=============================================================================
