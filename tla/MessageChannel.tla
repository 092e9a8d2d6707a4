---------------------------- MODULE MessageChannel --------------------------
(***************************************************************************)
(* What a session expects of one direction of its carrier: the messages    *)
(* arrive whole, once and in the order they were sent.  The reader learns  *)
(* that the writer has finished only after it has received everything      *)
(* ("complete"), or it is cut off somewhere in between ("cut").            *)
(***************************************************************************)
EXTENDS Naturals, Sequences

CONSTANT Message

VARIABLES sent, received, fate

vars == <<sent, received, fate>>

Init == sent = <<>> /\ received = <<>> /\ fate = "open"

Send ==
  /\ fate # "complete"
  /\ \E m \in Message : sent' = Append(sent, m)
  /\ UNCHANGED <<received, fate>>

Receive ==
  /\ fate = "open"
  /\ Len(received) < Len(sent)
  /\ received' = Append(received, sent[Len(received) + 1])
  /\ UNCHANGED <<sent, fate>>

Finish ==
  /\ fate = "open"
  /\ \/ received = sent /\ fate' = "complete"
     \/ fate' = "cut"
  /\ UNCHANGED <<sent, received>>

Spec == Init /\ [][Send \/ Receive \/ Finish]_vars
=============================================================================
