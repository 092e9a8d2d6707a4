---------------------------- MODULE EpochLockstep ---------------------------
(***************************************************************************)
(* What a session's keys promise, without messages: the client comes up    *)
(* first and the server with the same secret; from then on the server      *)
(* moves to a new epoch first, the client follows to the same epoch and    *)
(* the same secret, and the server does not move again before that.        *)
(***************************************************************************)
EXTENDS Integers

VARIABLES
  serverEpoch, serverSecret,
  clientEpoch, clientSecret

vars == <<serverEpoch, serverSecret, clientEpoch, clientSecret>>

Init ==
  /\ serverEpoch = -1
  /\ clientEpoch = -1
  /\ clientSecret = serverSecret

ClientEstablished ==
  /\ clientEpoch = -1
  /\ clientEpoch' = 0
  /\ clientSecret' # clientSecret
  /\ UNCHANGED <<serverEpoch, serverSecret>>

ServerEstablished ==
  /\ serverEpoch = -1 /\ clientEpoch = 0
  /\ serverEpoch' = 0
  /\ serverSecret' = clientSecret
  /\ UNCHANGED <<clientEpoch, clientSecret>>

ServerSwitches ==
  /\ clientEpoch = serverEpoch /\ serverEpoch >= 0
  /\ serverEpoch' = serverEpoch + 1
  /\ serverSecret' # serverSecret
  /\ UNCHANGED <<clientEpoch, clientSecret>>

ClientFollows ==
  /\ clientEpoch < serverEpoch
  /\ clientEpoch' = serverEpoch
  /\ clientSecret' = serverSecret
  /\ UNCHANGED <<serverEpoch, serverSecret>>

Next ==
  ClientEstablished \/ ServerEstablished \/ ServerSwitches \/ ClientFollows

Spec == Init /\ [][Next]_vars
=============================================================================
