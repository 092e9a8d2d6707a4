---------------------------- MODULE MCPacketPath ----------------------------
(***************************************************************************)
(* The limits of the reassemblers: the client's, which allows packets of   *)
(* half a record, the server's, which allows every packet that is cut, and *)
(* one so tight that any peer reaches each of its limits.                  *)
(* The ids and payloads of such a peer are interchangeable.                *)
(***************************************************************************)
EXTENDS PacketPath, TLC

Client == [assemblies |-> 3, memory |-> 100, timeout |-> 2, total |-> 10]

Server == [assemblies |-> 3, memory |-> 100, timeout |-> 2, total |-> 30]

Tight == [assemblies |-> 2, memory |-> 3, timeout |-> 2, total |-> 3]

Symmetry == Permutations(Ids) \cup Permutations(Payloads)
=============================================================================
