------------------------- MODULE FragmentReassembler ------------------------
(***************************************************************************)
(* A reassembler, the server's or the client's, fed with any fragments at  *)
(* all, in any order and at any pace.  An error ends the session, and the  *)
(* reassembler with it.                                                    *)
(***************************************************************************)
EXTENDS Reassembly

CONSTANTS
  Ids,       \* packet ids
  FieldMax,  \* the largest value of a length field
  Payloads   \* the bytes a part may have

VARIABLES
  reassembler,  \* the state of the FragmentReassembler
  output,       \* history: what the last push returned, a set of <= 1 packet
  error         \* "none", or why the session ended

reassemblerVars == <<reassembler, output, error>>

Fragments ==
  [id : Ids, total : 0 .. FieldMax, offset : 0 .. FieldMax,
   len : 0 .. FieldMax, data : Payloads]

InitReassembler(evicts, limits) ==
  /\ reassembler = NewReassembler(evicts, limits)
  /\ output = {}
  /\ error = "none"

\* process_record and receive hand every fragment to push.
PushFragment(f) ==
  /\ error = "none"
  /\ \E result \in Push(reassembler, f) :
       /\ reassembler' = result.state
       /\ output' = result.out
       /\ error' = result.error

Ages ==
  /\ error = "none"
  /\ reassembler' = Age(reassembler)
  /\ reassembler' # reassembler
  /\ output' = {}
  /\ UNCHANGED error

-----------------------------------------------------------------------------
(* Properties                                                              *)

\* The memory account is the sum of the parts held, whichever of its six ways
\* out of the table an assembly took, and it never passes its limit
\* (push, expire, remove of fragment.rs).
MemoryIsExact ==
  /\ reassembler.memory =
       MapThenSumSet(LAMBDA id : Received(reassembler.assemblies[id]),
                     DOMAIN reassembler.assemblies)
  /\ reassembler.evicts \/ reassembler.memory <= reassembler.limits.memory
  /\ Cardinality(DOMAIN reassembler.assemblies) <= reassembler.limits.assemblies

Covers(p, byte) == p.offset <= byte /\ byte < p.offset + p.len

\* A packet handed on has every byte exactly once, from one part of it, and one
\* that has all its bytes is handed on: the paths on which the walk of push
\* finds a gap and waits for more are never taken (push's overlap test, its
\* count of received bytes and its walk).
OutputIsWhole ==
  /\ \A packet \in output :
       /\ packet.total \in 1 .. reassembler.limits.total
       /\ \A byte \in 0 .. packet.total - 1 :
            Cardinality({p \in packet.parts : Covers(p, byte)}) = 1
       /\ \A p \in packet.parts : p.offset + p.len <= packet.total
  /\ \A id \in DOMAIN reassembler.assemblies :
       Received(reassembler.assemblies[id]) < reassembler.assemblies[id].total

\* At its limit the client keeps the assemblies that have longest to live:
\* none that is dropped to make room is younger than one that stays
\* (client_core.py: FragmentReassembler.push).
EvictsTheOldest ==
  [][LET before == Expire(reassembler).assemblies
         after  == reassembler'.assemblies
         gone   == DOMAIN before \ DOMAIN after
     IN  error' = "none" /\ output' = {} =>
           \A i \in gone, j \in DOMAIN before \cap DOMAIN after :
             before[j].age <= before[i].age]_reassemblerVars
=============================================================================
