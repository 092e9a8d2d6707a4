----------------------------- MODULE Reassembly -----------------------------
(***************************************************************************)
(* FragmentReassembler.push as an operator: from the reassembler's state   *)
(* and a fragment to the new state, the packet it completed if any, and    *)
(* the error it raised if any.  The server's reassembler (fragment.rs)     *)
(* refuses a packet too many and counts its memory; the client's           *)
(* (client_core.py) evicts the oldest assembly instead and does not count. *)
(*                                                                         *)
(* An assembly keeps its age instead of the instant it was created.  A     *)
(* part's bytes are one value; its length is kept.                         *)
(***************************************************************************)
EXTENDS Integers, FiniteSets, FiniteSetsExt, Functions

\* The limits a reassembler has: MAX_REASSEMBLIES, MAX_REASSEMBLY_MEMORY,
\* REASSEMBLY_TIMEOUT in ticks, and the largest packet, u16::MAX or the
\* client's maximum_packet.
Limits == [assemblies : Nat \ {0}, memory : Nat, timeout : Nat, total : Nat]

\* The state before the first push.  The client's reassembler evicts the oldest
\* assembly when it is full and counts no memory; the server's refuses.
NewReassembler(evicts, limits) ==
  [evicts |-> evicts, limits |-> limits, assemblies |-> <<>>, memory |-> 0]

Total(parts) == MapThenSumSet(LAMBDA p : p.len, parts)

\* Assembly.received.
Received(a) == Total(a.parts)

\* Mutant: the bytes of a dropped assembly stay on the account.
DropUncounted(r, ids) ==
  [r EXCEPT !.assemblies = Restrict(@, DOMAIN @ \ ids)]

\* remove, for every assembly of ids.
Drop(r, ids) ==
  LET freed == MapThenSumSet(LAMBDA id : Received(r.assemblies[id]), ids)
  IN  [r EXCEPT !.assemblies = Restrict(@, DOMAIN @ \ ids),
                !.memory = IF freed <= @ THEN @ - freed ELSE 0]

Expire(r) ==
  Drop(r, {id \in DOMAIN r.assemblies :
             r.assemblies[id].age >= r.limits.timeout})

\* ParsedFragment::parse.
Parses(r, f) ==
  /\ f.total > 0
  /\ f.total <= r.limits.total
  /\ f.len > 0
  /\ f.offset + f.len <= f.total

Full(r, f) ==
  /\ f.id \notin DOMAIN r.assemblies
  /\ Cardinality(DOMAIN r.assemblies) >= r.limits.assemblies

\* Mutant: whichever assembly comes first is evicted.
AnyVictim(r, f) ==
  IF Full(r, f) THEN {{id} : id \in DOMAIN r.assemblies} ELSE {{}}

\* The assemblies that may be the oldest one; none is evicted unless full.
Victims(r, f) ==
  IF Full(r, f)
  THEN {{id} : id \in {i \in DOMAIN r.assemblies :
                  \A j \in DOMAIN r.assemblies :
                    r.assemblies[j].age <= r.assemblies[i].age}}
  ELSE {{}}

\* The assembly of f's packet, a new one if there is none.
AssemblyFor(r, f) ==
  IF f.id \in DOMAIN r.assemblies
  THEN r.assemblies[f.id]
  ELSE [total |-> f.total, age |-> 0, parts |-> {}]

Overlaps(p, f) == f.offset < p.offset + p.len /\ p.offset < f.offset + f.len

\* What push makes of a fragment of assembly a, in the order of its tests.
Outcome(r, a, f) ==
  IF a.total # f.total THEN "total changed"
  ELSE IF \E p \in a.parts : p.offset = f.offset
  THEN IF \E p \in a.parts :
            p.offset = f.offset /\ p.len = f.len /\ p.data = f.data
       THEN "duplicate" ELSE "conflict"
  ELSE IF \E p \in a.parts : Overlaps(p, f) THEN "overlap"
  ELSE IF ~r.evicts /\ r.memory + f.len > r.limits.memory
  THEN "memory limit"
  ELSE IF Received(a) + f.len # a.total THEN "partial" ELSE "all received"

\* The walk over the parts in the order of their offsets finds no gap.
Contiguous(parts) ==
  \A p \in parts : p.offset = Total({q \in parts : q.offset < p.offset})

Result(r, out, error) == [state |-> r, out |-> out, error |-> error]

\* Enters a into the table under f's id.
Enter(r, f, a, bytes) ==
  [r EXCEPT !.assemblies = [id \in DOMAIN @ \cup {f.id} |->
                              IF id = f.id THEN a ELSE @[id]],
            !.memory = @ + bytes]

\* Mutant: the fragment that reaches the end completes the packet.
PlaceLast(r, f) ==
  LET a       == AssemblyFor(r, f)
      outcome == Outcome(r, a, f)
      parts   == a.parts \cup {[offset |-> f.offset, len |-> f.len,
                                data |-> f.data]}
      kept    == Enter(r, f, [a EXCEPT !.parts = parts], f.len)
  IN  IF outcome = "duplicate" THEN Result(r, {}, "none")
      ELSE IF outcome \notin {"partial", "all received"}
      THEN Result(Drop(Enter(r, f, a, 0), {f.id}), {}, outcome)
      ELSE IF f.offset + f.len = a.total
      THEN Result(Drop(kept, {f.id}),
                  {[id |-> f.id, total |-> a.total, parts |-> parts]}, "none")
      ELSE Result(kept, {}, "none")

\* push, once the expired assemblies are gone and the fragment has parsed.
Place(r, f) ==
  LET a       == AssemblyFor(r, f)
      outcome == Outcome(r, a, f)
      parts   == a.parts \cup {[offset |-> f.offset, len |-> f.len,
                                data |-> f.data]}
      kept    == Enter(r, f, [a EXCEPT !.parts = parts], f.len)
  IN  IF outcome = "duplicate" THEN Result(r, {}, "none")
      ELSE IF outcome \in {"total changed", "conflict", "overlap"}
      THEN Result(Drop(Enter(r, f, a, 0), {f.id}), {}, outcome)
      ELSE IF outcome = "memory limit"
      THEN Result(Enter(r, f, a, 0), {}, outcome)
      ELSE IF outcome = "all received" /\ Contiguous(parts)
      THEN Result(Drop(kept, {f.id}),
                  {[id |-> f.id, total |-> a.total, parts |-> parts]}, "none")
      ELSE Result(kept, {}, "none")

\* Every result push(f) may have; more than one only if evicting the oldest
\* assembly has a choice.
Push(before, f) ==
  LET r == Expire(before)
  IN  IF ~Parses(r, f) THEN {Result(r, {}, "invalid fragment")}
      ELSE IF ~r.evicts /\ Full(r, f)
      THEN {Result(r, {}, "reassembly limit")}
      ELSE {Place(Drop(r, ids), f) : ids \in Victims(r, f)}

\* One tick of the clock.
Age(r) ==
  [r EXCEPT !.assemblies = [id \in DOMAIN @ |->
     [@[id] EXCEPT !.age = IF @ < r.limits.timeout THEN @ + 1 ELSE @]]]
=============================================================================
