--------------------------- MODULE NetworkPolicy ----------------------------
(***************************************************************************)
(* The routes, the DNS setting and the firewall rules the Windows client   *)
(* puts into the system (network_policy.py), driven by the connection loop *)
(* of the service (TunnelRuntime.run and _pump in reka_service.py).        *)
(* NetworkPolicy writes down what it is about to create, then creates it   *)
(* with one PowerShell command after another; recover undoes what the file *)
(* says and removes the file.  The service may be killed between any two   *)
(* commands, and the PowerShell it started with it.                        *)
(* Before its first recovery run loads the manifest, whose sequence number *)
(* must not fall below the stored one (client_core.py: load_manifest).     *)
(*                                                                         *)
(* The system is the set of routes and rules in it and the tunnel          *)
(* adapter's DNS servers.  A command adds, removes or sets one of them.    *)
(***************************************************************************)
EXTENDS Integers, Sequences, FiniteSets

CONSTANTS
  Endpoints,      \* the addresses of the server
  MaxInstalls,    \* bound: times install gets as far as writing its state
  MaxSequence,    \* bound: sequence numbers of manifests
  MaxFailures,    \* bound: times the PowerShell of recover fails to run
  MaxMissed,      \* bound: commands of recover that fail unnoticed
  NoState         \* there is no state file

\* What the state file says: the address prepare made a route for, if it did,
\* and, once install has added its part, what it was about to create and the
\* DNS servers to go back to.
States == [endpoint : Endpoints, created : BOOLEAN, tunnel : BOOLEAN, low : BOOLEAN,
           high : BOOLEAN, dns : {"own", "tunnel"}, rules : 0 .. MaxInstalls]

ASSUME NetworkPolicyAssumption ==
  /\ MaxInstalls \in Nat
  /\ MaxFailures \in Nat
  /\ MaxMissed \in Nat
  /\ MaxSequence \in Nat
  /\ NoState \notin States

VARIABLES
  items,      \* the routes and rules in the system
  dns,        \* the DNS servers of the tunnel adapter: "own" or "tunnel"
  file,       \* the state file
  sequence,   \* the sequence number in the file of ManifestState
  manifest,   \* the manifest being accepted, or NoState
  stage,      \* what the service does: "down", "accepting", "ready", "query",
              \* "route", "connecting", "commands", "pumping", "recover",
              \* "undoing"
  caller,     \* who called recover
  todo,       \* the commands PowerShell has still to run
  endpoint,   \* the address of the present attempt
  original,   \* history: the routes the system had without the client
  accepted,   \* history: the largest sequence number accepted
  installs, failures,
  missed      \* history: the commands of recover that failed unnoticed

system == <<items, dns>>
manifests == <<sequence, manifest, accepted>>
vars == <<system, file, manifests, stage, caller, todo, endpoint, original, installs,
          failures, missed>>

Low == <<"0.0.0.0/1">>
High == <<"128.0.0.0/1">>
HostRoute(e) == <<"host", e>>
Rule(name, id) == <<"rule", name, id>>

\* Routes somebody else made may be there already.
Init ==
  /\ original \in SUBSET ({Low, High} \cup {HostRoute(e) : e \in Endpoints})
  /\ items = original
  /\ dns = "own"
  /\ file = NoState
  /\ sequence = 0 /\ manifest = NoState /\ accepted = 0
  /\ stage = "down" /\ caller = "none" /\ todo = <<>>
  /\ endpoint \in Endpoints
  /\ installs = 0 /\ failures = 0 /\ missed = {}

-----------------------------------------------------------------------------
(* Commands                                                                *)

Add(item) == [op |-> "add", item |-> item]
Remove(item) == [op |-> "remove", item |-> item]
SetDns(to) == [op |-> "dns", to |-> to]

If(condition, commands) == IF condition THEN commands ELSE <<>>

\* install: the commands for the state it has written.  There are no DNS
\* rules if there is no physical adapter to apply them to.
InstallCommands(state, aliases) ==
  If(state.low, <<Add(Low)>>) \o If(state.high, <<Add(High)>>)
    \o <<SetDns("tunnel"), Add(Rule("Ipv6", state.rules))>>
    \o If(aliases, <<Add(Rule("DnsUdp", state.rules)), Add(Rule("DnsTcp", state.rules))>>)

RemoveRules(state) ==
  If(state.tunnel, <<Remove(Rule("Ipv6", state.rules)),
                     Remove(Rule("DnsUdp", state.rules)),
                     Remove(Rule("DnsTcp", state.rules))>>)

\* Mutant: the endpoint's route goes first.
RecoverHostFirst(state) ==
  If(state.created, <<Remove(HostRoute(state.endpoint))>>)
    \o If(state.low, <<Remove(Low)>>) \o If(state.high, <<Remove(High)>>)
    \o If(state.tunnel, <<SetDns(state.dns)>>)
    \o RemoveRules(state)

\* Mutant: routes that were there before are removed.
RecoverAll(state) ==
  <<Remove(Low), Remove(High)>>
    \o If(state.tunnel, <<SetDns(state.dns)>>)
    \o If(state.created, <<Remove(HostRoute(state.endpoint))>>)
    \o RemoveRules(state)

\* Mutant: the DNS rules are forgotten.
RecoverWithoutDnsRules(state) ==
  If(state.low, <<Remove(Low)>>) \o If(state.high, <<Remove(High)>>)
    \o If(state.tunnel, <<SetDns(state.dns)>>)
    \o If(state.created, <<Remove(HostRoute(state.endpoint))>>)
    \o If(state.tunnel, <<Remove(Rule("Ipv6", state.rules))>>)

\* recover: the commands for the state it has read.
RecoverCommands(state) ==
  If(state.low, <<Remove(Low)>>) \o If(state.high, <<Remove(High)>>)
    \o If(state.tunnel, <<SetDns(state.dns)>>)
    \o If(state.created, <<Remove(HostRoute(state.endpoint))>>)
    \o RemoveRules(state)

Run(command) ==
  /\ items' = CASE command.op = "add"    -> items \cup {command.item}
                [] command.op = "remove" -> items \ {command.item}
                [] OTHER                 -> items
  /\ dns' = IF command.op = "dns" THEN command.to ELSE dns

-----------------------------------------------------------------------------
(* recover                                                                 *)

Recover(who) ==
  /\ stage' = "recover"
  /\ caller' = who
  /\ todo' = <<>>

Continue(next) ==
  /\ stage' = next
  /\ UNCHANGED <<caller, todo>>

\* What its callers do next: the connection loop goes on, prepare looks at
\* the routes, install raises, which leads to the loop's finally clause, and
\* the service or stop_service ends.
Return ==
  CASE caller \in {"start", "finally"} -> Continue("ready")
    [] caller = "prepare"              -> Continue("query")
    [] caller = "install"              -> Recover("finally")
    [] caller = "final"                -> Continue("down")

NothingToRecover ==
  /\ stage = "recover"
  /\ file = NoState
  /\ Return
  /\ UNCHANGED <<manifests, system, file, endpoint, original, installs, failures, missed>>

BeginRecovery ==
  /\ stage = "recover"
  /\ file # NoState
  /\ stage' = "undoing"
  /\ todo' = RecoverCommands(file)
  /\ UNCHANGED <<manifests, system, file, caller, endpoint, original, installs, failures, missed>>

\* Every command runs, whatever becomes of the others.
Undo ==
  /\ stage = "undoing"
  /\ todo # <<>>
  /\ Run(Head(todo))
  /\ missed' = missed \ {Head(todo)}
  /\ todo' = Tail(todo)
  /\ UNCHANGED <<manifests, file, stage, caller, endpoint, original, installs, failures>>

\* A command that has something to undo fails, but -ErrorAction SilentlyContinue
\* and exit 0 hide it.
UndoFails ==
  /\ stage = "undoing"
  /\ todo # <<>>
  /\ Head(todo).op = "remove" => Head(todo).item \in items
  /\ Cardinality(missed) < MaxMissed
  /\ missed' = missed \cup {Head(todo)}
  /\ todo' = Tail(todo)
  /\ UNCHANGED <<manifests, system, file, stage, caller, endpoint, original, installs,
                 failures>>

\* The file is removed whatever has become of the commands.
Forget ==
  /\ stage = "undoing"
  /\ todo = <<>>
  /\ file' = NoState
  /\ Return
  /\ UNCHANGED <<manifests, system, endpoint, original, installs, failures, missed>>

\* PowerShell does not run.  The loop logs this and goes on; an error in
\* prepare leads to the finally clause, one at the start to the end.
RecoveryFails ==
  /\ stage = "recover"
  /\ file # NoState
  /\ failures < MaxFailures
  /\ failures' = failures + 1
  /\ CASE caller = "start"   -> Recover("final")
       [] caller = "prepare" -> Recover("finally")
       [] OTHER              -> Return
  /\ UNCHANGED <<manifests, system, file, endpoint, original, installs, missed>>

-----------------------------------------------------------------------------
(* The connection loop                                                     *)

\* A manifest of any age that is signed, valid now and for this profile.  Its
\* carriers, addresses and identities may still be of no use.
Manifests == [sequence : 1 .. MaxSequence, usable : BOOLEAN]

\* run begins with load_manifest.  One that cannot be fetched or verified, or is
\* older than the stored number, ends the service with nothing changed.
LoadManifest(m) ==
  /\ stage = "down"
  /\ m.sequence >= sequence
  /\ manifest' = m
  /\ stage' = "accepting"
  /\ UNCHANGED <<system, file, sequence, accepted, caller, todo, endpoint, original,
                 installs, failures, missed>>

\* Mutant: the number is kept in memory.
AcceptUnsaved ==
  /\ stage = "accepting"
  /\ accepted' = IF manifest.sequence > accepted THEN manifest.sequence
                                                 ELSE accepted
  /\ manifest' = NoState
  /\ IF manifest.usable THEN Recover("start") ELSE Continue("down")
  /\ UNCHANGED <<system, file, sequence, endpoint, original, installs, failures, missed>>

\* accept writes a new file and renames it; only then the rest of the manifest
\* is looked at, and the loop begins with recover.
AcceptManifest ==
  /\ stage = "accepting"
  /\ sequence' = manifest.sequence
  /\ accepted' = IF manifest.sequence > accepted THEN manifest.sequence
                                                 ELSE accepted
  /\ manifest' = NoState
  /\ IF manifest.usable THEN Recover("start") ELSE Continue("down")
  /\ UNCHANGED <<system, file, endpoint, original, installs, failures, missed>>

\* prepare, for the next address: the route of this address is there already,
\* or another one's has to go first.
Attempt(e) ==
  /\ stage = "ready"
  /\ endpoint' = e
  /\ IF file = NoState
     THEN Continue("query")
     ELSE IF file.endpoint = e
          THEN Continue("connecting")
          ELSE Recover("prepare")
  /\ UNCHANGED <<manifests, system, file, original, installs, failures, missed>>

\* prepare looks at the routes and writes the state.
Claim ==
  /\ stage = "query"
  /\ file' = [endpoint |-> endpoint, created |-> HostRoute(endpoint) \notin items,
              tunnel |-> FALSE, low |-> FALSE, high |-> FALSE, dns |-> "own", rules |-> 0]
  /\ stage' = "route"
  /\ UNCHANGED <<manifests, system, caller, todo, endpoint, original, installs, failures, missed>>

CreateRoute ==
  /\ stage = "route"
  /\ items' = IF file.created THEN items \cup {HostRoute(endpoint)} ELSE items
  /\ stage' = "connecting"
  /\ UNCHANGED <<manifests, dns, file, caller, todo, endpoint, original, installs, failures, missed>>

\* The session is up and _pump calls install, whose prepare returns at once:
\* it looks at the adapter, writes the state and starts the commands.
Install ==
  /\ stage = "connecting"
  /\ installs < MaxInstalls
  /\ installs' = installs + 1
  /\ file' = [file EXCEPT !.tunnel = TRUE, !.low = Low \notin items,
                          !.high = High \notin items, !.dns = dns, !.rules = installs']
  /\ \E aliases \in BOOLEAN : todo' = InstallCommands(file', aliases)
  /\ stage' = "commands"
  /\ UNCHANGED <<manifests, system, caller, endpoint, original, failures, missed>>

Command ==
  /\ stage = "commands"
  /\ todo # <<>>
  /\ Run(Head(todo))
  /\ todo' = Tail(todo)
  /\ UNCHANGED <<manifests, file, stage, caller, endpoint, original, installs, failures, missed>>

\* All commands have run; state["active"] is set.
Installed ==
  /\ stage = "commands"
  /\ todo = <<>>
  /\ stage' = "pumping"
  /\ UNCHANGED <<manifests, system, file, caller, todo, endpoint, original, installs, failures, missed>>

\* A command fails, and with it the rest: install's except clause.
CommandFails ==
  /\ stage = "commands"
  /\ todo # <<>>
  /\ Recover("install")
  /\ UNCHANGED <<manifests, system, file, endpoint, original, installs, failures, missed>>

\* A look at the system, the route, the connection or the session fails, or
\* the session ends: the loop's finally clause.
AttemptEnds ==
  /\ stage \in {"query", "route", "connecting", "pumping"}
  /\ Recover("finally")
  /\ UNCHANGED <<manifests, system, file, endpoint, original, installs, failures, missed>>

\* The service is stopped, and run's finally clause recovers; stop_service and
\* the recover command do so once more.
Stop ==
  /\ stage = "ready"
  /\ Recover("final")
  /\ UNCHANGED <<manifests, system, file, endpoint, original, installs, failures, missed>>

StopService ==
  /\ stage = "down"
  /\ file # NoState
  /\ Recover("final")
  /\ UNCHANGED <<manifests, system, file, endpoint, original, installs, failures, missed>>

\* The service is killed.
Crash ==
  /\ stage # "down"
  /\ stage' = "down"
  /\ todo' = <<>>
  /\ manifest' = NoState
  /\ UNCHANGED <<system, file, sequence, accepted, caller, endpoint, original, installs, failures, missed>>

-----------------------------------------------------------------------------

Next ==
  \/ NothingToRecover \/ BeginRecovery \/ Undo \/ UndoFails \/ Forget \/ RecoveryFails
  \/ (\E m \in Manifests : LoadManifest(m)) \/ AcceptManifest
  \/ \E e \in Endpoints : Attempt(e)
  \/ Claim \/ CreateRoute \/ Install \/ Command \/ Installed
  \/ CommandFails \/ AttemptEnds \/ Stop \/ StopService \/ Crash

Spec == Init /\ [][Next]_vars

-----------------------------------------------------------------------------
(* Properties                                                              *)

\* What the client has put into the system and recover did not fail to remove.
Made == {x \in items \ original : Remove(x) \notin missed}

\* The same for the DNS servers.
DnsMade == dns # "own" /\ SetDns("own") \notin missed

\* Whenever there is no state file the system is as it was without the
\* client, but for what a command of recover failed to undo, whatever was killed
\* and wherever (recover, _write_state), as long as no recovery was given up.
NothingIsLeftBehind ==
  file = NoState /\ failures = 0 => Made = {} /\ ~DnsMade

\* Routes that were there before the client are never removed, also when
\* recoveries are given up and tried again (the Created flags of prepare and
\* install).
OriginalsAreKept == original \subseteq items

\* While a default route of the client leads into the tunnel, the server's
\* address has a route around it: else the carrier would run through itself
\* (the order of the commands in prepare, install and recover).  Not so for a
\* route recover failed to remove; and a recovery given up may leave a file that
\* promises a route nobody made.
ServerStaysReachable ==
  failures = 0 /\ Made \cap {Low, High} # {} =>
    file # NoState /\ HostRoute(file.endpoint) \in items

\* The service never works with a manifest older than one it has accepted
\* before, whatever was killed in between and also if that one was of no use
\* (ManifestState, load_manifest).
ManifestNeverRollsBack ==
  [][stage = "accepting" /\ stage' = "recover" => manifest.sequence >= accepted]_vars
=============================================================================
