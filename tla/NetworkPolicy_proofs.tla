------------------------ MODULE NetworkPolicy_proofs ------------------------
(***************************************************************************)
(* Whatever is killed, fails and is tried again, the client takes nothing  *)
(* away that it has not made; and but for what a command of recover failed *)
(* to undo it leaves nothing behind and never cuts off the server, for any *)
(* set of addresses, any number of installs, manifests and failures.       *)
(***************************************************************************)
EXTENDS NetworkPolicy, TLAPS

Routes == {Low, High} \cup {HostRoute(e) : e \in Endpoints}
Rules(id) == {Rule("Ipv6", id), Rule("DnsUdp", id), Rule("DnsTcp", id)}
Items == Routes \cup UNION {Rules(id) : id \in 0 .. MaxInstalls}

Commands == {Add(x) : x \in Items} \cup {Remove(x) : x \in Items}
              \cup {SetDns(to) : to \in {"own", "tunnel"}}

Callers == {"start", "finally", "prepare", "install", "final"}
Stages == {"down", "accepting", "ready", "query", "route", "connecting", "commands",
           "pumping", "recover", "undoing"}

\* The types, and what the stage of the service says about them.
TypeOK ==
  /\ original \in SUBSET Routes
  /\ items \in SUBSET Items
  /\ dns \in {"own", "tunnel"}
  /\ file \in States \cup {NoState}
  /\ sequence \in Nat
  /\ accepted \in Nat
  /\ stage \in Stages
  /\ caller \in Callers \cup {"none"}
  /\ todo \in Seq(Commands)
  /\ endpoint \in Endpoints
  /\ installs \in 0 .. MaxInstalls
  /\ failures \in Nat
  /\ missed \in SUBSET Commands
  /\ stage \in {"recover", "undoing"} => caller \in Callers
  /\ stage \in {"route", "connecting", "commands", "pumping", "undoing"} =>
       file \in States
  /\ stage = "accepting" => manifest \in Manifests

\* A command is in a list of commands.
In(c, s) == \E i \in 1 .. Len(s) : s[i] = c

\* In a list of commands, d comes only after c.
Before(c, d, s) ==
  \A i \in 1 .. Len(s) : s[i] = d => \E j \in 1 .. i - 1 : s[j] = c

\* What recover removes for a state.
Claimed(state) ==
  {x \in Items : \/ state.low /\ x = Low
                 \/ state.high /\ x = High
                 \/ state.created /\ x = HostRoute(state.endpoint)
                 \/ state.tunnel /\ x \in Rules(state.rules)}

-----------------------------------------------------------------------------
(* The inductive invariants                                                *)

\* Neither the file nor a command under way takes away what was there before
\* the client, whatever recoveries were given up.
HarmlessInv ==
  /\ original \subseteq items
  /\ file \in States => Claimed(file) \cap original = {}
  /\ \A x \in original : ~In(Remove(x), todo)

\* As long as no recovery was given up, and but for what a command of recover
\* failed to undo: what the client has put into the system is in the file, the
\* commands of install stay within what the file says, and those of recover
\* that are left still undo it all, the routes into the tunnel before the
\* server's.  The file takes the tunnel's DNS servers for the adapter's own only
\* after recover has failed to set them back.
Accounted ==
  /\ stage \in {"ready", "query"} => file = NoState
  /\ file = NoState => Made = {} /\ ~DnsMade
  /\ file \in States =>
       /\ Made \subseteq Claimed(file)
       /\ file.dns = "own" \/ SetDns("own") \in missed
       /\ DnsMade => file.tunnel

\* The server's route is made before the routes into the tunnel.
Reaching ==
  /\ stage \in {"route", "connecting"} =>
       /\ Made \subseteq {HostRoute(file.endpoint)}
       /\ ~DnsMade
       /\ ~file.tunnel
  /\ stage = "route" =>
       /\ file.endpoint = endpoint
       /\ file.created \/ HostRoute(endpoint) \in items
  /\ stage \in {"connecting", "commands"} => HostRoute(file.endpoint) \in items

Installing ==
  stage = "commands" =>
    /\ file.tunnel
    /\ \A c \in Commands :
         In(c, todo) => c = SetDns("tunnel") \/ \E x \in Claimed(file) : c = Add(x)

Undoing ==
  stage = "undoing" =>
    /\ \A x \in Made : In(Remove(x), todo)
    /\ DnsMade => In(SetDns("own"), todo)
    /\ \A c \in Commands :
         In(c, todo) => c = SetDns(file.dns) \/ \E x \in Items : c = Remove(x)
    /\ \A x \in Made \cap {Low, High} :
         Before(Remove(x), Remove(HostRoute(file.endpoint)), todo)

Tidy == Accounted /\ Reaching /\ Installing /\ Undoing /\ ServerStaysReachable

PolicyInv ==
  /\ TypeOK
  /\ HarmlessInv
  /\ failures = 0 => Tidy

\* What load_manifest compares with is the largest number ever accepted.
ManifestInv ==
  /\ accepted = sequence
  /\ stage = "accepting" => manifest.sequence >= sequence

-----------------------------------------------------------------------------
(* Routes, rules and commands                                              *)

\* No route is another one or a rule.
LEMMA ItemFacts ==
  ASSUME NEW e, NEW f, NEW name, NEW id
  PROVE  /\ Low # High
         /\ Low # HostRoute(e) /\ High # HostRoute(e)
         /\ HostRoute(e) = HostRoute(f) => e = f
         /\ Rule(name, id) \notin {Low, High, HostRoute(e)}
BY DEF Low, High, HostRoute, Rule

\* No rule is a route.
LEMMA RuleFacts ==
  ASSUME NEW id
  PROVE  Rules(id) \cap Routes = {}
BY ItemFacts DEF Rules, Routes

\* A command says what it does.
LEMMA CommandFacts ==
  ASSUME NEW x, NEW y
  PROVE  /\ Add(x) = Add(y) => x = y
         /\ Remove(x) = Remove(y) => x = y
         /\ SetDns(x) = SetDns(y) => x = y
         /\ Add(x) # Remove(y)
         /\ SetDns(x) # Add(y)
         /\ SetDns(x) # Remove(y)
BY DEF Add, Remove, SetDns

\* What a command changes (_ps).
LEMMA RunEffect ==
  ASSUME NEW c \in Commands, Run(c)
  PROVE  \/ \E x \in Items : c = Add(x) /\ items' = items \cup {x} /\ dns' = dns
         \/ \E x \in Items : c = Remove(x) /\ items' = items \ {x} /\ dns' = dns
         \/ \E to \in {"own", "tunnel"} : c = SetDns(to) /\ items' = items /\ dns' = to
BY DEF Commands, Run, Add, Remove, SetDns

\* What is in two lists of commands, one after the other.
LEMMA InConcat ==
  ASSUME NEW S, NEW s \in Seq(S), NEW t \in Seq(S)
  PROVE  /\ s \o t \in Seq(S)
         /\ \A c : In(c, s \o t) <=> In(c, s) \/ In(c, t)
<1>1. s \o t \in Seq(S) /\ Len(s \o t) = Len(s) + Len(t)
  OBVIOUS
<1>2. ASSUME NEW c, In(c, s) PROVE In(c, s \o t)
  BY <1>1, <1>2 DEF In
<1>3. ASSUME NEW c, In(c, t) PROVE In(c, s \o t)
  <2>1. PICK i \in 1 .. Len(t) : t[i] = c
    BY <1>3 DEF In
  <2>2. /\ Len(s) + i \in 1 .. Len(s \o t)
        /\ (s \o t)[Len(s) + i] = t[i]
    BY <1>1, <2>1
  <2> QED
    BY <2>1, <2>2 DEF In
<1>4. ASSUME NEW c, In(c, s \o t), ~In(c, s) PROVE In(c, t)
  <2>1. PICK i \in 1 .. Len(s \o t) : (s \o t)[i] = c
    BY <1>4 DEF In
  <2>2. i > Len(s)
    BY <1>1, <1>4, <2>1 DEF In
  <2>3. i - Len(s) \in 1 .. Len(t) /\ t[i - Len(s)] = c
    BY <1>1, <2>1, <2>2
  <2> QED
    BY <2>3 DEF In
<1> QED
  BY <1>1, <1>2, <1>3, <1>4

\* What is in a list with a condition.
LEMMA InIf ==
  ASSUME NEW S, NEW s \in Seq(S), NEW b \in BOOLEAN
  PROVE  /\ If(b, s) \in Seq(S)
         /\ \A c : In(c, If(b, s)) <=> b /\ In(c, s)
BY DEF If, In

\* What is in a list of one, two or three commands.
LEMMA InOne ==
  ASSUME NEW S, NEW x \in S
  PROVE  <<x>> \in Seq(S) /\ \A c : In(c, <<x>>) <=> c = x
BY DEF In

\* The same for two.
LEMMA InTwo ==
  ASSUME NEW S, NEW x \in S, NEW y \in S
  PROVE  <<x, y>> \in Seq(S) /\ \A c : In(c, <<x, y>>) <=> c \in {x, y}
BY DEF In

\* The same for three.
LEMMA InThree ==
  ASSUME NEW S, NEW x \in S, NEW y \in S, NEW z \in S
  PROVE  <<x, y, z>> \in Seq(S) /\ \A c : In(c, <<x, y, z>>) <=> c \in {x, y, z}
BY DEF In

\* Running the first command leaves the others, in their order.
LEMMA InTail ==
  ASSUME NEW S, NEW s \in Seq(S), s # <<>>
  PROVE  /\ Head(s) \in S /\ In(Head(s), s) /\ Tail(s) \in Seq(S)
         /\ \A c : In(c, s) <=> c = Head(s) \/ In(c, Tail(s))
         /\ \A c, d : Before(c, d, s) => d # Head(s) /\ (c = Head(s) \/ Before(c, d, Tail(s)))
<1>1. /\ Head(s) \in S /\ Tail(s) \in Seq(S) /\ Len(s) \in Nat /\ Len(s) > 0
      /\ Head(s) = s[1]
      /\ Len(Tail(s)) = Len(s) - 1
      /\ \A i \in 1 .. Len(Tail(s)) : Tail(s)[i] = s[i + 1]
  OBVIOUS
<1>2. In(Head(s), s)
  BY <1>1 DEF In
<1>3. ASSUME NEW c, In(c, Tail(s)) PROVE In(c, s)
  <2>1. PICK i \in 1 .. Len(Tail(s)) : Tail(s)[i] = c
    BY <1>3 DEF In
  <2>2. i + 1 \in 1 .. Len(s) /\ s[i + 1] = c
    BY <1>1, <2>1
  <2> QED
    BY <2>2 DEF In
<1>4. ASSUME NEW c, In(c, s), c # Head(s) PROVE In(c, Tail(s))
  <2>1. PICK i \in 1 .. Len(s) : s[i] = c
    BY <1>4 DEF In
  <2>2. i - 1 \in 1 .. Len(Tail(s)) /\ Tail(s)[i - 1] = c
    BY <1>1, <1>4, <2>1
  <2> QED
    BY <2>2 DEF In
<1>5. ASSUME NEW c, NEW d, Before(c, d, s) PROVE d # Head(s)
  <2>1. 1 \in 1 .. Len(s) /\ 1 .. 1 - 1 = {}
    BY <1>1
  <2> QED
    BY <1>1, <1>5, <2>1 DEF Before
<1>6. ASSUME NEW c, NEW d, Before(c, d, s), c # Head(s) PROVE Before(c, d, Tail(s))
  <2> SUFFICES ASSUME NEW i \in 1 .. Len(Tail(s)), Tail(s)[i] = d
               PROVE  \E j \in 1 .. i - 1 : Tail(s)[j] = c
    BY DEF Before
  <2>1. i + 1 \in 1 .. Len(s) /\ s[i + 1] = d
    BY <1>1
  <2>2. PICK j \in 1 .. (i + 1) - 1 : s[j] = c
    BY <1>6, <2>1 DEF Before
  <2>3. j - 1 \in 1 .. i - 1 /\ Tail(s)[j - 1] = c
    BY <1>1, <1>6, <2>1, <2>2
  <2> QED
    BY <2>3
<1> QED
  BY <1>1, <1>2, <1>3, <1>4, <1>5, <1>6

\* An order in a list holds whatever comes after it.
LEMMA BeforeConcat ==
  ASSUME NEW S, NEW s \in Seq(S), NEW t \in Seq(S), NEW c, NEW d,
         In(c, s), Before(c, d, s)
  PROVE  Before(c, d, s \o t)
<1>1. s \o t \in Seq(S) /\ Len(s \o t) = Len(s) + Len(t)
  OBVIOUS
<1> SUFFICES ASSUME NEW i \in 1 .. Len(s \o t), (s \o t)[i] = d
             PROVE  \E j \in 1 .. i - 1 : (s \o t)[j] = c
  BY DEF Before
<1>2. CASE i > Len(s)
  <2>1. PICK j \in 1 .. Len(s) : s[j] = c
    BY DEF In
  <2>2. j \in 1 .. i - 1 /\ (s \o t)[j] = c
    BY <1>1, <1>2, <2>1
  <2> QED
    BY <2>2
<1>3. CASE i <= Len(s)
  <2>1. i \in 1 .. Len(s) /\ s[i] = d
    BY <1>1, <1>3
  <2>2. PICK j \in 1 .. i - 1 : s[j] = c
    BY <2>1 DEF Before
  <2>3. (s \o t)[j] = c
    BY <1>1, <2>1, <2>2
  <2> QED
    BY <2>3
<1> QED
  BY <1>1, <1>2, <1>3

-----------------------------------------------------------------------------
(* The commands of recover and of install                                  *)

\* Everything a state claims may be in the system.
LEMMA ClaimFacts ==
  ASSUME NEW state \in States
  PROVE  /\ Low \in Items /\ High \in Items /\ HostRoute(state.endpoint) \in Items
         /\ Rules(state.rules) \subseteq Items
         /\ \A x \in Items : Add(x) \in Commands /\ Remove(x) \in Commands
         /\ SetDns(state.dns) \in Commands /\ SetDns("tunnel") \in Commands
         /\ SetDns("own") \in Commands
BY DEF States, Items, Routes, Commands

\* recover removes what the state claims and nothing else, and sets the DNS
\* servers back if install has come to its part.
LEMMA RecoverFacts ==
  ASSUME NEW state \in States
  PROVE  /\ RecoverCommands(state) \in Seq(Commands)
         /\ \A x \in Items : In(Remove(x), RecoverCommands(state)) <=> x \in Claimed(state)
         /\ state.tunnel => In(SetDns(state.dns), RecoverCommands(state))
         /\ \A c : In(c, RecoverCommands(state)) =>
                     c = SetDns(state.dns) \/ \E x \in Claimed(state) : c = Remove(x)
         /\ state.low =>
              Before(Remove(Low), Remove(HostRoute(state.endpoint)), RecoverCommands(state))
         /\ state.high =>
              Before(Remove(High), Remove(HostRoute(state.endpoint)), RecoverCommands(state))
<1> DEFINE id == state.rules
           R6 == Remove(Rule("Ipv6", id))
           RU == Remove(Rule("DnsUdp", id))
           RT == Remove(Rule("DnsTcp", id))
           RL == Remove(Low)
           RH == Remove(High)
           RE == Remove(HostRoute(state.endpoint))
           D == SetDns(state.dns)
           L == If(state.low, <<RL>>)
           H == If(state.high, <<RH>>)
           N == If(state.tunnel, <<D>>)
           E == If(state.created, <<RE>>)
           R == If(state.tunnel, <<R6, RU, RT>>)
<1>1. /\ state.low \in BOOLEAN /\ state.high \in BOOLEAN
      /\ state.tunnel \in BOOLEAN /\ state.created \in BOOLEAN
  BY DEF States
<1>2. /\ RL \in Commands /\ RH \in Commands /\ RE \in Commands /\ D \in Commands
      /\ R6 \in Commands /\ RU \in Commands /\ RT \in Commands
  BY ClaimFacts DEF Rules
<1> HIDE DEF RL, RH, D, RE, R6, RU, RT
<1>3. /\ <<RL>> \in Seq(Commands) /\ <<RH>> \in Seq(Commands) /\ <<D>> \in Seq(Commands)
      /\ <<RE>> \in Seq(Commands) /\ <<R6, RU, RT>> \in Seq(Commands)
  BY <1>2
<1>4. /\ L \in Seq(Commands) /\ H \in Seq(Commands) /\ N \in Seq(Commands)
      /\ E \in Seq(Commands) /\ R \in Seq(Commands)
  BY <1>1, <1>3, InIf
<1>5. ASSUME NEW c
      PROVE  /\ In(c, L) <=> state.low /\ c = RL
             /\ In(c, H) <=> state.high /\ c = RH
             /\ In(c, N) <=> state.tunnel /\ c = D
             /\ In(c, E) <=> state.created /\ c = RE
             /\ In(c, R) <=> state.tunnel /\ c \in {R6, RU, RT}
  <2>1. /\ In(c, <<RL>>) <=> c = RL
        /\ In(c, <<RH>>) <=> c = RH
        /\ In(c, <<D>>) <=> c = D
        /\ In(c, <<RE>>) <=> c = RE
    BY <1>2, InOne
  <2>2. In(c, <<R6, RU, RT>>) <=> c \in {R6, RU, RT}
    BY <1>2, InThree
  <2> QED
    BY <1>1, <1>3, <2>1, <2>2, InIf
<1>6. RecoverCommands(state) = L \o H \o N \o E \o R
  BY DEF RecoverCommands, RemoveRules, RL, RH, D, RE, R6, RU, RT
<1> HIDE DEF L, H, N, E, R
<1> DEFINE LH == L \o H
           LHN == LH \o N
           LHNE == LHN \o E
<1>7. /\ LH \in Seq(Commands) /\ LHN \in Seq(Commands) /\ LHNE \in Seq(Commands)
      /\ RecoverCommands(state) = LHNE \o R
      /\ LHNE \o R \in Seq(Commands)
  BY <1>4, <1>6
<1>8. ASSUME NEW c
      PROVE  In(c, RecoverCommands(state)) <=>
               In(c, L) \/ In(c, H) \/ In(c, N) \/ In(c, E) \/ In(c, R)
  <2>1. In(c, LH) <=> In(c, L) \/ In(c, H)
    BY <1>4, InConcat
  <2> HIDE DEF LH
  <2>2. In(c, LHN) <=> In(c, LH) \/ In(c, N)
    BY <1>4, <1>7, InConcat
  <2> HIDE DEF LHN
  <2>3. In(c, LHNE) <=> In(c, LHN) \/ In(c, E)
    BY <1>4, <1>7, InConcat
  <2> HIDE DEF LHNE
  <2>4. In(c, LHNE \o R) <=> In(c, LHNE) \/ In(c, R)
    BY <1>4, <1>7, InConcat
  <2> QED
    BY <1>7, <2>1, <2>2, <2>3, <2>4
<1>9. ASSUME NEW x \in Items
      PROVE  In(Remove(x), RecoverCommands(state)) <=> x \in Claimed(state)
  <2>1. /\ Remove(x) # D
        /\ Remove(x) = RL <=> x = Low
        /\ Remove(x) = RH <=> x = High
        /\ Remove(x) = RE <=> x = HostRoute(state.endpoint)
        /\ Remove(x) \in {R6, RU, RT} <=> x \in Rules(id)
    BY CommandFacts DEF Rules, RL, RH, D, RE, R6, RU, RT
  <2> QED
    BY <1>5, <1>8, <2>1 DEF Claimed
<1>10. ASSUME NEW c, In(c, RecoverCommands(state))
       PROVE  c = D \/ \E x \in Claimed(state) : c = Remove(x)
  BY <1>5, <1>8, <1>10, ClaimFacts DEF Claimed, Rules, RL, RH, D, RE, R6, RU, RT
<1>11. state.tunnel => In(D, RecoverCommands(state))
  BY <1>5, <1>8
<1>12. /\ ~In(RE, LH)
       /\ state.low => In(RL, LH)
       /\ state.high => In(RH, LH)
  <2>1. RE # RL /\ RE # RH
    BY CommandFacts, ItemFacts DEF RE, RL, RH
  <2> QED
    BY <1>4, <1>5, <2>1, InConcat
<1>13. ASSUME NEW c, In(c, LH)
       PROVE  Before(c, RE, RecoverCommands(state))
  <2>1. Before(c, RE, LH)
    BY <1>12 DEF Before, In
  <2> HIDE DEF LH
  <2>2. Before(c, RE, LHN) /\ In(c, LHN)
    BY <1>4, <1>7, <1>13, <2>1, BeforeConcat, InConcat
  <2> HIDE DEF LHN
  <2>3. Before(c, RE, LHNE) /\ In(c, LHNE)
    BY <1>4, <1>7, <2>2, BeforeConcat, InConcat
  <2> HIDE DEF LHNE
  <2> QED
    BY <1>4, <1>7, <2>3, BeforeConcat
<1> QED
  BY <1>7, <1>9, <1>10, <1>11, <1>12, <1>13 DEF RL, RH, RE, D

\* install makes nothing but what its state claims, besides setting the DNS
\* servers.
LEMMA InstallFacts ==
  ASSUME NEW state \in States, state.tunnel, NEW aliases \in BOOLEAN
  PROVE  /\ InstallCommands(state, aliases) \in Seq(Commands)
         /\ \A c : In(c, InstallCommands(state, aliases)) =>
                     c = SetDns("tunnel") \/ \E x \in Claimed(state) : c = Add(x)
<1> DEFINE id == state.rules
           A6 == Add(Rule("Ipv6", id))
           AU == Add(Rule("DnsUdp", id))
           AT == Add(Rule("DnsTcp", id))
           AL == Add(Low)
           AH == Add(High)
           D == SetDns("tunnel")
           L == If(state.low, <<AL>>)
           H == If(state.high, <<AH>>)
           R == If(aliases, <<AU, AT>>)
<1>1. state.low \in BOOLEAN /\ state.high \in BOOLEAN
  BY DEF States
<1>2. /\ AL \in Commands /\ AH \in Commands /\ D \in Commands
      /\ A6 \in Commands /\ AU \in Commands /\ AT \in Commands
  BY ClaimFacts DEF Rules
<1> HIDE DEF AL, AH, D, A6, AU, AT
<1>3. /\ <<AL>> \in Seq(Commands) /\ <<AH>> \in Seq(Commands)
      /\ <<D, A6>> \in Seq(Commands) /\ <<AU, AT>> \in Seq(Commands)
  BY <1>2
<1>4. L \in Seq(Commands) /\ H \in Seq(Commands) /\ R \in Seq(Commands)
  BY <1>1, <1>3, InIf
<1>5. ASSUME NEW c
      PROVE  /\ In(c, L) <=> state.low /\ c = AL
             /\ In(c, H) <=> state.high /\ c = AH
             /\ In(c, <<D, A6>>) <=> c \in {D, A6}
             /\ In(c, R) <=> aliases /\ c \in {AU, AT}
  <2>1. /\ In(c, <<AL>>) <=> c = AL
        /\ In(c, <<AH>>) <=> c = AH
    BY <1>2, InOne
  <2>2. /\ In(c, <<D, A6>>) <=> c \in {D, A6}
        /\ In(c, <<AU, AT>>) <=> c \in {AU, AT}
    BY <1>2, InTwo
  <2> QED
    BY <1>1, <1>3, <2>1, <2>2, InIf
<1> DEFINE M == <<D, A6>>
           LH == L \o H
           LHM == LH \o M
<1>6. /\ InstallCommands(state, aliases) = LHM \o R
      /\ M \in Seq(Commands) /\ LH \in Seq(Commands) /\ LHM \in Seq(Commands)
      /\ LHM \o R \in Seq(Commands)
  <2>1. InstallCommands(state, aliases) = LHM \o R
    BY DEF InstallCommands, AL, AH, D, A6, AU, AT
  <2> HIDE DEF L, H, R
  <2> QED
    BY <1>3, <1>4, <2>1
<1> HIDE DEF L, H, R
<1>7. ASSUME NEW c, In(c, InstallCommands(state, aliases))
      PROVE  In(c, L) \/ In(c, H) \/ In(c, M) \/ In(c, R)
  <2>1. In(c, LH) <=> In(c, L) \/ In(c, H)
    BY <1>4, InConcat
  <2> HIDE DEF LH, M
  <2>2. In(c, LHM) <=> In(c, LH) \/ In(c, M)
    BY <1>6, InConcat
  <2> HIDE DEF LHM
  <2>3. In(c, LHM \o R) <=> In(c, LHM) \/ In(c, R)
    BY <1>4, <1>6, InConcat
  <2> QED
    BY <1>6, <1>7, <2>1, <2>2, <2>3
<1>8. ASSUME NEW c, In(c, InstallCommands(state, aliases))
      PROVE  c = D \/ \E x \in Claimed(state) : c = Add(x)
  BY <1>5, <1>7, <1>8, ClaimFacts DEF Claimed, Rules, AL, AH, D, A6, AU, AT
<1> QED
  BY <1>6, <1>8 DEF D
-----------------------------------------------------------------------------
(* Every step keeps the invariants                                         *)

\* What the callers of recover do next.
LEMMA ReturnEffect ==
  ASSUME caller \in Callers, Return
  PROVE  \/ /\ stage' \in {"ready", "query", "down"}
            /\ caller' = caller /\ todo' = todo
         \/ stage' = "recover" /\ caller' = "finally" /\ todo' = <<>>
BY DEF Callers, Return, Recover, Continue

\* What install writes.
LEMMA InstallState ==
  ASSUME TypeOK, Install
  PROVE  /\ file \in States /\ file' \in States
         /\ file'.endpoint = file.endpoint /\ file'.created = file.created
         /\ file'.tunnel = TRUE /\ file'.dns = dns
         /\ file'.low = (Low \notin items) /\ file'.high = (High \notin items)
<1>1. file \in States
  BY DEF TypeOK, Install
<1>2. installs' \in 0 .. MaxInstalls
  BY NetworkPolicyAssumption DEF TypeOK, Install
<1>3. file' = [file EXCEPT !.tunnel = TRUE, !.low = Low \notin items,
                           !.high = High \notin items, !.dns = dns, !.rules = installs']
  BY DEF Install
<1>4. dns \in {"own", "tunnel"}
  BY DEF TypeOK
<1> QED
  BY <1>1, <1>2, <1>3, <1>4 DEF States

\* The command that runs next.
LEMMA NextCommand ==
  ASSUME TypeOK, todo # <<>>
  PROVE  Head(todo) \in Commands /\ In(Head(todo), todo) /\ Tail(todo) \in Seq(Commands)
BY InTail DEF TypeOK

\* The empty list of commands.
LEMMA InNothing ==
  /\ <<>> \in Seq(Commands)
  /\ \A c : ~In(c, <<>>)
BY DEF In

\* Every step keeps the types.
LEMMA TypeStep == TypeOK /\ [Next]_vars => TypeOK'
<1> SUFFICES ASSUME TypeOK, [Next]_vars PROVE TypeOK'
  OBVIOUS
<1> USE DEF TypeOK, Stages, system, manifests, vars
<1>1. ASSUME NothingToRecover PROVE TypeOK'
  <2>1. caller \in Callers /\ Return
    BY <1>1 DEF NothingToRecover
  <2>2. caller' \in Callers /\ stage' \in Stages /\ todo' \in Seq(Commands)
        /\ stage' \in {"ready", "query", "down", "recover"}
    BY <2>1, ReturnEffect, InNothing DEF Callers
  <2> QED
    BY <1>1, <2>2 DEF NothingToRecover
<1>2. ASSUME BeginRecovery PROVE TypeOK'
  BY <1>2, RecoverFacts DEF BeginRecovery
<1>3. ASSUME Undo PROVE TypeOK'
  BY <1>3, NextCommand, RunEffect DEF Undo
<1>4. ASSUME Forget PROVE TypeOK'
  <2>1. caller \in Callers /\ Return
    BY <1>4 DEF Forget
  <2>2. caller' \in Callers /\ stage' \in Stages /\ todo' \in Seq(Commands)
        /\ stage' \in {"ready", "query", "down", "recover"}
    BY <2>1, ReturnEffect, InNothing DEF Callers
  <2> QED
    BY <1>4, <2>2 DEF Forget
<1>5. ASSUME RecoveryFails PROVE TypeOK'
  <2>1. caller \in Callers /\ (Return \/ Recover("final") \/ Recover("finally"))
    BY <1>5 DEF RecoveryFails
  <2>2. caller' \in Callers /\ stage' \in Stages /\ todo' \in Seq(Commands)
        /\ stage' \in {"ready", "query", "down", "recover"}
    BY <2>1, ReturnEffect, InNothing DEF Callers, Recover
  <2> QED
    BY <1>5, <2>2 DEF RecoveryFails
<1>6. ASSUME NEW m \in Manifests, LoadManifest(m) PROVE TypeOK'
  BY <1>6 DEF LoadManifest, Manifests
<1>7. ASSUME AcceptManifest PROVE TypeOK'
  <2>1. manifest.sequence \in Nat
    BY <1>7, NetworkPolicyAssumption DEF AcceptManifest, Manifests
  <2>2. CASE manifest.usable
    BY <1>7, <2>1, <2>2, InNothing DEF AcceptManifest, Recover, Callers
  <2>3. CASE ~manifest.usable
    BY <1>7, <2>1, <2>3 DEF AcceptManifest, Continue
  <2> QED
    BY <2>2, <2>3
<1>8. ASSUME NEW e \in Endpoints, Attempt(e) PROVE TypeOK'
  BY <1>8, InNothing DEF Attempt, Recover, Continue, Callers
<1>9. ASSUME Claim PROVE TypeOK'
  <2>1. file' \in States
    BY <1>9, NetworkPolicyAssumption DEF Claim, States
  <2> QED
    BY <1>9, <2>1 DEF Claim
<1>10. ASSUME CreateRoute PROVE TypeOK'
  BY <1>10 DEF CreateRoute, Items, Routes
<1>11. ASSUME Install PROVE TypeOK'
  <2>1. file' \in States /\ file'.tunnel
    BY <1>11, InstallState
  <2>2. PICK aliases \in BOOLEAN : todo' = InstallCommands(file', aliases)
    BY <1>11 DEF Install
  <2>3. todo' \in Seq(Commands)
    BY <2>1, <2>2, InstallFacts
  <2> QED
    BY <1>11, <2>1, <2>3, NetworkPolicyAssumption DEF Install
<1>12. ASSUME Command PROVE TypeOK'
  BY <1>12, NextCommand, RunEffect DEF Command
<1>13. ASSUME Installed PROVE TypeOK'
  BY <1>13 DEF Installed
<1>14. ASSUME CommandFails PROVE TypeOK'
  BY <1>14, InNothing DEF CommandFails, Recover, Callers
<1>15. ASSUME AttemptEnds PROVE TypeOK'
  BY <1>15, InNothing DEF AttemptEnds, Recover, Callers
<1>16. ASSUME Stop PROVE TypeOK'
  BY <1>16, InNothing DEF Stop, Recover, Callers
<1>17. ASSUME StopService PROVE TypeOK'
  BY <1>17, InNothing DEF StopService, Recover, Callers
<1>18. ASSUME Crash PROVE TypeOK'
  BY <1>18, InNothing DEF Crash
<1>19. ASSUME UNCHANGED vars PROVE TypeOK'
  BY <1>19 DEF vars
<1>20. ASSUME UndoFails PROVE TypeOK'
  BY <1>20, NextCommand DEF UndoFails
<1> QED
  BY <1>1, <1>2, <1>3, <1>4, <1>5, <1>6, <1>7, <1>8, <1>9, <1>10,
     <1>11, <1>12, <1>13, <1>14, <1>15, <1>16, <1>17, <1>18, <1>19, <1>20 DEF Next

\* Whatever recoveries were given up and tried again, no step takes away a
\* route that was there before the client, or prepares to.
LEMMA HarmlessStep == TypeOK /\ HarmlessInv /\ [Next]_vars => HarmlessInv'
<1> SUFFICES ASSUME TypeOK, HarmlessInv, [Next]_vars PROVE HarmlessInv'
  OBVIOUS
<1> USE DEF HarmlessInv, system, manifests, vars
<1>1. ASSUME NothingToRecover PROVE HarmlessInv'
  <2>1. caller \in Callers /\ (Return)
    BY <1>1 DEF NothingToRecover, TypeOK
  <2>2. todo' \in {todo, <<>>}
    BY <2>1, ReturnEffect
  <2> QED
    BY <1>1, <2>2, InNothing, NetworkPolicyAssumption DEF NothingToRecover
<1>2. ASSUME BeginRecovery PROVE HarmlessInv'
  <2>1. file \in States /\ original \subseteq Items
    BY <1>2 DEF BeginRecovery, TypeOK, Items
  <2>2. \A x \in original : ~In(Remove(x), RecoverCommands(file))
    BY <2>1, RecoverFacts
  <2> QED
    BY <1>2, <2>2 DEF BeginRecovery
<1>3. ASSUME Undo PROVE HarmlessInv'
  <2>1. Head(todo) \in Commands /\ In(Head(todo), todo) /\ Run(Head(todo))
    BY <1>3, NextCommand DEF Undo
  <2>2. original \subseteq items'
    BY <2>1, RunEffect
  <2>3. \A c : In(c, Tail(todo)) => In(c, todo)
    BY <1>3, InTail DEF Undo, TypeOK
  <2> QED
    BY <1>3, <2>2, <2>3 DEF Undo
<1>4. ASSUME Forget PROVE HarmlessInv'
  <2>1. caller \in Callers /\ (Return)
    BY <1>4 DEF Forget, TypeOK
  <2>2. todo' \in {todo, <<>>}
    BY <2>1, ReturnEffect
  <2> QED
    BY <1>4, <2>2, InNothing, NetworkPolicyAssumption DEF Forget
<1>5. ASSUME RecoveryFails PROVE HarmlessInv'
  <2>1. caller \in Callers /\ (Return \/ Recover("final") \/ Recover("finally"))
    BY <1>5 DEF RecoveryFails, TypeOK
  <2>2. todo' \in {todo, <<>>}
    BY <2>1, ReturnEffect DEF Recover
  <2> QED
    BY <1>5, <2>2, InNothing, NetworkPolicyAssumption DEF RecoveryFails
<1>6. ASSUME NEW m \in Manifests, LoadManifest(m) PROVE HarmlessInv'
  BY <1>6 DEF LoadManifest, Manifests
<1>7. ASSUME AcceptManifest PROVE HarmlessInv'
  BY <1>7, InNothing DEF AcceptManifest, Recover, Continue
<1>8. ASSUME NEW e \in Endpoints, Attempt(e) PROVE HarmlessInv'
  BY <1>8, InNothing DEF Attempt, Recover, Continue
<1>9. ASSUME Claim PROVE HarmlessInv'
  <2>1. \A x \in Claimed(file') : x = HostRoute(endpoint) /\ x \notin items
    BY <1>9 DEF Claim, Claimed
  <2> QED
    BY <1>9, <2>1 DEF Claim
<1>10. ASSUME CreateRoute PROVE HarmlessInv'
  BY <1>10 DEF CreateRoute
<1>11. ASSUME Install PROVE HarmlessInv'
  <2>1. Claimed(file') \cap original = {}
    <3>1. ASSUME NEW x \in Claimed(file'), x \in original PROVE FALSE
      <4>1. x \notin Rules(file'.rules)
        BY <3>1, RuleFacts DEF TypeOK
      <4>2. x = HostRoute(file.endpoint) /\ file.created
        BY <1>11, <3>1, <4>1, InstallState DEF Claimed
      <4>3. x \in Claimed(file)
        BY <3>1, <4>2 DEF Claimed
      <4> QED
        BY <1>11, <3>1, <4>3, InstallState
    <3> QED
      BY <3>1
  <2>2. \A x : ~In(Remove(x), todo')
    <3>1. PICK aliases \in BOOLEAN : todo' = InstallCommands(file', aliases)
      BY <1>11 DEF Install
    <3>2. file' \in States /\ file'.tunnel
      BY <1>11, InstallState
    <3>3. \A c : In(c, todo') =>
                   c = SetDns("tunnel") \/ \E x \in Claimed(file') : c = Add(x)
      BY <3>1, <3>2, InstallFacts
    <3> QED
      BY <3>3, CommandFacts
  <2> QED
    BY <1>11, <2>1, <2>2 DEF Install
<1>12. ASSUME Command PROVE HarmlessInv'
  <2>1. Head(todo) \in Commands /\ In(Head(todo), todo) /\ Run(Head(todo))
    BY <1>12, NextCommand DEF Command
  <2>2. original \subseteq items'
    BY <2>1, RunEffect
  <2>3. \A c : In(c, Tail(todo)) => In(c, todo)
    BY <1>12, InTail DEF Command, TypeOK
  <2> QED
    BY <1>12, <2>2, <2>3 DEF Command
<1>13. ASSUME Installed PROVE HarmlessInv'
  BY <1>13 DEF Installed
<1>14. ASSUME CommandFails PROVE HarmlessInv'
  BY <1>14, InNothing DEF CommandFails, Recover
<1>15. ASSUME AttemptEnds PROVE HarmlessInv'
  BY <1>15, InNothing DEF AttemptEnds, Recover
<1>16. ASSUME Stop PROVE HarmlessInv'
  BY <1>16, InNothing DEF Stop, Recover
<1>17. ASSUME StopService PROVE HarmlessInv'
  BY <1>17, InNothing DEF StopService, Recover
<1>18. ASSUME Crash PROVE HarmlessInv'
  BY <1>18, InNothing DEF Crash
<1>19. ASSUME UNCHANGED vars PROVE HarmlessInv'
  BY <1>19 DEF vars
<1>20. ASSUME UndoFails PROVE HarmlessInv'
  <2>1. \A c : In(c, Tail(todo)) => In(c, todo)
    BY <1>20, InTail DEF UndoFails, TypeOK
  <2> QED
    BY <1>20, <2>1 DEF UndoFails
<1> QED
  BY <1>1, <1>2, <1>3, <1>4, <1>5, <1>6, <1>7, <1>8, <1>9, <1>10,
     <1>11, <1>12, <1>13, <1>14, <1>15, <1>16, <1>17, <1>18, <1>19, <1>20 DEF Next

\* The service starts with nothing done.
LEMMA InitHarmless == Init => TypeOK /\ HarmlessInv
<1> SUFFICES ASSUME Init PROVE TypeOK /\ HarmlessInv
  OBVIOUS
<1>1. TypeOK
  BY NetworkPolicyAssumption, InNothing DEF Init, TypeOK, Routes, Items, Stages
<1>2. HarmlessInv
  BY NetworkPolicyAssumption, InNothing DEF Init, HarmlessInv
<1> QED
  BY <1>1, <1>2

\* Routes that were there before the client are never removed, also when
\* recoveries are given up and tried again (the Created flags of prepare and
\* install).
THEOREM OriginalsKept == Spec => []OriginalsAreKept
<1>1. HarmlessInv => OriginalsAreKept
  BY DEF HarmlessInv, OriginalsAreKept
<1> QED
  BY <1>1, InitHarmless, TypeStep, HarmlessStep, PTL DEF Spec

\* As long as no recovery is given up, every step leaves the system in a state
\* the file accounts for but for what recover failed to undo, and the server
\* within reach.
LEMMA TidyStep ==
  TypeOK /\ HarmlessInv /\ Tidy /\ failures = 0 /\ [Next]_vars /\ failures' = 0 => Tidy'
<1> SUFFICES ASSUME TypeOK, HarmlessInv, Tidy, failures = 0, [Next]_vars, failures' = 0
             PROVE  Tidy'
  OBVIOUS
<1> USE DEF system, manifests, vars
<1>1. ASSUME NothingToRecover PROVE Tidy'
  <2>1. stage' \in {"ready", "query", "down", "recover"}
    BY <1>1, ReturnEffect DEF NothingToRecover, TypeOK
  <2>2. file' = NoState /\ Made' = {} /\ ~DnsMade'
    BY <1>1 DEF NothingToRecover, Tidy, Accounted, Made, DnsMade
  <2> QED
    BY <2>1, <2>2, NetworkPolicyAssumption
    DEF Tidy, Accounted, Reaching, Installing, Undoing, ServerStaysReachable
<1>2. ASSUME BeginRecovery PROVE Tidy'
  <2>1. file \in States /\ file' = file /\ items' = items
        /\ stage' = "undoing" /\ todo' = RecoverCommands(file)
    BY <1>2 DEF BeginRecovery, TypeOK
  <2>2. Made' = Made /\ DnsMade' = DnsMade /\ missed' = missed
    BY <1>2 DEF BeginRecovery, Made, DnsMade
  <2>3. /\ Made \subseteq Claimed(file)
        /\ file.dns = "own" \/ SetDns("own") \in missed
        /\ DnsMade => file.tunnel
        /\ ServerStaysReachable
    BY <2>1 DEF Tidy, Accounted
  <2>4. \A x \in Made : In(Remove(x), todo')
    BY <2>1, <2>3, RecoverFacts DEF Claimed
  <2>5. DnsMade => In(SetDns("own"), todo')
    BY <2>1, <2>3, RecoverFacts DEF DnsMade
  <2>6. \A c \in Commands :
          In(c, todo') => c = SetDns(file.dns) \/ \E x \in Items : c = Remove(x)
    BY <2>1, RecoverFacts DEF Claimed
  <2>7. \A x \in Made \cap {Low, High} :
          Before(Remove(x), Remove(HostRoute(file.endpoint)), todo')
    <3>1. ASSUME NEW x \in Made \cap {Low, High}
          PROVE  (x = Low /\ file.low) \/ (x = High /\ file.high)
      BY <2>3, ItemFacts, RuleFacts DEF Claimed, Routes
    <3> QED
      BY <2>1, <3>1, RecoverFacts
  <2>8. Undoing'
    BY <2>1, <2>2, <2>4, <2>5, <2>6, <2>7 DEF Undoing
  <2>9. Accounted' /\ Reaching' /\ Installing' /\ ServerStaysReachable'
    BY <2>1, <2>2, <2>3, <1>2, NetworkPolicyAssumption
    DEF BeginRecovery, Accounted, Reaching, Installing, ServerStaysReachable
  <2> QED
    BY <2>8, <2>9 DEF Tidy
<1>3. ASSUME Undo \/ UndoFails PROVE Tidy'
  <2> DEFINE h == Head(todo)
  <2>1. /\ h \in Commands /\ In(h, todo) /\ todo' = Tail(todo) /\ todo # <<>>
        /\ file \in States /\ file' = file /\ original' = original
        /\ stage = "undoing" /\ stage' = "undoing"
    BY <1>3, NextCommand DEF Undo, UndoFails, TypeOK
  <2>2. \/ Run(h) /\ missed' = missed \ {h}
        \/ items' = items /\ dns' = dns /\ missed' = missed \cup {h}
    BY <1>3 DEF Undo, UndoFails
  <2>3. /\ \A c : In(c, todo) <=> c = h \/ In(c, todo')
        /\ \A c, d : Before(c, d, todo) => d # h /\ (c = h \/ Before(c, d, todo'))
    BY <2>1, InTail DEF TypeOK
  <2> HIDE DEF h
  <2>4. Undoing /\ Accounted /\ ServerStaysReachable
    BY DEF Tidy
  <2>5. h = SetDns(file.dns) \/ \E x \in Items : h = Remove(x)
    BY <2>1, <2>4 DEF Undoing
  <2>6. /\ Made' \subseteq Made
        /\ \A x \in Made' : h # Remove(x)
        /\ DnsMade' => DnsMade /\ h # SetDns("own")
        /\ \A x \in items : h # Remove(x) => x \in items'
        /\ file.dns = "own" \/ SetDns("own") \in missed'
    <3>1. file.dns \in {"own", "tunnel"} /\ (file.dns = "own" \/ SetDns("own") \in missed)
      BY <2>1, <2>4 DEF Accounted, States
    <3>2. CASE Run(h) /\ missed' = missed \ {h}
      <4>1. \/ \E x \in Items : h = Remove(x) /\ items' = items \ {x} /\ dns' = dns
            \/ h = SetDns(file.dns) /\ items' = items /\ dns' = file.dns
        <5>1. \/ \E x \in Items : h = Add(x) /\ items' = items \cup {x} /\ dns' = dns
              \/ \E x \in Items : h = Remove(x) /\ items' = items \ {x} /\ dns' = dns
              \/ \E to \in {"own", "tunnel"} : h = SetDns(to) /\ items' = items /\ dns' = to
          BY <2>1, <3>2, RunEffect
        <5> QED
          BY <2>5, <5>1, CommandFacts
      <4>2. CASE \E x \in Items : h = Remove(x) /\ items' = items \ {x} /\ dns' = dns
        BY <2>1, <3>1, <3>2, <4>2, CommandFacts DEF Made, DnsMade
      <4>3. CASE h = SetDns(file.dns) /\ items' = items /\ dns' = file.dns
        BY <2>1, <3>1, <3>2, <4>3, CommandFacts DEF Made, DnsMade
      <4> QED
        BY <4>1, <4>2, <4>3
    <3>3. CASE items' = items /\ dns' = dns /\ missed' = missed \cup {h}
      BY <2>1, <3>1, <3>3 DEF Made, DnsMade
    <3> QED
      BY <2>2, <3>2, <3>3
  <2>7. Undoing'
    <3>1. \A x \in Made' : In(Remove(x), todo')
      BY <2>1, <2>3, <2>4, <2>6 DEF Undoing
    <3>2. DnsMade' => In(SetDns("own"), todo')
      BY <2>1, <2>3, <2>4, <2>6 DEF Undoing
    <3>3. \A c \in Commands :
            In(c, todo') => c = SetDns(file.dns) \/ \E x \in Items : c = Remove(x)
      BY <2>1, <2>3, <2>4 DEF Undoing
    <3>4. \A x \in Made' \cap {Low, High} :
            Before(Remove(x), Remove(HostRoute(file.endpoint)), todo')
      BY <2>1, <2>3, <2>4, <2>6 DEF Undoing
    <3> QED
      BY <2>1, <3>1, <3>2, <3>3, <3>4 DEF Undoing
  <2>8. Accounted'
    BY <2>1, <2>4, <2>6, NetworkPolicyAssumption DEF Accounted
  <2>9. ServerStaysReachable'
    <3> SUFFICES ASSUME NEW x \in Made' \cap {Low, High}
                 PROVE  HostRoute(file.endpoint) \in items'
      BY <2>1, NetworkPolicyAssumption DEF ServerStaysReachable
    <3>1. x \in Made \cap {Low, High}
      BY <2>6
    <3>2. HostRoute(file.endpoint) \in items
      BY <3>1, <2>4 DEF ServerStaysReachable
    <3>3. h # Remove(HostRoute(file.endpoint))
      BY <2>1, <2>3, <2>4, <3>1 DEF Undoing
    <3> QED
      BY <2>6, <3>2, <3>3
  <2> QED
    BY <2>1, <2>7, <2>8, <2>9 DEF Tidy, Reaching, Installing
<1>4. ASSUME Forget PROVE Tidy'
  <2>1. stage' \in {"ready", "query", "down", "recover"}
    BY <1>4, ReturnEffect DEF Forget, TypeOK
  <2>2. file' = NoState /\ Made' = {} /\ ~DnsMade'
    BY <1>4, InNothing DEF Forget, Tidy, Undoing, Made, DnsMade
  <2> QED
    BY <2>1, <2>2, NetworkPolicyAssumption
    DEF Tidy, Accounted, Reaching, Installing, Undoing, ServerStaysReachable
<1>5. ASSUME RecoveryFails PROVE Tidy'
  BY <1>5 DEF RecoveryFails, TypeOK
<1>6. ASSUME NEW m \in Manifests, LoadManifest(m) PROVE Tidy'
  BY <1>6 DEF LoadManifest, Manifests,
     Tidy, Accounted, Reaching, Installing, Undoing, ServerStaysReachable, Made, DnsMade
<1>7. ASSUME AcceptManifest PROVE Tidy'
  BY <1>7 DEF AcceptManifest, Recover, Continue,
     Tidy, Accounted, Reaching, Installing, Undoing, ServerStaysReachable, Made, DnsMade
<1>8. ASSUME NEW e \in Endpoints, Attempt(e) PROVE Tidy'
  <2>1. file = NoState
    BY <1>8 DEF Attempt, Tidy, Accounted
  <2> QED
    BY <1>8, <2>1 DEF Attempt, Continue,
     Tidy, Accounted, Reaching, Installing, Undoing, ServerStaysReachable, Made, DnsMade
<1>9. ASSUME Claim PROVE Tidy'
  <2>1. Made' = {} /\ ~DnsMade'
    BY <1>9 DEF Claim, Tidy, Accounted, Made, DnsMade
  <2>2. file' \in States
    BY <1>9, NetworkPolicyAssumption DEF Claim, TypeOK, States
  <2>3. Reaching'
    BY <1>9, <2>1 DEF Claim, Reaching
  <2> QED
    BY <1>9, <2>1, <2>2, <2>3, NetworkPolicyAssumption
    DEF Claim, Tidy, Accounted, Installing, Undoing, ServerStaysReachable
<1>10. ASSUME CreateRoute PROVE Tidy'
  <2>1. /\ file \in States /\ file' = file /\ missed' = missed
        /\ stage = "route" /\ stage' = "connecting" /\ file.endpoint = endpoint
        /\ items' = IF file.created THEN items \cup {HostRoute(file.endpoint)} ELSE items
    BY <1>10 DEF CreateRoute, TypeOK, Tidy, Reaching
  <2>2. /\ Made' \subseteq Made \cup (IF file.created THEN {HostRoute(file.endpoint)} ELSE {})
        /\ DnsMade' = DnsMade
    BY <1>10, <2>1 DEF CreateRoute, Made, DnsMade
  <2>3. Reaching'
    BY <2>1, <2>2 DEF Tidy, Reaching
  <2>4. ServerStaysReachable'
    BY <2>1, <2>3, ItemFacts DEF Reaching, ServerStaysReachable
  <2>5. Accounted'
    BY <2>1, <2>2, ClaimFacts, NetworkPolicyAssumption DEF Tidy, Accounted, Claimed
  <2> QED
    BY <2>1, <2>3, <2>4, <2>5 DEF Tidy, Installing, Undoing
<1>11. ASSUME Install PROVE Tidy'
  <2>1. /\ items' = items /\ missed' = missed
        /\ stage = "connecting" /\ stage' = "commands"
        /\ file \in States /\ file' \in States /\ file'.tunnel /\ file'.dns = dns
        /\ file'.endpoint = file.endpoint /\ file'.created = file.created
    BY <1>11, InstallState DEF Install
  <2>2. Made' = Made /\ DnsMade' = DnsMade
    BY <1>11 DEF Install, Made, DnsMade
  <2>3. /\ Made \subseteq {HostRoute(file.endpoint)}
        /\ Made \subseteq Claimed(file)
        /\ ~DnsMade /\ ~file.tunnel /\ HostRoute(file.endpoint) \in items
    BY <2>1 DEF Tidy, Reaching, Accounted
  <2>4. Made \subseteq Claimed(file')
    BY <2>1, <2>3, ItemFacts DEF Claimed
  <2>5. Installing'
    <3>1. PICK aliases \in BOOLEAN : todo' = InstallCommands(file', aliases)
      BY <1>11 DEF Install
    <3> QED
      BY <2>1, <3>1, InstallFacts DEF Installing
  <2>6. file'.dns = "own" \/ SetDns("own") \in missed'
    BY <2>1, <2>3 DEF DnsMade
  <2>7. Accounted' /\ Reaching' /\ Undoing' /\ ServerStaysReachable'
    BY <2>1, <2>2, <2>3, <2>4, <2>6, NetworkPolicyAssumption
    DEF Accounted, Reaching, Undoing, ServerStaysReachable
  <2> QED
    BY <2>5, <2>7 DEF Tidy
<1>12. ASSUME Command PROVE Tidy'
  <2> DEFINE h == Head(todo)
  <2>1. /\ h \in Commands /\ In(h, todo) /\ Run(h) /\ todo' = Tail(todo)
        /\ file \in States /\ file' = file /\ original' = original /\ missed' = missed
        /\ stage = "commands" /\ stage' = "commands"
    BY <1>12, NextCommand DEF Command, TypeOK
  <2>2. \A c : In(c, todo') => In(c, todo)
    BY <1>12, <2>1, InTail DEF Command, TypeOK
  <2> HIDE DEF h
  <2>3. \/ \E x \in Claimed(file) : items' = items \cup {x} /\ dns' = dns
        \/ items' = items /\ dns' = "tunnel"
    BY <2>1, RunEffect, CommandFacts, SMTT(30) DEF Tidy, Installing
  <2>4. Made' \subseteq Made \cup Claimed(file) /\ items \subseteq items'
    BY <2>1, <2>3 DEF Made
  <2>5. Installing' /\ Undoing'
    BY <2>1, <2>2 DEF Tidy, Installing, Undoing
  <2>6. Accounted'
    BY <2>1, <2>4, NetworkPolicyAssumption DEF Tidy, Accounted, Installing
  <2>7. Reaching' /\ ServerStaysReachable'
    BY <2>1, <2>4, NetworkPolicyAssumption DEF Tidy, Reaching, ServerStaysReachable
  <2> QED
    BY <2>5, <2>6, <2>7 DEF Tidy
<1>13. ASSUME Installed PROVE Tidy'
  BY <1>13 DEF Installed,
     Tidy, Accounted, Reaching, Installing, Undoing, ServerStaysReachable, Made, DnsMade
<1>14. ASSUME CommandFails PROVE Tidy'
  BY <1>14 DEF CommandFails, Recover,
     Tidy, Accounted, Reaching, Installing, Undoing, ServerStaysReachable, Made, DnsMade
<1>15. ASSUME AttemptEnds PROVE Tidy'
  BY <1>15 DEF AttemptEnds, Recover,
     Tidy, Accounted, Reaching, Installing, Undoing, ServerStaysReachable, Made, DnsMade
<1>16. ASSUME Stop PROVE Tidy'
  BY <1>16 DEF Stop, Recover,
     Tidy, Accounted, Reaching, Installing, Undoing, ServerStaysReachable, Made, DnsMade
<1>17. ASSUME StopService PROVE Tidy'
  BY <1>17 DEF StopService, Recover,
     Tidy, Accounted, Reaching, Installing, Undoing, ServerStaysReachable, Made, DnsMade
<1>18. ASSUME Crash PROVE Tidy'
  BY <1>18 DEF Crash,
     Tidy, Accounted, Reaching, Installing, Undoing, ServerStaysReachable, Made, DnsMade
<1>19. ASSUME UNCHANGED vars PROVE Tidy'
  BY <1>19 DEF vars,
     Tidy, Accounted, Reaching, Installing, Undoing, ServerStaysReachable, Made, DnsMade
<1> QED
  BY <1>1, <1>2, <1>3, <1>4, <1>5, <1>6, <1>7, <1>8, <1>9, <1>10,
     <1>11, <1>12, <1>13, <1>14, <1>15, <1>16, <1>17, <1>18, <1>19 DEF Next

\* The inductive invariant of the policy.
THEOREM PolicySafety == Spec => []PolicyInv
<1>1. Init => PolicyInv
  <2> SUFFICES ASSUME Init PROVE PolicyInv
    OBVIOUS
  <2>1. TypeOK /\ HarmlessInv
    BY InitHarmless
  <2>2. Tidy
    BY NetworkPolicyAssumption DEF Init, Tidy, Accounted, Reaching, Installing, Undoing,
       ServerStaysReachable, Made, DnsMade
  <2> QED
    BY <2>1, <2>2 DEF PolicyInv
<1>2. PolicyInv /\ [Next]_vars => PolicyInv'
  <2> SUFFICES ASSUME PolicyInv, [Next]_vars PROVE PolicyInv'
    OBVIOUS
  <2>1. TypeOK' /\ HarmlessInv'
    BY TypeStep, HarmlessStep DEF PolicyInv
  <2>2. failures' = 0 => failures = 0
    BY DEF PolicyInv, TypeOK, Next, NothingToRecover, BeginRecovery, Undo, UndoFails, Forget,
       RecoveryFails, LoadManifest, AcceptManifest, Attempt, Claim, CreateRoute, Install,
       Command, Installed, CommandFails, AttemptEnds, Stop, StopService, Crash, vars
  <2> QED
    BY <2>1, <2>2, TidyStep DEF PolicyInv
<1> QED
  BY <1>1, <1>2, PTL DEF Spec

\* Whenever there is no state file the system is as it was without the client,
\* but for what a command of recover failed to undo, whatever was killed and
\* wherever (recover, _write_state), as long as no recovery was given up.
THEOREM NothingLeftBehind == Spec => []NothingIsLeftBehind
<1>1. PolicyInv => NothingIsLeftBehind
  BY DEF PolicyInv, Tidy, Accounted, NothingIsLeftBehind
<1> QED
  BY <1>1, PolicySafety, PTL

\* While a default route of the client that recover did not fail to remove leads
\* into the tunnel, the server's address has a route around it (the order of the
\* commands in prepare, install and recover).
THEOREM ServerReachable == Spec => []ServerStaysReachable
<1>1. PolicyInv => ServerStaysReachable
  BY DEF PolicyInv, Tidy, ServerStaysReachable
<1> QED
  BY <1>1, PolicySafety, PTL

-----------------------------------------------------------------------------
(* Manifests                                                               *)

\* The stored number and the manifest read with it stay as they are until the
\* manifest is accepted, also over a kill (ManifestState.accept).
LEMMA ManifestStep == TypeOK /\ ManifestInv /\ [Next]_vars => ManifestInv'
<1> SUFFICES ASSUME TypeOK, ManifestInv, [Next]_vars PROVE ManifestInv'
  OBVIOUS
<1> USE DEF ManifestInv, manifests, system, vars
<1>1. ASSUME NothingToRecover PROVE ManifestInv'
  <2>1. caller \in Callers /\ (Return)
    BY <1>1 DEF NothingToRecover, TypeOK
  <2>2. stage' # "accepting"
    BY <2>1, ReturnEffect
  <2> QED
    BY <1>1, <2>2 DEF NothingToRecover
<1>2. ASSUME BeginRecovery PROVE ManifestInv'
  BY <1>2 DEF BeginRecovery
<1>3. ASSUME Undo PROVE ManifestInv'
  BY <1>3 DEF Undo
<1>4. ASSUME Forget PROVE ManifestInv'
  <2>1. caller \in Callers /\ (Return)
    BY <1>4 DEF Forget, TypeOK
  <2>2. stage' # "accepting"
    BY <2>1, ReturnEffect
  <2> QED
    BY <1>4, <2>2 DEF Forget
<1>5. ASSUME RecoveryFails PROVE ManifestInv'
  <2>1. caller \in Callers /\ (Return \/ Recover("final") \/ Recover("finally"))
    BY <1>5 DEF RecoveryFails, TypeOK
  <2>2. stage' # "accepting"
    BY <2>1, ReturnEffect DEF Recover
  <2> QED
    BY <1>5, <2>2 DEF RecoveryFails
<1>6. ASSUME NEW m \in Manifests, LoadManifest(m) PROVE ManifestInv'
  BY <1>6 DEF LoadManifest, Manifests
<1>7. ASSUME AcceptManifest PROVE ManifestInv'
  <2>1. manifest.sequence \in Nat /\ manifest.sequence >= accepted
    BY <1>7, NetworkPolicyAssumption DEF AcceptManifest, TypeOK, Manifests
  <2>2. stage' # "accepting"
    BY <1>7 DEF AcceptManifest, Recover, Continue
  <2> QED
    BY <1>7, <2>1, <2>2 DEF AcceptManifest, TypeOK
<1>8. ASSUME NEW e \in Endpoints, Attempt(e) PROVE ManifestInv'
  BY <1>8 DEF Attempt, Recover, Continue
<1>9. ASSUME Claim PROVE ManifestInv'
  BY <1>9 DEF Claim
<1>10. ASSUME CreateRoute PROVE ManifestInv'
  BY <1>10 DEF CreateRoute
<1>11. ASSUME Install PROVE ManifestInv'
  BY <1>11 DEF Install
<1>12. ASSUME Command PROVE ManifestInv'
  BY <1>12 DEF Command
<1>13. ASSUME Installed PROVE ManifestInv'
  BY <1>13 DEF Installed
<1>14. ASSUME CommandFails PROVE ManifestInv'
  BY <1>14 DEF CommandFails, Recover
<1>15. ASSUME AttemptEnds PROVE ManifestInv'
  BY <1>15 DEF AttemptEnds, Recover
<1>16. ASSUME Stop PROVE ManifestInv'
  BY <1>16 DEF Stop, Recover
<1>17. ASSUME StopService PROVE ManifestInv'
  BY <1>17 DEF StopService, Recover
<1>18. ASSUME Crash PROVE ManifestInv'
  BY <1>18 DEF Crash
<1>19. ASSUME UNCHANGED vars PROVE ManifestInv'
  BY <1>19 DEF vars
<1>20. ASSUME UndoFails PROVE ManifestInv'
  BY <1>20 DEF UndoFails
<1> QED
  BY <1>1, <1>2, <1>3, <1>4, <1>5, <1>6, <1>7, <1>8, <1>9, <1>10,
     <1>11, <1>12, <1>13, <1>14, <1>15, <1>16, <1>17, <1>18, <1>19, <1>20 DEF Next

\* The service never works with a manifest older than one it has accepted
\* before, whatever was killed in between (ManifestState, load_manifest).
THEOREM NoRollback == Spec => ManifestNeverRollsBack
<1>1. Init => TypeOK /\ ManifestInv
  BY InitHarmless DEF Init, ManifestInv
<1>2. ManifestInv =>
        (stage = "accepting" /\ stage' = "recover" => manifest.sequence >= accepted)
  BY DEF ManifestInv
<1> QED
  BY <1>1, <1>2, TypeStep, ManifestStep, PTL DEF Spec, ManifestNeverRollsBack
=============================================================================
