---------------------------- MODULE EdgeSessions ----------------------------
(***************************************************************************)
(* The life of the sessions of one edge (main.rs, network.rs): a carrier   *)
(* is admitted, its task takes a permit, shakes hands, registers the       *)
(* session for migration and leases the client's tunnel address; a further *)
(* carrier may be offered to a running session, which validates the path,  *)
(* switches to it and drains the old one; the end of a session gives back  *)
(* everything it holds, one thing after another.                           *)
(*                                                                         *)
(* A session is named by the carrier that started it, which stands for its *)
(* session id and for its lease id.                                        *)
(*                                                                         *)
(* A WebSocket or HTTP/2 carrier that is dropped is closed.  An HTTP/3 one *)
(* is not: the task that serves further requests on its connection has the *)
(* connection too (accept_connection in h3_edge.rs).                       *)
(***************************************************************************)
EXTENDS Integers, FiniteSets

CONSTANTS
  Carriers,     \* the carriers the edge may be asked to serve
  H3,           \* those of them that are HTTP/3 connections
  Clients,      \* the configured clients, each with its tunnel address
  Permits,      \* MAX_ACTIVE_CARRIERS
  None

ASSUME EdgeSessionsAssumption ==
  /\ IsFiniteSet(Carriers)
  /\ H3 \subseteq Carriers
  /\ Permits \in Nat
  /\ None \notin Carriers

VARIABLES
  draining,         \* AppState.draining
  carriers,         \* permits left in the semaphore AppState.carriers
  sessions_active,  \* Metrics.sessions_active
  sessions,         \* Registry.sessions: who leases the address of a client
  migrations,       \* Runtime.migrations: the sessions that take new carriers
  task,             \* what the task of a session does
  client,           \* the client of a session
  carrier,          \* the carrier a session sends on
  old,              \* the carrier a session drains, or None
  candidate,        \* the carrier in a session's migration channel, or None
  migration,        \* the carrier a session validates, or None
  offered,          \* the carriers in submit_migration
  session,          \* the session a carrier came for, None before it comes
  open              \* the carriers that are open

registries == <<sessions_active, sessions, migrations>>
paths == <<carrier, old, candidate, migration, offered, session>>
vars == <<draining, carriers, registries, task, client, paths, open>>

Init ==
  /\ draining = FALSE
  /\ carriers = Permits
  /\ sessions_active = 0
  /\ sessions = [k \in Clients |-> None]
  /\ migrations = {}
  /\ task = [c \in Carriers |-> "none"]
  /\ client \in [Carriers -> Clients]
  /\ carrier = [c \in Carriers |-> c]
  /\ old = [c \in Carriers |-> None]
  /\ candidate = [c \in Carriers |-> None]
  /\ migration = [c \in Carriers |-> None]
  /\ offered = {}
  /\ session = [c \in Carriers |-> None]
  /\ open = {}

\* Every connection is a new carrier.
Fresh(c) == session[c] = None

\* A session whose migration channel has a receiver.
Receiving(s) == task[s] \in {"registered", "running", "sending", "validating"}

\* Somebody has the carrier and will close or drop it.
Owned(c) ==
  \/ c \in offered
  \/ \E s \in Carriers :
       \/ task[s] # "none" /\ carrier[s] = c
       \/ Receiving(s) /\ c \in {old[s], candidate[s], migration[s]}

\* What dropping the carriers of a set leaves open.
Dropped(cs) == open \ (cs \ H3)

-----------------------------------------------------------------------------
(* From admission to the established session                               *)

\* maybe_tunnel, h2_tunnel, handle_h3_session: a gate token is accepted.
Admit(c) ==
  /\ ~draining
  /\ Fresh(c)
  /\ open' = open \cup {c}
  /\ task' = [task EXCEPT ![c] = "admitted"]
  /\ carrier' = [carrier EXCEPT ![c] = c]
  /\ session' = [session EXCEPT ![c] = c]
  /\ UNCHANGED <<draining, carriers, registries, client, old, candidate, migration, offered>>

\* serve_session takes a permit, or turns the carrier away.
TakePermit(c) ==
  /\ task[c] = "admitted"
  /\ carriers > 0
  /\ carriers' = carriers - 1
  /\ task' = [task EXCEPT ![c] = "permitted"]
  /\ UNCHANGED <<draining, registries, client, paths, open>>

Overloaded(c) ==
  /\ task[c] = "admitted"
  /\ carriers = 0
  /\ open' = open \ {c}
  /\ task' = [task EXCEPT ![c] = "none"]
  /\ UNCHANGED <<draining, carriers, registries, client, paths>>

\* The handshake begins, unless the edge drains by now.
Begin(c) ==
  /\ task[c] = "permitted"
  /\ task' = [task EXCEPT ![c] = IF draining THEN "closing" ELSE "handshake"]
  /\ UNCHANGED <<draining, carriers, registries, client, paths, open>>

\* inner_handshake fails or takes more than ten seconds.
HandshakeFails(c) ==
  /\ task[c] = "handshake"
  /\ task' = [task EXCEPT ![c] = "closing"]
  /\ UNCHANGED <<draining, carriers, registries, client, paths, open>>

\* The session is counted and registered for migration.
Establish(c) ==
  /\ task[c] = "handshake"
  /\ sessions_active' = sessions_active + 1
  /\ migrations' = migrations \cup {c}
  /\ task' = [task EXCEPT ![c] = "registered"]
  /\ UNCHANGED <<draining, carriers, sessions, client, paths, open>>

\* Mutant: a client's new session takes over the address of the old one.
LeaseTaken(c) == FALSE

\* Network::register: contains_key.
Leased(c) == sessions[client[c]] # None

Lease(c) ==
  /\ task[c] = "registered"
  /\ ~Leased(c)
  /\ sessions' = [sessions EXCEPT ![client[c]] = c]
  /\ task' = [task EXCEPT ![c] = "running"]
  /\ UNCHANGED <<draining, carriers, sessions_active, migrations, client, paths, open>>

-----------------------------------------------------------------------------
(* Migration                                                               *)

\* validate_migration_gate: a migration token is accepted.
Offer(m, s) ==
  /\ ~draining
  /\ Fresh(m)
  /\ s \in migrations
  /\ offered' = offered \cup {m}
  /\ session' = [session EXCEPT ![m] = s]
  /\ open' = open \cup {m}
  /\ UNCHANGED <<draining, carriers, registries, task, client, carrier, old, candidate, migration>>

\* submit_migration: the channel has one place.
Submit(m) ==
  /\ m \in offered
  /\ Receiving(session[m])
  /\ candidate[session[m]] = None
  /\ candidate' = [candidate EXCEPT ![session[m]] = m]
  /\ offered' = offered \ {m}
  /\ UNCHANGED <<draining, carriers, registries, task, client, carrier, old, migration, session, open>>

\* Mutant: only a session that is still registered is seen to be gone.
SubmitWaits(m) ==
  /\ m \in offered
  /\ session[m] \in migrations
  /\ ~Receiving(session[m])
  /\ offered' = offered \ {m}
  /\ open' = open \ {m}
  /\ UNCHANGED <<draining, carriers, registries, task, client, carrier, old, candidate, migration, session>>

\* The session is gone, and the candidate is closed.
SubmitFails(m) ==
  /\ m \in offered
  /\ ~Receiving(session[m])
  /\ offered' = offered \ {m}
  /\ open' = open \ {m}
  /\ UNCHANGED <<draining, carriers, registries, task, client, carrier, old, candidate, migration, session>>

\* The migrations branch of run_established_session takes the candidate out of
\* the channel; until its path has been validated the task does nothing else.
Validate(s) ==
  /\ task[s] = "running"
  /\ candidate[s] # None
  /\ task' = [task EXCEPT ![s] = "validating"]
  /\ migration' = [migration EXCEPT ![s] = candidate[s]]
  /\ candidate' = [candidate EXCEPT ![s] = None]
  /\ UNCHANGED <<draining, carriers, registries, client, carrier, old, offered, session, open>>

\* Mutant: the carrier drained so far is dropped, not closed.
SwitchDrops(s) ==
  /\ task[s] = "validating"
  /\ task' = [task EXCEPT ![s] = "running"]
  /\ open' = Dropped({old[s]})
  /\ carrier' = [carrier EXCEPT ![s] = migration[s]]
  /\ old' = [old EXCEPT ![s] = carrier[s]]
  /\ migration' = [migration EXCEPT ![s] = None]
  /\ UNCHANGED <<draining, carriers, registries, client, candidate, offered, session>>

\* The carriers are swapped; the one drained so far is closed.
Switch(s) ==
  /\ task[s] = "validating"
  /\ task' = [task EXCEPT ![s] = "running"]
  /\ open' = open \ {old[s]}
  /\ carrier' = [carrier EXCEPT ![s] = migration[s]]
  /\ old' = [old EXCEPT ![s] = carrier[s]]
  /\ migration' = [migration EXCEPT ![s] = None]
  /\ UNCHANGED <<draining, carriers, registries, client, candidate, offered, session>>

\* The path is not validated in time, or not allowed during a rekey.
ValidationFails(s) ==
  /\ task[s] = "validating"
  /\ task' = [task EXCEPT ![s] = "running"]
  /\ open' = open \ {migration[s]}
  /\ migration' = [migration EXCEPT ![s] = None]
  /\ UNCHANGED <<draining, carriers, registries, client, carrier, old, candidate, offered, session>>

\* recv_draining_carrier: the peer closes the old carrier, or three seconds
\* have passed.
DrainEnds(s) ==
  /\ task[s] = "running"
  /\ old[s] # None
  /\ open' = open \ {old[s]}
  /\ old' = [old EXCEPT ![s] = None]
  /\ UNCHANGED <<draining, carriers, registries, task, client, carrier, candidate, migration, offered, session>>

\* Every other branch may await send_binary or send_pong, on the carrier or the
\* old one, for as long as the peer does not read.
Send(s) ==
  /\ task[s] = "running"
  /\ task' = [task EXCEPT ![s] = "sending"]
  /\ UNCHANGED <<draining, carriers, registries, client, paths, open>>

Sent(s) ==
  /\ task[s] = "sending"
  /\ task' = [task EXCEPT ![s] = "running"]
  /\ UNCHANGED <<draining, carriers, registries, client, paths, open>>

-----------------------------------------------------------------------------
(* The end of a session                                                    *)

\* Drop for SessionLease.
WithoutLease(s) ==
  IF sessions[client[s]] = s THEN [sessions EXCEPT ![client[s]] = None]
                             ELSE sessions

\* run_established_session returns: at once if the client's address is leased
\* already, else when a carrier closes or fails, the lifetime or the quota is
\* over or a record is refused.  What it owns is dropped with it: the lease, the
\* old carrier and the migration channel with the candidate in it.
End(s) ==
  /\ task[s] \in {"registered", "running", "sending"}
  /\ task[s] = "registered" => Leased(s)
  /\ sessions' = IF task[s] = "registered" THEN sessions ELSE WithoutLease(s)
  /\ open' = Dropped({old[s], candidate[s]})
  /\ old' = [old EXCEPT ![s] = None]
  /\ candidate' = [candidate EXCEPT ![s] = None]
  /\ task' = [task EXCEPT ![s] = "leaving"]
  /\ UNCHANGED <<draining, carriers, sessions_active, migrations, client,
                 carrier, migration, offered, session>>

\* Drop for MigrationRegistration and for ActiveSession.
Unregister(s) ==
  /\ task[s] = "leaving"
  /\ migrations' = migrations \ {s}
  /\ sessions_active' = sessions_active - 1
  /\ task' = [task EXCEPT ![s] = "closing"]
  /\ UNCHANGED <<draining, carriers, sessions, client, paths, open>>

\* Mutant: the permit is lost with a carrier that did not shake hands.
CloseKeepsPermit(s) ==
  /\ task[s] = "closing"
  /\ open' = open \ {carrier[s]}
  /\ task' = [task EXCEPT ![s] = "none"]
  /\ UNCHANGED <<draining, carriers, registries, client, paths>>

\* serve_session closes the carrier and drops the permit.
Close(s) ==
  /\ task[s] = "closing"
  /\ open' = open \ {carrier[s]}
  /\ carriers' = carriers + 1
  /\ task' = [task EXCEPT ![s] = "none"]
  /\ UNCHANGED <<draining, registries, client, paths>>

\* The peer gives up a connection nobody else looks at:
\* serve_session_requests returns, and its task closes the connection.
RequestLoopEnds(c) ==
  /\ c \in open
  /\ ~Owned(c)
  /\ open' = open \ {c}
  /\ UNCHANGED <<draining, carriers, registries, task, client, paths>>

\* main: the edge is told to stop.
Drain ==
  /\ ~draining
  /\ draining' = TRUE
  /\ UNCHANGED <<carriers, registries, task, client, paths, open>>

-----------------------------------------------------------------------------

Step(s) ==
  \/ Admit(s) \/ TakePermit(s) \/ Overloaded(s) \/ Begin(s)
  \/ HandshakeFails(s) \/ Establish(s) \/ Lease(s)
  \/ Submit(s) \/ SubmitFails(s)
  \/ Validate(s) \/ Switch(s) \/ ValidationFails(s) \/ DrainEnds(s)
  \/ Send(s) \/ Sent(s)
  \/ End(s) \/ Unregister(s) \/ Close(s) \/ RequestLoopEnds(s)

Next ==
  \/ \E s \in Carriers : Step(s)
  \/ \E m, s \in Carriers : Offer(m, s)
  \/ Drain

\* A session leases or ends at once, its task passes over no branch for ever as
\* often as it comes back to select!, and a sender that can go on does, in turn.
\* Nothing says that a send completes, or that a session ends.
Fairness ==
  \A s \in Carriers :
    /\ WF_vars(Lease(s) \/ (task[s] = "registered" /\ End(s)))
    /\ SF_vars(Submit(s)) /\ WF_vars(SubmitFails(s))
    /\ SF_vars(Validate(s))

Spec == Init /\ [][Next]_vars

FairSpec == Spec /\ Fairness

-----------------------------------------------------------------------------
(* Properties                                                              *)

Count(states) == Cardinality({s \in Carriers : task[s] \in states})

\* Every permit is in the semaphore or held by one task, on every way through
\* serve_session.
PermitsAreConserved ==
  /\ carriers >= 0
  /\ carriers + Count({"permitted", "handshake", "registered", "running", "sending",
                       "validating", "leaving", "closing"}) = Permits

\* A running session keeps its client's address until it ends, whatever
\* other sessions of the client come and go (Network::register and Drop for
\* SessionLease).
LeasesAreKept ==
  \A k \in Clients :
    \A s \in Carriers :
      client[s] = k =>
        (sessions[k] = s <=> task[s] \in {"running", "sending", "validating"})

\* Every open carrier is in somebody's hands, but for HTTP/3 carriers of
\* sessions that have ended: admission, migration, drain and teardown leave none
\* behind while the session it came for goes on (run_established_session,
\* submit_migration, serve_session).
CarriersAreOwned ==
  \A c \in open : Owned(c) \/ (c \in H3 /\ ~Receiving(session[c]))

\* A carrier that waits for a session: in submit_migration or in the channel.
Waiting(m, s) == (m \in offered /\ session[m] = s) \/ candidate[s] = m

\* A carrier offered to a session does not wait for ever, unless the session's
\* task never comes back from a send or a validation: it is taken up, closed or
\* dropped (submit_migration, and the migrations branch).
OffersAreSettled ==
  \A s \in Carriers :
    []<>(task[s] \notin {"sending", "validating"}) =>
      \A m \in Carriers : Waiting(m, s) ~> ~Waiting(m, s)
=============================================================================
