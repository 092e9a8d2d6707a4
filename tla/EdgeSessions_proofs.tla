------------------------ MODULE EdgeSessions_proofs -------------------------
(***************************************************************************)
(* What the sessions of an edge share is never lost and never shared by    *)
(* two of them: permits, addresses and carriers, for any set of carriers   *)
(* of any kind, any set of clients and any number of permits.              *)
(***************************************************************************)
EXTENDS EdgeSessions, FiniteSetTheorems, TLAPS

Tasks == {"none", "admitted", "permitted", "handshake", "registered", "running",
          "sending", "validating", "leaving", "closing"}

\* The types of the state of the edge.
TypeOK ==
  /\ draining \in BOOLEAN
  /\ carriers \in Int
  /\ sessions_active \in Int
  /\ sessions \in [Clients -> Carriers \cup {None}]
  /\ migrations \in SUBSET Carriers
  /\ task \in [Carriers -> Tasks]
  /\ client \in [Carriers -> Clients]
  /\ carrier \in [Carriers -> Carriers]
  /\ old \in [Carriers -> Carriers \cup {None}]
  /\ candidate \in [Carriers -> Carriers \cup {None}]
  /\ migration \in [Carriers -> Carriers \cup {None}]
  /\ offered \in SUBSET Carriers
  /\ session \in [Carriers -> Carriers \cup {None}]
  /\ open \in SUBSET Carriers

-----------------------------------------------------------------------------
(* The inductive invariant behind the ownership of the carriers            *)

\* Only a session that receives migrations holds further carriers, and only one
\* that validates a path holds the carrier it validates.
HoldsByStage ==
  \A s \in Carriers :
    /\ ~Receiving(s) => old[s] = None /\ candidate[s] = None
    /\ task[s] = "validating" <=> migration[s] # None

\* A session only ever holds carriers that came for it.
HeldCameForIt ==
  \A s \in Carriers :
    /\ task[s] # "none" => session[carrier[s]] = s
    /\ old[s] # None => session[old[s]] = s
    /\ candidate[s] # None => session[candidate[s]] = s
    /\ migration[s] # None => session[migration[s]] = s

\* Nothing has come for a session before its first carrier, and nothing but that
\* carrier before the session is registered.
ComesAfterFirst ==
  \A s \in Carriers :
    /\ Fresh(s) =>
         task[s] = "none" /\ s \notin offered /\ \A m \in Carriers : session[m] # s
    /\ task[s] \in {"admitted", "permitted", "handshake"} =>
         carrier[s] = s /\ \A m \in Carriers : session[m] = s => m = s
    /\ s \in migrations => Receiving(s) \/ task[s] = "leaving"

CarrierInv ==
  /\ TypeOK
  /\ HoldsByStage
  /\ HeldCameForIt
  /\ ComesAfterFirst
  /\ CarriersAreOwned

-----------------------------------------------------------------------------
(* Proofs                                                                  *)

\* Every step keeps the types, and with them who may hold further carriers.
LEMMA TypeStep ==
  TypeOK /\ HoldsByStage /\ ComesAfterFirst /\ [Next]_vars => TypeOK' /\ HoldsByStage'
<1> SUFFICES ASSUME TypeOK, HoldsByStage, ComesAfterFirst, [Next]_vars
             PROVE TypeOK' /\ HoldsByStage'
  OBVIOUS
<1> USE EdgeSessionsAssumption DEF TypeOK, Tasks, HoldsByStage, Receiving,
        ComesAfterFirst, Fresh, registries, paths
<1>1. ASSUME NEW s \in Carriers, Admit(s) PROVE TypeOK' /\ HoldsByStage'
  BY <1>1 DEF Admit
<1>2. ASSUME NEW s \in Carriers, TakePermit(s) PROVE TypeOK' /\ HoldsByStage'
  BY <1>2 DEF TakePermit
<1>3. ASSUME NEW s \in Carriers, Overloaded(s) PROVE TypeOK' /\ HoldsByStage'
  BY <1>3 DEF Overloaded
<1>4. ASSUME NEW s \in Carriers, Begin(s) PROVE TypeOK' /\ HoldsByStage'
  BY <1>4 DEF Begin
<1>5. ASSUME NEW s \in Carriers, HandshakeFails(s) PROVE TypeOK' /\ HoldsByStage'
  BY <1>5 DEF HandshakeFails
<1>6. ASSUME NEW s \in Carriers, Establish(s) PROVE TypeOK' /\ HoldsByStage'
  BY <1>6 DEF Establish
<1>7. ASSUME NEW s \in Carriers, Lease(s) PROVE TypeOK' /\ HoldsByStage'
  BY <1>7 DEF Lease
<1>8. ASSUME NEW s \in Carriers, Submit(s) PROVE TypeOK' /\ HoldsByStage'
  BY <1>8 DEF Submit
<1>9. ASSUME NEW s \in Carriers, SubmitFails(s) PROVE TypeOK' /\ HoldsByStage'
  BY <1>9 DEF SubmitFails
<1>10. ASSUME NEW s \in Carriers, Validate(s) PROVE TypeOK' /\ HoldsByStage'
  BY <1>10 DEF Validate
<1>11. ASSUME NEW s \in Carriers, Switch(s) PROVE TypeOK' /\ HoldsByStage'
  BY <1>11 DEF Switch
<1>12. ASSUME NEW s \in Carriers, ValidationFails(s) PROVE TypeOK' /\ HoldsByStage'
  BY <1>12 DEF ValidationFails
<1>13. ASSUME NEW s \in Carriers, DrainEnds(s) PROVE TypeOK' /\ HoldsByStage'
  BY <1>13 DEF DrainEnds
<1>14. ASSUME NEW s \in Carriers, Send(s) PROVE TypeOK' /\ HoldsByStage'
  BY <1>14 DEF Send
<1>15. ASSUME NEW s \in Carriers, Sent(s) PROVE TypeOK' /\ HoldsByStage'
  BY <1>15 DEF Sent
<1>16. ASSUME NEW s \in Carriers, End(s) PROVE TypeOK' /\ HoldsByStage'
  BY <1>16 DEF End, WithoutLease, Dropped
<1>17. ASSUME NEW s \in Carriers, Unregister(s) PROVE TypeOK' /\ HoldsByStage'
  BY <1>17 DEF Unregister
<1>18. ASSUME NEW s \in Carriers, Close(s) PROVE TypeOK' /\ HoldsByStage'
  BY <1>18 DEF Close
<1>19. ASSUME NEW s \in Carriers, RequestLoopEnds(s) PROVE TypeOK' /\ HoldsByStage'
  BY <1>19 DEF RequestLoopEnds
<1>20. ASSUME NEW m \in Carriers, NEW s \in Carriers, Offer(m, s) PROVE TypeOK' /\ HoldsByStage'
  BY <1>20 DEF Offer
<1>21. ASSUME Drain PROVE TypeOK' /\ HoldsByStage'
  BY <1>21 DEF Drain
<1>22. ASSUME UNCHANGED vars PROVE TypeOK' /\ HoldsByStage'
  BY <1>22 DEF vars
<1> QED
  BY <1>1, <1>2, <1>3, <1>4, <1>5, <1>6, <1>7, <1>8, <1>9, <1>10, <1>11,
     <1>12, <1>13, <1>14, <1>15, <1>16, <1>17, <1>18, <1>19, <1>20, <1>21, <1>22 DEF Next, Step

\* No step gives a session a carrier that came for another one.
LEMMA HeldStep ==
  TypeOK /\ HoldsByStage /\ HeldCameForIt /\ ComesAfterFirst /\ [Next]_vars => HeldCameForIt'
<1> SUFFICES ASSUME TypeOK, HoldsByStage, HeldCameForIt, ComesAfterFirst, [Next]_vars
             PROVE HeldCameForIt'
  OBVIOUS
<1> USE EdgeSessionsAssumption DEF TypeOK, Tasks, HoldsByStage, Receiving, HeldCameForIt,
        ComesAfterFirst, Fresh, registries, paths
<1>1. ASSUME NEW s \in Carriers, Admit(s) PROVE HeldCameForIt'
  BY <1>1 DEF Admit
<1>2. ASSUME NEW s \in Carriers, TakePermit(s) PROVE HeldCameForIt'
  BY <1>2 DEF TakePermit
<1>3. ASSUME NEW s \in Carriers, Overloaded(s) PROVE HeldCameForIt'
  BY <1>3 DEF Overloaded
<1>4. ASSUME NEW s \in Carriers, Begin(s) PROVE HeldCameForIt'
  BY <1>4 DEF Begin
<1>5. ASSUME NEW s \in Carriers, HandshakeFails(s) PROVE HeldCameForIt'
  BY <1>5 DEF HandshakeFails
<1>6. ASSUME NEW s \in Carriers, Establish(s) PROVE HeldCameForIt'
  BY <1>6 DEF Establish
<1>7. ASSUME NEW s \in Carriers, Lease(s) PROVE HeldCameForIt'
  BY <1>7 DEF Lease
<1>8. ASSUME NEW s \in Carriers, Submit(s) PROVE HeldCameForIt'
  BY <1>8 DEF Submit
<1>9. ASSUME NEW s \in Carriers, SubmitFails(s) PROVE HeldCameForIt'
  BY <1>9 DEF SubmitFails
<1>10. ASSUME NEW s \in Carriers, Validate(s) PROVE HeldCameForIt'
  BY <1>10 DEF Validate
<1>11. ASSUME NEW s \in Carriers, Switch(s) PROVE HeldCameForIt'
  BY <1>11 DEF Switch
<1>12. ASSUME NEW s \in Carriers, ValidationFails(s) PROVE HeldCameForIt'
  BY <1>12 DEF ValidationFails
<1>13. ASSUME NEW s \in Carriers, DrainEnds(s) PROVE HeldCameForIt'
  BY <1>13 DEF DrainEnds
<1>14. ASSUME NEW s \in Carriers, Send(s) PROVE HeldCameForIt'
  BY <1>14 DEF Send
<1>15. ASSUME NEW s \in Carriers, Sent(s) PROVE HeldCameForIt'
  BY <1>15 DEF Sent
<1>16. ASSUME NEW s \in Carriers, End(s) PROVE HeldCameForIt'
  BY <1>16 DEF End, WithoutLease, Dropped
<1>17. ASSUME NEW s \in Carriers, Unregister(s) PROVE HeldCameForIt'
  BY <1>17 DEF Unregister
<1>18. ASSUME NEW s \in Carriers, Close(s) PROVE HeldCameForIt'
  BY <1>18 DEF Close
<1>19. ASSUME NEW s \in Carriers, RequestLoopEnds(s) PROVE HeldCameForIt'
  BY <1>19 DEF RequestLoopEnds
<1>20. ASSUME NEW m \in Carriers, NEW s \in Carriers, Offer(m, s) PROVE HeldCameForIt'
  BY <1>20 DEF Offer
<1>21. ASSUME Drain PROVE HeldCameForIt'
  BY <1>21 DEF Drain
<1>22. ASSUME UNCHANGED vars PROVE HeldCameForIt'
  BY <1>22 DEF vars
<1> QED
  BY <1>1, <1>2, <1>3, <1>4, <1>5, <1>6, <1>7, <1>8, <1>9, <1>10, <1>11,
     <1>12, <1>13, <1>14, <1>15, <1>16, <1>17, <1>18, <1>19, <1>20, <1>21, <1>22 DEF Next, Step

\* No carrier comes for a session that has not been registered, but its first.
LEMMA FirstStep ==
  TypeOK /\ HoldsByStage /\ HeldCameForIt /\ ComesAfterFirst /\ [Next]_vars => ComesAfterFirst'
<1> SUFFICES ASSUME TypeOK, HoldsByStage, HeldCameForIt, ComesAfterFirst, [Next]_vars
             PROVE ComesAfterFirst'
  OBVIOUS
<1> USE EdgeSessionsAssumption DEF TypeOK, Tasks, HoldsByStage, Receiving, HeldCameForIt,
        ComesAfterFirst, Fresh, registries, paths
<1>1. ASSUME NEW s \in Carriers, Admit(s) PROVE ComesAfterFirst'
  BY <1>1 DEF Admit
<1>2. ASSUME NEW s \in Carriers, TakePermit(s) PROVE ComesAfterFirst'
  BY <1>2 DEF TakePermit
<1>3. ASSUME NEW s \in Carriers, Overloaded(s) PROVE ComesAfterFirst'
  BY <1>3 DEF Overloaded
<1>4. ASSUME NEW s \in Carriers, Begin(s) PROVE ComesAfterFirst'
  BY <1>4 DEF Begin
<1>5. ASSUME NEW s \in Carriers, HandshakeFails(s) PROVE ComesAfterFirst'
  BY <1>5 DEF HandshakeFails
<1>6. ASSUME NEW s \in Carriers, Establish(s) PROVE ComesAfterFirst'
  BY <1>6 DEF Establish
<1>7. ASSUME NEW s \in Carriers, Lease(s) PROVE ComesAfterFirst'
  BY <1>7 DEF Lease
<1>8. ASSUME NEW s \in Carriers, Submit(s) PROVE ComesAfterFirst'
  BY <1>8 DEF Submit
<1>9. ASSUME NEW s \in Carriers, SubmitFails(s) PROVE ComesAfterFirst'
  BY <1>9 DEF SubmitFails
<1>10. ASSUME NEW s \in Carriers, Validate(s) PROVE ComesAfterFirst'
  BY <1>10 DEF Validate
<1>11. ASSUME NEW s \in Carriers, Switch(s) PROVE ComesAfterFirst'
  BY <1>11 DEF Switch
<1>12. ASSUME NEW s \in Carriers, ValidationFails(s) PROVE ComesAfterFirst'
  BY <1>12 DEF ValidationFails
<1>13. ASSUME NEW s \in Carriers, DrainEnds(s) PROVE ComesAfterFirst'
  BY <1>13 DEF DrainEnds
<1>14. ASSUME NEW s \in Carriers, Send(s) PROVE ComesAfterFirst'
  BY <1>14 DEF Send
<1>15. ASSUME NEW s \in Carriers, Sent(s) PROVE ComesAfterFirst'
  BY <1>15 DEF Sent
<1>16. ASSUME NEW s \in Carriers, End(s) PROVE ComesAfterFirst'
  BY <1>16 DEF End, WithoutLease, Dropped
<1>17. ASSUME NEW s \in Carriers, Unregister(s) PROVE ComesAfterFirst'
  BY <1>17 DEF Unregister
<1>18. ASSUME NEW s \in Carriers, Close(s) PROVE ComesAfterFirst'
  BY <1>18 DEF Close
<1>19. ASSUME NEW s \in Carriers, RequestLoopEnds(s) PROVE ComesAfterFirst'
  BY <1>19 DEF RequestLoopEnds
<1>20. ASSUME NEW m \in Carriers, NEW s \in Carriers, Offer(m, s) PROVE ComesAfterFirst'
  BY <1>20 DEF Offer
<1>21. ASSUME Drain PROVE ComesAfterFirst'
  BY <1>21 DEF Drain
<1>22. ASSUME UNCHANGED vars PROVE ComesAfterFirst'
  BY <1>22 DEF vars
<1> QED
  BY <1>1, <1>2, <1>3, <1>4, <1>5, <1>6, <1>7, <1>8, <1>9, <1>10, <1>11,
     <1>12, <1>13, <1>14, <1>15, <1>16, <1>17, <1>18, <1>19, <1>20, <1>21, <1>22 DEF Next, Step

\* Every step that lets go of a carrier closes it, or leaves it open when it is
\* an HTTP/3 one and the session is over.
LEMMA OwnedStep == CarrierInv /\ [Next]_vars => CarriersAreOwned'
<1> SUFFICES ASSUME CarrierInv, [Next]_vars PROVE CarriersAreOwned'
  OBVIOUS
<1> USE EdgeSessionsAssumption DEF CarrierInv, TypeOK, Tasks, HoldsByStage, Receiving,
        HeldCameForIt, ComesAfterFirst, Fresh, CarriersAreOwned, Owned,
        registries, paths
<1>1. ASSUME NEW s \in Carriers, Admit(s) PROVE CarriersAreOwned'
  BY <1>1 DEF Admit
<1>2. ASSUME NEW s \in Carriers, TakePermit(s) PROVE CarriersAreOwned'
  BY <1>2 DEF TakePermit
<1>3. ASSUME NEW s \in Carriers, Overloaded(s) PROVE CarriersAreOwned'
  BY <1>3 DEF Overloaded
<1>4. ASSUME NEW s \in Carriers, Begin(s) PROVE CarriersAreOwned'
  BY <1>4 DEF Begin
<1>5. ASSUME NEW s \in Carriers, HandshakeFails(s) PROVE CarriersAreOwned'
  BY <1>5 DEF HandshakeFails
<1>6. ASSUME NEW s \in Carriers, Establish(s) PROVE CarriersAreOwned'
  BY <1>6 DEF Establish
<1>7. ASSUME NEW s \in Carriers, Lease(s) PROVE CarriersAreOwned'
  BY <1>7 DEF Lease
<1>8. ASSUME NEW s \in Carriers, Submit(s) PROVE CarriersAreOwned'
  <2> SUFFICES ASSUME NEW c \in open
               PROVE  Owned(c)' \/ (c \in H3 /\ ~Receiving(session[c])')
    BY <1>8 DEF Submit
  <2> DEFINE t == session[s]
  <2>1. /\ t \in Carriers /\ Receiving(t) /\ candidate[t] = None
        /\ candidate' = [candidate EXCEPT ![t] = s]
        /\ offered' = offered \ {s}
        /\ UNCHANGED <<task, carrier, old, migration, session>>
    BY <1>8 DEF Submit
  <2>2. candidate'[t] = s /\ \A r \in Carriers \ {t} : candidate'[r] = candidate[r]
    BY <2>1
  <2>3. CASE c = s
    BY <2>1, <2>2, <2>3
  <2>4. CASE c # s /\ c \in offered
    BY <2>1, <2>4
  <2>5. CASE c \notin offered
    <3>1. \A r \in Carriers : c = candidate[r] => c = candidate'[r]
      BY <2>1, <2>2
    <3> QED
      BY <2>1, <2>5, <3>1
  <2> QED
    BY <2>3, <2>4, <2>5
<1>9. ASSUME NEW s \in Carriers, SubmitFails(s) PROVE CarriersAreOwned'
  BY <1>9 DEF SubmitFails
<1>10. ASSUME NEW s \in Carriers, Validate(s) PROVE CarriersAreOwned'
  BY <1>10 DEF Validate
<1>11. ASSUME NEW s \in Carriers, Switch(s) PROVE CarriersAreOwned'
  BY <1>11 DEF Switch
<1>12. ASSUME NEW s \in Carriers, ValidationFails(s) PROVE CarriersAreOwned'
  BY <1>12 DEF ValidationFails
<1>13. ASSUME NEW s \in Carriers, DrainEnds(s) PROVE CarriersAreOwned'
  BY <1>13 DEF DrainEnds
<1>14. ASSUME NEW s \in Carriers, Send(s) PROVE CarriersAreOwned'
  BY <1>14 DEF Send
<1>15. ASSUME NEW s \in Carriers, Sent(s) PROVE CarriersAreOwned'
  BY <1>15 DEF Sent
<1>16. ASSUME NEW s \in Carriers, End(s) PROVE CarriersAreOwned'
  BY <1>16 DEF End, WithoutLease, Dropped
<1>17. ASSUME NEW s \in Carriers, Unregister(s) PROVE CarriersAreOwned'
  BY <1>17 DEF Unregister
<1>18. ASSUME NEW s \in Carriers, Close(s) PROVE CarriersAreOwned'
  BY <1>18 DEF Close
<1>19. ASSUME NEW s \in Carriers, RequestLoopEnds(s) PROVE CarriersAreOwned'
  BY <1>19 DEF RequestLoopEnds
<1>20. ASSUME NEW m \in Carriers, NEW s \in Carriers, Offer(m, s) PROVE CarriersAreOwned'
  BY <1>20 DEF Offer
<1>21. ASSUME Drain PROVE CarriersAreOwned'
  BY <1>21 DEF Drain
<1>22. ASSUME UNCHANGED vars PROVE CarriersAreOwned'
  BY <1>22 DEF vars
<1> QED
  BY <1>1, <1>2, <1>3, <1>4, <1>5, <1>6, <1>7, <1>8, <1>9, <1>10, <1>11,
     <1>12, <1>13, <1>14, <1>15, <1>16, <1>17, <1>18, <1>19, <1>20, <1>21, <1>22 DEF Next, Step

\* The carriers of the edge, whatever number of them are offered, switched to,
\* drained, dropped and closed at a time (run_established_session,
\* submit_migration).
THEOREM CarrierSafety == Spec => []CarrierInv
<1>1. Init => CarrierInv
  <2> SUFFICES ASSUME Init PROVE CarrierInv
    OBVIOUS
  <2>1. TypeOK
    <3>1. carriers \in Int /\ sessions_active \in Int
      BY EdgeSessionsAssumption DEF Init
    <3>2. /\ draining \in BOOLEAN
          /\ sessions \in [Clients -> Carriers \cup {None}]
          /\ task \in [Carriers -> Tasks]
          /\ client \in [Carriers -> Clients]
      BY DEF Init, Tasks
    <3>3. /\ carrier \in [Carriers -> Carriers]
          /\ old \in [Carriers -> Carriers \cup {None}]
          /\ candidate \in [Carriers -> Carriers \cup {None}]
          /\ migration \in [Carriers -> Carriers \cup {None}]
          /\ session \in [Carriers -> Carriers \cup {None}]
      BY DEF Init
    <3>4. /\ open \in SUBSET Carriers
          /\ offered \in SUBSET Carriers
          /\ migrations \in SUBSET Carriers
      BY DEF Init
    <3> QED
      BY <3>1, <3>2, <3>3, <3>4 DEF TypeOK
  <2>2. HoldsByStage /\ HeldCameForIt
    BY EdgeSessionsAssumption DEF Init, HoldsByStage, HeldCameForIt, Receiving
  <2>3. ComesAfterFirst /\ CarriersAreOwned
    BY EdgeSessionsAssumption DEF Init, ComesAfterFirst, Fresh, CarriersAreOwned
  <2> QED
    BY <2>1, <2>2, <2>3 DEF CarrierInv
<1>2. CarrierInv /\ [Next]_vars => CarrierInv'
  BY TypeStep, HeldStep, FirstStep, OwnedStep DEF CarrierInv
<1> QED
  BY <1>1, <1>2, PTL DEF Spec

\* Every open carrier is in somebody's hands as long as the session it came for
\* goes on, and afterwards unless it is an HTTP/3 one (run_established_session,
\* submit_migration).
THEOREM CarriersOwned == Spec => []CarriersAreOwned
<1>1. CarrierInv => CarriersAreOwned
  BY DEF CarrierInv
<1> QED
  BY <1>1, CarrierSafety, PTL

-----------------------------------------------------------------------------
(* Addresses                                                               *)

\* No step takes an address from a session that runs, or leaves it with one
\* that does not (Network::register and Drop for SessionLease).
LEMMA LeaseStep ==
  TypeOK /\ ComesAfterFirst /\ LeasesAreKept /\ [Next]_vars => LeasesAreKept'
<1> SUFFICES ASSUME TypeOK, ComesAfterFirst, LeasesAreKept, [Next]_vars
             PROVE LeasesAreKept'
  OBVIOUS
<1> USE EdgeSessionsAssumption DEF TypeOK, Tasks, ComesAfterFirst, Fresh,
        LeasesAreKept, registries, paths
<1>1. ASSUME NEW s \in Carriers, Admit(s) PROVE LeasesAreKept'
  BY <1>1 DEF Admit
<1>2. ASSUME NEW s \in Carriers, TakePermit(s) PROVE LeasesAreKept'
  BY <1>2 DEF TakePermit
<1>3. ASSUME NEW s \in Carriers, Overloaded(s) PROVE LeasesAreKept'
  BY <1>3 DEF Overloaded
<1>4. ASSUME NEW s \in Carriers, Begin(s) PROVE LeasesAreKept'
  BY <1>4 DEF Begin
<1>5. ASSUME NEW s \in Carriers, HandshakeFails(s) PROVE LeasesAreKept'
  BY <1>5 DEF HandshakeFails
<1>6. ASSUME NEW s \in Carriers, Establish(s) PROVE LeasesAreKept'
  BY <1>6 DEF Establish
<1>7. ASSUME NEW s \in Carriers, Lease(s) PROVE LeasesAreKept'
  BY <1>7 DEF Lease, Leased
<1>8. ASSUME NEW s \in Carriers, Submit(s) PROVE LeasesAreKept'
  BY <1>8 DEF Submit
<1>9. ASSUME NEW s \in Carriers, SubmitFails(s) PROVE LeasesAreKept'
  BY <1>9 DEF SubmitFails
<1>10. ASSUME NEW s \in Carriers, Validate(s) PROVE LeasesAreKept'
  BY <1>10 DEF Validate
<1>11. ASSUME NEW s \in Carriers, Switch(s) PROVE LeasesAreKept'
  BY <1>11 DEF Switch
<1>12. ASSUME NEW s \in Carriers, ValidationFails(s) PROVE LeasesAreKept'
  BY <1>12 DEF ValidationFails
<1>13. ASSUME NEW s \in Carriers, DrainEnds(s) PROVE LeasesAreKept'
  BY <1>13 DEF DrainEnds
<1>14. ASSUME NEW s \in Carriers, Send(s) PROVE LeasesAreKept'
  BY <1>14 DEF Send
<1>15. ASSUME NEW s \in Carriers, Sent(s) PROVE LeasesAreKept'
  BY <1>15 DEF Sent
<1>16. ASSUME NEW s \in Carriers, End(s) PROVE LeasesAreKept'
  BY <1>16 DEF End, WithoutLease, Dropped
<1>17. ASSUME NEW s \in Carriers, Unregister(s) PROVE LeasesAreKept'
  BY <1>17 DEF Unregister
<1>18. ASSUME NEW s \in Carriers, Close(s) PROVE LeasesAreKept'
  BY <1>18 DEF Close
<1>19. ASSUME NEW s \in Carriers, RequestLoopEnds(s) PROVE LeasesAreKept'
  BY <1>19 DEF RequestLoopEnds
<1>20. ASSUME NEW m \in Carriers, NEW s \in Carriers, Offer(m, s) PROVE LeasesAreKept'
  BY <1>20 DEF Offer
<1>21. ASSUME Drain PROVE LeasesAreKept'
  BY <1>21 DEF Drain
<1>22. ASSUME UNCHANGED vars PROVE LeasesAreKept'
  BY <1>22 DEF vars
<1> QED
  BY <1>1, <1>2, <1>3, <1>4, <1>5, <1>6, <1>7, <1>8, <1>9, <1>10, <1>11,
     <1>12, <1>13, <1>14, <1>15, <1>16, <1>17, <1>18, <1>19, <1>20, <1>21, <1>22 DEF Next, Step

\* A running session keeps its client's address until it ends, whatever other
\* sessions of the client come and go (Network::register and Drop for
\* SessionLease).
THEOREM LeasesKept == Spec => []LeasesAreKept
<1>1. Init => LeasesAreKept
  BY EdgeSessionsAssumption DEF Init, LeasesAreKept
<1>2. CarrierInv => TypeOK /\ ComesAfterFirst
  BY DEF CarrierInv
<1> QED
  BY <1>1, <1>2, LeaseStep, CarrierSafety, PTL DEF Spec

-----------------------------------------------------------------------------
(* Permits                                                                 *)

\* The tasks that hold a permit.
Holding == {"permitted", "handshake", "registered", "running", "sending",
            "validating", "leaving", "closing"}

Holders == {s \in Carriers : task[s] \in Holding}

\* A step that takes a permit adds one holder, one that drops it removes one,
\* and the other steps leave the holders as they are.
LEMMA HoldersStep ==
  TypeOK /\ ComesAfterFirst /\ [Next]_vars =>
    \/ /\ carriers > 0
       /\ carriers' = carriers - 1
       /\ \E s \in Carriers \ Holders : Holders' = Holders \cup {s}
    \/ /\ carriers' = carriers + 1
       /\ \E s \in Holders : Holders' = Holders \ {s}
    \/ carriers' = carriers /\ Holders' = Holders
<1> DEFINE Takes == /\ carriers > 0
                    /\ carriers' = carriers - 1
                    /\ \E s \in Carriers \ Holders : Holders' = Holders \cup {s}
           Drops == /\ carriers' = carriers + 1
                    /\ \E s \in Holders : Holders' = Holders \ {s}
           Keeps == carriers' = carriers /\ Holders' = Holders
<1> SUFFICES ASSUME TypeOK, ComesAfterFirst, [Next]_vars
             PROVE  Takes \/ Drops \/ Keeps
  OBVIOUS
<1> USE DEF TypeOK, Tasks, ComesAfterFirst, Fresh, Holders, Holding, registries, paths
<1>1. ASSUME NEW s \in Carriers, Admit(s) PROVE Keeps
  BY <1>1 DEF Admit
<1>2. ASSUME NEW s \in Carriers, TakePermit(s) PROVE Takes
  BY <1>2 DEF TakePermit
<1>3. ASSUME NEW s \in Carriers, Overloaded(s) PROVE Keeps
  BY <1>3 DEF Overloaded
<1>4. ASSUME NEW s \in Carriers, Begin(s) PROVE Keeps
  BY <1>4 DEF Begin
<1>5. ASSUME NEW s \in Carriers, HandshakeFails(s) PROVE Keeps
  BY <1>5 DEF HandshakeFails
<1>6. ASSUME NEW s \in Carriers, Establish(s) PROVE Keeps
  BY <1>6 DEF Establish
<1>7. ASSUME NEW s \in Carriers, Lease(s) PROVE Keeps
  BY <1>7 DEF Lease
<1>8. ASSUME NEW s \in Carriers, Submit(s) PROVE Keeps
  BY <1>8 DEF Submit
<1>9. ASSUME NEW s \in Carriers, SubmitFails(s) PROVE Keeps
  BY <1>9 DEF SubmitFails
<1>10. ASSUME NEW s \in Carriers, Validate(s) PROVE Keeps
  BY <1>10 DEF Validate
<1>11. ASSUME NEW s \in Carriers, Switch(s) PROVE Keeps
  BY <1>11 DEF Switch
<1>12. ASSUME NEW s \in Carriers, ValidationFails(s) PROVE Keeps
  BY <1>12 DEF ValidationFails
<1>13. ASSUME NEW s \in Carriers, DrainEnds(s) PROVE Keeps
  BY <1>13 DEF DrainEnds
<1>14. ASSUME NEW s \in Carriers, Send(s) PROVE Keeps
  BY <1>14 DEF Send
<1>15. ASSUME NEW s \in Carriers, Sent(s) PROVE Keeps
  BY <1>15 DEF Sent
<1>16. ASSUME NEW s \in Carriers, End(s) PROVE Keeps
  BY <1>16 DEF End, WithoutLease, Dropped
<1>17. ASSUME NEW s \in Carriers, Unregister(s) PROVE Keeps
  BY <1>17 DEF Unregister
<1>18. ASSUME NEW s \in Carriers, Close(s) PROVE Drops
  BY <1>18 DEF Close
<1>19. ASSUME NEW s \in Carriers, RequestLoopEnds(s) PROVE Keeps
  BY <1>19 DEF RequestLoopEnds
<1>20. ASSUME NEW m \in Carriers, NEW s \in Carriers, Offer(m, s) PROVE Keeps
  BY <1>20 DEF Offer
<1>21. ASSUME Drain PROVE Keeps
  BY <1>21 DEF Drain
<1>22. ASSUME UNCHANGED vars PROVE Keeps
  BY <1>22 DEF vars
<1> QED
  BY <1>1, <1>2, <1>3, <1>4, <1>5, <1>6, <1>7, <1>8, <1>9, <1>10, <1>11,
     <1>12, <1>13, <1>14, <1>15, <1>16, <1>17, <1>18, <1>19, <1>20, <1>21, <1>22 DEF Next, Step

\* Every permit is in the semaphore or held by one task, on every way through
\* serve_session.
THEOREM PermitsConserved == Spec => []PermitsAreConserved
<1> DEFINE Inv == carriers \in Nat /\ carriers + Cardinality(Holders) = Permits
<1>1. Init => Inv
  <2> SUFFICES ASSUME Init PROVE Inv
    OBVIOUS
  <2>1. Holders = {}
    BY DEF Init, Holders, Holding
  <2> QED
    BY <2>1, FS_EmptySet, EdgeSessionsAssumption DEF Init
<1>2. TypeOK /\ ComesAfterFirst /\ Inv /\ [Next]_vars => Inv'
  <2> SUFFICES ASSUME TypeOK, ComesAfterFirst, Inv, [Next]_vars PROVE Inv'
    OBVIOUS
  <2>1. IsFiniteSet(Holders) /\ Cardinality(Holders) \in Nat
    BY EdgeSessionsAssumption, FS_Subset, FS_CardinalityType DEF Holders
  <2>2. CASE /\ carriers > 0
             /\ carriers' = carriers - 1
             /\ \E s \in Carriers \ Holders : Holders' = Holders \cup {s}
    <3>1. Cardinality(Holders') = Cardinality(Holders) + 1
      BY <2>1, <2>2, FS_AddElement
    <3> QED
      BY <2>1, <2>2, <3>1
  <2>3. CASE /\ carriers' = carriers + 1
             /\ \E s \in Holders : Holders' = Holders \ {s}
    <3>1. Cardinality(Holders') = Cardinality(Holders) - 1
      BY <2>1, <2>3, FS_RemoveElement
    <3> QED
      BY <2>1, <2>3, <3>1
  <2>4. CASE carriers' = carriers /\ Holders' = Holders
    BY <2>4
  <2> QED
    BY <2>2, <2>3, <2>4, HoldersStep
<1>3. CarrierInv => TypeOK /\ ComesAfterFirst
  BY DEF CarrierInv
<1>4. Inv => PermitsAreConserved
  BY DEF PermitsAreConserved, Count, Holders, Holding
<1> QED
  BY <1>1, <1>2, <1>3, <1>4, CarrierSafety, PTL DEF Spec
=============================================================================
