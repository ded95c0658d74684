------------------------ MODULE ServerLifecycle_proofs -------------------------
(***************************************************************************)
(* Proofs about ServerLifecycle for any sets of client IDs, subdomains,    *)
(* registrations and data connections: routes, late carriers, and the      *)
(* gauge of connected clients.                                             *)
(***************************************************************************)
EXTENDS ServerLifecycle, FiniteSetTheorems, TLAPS

\* Case split over the next-state relation, one case per action of the code.
LEMMA NextCases ==
  ASSUME [Next]_vars
  PROVE  \/ \E id \in Ids, ns \in SUBSET Names, r \in Regs : Register(id, ns, r)
         \/ \E id \in Ids, ns \in SUBSET Names : Refuse(id, ns)
         \/ \E r \in Regs : HandlerCount(r)
         \/ \E r \in Regs : ReaperExit(r)
         \/ \E r \in Regs : ReaperFire(r)
         \/ \E r \in Regs : ReaperTeardown(r)
         \/ \E r \in Regs : MonitorExit(r)
         \/ \E r \in Regs : MonitorTick(r)
         \/ \E r \in Regs : MonitorExpire(r)
         \/ \E r \in Regs : MonitorTeardown(r)
         \/ \E c \in Conns, r \in Regs, p \in Regs \cup {None} : Authenticate(c, r, p)
         \/ \E c \in Conns : ClaimRefused(c)
         \/ \E c \in Conns : ClaimCheck(c)
         \/ \E c \in Conns : Publish(c)
         \/ \E c \in Conns : PeerGone(c)
         \/ \E c \in Conns : MuxWatch(c)
         \/ \E c \in Conns : MuxRelease(c)
         \/ \E c \in Conns : MuxForget(c)
         \/ \E c \in Conns : MuxCancel(c)
         \/ \E c \in Conns, gone \in BOOLEAN : QuicWake(c, gone)
         \/ \E c \in Conns : QuicRelease(c)
         \/ \E c \in Conns : QuicTeardown(c)
         \/ CloseShutdown
         \/ CancelClients
         \/ UNCHANGED vars
  BY Zenon DEF Next, ReaperStep, MonitorRun, ConnStep

\* The state that loadServerState leaves is well typed.
LEMMA TypeInit == Init => TypeOK
<1> SUFFICES ASSUME Init PROVE TypeOK
  OBVIOUS
<1>1. gauge \in Int
  <2>1. IsFiniteSet({i \in Ids : clients[i] # None})
    BY LifecycleAssumption, FS_Subset
  <2>2. Cardinality({i \in Ids : clients[i] # None}) \in Nat
    BY <2>1, FS_CardinalityType
  <2> QED BY <2>2 DEF Init
<1>2. rid \in [Regs -> Ids \cup {None}]
  BY DEF Init
<1>3. /\ reaper \in [Regs -> ReaperStages]
      /\ monitor \in [Regs -> MonitorStages]
  BY DEF Init, ReaperStages, MonitorStages
<1> QED BY <1>1, <1>2, <1>3 DEF Init, TypeOK, ConnStages

\* Every step of a handler, goroutine or peer keeps the state well typed.
LEMMA TypeNext ==
  ASSUME TypeOK, [Next]_vars
  PROVE  TypeOK'
<1> USE LifecycleAssumption DEF TypeOK
<1>1. ASSUME NEW id \in Ids, NEW ns \in SUBSET Names, NEW r \in Regs, Register(id, ns, r)
      PROVE  TypeOK'
  <2>1. /\ routes' \in [Names -> Ids \cup {None}]
        /\ tunnels' \in [Regs -> SUBSET Names]
    BY <1>1 DEF Register, RequestedNames, CleanedRoutes, RoutesWithout
  <2>2. gauge' \in Int
    BY <1>1 DEF Register, CleanedGauge, GaugeAfterDec
  <2>3. /\ cancelled' \in [Regs -> BOOLEAN]
        /\ decOnce' \in [Regs -> BOOLEAN]
        /\ open' \in [Conns -> BOOLEAN]
    BY <1>1 DEF Register, CleanedCancelled, CleanedDecOnce, CleanedOpen
  <2>4. /\ clients' \in [Ids -> Regs \cup {None}]
        /\ rid' \in [Regs -> Ids \cup {None}]
        /\ hasToken' \in [Regs -> BOOLEAN]
        /\ counting' \in [Regs -> BOOLEAN]
        /\ reaper' \in [Regs -> ReaperStages]
        /\ monitor' \in [Regs -> MonitorStages]
    BY <1>1 DEF Register, ReaperStages, MonitorStages
  <2> QED BY <1>1, <2>1, <2>2, <2>3, <2>4 DEF Register, carrierVars
<1>2. ASSUME NEW id \in Ids, NEW ns \in SUBSET Names, Refuse(id, ns)
      PROVE  TypeOK'
  <2>1. routes' \in [Names -> Ids \cup {None}]
    BY <1>2 DEF Refuse, CleanedRoutes, RoutesWithout
  <2>2. gauge' \in Int
    BY <1>2 DEF Refuse, CleanedGauge, GaugeAfterDec
  <2>3. /\ cancelled' \in [Regs -> BOOLEAN]
        /\ decOnce' \in [Regs -> BOOLEAN]
        /\ open' \in [Conns -> BOOLEAN]
    BY <1>2 DEF Refuse, CleanedCancelled, CleanedDecOnce, CleanedOpen
  <2> QED BY <1>2, <2>1, <2>2, <2>3 DEF Refuse, carrierVars, taskVars
<1>3. ASSUME NEW r \in Regs, HandlerCount(r) PROVE TypeOK'
  BY <1>3 DEF HandlerCount, registryVars, regVars, carrierVars, connVars
<1>4. ASSUME NEW r, NEW s, TeardownStep(r, s)
      PROVE  /\ clients' \in [Ids -> Regs \cup {None}]
             /\ routes' \in [Names -> Ids \cup {None}]
             /\ cancelled' \in [Regs -> BOOLEAN]
             /\ decOnce' \in [Regs -> BOOLEAN]
             /\ muxSession' \in [Regs -> MuxConns \cup {None}]
             /\ open' \in [Conns -> BOOLEAN]
             /\ gauge' \in Int
  <2>1. CASE s = "forget"
    BY <1>4, <2>1 DEF TeardownStep, Forget, RoutesWithout, registryVars
  <2>2. CASE s = "closeMux"
    BY <1>4, <2>2 DEF TeardownStep, CloseMux, registryVars
  <2>3. CASE s = "cancel"
    <3>1. gauge' \in Int
      BY <1>4, <2>3 DEF TeardownStep, CancelAndCount, GaugeAfterDec
    <3>2. /\ cancelled' \in [Regs -> BOOLEAN]
          /\ decOnce' \in [Regs -> BOOLEAN]
      BY <1>4, <2>3 DEF TeardownStep, CancelAndCount
    <3> QED BY <1>4, <2>3, <3>1, <3>2 DEF TeardownStep, registryVars
  <2> QED BY <1>4, <2>1, <2>2, <2>3 DEF TeardownStep
<1>5. ASSUME NEW r \in Regs, ReaperExit(r) \/ ReaperFire(r) PROVE TypeOK'
  <2>1. CASE ReaperExit(r)
    BY <2>1 DEF ReaperExit, ReaperStages, registryVars, regVars, carrierVars, connVars
  <2>2. CASE ReaperFire(r)
    BY <2>2 DEF ReaperFire, ReaperStages, TeardownStages, registryVars, carrierVars,
                connVars
  <2> QED BY <1>5, <2>1, <2>2
<1>6. ASSUME NEW r \in Regs, ReaperTeardown(r) PROVE TypeOK'
  <2>1. reaper' \in [Regs -> ReaperStages]
    BY <1>6 DEF ReaperTeardown, ReaperStages, TeardownStages, NextTeardownStage
  <2>2. TeardownStep(r, reaper[r])
    BY <1>6 DEF ReaperTeardown
  <2> HIDE DEF TypeOK
  <2>3. QED BY <1>4, <1>6, <2>1, <2>2 DEF ReaperTeardown, TypeOK
<1>7. ASSUME NEW r \in Regs, MonitorExit(r) \/ MonitorTick(r) \/ MonitorExpire(r)
      PROVE  TypeOK'
  <2>1. CASE MonitorExit(r) \/ MonitorTick(r)
    BY <2>1 DEF MonitorExit, MonitorTick, MonitorStages, registryVars, regVars,
                carrierVars, connVars
  <2>2. CASE MonitorExpire(r)
    BY <2>2 DEF MonitorExpire, MonitorStages, TeardownStages, registryVars,
                carrierVars, connVars
  <2> QED BY <1>7, <2>1, <2>2
<1>8. ASSUME NEW r \in Regs, MonitorTeardown(r) PROVE TypeOK'
  <2>1. monitor' \in [Regs -> MonitorStages]
    BY <1>8 DEF MonitorTeardown, MonitorStages, TeardownStages, NextTeardownStage
  <2>2. TeardownStep(r, monitor[r])
    BY <1>8 DEF MonitorTeardown
  <2> HIDE DEF TypeOK
  <2>3. QED BY <1>4, <1>8, <2>1, <2>2 DEF MonitorTeardown, TypeOK
<1>9. ASSUME NEW c \in Conns, NEW r \in Regs, NEW p \in Regs \cup {None},
             Authenticate(c, r, p)
      PROVE  TypeOK'
  BY <1>9 DEF Authenticate, ConnStages, registryVars, regVars, carrierVars, taskVars
<1>10. ASSUME NEW c \in Conns, ClaimRefused(c) \/ ClaimCheck(c) PROVE TypeOK'
  BY <1>10 DEF ClaimRefused, ClaimCheck, Return, ConnStages, registryVars, regVars,
               carrierVars, taskVars
<1>11. ASSUME NEW c \in Conns, Publish(c) PROVE TypeOK'
  <2>1. /\ muxSession' \in [Regs -> MuxConns \cup {None}]
        /\ quicConn' \in [Regs -> QuicConns \cup {None}]
    BY <1>11 DEF Publish, Conns
  <2>2. /\ open' \in [Conns -> BOOLEAN]
        /\ pc' \in [Conns -> ConnStages]
    BY <1>11 DEF Publish, ConnStages
  <2> QED BY <1>11, <2>1, <2>2 DEF Publish, registryVars, regVars, taskVars
<1>12. ASSUME NEW c \in Conns, PeerGone(c) \/ MuxWatch(c) PROVE TypeOK'
  <2>1. open' \in [Conns -> BOOLEAN]
    BY <1>12 DEF PeerGone, MuxWatch
  <2>2. UNCHANGED <<registryVars, regVars, carrierVars, taskVars, owner, pc, gauge, phase>>
    BY <1>12 DEF PeerGone, MuxWatch
  <2> QED BY <2>1, <2>2 DEF registryVars, regVars, carrierVars, taskVars
<1>13. ASSUME NEW c \in Conns, MuxRelease(c) PROVE TypeOK'
  BY ZenonT(60), <1>13 DEF MuxRelease, Return, ConnStages, registryVars, taskVars
<1>14. ASSUME NEW c \in Conns, MuxForget(c) PROVE TypeOK'
  BY <1>14 DEF MuxForget, Forget, RoutesWithout, ConnStages, registryVars, regVars,
               carrierVars, taskVars
<1>15. ASSUME NEW c \in Conns, MuxCancel(c) PROVE TypeOK'
  <2>1. gauge' \in Int
    BY <1>15 DEF MuxCancel, GaugeAfterDec
  <2>2. /\ cancelled' \in [Regs -> BOOLEAN]
        /\ decOnce' \in [Regs -> BOOLEAN]
    BY <1>15 DEF MuxCancel
  <2>3. /\ pc' \in [Conns -> ConnStages]
        /\ owner' \in [Conns -> Regs \cup {None}]
    BY <1>15 DEF MuxCancel, Return, ConnStages
  <2> QED BY <1>15, <2>1, <2>2, <2>3 DEF MuxCancel, registryVars, carrierVars, taskVars
<1>16. ASSUME NEW c \in Conns, NEW gone \in BOOLEAN, QuicWake(c, gone) PROVE TypeOK'
  BY <1>16 DEF QuicWake, ConnStages, registryVars, regVars, carrierVars, taskVars
<1>17. ASSUME NEW c \in Conns, QuicRelease(c) PROVE TypeOK'
  BY ZenonT(60), <1>17 DEF QuicRelease, Return, ConnStages, TeardownStages, registryVars, taskVars
<1>18. ASSUME NEW c \in Conns, QuicTeardown(c) PROVE TypeOK'
  <2>1. /\ pc' \in [Conns -> ConnStages]
        /\ owner' \in [Conns -> Regs \cup {None}]
    <3>1. pc[c] \in TeardownStages
      BY <1>18 DEF QuicTeardown, TeardownStep, TeardownStages
    <3>2. NextTeardownStage(pc[c]) \in TeardownStages \/ pc[c] = "cancel"
      BY <3>1 DEF NextTeardownStage, TeardownStages
    <3> QED BY <1>18, <3>2 DEF QuicTeardown, Return, ConnStages
  <2>2. TeardownStep(owner[c], pc[c])
    BY <1>18 DEF QuicTeardown
  <2> HIDE DEF TypeOK
  <2>3. QED BY <1>4, <1>18, <2>1, <2>2 DEF QuicTeardown, taskVars, TypeOK
<1>19. CASE CloseShutdown \/ CancelClients
  BY <1>19 DEF CloseShutdown, CancelClients, registryVars, regVars, carrierVars,
               taskVars, connVars
<1>20. CASE UNCHANGED vars
  BY <1>20 DEF vars, registryVars, regVars, carrierVars, taskVars, connVars
<1> HIDE DEF TypeOK
<1> QED
  BY NextCases, <1>1, <1>2, <1>3, <1>5, <1>6, <1>7, <1>8, <1>9, <1>10, <1>11, <1>12,
     <1>13, <1>14, <1>15, <1>16, <1>17, <1>18, <1>19, <1>20

--------------------------------------------------------------------------------
\* Type correctness of the registries, registrations, goroutines and handlers
\* in every reachable state.
THEOREM TypeCorrect == Spec => []TypeOK
  BY TypeInit, TypeNext, PTL DEF Spec

--------------------------------------------------------------------------------
\* The inductive invariant holds of whatever loadServerState restored.
LEMMA InvInit == Init => LifecycleInv
<1> SUFFICES ASSUME Init PROVE LifecycleInv
  OBVIOUS
<1>1. TypeOK
  BY TypeInit
<1>2. EntriesKeepTheirId
  <2> SUFFICES ASSUME NEW i \in Ids, clients[i] # None PROVE rid[clients[i]] = i
    BY DEF EntriesKeepTheirId
  <2>1. clients[i] \in Regs
    BY DEF Init
  <2>2. \A j \in Ids : clients[j] = clients[i] => j = i
    BY DEF Init
  <2> QED BY <2>1, <2>2 DEF Init
<1>3. ForgottenIsExpired
  <2> SUFFICES ASSUME NEW r \in Regs, Used(r) PROVE Registered(r)
    BY DEF ForgottenIsExpired
  <2>1. \E i \in Ids : clients[i] = r
    BY DEF Init, Used
  <2>2. rid[r] = CHOOSE i \in Ids : clients[i] = r
    BY <2>1 DEF Init
  <2> QED BY <2>1, <2>2 DEF Registered
<1>4. RoutesLeadToRegistered /\ RestoredNeverServed
  BY DEF Init, RoutesLeadToRegistered, RestoredNeverServed
<1>5. TeardownsExpireFirst /\ HandlersHaveOwners
  BY DEF Init, TeardownsExpireFirst, HandlersHaveOwners
<1> QED BY <1>1, <1>2, <1>3, <1>4, <1>5 DEF LifecycleInv

\* Expiry is final.
LEMMA ExpiryIsFinal ==
  ASSUME TypeOK, [Next]_vars, NEW r \in Regs, Expired(r)
  PROVE  Expired(r)'
<1> USE DEF TypeOK, Expired
<1>1. CASE \E id \in Ids, ns \in SUBSET Names, s \in Regs : Register(id, ns, s)
  BY <1>1 DEF Register, CleanedCancelled
<1>2. CASE \E id \in Ids, ns \in SUBSET Names : Refuse(id, ns)
  BY <1>2 DEF Refuse, CleanedCancelled
<1>3. CASE \E s \in Regs : ReaperFire(s)
  BY <1>3 DEF ReaperFire
<1>4. CASE \E s \in Regs : MonitorExpire(s)
  BY <1>4 DEF MonitorExpire
<1>5. ASSUME NEW s, NEW st, TeardownStep(s, st), UNCHANGED reaped PROVE Expired(r)'
  BY <1>5 DEF TeardownStep, CancelAndCount
<1>6. CASE \E s \in Regs : ReaperTeardown(s) \/ MonitorTeardown(s)
  BY <1>5, <1>6 DEF ReaperTeardown, MonitorTeardown
<1>7. CASE \E c \in Conns : QuicTeardown(c)
  BY <1>5, <1>7 DEF QuicTeardown
<1>8. CASE \E c \in Conns : MuxRelease(c)
  BY <1>8 DEF MuxRelease
<1>9. CASE \E c \in Conns : MuxCancel(c)
  BY <1>9 DEF MuxCancel
<1>10. CASE \E c \in Conns : QuicRelease(c)
  BY <1>10 DEF QuicRelease
<1>11. CASE CancelClients
  BY <1>11 DEF CancelClients
<1>12. CASE UNCHANGED <<reaped, cancelled>>
  BY <1>12
<1>13. \/ \E id \in Ids, ns \in SUBSET Names, s \in Regs : Register(id, ns, s)
       \/ \E id \in Ids, ns \in SUBSET Names : Refuse(id, ns)
       \/ \E s \in Regs : ReaperFire(s)
       \/ \E s \in Regs : MonitorExpire(s)
       \/ \E s \in Regs : ReaperTeardown(s) \/ MonitorTeardown(s)
       \/ \E c \in Conns : QuicTeardown(c)
       \/ \E c \in Conns : MuxRelease(c)
       \/ \E c \in Conns : MuxCancel(c)
       \/ \E c \in Conns : QuicRelease(c)
       \/ CancelClients
       \/ UNCHANGED <<reaped, cancelled>>
  BY NextCases DEF HandlerCount, ReaperExit, MonitorExit, MonitorTick, Authenticate,
       ClaimRefused, ClaimCheck, Publish, PeerGone, MuxWatch, MuxForget, QuicWake,
       CloseShutdown, vars, regVars
<1> QED
  BY <1>1, <1>2, <1>3, <1>4, <1>6, <1>7, <1>8, <1>9, <1>10, <1>11, <1>12, <1>13

\* The registry part of the invariant when a step leaves the registries alone.
LEMMA RegistryQuiet ==
  ASSUME LifecycleInv, [Next]_vars, UNCHANGED <<clients, routes, rid, tunnels>>
  PROVE  EntriesKeepTheirId' /\ RoutesLeadToRegistered' /\ ForgottenIsExpired'
<1>1. EntriesKeepTheirId' /\ RoutesLeadToRegistered'
  BY DEF LifecycleInv, EntriesKeepTheirId, RoutesLeadToRegistered
<1>2. ASSUME NEW r \in Regs, Used(r)', ~Registered(r)' PROVE Expired(r)'
  <2>1. Expired(r)
    BY <1>2 DEF LifecycleInv, ForgottenIsExpired, Used, Registered
  <2> QED BY <2>1, ExpiryIsFinal DEF LifecycleInv
<1> QED BY <1>1, <1>2 DEF ForgottenIsExpired

\* forgetServerClient keeps the registries consistent, provided the caller
\* expired the registration before.
LEMMA ForgetKeepsRegistry ==
  ASSUME LifecycleInv, [Next]_vars, NEW r \in Regs, Expired(r), Forget(r),
         UNCHANGED <<rid, tunnels>>
  PROVE  EntriesKeepTheirId' /\ RoutesLeadToRegistered' /\ ForgottenIsExpired'
<1> USE DEF LifecycleInv
<1>1. CASE ~Registered(r)
  BY <1>1, RegistryQuiet DEF Forget, registryVars
<1>2. CASE Registered(r)
  <2>1. /\ clients' = [clients EXCEPT ![rid[r]] = None]
        /\ routes' = RoutesWithout(tunnels[r], rid[r])
    BY <1>2 DEF Forget
  <2>2. rid[r] \in Ids /\ clients[rid[r]] = r
    BY <1>2 DEF Registered, Used, TypeOK
  <2>3. EntriesKeepTheirId'
    BY <2>1 DEF EntriesKeepTheirId, TypeOK
  <2>4. RoutesLeadToRegistered'
    <3> SUFFICES ASSUME NEW n \in Names, routes'[n] # None
                 PROVE  /\ clients'[routes'[n]] # None
                        /\ n \in tunnels[clients'[routes'[n]]]
      BY DEF RoutesLeadToRegistered
    <3>1. routes'[n] = routes[n] /\ ~(n \in tunnels[r] /\ routes[n] = rid[r])
      BY <2>1 DEF RoutesWithout
    <3>2. routes[n] \in Ids /\ n \in tunnels[clients[routes[n]]] /\ clients[routes[n]] # None
      BY <3>1 DEF RoutesLeadToRegistered, TypeOK
    <3>3. routes[n] # rid[r]
      BY <2>2, <3>1, <3>2
    <3> QED BY <2>1, <3>1, <3>2, <3>3 DEF TypeOK
  <2>5. ASSUME NEW s \in Regs, Used(s)', ~Registered(s)' PROVE Expired(s)'
    <3>1. CASE s = r
      BY <3>1, ExpiryIsFinal
    <3>2. CASE s # r
      <4>1. ~Registered(s)
        BY <2>1, <2>2, <2>5, <3>2 DEF Registered, Used, TypeOK
      <4>2. Expired(s)
        BY <2>5, <4>1 DEF ForgottenIsExpired, Used
      <4> QED BY <4>2, ExpiryIsFinal
    <3> QED BY <3>1, <3>2
  <2> QED BY <2>3, <2>4, <2>5 DEF ForgottenIsExpired
<1> QED BY <1>1, <1>2

\* A registration, successful or refused, ends the previous one of its ID.
LEMMA RegisterKeepsRegistry ==
  ASSUME LifecycleInv, [Next]_vars,
         NEW id \in Ids, NEW ns \in SUBSET Names, NEW r \in Regs, Register(id, ns, r)
  PROVE  EntriesKeepTheirId' /\ RoutesLeadToRegistered' /\ ForgottenIsExpired'
<1> USE LifecycleAssumption DEF LifecycleInv
<1> DEFINE names == RequestedNames(id, ns)
<1>1. /\ rid[r] = None
      /\ clients' = [clients EXCEPT ![id] = r]
      /\ rid' = [rid EXCEPT ![r] = id]
      /\ tunnels' = [tunnels EXCEPT ![r] = names]
      /\ routes' = [n \in Names |-> IF n \in names THEN id ELSE CleanedRoutes(id)[n]]
      /\ cancelled' = CleanedCancelled(id)
  BY DEF Register, Used
<1>2. \A i \in Ids : clients[i] # r
  BY <1>1 DEF EntriesKeepTheirId, TypeOK
<1>3. EntriesKeepTheirId'
  BY <1>1, <1>2 DEF EntriesKeepTheirId, TypeOK
<1>4. RoutesLeadToRegistered'
  <2> SUFFICES ASSUME NEW n \in Names, routes'[n] # None
               PROVE  /\ clients'[routes'[n]] # None
                      /\ n \in tunnels'[clients'[routes'[n]]]
    BY DEF RoutesLeadToRegistered
  <2>1. CASE n \in names
    BY <1>1, <2>1 DEF TypeOK
  <2>2. CASE n \notin names
    <3>1. routes'[n] = CleanedRoutes(id)[n]
      BY <1>1, <2>2
    <3>2. routes'[n] = routes[n] /\ routes[n] # id
      <4>1. CASE clients[id] = None
        BY <3>1, <4>1 DEF CleanedRoutes, RoutesLeadToRegistered, TypeOK
      <4>2. CASE clients[id] # None
        BY <3>1, <4>2 DEF CleanedRoutes, RoutesWithout, RoutesLeadToRegistered, TypeOK
      <4> QED BY <4>1, <4>2
    <3>3. routes[n] \in Ids /\ clients[routes[n]] \in Regs
          /\ n \in tunnels[clients[routes[n]]]
      BY <3>2 DEF RoutesLeadToRegistered, TypeOK
    <3> QED BY <1>1, <1>2, <3>2, <3>3 DEF TypeOK
  <2> QED BY <2>1, <2>2
<1>5. ASSUME NEW s \in Regs, Used(s)', ~Registered(s)' PROVE Expired(s)'
  <2>1. s # r
    BY <1>1, <1>5 DEF Registered, Used, TypeOK
  <2>2. Used(s) /\ rid'[s] = rid[s] /\ rid[s] \in Ids
    BY <1>1, <1>5, <2>1 DEF Used, TypeOK
  <2>3. CASE clients[id] = s
    BY <1>1, <2>3 DEF CleanedCancelled, Expired
  <2>4. CASE clients[id] # s
    <3>1. ~Registered(s)
      BY <1>1, <1>5, <2>1, <2>2, <2>4 DEF Registered, Used, TypeOK
    <3>2. Expired(s)
      BY <2>2, <3>1 DEF ForgottenIsExpired
    <3> QED BY <3>2, ExpiryIsFinal
  <2> QED BY <2>3, <2>4
<1> QED BY <1>3, <1>4, <1>5 DEF ForgottenIsExpired

\* A refused registration (409) leaves no route of the client it cleaned up.
LEMMA RefuseKeepsRegistry ==
  ASSUME LifecycleInv, [Next]_vars,
         NEW id \in Ids, NEW ns \in SUBSET Names, Refuse(id, ns)
  PROVE  EntriesKeepTheirId' /\ RoutesLeadToRegistered' /\ ForgottenIsExpired'
<1> USE LifecycleAssumption DEF LifecycleInv
<1>1. /\ clients' = [clients EXCEPT ![id] = None]
      /\ routes' = CleanedRoutes(id)
      /\ cancelled' = CleanedCancelled(id)
      /\ UNCHANGED <<rid, tunnels>>
  BY DEF Refuse
<1>2. EntriesKeepTheirId'
  BY <1>1 DEF EntriesKeepTheirId, TypeOK
<1>3. RoutesLeadToRegistered'
  <2> SUFFICES ASSUME NEW n \in Names, routes'[n] # None
               PROVE  /\ clients'[routes'[n]] # None
                      /\ n \in tunnels'[clients'[routes'[n]]]
    BY DEF RoutesLeadToRegistered
  <2>1. routes'[n] = routes[n] /\ routes[n] # id
    <3>1. CASE clients[id] = None
      BY <1>1, <3>1 DEF CleanedRoutes, RoutesLeadToRegistered, TypeOK
    <3>2. CASE clients[id] # None
      BY <1>1, <3>2 DEF CleanedRoutes, RoutesWithout, RoutesLeadToRegistered, TypeOK
    <3> QED BY <3>1, <3>2
  <2>2. routes[n] \in Ids /\ clients[routes[n]] # None
        /\ n \in tunnels[clients[routes[n]]]
    BY <2>1 DEF RoutesLeadToRegistered, TypeOK
  <2> QED BY <1>1, <2>1, <2>2 DEF TypeOK
<1>4. ASSUME NEW s \in Regs, Used(s)', ~Registered(s)' PROVE Expired(s)'
  <2>1. CASE clients[id] = s
    BY <1>1, <2>1 DEF CleanedCancelled, Expired
  <2>2. CASE clients[id] # s
    <3>1. Used(s) /\ ~Registered(s)
      BY <1>1, <1>4, <2>2 DEF Registered, Used, TypeOK
    <3>2. Expired(s)
      BY <3>1 DEF ForgottenIsExpired
    <3> QED BY <3>2, ExpiryIsFinal
  <2> QED BY <2>1, <2>2
<1> QED BY <1>2, <1>3, <1>4 DEF ForgottenIsExpired

\* No step breaks the consistency of the registries.
LEMMA RegistryNext ==
  ASSUME LifecycleInv, [Next]_vars
  PROVE  EntriesKeepTheirId' /\ RoutesLeadToRegistered' /\ ForgottenIsExpired'
<1> DEFINE Goal == EntriesKeepTheirId' /\ RoutesLeadToRegistered' /\ ForgottenIsExpired'
<1>1. ASSUME NEW id \in Ids, NEW ns \in SUBSET Names, NEW r \in Regs, Register(id, ns, r)
      PROVE  Goal
  BY <1>1, RegisterKeepsRegistry
<1>2. ASSUME NEW id \in Ids, NEW ns \in SUBSET Names, Refuse(id, ns) PROVE Goal
  BY <1>2, RefuseKeepsRegistry
<1>3. ASSUME NEW r \in Regs, NEW s, TeardownStep(r, s), s = "forget" => Expired(r),
             UNCHANGED <<rid, tunnels>>
      PROVE  Goal
  <2>1. CASE s = "forget"
    BY <1>3, <2>1, ForgetKeepsRegistry DEF TeardownStep
  <2>2. CASE s # "forget"
    BY <1>3, <2>2, RegistryQuiet DEF TeardownStep, registryVars
  <2> QED BY <2>1, <2>2
<1>4. ASSUME NEW r \in Regs, ReaperTeardown(r) PROVE Goal
  BY <1>3, <1>4 DEF ReaperTeardown, LifecycleInv, TeardownsExpireFirst
<1>5. ASSUME NEW r \in Regs, MonitorTeardown(r) PROVE Goal
  BY <1>3, <1>5 DEF MonitorTeardown, LifecycleInv, TeardownsExpireFirst
<1>6. ASSUME NEW c \in Conns, QuicTeardown(c) PROVE Goal
  <2>1. owner[c] \in Regs
    BY <1>6 DEF QuicTeardown, TeardownStep, LifecycleInv, HandlersHaveOwners
  <2> QED BY <1>3, <1>6, <2>1 DEF QuicTeardown, LifecycleInv, TeardownsExpireFirst
<1>7. ASSUME NEW c \in Conns, MuxForget(c) PROVE Goal
  <2>1. owner[c] \in Regs /\ Expired(owner[c])
    BY <1>7 DEF MuxForget, LifecycleInv, HandlersHaveOwners, TeardownsExpireFirst
  <2> QED BY <1>7, <2>1, ForgetKeepsRegistry DEF MuxForget, regVars
<1>8. ASSUME UNCHANGED <<clients, routes, rid, tunnels>> PROVE Goal
  BY <1>8, RegistryQuiet
<1>9. \/ \E id \in Ids, ns \in SUBSET Names, r \in Regs : Register(id, ns, r)
      \/ \E id \in Ids, ns \in SUBSET Names : Refuse(id, ns)
      \/ \E r \in Regs : ReaperTeardown(r)
      \/ \E r \in Regs : MonitorTeardown(r)
      \/ \E c \in Conns : QuicTeardown(c)
      \/ \E c \in Conns : MuxForget(c)
      \/ UNCHANGED <<clients, routes, rid, tunnels>>
  BY NextCases DEF HandlerCount, ReaperExit, ReaperFire, MonitorExit, MonitorTick,
       MonitorExpire, Authenticate, ClaimRefused, ClaimCheck, Publish, PeerGone, MuxWatch,
       MuxRelease, MuxCancel, QuicWake, QuicRelease, CloseShutdown, CancelClients, vars,
       registryVars, regVars
<1> HIDE DEF Goal
<1> QED
  <2>1. Goal
    BY <1>1, <1>2, <1>4, <1>5, <1>6, <1>7, <1>8, <1>9
  <2> QED BY <2>1 DEF Goal

\* Nobody runs forgetServerClient on a registration that has not expired.
LEMMA TeardownsNext ==
  ASSUME LifecycleInv, [Next]_vars
  PROVE  TeardownsExpireFirst'
<1> USE DEF LifecycleInv
<1>1. ASSUME NEW r \in Regs, reaper'[r] = "forget" PROVE Expired(r)'
  <2>1. CASE reaper[r] = "forget"
    BY <2>1, ExpiryIsFinal DEF TeardownsExpireFirst
  <2>2. CASE reaper[r] # "forget"
    <3>1. ReaperFire(r)
      BY <1>1, <2>2, NextCases DEF Register, Refuse, HandlerCount, ReaperExit, ReaperFire,
         ReaperTeardown, MonitorExit, MonitorTick, MonitorExpire, MonitorTeardown,
         Authenticate, ClaimRefused, ClaimCheck, Publish, PeerGone, MuxWatch, MuxRelease,
         MuxForget, MuxCancel, QuicWake, QuicRelease, QuicTeardown, CloseShutdown,
         CancelClients, vars, taskVars, NextTeardownStage, TypeOK
    <3> QED BY <1>1, <2>2, <3>1 DEF ReaperFire, Expired, TypeOK
  <2> QED BY <2>1, <2>2
<1>2. ASSUME NEW r \in Regs, monitor'[r] = "forget" PROVE Expired(r)'
  <2>1. CASE monitor[r] = "forget"
    BY <2>1, ExpiryIsFinal DEF TeardownsExpireFirst
  <2>2. CASE monitor[r] # "forget"
    <3>1. MonitorExpire(r)
      BY <1>2, <2>2, NextCases DEF Register, Refuse, HandlerCount, ReaperExit, ReaperFire,
         ReaperTeardown, MonitorExit, MonitorTick, MonitorExpire, MonitorTeardown,
         Authenticate, ClaimRefused, ClaimCheck, Publish, PeerGone, MuxWatch, MuxRelease,
         MuxForget, MuxCancel, QuicWake, QuicRelease, QuicTeardown, CloseShutdown,
         CancelClients, vars, taskVars, NextTeardownStage, TypeOK
    <3> QED BY <3>1 DEF MonitorExpire, Expired, TypeOK
  <2> QED BY <2>1, <2>2
<1>3. ASSUME NEW c \in Conns, pc'[c] \in {"muxForget", "forget"} PROVE Expired(owner[c])' 
  <2>1. CASE pc[c] \in {"muxForget", "forget"} /\ owner'[c] = owner[c]
    BY <2>1, ExpiryIsFinal DEF TeardownsExpireFirst, HandlersHaveOwners, Expired
  <2>2. CASE ~(pc[c] \in {"muxForget", "forget"} /\ owner'[c] = owner[c])
    <3>1. MuxRelease(c) \/ QuicRelease(c)
      BY <1>3, <2>2, NextCases DEF Register, Refuse, HandlerCount, ReaperExit, ReaperFire,
         ReaperTeardown, MonitorExit, MonitorTick, MonitorExpire, MonitorTeardown,
         Authenticate, ClaimRefused, ClaimCheck, Publish, PeerGone, MuxWatch, MuxRelease,
         MuxForget, MuxCancel, QuicWake, QuicRelease, QuicTeardown, CloseShutdown,
         CancelClients, vars, connVars, NextTeardownStage, Return, TypeOK
    <3>2. owner[c] \in Regs
      BY <3>1 DEF MuxRelease, QuicRelease, HandlersHaveOwners
    <3> QED BY <1>3, <3>1, <3>2 DEF MuxRelease, QuicRelease, Return, Expired, TypeOK
  <2> QED BY <2>1, <2>2
<1> QED BY <1>1, <1>2, <1>3 DEF TeardownsExpireFirst

\* The client ID of a registration and its token are set once.
LEMMA IdentityIsFinal ==
  ASSUME TypeOK, [Next]_vars, NEW r \in Regs, Used(r)
  PROVE  Used(r)' /\ hasToken'[r] = hasToken[r]
<1>1. CASE \E id \in Ids, ns \in SUBSET Names, s \in Regs : Register(id, ns, s)
  BY <1>1 DEF Register, Used, TypeOK
<1>2. CASE UNCHANGED <<rid, hasToken>>
  BY <1>2 DEF Used
<1>3. \/ \E id \in Ids, ns \in SUBSET Names, s \in Regs : Register(id, ns, s)
      \/ UNCHANGED <<rid, hasToken>>
  BY NextCases DEF Refuse, HandlerCount, ReaperExit, ReaperFire,
     ReaperTeardown, MonitorExit, MonitorTick, MonitorExpire, MonitorTeardown,
     Authenticate, ClaimRefused, ClaimCheck, Publish, PeerGone, MuxWatch, MuxRelease,
     MuxForget, MuxCancel, QuicWake, QuicRelease, QuicTeardown, CloseShutdown,
     CancelClients, vars, regVars
<1> QED BY <1>1, <1>2, <1>3

\* A handler that is at work keeps the registration it authenticated for.
LEMMA OwnersNext ==
  ASSUME LifecycleInv, [Next]_vars
  PROVE  HandlersHaveOwners'
<1> USE DEF LifecycleInv
<1> SUFFICES ASSUME NEW c \in Conns, pc'[c] \notin {"idle", "done"}
             PROVE  owner'[c] \in Regs /\ rid'[owner'[c]] # None /\ hasToken'[owner'[c]]
  BY DEF HandlersHaveOwners, Used
<1>1. CASE pc[c] \notin {"idle", "done"} /\ owner'[c] = owner[c]
  BY <1>1, IdentityIsFinal DEF HandlersHaveOwners, Used
<1>2. CASE ~(pc[c] \notin {"idle", "done"} /\ owner'[c] = owner[c])
  <2>1. PICK r \in Regs : \E p \in Regs \cup {None} : Authenticate(c, r, p)
    BY <1>2, NextCases DEF Register, Refuse, HandlerCount, ReaperExit, ReaperFire,
       ReaperTeardown, MonitorExit, MonitorTick, MonitorExpire, MonitorTeardown,
       Authenticate, ClaimRefused, ClaimCheck, Publish, PeerGone, MuxWatch, MuxRelease,
       MuxForget, MuxCancel, QuicWake, QuicRelease, QuicTeardown, CloseShutdown,
       CancelClients, vars, connVars, TeardownStep, Return, TypeOK
  <2> QED BY <2>1 DEF Authenticate, ValidSessionToken, Registered, Used, regVars, TypeOK
<1> QED BY <1>1, <1>2

\* Only a registration with a token ever has a connection published.
LEMMA RestoredNext ==
  ASSUME LifecycleInv, [Next]_vars
  PROVE  RestoredNeverServed'
<1> USE DEF LifecycleInv
<1> SUFFICES ASSUME NEW r \in Regs, Used(r)', ~hasToken'[r]
             PROVE  muxSession'[r] = None /\ quicConn'[r] = None
  BY DEF RestoredNeverServed, Used
<1>1. Used(r) /\ ~hasToken[r]
  BY NextCases DEF Register, Refuse, HandlerCount, ReaperExit, ReaperFire,
     ReaperTeardown, MonitorExit, MonitorTick, MonitorExpire, MonitorTeardown,
     Authenticate, ClaimRefused, ClaimCheck, Publish, PeerGone, MuxWatch, MuxRelease,
     MuxForget, MuxCancel, QuicWake, QuicRelease, QuicTeardown, CloseShutdown,
     CancelClients, vars, regVars, Used, TypeOK
<1>2. muxSession[r] = None /\ quicConn[r] = None
  BY <1>1 DEF RestoredNeverServed
<1>3. ASSUME NEW c \in Conns, Publish(c) PROVE muxSession'[r] = None /\ quicConn'[r] = None
  <2>1. owner[c] # r
    BY <1>1, <1>3 DEF Publish, HandlersHaveOwners
  <2> QED BY <1>2, <1>3, <2>1 DEF Publish, TypeOK
<1>4. ASSUME NEW s, NEW st, TeardownStep(s, st), UNCHANGED quicConn
      PROVE  muxSession'[r] = None /\ quicConn'[r] = None
  BY <1>2, <1>4 DEF TeardownStep, CloseMux, TypeOK
<1>5. CASE \E s \in Regs : ReaperTeardown(s) \/ MonitorTeardown(s)
  BY <1>4, <1>5 DEF ReaperTeardown, MonitorTeardown
<1>6. CASE \E c \in Conns : QuicTeardown(c)
  BY <1>4, <1>6 DEF QuicTeardown
<1>7. CASE \E c \in Conns : MuxRelease(c)
  BY <1>2, <1>7 DEF MuxRelease, TypeOK
<1>8. CASE \E c \in Conns : QuicRelease(c)
  BY <1>2, <1>8 DEF QuicRelease, TypeOK
<1>9. CASE UNCHANGED <<muxSession, quicConn>>
  BY <1>2, <1>9
<1>10. \/ \E c \in Conns : Publish(c)
       \/ \E s \in Regs : ReaperTeardown(s) \/ MonitorTeardown(s)
       \/ \E c \in Conns : QuicTeardown(c)
       \/ \E c \in Conns : MuxRelease(c)
       \/ \E c \in Conns : QuicRelease(c)
       \/ UNCHANGED <<muxSession, quicConn>>
  BY NextCases DEF Register, Refuse, HandlerCount, ReaperExit, ReaperFire,
     MonitorExit, MonitorTick, MonitorExpire, Authenticate, ClaimRefused, ClaimCheck,
     PeerGone, MuxWatch, MuxForget, MuxCancel, QuicWake, CloseShutdown,
     CancelClients, vars, carrierVars
<1> QED BY <1>3, <1>5, <1>6, <1>7, <1>8, <1>9, <1>10

--------------------------------------------------------------------------------
\* The inductive invariant holds in every reachable state.
THEOREM LifecycleInvariant == Spec => []LifecycleInv
<1>1. LifecycleInv /\ [Next]_vars => LifecycleInv'
  BY TypeNext, RegistryNext, TeardownsNext, OwnersNext, RestoredNext DEF LifecycleInv
<1> QED BY InvInit, <1>1, PTL DEF Spec

\* A registration that lost its registry entry has been expired, whichever of
\* reaper, monitor, lost carrier or re-registration removed it.
THEOREM ForgottenExpired == Spec => []ForgottenIsExpired
<1>1. LifecycleInv => ForgottenIsExpired
  BY DEF LifecycleInv
<1> QED BY LifecycleInvariant, <1>1, PTL

\* Every route resolves to a registered client that asked for the name.
THEOREM RoutesResolve == Spec => []RoutesLeadToRegistered
<1>1. LifecycleInv => RoutesLeadToRegistered
  BY DEF LifecycleInv
<1> QED BY LifecycleInvariant, <1>1, PTL

\* No data connection is ever published for a client that loadServerState
\* restored.
THEOREM RestoredUnserved == Spec => []RestoredNeverServed
<1>1. LifecycleInv => RestoredNeverServed
  BY DEF LifecycleInv
<1> QED BY LifecycleInvariant, <1>1, PTL

\* claimServerAttach accepts connections only for registrations that still own
\* their client ID.
THEOREM LateAttach == Spec => LateAttachRefused
<1>1. ASSUME LifecycleInv, [Next]_vars, NEW c \in Conns, pc[c] = "claim", pc'[c] = "publish"
      PROVE  Registered(owner[c])
  <2>1. ClaimCheck(c)
    BY <1>1, NextCases DEF Register, Refuse, HandlerCount, ReaperExit, ReaperFire,
       ReaperTeardown, MonitorExit, MonitorTick, MonitorExpire, MonitorTeardown,
       Authenticate, ClaimRefused, ClaimCheck, Publish, PeerGone, MuxWatch, MuxRelease,
       MuxForget, MuxCancel, QuicWake, QuicRelease, QuicTeardown, CloseShutdown,
       CancelClients, vars, connVars, TeardownStep, Return, LifecycleInv, TypeOK
  <2>2. owner[c] \in Regs /\ Used(owner[c])
    BY <1>1 DEF LifecycleInv, HandlersHaveOwners
  <2> QED BY <1>1, <2>1, <2>2 DEF ClaimCheck, Claimable, Expired, LifecycleInv,
                                   ForgottenIsExpired
<1>2. LifecycleInv /\ [Next]_vars
        => [\A c \in Conns : pc[c] = "claim" /\ pc'[c] = "publish" => Registered(owner[c])]_vars
  BY <1>1
<1> QED BY LifecycleInvariant, <1>2, PTL DEF Spec, LateAttachRefused

--------------------------------------------------------------------------------
(* The gauge of active clients.                                            *)

\* Registrations whose handler has run srvActiveClients.Inc.
Counted == {r \in Regs : Used(r) /\ ~counting[r]}

\* Registrations whose decrementOnce has run.
Returned == {r \in Regs : decOnce[r]}

\* A goroutine or a handler has removed r, or found it removed, and has yet to
\* run its decrementOnce.
Pending(r) ==
  \/ reaper[r] \in {"closeMux", "cancel"}
  \/ monitor[r] \in {"closeMux", "cancel"}
  \/ \E c \in Conns : owner[c] = r /\ pc[c] \in {"closeMux", "cancel", "muxCancel", "muxStale"}

\* Only registrations that exist are counted, cancelled by decrementOnce or
\* torn down, and there are finitely many at any time.
TasksHaveRegistrations ==
  /\ IsFiniteSet({r \in Regs : Used(r)})
  /\ \A r \in Regs : counting[r] \/ decOnce[r] \/ Pending(r) => Used(r)

\* decrementOnce runs, or is about to run, only for a registration that lost
\* its registry entry, and ...
ReturnedIsForgotten == \A r \in Regs : decOnce[r] \/ Pending(r) => ~Registered(r)

\* ... whoever removed the entry runs it or has yet to.
ForgottenIsReturned == \A r \in Regs : Used(r) /\ ~Registered(r) => decOnce[r] \/ Pending(r)

\* What the gauge is at any time, settled or not.
GaugeExact == gauge = Cardinality(Counted) - Cardinality(Returned)

\* The reaper and the monitor of a registration are started with it.
RunForRegistrations ==
  \A r \in Regs : reaper[r] # "off" \/ monitor[r] # "off" => Used(r)

\* The inductive invariant behind the gauge, on top of LifecycleInv.
GaugeCore == TasksHaveRegistrations /\ ReturnedIsForgotten /\ ForgottenIsReturned /\ GaugeExact

\* The same with the tasks that run for registrations only.
GaugeInv == GaugeCore /\ RunForRegistrations

\* A handler or a goroutine that removes the entry of r, if r still owns it,
\* and now has the gauge to settle ...
Removes(r) ==
  /\ Used(r)
  /\ Forget(r)
  /\ UNCHANGED <<rid, counting, decOnce, gauge>>
  /\ \A s \in Regs : Pending(s)' <=> Pending(s) \/ s = r

\* ... one that settles it ...
Returns(r) ==
  /\ Pending(r)
  /\ decOnce' = [decOnce EXCEPT ![r] = TRUE]
  /\ gauge' = GaugeAfterDec(r)
  /\ UNCHANGED <<clients, rid, counting>>
  /\ \A s \in Regs : s # r => (Pending(s)' <=> Pending(s))

\* ... and one that does neither.
Quiet ==
  /\ UNCHANGED <<clients, rid, counting, decOnce, gauge>>
  /\ \A s \in Regs : Pending(s)' <=> Pending(s)

\* A step of closeServerClientConnections, whoever runs it.
LEMMA TeardownMoves ==
  ASSUME NEW r \in Regs, NEW st, TeardownStep(r, st), Used(r), UNCHANGED <<rid, counting>>,
         st \in {"closeMux", "cancel"} => Pending(r),
         st = "forget" => \A s \in Regs : Pending(s)' <=> Pending(s) \/ s = r,
         st = "closeMux" => \A s \in Regs : Pending(s)' <=> Pending(s),
         st = "cancel" => \A s \in Regs : s # r => (Pending(s)' <=> Pending(s))
  PROVE  Removes(r) \/ Returns(r) \/ Quiet
<1>1. CASE st = "forget"
  BY <1>1 DEF TeardownStep, Removes
<1>2. CASE st = "closeMux"
  BY <1>2 DEF TeardownStep, Quiet, registryVars
<1>3. CASE st = "cancel"
  BY <1>3 DEF TeardownStep, Returns, CancelAndCount, registryVars
<1> QED BY <1>1, <1>2, <1>3 DEF TeardownStep

\* Every step registers, counts, removes an entry, settles the gauge or does
\* nothing of the kind.
LEMMA GaugeMoves ==
  ASSUME LifecycleInv, RunForRegistrations, [Next]_vars
  PROVE  \/ \E id \in Ids, ns \in SUBSET Names, r \in Regs : Register(id, ns, r)
         \/ \E id \in Ids, ns \in SUBSET Names : Refuse(id, ns)
         \/ \E r \in Regs : HandlerCount(r)
         \/ \E r \in Regs : Removes(r) \/ Returns(r)
         \/ Quiet
<1> DEFINE Goal == (\E r \in Regs : Removes(r) \/ Returns(r)) \/ Quiet
<1> USE DEF LifecycleInv
<1>1. ASSUME NEW r \in Regs, ReaperTeardown(r) PROVE Goal
  <2>1. /\ reaper' = [reaper EXCEPT ![r] = NextTeardownStage(reaper[r])]
        /\ TeardownStep(r, reaper[r])
        /\ UNCHANGED <<monitor, pc, owner, rid, counting>>
        /\ reaper \in [Regs -> ReaperStages]
    BY <1>1 DEF ReaperTeardown, TypeOK
  <2>2. reaper[r] \in {"forget", "closeMux", "cancel"}
    BY <2>1 DEF TeardownStep
  <2>3. \A s \in Regs : s # r => (Pending(s)' <=> Pending(s))
    BY <2>1 DEF Pending
  <2>4. reaper[r] # "cancel" => Pending(r)'
    BY <2>1, <2>2 DEF Pending, NextTeardownStage
  <2>5. reaper[r] # "forget" => Pending(r)
    BY <2>2 DEF Pending
  <2>6. Removes(r) \/ Returns(r) \/ Quiet
    BY <2>1, <2>2, <2>3, <2>4, <2>5, TeardownMoves DEF RunForRegistrations
  <2> QED BY <2>6
<1>2. ASSUME NEW r \in Regs, MonitorTeardown(r) PROVE Goal
  <2>1. /\ monitor' = [monitor EXCEPT ![r] = NextTeardownStage(monitor[r])]
        /\ TeardownStep(r, monitor[r])
        /\ UNCHANGED <<reaper, pc, owner, rid, counting>>
        /\ monitor \in [Regs -> MonitorStages]
    BY <1>2 DEF MonitorTeardown, TypeOK
  <2>2. monitor[r] \in {"forget", "closeMux", "cancel"}
    BY <2>1 DEF TeardownStep
  <2>3. \A s \in Regs : s # r => (Pending(s)' <=> Pending(s))
    BY <2>1 DEF Pending
  <2>4. monitor[r] # "cancel" => Pending(r)'
    BY <2>1, <2>2 DEF Pending, NextTeardownStage
  <2>5. monitor[r] # "forget" => Pending(r)
    BY <2>2 DEF Pending
  <2>6. Removes(r) \/ Returns(r) \/ Quiet
    BY <2>1, <2>2, <2>3, <2>4, <2>5, TeardownMoves DEF RunForRegistrations
  <2> QED BY <2>6
<1>3. ASSUME NEW c \in Conns, QuicTeardown(c) PROVE Goal
  <2> DEFINE r == owner[c]
  <2>1. r \in Regs /\ Used(r)
    BY <1>3 DEF QuicTeardown, TeardownStep, HandlersHaveOwners
  <2>2. /\ TeardownStep(r, pc[c])
        /\ UNCHANGED <<reaper, monitor, rid, counting>>
        /\ \A d \in Conns : d # c => pc'[d] = pc[d] /\ owner'[d] = owner[d]
        /\ pc[c] # "cancel" => owner'[c] = r /\ pc'[c] = NextTeardownStage(pc[c])
        /\ pc[c] = "cancel" => owner'[c] = None /\ pc'[c] = "done"
    BY <1>3 DEF QuicTeardown, Return, TypeOK, taskVars
  <2>3. pc[c] \in {"forget", "closeMux", "cancel"}
    BY <2>2 DEF TeardownStep
  <2>4. \A s \in Regs : s # r => (Pending(s)' <=> Pending(s))
    BY <2>1, <2>2, LifecycleAssumption DEF Pending
  <2>5. pc[c] # "cancel" => Pending(r)'
    BY <2>1, <2>2, <2>3 DEF Pending, NextTeardownStage
  <2>6. pc[c] # "forget" => Pending(r)
    BY <2>3 DEF Pending
  <2>7. Removes(r) \/ Returns(r) \/ Quiet
    BY <2>1, <2>2, <2>4, <2>5, <2>6, TeardownMoves
  <2> QED BY <2>1, <2>7
<1>4. ASSUME NEW c \in Conns, MuxForget(c) PROVE Goal
  <2> DEFINE r == owner[c]
  <2>1. r \in Regs /\ Used(r)
    BY <1>4 DEF MuxForget, HandlersHaveOwners
  <2>2. /\ Forget(r)
        /\ UNCHANGED <<reaper, monitor, rid, counting, decOnce, gauge, owner>>
        /\ \A d \in Conns : d # c => pc'[d] = pc[d]
        /\ pc[c] = "muxForget" /\ pc'[c] \in {"muxCancel", "muxStale"}
    BY <1>4 DEF MuxForget, TypeOK, regVars, taskVars
  <2>3. \A s \in Regs : s # r => (Pending(s)' <=> Pending(s))
    BY <2>1, <2>2 DEF Pending
  <2>4. Pending(r)'
    BY <2>1, <2>2 DEF Pending
  <2>5. Removes(r)
    BY <2>1, <2>2, <2>3, <2>4 DEF Removes
  <2> QED BY <2>1, <2>5
<1>5. ASSUME NEW c \in Conns, MuxCancel(c) PROVE Goal
  <2> DEFINE r == owner[c]
  <2>1. r \in Regs /\ Used(r)
    BY <1>5 DEF MuxCancel, HandlersHaveOwners
  <2>2. /\ decOnce' = [decOnce EXCEPT ![r] = TRUE]
        /\ gauge' = GaugeAfterDec(r)
        /\ UNCHANGED <<clients, reaper, monitor, rid, counting>>
        /\ \A d \in Conns : d # c => pc'[d] = pc[d] /\ owner'[d] = owner[d]
        /\ pc[c] \in {"muxCancel", "muxStale"} /\ owner'[c] = None
    BY <1>5 DEF MuxCancel, Return, TypeOK, registryVars, taskVars
  <2>3. \A s \in Regs : s # r => (Pending(s)' <=> Pending(s))
    BY <2>1, <2>2, LifecycleAssumption DEF Pending
  <2>4. Pending(r)
    BY <2>2 DEF Pending
  <2>5. Returns(r)
    BY <2>2, <2>3, <2>4 DEF Returns
  <2> QED BY <2>1, <2>5
<1>6. ASSUME NEW r \in Regs,
             ReaperExit(r) \/ ReaperFire(r) \/ MonitorExit(r) \/ MonitorTick(r)
               \/ MonitorExpire(r)
      PROVE  Quiet
  <2>1. /\ UNCHANGED <<clients, rid, counting, decOnce, gauge, pc, owner>>
        /\ \A s \in Regs : reaper'[s] \in {"closeMux", "cancel"}
                             <=> reaper[s] \in {"closeMux", "cancel"}
        /\ \A s \in Regs : monitor'[s] \in {"closeMux", "cancel"}
                             <=> monitor[s] \in {"closeMux", "cancel"}
    BY <1>6 DEF ReaperExit, ReaperFire, MonitorExit, MonitorTick, MonitorExpire, TypeOK,
                registryVars, regVars, connVars
  <2> QED BY <2>1 DEF Quiet, Pending
<1>7. ASSUME NEW c \in Conns,
             \/ \E r \in Regs, p \in Regs \cup {None} : Authenticate(c, r, p)
             \/ ClaimRefused(c) \/ ClaimCheck(c) \/ Publish(c) \/ PeerGone(c) \/ MuxWatch(c)
             \/ MuxRelease(c) \/ (\E gone \in BOOLEAN : QuicWake(c, gone)) \/ QuicRelease(c)
      PROVE  Quiet
  <2> DEFINE At == {"closeMux", "cancel", "muxCancel", "muxStale"}
  <2>1. UNCHANGED <<clients, rid, counting, decOnce, gauge, reaper, monitor>>
    BY <1>7 DEF Authenticate, ClaimRefused, ClaimCheck, Publish, PeerGone, MuxWatch,
       MuxRelease, QuicWake, QuicRelease, registryVars, regVars, taskVars
  <2>2. \A d \in Conns : d # c => pc'[d] = pc[d] /\ owner'[d] = owner[d]
    BY <1>7 DEF Authenticate, ClaimRefused, ClaimCheck, Publish, PeerGone, MuxWatch,
       MuxRelease, QuicWake, QuicRelease, Return, TypeOK
  <2>3. pc[c] \notin At /\ pc'[c] \notin At
    BY <1>7 DEF Authenticate, ClaimRefused, ClaimCheck, Publish, PeerGone, MuxWatch,
       MuxRelease, QuicWake, QuicRelease, Return, TypeOK
  <2>4. \A s \in Regs : Pending(s)' <=> Pending(s)
    BY <2>1, <2>2, <2>3 DEF Pending
  <2> QED BY <2>1, <2>4 DEF Quiet
<1>8. ASSUME CloseShutdown \/ CancelClients \/ UNCHANGED vars PROVE Quiet
  <2>1. UNCHANGED <<clients, rid, counting, decOnce, gauge, reaper, monitor, pc, owner>>
    BY <1>8 DEF CloseShutdown, CancelClients, vars, registryVars, regVars, taskVars, connVars
  <2> QED BY <2>1 DEF Quiet, Pending
<1>9. QED
  <2>1. Quiet => Goal
    OBVIOUS
  <2> HIDE DEF Goal
  <2>2. \A r \in Regs : ReaperTeardown(r) \/ MonitorTeardown(r) => Goal
    BY <1>1, <1>2
  <2>3. \A c \in Conns : QuicTeardown(c) \/ MuxForget(c) \/ MuxCancel(c) => Goal
    BY <1>3, <1>4, <1>5
  <2>4. \A r \in Regs : ReaperExit(r) \/ ReaperFire(r) \/ MonitorExit(r) \/ MonitorTick(r)
                          \/ MonitorExpire(r) => Goal
    BY <1>6, <2>1
  <2>5. \A c \in Conns : ClaimRefused(c) \/ ClaimCheck(c) \/ Publish(c) \/ PeerGone(c)
                           \/ MuxWatch(c) \/ MuxRelease(c) \/ QuicRelease(c) => Goal
    BY <1>7, <2>1
  <2>6. \A c \in Conns, gone \in BOOLEAN : QuicWake(c, gone) => Goal
    BY <1>7, <2>1
  <2>7. \A c \in Conns, r \in Regs, p \in Regs \cup {None} : Authenticate(c, r, p) => Goal
    BY <1>7, <2>1
  <2>8. \/ \E id \in Ids, ns \in SUBSET Names, r \in Regs : Register(id, ns, r)
        \/ \E id \in Ids, ns \in SUBSET Names : Refuse(id, ns)
        \/ \E r \in Regs : HandlerCount(r)
        \/ Goal
    <3>1. CloseShutdown \/ CancelClients \/ UNCHANGED vars => Goal
      BY <1>8, <2>1
    <3> QED BY NextCases, <2>2, <2>3, <2>4, <2>5, <2>6, <2>7, <3>1
  <2> QED BY <2>8 DEF Goal

\* One more registration returns its share: decrementOnce for the first time.
LEMMA ReturnOne ==
  ASSUME GaugeCore, NEW r \in Regs, Used(r), ~decOnce[r],
         \A s \in Regs : decOnce'[s] <=> decOnce[s] \/ s = r
  PROVE  Cardinality(Returned') = Cardinality(Returned) + 1
<1>1. IsFiniteSet(Returned)
  <2>1. Returned \in SUBSET {s \in Regs : Used(s)}
    BY DEF Returned, GaugeCore, TasksHaveRegistrations
  <2> QED BY <2>1, FS_Subset DEF GaugeCore, TasksHaveRegistrations
<1>2. Returned' = Returned \cup {r} /\ r \notin Returned
  BY DEF Returned
<1> QED BY <1>1, <1>2, FS_AddElement

\* The cardinalities the gauge is the difference of are numbers.
LEMMA Countable ==
  ASSUME GaugeCore
  PROVE  /\ IsFiniteSet(Counted) /\ Cardinality(Counted) \in Nat
         /\ IsFiniteSet(Returned) /\ Cardinality(Returned) \in Nat
<1>1. Counted \in SUBSET {s \in Regs : Used(s)} /\ Returned \in SUBSET {s \in Regs : Used(s)}
  BY DEF Counted, Returned, GaugeCore, TasksHaveRegistrations
<1>2. IsFiniteSet(Counted) /\ IsFiniteSet(Returned)
  BY <1>1, FS_Subset DEF GaugeCore, TasksHaveRegistrations
<1> QED BY <1>2, FS_CardinalityType

\* A step that leaves the registries, the counting handlers and the gauge alone.
LEMMA QuietKeeps ==
  ASSUME LifecycleInv, GaugeCore, Quiet
  PROVE  GaugeCore'
<1> USE DEF GaugeCore, Quiet
<1>1. \A s \in Regs : (Used(s)' <=> Used(s)) /\ (Registered(s)' <=> Registered(s))
  BY DEF Used, Registered
<1>2. TasksHaveRegistrations'
  <2>1. {s \in Regs : Used(s)}' = {s \in Regs : Used(s)}
    BY <1>1
  <2> QED BY <1>1, <2>1 DEF TasksHaveRegistrations
<1>3. ReturnedIsForgotten' /\ ForgottenIsReturned'
  BY <1>1 DEF ReturnedIsForgotten, ForgottenIsReturned
<1>4. Counted' = Counted /\ Returned' = Returned
  BY <1>1 DEF Counted, Returned
<1>5. GaugeExact'
  BY <1>4 DEF GaugeExact
<1> QED BY <1>2, <1>3, <1>5

\* forgetServerClient leaves the decrement to its caller.
LEMMA RemoveKeeps ==
  ASSUME LifecycleInv, GaugeCore, NEW r \in Regs, Removes(r)
  PROVE  GaugeCore'
<1> USE DEF GaugeCore, Removes
<1>1. \A s \in Regs : Used(s)' <=> Used(s)
  BY DEF Used
<1>2. ~Registered(r)' /\ \A s \in Regs : s # r => (Registered(s)' <=> Registered(s))
  <2>1. rid[r] \in Ids
    BY DEF Used, LifecycleInv, TypeOK
  <2>2. CASE Registered(r)
    <3>1. clients' = [clients EXCEPT ![rid[r]] = None] /\ clients[rid[r]] = r
      BY <2>2 DEF Forget, Registered
    <3>2. r # None
      BY LifecycleAssumption
    <3> QED BY <2>1, <3>1, <3>2, LifecycleAssumption DEF Registered, Used, LifecycleInv, TypeOK
  <2>3. CASE ~Registered(r)
    BY <2>3 DEF Forget, Registered, Used, registryVars
  <2> QED BY <2>2, <2>3
<1>3. TasksHaveRegistrations'
  <2>1. {s \in Regs : Used(s)}' = {s \in Regs : Used(s)}
    BY <1>1
  <2> QED BY <1>1, <2>1 DEF TasksHaveRegistrations
<1>4. ReturnedIsForgotten' /\ ForgottenIsReturned'
  BY <1>1, <1>2 DEF ReturnedIsForgotten, ForgottenIsReturned
<1>5. Counted' = Counted /\ Returned' = Returned
  BY <1>1 DEF Counted, Returned
<1>6. GaugeExact'
  BY <1>5 DEF GaugeExact
<1> QED BY <1>3, <1>4, <1>6

\* decrementOnce: the first caller takes the share of the registration off the
\* gauge, the others do nothing.
LEMMA ReturnKeeps ==
  ASSUME LifecycleInv, GaugeCore, NEW r \in Regs, Returns(r)
  PROVE  GaugeCore'
<1> USE DEF GaugeCore, Returns
<1>1. \A s \in Regs : (Used(s)' <=> Used(s)) /\ (Registered(s)' <=> Registered(s))
  BY DEF Used, Registered
<1>2. \A s \in Regs : decOnce'[s] <=> decOnce[s] \/ s = r
  BY DEF LifecycleInv, TypeOK
<1>3. Used(r) /\ ~Registered(r)
  BY DEF TasksHaveRegistrations, ReturnedIsForgotten
<1>4. TasksHaveRegistrations'
  <2>1. {s \in Regs : Used(s)}' = {s \in Regs : Used(s)}
    BY <1>1
  <2> QED BY <1>1, <1>2, <1>3, <2>1 DEF TasksHaveRegistrations
<1>5. ReturnedIsForgotten' /\ ForgottenIsReturned'
  BY <1>1, <1>2, <1>3 DEF ReturnedIsForgotten, ForgottenIsReturned
<1>6. Counted' = Counted
  BY <1>1 DEF Counted
<1>7. GaugeExact'
  <2>1. CASE decOnce[r]
    <3>1. Returned' = Returned
      BY <1>2, <2>1 DEF Returned
    <3> QED BY <1>6, <2>1, <3>1 DEF GaugeExact, GaugeAfterDec
  <2>2. CASE ~decOnce[r]
    <3>1. Cardinality(Returned') = Cardinality(Returned) + 1
      BY <1>2, <1>3, <2>2, ReturnOne
    <3> QED BY <1>6, <2>2, <3>1, Countable DEF GaugeExact, GaugeAfterDec
  <2> QED BY <2>1, <2>2
<1> QED BY <1>4, <1>5, <1>7

\* registerServerClientHandler counts the registration at its end.
LEMMA CountKeeps ==
  ASSUME LifecycleInv, GaugeCore, NEW r \in Regs, HandlerCount(r)
  PROVE  GaugeCore'
<1> USE DEF GaugeCore
<1>1. /\ counting[r] /\ counting' = [counting EXCEPT ![r] = FALSE] /\ gauge' = gauge + 1
      /\ UNCHANGED <<clients, rid, decOnce, reaper, monitor, owner, pc>>
      /\ counting \in [Regs -> BOOLEAN]
  BY DEF HandlerCount, registryVars, regVars, connVars, LifecycleInv, TypeOK
<1>2. \A s \in Regs : /\ Used(s)' <=> Used(s)
                      /\ Registered(s)' <=> Registered(s)
                      /\ Pending(s)' <=> Pending(s)
  BY <1>1 DEF Used, Registered, Pending
<1>3. TasksHaveRegistrations'
  <2>1. {s \in Regs : Used(s)}' = {s \in Regs : Used(s)}
    BY <1>2
  <2> QED BY <1>1, <1>2, <2>1 DEF TasksHaveRegistrations
<1>4. ReturnedIsForgotten' /\ ForgottenIsReturned'
  BY <1>1, <1>2 DEF ReturnedIsForgotten, ForgottenIsReturned
<1>5. Returned' = Returned
  BY <1>1 DEF Returned
<1>6. Counted' = Counted \cup {r} /\ r \notin Counted
  BY <1>1, <1>2 DEF Counted, TasksHaveRegistrations
<1>7. Cardinality(Counted') = Cardinality(Counted) + 1
  BY <1>6, Countable, FS_AddElement
<1>8. GaugeExact'
  BY <1>1, <1>5, <1>7, Countable DEF GaugeExact
<1> QED BY <1>3, <1>4, <1>8

\* The cleanup of the client ID a registration request names: the registration
\* it replaces returns its share there and then.
LEMMA CleanupReturns ==
  ASSUME LifecycleInv, GaugeCore, NEW id \in Ids, decOnce' = CleanedDecOnce(id)
  PROVE  CleanedGauge(id) - gauge = Cardinality(Returned) - Cardinality(Returned')
<1>1. \A s \in Regs : decOnce'[s] <=> decOnce[s] \/ s = clients[id]
  BY DEF CleanedDecOnce
<1>2. CASE clients[id] = None
  <2>1. Returned' = Returned
    BY <1>1, <1>2, LifecycleAssumption DEF Returned
  <2>2. gauge \in Int
    BY DEF LifecycleInv, TypeOK
  <2> QED BY <1>2, <2>1, <2>2, Countable DEF CleanedGauge
<1>3. CASE clients[id] # None
  <2> DEFINE r == clients[id]
  <2>1. r \in Regs /\ Used(r) /\ Registered(r)
    BY <1>3, LifecycleAssumption DEF LifecycleInv, TypeOK, EntriesKeepTheirId, Used, Registered
  <2>2. ~decOnce[r]
    BY <2>1 DEF GaugeCore, ReturnedIsForgotten
  <2>3. Cardinality(Returned') = Cardinality(Returned) + 1
    BY <1>1, <2>1, <2>2, ReturnOne
  <2>4. gauge \in Int
    BY DEF LifecycleInv, TypeOK
  <2>5. CleanedGauge(id) = gauge - 1
    BY <1>3, <2>2 DEF CleanedGauge, GaugeAfterDec
  <2> QED BY <2>3, <2>4, <2>5, Countable
<1> QED BY <1>2, <1>3

\* A registration takes the entry over: the replaced one has returned its share,
\* the new one is not counted yet.
LEMMA RegisterKeeps ==
  ASSUME LifecycleInv, GaugeCore, NEW id \in Ids, NEW ns \in SUBSET Names, NEW r \in Regs,
         Register(id, ns, r)
  PROVE  GaugeCore'
<1> USE DEF GaugeCore
<1>1. /\ ~Used(r) /\ clients' = [clients EXCEPT ![id] = r] /\ rid' = [rid EXCEPT ![r] = id]
      /\ decOnce' = CleanedDecOnce(id) /\ gauge' = CleanedGauge(id)
      /\ counting' = [counting EXCEPT ![r] = TRUE]
      /\ reaper' = [reaper EXCEPT ![r] = "wait"] /\ monitor' = [monitor EXCEPT ![r] = "watch"]
      /\ UNCHANGED <<owner, pc>>
  BY DEF Register
<1>2. \A s \in Regs : Used(s)' <=> Used(s) \/ s = r
  BY <1>1, LifecycleAssumption DEF Used, LifecycleInv, TypeOK
<1>3. \A s \in Regs : Registered(s)' <=> s = r \/ (Registered(s) /\ s # clients[id])
  <2>1. Registered(r)'
    BY <1>1, LifecycleAssumption DEF Registered, Used, LifecycleInv, TypeOK
  <2>2. ASSUME NEW s \in Regs, s # r
        PROVE  Registered(s)' <=> Registered(s) /\ s # clients[id]
    <3>1. rid'[s] = rid[s] /\ rid[s] \in Ids \cup {None}
      BY <1>1, <2>2 DEF LifecycleInv, TypeOK
    <3>2. CASE rid[s] = id
      BY <1>1, <2>2, <3>1, <3>2 DEF Registered, Used, LifecycleInv, TypeOK
    <3>3. CASE rid[s] # id
      <4>1. s # clients[id]
        BY <3>3, LifecycleAssumption DEF LifecycleInv, EntriesKeepTheirId
      <4> QED BY <1>1, <2>2, <3>1, <3>3, <4>1 DEF Registered, Used, LifecycleInv, TypeOK
    <3> QED BY <3>2, <3>3
  <2>3. ~Registered(r)
    BY <1>1 DEF Registered
  <2> QED BY <2>1, <2>2, <2>3
<1>4. ~Pending(r) /\ ~decOnce[r] /\ ~counting[r]
  BY <1>1 DEF TasksHaveRegistrations
<1>5. \A s \in Regs : Pending(s)' <=> Pending(s)
  <2>1. \A s \in Regs : s # r => reaper'[s] = reaper[s] /\ monitor'[s] = monitor[s]
    BY <1>1 DEF LifecycleInv, TypeOK
  <2>2. reaper'[r] = "wait" /\ monitor'[r] = "watch"
    BY <1>1 DEF LifecycleInv, TypeOK
  <2> QED BY <1>1, <1>4, <2>1, <2>2 DEF Pending
<1>6. \A s \in Regs : decOnce'[s] <=> decOnce[s] \/ s = clients[id]
  BY <1>1 DEF CleanedDecOnce
<1>7. clients[id] \in Regs => Used(clients[id]) /\ clients[id] # r
  BY <1>1, LifecycleAssumption DEF LifecycleInv, EntriesKeepTheirId, Used
<1>8. \A s \in Regs : counting'[s] <=> counting[s] \/ s = r
  BY <1>1 DEF LifecycleInv, TypeOK
<1>9. TasksHaveRegistrations'
  <2>1. {s \in Regs : Used(s)}' = {s \in Regs : Used(s)} \cup {r}
    BY <1>2
  <2>2. IsFiniteSet({s \in Regs : Used(s)}')
    BY <2>1, FS_AddElement DEF TasksHaveRegistrations
  <2> QED BY <1>2, <1>5, <1>6, <1>7, <1>8, <2>2 DEF TasksHaveRegistrations
<1>10. ReturnedIsForgotten'
  BY <1>3, <1>4, <1>5, <1>6, <1>7 DEF ReturnedIsForgotten
<1>11. ForgottenIsReturned'
  BY <1>2, <1>3, <1>5, <1>6 DEF ForgottenIsReturned
<1>12. Counted' = Counted
  BY <1>1, <1>2, <1>8 DEF Counted
<1>13. GaugeExact'
  <2>1. CleanedGauge(id) - gauge = Cardinality(Returned) - Cardinality(Returned')
    BY <1>1, CleanupReturns
  <2>2. gauge \in Int /\ CleanedGauge(id) \in Int
    BY DEF LifecycleInv, TypeOK, CleanedGauge, GaugeAfterDec
  <2>3. IsFiniteSet(Returned') /\ Cardinality(Returned') \in Nat
    <3>1. Returned' \in SUBSET {s \in Regs : Used(s)}'
      BY <1>9 DEF Returned, TasksHaveRegistrations
    <3>2. IsFiniteSet(Returned')
      BY <1>9, <3>1, FS_Subset DEF TasksHaveRegistrations
    <3> QED BY <3>2, FS_CardinalityType
  <2>4. gauge = Cardinality(Counted) - Cardinality(Returned) /\ gauge' = CleanedGauge(id)
    BY <1>1 DEF GaugeExact
  <2>5. Cardinality(Counted) \in Nat /\ Cardinality(Returned) \in Nat
    BY Countable
  <2> HIDE DEF GaugeCore
  <2>6. gauge' = Cardinality(Counted) - Cardinality(Returned')
    BY <2>1, <2>2, <2>3, <2>4, <2>5
  <2> QED BY <1>12, <2>6 DEF GaugeExact
<1> QED BY <1>9, <1>10, <1>11, <1>13

\* A refused registration has cleaned the client ID up all the same.
LEMMA RefuseKeeps ==
  ASSUME LifecycleInv, GaugeCore, NEW id \in Ids, NEW ns \in SUBSET Names, Refuse(id, ns)
  PROVE  GaugeCore'
<1> USE DEF GaugeCore
<1>1. /\ clients' = [clients EXCEPT ![id] = None]
      /\ decOnce' = CleanedDecOnce(id) /\ gauge' = CleanedGauge(id)
      /\ UNCHANGED <<rid, counting, reaper, monitor, owner, pc>>
  BY DEF Refuse, taskVars
<1>2. \A s \in Regs : (Used(s)' <=> Used(s)) /\ (Pending(s)' <=> Pending(s))
  BY <1>1 DEF Used, Pending
<1>3. \A s \in Regs : Registered(s)' <=> Registered(s) /\ s # clients[id]
  <2> TAKE s \in Regs
  <2>1. CASE rid[s] = id
    BY <1>1, <2>1, LifecycleAssumption DEF Registered, Used, LifecycleInv, TypeOK
  <2>2. CASE rid[s] # id
    <3>1. s # clients[id]
      BY <2>2, LifecycleAssumption DEF LifecycleInv, EntriesKeepTheirId
    <3> QED BY <1>1, <2>2, <3>1 DEF Registered, Used, LifecycleInv, TypeOK
  <2> QED BY <2>1, <2>2
<1>4. \A s \in Regs : decOnce'[s] <=> decOnce[s] \/ s = clients[id]
  BY <1>1 DEF CleanedDecOnce
<1>5. clients[id] \in Regs => Used(clients[id])
  BY LifecycleAssumption DEF LifecycleInv, EntriesKeepTheirId, Used
<1>6. TasksHaveRegistrations'
  <2>1. {s \in Regs : Used(s)}' = {s \in Regs : Used(s)}
    BY <1>2
  <2> QED BY <1>1, <1>2, <1>4, <1>5, <2>1 DEF TasksHaveRegistrations
<1>7. ReturnedIsForgotten' /\ ForgottenIsReturned'
  BY <1>2, <1>3, <1>4 DEF ReturnedIsForgotten, ForgottenIsReturned
<1>8. Counted' = Counted
  BY <1>1, <1>2 DEF Counted
<1>9. GaugeExact'
  <2>1. CleanedGauge(id) - gauge = Cardinality(Returned) - Cardinality(Returned')
    BY <1>1, CleanupReturns
  <2>2. gauge \in Int /\ CleanedGauge(id) \in Int
    BY DEF LifecycleInv, TypeOK, CleanedGauge, GaugeAfterDec
  <2>3. IsFiniteSet(Returned') /\ Cardinality(Returned') \in Nat
    <3>1. Returned' \in SUBSET {s \in Regs : Used(s)}'
      BY <1>6 DEF Returned, TasksHaveRegistrations
    <3>2. IsFiniteSet(Returned')
      BY <1>6, <3>1, FS_Subset DEF TasksHaveRegistrations
    <3> QED BY <3>2, FS_CardinalityType
  <2>4. gauge = Cardinality(Counted) - Cardinality(Returned) /\ gauge' = CleanedGauge(id)
    BY <1>1 DEF GaugeExact
  <2>5. Cardinality(Counted) \in Nat /\ Cardinality(Returned) \in Nat
    BY Countable
  <2> HIDE DEF GaugeCore
  <2>6. gauge' = Cardinality(Counted) - Cardinality(Returned')
    BY <2>1, <2>2, <2>3, <2>4, <2>5
  <2> QED BY <1>8, <2>6 DEF GaugeExact
<1> QED BY <1>6, <1>7, <1>9

\* As many client IDs are registered as registrations own one.
LEMMA EntriesCount ==
  ASSUME LifecycleInv
  PROVE  /\ IsFiniteSet({r \in Regs : Registered(r)})
         /\ Cardinality({r \in Regs : Registered(r)}) = Cardinality(RegisteredIds)
<1> DEFINE R == {r \in Regs : Registered(r)}
           f == [i \in RegisteredIds |-> clients[i]]
<1>1. \A i \in RegisteredIds : i \in Ids /\ clients[i] \in Regs /\ rid[clients[i]] = i
  BY LifecycleAssumption DEF RegisteredIds, LifecycleInv, TypeOK, EntriesKeepTheirId
<1>2. \A i \in RegisteredIds : f[i] \in R
  BY <1>1, LifecycleAssumption DEF Registered, Used
<1>3. \A i, j \in RegisteredIds : f[i] = f[j] => i = j
  BY <1>1
<1>4. \A r \in R : rid[r] \in RegisteredIds /\ f[rid[r]] = r
  BY LifecycleAssumption DEF Registered, Used, RegisteredIds, LifecycleInv, TypeOK
<1>5. f \in [RegisteredIds -> R] /\ (\A r \in R : \E i \in RegisteredIds : f[i] = r)
  BY <1>2, <1>4
<1> HIDE DEF f, R
<1>6. ExistsBijection(RegisteredIds, R)
  BY <1>3, <1>5 DEF ExistsBijection, Bijection, Injection, Surjection, IsInjective
<1>7. IsFiniteSet(RegisteredIds)
  BY LifecycleAssumption, FS_Subset DEF RegisteredIds
<1>8. IsFiniteSet(R) /\ Cardinality(R) = Cardinality(RegisteredIds)
  BY <1>6, <1>7, FS_Bijection
<1> QED BY <1>8 DEF R

\* loadServerState counts what it restores.
LEMMA GaugeInit == Init => GaugeInv
<1> SUFFICES ASSUME Init PROVE GaugeInv
  OBVIOUS
<1>1. LifecycleInv
  BY InvInit
<1>2. \A r \in Regs : Used(r) => Registered(r)
  <2> SUFFICES ASSUME NEW r \in Regs, Used(r) PROVE Registered(r)
    OBVIOUS
  <2>1. \E i \in Ids : clients[i] = r
    BY DEF Init, Used
  <2>2. rid[r] = CHOOSE i \in Ids : clients[i] = r
    BY <2>1 DEF Init
  <2> QED BY <2>1, <2>2 DEF Registered
<1>3. \A r \in Regs : ~counting[r] /\ ~decOnce[r] /\ ~Pending(r)
  BY DEF Init, Pending
<1>4. Counted = {r \in Regs : Registered(r)} /\ Counted = {r \in Regs : Used(r)}
  BY <1>2, <1>3 DEF Counted, Registered
<1>5. IsFiniteSet(Counted) /\ Cardinality(Counted) = Cardinality(RegisteredIds)
  BY <1>1, <1>4, EntriesCount
<1>6. TasksHaveRegistrations
  BY <1>3, <1>4, <1>5 DEF TasksHaveRegistrations
<1>7. ReturnedIsForgotten /\ ForgottenIsReturned
  BY <1>2, <1>3 DEF ReturnedIsForgotten, ForgottenIsReturned
<1>8. Returned = {}
  BY <1>3 DEF Returned
<1>9. gauge = Cardinality(RegisteredIds)
  BY DEF Init, RegisteredIds
<1>10. GaugeExact
  BY <1>5, <1>8, <1>9, FS_EmptySet, FS_CardinalityType DEF GaugeExact
<1>11. RunForRegistrations
  BY DEF Init, RunForRegistrations, Used
<1> QED BY <1>6, <1>7, <1>10, <1>11 DEF GaugeInv, GaugeCore

\* No goroutine outlives its registration's record.
LEMMA RunNext ==
  ASSUME LifecycleInv, RunForRegistrations, [Next]_vars
  PROVE  RunForRegistrations'
<1> SUFFICES ASSUME NEW r \in Regs, reaper'[r] # "off" \/ monitor'[r] # "off" PROVE Used(r)'
  BY DEF RunForRegistrations, Used
<1>1. CASE Used(r)
  BY <1>1, IdentityIsFinal DEF LifecycleInv
<1>2. CASE reaper[r] = "off" /\ monitor[r] = "off"
  <2>1. \E id \in Ids, ns \in SUBSET Names : Register(id, ns, r)
    BY SMTT(30), <1>2, NextCases DEF Register, Refuse, HandlerCount, ReaperExit, ReaperFire,
       ReaperTeardown, MonitorExit, MonitorTick, MonitorExpire, MonitorTeardown,
       Authenticate, ClaimRefused, ClaimCheck, Publish, PeerGone, MuxWatch, MuxRelease,
       MuxForget, MuxCancel, QuicWake, QuicRelease, QuicTeardown, CloseShutdown,
       CancelClients, vars, taskVars, TeardownStep, LifecycleInv, TypeOK
  <2> QED BY <2>1, LifecycleAssumption DEF Register, Used, LifecycleInv, TypeOK
<1> QED BY <1>1, <1>2 DEF RunForRegistrations

\* The inductive step.
LEMMA GaugeNext ==
  ASSUME LifecycleInv, GaugeInv, [Next]_vars
  PROVE  GaugeInv'
<1>1. GaugeCore'
  BY GaugeMoves, RegisterKeeps, RefuseKeeps, CountKeeps, RemoveKeeps, ReturnKeeps, QuietKeeps
     DEF GaugeInv
<1> QED BY <1>1, RunNext DEF GaugeInv

\* decrementOnce settles every registration exactly once.
THEOREM GaugeInvariant == Spec => []GaugeInv
<1>1. LifecycleInv /\ GaugeInv /\ [Next]_vars => GaugeInv'
  BY GaugeNext
<1> QED BY LifecycleInvariant, GaugeInit, <1>1, PTL DEF Spec

\* xrok_active_clients is the number of registered clients whenever no handler
\* or goroutine is between its registry change and its gauge change.
THEOREM GaugeCounts == Spec => []GaugeCountsRegistered
<1>1. ASSUME LifecycleInv, GaugeInv, Settled PROVE gauge = Cardinality(RegisteredIds)
  <2>1. \A r \in Regs : ~counting[r] /\ ~Pending(r)
    BY <1>1 DEF Settled, Pending, InTeardown, TeardownStages
  <2>2. \A r \in Regs : Used(r) => (decOnce[r] <=> ~Registered(r))
    BY <1>1, <2>1 DEF GaugeInv, GaugeCore, ReturnedIsForgotten, ForgottenIsReturned
  <2> DEFINE R == {r \in Regs : Registered(r)}
  <2>3. Counted = R \cup Returned /\ R \cap Returned = {}
    BY <1>1, <2>1, <2>2 DEF Counted, Returned, GaugeInv, GaugeCore, TasksHaveRegistrations, Registered
  <2>4. IsFiniteSet(R) /\ Cardinality(R) = Cardinality(RegisteredIds)
    BY <1>1, EntriesCount
  <2>5. IsFiniteSet(Returned) /\ Cardinality(Returned) \in Nat
    BY <1>1, Countable DEF GaugeInv
  <2> HIDE DEF R
  <2>6. Cardinality(Counted) = Cardinality(R) + Cardinality(Returned) - 0
    BY <2>3, <2>4, <2>5, FS_Union, FS_EmptySet
  <2>7. Cardinality(R) \in Nat
    BY <2>4, FS_CardinalityType
  <2> QED BY <1>1, <2>4, <2>5, <2>6, <2>7 DEF GaugeInv, GaugeCore, GaugeExact
<1>2. LifecycleInv /\ GaugeInv => GaugeCountsRegistered
  BY <1>1 DEF GaugeCountsRegistered
<1> QED BY LifecycleInvariant, GaugeInvariant, <1>2, PTL
================================================================================
