------------------------ MODULE ClientConnection_proofs ------------------------
(***************************************************************************)
(* Proofs about ClientConnection for any numbers of sessions, tokens and   *)
(* attempts, and any combinations of flags and advertised transports.      *)
(***************************************************************************)
EXTENDS ClientConnection, TLAPS

\* Where a session holds a connection of its own, or is about to get one.
Dialling == {"route", "arm", "connect", "release", "dial", "open", "serve", "clear", "close"}

\* The connection is in use.
Live(n) == conn[n] \in {"dialling", "socket", "open"}

\* registerClient counts its attempts from 0.
TriesLeft == tries < MaxTries

\* The manager waits for a session it has started.
WaitsForOne == mgr \in {"launch", "wait"} => cur \in Sess

\* Sessions follow one another: those before the current one have ended, those
\* after it have not begun.
OneAtATime ==
  \A n \in Sess : /\ n < cur => pc[n] = "end"
                  /\ n = cur => pc[n] # "off"
                  /\ n > cur => pc[n] = "off"

\* A disconnect is signalled by the last of a session's deferred calls.
SignalledAtEnd == \A n \in signal : pc[n] = "end"

\* The manager registers only when the session before has ended.
RegistersAlone ==
  mgr \in {"top", "register", "refused", "backoff"} => \A n \in Sess : pc[n] \in {"off", "end"}

\* What a session's connection is at each of its steps.
ConnFollowsStep ==
  \A n \in Sess :
    /\ Live(n) => pc[n] \in Dialling
    /\ pc[n] = "route" => conn[n] = "dialling"
    /\ conn[n] = "open" => pc[n] \in {"open", "serve", "clear", "close"}

\* The credentials a session uses are those of its own registration.
CredentialsOwn ==
  \A n \in Sess :
    pc[n] \in Dialling => cred[n] = token \/ (pc[n] = "route" /\ mode[n] = "quic")

\* A deadline, and the function that moves it, exist only inside dialRoute.
DeadlineInside ==
  \A n \in Sess : pc[n] \notin {"arm", "connect", "release"} => deadline[n] = "none" /\ n \notin armed

\* clientState refers to a carrier from its publication to its deferred clear.
RefsPublished ==
  \A n \in Sess :
    /\ n \in {muxRef, quicRef} => pc[n] \in {"serve", "clear"}
    /\ pc[n] \in {"serve", "clear"} /\ mode[n] = "quic" => quicRef = n

\* The inductive invariant.
ClientInv ==
  /\ TypeOK
  /\ TriesLeft
  /\ WaitsForOne
  /\ OneAtATime
  /\ SignalledAtEnd
  /\ RegistersAlone
  /\ ConnFollowsStep
  /\ CredentialsOwn
  /\ DeadlineInside
  /\ RefsPublished
  /\ QuicClosedAtExit

--------------------------------------------------------------------------------
\* Case split over the next-state relation, one case per action of the code.
LEMMA NextCases ==
  ASSUME [Next]_vars
  PROVE  \/ LoopTop
         \/ RegisterOk
         \/ RegisterFails
         \/ RegisterNoPort
         \/ RegisterRejected
         \/ Refused
         \/ Backoff
         \/ ReachSelect
         \/ Disconnected
         \/ WaitCancelled
         \/ MainExits
         \/ Interrupt
         \/ ServerForgets
         \/ \E l \in Listeners : ListenerEnds(l)
         \/ UDPFails
         \/ ListenFatal
         \/ \E n \in Sess : Select(n)
         \/ \E n \in Sess : QUICConnects(n)
         \/ \E n \in Sess : RouteDirect(n)
         \/ \E n \in Sess : ProxyDialled(n)
         \/ \E n \in Sess : SetDeadline(n)
         \/ \E n \in Sess : ProxyConnects(n)
         \/ \E n \in Sess : ProxyReleases(n)
         \/ \E n \in Sess : RouteFails(n)
         \/ \E n \in Sess : DialFails(n)
         \/ \E n \in Sess : Dialled(n)
         \/ \E n \in Sess : Publish(n)
         \/ \E n \in Sess : ServeEnds(n)
         \/ \E n \in Sess : ClearRef(n)
         \/ \E n \in Sess : CloseCarrier(n)
         \/ \E n \in Sess : Signal(n)
         \/ \E n \in Sess : Strike(n)
         \/ \E n \in Sess : CtxCloses(n)
         \/ \E n \in Sess : CarrierLost(n)
         \/ UNCHANGED vars
<1>1. CASE Manager \/ Interrupt \/ ServerForgets
  BY <1>1 DEF Manager, RegisterStep
<1>2. CASE Local
  BY <1>2 DEF Local, LocalReturns, FolderEnds, ProxyEnds, SocksEnds, UDPEnds, Listeners
<1>3. ASSUME NEW n \in Sess, SessionStep(n) \/ Strike(n) \/ CtxCloses(n) \/ CarrierLost(n)
      PROVE  \/ Select(n)
             \/ QUICConnects(n)
             \/ RouteDirect(n)
             \/ ProxyDialled(n)
             \/ SetDeadline(n)
             \/ ProxyConnects(n)
             \/ ProxyReleases(n)
             \/ RouteFails(n)
             \/ DialFails(n)
             \/ Dialled(n)
             \/ Publish(n)
             \/ ServeEnds(n)
             \/ ClearRef(n)
             \/ CloseCarrier(n)
             \/ Signal(n)
             \/ Strike(n)
             \/ CtxCloses(n)
             \/ CarrierLost(n)
  BY <1>3 DEF SessionStep
<1> QED BY Zenon, <1>1, <1>2, <1>3 DEF Next

\* The bounds are numbers.
LEMMA Bounds == MaxSess \in Nat /\ MaxToken \in Nat /\ MaxTries \in Nat \ {0} /\ Advertised \subseteq SUBSET Modes
  BY ClientAssumption

\* The flags are those of a command line RunClient accepts.
LEMMA ConfTyped ==
  ASSUME conf \in Configs
  PROVE  conf.max \in Nat /\ conf.transport \in Transports /\ conf.reconnect \in BOOLEAN
  BY ClientAssumption DEF Flags, AllFlags

\* What a session may try, and what it tries next, are transports.
LEMMA ModesTyped ==
  /\ \A M \in SUBSET Modes : Preferred(M) \in Modes
  /\ conf \in Configs => \A a \in SUBSET Modes : Permitted(a) \subseteq Modes
  BY ConfTyped DEF Preferred, Permitted, Modes, Transports

\* A client that has just been started.
LEMMA ClientInit == Init => ClientInv
<1> SUFFICES ASSUME Init PROVE ClientInv
  OBVIOUS
<1>1. TypeOK
  <2> USE Bounds DEF Init
  <2>1. cancelled \in BOOLEAN /\ mgr \in Phases /\ local \in {"run", "ended"}
    BY DEF Phases
  <2>2. tries \in 0..MaxTries /\ attempt \in Nat /\ cur \in 0..MaxSess
    OBVIOUS
  <2>3. token \in 0..MaxToken /\ issued \in 0..MaxToken /\ srv \in 0..MaxToken /\ adv \subseteq Modes
    OBVIOUS
  <2>4. pc \in [Sess -> Steps] /\ mode \in [Sess -> Modes] /\ left \in [Sess -> SUBSET Modes]
    BY DEF Steps, Modes
  <2>5. /\ conn \in [Sess -> {"none", "dialling", "socket", "open", "closed"}]
        /\ cred \in [Sess -> 0..MaxToken]
        /\ deadline \in [Sess -> {"none", "set", "past"}] /\ armed \subseteq Sess
    OBVIOUS
  <2>6. /\ stopped \subseteq Sess /\ signal \subseteq Sess
        /\ muxRef \in 0..MaxSess /\ quicRef \in 0..MaxSess
    OBVIOUS
  <2> QED BY <2>1, <2>2, <2>3, <2>4, <2>5, <2>6 DEF TypeOK
<1>2. TriesLeft /\ WaitsForOne /\ OneAtATime /\ SignalledAtEnd /\ RegistersAlone /\ DeadlineInside
  BY Bounds DEF Init, TriesLeft, WaitsForOne, Sess, OneAtATime, SignalledAtEnd, RegistersAlone, DeadlineInside
<1>3. ConnFollowsStep /\ CredentialsOwn /\ RefsPublished /\ QuicClosedAtExit
  BY DEF Init, ConnFollowsStep, CredentialsOwn, RefsPublished, QuicClosedAtExit, Live, Dialling, Sess
<1> QED BY <1>1, <1>2, <1>3 DEF ClientInv

\* Every step keeps the state well typed and the attempts below their limit.
LEMMA TypeNext ==
  ASSUME TypeOK, TriesLeft, WaitsForOne, [Next]_vars
  PROVE  TypeOK' /\ TriesLeft' /\ WaitsForOne'
<1> USE Bounds DEF TypeOK, TriesLeft, WaitsForOne, mgrVars, routeVars, sessVars
<1>1. CASE LoopTop \/ Refused \/ Backoff \/ ReachSelect \/ RegisterRejected
  <2>1. CASE Refused
    BY <2>1, ConfTyped DEF Refused, Phases, Counted
  <2>2. CASE LoopTop \/ Backoff \/ ReachSelect \/ RegisterRejected
    BY <2>2 DEF LoopTop, Backoff, ReachSelect, RegisterRejected, Phases
  <2> QED BY <1>1, <2>1, <2>2
<1>2. CASE RegisterOk
  <2>1. pc' \in [Sess -> Steps]
    BY <1>2 DEF RegisterOk, Steps
  <2>2. Permitted(adv') \in SUBSET Modes
    BY <1>2, ModesTyped DEF RegisterOk
  <2>3. left' \in [Sess -> SUBSET Modes]
    BY <1>2, <2>2 DEF RegisterOk
  <2>4. /\ token' \in 0..MaxToken /\ issued' \in 0..MaxToken /\ srv' \in 0..MaxToken
        /\ adv' \subseteq Modes /\ cur' \in 0..MaxSess /\ cur' \in Sess
    BY <1>2 DEF RegisterOk, Sess
  <2> QED BY <1>2, <2>1, <2>3, <2>4 DEF RegisterOk, Phases
<1>3. CASE RegisterFails \/ RegisterNoPort
  BY <1>3 DEF RegisterFails, RegisterNoPort, NextTry, Phases
<1>4. CASE Disconnected \/ WaitCancelled \/ MainExits
  <2>1. attempt' \in Nat
    BY <1>4, ConfTyped DEF Disconnected, WaitCancelled, MainExits, Counted
  <2>2. mgr' \in Phases \ {"launch", "wait"}
    BY <1>4 DEF Disconnected, WaitCancelled, MainExits, Phases
  <2>3. muxRef' \in 0..MaxSess /\ quicRef' \in 0..MaxSess
    BY <1>4 DEF Disconnected, WaitCancelled, MainExits
  <2>4. conn' \in [Sess -> {"none", "dialling", "socket", "open", "closed"}]
    BY <1>4 DEF Disconnected, WaitCancelled, MainExits
  <2>5. stopped' \subseteq Sess /\ signal' \subseteq Sess
    BY <1>4 DEF Disconnected, WaitCancelled, MainExits
  <2>6. CASE Disconnected
    BY <2>1, <2>2, <2>3, <2>4, <2>5, <2>6 DEF Disconnected
  <2>7. CASE WaitCancelled
    BY <2>1, <2>2, <2>3, <2>4, <2>5, <2>7 DEF WaitCancelled
  <2>8. CASE MainExits
    BY <2>1, <2>2, <2>3, <2>4, <2>5, <2>8 DEF MainExits
  <2> QED BY <1>4, <2>6, <2>7, <2>8
<1>5. CASE (\E l \in Listeners : ListenerEnds(l)) \/ UDPFails \/ ListenFatal \/ Interrupt \/ ServerForgets
  <2>1. CASE (\E l \in Listeners : ListenerEnds(l)) \/ UDPFails \/ ListenFatal
    BY <2>1 DEF ListenerEnds, UDPFails, ListenFatal, Phases
  <2>2. CASE Interrupt
    BY <2>2 DEF Interrupt
  <2>3. CASE ServerForgets
    BY <2>3 DEF ServerForgets
  <2> QED BY <1>5, <2>1, <2>2, <2>3
<1>6. ASSUME NEW n \in Sess, Select(n) PROVE TypeOK' /\ TriesLeft' /\ WaitsForOne'
  BY <1>6, ModesTyped DEF Select, SessGoto, Steps
<1>7. ASSUME NEW n \in Sess, QUICConnects(n) \/ RouteDirect(n) \/ ProxyDialled(n) \/ SetDeadline(n)
      PROVE  TypeOK' /\ TriesLeft' /\ WaitsForOne'
  BY <1>7 DEF QUICConnects, RouteDirect, ProxyDialled, SetDeadline, SessGoto, Steps
<1>8. ASSUME NEW n \in Sess, ProxyConnects(n) \/ ProxyReleases(n) \/ RouteFails(n) \/ DialFails(n) \/ Dialled(n) \/ Strike(n)
      PROVE  TypeOK' /\ TriesLeft' /\ WaitsForOne'
  BY <1>8 DEF ProxyConnects, ProxyReleases, RouteFails, DialFails, GiveUp, Dialled, Strike, SessGoto, Steps
<1>9. ASSUME NEW n \in Sess, Publish(n) \/ ServeEnds(n) \/ ClearRef(n) \/ Signal(n)
      PROVE  TypeOK' /\ TriesLeft' /\ WaitsForOne'
  <2>1. pc' \in [Sess -> Steps]
    BY <1>9 DEF Publish, ServeEnds, ClearRef, Signal, Steps
  <2>2. n \in 0..MaxSess
    BY DEF Sess
  <2>3. CASE Publish(n)
    BY <2>1, <2>2, <2>3 DEF Publish
  <2>4. CASE ServeEnds(n) \/ Signal(n)
    BY <2>1, <2>4 DEF ServeEnds, Signal
  <2>5. CASE ClearRef(n)
    BY <2>1, <2>5 DEF ClearRef
  <2> QED BY <1>9, <2>3, <2>4, <2>5
<1>10. ASSUME NEW n \in Sess, CloseCarrier(n) \/ CtxCloses(n) \/ CarrierLost(n)
      PROVE  TypeOK' /\ TriesLeft' /\ WaitsForOne'
  BY <1>10 DEF CloseCarrier, CtxCloses, CarrierLost, Steps
<1>11. CASE UNCHANGED vars
  BY <1>11 DEF vars
<1> HIDE DEF TypeOK, TriesLeft, WaitsForOne
<1> QED BY <1>1, <1>2, <1>3, <1>4, <1>5, <1>6, <1>7, <1>8, <1>9, <1>10, <1>11, NextCases

--------------------------------------------------------------------------------
(* One lemma per part of the invariant.                                      *)

\* A session under way is the current one, and the only one.
LEMMA Active ==
  ASSUME ClientInv, NEW n \in Sess, pc[n] \notin {"off", "end"}
  PROVE  /\ n = cur /\ n \notin signal
         /\ mgr \notin {"top", "register", "refused", "backoff"}
         /\ \A m \in Sess \ {n} : pc[m] \in {"off", "end"}
<1>1. n = cur
  BY SMT, Bounds DEF ClientInv, OneAtATime, TypeOK, Sess
<1>2. \A m \in Sess \ {n} : pc[m] \in {"off", "end"}
  BY SMT, Bounds, <1>1 DEF ClientInv, OneAtATime, TypeOK, Sess
<1> QED BY <1>1, <1>2 DEF ClientInv, SignalledAtEnd, RegistersAlone

\* A step from one place to another of a session under way leaves the order of
\* sessions alone, and so does its signal.
LEMMA OwnStep ==
  ASSUME ClientInv, NEW n \in Sess, pc[n] \notin {"off", "end"}, NEW p \in Steps \ {"off"},
         pc' = [pc EXCEPT ![n] = p], UNCHANGED <<mgr, cur>>,
         signal' = signal \/ (signal' = signal \cup {n} /\ p = "end")
  PROVE  OneAtATime' /\ SignalledAtEnd' /\ RegistersAlone'
<1>1. /\ n = cur /\ n \notin signal
      /\ mgr \notin {"top", "register", "refused", "backoff"}
  BY Active
<1>2. pc'[n] = p /\ \A m \in Sess \ {n} : pc'[m] = pc[m]
  BY DEF ClientInv, TypeOK
<1>3. OneAtATime'
  BY SMT, Bounds, <1>1, <1>2 DEF ClientInv, OneAtATime, TypeOK, Sess
<1>4. SignalledAtEnd' /\ RegistersAlone'
  BY <1>1, <1>2 DEF ClientInv, SignalledAtEnd, RegistersAlone, TypeOK
<1> QED BY <1>3, <1>4

\* Sessions do not overlap: the manager moves on only with the signal of the
\* session before.
LEMMA SequenceNext ==
  ASSUME ClientInv, [Next]_vars
  PROVE  OneAtATime' /\ SignalledAtEnd' /\ RegistersAlone'
<1>1. CASE RegisterOk
  <2> USE Bounds DEF ClientInv, TypeOK, OneAtATime, RegistersAlone, SignalledAtEnd, Sess
  <2>1. \A n \in Sess : pc[n] = (IF n <= cur THEN "end" ELSE "off")
    BY SMT, <1>1 DEF RegisterOk
  <2>2. \A n \in Sess : pc'[n] = (IF n <= cur THEN "end" ELSE IF n = cur + 1 THEN "select" ELSE "off")
    BY SMT, <1>1, <2>1 DEF RegisterOk
  <2>3. cur' = cur + 1 /\ cur \in Nat /\ mgr' = "launch" /\ signal' = signal
    BY SMT, <1>1 DEF RegisterOk, sessVars
  <2>4. OneAtATime'
    BY SMT, <2>2, <2>3
  <2>5. SignalledAtEnd' /\ RegistersAlone'
    BY SMT, <2>1, <2>2, <2>3
  <2> QED BY <2>4, <2>5
<1>2. CASE Disconnected
  <2>1. cur \in Sess /\ pc[cur] = "end" /\ cur' = cur /\ pc' = pc /\ signal' \subseteq signal
    BY <1>2 DEF Disconnected, ClientInv, SignalledAtEnd, TypeOK
  <2>2. \A n \in Sess : pc[n] \in {"off", "end"}
    BY <2>1, Active
  <2>3. OneAtATime' /\ SignalledAtEnd' /\ RegistersAlone'
    BY <2>1, <2>2 DEF ClientInv, OneAtATime, SignalledAtEnd, RegistersAlone
  <2> QED BY <2>3
<1>3. ASSUME UNCHANGED <<pc, cur, signal>>,
             mgr' \in {"top", "register", "refused", "backoff"} => mgr \in {"top", "register", "refused", "backoff"}
      PROVE  OneAtATime' /\ SignalledAtEnd' /\ RegistersAlone'
  BY <1>3 DEF ClientInv, OneAtATime, SignalledAtEnd, RegistersAlone
<1>4. CASE LoopTop \/ RegisterFails \/ RegisterNoPort \/ RegisterRejected \/ Refused \/ Backoff \/ ReachSelect
           \/ WaitCancelled \/ MainExits
  BY <1>3, <1>4 DEF LoopTop, RegisterFails, RegisterNoPort, RegisterRejected, NextTry, Refused, Backoff,
       ReachSelect, WaitCancelled, MainExits, sessVars
<1>5. CASE (\E l \in Listeners : ListenerEnds(l)) \/ UDPFails \/ ListenFatal \/ Interrupt \/ ServerForgets \/ UNCHANGED vars
  BY <1>3, <1>5 DEF ListenerEnds, UDPFails, ListenFatal, Interrupt, ServerForgets, vars, sessVars, mgrVars
<1>6. ASSUME NEW n \in Sess, Strike(n) \/ CtxCloses(n) \/ CarrierLost(n)
      PROVE  OneAtATime' /\ SignalledAtEnd' /\ RegistersAlone'
  BY <1>3, <1>6 DEF Strike, CtxCloses, CarrierLost, mgrVars
<1>7. ASSUME NEW n \in Sess, Select(n) \/ QUICConnects(n) \/ RouteDirect(n) \/ ProxyDialled(n) \/ SetDeadline(n)
                             \/ ProxyConnects(n) \/ ProxyReleases(n)
      PROVE  OneAtATime' /\ SignalledAtEnd' /\ RegistersAlone'
  <2>1. pc[n] \notin {"off", "end"} /\ UNCHANGED <<mgr, cur, signal>>
    BY <1>7 DEF Select, QUICConnects, RouteDirect, ProxyDialled, SetDeadline, ProxyConnects, ProxyReleases, mgrVars
  <2>2. \E p \in Steps \ {"off"} : pc' = [pc EXCEPT ![n] = p]
    BY <1>7 DEF Select, QUICConnects, RouteDirect, ProxyDialled, SetDeadline, ProxyConnects, ProxyReleases, SessGoto,
         Steps
  <2> QED BY <2>1, <2>2, OwnStep
<1>8. ASSUME NEW n \in Sess, RouteFails(n) \/ DialFails(n) \/ Dialled(n) \/ Publish(n) \/ ServeEnds(n) \/ ClearRef(n)
                             \/ CloseCarrier(n)
      PROVE  OneAtATime' /\ SignalledAtEnd' /\ RegistersAlone'
  <2>1. pc[n] \notin {"off", "end"} /\ UNCHANGED <<mgr, cur, signal>>
    BY <1>8 DEF RouteFails, DialFails, GiveUp, Dialled, Publish, ServeEnds, ClearRef, CloseCarrier, mgrVars
  <2>2. \E p \in Steps \ {"off"} : pc' = [pc EXCEPT ![n] = p]
    BY <1>8 DEF RouteFails, DialFails, GiveUp, Dialled, Publish, ServeEnds, ClearRef, CloseCarrier, SessGoto,
         Steps
  <2> QED BY <2>1, <2>2, OwnStep
<1>9. ASSUME NEW n \in Sess, Signal(n) PROVE OneAtATime' /\ SignalledAtEnd' /\ RegistersAlone'
  BY <1>9, OwnStep DEF Signal, mgrVars, Steps
<1> QED BY <1>1, <1>2, <1>4, <1>5, <1>6, <1>7, <1>8, <1>9, NextCases

\* A connection exists only at the steps of the session that made it.
LEMMA ConnNext ==
  ASSUME ClientInv, TypeOK', [Next]_vars
  PROVE  ConnFollowsStep'
<1> USE Bounds DEF ClientInv, TypeOK, ConnFollowsStep, Live, Dialling, RefsPublished, RegistersAlone, mgrVars, routeVars, sessVars, Alive
<1>1. CASE LoopTop \/ Refused \/ Backoff \/ ReachSelect
  BY SMT, <1>1 DEF LoopTop, Refused, Backoff, ReachSelect
<1>2. CASE RegisterOk
  BY SMT, <1>2 DEF RegisterOk
<1>3. CASE RegisterFails \/ RegisterNoPort \/ RegisterRejected
  BY SMT, <1>3 DEF RegisterFails, NextTry, RegisterNoPort, RegisterRejected
<1>4. CASE Disconnected
  BY SMT, <1>4 DEF Disconnected
<1>5. CASE WaitCancelled \/ MainExits
  BY SMT, <1>5 DEF WaitCancelled, MainExits
<1>6. CASE (\E l \in Listeners : ListenerEnds(l)) \/ UDPFails \/ ListenFatal \/ Interrupt \/ ServerForgets
  BY SMT, <1>6 DEF ListenerEnds, UDPFails, ListenFatal, Interrupt, ServerForgets
<1>7. ASSUME NEW n \in Sess, Select(n)
       PROVE  ConnFollowsStep'
  BY SMT, <1>7 DEF Select, SessGoto, GiveUp
<1>8. ASSUME NEW n \in Sess, QUICConnects(n) \/ RouteDirect(n) \/ ProxyDialled(n)
       PROVE  ConnFollowsStep'
  BY SMT, <1>8 DEF QUICConnects, RouteDirect, ProxyDialled, SessGoto, GiveUp
<1>9. ASSUME NEW n \in Sess, SetDeadline(n) \/ ProxyConnects(n) \/ ProxyReleases(n)
       PROVE  ConnFollowsStep'
  BY SMT, <1>9 DEF SetDeadline, ProxyConnects, ProxyReleases, SessGoto, GiveUp
<1>10. ASSUME NEW n \in Sess, RouteFails(n) \/ DialFails(n)
       PROVE  ConnFollowsStep'
  BY SMT, <1>10 DEF RouteFails, DialFails, SessGoto, GiveUp
<1>11. ASSUME NEW n \in Sess, Dialled(n) \/ Publish(n) \/ ServeEnds(n)
       PROVE  ConnFollowsStep'
  BY SMT, <1>11 DEF Dialled, Publish, ServeEnds, SessGoto, GiveUp
<1>12. ASSUME NEW n \in Sess, ClearRef(n) \/ CloseCarrier(n) \/ Signal(n)
       PROVE  ConnFollowsStep'
  BY SMT, <1>12 DEF ClearRef, CloseCarrier, Signal, SessGoto, GiveUp
<1>13. ASSUME NEW n \in Sess, Strike(n) \/ CtxCloses(n) \/ CarrierLost(n)
       PROVE  ConnFollowsStep'
  BY SMT, <1>13 DEF Strike, CtxCloses, CarrierLost, SessGoto, GiveUp
<1>14. CASE UNCHANGED vars
  BY SMT, <1>14 DEF vars
<1> HIDE DEF ClientInv, TypeOK, ConnFollowsStep, Live, Dialling, RefsPublished, RegistersAlone
<1> QED BY <1>1, <1>2, <1>3, <1>4, <1>5, <1>6, <1>7, <1>8, <1>9, <1>10, <1>11, <1>12, <1>13, <1>14, NextCases

\* The token changes only while no session uses one.
LEMMA CredentialsNext ==
  ASSUME ClientInv, TypeOK', [Next]_vars
  PROVE  CredentialsOwn'
<1> USE Bounds DEF ClientInv, TypeOK, CredentialsOwn, ConnFollowsStep, Live, Dialling, RegistersAlone, mgrVars, routeVars, sessVars, Alive
<1>1. CASE LoopTop \/ Refused \/ Backoff \/ ReachSelect
  BY SMT, <1>1 DEF LoopTop, Refused, Backoff, ReachSelect
<1>2. CASE RegisterOk
  BY SMT, <1>2 DEF RegisterOk
<1>3. CASE RegisterFails \/ RegisterNoPort \/ RegisterRejected
  BY SMT, <1>3 DEF RegisterFails, NextTry, RegisterNoPort, RegisterRejected
<1>4. CASE Disconnected
  BY SMT, <1>4 DEF Disconnected
<1>5. CASE WaitCancelled \/ MainExits
  BY SMT, <1>5 DEF WaitCancelled, MainExits
<1>6. CASE (\E l \in Listeners : ListenerEnds(l)) \/ UDPFails \/ ListenFatal \/ Interrupt \/ ServerForgets
  BY SMT, <1>6 DEF ListenerEnds, UDPFails, ListenFatal, Interrupt, ServerForgets
<1>7. ASSUME NEW n \in Sess, Select(n)
       PROVE  CredentialsOwn'
  BY SMT, <1>7 DEF Select, SessGoto, GiveUp
<1>8. ASSUME NEW n \in Sess, QUICConnects(n) \/ RouteDirect(n) \/ ProxyDialled(n)
       PROVE  CredentialsOwn'
  BY SMT, <1>8 DEF QUICConnects, RouteDirect, ProxyDialled, SessGoto, GiveUp
<1>9. ASSUME NEW n \in Sess, SetDeadline(n) \/ ProxyConnects(n) \/ ProxyReleases(n)
       PROVE  CredentialsOwn'
  BY SMT, <1>9 DEF SetDeadline, ProxyConnects, ProxyReleases, SessGoto, GiveUp
<1>10. ASSUME NEW n \in Sess, RouteFails(n) \/ DialFails(n)
       PROVE  CredentialsOwn'
  BY SMT, <1>10 DEF RouteFails, DialFails, SessGoto, GiveUp
<1>11. ASSUME NEW n \in Sess, Dialled(n) \/ Publish(n) \/ ServeEnds(n)
       PROVE  CredentialsOwn'
  BY SMT, <1>11 DEF Dialled, Publish, ServeEnds, SessGoto, GiveUp
<1>12. ASSUME NEW n \in Sess, ClearRef(n) \/ CloseCarrier(n) \/ Signal(n)
       PROVE  CredentialsOwn'
  BY SMT, <1>12 DEF ClearRef, CloseCarrier, Signal, SessGoto, GiveUp
<1>13. ASSUME NEW n \in Sess, Strike(n) \/ CtxCloses(n) \/ CarrierLost(n)
       PROVE  CredentialsOwn'
  BY SMT, <1>13 DEF Strike, CtxCloses, CarrierLost, SessGoto, GiveUp
<1>14. CASE UNCHANGED vars
  BY SMT, <1>14 DEF vars
<1> HIDE DEF ClientInv, TypeOK, CredentialsOwn, ConnFollowsStep, Live, Dialling, RegistersAlone
<1> QED BY <1>1, <1>2, <1>3, <1>4, <1>5, <1>6, <1>7, <1>8, <1>9, <1>10, <1>11, <1>12, <1>13, <1>14, NextCases

\* dialRoute clears the deadline and takes its function back on every way out.
LEMMA DeadlineNext ==
  ASSUME ClientInv, TypeOK', [Next]_vars
  PROVE  DeadlineInside'
<1> USE Bounds DEF ClientInv, TypeOK, DeadlineInside, OneAtATime, mgrVars, routeVars, sessVars, Alive
<1>1. CASE LoopTop \/ Refused \/ Backoff \/ ReachSelect
  BY SMT, <1>1 DEF LoopTop, Refused, Backoff, ReachSelect
<1>2. CASE RegisterOk
  BY SMT, <1>2 DEF RegisterOk
<1>3. CASE RegisterFails \/ RegisterNoPort \/ RegisterRejected
  BY SMT, <1>3 DEF RegisterFails, NextTry, RegisterNoPort, RegisterRejected
<1>4. CASE Disconnected
  BY SMT, <1>4 DEF Disconnected
<1>5. CASE WaitCancelled \/ MainExits
  BY SMT, <1>5 DEF WaitCancelled, MainExits
<1>6. CASE (\E l \in Listeners : ListenerEnds(l)) \/ UDPFails \/ ListenFatal \/ Interrupt \/ ServerForgets
  BY SMT, <1>6 DEF ListenerEnds, UDPFails, ListenFatal, Interrupt, ServerForgets
<1>7. ASSUME NEW n \in Sess, Select(n)
       PROVE  DeadlineInside'
  BY SMT, <1>7 DEF Select, SessGoto, GiveUp
<1>8. ASSUME NEW n \in Sess, QUICConnects(n) \/ RouteDirect(n) \/ ProxyDialled(n)
       PROVE  DeadlineInside'
  BY SMT, <1>8 DEF QUICConnects, RouteDirect, ProxyDialled, SessGoto, GiveUp
<1>9. ASSUME NEW n \in Sess, SetDeadline(n) \/ ProxyConnects(n) \/ ProxyReleases(n)
       PROVE  DeadlineInside'
  BY SMT, <1>9 DEF SetDeadline, ProxyConnects, ProxyReleases, SessGoto, GiveUp
<1>10. ASSUME NEW n \in Sess, RouteFails(n) \/ DialFails(n)
       PROVE  DeadlineInside'
  BY SMT, <1>10 DEF RouteFails, DialFails, SessGoto, GiveUp
<1>11. ASSUME NEW n \in Sess, Dialled(n) \/ Publish(n) \/ ServeEnds(n)
       PROVE  DeadlineInside'
  BY SMT, <1>11 DEF Dialled, Publish, ServeEnds, SessGoto, GiveUp
<1>12. ASSUME NEW n \in Sess, ClearRef(n) \/ CloseCarrier(n) \/ Signal(n)
       PROVE  DeadlineInside'
  BY SMT, <1>12 DEF ClearRef, CloseCarrier, Signal, SessGoto, GiveUp
<1>13. ASSUME NEW n \in Sess, Strike(n) \/ CtxCloses(n) \/ CarrierLost(n)
       PROVE  DeadlineInside'
  BY SMT, <1>13 DEF Strike, CtxCloses, CarrierLost, SessGoto, GiveUp
<1>14. CASE UNCHANGED vars
  BY SMT, <1>14 DEF vars
<1> HIDE DEF ClientInv, TypeOK, DeadlineInside, OneAtATime
<1> QED BY <1>1, <1>2, <1>3, <1>4, <1>5, <1>6, <1>7, <1>8, <1>9, <1>10, <1>11, <1>12, <1>13, <1>14, NextCases

\* Only the session itself, or the manager after its signal, clears its
\* reference.
LEMMA RefsNext ==
  ASSUME ClientInv, TypeOK', [Next]_vars
  PROVE  RefsPublished'
<1>1. CASE RegisterOk
  <2>1. \A n \in Sess : pc[n] \in {"off", "end"} /\ n \notin {muxRef, quicRef}
    BY <1>1 DEF RegisterOk, ClientInv, RegistersAlone, RefsPublished
  <2>2. \A n \in Sess : pc'[n] \in {"off", "end", "select"}
    BY <1>1, <2>1 DEF RegisterOk, ClientInv, TypeOK
  <2> QED BY <1>1, <2>1, <2>2 DEF RegisterOk, RefsPublished
<1>2. CASE Disconnected
  <2>1. cur \in Sess /\ pc[cur] = "end" /\ pc' = pc /\ muxRef' = 0 /\ quicRef' = 0
    BY <1>2 DEF Disconnected, ClientInv, SignalledAtEnd, TypeOK
  <2>2. \A n \in Sess : pc[n] \in {"off", "end"}
    BY <2>1, Active
  <2>3. 0 \notin Sess
    BY DEF Sess
  <2> QED BY <2>1, <2>2, <2>3 DEF RefsPublished
<1>3. ASSUME UNCHANGED <<pc, mode, muxRef, quicRef>> PROVE RefsPublished'
  BY <1>3 DEF ClientInv, RefsPublished
<1>4. CASE LoopTop \/ RegisterFails \/ RegisterNoPort \/ RegisterRejected \/ Refused \/ Backoff \/ ReachSelect
           \/ WaitCancelled \/ MainExits
  BY <1>3, <1>4 DEF LoopTop, RegisterFails, RegisterNoPort, RegisterRejected, Refused, Backoff,
       ReachSelect, WaitCancelled, MainExits, sessVars
<1>5. CASE (\E l \in Listeners : ListenerEnds(l)) \/ UDPFails \/ ListenFatal \/ Interrupt \/ ServerForgets \/ UNCHANGED vars
  BY <1>3, <1>5 DEF ListenerEnds, UDPFails, ListenFatal, Interrupt, ServerForgets, vars, sessVars
<1>6. ASSUME NEW n \in Sess, Strike(n) \/ CtxCloses(n) \/ CarrierLost(n) PROVE RefsPublished'
  BY <1>3, <1>6 DEF Strike, CtxCloses, CarrierLost
<1>7. ASSUME NEW n \in Sess, NEW p \in {"select", "signal", "route", "arm", "connect", "release", "dial", "open"},
             pc' = [pc EXCEPT ![n] = p], n \notin {muxRef, quicRef},
             \A m \in Sess \ {n} : mode'[m] = mode[m], UNCHANGED <<muxRef, quicRef>>
      PROVE  RefsPublished'
  BY <1>7 DEF ClientInv, RefsPublished, TypeOK
<1>8. ASSUME NEW n \in Sess, Select(n) PROVE RefsPublished'
  <2>1. /\ n \notin {muxRef, quicRef} /\ UNCHANGED <<muxRef, quicRef>>
        /\ \A m \in Sess \ {n} : mode'[m] = mode[m]
    BY <1>8 DEF Select, ClientInv, RefsPublished, TypeOK
  <2>2. \E p \in {"signal", "route"} : pc' = [pc EXCEPT ![n] = p]
    BY <1>8 DEF Select, SessGoto
  <2> QED BY <1>7, <2>1, <2>2
<1>9. ASSUME NEW n \in Sess, QUICConnects(n) \/ RouteDirect(n) \/ ProxyDialled(n) \/ SetDeadline(n)
                             \/ ProxyConnects(n) \/ ProxyReleases(n) \/ RouteFails(n) \/ DialFails(n) \/ Dialled(n)
      PROVE  RefsPublished'
  <2>1. pc[n] \in {"route", "arm", "connect", "release", "dial"} /\ UNCHANGED <<mode, muxRef, quicRef>>
    BY <1>9 DEF QUICConnects, RouteDirect, ProxyDialled, SetDeadline, ProxyConnects, ProxyReleases, RouteFails,
         DialFails, GiveUp, Dialled
  <2>2. \E p \in {"select", "arm", "connect", "release", "dial", "open"} : pc' = [pc EXCEPT ![n] = p]
    BY <1>9 DEF QUICConnects, RouteDirect, ProxyDialled, SetDeadline, ProxyConnects, ProxyReleases, RouteFails,
         DialFails, GiveUp, Dialled, SessGoto
  <2>3. n \notin {muxRef, quicRef}
    BY <2>1 DEF ClientInv, RefsPublished
  <2> QED BY <1>7, <2>1, <2>2, <2>3
<1>10. ASSUME NEW n \in Sess, Publish(n) PROVE RefsPublished'
  <2>1. \A m \in Sess \ {n} : pc[m] \in {"off", "end"} /\ m \notin {muxRef, quicRef}
    BY <1>10, Active DEF Publish, ClientInv, RefsPublished
  <2> QED BY <1>10, <2>1 DEF Publish, RefsPublished, ClientInv, TypeOK
<1>11. ASSUME NEW n \in Sess, ServeEnds(n) PROVE RefsPublished'
  BY <1>11 DEF ServeEnds, RefsPublished, ClientInv, TypeOK
<1>12. ASSUME NEW n \in Sess, ClearRef(n) PROVE RefsPublished'
  <2>1. \A m \in Sess \ {n} : pc[m] \in {"off", "end"} /\ m \notin {muxRef, quicRef}
    BY <1>12, Active DEF ClearRef, ClientInv, RefsPublished
  <2>2. \A m \in Sess : m \notin {muxRef', quicRef'}
    BY <1>12, <2>1 DEF ClearRef, Sess
  <2> QED BY <1>12, <2>1, <2>2 DEF ClearRef, RefsPublished, ClientInv, TypeOK
<1>13. ASSUME NEW n \in Sess, CloseCarrier(n) \/ Signal(n) PROVE RefsPublished'
  <2>1. n \notin {muxRef, quicRef} /\ UNCHANGED <<mode, muxRef, quicRef>>
    BY <1>13 DEF CloseCarrier, Signal, ClientInv, RefsPublished
  <2>2. \E p \in {"signal", "end"} : pc' = [pc EXCEPT ![n] = p]
    BY <1>13 DEF CloseCarrier, Signal
  <2> QED BY <2>1, <2>2 DEF ClientInv, RefsPublished, TypeOK
<1> QED BY <1>1, <1>2, <1>4, <1>5, <1>6, <1>8, <1>9, <1>10, <1>11, <1>12, <1>13, NextCases

\* The program ends from a state without session, or by way of the close in
\* RunClient.
LEMMA ExitNext ==
  ASSUME ClientInv, TypeOK', [Next]_vars
  PROVE  QuicClosedAtExit'
<1>1. ASSUME mgr' # "exit" PROVE QuicClosedAtExit'
  BY <1>1 DEF QuicClosedAtExit
<1>2. CASE MainExits
  <2> SUFFICES ASSUME NEW n \in Sess, mode[n] = "quic", conn'[n] = "open"
               PROVE  pc[n] \in {"open", "close"}
    BY <1>2 DEF MainExits, QuicClosedAtExit
  <2>1. n # quicRef /\ conn[n] = "open"
    BY <1>2 DEF MainExits, ClientInv, TypeOK
  <2> QED BY <2>1 DEF ClientInv, ConnFollowsStep, RefsPublished
<1>3. CASE RegisterRejected \/ Refused
  <2>1. \A n \in Sess : conn'[n] # "open"
    BY <1>3 DEF RegisterRejected, Refused, sessVars, ClientInv, RegistersAlone, ConnFollowsStep
  <2> QED BY <2>1 DEF QuicClosedAtExit
<1>4. CASE ListenFatal
  BY <1>4 DEF ListenFatal, QuicClosedAtExit
<1>5. CASE LoopTop \/ RegisterOk \/ RegisterFails \/ RegisterNoPort \/ Backoff \/ ReachSelect \/ Disconnected \/ WaitCancelled
  BY <1>1, <1>5 DEF LoopTop, RegisterOk, RegisterFails, RegisterNoPort, NextTry, Backoff, ReachSelect, Disconnected,
       WaitCancelled
<1>6. CASE Interrupt \/ ServerForgets \/ (\E l \in Listeners : ListenerEnds(l)) \/ UDPFails
  BY <1>1, <1>6 DEF Interrupt, ServerForgets, ListenerEnds, UDPFails, Alive, mgrVars
<1>7. ASSUME NEW n \in Sess, Select(n) \/ QUICConnects(n) \/ RouteDirect(n) \/ ProxyDialled(n) \/ SetDeadline(n)
                             \/ ProxyConnects(n) \/ ProxyReleases(n)
      PROVE  QuicClosedAtExit'
  BY <1>1, <1>7 DEF Select, QUICConnects, RouteDirect, ProxyDialled, SetDeadline, ProxyConnects, ProxyReleases,
       SessGoto, Alive, mgrVars
<1>8. ASSUME NEW n \in Sess, RouteFails(n) \/ DialFails(n) \/ Dialled(n) \/ Publish(n) \/ ServeEnds(n) \/ ClearRef(n)
                             \/ CloseCarrier(n) \/ Signal(n) \/ Strike(n) \/ CtxCloses(n) \/ CarrierLost(n)
      PROVE  QuicClosedAtExit'
  BY <1>1, <1>8 DEF RouteFails, DialFails, GiveUp, Dialled, Publish, ServeEnds, ClearRef, CloseCarrier, Signal,
       Strike, CtxCloses, CarrierLost, SessGoto, Alive, mgrVars
<1>9. CASE UNCHANGED vars
  BY <1>9 DEF vars, sessVars, mgrVars, ClientInv, QuicClosedAtExit
<1> QED BY <1>2, <1>3, <1>4, <1>5, <1>6, <1>7, <1>8, <1>9, NextCases

--------------------------------------------------------------------------------
\* Every step keeps the invariant.
LEMMA ClientNext ==
  ASSUME ClientInv, [Next]_vars
  PROVE  ClientInv'
<1>1. TypeOK' /\ TriesLeft' /\ WaitsForOne'
  BY TypeNext DEF ClientInv
<1> QED BY <1>1, SequenceNext, ConnNext, CredentialsNext, DeadlineNext, RefsNext, ExitNext DEF ClientInv

\* The inductive invariant of the connection manager and its sessions.
THEOREM ClientInvariant == Spec => []ClientInv
<1>1. Init => ClientInv
  BY ClientInit
<1>2. ClientInv /\ [Next]_vars => ClientInv'
  BY ClientNext
<1> QED BY <1>1, <1>2, PTL DEF Spec

\* Every reachable state is well typed.
THEOREM TypeCorrect == Spec => []TypeOK
<1>1. ClientInv => TypeOK
  BY DEF ClientInv
<1> QED BY <1>1, ClientInvariant, PTL

\* No connection outlives its session, and each that is dialled or open uses
\* the credentials the client holds (runWithReconnect, registerClient).
THEOREM CarrierCurrent == Spec => []CarrierIsCurrent
<1>1. ClientInv => CarrierIsCurrent
  <2> SUFFICES ASSUME ClientInv, NEW n \in Sess, Live(n)
               PROVE  /\ n = cur
                      /\ (mode[n] = "quic" /\ conn[n] = "dialling") \/ cred[n] = token
                      /\ mgr \notin {"register", "refused", "backoff", "top"}
    BY DEF CarrierIsCurrent, Live
  <2>1. pc[n] \in Dialling
    BY DEF ClientInv, ConnFollowsStep
  <2>2. n = cur
    BY SMT, <2>1 DEF ClientInv, OneAtATime, Dialling, Sess, TypeOK
  <2>3. (mode[n] = "quic" /\ conn[n] = "dialling") \/ cred[n] = token
    BY <2>1 DEF ClientInv, CredentialsOwn, ConnFollowsStep
  <2>4. mgr \notin {"register", "refused", "backoff", "top"}
    BY <2>1 DEF ClientInv, RegistersAlone, Dialling
  <2> QED BY <2>2, <2>3, <2>4
<1> QED BY <1>1, ClientInvariant, PTL

\* A socket dialRoute handed over is free of the deadline of its dial and of the
\* function that would move it.
THEOREM RouteFree == Spec => []RouteHandedOver
<1>1. ClientInv => RouteHandedOver
  BY DEF ClientInv, DeadlineInside, RouteHandedOver
<1> QED BY <1>1, ClientInvariant, PTL

\* An orderly exit leaves a QUIC connection open only in the two windows in which
\* clientState does not refer to it (RunClient).
THEOREM QuicClosed == Spec => []QuicClosedAtExit
<1>1. ClientInv => QuicClosedAtExit
  BY DEF ClientInv
<1> QED BY <1>1, ClientInvariant, PTL
================================================================================
