----------------------------- MODULE Ingress_proofs -----------------------------
(***************************************************************************)
(* Proofs about Ingress for any numbers of registrations and exchanges,    *)
(* any mix of their kinds and any capacity of the slots.                   *)
(***************************************************************************)
EXTENDS Ingress, FiniteSetTheorems, TLAPS

\* Exchanges that open a stream for a visitor, and the steps of each kind of exchange
\* in which it holds something.
Visitors == {"h1", "h2", "web"}
OpeningPcs == {"carrier", "slot", "ready", "sync", "header", "relay"}
SessionPcs == {"session", "join"}
ClientPcs == {"command", "relay", "exit"}
FlowPcs == {"dial", "flow"}
Connected == {"signal", "send", "write", "unset"}
SignalPcs == {"upgrade", "signal", "send", "write", "unset"}

\* The parts of the type invariant.
RegTypes ==
  /\ clients \in [Ids -> Regs \cup {None}] /\ routes \in [Names -> Regs \cup {None}]
  /\ rid \in [Regs -> Ids \cup {None}] /\ rname \in [Regs -> Names \cup {None}]
  /\ rstage \in [Regs -> {"new", "clean", "check", "put", "live", "forget", "over"}]
  /\ cancelled \subseteq Regs
  /\ carrier \in [Regs -> {"none", "lost"} \cup Carriers]
  /\ mu \in Regs \cup {None}

\* Listeners of reverse tunnels.
LisTypes ==
  /\ listener \in [Regs -> {"off", "bind", "bound", "accept", "ended"}]
  /\ tries \in [Regs -> 0..BindTries]
  /\ port \in Regs \cup {None}

\* Slots in use.
CountTypes ==
  /\ slots \in [Regs -> 0..OpenSlots] /\ dyn \in [Regs -> 0..DynSlots]
  /\ web \in 0..WebSlots /\ flows \in 0..FlowSlots

\* Signalling connections and their mutexes.
SignalTypes ==
  /\ signalConn \in [Regs -> Reqs \cup {None}] /\ signalMu \in [Regs -> Reqs \cup {None}]
  /\ peer \in [Reqs -> Regs \cup {None}]

\* Exchanges.
ReqTypes ==
  /\ kind \in [Reqs -> AllKinds \cup {"webstream", "webudp", "none"}]
  /\ pc \in [Reqs -> ReqPcs]
  /\ name \in [Reqs -> Names \cup {None}]
  /\ route \in [Reqs -> Regs \cup {None}] /\ client \in [Reqs -> Regs \cup {None}]
  /\ parent \in [Reqs -> Reqs \cup {None}]
  /\ ctx \in [Reqs -> BOOLEAN]
  /\ stream \in [Reqs -> {"none", "open", "closed"}]
  /\ opener \in [Reqs -> {"off", "open", "offer", "fail", "exit", "gone"}]

\* A registration has an ID and a name from the moment its handler runs.
StartedNamed ==
  \A r \in Regs : /\ rstage[r] # "new" => rid[r] \in Ids /\ rname[r] \in Names
                  /\ rstage[r] = "new" => rid[r] = None

\* The client registry lists a registration under its own ID.
EntriesOwn == \A i \in Ids : clients[i] # None => rid[clients[i]] = i

\* A route leads to a registration with an ID.
RoutesLead == \A n \in Names : routes[n] # None => rid[routes[n]] \in Ids

\* A reverse listener starts with its registration's route and retries its
\* bind fewer than BindTries times.
BindsLeft ==
  \A r \in Regs : /\ rstage[r] \notin {"live", "forget", "over"} => listener[r] = "off"
                  /\ listener[r] = "off" => tries[r] = 0
                  /\ listener[r] = "bind" => tries[r] < BindTries

\* What a visitor's request resolved to belongs to the client its route, or
\* its subdomain, named.
ResolvedOwner(q) ==
  /\ kind[q] \in Visitors => name[q] \in Names
  /\ route[q] # None => rid[route[q]] \in Ids
  /\ kind[q] \in Visitors /\ client[q] # None => rid[client[q]] = RoutedId(q)

\* What an exchange has, and of which kind it is, at each of its steps.
StepFits(q) ==
  /\ pc[q] = "idle" => /\ kind[q] = "none" /\ stream[q] = "none" /\ opener[q] = "off"
                       /\ client[q] = None /\ route[q] = None /\ parent[q] = None
  /\ pc[q] \in {"route", "client", "check"} => kind[q] \in Visitors
  /\ pc[q] \in {"route", "client"} => client[q] = None
  /\ pc[q] \in {"check"} \cup OpeningPcs \cup SessionPcs \cup ClientPcs \cup SignalPcs => client[q] # None
  /\ pc[q] \in OpeningPcs => kind[q] \in {"h1", "h2", "rev", "webstream", "webudp", "dyn"}
  /\ pc[q] \in SessionPcs => kind[q] = "web"
  /\ pc[q] \in {"command", "exit"} => kind[q] = "dyn"
  /\ pc[q] \in FlowPcs => kind[q] = "masque"
  /\ pc[q] \in SignalPcs => kind[q] = "ws"
  /\ pc[q] \in {"send", "write"} => peer[q] # None
  /\ kind[q] = "dyn" => pc[q] \in ClientPcs \cup {"done"}
  /\ kind[q] = "ws" => pc[q] \in SignalPcs \cup {"done"}
  /\ stream[q] # "none" /\ kind[q] # "masque" => client[q] # None

\* An opener runs only for an exchange that took a slot, on its registration.
OpenerFits(q) ==
  opener[q] # "off" =>
    pc[q] \in {"ready", "header", "relay", "done"} /\ client[q] # None /\ kind[q] \notin {"ws", "dyn", "none"}

\* An exchange fits its step.
Fits(q) == ResolvedOwner(q) /\ StepFits(q) /\ OpenerFits(q)

\* A stream of a WebTransport session runs inside it.
ChildWithin(c) ==
  parent[c] # None =>
    pc[c] # "idle" /\ kind[parent[c]] = "web" /\ (pc[c] # "done" => pc[parent[c]] \in SessionPcs)

\* The slots taken, counted by the steps that hold one.
CountsExact ==
  /\ \A r \in Regs : slots[r] = Cardinality(Openers(r))
  /\ \A r \in Regs : dyn[r] = Cardinality(Handlers(r))
  /\ web = Cardinality({q \in Reqs : pc[q] \in SessionPcs})
  /\ flows = Cardinality({q \in Reqs : pc[q] \in FlowPcs})

\* A registration's mutex is held by the exchange that writes to it.
SignalLocked ==
  /\ \A r \in Regs : signalMu[r] # None => pc[signalMu[r]] = "write" /\ peer[signalMu[r]] = r
  /\ \A q \in Reqs : pc[q] = "write" => signalMu[peer[q]] = q

\* The inductive invariant.
IngressInv ==
  /\ RegTypes /\ LisTypes /\ CountTypes /\ SignalTypes /\ ReqTypes
  /\ StartedNamed /\ EntriesOwn /\ RoutesLead /\ BindsLeft
  /\ \A q \in Reqs : Fits(q)
  /\ \A c \in Reqs : ChildWithin(c)
  /\ CountsExact
  /\ SignalLocked /\ SignalConnExact
--------------------------------------------------------------------------------
(* Steps, by whom they are taken.                                            *)

\* A registration, its handler and its carriers.
RegStep(r) ==
  \/ \E i \in Ids, n \in Names : RegStart(r, i, n)
  \/ RegClean(r) \/ RegRefuse(r) \/ RegPutClient(r) \/ (\E reverse \in BOOLEAN : RegPutRoute(r, reverse))
  \/ (\E c \in Carriers : Attach(r, c)) \/ CarrierLost(r) \/ Forget(r) \/ Forgotten(r)

\* Its listener.
PortStep(r) == Bind(r) \/ BindCancelled(r) \/ Watch(r) \/ CloseListener(r)

\* An exchange begins.
ArrivalStep(q) ==
  \/ \E r \in Regs : AcceptReverse(r, q) \/ AcceptClientStream(r, q)
  \/ \E k \in Kinds, n \in Names : Arrive(q, k, n)
  \/ \E p \in Reqs : AcceptStream(p, q) \/ FirstDatagram(p, q)
  \/ FlowArrives(q)
  \/ \E i \in Ids : SignalArrives(q, i)

\* An exchange, its opener, session, stream or flow goes on.
RequestMoves(q) ==
  \/ GetRoute(q) \/ GetClient(q) \/ Deny(q) \/ Admit(q)
  \/ ReadCarrier(q) \/ OpenSync(q) \/ TakeSlot(q) \/ Abandon(q) \/ Opened(q) \/ Receive(q) \/ Discard(q)
  \/ ReturnSlot(q) \/ WriteHeader(q) \/ EndRelay(q) \/ VisitorGone(q)
  \/ SessionOver(q) \/ LeaveSession(q) \/ JoinSession(q)
  \/ ClientCommand(q) \/ ReturnClientSlot(q) \/ FlowDials(q) \/ FlowEnds(q)

\* A signalling connection is served.
SignalStep(q) ==
  \/ StoreSignal(q) \/ UpgradeFails(q) \/ (\E i \in Ids : RelaySignal(q, i)) \/ SendSignal(q) \/ SentSignal(q)
  \/ SignalReadFails(q) \/ UnsetSignal(q)

\* Any of these.
ExchangeStep(q) == ArrivalStep(q) \/ RequestMoves(q) \/ SignalStep(q)

\* Every step is one of a registration, of a listener or of an exchange.
LEMMA NextCases ==
  ASSUME [Next]_vars
  PROVE  \/ \E r \in Regs : RegStep(r)
         \/ \E r \in Regs : PortStep(r)
         \/ \E q \in Reqs : ExchangeStep(q)
         \/ UNCHANGED vars
<1>1. CASE Registration
  BY <1>1, Zenon DEF Registration, RegStep
<1>2. CASE Reverse
  BY <1>2, Zenon DEF Reverse, PortStep, ExchangeStep, ArrivalStep
<1>3. CASE Resolution \/ Opening
  BY <1>3, Zenon DEF Resolution, Opening, ExchangeStep, ArrivalStep, RequestMoves
<1>4. CASE WebTransport
  BY <1>4, Zenon DEF WebTransport, ExchangeStep, ArrivalStep, RequestMoves
<1>5. CASE ClientStreams \/ Flows
  BY <1>5, Zenon DEF ClientStreams, Flows, ExchangeStep, ArrivalStep, RequestMoves
<1>6. CASE Signalling
  BY <1>6, Zenon DEF Signalling, ExchangeStep, ArrivalStep, SignalStep
<1> QED BY <1>1, <1>2, <1>3, <1>4, <1>5, <1>6 DEF Next

\* The capacities are positive, the sets of numbers finite, and nil is none of
\* the values it stands in for.
LEMMA Bounds ==
  /\ OpenSlots \in Nat \ {0} /\ DynSlots \in Nat \ {0} /\ WebSlots \in Nat \ {0} /\ FlowSlots \in Nat \ {0}
  /\ BindTries \in Nat \ {0}
  /\ Names \subseteq Ids /\ Kinds \subseteq AllKinds
  /\ None \notin Ids /\ None \notin Regs /\ None \notin Reqs
  /\ IsFiniteSet(Reqs)
<1>1. MaxReq \in Nat
  BY IngressAssumption
<1>2. IsFiniteSet(Reqs)
  BY <1>1, FS_Interval DEF Reqs
<1> QED BY <1>2, IngressAssumption

\* The type invariant is the conjunction of its parts.
LEMMA TypeParts == RegTypes /\ LisTypes /\ CountTypes /\ SignalTypes /\ ReqTypes => TypeOK
  BY DEF TypeOK, RegTypes, LisTypes, CountTypes, SignalTypes, ReqTypes

\* The size of a set of exchanges that gains one.
LEMMA CountAdd ==
  ASSUME NEW S \in SUBSET Reqs, NEW q \in Reqs, q \notin S
  PROVE  Cardinality(S \cup {q}) = Cardinality(S) + 1 /\ Cardinality(S) \in Nat
<1>1. IsFiniteSet(S)
  BY Bounds, FS_Subset
<1> QED BY <1>1, FS_AddElement, FS_CardinalityType

\* The same when it loses one.
LEMMA CountRemove ==
  ASSUME NEW S \in SUBSET Reqs, NEW q \in S
  PROVE  Cardinality(S \ {q}) = Cardinality(S) - 1 /\ Cardinality(S) \in Nat /\ Cardinality(S) >= 1
<1>1. IsFiniteSet(S)
  BY Bounds, FS_Subset
<1>2. Cardinality(S) \in Nat /\ Cardinality(S) # 0
  BY <1>1, FS_CardinalityType, FS_EmptySet
<1>3. Cardinality(S \ {q}) = Cardinality(S) - 1
  BY <1>1, FS_RemoveElement
<1> QED BY <1>2, <1>3

\* Nothing is registered and nothing has arrived.
LEMMA IngressInit == Init => IngressInv
<1> SUFFICES ASSUME Init PROVE IngressInv
  OBVIOUS
<1>1. RegTypes /\ LisTypes
  BY Bounds DEF Init, RegTypes, LisTypes
<1>2. CountTypes /\ SignalTypes
  BY Bounds DEF Init, CountTypes, SignalTypes
<1>3. ReqTypes
  BY Bounds DEF Init, ReqTypes, ReqPcs
<1>4. StartedNamed /\ EntriesOwn /\ RoutesLead /\ BindsLeft
  BY Bounds DEF Init, StartedNamed, EntriesOwn, RoutesLead, BindsLeft
<1>5. ASSUME NEW q \in Reqs PROVE Fits(q) /\ ChildWithin(q)
  BY Bounds DEF Init, Fits, ResolvedOwner, StepFits, OpenerFits, ChildWithin, Visitors, OpeningPcs, SessionPcs,
                ClientPcs, FlowPcs, SignalPcs
<1>6. CountsExact
  <2>1. \A r \in Regs : Openers(r) = {} /\ Handlers(r) = {}
    BY DEF Init, Openers, Handlers
  <2>2. {q \in Reqs : pc[q] \in SessionPcs} = {} /\ {q \in Reqs : pc[q] \in FlowPcs} = {}
    BY DEF Init, SessionPcs, FlowPcs
  <2> QED BY <2>1, <2>2, FS_EmptySet DEF Init, CountsExact
<1>7. SignalLocked /\ SignalConnExact
  BY Bounds DEF Init, SignalLocked, SignalConnExact
<1> QED BY <1>1, <1>2, <1>3, <1>4, <1>5, <1>6, <1>7 DEF IngressInv

--------------------------------------------------------------------------------
(* Registrations and their listeners.                                        *)

\* The registries stay typed.
LEMMA RegTyped ==
  ASSUME IngressInv, NEW r \in Regs, RegStep(r)
  PROVE  RegTypes' /\ LisTypes'
<1>1. RegTypes /\ LisTypes /\ StartedNamed /\ BindsLeft
  BY DEF IngressInv
<1> USE Bounds, <1>1
<1>2. CASE \E i \in Ids, n \in Names : RegStart(r, i, n)
  <2> PICK i \in Ids, n \in Names : RegStart(r, i, n)
    BY <1>2
  <2>1. rid' \in [Regs -> Ids \cup {None}] /\ rname' \in [Regs -> Names \cup {None}] /\ mu' \in Regs
    BY DEF RegStart, RegTypes
  <2>2. rstage' \in [Regs -> {"new", "clean", "check", "put", "live", "forget", "over"}]
    BY DEF RegStart, RegTypes
  <2>3. routes' \in [Names -> Regs \cup {None}]
    BY DEF RegStart, RegTypes, DropRoutes
  <2>4. cancelled' \subseteq Regs /\ carrier' \in [Regs -> {"none", "lost"} \cup Carriers]
    BY DEF RegStart, RegTypes
  <2>5. UNCHANGED <<clients, listener, tries, port>>
    BY DEF RegStart, lisVars
  <2> QED BY <2>1, <2>2, <2>3, <2>4, <2>5 DEF RegTypes, LisTypes
<1>3. CASE RegClean(r) \/ RegPutClient(r)
  <2>1. rid[r] \in Ids /\ clients' \in [Ids -> Regs \cup {None}]
    BY <1>3 DEF RegClean, RegPutClient, RegTypes, StartedNamed
  <2>2. rstage' \in [Regs -> {"new", "clean", "check", "put", "live", "forget", "over"}]
    BY <1>3 DEF RegClean, RegPutClient, RegTypes
  <2>3. UNCHANGED <<routes, rid, rname, cancelled, carrier, mu, listener, tries, port>>
    BY <1>3 DEF RegClean, RegPutClient, lisVars
  <2> QED BY <2>1, <2>2, <2>3 DEF RegTypes, LisTypes
<1>4. CASE RegRefuse(r)
  BY <1>4 DEF RegRefuse, RegTypes, LisTypes, lisVars
<1>5. CASE \E reverse \in BOOLEAN : RegPutRoute(r, reverse)
  <2> PICK reverse \in BOOLEAN : RegPutRoute(r, reverse)
    BY <1>5
  <2>1. routes' \in [Names -> Regs \cup {None}] /\ mu' = None
    BY DEF RegPutRoute, RegTypes
  <2>2. rstage' \in [Regs -> {"new", "clean", "check", "put", "live", "forget", "over"}]
    BY DEF RegPutRoute, RegTypes
  <2>3. listener' \in [Regs -> {"off", "bind", "bound", "accept", "ended"}]
    BY DEF RegPutRoute, LisTypes
  <2>4. UNCHANGED <<clients, rid, rname, cancelled, carrier, tries, port>>
    BY DEF RegPutRoute
  <2> QED BY <2>1, <2>2, <2>3, <2>4 DEF RegTypes, LisTypes
<1>6. CASE (\E c \in Carriers : Attach(r, c)) \/ CarrierLost(r)
  BY <1>6 DEF Attach, CarrierLost, RegTypes, LisTypes, lisVars
<1>7. CASE Forget(r)
  BY <1>7 DEF Forget, DropRoutes, RegTypes, LisTypes, lisVars
<1>8. CASE Forgotten(r)
  BY <1>8 DEF Forgotten, RegTypes, LisTypes, lisVars
<1> QED BY <1>2, <1>3, <1>4, <1>5, <1>6, <1>7, <1>8 DEF RegStep

\* A registration's handler keeps the IDs of what was resolved before, and
\* lists a registration only under its own.
LEMMA RegKeeps ==
  ASSUME IngressInv, NEW r \in Regs, RegStep(r)
  PROVE  StartedNamed' /\ EntriesOwn' /\ RoutesLead' /\ BindsLeft' /\ \A q \in Reqs : ResolvedOwner(q)'
<1>1. RegTypes /\ LisTypes /\ StartedNamed /\ EntriesOwn /\ RoutesLead /\ BindsLeft /\ ReqTypes
  BY DEF IngressInv
<1>2. ASSUME NEW q \in Reqs PROVE ResolvedOwner(q)
  BY DEF IngressInv, Fits
<1>3. UNCHANGED <<kind, name, route, client>>
  BY DEF RegStep, RegStart, RegClean, RegRefuse, RegPutClient, RegPutRoute, Attach, CarrierLost, Forget,
         Forgotten, reqVars
<1> USE Bounds, <1>1
<1>4. CASE \E i \in Ids, n \in Names : RegStart(r, i, n)
  <2> PICK i \in Ids, n \in Names : RegStart(r, i, n)
    BY <1>4
  <2>1. /\ rstage[r] = "new" /\ rid[r] = None
        /\ rid' = [rid EXCEPT ![r] = i] /\ rname' = [rname EXCEPT ![r] = n]
        /\ rstage' = [rstage EXCEPT ![r] = "clean"]
        /\ UNCHANGED <<clients, listener, tries>>
    BY DEF RegStart, StartedNamed, lisVars
  <2>2. \A m \in Names : routes'[m] = routes[m] \/ routes'[m] = None
    BY DEF RegStart, DropRoutes, RegTypes
  <2>3. StartedNamed'
    BY <2>1 DEF StartedNamed, RegTypes
  <2>4. \A x \in Regs : rid[x] \in Ids => rid'[x] = rid[x]
    BY <2>1 DEF RegTypes
  <2>5. EntriesOwn'
    BY <2>1, <2>4 DEF EntriesOwn, RegTypes
  <2>6. RoutesLead'
    BY <2>2, <2>4 DEF RoutesLead, RegTypes
  <2>7. BindsLeft'
    BY <2>1 DEF BindsLeft, RegTypes
  <2>8. ASSUME NEW q \in Reqs PROVE ResolvedOwner(q)'
    BY <1>2, <1>3, <2>4 DEF ResolvedOwner, RoutedId, ReqTypes, RegTypes
  <2> QED BY <2>3, <2>5, <2>6, <2>7, <2>8
<1>5. CASE RegClean(r) \/ RegPutClient(r)
  <2>1. /\ rstage[r] \in {"clean", "check"} /\ rstage'[r] \in {"check", "put"}
        /\ \A x \in Regs \ {r} : rstage'[x] = rstage[x]
        /\ UNCHANGED <<rid, rname, routes, listener, tries>>
        /\ \A i \in Ids : clients'[i] = clients[i] \/ clients'[i] = None \/ (clients'[i] = r /\ i = rid[r])
    BY <1>5 DEF RegClean, RegPutClient, RegTypes, lisVars
  <2>2. StartedNamed'
    BY <2>1 DEF StartedNamed
  <2>3. EntriesOwn' /\ RoutesLead'
    BY <2>1 DEF EntriesOwn, RoutesLead
  <2>4. BindsLeft'
    BY <2>1 DEF BindsLeft
  <2>5. ASSUME NEW q \in Reqs PROVE ResolvedOwner(q)'
    BY <1>2, <1>3, <2>1 DEF ResolvedOwner, RoutedId
  <2> QED BY <2>2, <2>3, <2>4, <2>5
<1>6. CASE RegRefuse(r) \/ Forget(r) \/ Forgotten(r)
  <2>1. /\ rstage[r] # "new" /\ rstage'[r] \in {"forget", "over"}
        /\ \A x \in Regs \ {r} : rstage'[x] = rstage[x]
        /\ UNCHANGED <<rid, rname, listener, tries>>
    BY <1>6 DEF RegRefuse, Forget, Forgotten, RegTypes, lisVars
  <2>2. \A i \in Ids : clients'[i] = clients[i] \/ clients'[i] = None
    BY <1>6 DEF RegRefuse, Forget, Forgotten, RegTypes
  <2>3. \A m \in Names : routes'[m] = routes[m] \/ routes'[m] = None
    BY <1>6 DEF RegRefuse, Forget, Forgotten, DropRoutes, RegTypes
  <2>4. StartedNamed'
    BY <2>1 DEF StartedNamed
  <2>5. EntriesOwn' /\ RoutesLead'
    BY <2>1, <2>2, <2>3 DEF EntriesOwn, RoutesLead
  <2>6. BindsLeft'
    BY <2>1 DEF BindsLeft
  <2>7. ASSUME NEW q \in Reqs PROVE ResolvedOwner(q)'
    BY <1>2, <1>3, <2>1 DEF ResolvedOwner, RoutedId
  <2> QED BY <2>4, <2>5, <2>6, <2>7
<1>7. CASE \E reverse \in BOOLEAN : RegPutRoute(r, reverse)
  <2>1. /\ rstage[r] = "put" /\ rstage'[r] = "live" /\ listener[r] = "off" /\ listener'[r] \in {"off", "bind"}
        /\ \A x \in Regs \ {r} : rstage'[x] = rstage[x] /\ listener'[x] = listener[x]
        /\ UNCHANGED <<clients, rid, rname, tries>>
        /\ \A m \in Names : routes'[m] = routes[m] \/ routes'[m] = r
    BY <1>7 DEF RegPutRoute, RegTypes, LisTypes, BindsLeft
  <2>2. StartedNamed'
    BY <2>1 DEF StartedNamed
  <2>3. EntriesOwn' /\ RoutesLead'
    BY <2>1 DEF EntriesOwn, RoutesLead, StartedNamed
  <2>4. BindsLeft'
    BY <2>1 DEF BindsLeft
  <2>5. ASSUME NEW q \in Reqs PROVE ResolvedOwner(q)'
    BY <1>2, <1>3, <2>1 DEF ResolvedOwner, RoutedId
  <2> QED BY <2>2, <2>3, <2>4, <2>5
<1>8. CASE (\E c \in Carriers : Attach(r, c)) \/ CarrierLost(r)
  <2>1. UNCHANGED <<clients, routes, rid, rname, rstage, listener, tries>>
    BY <1>8 DEF Attach, CarrierLost, lisVars
  <2>2. StartedNamed' /\ EntriesOwn' /\ RoutesLead' /\ BindsLeft'
    BY <2>1 DEF StartedNamed, EntriesOwn, RoutesLead, BindsLeft
  <2>3. ASSUME NEW q \in Reqs PROVE ResolvedOwner(q)'
    BY <1>2, <1>3, <2>1 DEF ResolvedOwner, RoutedId
  <2> QED BY <2>2, <2>3
<1> QED BY <1>4, <1>5, <1>6, <1>7, <1>8 DEF RegStep

\* A listener binds, gives up or closes within its bound.
LEMMA PortKeeps ==
  ASSUME IngressInv, NEW r \in Regs, PortStep(r)
  PROVE  LisTypes' /\ BindsLeft' /\ UNCHANGED <<regVars, slotVars, signalVars, reqVars>>
<1>1. RegTypes /\ LisTypes /\ BindsLeft
  BY DEF IngressInv
<1>2. UNCHANGED <<regVars, slotVars, signalVars, reqVars>>
  BY DEF PortStep, Bind, BindCancelled, Watch, CloseListener, Listener
<1> USE Bounds, <1>1
<1>3. CASE Bind(r) /\ port # None
  <2>1. /\ listener[r] = "bind" /\ tries[r] < BindTries
        /\ listener' = [listener EXCEPT ![r] = IF tries[r] + 1 = BindTries THEN "ended" ELSE "bind"]
        /\ tries' = [tries EXCEPT ![r] = @ + 1] /\ port' = port /\ rstage' = rstage
    BY <1>2, <1>3 DEF Bind, Listener, BindsLeft, regVars
  <2>2. LisTypes'
    BY <2>1 DEF LisTypes
  <2>3. BindsLeft'
    BY <2>1 DEF LisTypes, BindsLeft
  <2> QED BY <1>2, <2>2, <2>3
<1>4. CASE ~(Bind(r) /\ port # None)
  <2>1. /\ listener[r] \in {"bind", "bound", "accept"} /\ listener'[r] \in {"bound", "accept", "ended"}
        /\ \A x \in Regs \ {r} : listener'[x] = listener[x]
        /\ tries' = tries /\ rstage' = rstage
    BY <1>2, <1>4 DEF PortStep, Bind, BindCancelled, Watch, CloseListener, Listener, LisTypes, regVars
  <2>2. LisTypes'
    BY <1>4 DEF PortStep, Bind, BindCancelled, Watch, CloseListener, Listener, LisTypes
  <2>3. BindsLeft'
    BY <2>1 DEF LisTypes, BindsLeft
  <2> QED BY <1>2, <2>2, <2>3
<1> QED BY <1>3, <1>4

--------------------------------------------------------------------------------
(* Exchanges.                                                                *)

\* What a step of one exchange leaves alone of another.
Same(p) ==
  /\ pc'[p] = pc[p] /\ kind'[p] = kind[p] /\ name'[p] = name[p] /\ route'[p] = route[p]
  /\ client'[p] = client[p] /\ parent'[p] = parent[p] /\ peer'[p] = peer[p] /\ opener'[p] = opener[p]
  /\ stream'[p] = stream[p] \/ (stream'[p] = "closed" /\ kind[p] = "ws" /\ client[p] # None)

\* An exchange leaves the registrations alone.
LEMMA Apart ==
  ASSUME NEW q \in Reqs, ExchangeStep(q)
  PROVE  UNCHANGED <<regVars, lisVars>>
<1>1. CASE ArrivalStep(q)
  BY <1>1 DEF ArrivalStep, AcceptReverse, AcceptClientStream, Arrive, AcceptStream, FirstDatagram, Spawn,
              FlowArrives, SignalArrives
<1>2. CASE RequestMoves(q)
  BY <1>2 DEF RequestMoves, GetRoute, GetClient, Deny, Admit, ReadCarrier, OpenSync, TakeSlot, Abandon, Opened,
              Receive, Discard, ReturnSlot, WriteHeader, EndRelay, VisitorGone, SessionOver, LeaveSession,
              JoinSession, ClientCommand, ReturnClientSlot, FlowDials, FlowEnds
<1>3. CASE SignalStep(q)
  BY <1>3 DEF SignalStep, StoreSignal, UpgradeFails, RelaySignal, SendSignal, SentSignal, SignalReadFails,
              UnsetSignal
<1> QED BY <1>1, <1>2, <1>3 DEF ExchangeStep

\* It touches only its own state, except that a signalling connection closes
\* the one it replaces.
LEMMA Alone ==
  ASSUME IngressInv, NEW q \in Reqs, ExchangeStep(q), NEW p \in Reqs \ {q}
  PROVE  Same(p)
<1>1. ReqTypes /\ SignalTypes
  BY DEF IngressInv
<1> USE <1>1 DEF Goto, Same, ReqTypes, SignalTypes, signalVars
<1>2. CASE \E r \in Regs : AcceptReverse(r, q)
  BY <1>2 DEF AcceptReverse, Fresh
<1>3. CASE \E r \in Regs : AcceptClientStream(r, q)
  BY <1>3 DEF AcceptClientStream, Fresh, CloseStream
<1>4. CASE \E k \in Kinds, n \in Names : Arrive(q, k, n)
  BY <1>4 DEF Arrive, Fresh
<1>5. CASE \E s \in Reqs : AcceptStream(s, q) \/ FirstDatagram(s, q)
  BY <1>5 DEF AcceptStream, FirstDatagram, Spawn, Fresh
<1>6. CASE FlowArrives(q)
  BY <1>6 DEF FlowArrives, Fresh
<1>7. CASE \E i \in Ids : SignalArrives(q, i)
  BY <1>7 DEF SignalArrives, Fresh
<1>8. CASE GetRoute(q)
  BY <1>8 DEF GetRoute
<1>9. CASE GetClient(q)
  BY <1>9 DEF GetClient
<1>10. CASE Deny(q)
  BY <1>10 DEF Deny
<1>11. CASE Admit(q)
  BY <1>11 DEF Admit
<1>12. CASE ReadCarrier(q)
  BY <1>12 DEF ReadCarrier, Finish
<1>13. CASE OpenSync(q)
  BY <1>13 DEF OpenSync, Finish
<1>14. CASE TakeSlot(q)
  BY <1>14 DEF TakeSlot
<1>15. CASE Abandon(q)
  BY <1>15 DEF Abandon, Finish
<1>16. CASE Opened(q)
  BY <1>16 DEF Opened
<1>17. CASE Receive(q)
  BY <1>17 DEF Receive, Finish, CloseStream
<1>18. CASE Discard(q)
  BY <1>18 DEF Discard, CloseStream
<1>19. CASE ReturnSlot(q)
  BY <1>19 DEF ReturnSlot
<1>20. CASE WriteHeader(q)
  BY <1>20 DEF WriteHeader, Finish, CloseStream
<1>21. CASE EndRelay(q)
  BY <1>21 DEF EndRelay, Finish, CloseStream
<1>22. CASE VisitorGone(q) \/ SessionOver(q)
  BY <1>22 DEF VisitorGone, SessionOver
<1>23. CASE LeaveSession(q)
  BY <1>23 DEF LeaveSession
<1>24. CASE JoinSession(q)
  BY <1>24 DEF JoinSession
<1>25. CASE ClientCommand(q)
  BY <1>25 DEF ClientCommand, Finish, CloseStream
<1>26. CASE ReturnClientSlot(q)
  BY <1>26 DEF ReturnClientSlot
<1>27. CASE FlowDials(q)
  BY <1>27 DEF FlowDials
<1>28. CASE FlowEnds(q)
  BY <1>28 DEF FlowEnds, CloseStream
<1>29. CASE StoreSignal(q)
  <2>1. /\ pc'[p] = pc[p] /\ UNCHANGED <<kind, name, route, client, parent, peer, opener>>
        /\ stream'[p] = stream[p] \/ (stream'[p] = "closed" /\ signalConn[client[q]] = p)
    BY <1>29 DEF StoreSignal, Goto, ReqTypes
  <2>2. client[q] \in Regs /\ kind[q] = "ws"
    BY <1>29 DEF StoreSignal, IngressInv, Fits, StepFits, SignalPcs, ReqTypes
  <2>3. signalConn[client[q]] = p => kind[p] = "ws" /\ client[p] # None
    BY <2>2, Bounds DEF IngressInv, SignalConnExact, Fits, StepFits, SignalPcs
  <2> QED BY <2>1, <2>3 DEF Same
<1>30. CASE UpgradeFails(q)
  BY <1>30 DEF UpgradeFails
<1>31. CASE \E i \in Ids : RelaySignal(q, i)
  BY <1>31 DEF RelaySignal
<1>32. CASE SendSignal(q)
  BY <1>32 DEF SendSignal
<1>33. CASE SentSignal(q)
  BY <1>33 DEF SentSignal
<1>34. CASE SignalReadFails(q)
  BY <1>34 DEF SignalReadFails
<1>35. CASE UnsetSignal(q)
  BY <1>35 DEF UnsetSignal, CloseStream
<1> QED BY <1>2, <1>3, <1>4, <1>5, <1>6, <1>7, <1>8, <1>9, <1>10, <1>11, <1>12, <1>13, <1>14, <1>15, <1>16, <1>17, <1>18, <1>19, <1>20, <1>21, <1>22, <1>23, <1>24, <1>25, <1>26, <1>27, <1>28, <1>29, <1>30, <1>31, <1>32, <1>33, <1>34, <1>35
       DEF ExchangeStep, ArrivalStep, RequestMoves, SignalStep

\* Its own state fits its step afterwards.
LEMMA ExchangeFits ==
  ASSUME IngressInv, NEW q \in Reqs, ExchangeStep(q)
  PROVE  Fits(q)'
<1>1. ReqTypes /\ SignalTypes /\ RegTypes
  BY DEF IngressInv
<1>2. Fits(q)
  BY DEF IngressInv
<1>3. UNCHANGED <<rid, clients, routes, rname>>
  BY Apart DEF regVars
<1> USE Bounds, <1>1, <1>2, <1>3 DEF Goto, ReqTypes, SignalTypes, Fits, ResolvedOwner, RoutedId, StepFits, OpenerFits,
    Visitors, OpeningPcs, SessionPcs, ClientPcs, FlowPcs, SignalPcs
<1>4. CASE \E r \in Regs : AcceptReverse(r, q)
  BY <1>4 DEF AcceptReverse, Fresh
<1>5. CASE \E r \in Regs : AcceptClientStream(r, q)
  BY <1>5 DEF AcceptClientStream, Fresh, CloseStream
<1>6. CASE \E k \in Kinds, n \in Names : Arrive(q, k, n)
  BY <1>6 DEF Arrive, Fresh
<1>7. CASE \E p \in Reqs : AcceptStream(p, q) \/ FirstDatagram(p, q)
  <2> PICK p \in Reqs : AcceptStream(p, q) \/ FirstDatagram(p, q)
    BY <1>7
  <2>1. /\ pc[q] = "idle" /\ pc[p] = "session" /\ client' = [client EXCEPT ![q] = client[p]]
        /\ parent' = [parent EXCEPT ![q] = p] /\ pc' = [pc EXCEPT ![q] = "carrier"]
        /\ UNCHANGED <<name, route, stream, opener>>
    BY DEF AcceptStream, FirstDatagram, Spawn, Fresh, Goto
  <2>2. kind'[q] \in {"webstream", "webudp"}
    BY DEF AcceptStream, FirstDatagram, Spawn, ReqTypes
  <2>3. client[p] # None
    BY <2>1 DEF IngressInv, Fits, StepFits, SessionPcs
  <2> QED BY <2>1, <2>2, <2>3 DEF ReqTypes, Fits, ResolvedOwner, RoutedId, StepFits, OpenerFits, Visitors, OpeningPcs, SessionPcs, ClientPcs, FlowPcs,
      SignalPcs
<1>8. CASE FlowArrives(q)
  BY <1>8 DEF FlowArrives, Fresh
<1>9. CASE \E i \in Ids : SignalArrives(q, i)
  BY <1>9 DEF SignalArrives, Fresh
<1>10. CASE GetRoute(q)
  <2>1. name[q] \in Names /\ pc[q] = "route" /\ client[q] = None
    BY <1>10 DEF GetRoute, Fits, ResolvedOwner, StepFits
  <2>2. routes[name[q]] # None => rid[routes[name[q]]] \in Ids
    BY <2>1 DEF IngressInv, RoutesLead
  <2> QED BY <1>10, <2>1, <2>2 DEF GetRoute, Goto, ReqTypes, Fits, ResolvedOwner, RoutedId, StepFits, OpenerFits, Visitors, OpeningPcs, SessionPcs, ClientPcs, FlowPcs,
      SignalPcs
<1>11. CASE GetClient(q)
  <2>1. name[q] \in Names /\ pc[q] = "client" /\ kind[q] \in Visitors /\ opener[q] = "off"
    BY <1>11 DEF GetClient, Fits, ResolvedOwner, StepFits, OpenerFits, ReqTypes
  <2>2. RoutedId(q) \in Ids
    BY <2>1 DEF Fits, ResolvedOwner, RoutedId
  <2>3. clients[RoutedId(q)] # None => rid[clients[RoutedId(q)]] = RoutedId(q)
    BY <2>2 DEF IngressInv, EntriesOwn
  <2>4. /\ client'[q] = clients[RoutedId(q)] /\ pc'[q] \in {"done", "check"} /\ (client'[q] = None => pc'[q] = "done")
        /\ UNCHANGED <<kind, name, route, parent, peer, stream, opener>>
    BY <1>11 DEF GetClient, Goto, ReqTypes, signalVars
  <2>5. RoutedId(q)' = RoutedId(q)
    BY <2>4 DEF RoutedId
  <2>6. ResolvedOwner(q)'
    BY <2>1, <2>3, <2>4, <2>5 DEF Fits, ResolvedOwner
  <2>7. StepFits(q)'
    BY <2>1, <2>4 DEF Fits, StepFits, Visitors, OpeningPcs, SessionPcs, ClientPcs, FlowPcs, SignalPcs
  <2> QED BY <2>1, <2>4, <2>6, <2>7 DEF Fits, OpenerFits
<1>12. CASE Deny(q)
  BY <1>12 DEF Deny
<1>13. CASE Admit(q)
  BY <1>13 DEF Admit
<1>14. CASE ReadCarrier(q)
  BY <1>14 DEF ReadCarrier, Finish
<1>15. CASE OpenSync(q)
  BY <1>15 DEF OpenSync, Finish
<1>16. CASE TakeSlot(q)
  BY <1>16 DEF TakeSlot
<1>17. CASE Abandon(q)
  BY <1>17 DEF Abandon, Finish
<1>18. CASE Opened(q)
  BY <1>18 DEF Opened
<1>19. CASE Receive(q)
  BY <1>19 DEF Receive, Finish, CloseStream
<1>20. CASE Discard(q)
  BY <1>20 DEF Discard, CloseStream
<1>21. CASE ReturnSlot(q)
  BY <1>21 DEF ReturnSlot
<1>22. CASE WriteHeader(q)
  BY <1>22 DEF WriteHeader, Finish, CloseStream
<1>23. CASE EndRelay(q)
  BY <1>23 DEF EndRelay, Finish, CloseStream
<1>24. CASE VisitorGone(q) \/ SessionOver(q)
  BY <1>24 DEF VisitorGone, SessionOver
<1>25. CASE LeaveSession(q)
  BY <1>25 DEF LeaveSession
<1>26. CASE JoinSession(q)
  BY <1>26 DEF JoinSession
<1>27. CASE ClientCommand(q)
  BY <1>27 DEF ClientCommand, Finish, CloseStream
<1>28. CASE ReturnClientSlot(q)
  BY <1>28 DEF ReturnClientSlot
<1>29. CASE FlowDials(q)
  BY <1>29 DEF FlowDials
<1>30. CASE FlowEnds(q)
  BY <1>30 DEF FlowEnds, CloseStream
<1>31. CASE StoreSignal(q)
  BY <1>31 DEF StoreSignal
<1>32. CASE UpgradeFails(q)
  BY <1>32 DEF UpgradeFails
<1>33. CASE \E i \in Ids : RelaySignal(q, i)
  BY <1>33 DEF RelaySignal
<1>34. CASE SendSignal(q)
  BY <1>34 DEF SendSignal
<1>35. CASE SentSignal(q)
  BY <1>35 DEF SentSignal
<1>36. CASE SignalReadFails(q)
  BY <1>36 DEF SignalReadFails
<1>37. CASE UnsetSignal(q)
  BY <1>37 DEF UnsetSignal, CloseStream
<1> QED BY <1>4, <1>5, <1>6, <1>7, <1>8, <1>9, <1>10, <1>11, <1>12, <1>13, <1>14, <1>15, <1>16, <1>17, <1>18, <1>19, <1>20, <1>21, <1>22, <1>23, <1>24, <1>25, <1>26, <1>27, <1>28, <1>29, <1>30, <1>31, <1>32, <1>33, <1>34, <1>35, <1>36, <1>37
       DEF ExchangeStep, ArrivalStep, RequestMoves, SignalStep

\* The state of an exchange and the mutexes stay typed.
LEMMA ExchangeTyped ==
  ASSUME IngressInv, NEW q \in Reqs, ExchangeStep(q)
  PROVE  ReqTypes' /\ SignalTypes'
<1>1. ReqTypes /\ SignalTypes /\ RegTypes
  BY DEF IngressInv
<1>2. Fits(q)
  BY DEF IngressInv
<1> USE Bounds, <1>1 DEF Goto, ReqTypes, ReqPcs, SignalTypes, RegTypes, signalVars
<1>3. CASE \E r \in Regs : AcceptReverse(r, q)
  BY <1>3 DEF AcceptReverse, Fresh, AllKinds
<1>4. CASE \E r \in Regs : AcceptClientStream(r, q)
  BY <1>4 DEF AcceptClientStream, Fresh, CloseStream, AllKinds
<1>5. CASE \E k \in Kinds, n \in Names : Arrive(q, k, n)
  BY <1>5 DEF Arrive, Fresh, AllKinds
<1>6. CASE \E p \in Reqs : AcceptStream(p, q) \/ FirstDatagram(p, q)
  <2> PICK p \in Reqs : AcceptStream(p, q) \/ FirstDatagram(p, q)
    BY <1>6
  <2>1. kind' \in [Reqs -> AllKinds \cup {"webstream", "webudp", "none"}]
    BY DEF AcceptStream, FirstDatagram, Spawn, ReqTypes
  <2> QED BY <2>1 DEF AcceptStream, FirstDatagram, Spawn, Goto, ReqTypes, ReqPcs, SignalTypes, signalVars
<1>7. CASE FlowArrives(q)
  BY <1>7 DEF FlowArrives, Fresh, AllKinds
<1>8. CASE \E i \in Ids : SignalArrives(q, i)
  BY <1>8 DEF SignalArrives, Fresh, AllKinds
<1>9. CASE GetRoute(q)
  <2>1. name[q] \in Names
    BY <1>2, <1>9 DEF GetRoute, Fits, ResolvedOwner, StepFits
  <2> QED BY <1>9, <2>1 DEF GetRoute, Goto, ReqTypes, ReqPcs, SignalTypes, RegTypes, signalVars
<1>10. CASE GetClient(q)
  <2>1. RoutedId(q) \in Ids
    BY <1>2, <1>10 DEF GetClient, Fits, ResolvedOwner, StepFits, RoutedId
  <2> QED BY <1>10, <2>1 DEF GetClient, Goto, ReqTypes, ReqPcs, SignalTypes, RegTypes, signalVars
<1>11. CASE Deny(q)
  BY <1>11 DEF Deny
<1>12. CASE Admit(q)
  BY <1>12 DEF Admit
<1>13. CASE ReadCarrier(q)
  <2>1. ctx' \in [Reqs -> BOOLEAN]
    BY <1>13 DEF ReadCarrier, Finish, Goto, ReqTypes
  <2>2. pc' \in [Reqs -> ReqPcs]
    BY <1>13 DEF ReadCarrier, Finish, Goto, ReqTypes, ReqPcs
  <2>3. /\ stream' \in [Reqs -> {"none", "open", "closed"}]
        /\ opener' \in [Reqs -> {"off", "open", "offer", "fail", "exit", "gone"}]
    BY <1>13 DEF ReadCarrier, Finish, ReqTypes
  <2>4. UNCHANGED <<kind, name, route, client, parent, signalConn, signalMu, peer>>
    BY <1>13 DEF ReadCarrier, Finish, signalVars
  <2> QED BY <2>1, <2>2, <2>3, <2>4 DEF ReqTypes, SignalTypes
<1>14. CASE OpenSync(q)
  BY ZenonT(60), <1>14 DEF OpenSync, Finish
<1>15. CASE TakeSlot(q)
  BY <1>15 DEF TakeSlot
<1>16. CASE Abandon(q)
  BY <1>16 DEF Abandon, Finish
<1>17. CASE Opened(q)
  BY <1>17 DEF Opened
<1>18. CASE Receive(q)
  <2>1. ctx' \in [Reqs -> BOOLEAN]
    BY <1>18 DEF Receive, Finish, CloseStream, Goto, ReqTypes
  <2>2. pc' \in [Reqs -> ReqPcs]
    BY <1>18 DEF Receive, Finish, CloseStream, Goto, ReqTypes, ReqPcs
  <2>3. /\ stream' \in [Reqs -> {"none", "open", "closed"}]
        /\ opener' \in [Reqs -> {"off", "open", "offer", "fail", "exit", "gone"}]
    BY <1>18 DEF Receive, Finish, CloseStream, ReqTypes
  <2>4. UNCHANGED <<kind, name, route, client, parent, signalConn, signalMu, peer>>
    BY <1>18 DEF Receive, Finish, CloseStream, signalVars
  <2> QED BY <2>1, <2>2, <2>3, <2>4 DEF ReqTypes, SignalTypes
<1>19. CASE Discard(q)
  BY <1>19 DEF Discard, CloseStream
<1>20. CASE ReturnSlot(q)
  BY <1>20 DEF ReturnSlot
<1>21. CASE WriteHeader(q)
  <2>1. ctx' \in [Reqs -> BOOLEAN]
    BY ZenonT(60), <1>21 DEF WriteHeader, Finish, CloseStream, Goto, ReqTypes
  <2>2. pc' \in [Reqs -> ReqPcs]
    BY <1>21 DEF WriteHeader, Finish, CloseStream, Goto, ReqTypes, ReqPcs
  <2>3. /\ stream' \in [Reqs -> {"none", "open", "closed"}]
        /\ opener' \in [Reqs -> {"off", "open", "offer", "fail", "exit", "gone"}]
    BY <1>21 DEF WriteHeader, Finish, CloseStream, ReqTypes
  <2>4. UNCHANGED <<kind, name, route, client, parent, signalConn, signalMu, peer>>
    BY <1>21 DEF WriteHeader, Finish, CloseStream, signalVars
  <2> QED BY <2>1, <2>2, <2>3, <2>4 DEF ReqTypes, SignalTypes
<1>22. CASE EndRelay(q)
  BY <1>22 DEF EndRelay, Finish, CloseStream
<1>23. CASE VisitorGone(q) \/ SessionOver(q)
  <2>1. ctx' \in [Reqs -> BOOLEAN]
    BY <1>23 DEF VisitorGone, SessionOver, ReqTypes
  <2>2. pc' \in [Reqs -> ReqPcs]
    BY <1>23 DEF VisitorGone, SessionOver, ReqTypes, ReqPcs
  <2>3. /\ stream' \in [Reqs -> {"none", "open", "closed"}]
        /\ opener' \in [Reqs -> {"off", "open", "offer", "fail", "exit", "gone"}]
    BY <1>23 DEF VisitorGone, SessionOver, ReqTypes
  <2>4. UNCHANGED <<kind, name, route, client, parent, signalConn, signalMu, peer>>
    BY <1>23 DEF VisitorGone, SessionOver, signalVars
  <2> QED BY <2>1, <2>2, <2>3, <2>4 DEF ReqTypes, SignalTypes
<1>24. CASE LeaveSession(q)
  BY <1>24 DEF LeaveSession
<1>25. CASE JoinSession(q)
  BY <1>25 DEF JoinSession
<1>26. CASE ClientCommand(q)
  <2>1. ctx' \in [Reqs -> BOOLEAN]
    BY ZenonT(60), <1>26 DEF ClientCommand, Finish, CloseStream, Goto, ReqTypes
  <2>2. pc' \in [Reqs -> ReqPcs]
    BY <1>26 DEF ClientCommand, Finish, CloseStream, Goto, ReqTypes, ReqPcs
  <2>3. /\ stream' \in [Reqs -> {"none", "open", "closed"}]
        /\ opener' \in [Reqs -> {"off", "open", "offer", "fail", "exit", "gone"}]
    BY <1>26 DEF ClientCommand, Finish, CloseStream, ReqTypes
  <2>4. UNCHANGED <<kind, name, route, client, parent, signalConn, signalMu, peer>>
    BY <1>26 DEF ClientCommand, Finish, CloseStream, signalVars
  <2> QED BY <2>1, <2>2, <2>3, <2>4 DEF ReqTypes, SignalTypes
<1>27. CASE ReturnClientSlot(q)
  BY <1>27 DEF ReturnClientSlot
<1>28. CASE FlowDials(q)
  BY <1>28 DEF FlowDials
<1>29. CASE FlowEnds(q)
  BY <1>29 DEF FlowEnds, CloseStream
<1>30. CASE StoreSignal(q)
  BY <1>2, <1>30 DEF StoreSignal, Fits, StepFits, SignalPcs
<1>31. CASE UpgradeFails(q)
  BY <1>31 DEF UpgradeFails
<1>32. CASE \E i \in Ids : RelaySignal(q, i)
  BY <1>32 DEF RelaySignal
<1>33. CASE SendSignal(q)
  BY <1>2, <1>33 DEF SendSignal, Fits, StepFits, SignalPcs
<1>34. CASE SentSignal(q)
  BY <1>2, <1>34 DEF SentSignal, Fits, StepFits, SignalPcs
<1>35. CASE SignalReadFails(q)
  BY <1>35 DEF SignalReadFails
<1>36. CASE UnsetSignal(q)
  BY <1>2, <1>36 DEF UnsetSignal, CloseStream, Fits, StepFits, SignalPcs
<1> QED BY <1>3, <1>4, <1>5, <1>6, <1>7, <1>8, <1>9, <1>10, <1>11, <1>12, <1>13, <1>14, <1>15, <1>16, <1>17, <1>18, <1>19, <1>20, <1>21, <1>22, <1>23, <1>24, <1>25, <1>26, <1>27, <1>28, <1>29, <1>30, <1>31, <1>32, <1>33, <1>34, <1>35, <1>36
       DEF ExchangeStep, ArrivalStep, RequestMoves, SignalStep

--------------------------------------------------------------------------------
(* Slots.                                                                    *)

\* The exchange has the same opening slot before and after a step.
SlotSame(q) ==
  \A r \in Regs : (client'[q] = r /\ opener'[q] \notin {"off", "gone"}) <=> (client[q] = r /\ opener[q] \notin {"off", "gone"})

\* Its slot of a client stream.
HandlerSame(q) ==
  \A r \in Regs : (kind'[q] = "dyn" /\ client'[q] = r /\ pc'[q] \in ClientPcs)
                    <=> (kind[q] = "dyn" /\ client[q] = r /\ pc[q] \in ClientPcs)

\* Its session, and its flow.
SessionSame(q) == pc'[q] \in SessionPcs <=> pc[q] \in SessionPcs
FlowSame(q) == pc'[q] \in FlowPcs <=> pc[q] \in FlowPcs

\* A counter moves only with what it counts.
LEMMA CountersMove ==
  ASSUME IngressInv, NEW q \in Reqs, ExchangeStep(q)
  PROVE  /\ TakeSlot(q) \/ ReturnSlot(q) \/ (slots' = slots /\ SlotSame(q))
         /\ (\E r \in Regs : AcceptClientStream(r, q)) \/ ReturnClientSlot(q) \/ (dyn' = dyn /\ HandlerSame(q))
         /\ Admit(q) \/ JoinSession(q) \/ (web' = web /\ SessionSame(q))
         /\ FlowArrives(q) \/ FlowDials(q) \/ FlowEnds(q) \/ (flows' = flows /\ FlowSame(q))
<1>1. ReqTypes /\ Fits(q)
  BY DEF IngressInv
<1> DEFINE Slot == slots' = slots /\ SlotSame(q)
           Handler == dyn' = dyn /\ HandlerSame(q)
           Session == web' = web /\ SessionSame(q)
           Flow == flows' = flows /\ FlowSame(q)
<1> USE <1>1 DEF Goto, ReqTypes, Fits, StepFits, OpenerFits, SlotSame, HandlerSame, SessionSame, FlowSame, OpeningPcs,
    ClientPcs, SessionPcs, FlowPcs, SignalPcs, Visitors, slotVars
<1>2. CASE \E r \in Regs : AcceptReverse(r, q)
  BY <1>2 DEF AcceptReverse, Fresh
<1>3. CASE \E r \in Regs : AcceptClientStream(r, q)
  <2>1. Slot /\ Session /\ Flow
    BY <1>3 DEF AcceptClientStream, Fresh, CloseStream
  <2> QED BY <1>3, <2>1
<1>4. CASE \E k \in Kinds, n \in Names : Arrive(q, k, n)
  BY <1>4 DEF Arrive, Fresh
<1>5. CASE \E p \in Reqs : AcceptStream(p, q) \/ FirstDatagram(p, q)
  BY <1>5 DEF AcceptStream, FirstDatagram, Spawn, Fresh
<1>6. CASE FlowArrives(q)
  <2>1. Slot /\ Handler /\ Session
    BY <1>6 DEF FlowArrives, Fresh
  <2> QED BY <1>6, <2>1
<1>7. CASE \E i \in Ids : SignalArrives(q, i)
  BY <1>7 DEF SignalArrives, Fresh
<1>8. CASE GetRoute(q)
  BY <1>8 DEF GetRoute
<1>9. CASE GetClient(q)
  BY <1>9 DEF GetClient
<1>10. CASE Deny(q)
  BY <1>10 DEF Deny
<1>11. CASE Admit(q)
  <2>1. Slot /\ Handler /\ Flow
    BY <1>11 DEF Admit
  <2> QED BY <1>11, <2>1
<1>12. CASE ReadCarrier(q)
  BY <1>12 DEF ReadCarrier, Finish
<1>13. CASE OpenSync(q)
  BY <1>13 DEF OpenSync, Finish
<1>14. CASE TakeSlot(q)
  <2>1. Handler /\ Session /\ Flow
    BY <1>14 DEF TakeSlot
  <2> QED BY <1>14, <2>1
<1>15. CASE Abandon(q)
  BY <1>15 DEF Abandon, Finish
<1>16. CASE Opened(q)
  BY <1>16 DEF Opened
<1>17. CASE Receive(q)
  BY <1>17 DEF Receive, Finish, CloseStream
<1>18. CASE Discard(q)
  BY <1>18 DEF Discard, CloseStream
<1>19. CASE ReturnSlot(q)
  <2>1. Handler /\ Session /\ Flow
    BY <1>19 DEF ReturnSlot
  <2> QED BY <1>19, <2>1
<1>20. CASE WriteHeader(q)
  BY <1>20 DEF WriteHeader, Finish, CloseStream
<1>21. CASE EndRelay(q)
  BY <1>21 DEF EndRelay, Finish, CloseStream
<1>22. CASE VisitorGone(q) \/ SessionOver(q)
  BY <1>22 DEF VisitorGone, SessionOver
<1>23. CASE LeaveSession(q)
  BY <1>23 DEF LeaveSession
<1>24. CASE JoinSession(q)
  <2>1. Slot /\ Handler /\ Flow
    BY <1>24 DEF JoinSession
  <2> QED BY <1>24, <2>1
<1>25. CASE ClientCommand(q)
  BY <1>25 DEF ClientCommand, Finish, CloseStream
<1>26. CASE ReturnClientSlot(q)
  <2>1. Slot /\ Session /\ Flow
    BY <1>26 DEF ReturnClientSlot
  <2> QED BY <1>26, <2>1
<1>27. CASE FlowDials(q)
  <2>1. Slot /\ Handler /\ Session
    BY <1>27 DEF FlowDials
  <2> QED BY <1>27, <2>1
<1>28. CASE FlowEnds(q)
  <2>1. Slot /\ Handler /\ Session
    BY <1>28 DEF FlowEnds, CloseStream
  <2> QED BY <1>28, <2>1
<1>29. CASE StoreSignal(q)
  BY <1>29 DEF StoreSignal
<1>30. CASE UpgradeFails(q)
  BY <1>30 DEF UpgradeFails
<1>31. CASE \E i \in Ids : RelaySignal(q, i)
  BY <1>31 DEF RelaySignal
<1>32. CASE SendSignal(q)
  BY <1>32 DEF SendSignal
<1>33. CASE SentSignal(q)
  BY <1>33 DEF SentSignal
<1>34. CASE SignalReadFails(q)
  BY <1>34 DEF SignalReadFails
<1>35. CASE UnsetSignal(q)
  BY <1>35 DEF UnsetSignal, CloseStream
<1> QED BY <1>2, <1>3, <1>4, <1>5, <1>6, <1>7, <1>8, <1>9, <1>10, <1>11, <1>12, <1>13, <1>14, <1>15, <1>16, <1>17, <1>18, <1>19, <1>20, <1>21, <1>22, <1>23, <1>24, <1>25, <1>26, <1>27, <1>28, <1>29, <1>30, <1>31, <1>32, <1>33, <1>34, <1>35
       DEF ExchangeStep, ArrivalStep, RequestMoves, SignalStep

\* ingressOpening counts the openers of each registration.
LEMMA SlotsCount ==
  ASSUME IngressInv, NEW q \in Reqs, ExchangeStep(q)
  PROVE  slots' \in [Regs -> 0..OpenSlots] /\ \A r \in Regs : slots'[r] = Cardinality(Openers(r)')
<1>1. CountTypes /\ ReqTypes /\ Fits(q) /\ \A r \in Regs : slots[r] = Cardinality(Openers(r))
  BY DEF IngressInv, CountsExact
<1>2. \A p \in Reqs \ {q} : opener'[p] = opener[p] /\ client'[p] = client[p]
  BY Alone DEF Same
<1> USE Bounds
<1>3. CASE TakeSlot(q)
  <2> DEFINE c == client[q]
  <2>1. /\ c \in Regs /\ slots[c] < OpenSlots /\ slots' = [slots EXCEPT ![c] = @ + 1] /\ client' = client
        /\ opener[q] = "off" /\ opener'[q] = "open"
    BY <1>1, <1>3 DEF TakeSlot, Fits, StepFits, OpenerFits, OpeningPcs, ReqTypes
  <2>2. q \notin Openers(c) /\ Openers(c) \subseteq Reqs /\ Openers(c)' = Openers(c) \cup {q}
    BY <1>2, <2>1 DEF Openers
  <2>3. \A r \in Regs \ {c} : Openers(r)' = Openers(r)
    BY <1>2, <2>1 DEF Openers
  <2>4. Cardinality(Openers(c)') = slots[c] + 1
    BY <1>1, <2>1, <2>2, CountAdd
  <2> QED BY <1>1, <2>1, <2>3, <2>4 DEF CountTypes
<1>4. CASE ReturnSlot(q)
  <2> DEFINE c == client[q]
  <2>1. /\ c \in Regs /\ slots' = [slots EXCEPT ![c] = @ - 1] /\ client' = client
        /\ opener[q] = "exit" /\ opener'[q] = "gone"
    BY <1>1, <1>4 DEF ReturnSlot, Fits, OpenerFits, ReqTypes
  <2>2. q \in Openers(c) /\ Openers(c) \subseteq Reqs /\ Openers(c)' = Openers(c) \ {q}
    BY <1>2, <2>1 DEF Openers
  <2>3. \A r \in Regs \ {c} : Openers(r)' = Openers(r)
    BY <1>2, <2>1 DEF Openers
  <2>4. Cardinality(Openers(c)') = slots[c] - 1 /\ slots[c] >= 1
    BY <1>1, <2>1, <2>2, CountRemove
  <2> QED BY <1>1, <2>1, <2>3, <2>4 DEF CountTypes
<1>5. CASE slots' = slots /\ SlotSame(q)
  <2>1. \A r \in Regs : Openers(r)' = Openers(r)
    BY <1>2, <1>5 DEF Openers, SlotSame
  <2> QED BY <1>1, <1>5, <2>1 DEF CountTypes
<1> QED BY <1>3, <1>4, <1>5, CountersMove

\* serverMaxClientStreams bounds the handlers of each registration's streams.
LEMMA HandlersCount ==
  ASSUME IngressInv, NEW q \in Reqs, ExchangeStep(q)
  PROVE  dyn' \in [Regs -> 0..DynSlots] /\ \A r \in Regs : dyn'[r] = Cardinality(Handlers(r)')
<1>1. CountTypes /\ ReqTypes /\ Fits(q) /\ \A r \in Regs : dyn[r] = Cardinality(Handlers(r))
  BY DEF IngressInv, CountsExact
<1>2. \A p \in Reqs \ {q} : kind'[p] = kind[p] /\ pc'[p] = pc[p] /\ client'[p] = client[p]
  BY Alone DEF Same
<1> USE Bounds
<1>3. CASE \E r \in Regs : AcceptClientStream(r, q)
  <2> PICK c \in Regs : AcceptClientStream(c, q)
    BY <1>3
  <2>1. /\ kind[q] = "none" /\ kind'[q] = "dyn" /\ client'[q] = c
        /\ \/ dyn[c] < DynSlots /\ dyn' = [dyn EXCEPT ![c] = @ + 1] /\ pc'[q] = "command"
           \/ dyn' = dyn /\ pc'[q] = "done"
    BY <1>1 DEF AcceptClientStream, Fresh, Goto, Fits, StepFits, ReqTypes
  <2>2. q \notin Handlers(c) /\ Handlers(c) \subseteq Reqs
    BY <2>1 DEF Handlers
  <2>3. \A r \in Regs \ {c} : Handlers(r)' = Handlers(r)
    BY <1>2, <2>1 DEF Handlers
  <2>4. CASE dyn[c] < DynSlots /\ dyn' = [dyn EXCEPT ![c] = @ + 1] /\ pc'[q] = "command"
    <3>1. Handlers(c)' = Handlers(c) \cup {q}
      BY <1>2, <2>1, <2>4 DEF Handlers
    <3>2. Cardinality(Handlers(c)') = dyn[c] + 1
      BY <1>1, <2>2, <3>1, CountAdd
    <3> QED BY <1>1, <2>3, <2>4, <3>2 DEF CountTypes
  <2>5. CASE dyn' = dyn /\ pc'[q] = "done"
    <3>1. Handlers(c)' = Handlers(c)
      BY <1>2, <2>1, <2>5 DEF Handlers
    <3> QED BY <1>1, <2>3, <2>5, <3>1 DEF CountTypes
  <2> QED BY <2>1, <2>4, <2>5
<1>4. CASE ReturnClientSlot(q)
  <2> DEFINE c == client[q]
  <2>1. /\ c \in Regs /\ dyn' = [dyn EXCEPT ![c] = @ - 1] /\ client' = client /\ kind' = kind
        /\ kind[q] = "dyn" /\ pc[q] = "exit" /\ pc'[q] = "done"
    BY <1>1, <1>4 DEF ReturnClientSlot, Goto, Fits, StepFits, ClientPcs, ReqTypes
  <2>2. q \in Handlers(c) /\ Handlers(c) \subseteq Reqs /\ Handlers(c)' = Handlers(c) \ {q}
    BY <1>2, <2>1 DEF Handlers
  <2>3. \A r \in Regs \ {c} : Handlers(r)' = Handlers(r)
    BY <1>2, <2>1 DEF Handlers
  <2>4. Cardinality(Handlers(c)') = dyn[c] - 1 /\ dyn[c] >= 1
    BY ZenonT(60), <1>1, <2>1, <2>2, CountRemove
  <2> QED BY <1>1, <2>1, <2>3, <2>4 DEF CountTypes
<1>5. CASE dyn' = dyn /\ HandlerSame(q)
  <2>1. \A r \in Regs : Handlers(r)' = Handlers(r)
    BY <1>2, <1>5 DEF Handlers, HandlerSame, ClientPcs
  <2> QED BY <1>1, <1>5, <2>1 DEF CountTypes
<1> QED BY <1>3, <1>4, <1>5, CountersMove


\* http3Services.sessions counts the sessions that have not joined their streams.
LEMMA SessionsCount ==
  ASSUME IngressInv, NEW q \in Reqs, ExchangeStep(q)
  PROVE  web' \in 0..WebSlots /\ web' = Cardinality({p \in Reqs : pc'[p] \in SessionPcs})
<1> DEFINE S == {p \in Reqs : pc[p] \in SessionPcs}
           T == {p \in Reqs : pc'[p] \in SessionPcs}
<1> SUFFICES web' \in 0..WebSlots /\ web' = Cardinality(T)
  OBVIOUS
<1>1. CountTypes /\ ReqTypes /\ Fits(q) /\ web = Cardinality(S)
  BY DEF IngressInv, CountsExact
<1>2. \A p \in Reqs \ {q} : pc'[p] = pc[p]
  BY Alone DEF Same
<1>3. S \subseteq Reqs /\ (q \in S <=> pc[q] \in SessionPcs)
  OBVIOUS
<1> HIDE DEF S, T
<1>4. ASSUME web < WebSlots, web' = web + 1, pc[q] \notin SessionPcs, pc'[q] \in SessionPcs
      PROVE  web' \in 0..WebSlots /\ web' = Cardinality(T)
  <2>1. T = S \cup {q}
    BY <1>2, <1>4 DEF S, T
  <2>2. Cardinality(S \cup {q}) = Cardinality(S) + 1
    BY <1>3, <1>4, CountAdd
  <2> QED BY <1>1, <1>4, <2>1, <2>2, Bounds DEF CountTypes
<1>5. ASSUME web' = web - 1, pc[q] \in SessionPcs, pc'[q] \notin SessionPcs
      PROVE  web' \in 0..WebSlots /\ web' = Cardinality(T)
  <2>1. T = S \ {q}
    BY <1>2, <1>5 DEF S, T
  <2>2. Cardinality(S \ {q}) = Cardinality(S) - 1 /\ Cardinality(S) >= 1
    BY <1>3, <1>5, CountRemove
  <2> QED BY <1>1, <1>5, <2>1, <2>2, Bounds DEF CountTypes
<1>6. ASSUME web' = web, pc'[q] \in SessionPcs <=> pc[q] \in SessionPcs
      PROVE  web' \in 0..WebSlots /\ web' = Cardinality(T)
  <2>1. T = S
    BY <1>2, <1>6 DEF S, T
  <2> QED BY <1>1, <1>6, <2>1 DEF CountTypes
<1>7. CASE Admit(q)
  BY <1>1, <1>4, <1>6, <1>7 DEF Admit, Goto, ReqTypes, Fits, StepFits, SessionPcs
<1>8. CASE JoinSession(q)
  BY <1>1, <1>5, <1>8 DEF JoinSession, Goto, ReqTypes, Fits, StepFits, SessionPcs
<1>9. CASE web' = web /\ SessionSame(q)
  BY <1>6, <1>9 DEF SessionSame
<1> QED BY <1>7, <1>8, <1>9, CountersMove

\* http3Services.flows counts the flows that are dialled or relayed.
LEMMA FlowsCount ==
  ASSUME IngressInv, NEW q \in Reqs, ExchangeStep(q)
  PROVE  flows' \in 0..FlowSlots /\ flows' = Cardinality({p \in Reqs : pc'[p] \in FlowPcs})
<1> DEFINE S == {p \in Reqs : pc[p] \in FlowPcs}
           T == {p \in Reqs : pc'[p] \in FlowPcs}
<1> SUFFICES flows' \in 0..FlowSlots /\ flows' = Cardinality(T)
  OBVIOUS
<1>1. CountTypes /\ ReqTypes /\ Fits(q) /\ flows = Cardinality(S)
  BY DEF IngressInv, CountsExact
<1>2. \A p \in Reqs \ {q} : pc'[p] = pc[p]
  BY Alone DEF Same
<1>3. S \subseteq Reqs /\ (q \in S <=> pc[q] \in FlowPcs)
  OBVIOUS
<1> HIDE DEF S, T
<1>4. ASSUME flows < FlowSlots, flows' = flows + 1, pc[q] \notin FlowPcs, pc'[q] \in FlowPcs
      PROVE  flows' \in 0..FlowSlots /\ flows' = Cardinality(T)
  <2>1. T = S \cup {q}
    BY <1>2, <1>4 DEF S, T
  <2>2. Cardinality(S \cup {q}) = Cardinality(S) + 1
    BY <1>3, <1>4, CountAdd
  <2> QED BY <1>1, <1>4, <2>1, <2>2, Bounds DEF CountTypes
<1>5. ASSUME flows' = flows - 1, pc[q] \in FlowPcs, pc'[q] \notin FlowPcs
      PROVE  flows' \in 0..FlowSlots /\ flows' = Cardinality(T)
  <2>1. T = S \ {q}
    BY <1>2, <1>5 DEF S, T
  <2>2. Cardinality(S \ {q}) = Cardinality(S) - 1 /\ Cardinality(S) >= 1
    BY <1>3, <1>5, CountRemove
  <2> QED BY <1>1, <1>5, <2>1, <2>2, Bounds DEF CountTypes
<1>6. ASSUME flows' = flows, pc'[q] \in FlowPcs <=> pc[q] \in FlowPcs
      PROVE  flows' \in 0..FlowSlots /\ flows' = Cardinality(T)
  <2>1. T = S
    BY <1>2, <1>6 DEF S, T
  <2> QED BY <1>1, <1>6, <2>1 DEF CountTypes
<1>7. CASE FlowArrives(q)
  BY <1>1, <1>4, <1>6, <1>7 DEF FlowArrives, Fresh, Goto, ReqTypes, Fits, StepFits, FlowPcs
<1>8. CASE FlowDials(q)
  BY <1>1, <1>5, <1>6, <1>8 DEF FlowDials, Goto, ReqTypes, Fits, StepFits, FlowPcs
<1>9. CASE FlowEnds(q)
  BY <1>1, <1>5, <1>9 DEF FlowEnds, Goto, ReqTypes, Fits, StepFits, FlowPcs
<1>10. CASE flows' = flows /\ FlowSame(q)
  BY <1>6, <1>10 DEF FlowSame
<1> QED BY <1>7, <1>8, <1>9, <1>10, CountersMove

--------------------------------------------------------------------------------
(* Sessions and signalling.                                                  *)

\* An exchange that has begun keeps its kind and its session, and one that has
\* ended stays so.
LEMMA MovesOn ==
  ASSUME IngressInv, NEW q \in Reqs, RequestMoves(q) \/ SignalStep(q)
  PROVE  /\ pc[q] # "idle" /\ pc'[q] # "idle" /\ UNCHANGED <<kind, parent>>
         /\ pc[q] = "done" => pc'[q] = "done"
<1>1. ReqTypes /\ Fits(q)
  BY DEF IngressInv
<1> USE <1>1
<1>2. CASE GetRoute(q) \/ GetClient(q) \/ Deny(q) \/ Admit(q)
  BY <1>2 DEF GetRoute, GetClient, Deny, Admit, Goto, ReqTypes
<1>3. CASE ReadCarrier(q) \/ OpenSync(q) \/ TakeSlot(q) \/ Abandon(q)
  BY <1>3 DEF ReadCarrier, OpenSync, TakeSlot, Abandon, Finish, Goto, ReqTypes
<1>4. CASE Opened(q) \/ Receive(q) \/ Discard(q) \/ ReturnSlot(q)
  BY <1>4 DEF Opened, Receive, Discard, ReturnSlot, Finish, Goto, ReqTypes, Fits, OpenerFits
<1>5. CASE WriteHeader(q) \/ EndRelay(q) \/ VisitorGone(q) \/ SessionOver(q) \/ LeaveSession(q) \/ JoinSession(q)
  BY <1>5 DEF WriteHeader, EndRelay, VisitorGone, SessionOver, LeaveSession, JoinSession, Finish, Goto, ReqTypes
<1>6. CASE ClientCommand(q) \/ ReturnClientSlot(q) \/ FlowDials(q) \/ FlowEnds(q)
  BY <1>6 DEF ClientCommand, ReturnClientSlot, FlowDials, FlowEnds, Finish, Goto, ReqTypes
<1>7. CASE SignalStep(q)
  BY <1>7 DEF SignalStep, StoreSignal, UpgradeFails, RelaySignal, SendSignal, SentSignal, SignalReadFails,
              UnsetSignal, Goto, ReqTypes
<1> QED BY <1>2, <1>3, <1>4, <1>5, <1>6, <1>7 DEF RequestMoves

\* Where an exchange begins.
LEMMA ArrivesAt ==
  ASSUME ReqTypes, NEW q \in Reqs, ArrivalStep(q)
  PROVE  pc'[q] \in {"carrier", "command", "route", "dial", "upgrade", "done"}
<1>1. CASE \E r \in Regs : AcceptReverse(r, q) \/ AcceptClientStream(r, q)
  BY <1>1 DEF AcceptReverse, AcceptClientStream, Goto, ReqTypes
<1>2. CASE \E k \in Kinds, n \in Names : Arrive(q, k, n)
  BY <1>2 DEF Arrive, Goto, ReqTypes
<1>3. CASE \E p \in Reqs : AcceptStream(p, q) \/ FirstDatagram(p, q)
  BY <1>3 DEF AcceptStream, FirstDatagram, Spawn, Goto, ReqTypes
<1>4. CASE FlowArrives(q)
  BY <1>4 DEF FlowArrives, Goto, ReqTypes
<1>5. CASE \E i \in Ids : SignalArrives(q, i)
  BY <1>5 DEF SignalArrives, Goto, ReqTypes
<1> QED BY <1>1, <1>2, <1>3, <1>4, <1>5 DEF ArrivalStep

\* A session ends after its streams.
LEMMA ExchangeChildren ==
  ASSUME IngressInv, NEW q \in Reqs, ExchangeStep(q), NEW c \in Reqs
  PROVE  ChildWithin(c)'
<1>1. ReqTypes /\ Fits(q) /\ (\A d \in Reqs : ChildWithin(d))
  BY DEF IngressInv
<1>2. \A p \in Reqs \ {q} : pc'[p] = pc[p] /\ kind'[p] = kind[p] /\ parent'[p] = parent[p]
  BY Alone DEF Same
<1> USE Bounds
<1>3. CASE ArrivalStep(q)
  <2>1. pc[q] = "idle" /\ kind[q] = "none" /\ parent[q] = None
    BY <1>1, <1>3 DEF ArrivalStep, AcceptReverse, AcceptClientStream, Arrive, AcceptStream, FirstDatagram, Spawn,
                      FlowArrives, SignalArrives, Fresh, Fits, StepFits
  <2>2. \/ parent' = parent
        \/ \E p \in Reqs : pc[p] = "session" /\ parent' = [parent EXCEPT ![q] = p]
    BY <1>3 DEF ArrivalStep, AcceptReverse, AcceptClientStream, Arrive, AcceptStream, FirstDatagram, Spawn,
                FlowArrives, SignalArrives
  <2>3. pc'[q] # "idle"
    BY <1>1, <1>3, ArrivesAt
  <2>4. CASE c = q
    <3>1. CASE parent' = parent
      BY <2>1, <2>4, <3>1 DEF ChildWithin
    <3>2. ASSUME NEW p \in Reqs, pc[p] = "session", parent' = [parent EXCEPT ![q] = p] PROVE ChildWithin(c)'
      <4>1. p # q /\ kind[p] = "web"
        BY <2>1, <3>2 DEF IngressInv, Fits, StepFits, SessionPcs
      <4> QED BY <1>1, <1>2, <2>3, <2>4, <3>2, <4>1 DEF ChildWithin, SessionPcs, ReqTypes
    <3> QED BY <2>2, <3>1, <3>2
  <2>5. CASE c # q
    <3>1. parent[c] # None => parent[c] # q /\ parent[c] \in Reqs
      BY <1>1, <2>1, <2>5 DEF ChildWithin, ReqTypes
    <3> QED BY <1>1, <1>2, <2>5, <3>1 DEF ChildWithin
  <2> QED BY <2>4, <2>5
<1>4. CASE RequestMoves(q) \/ SignalStep(q)
  <2>1. /\ pc[q] # "idle" /\ pc'[q] # "idle" /\ kind' = kind /\ parent' = parent
        /\ pc[q] = "done" => pc'[q] = "done"
    BY <1>4, MovesOn
  <2>2. pc[q] \in SessionPcs => pc'[q] \in SessionPcs \/ (\A d \in Reqs : parent[d] = q => pc[d] = "done")
    <3>1. CASE Admit(q)
      BY <1>1, <3>1 DEF Admit, SessionPcs
    <3>2. CASE JoinSession(q)
      BY <3>2 DEF JoinSession, Children
    <3> QED BY <3>1, <3>2, CountersMove DEF SessionSame
  <2>3. parent[c] # None => parent[c] \in Reqs
    BY <1>1 DEF ReqTypes
  <2>4. pc'[c] # "idle" \/ pc[c] = "idle"
    BY <1>2, <2>1
  <2>5. pc'[c] # "done" => pc[c] # "done"
    BY <1>2, <2>1
  <2> QED BY <1>1, <1>2, <2>1, <2>2, <2>3, <2>4, <2>5 DEF ChildWithin
<1> QED BY <1>3, <1>4 DEF ExchangeStep

\* A step that has nothing to do with signalling leaves it as it is.
LEMMA SignalApart ==
  ASSUME IngressInv, NEW q \in Reqs, ArrivalStep(q) \/ RequestMoves(q)
  PROVE  /\ UNCHANGED <<signalConn, signalMu, peer>>
         /\ pc[q] \notin SignalPcs /\ pc'[q] \notin Connected
         /\ kind'[q] = "ws" => stream'[q] = "none"
<1>1. ReqTypes /\ Fits(q)
  BY DEF IngressInv
<1> USE <1>1
<1>2. CASE ArrivalStep(q)
  <2>1. UNCHANGED <<signalConn, signalMu, peer>>
    BY <1>2 DEF ArrivalStep, AcceptReverse, AcceptClientStream, Arrive, AcceptStream, FirstDatagram, Spawn,
                FlowArrives, SignalArrives, signalVars
  <2>2. pc[q] = "idle" /\ stream[q] = "none"
    BY <1>2 DEF ArrivalStep, AcceptReverse, AcceptClientStream, Arrive, AcceptStream, FirstDatagram, Spawn,
                FlowArrives, SignalArrives, Fresh, Fits, StepFits
  <2>3. pc'[q] \notin Connected
    BY <1>2, ArrivesAt DEF Connected
  <2>4. CASE \E r \in Regs : AcceptClientStream(r, q)
    BY <2>1, <2>2, <2>3, <2>4 DEF AcceptClientStream, ReqTypes, SignalPcs
  <2>5. CASE ~ \E r \in Regs : AcceptClientStream(r, q)
    <3>1. stream' = stream
      BY <1>2, <2>5 DEF ArrivalStep, AcceptReverse, Arrive, AcceptStream, FirstDatagram, Spawn, FlowArrives,
                        SignalArrives
    <3> QED BY <2>1, <2>2, <2>3, <3>1 DEF SignalPcs
  <2> QED BY <2>4, <2>5
<1>3. CASE RequestMoves(q)
  <2>1. UNCHANGED <<signalConn, signalMu, peer>>
    BY <1>3 DEF RequestMoves, GetRoute, GetClient, Deny, Admit, ReadCarrier, OpenSync, TakeSlot, Abandon, Opened,
                Receive, Discard, ReturnSlot, WriteHeader, EndRelay, VisitorGone, SessionOver, LeaveSession,
                JoinSession, ClientCommand, ReturnClientSlot, FlowDials, FlowEnds, signalVars
  <2>2. kind'[q] = kind[q]
    BY <1>3, MovesOn
  <2>3. kind[q] # "ws" /\ pc[q] \notin SignalPcs /\ pc'[q] \notin Connected
    <3>1. CASE GetRoute(q) \/ GetClient(q) \/ Deny(q) \/ Admit(q)
      BY <3>1 DEF GetRoute, GetClient, Deny, Admit, Goto, ReqTypes, Fits, StepFits, Visitors, SignalPcs, Connected
    <3>2. CASE ReadCarrier(q) \/ OpenSync(q) \/ TakeSlot(q) \/ Abandon(q)
      BY <3>2 DEF ReadCarrier, OpenSync, TakeSlot, Abandon, Finish, Goto, ReqTypes, Fits, StepFits, OpeningPcs,
                  SignalPcs, Connected
    <3>3. CASE Opened(q) \/ Receive(q) \/ Discard(q) \/ ReturnSlot(q)
      BY <3>3 DEF Opened, Receive, Discard, ReturnSlot, Finish, Goto, ReqTypes, Fits, OpenerFits, SignalPcs, Connected
    <3>4. CASE WriteHeader(q) \/ EndRelay(q) \/ VisitorGone(q)
      BY <3>4 DEF WriteHeader, EndRelay, VisitorGone, Finish, Goto, ReqTypes, Fits, StepFits, OpeningPcs, SignalPcs,
                  Connected
    <3>5. CASE SessionOver(q) \/ LeaveSession(q) \/ JoinSession(q)
      BY <3>5 DEF SessionOver, LeaveSession, JoinSession, Goto, ReqTypes, Fits, StepFits, SessionPcs, SignalPcs,
                  Connected
    <3>6. CASE ClientCommand(q) \/ ReturnClientSlot(q) \/ FlowDials(q) \/ FlowEnds(q)
      BY <3>6 DEF ClientCommand, ReturnClientSlot, FlowDials, FlowEnds, Finish, Goto, ReqTypes, Fits, StepFits,
                  FlowPcs, SignalPcs, Connected
    <3> QED BY <1>3, <3>1, <3>2, <3>3, <3>4, <3>5, <3>6 DEF RequestMoves
  <2> QED BY <2>1, <2>2, <2>3
<1> QED BY <1>2, <1>3

\* A registration's signalling connection and its mutex stay in step with the
\* exchanges that use them.
LEMMA ExchangeSignals ==
  ASSUME IngressInv, NEW q \in Reqs, ExchangeStep(q)
  PROVE  SignalLocked' /\ SignalConnExact'
<1>1. ReqTypes /\ SignalTypes
  BY DEF IngressInv
<1>2. \A p \in Reqs : p # q =>
        /\ pc'[p] = pc[p] /\ kind'[p] = kind[p] /\ client'[p] = client[p] /\ peer'[p] = peer[p]
        /\ stream'[p] = "open" => stream[p] = "open"
  BY Alone DEF Same
<1>10. SignalLocked
  BY DEF IngressInv
<1>11. SignalConnExact
  BY DEF IngressInv
<1>3. /\ \A p \in Reqs : client[p] \in Regs \cup {None} /\ peer[p] \in Regs \cup {None}
      /\ \A p \in Reqs : pc[p] \in SignalPcs => client[p] \in Regs /\ kind[p] = "ws"
      /\ \A p \in Reqs : pc[p] \in {"send", "write"} => peer[p] \in Regs
      /\ \A p \in Reqs : kind[p] = "ws" /\ stream[p] = "open" => client[p] \in Regs
      /\ \A r \in Regs : signalConn[r] \in Reqs \cup {None} /\ signalMu[r] \in Reqs \cup {None}
  BY DEF IngressInv, ReqTypes, SignalTypes, Fits, StepFits
<1> USE Bounds
<1>4. CASE ArrivalStep(q) \/ RequestMoves(q)
  <2>1. /\ UNCHANGED <<signalConn, signalMu, peer>>
        /\ pc[q] \notin SignalPcs /\ pc'[q] \notin Connected
        /\ kind'[q] = "ws" => stream'[q] = "none"
    BY <1>4, SignalApart
  <2>2. SignalLocked'
    BY <1>10, <1>2, <1>3, <2>1 DEF SignalLocked, SignalPcs, Connected
  <2>3. SignalConnExact'
    BY <1>11, <1>2, <1>3, <2>1 DEF SignalConnExact, SignalPcs, Connected
  <2> QED BY <2>2, <2>3
<1>5. CASE StoreSignal(q)
  <2> DEFINE c == client[q]
  <2>1. /\ pc[q] = "upgrade" /\ pc'[q] = "signal" /\ c \in Regs /\ signalMu[c] = None
        /\ signalConn' = [signalConn EXCEPT ![c] = q] /\ UNCHANGED <<signalMu, peer, client, kind>>
    BY <1>1, <1>3, <1>5 DEF StoreSignal, Goto, ReqTypes, SignalPcs
  <2>2. \A p \in Reqs \ {q} : p = signalConn[c] => stream'[p] = "closed"
    BY <1>5 DEF StoreSignal
  <2>3. SignalLocked'
    BY <1>10, <1>2, <1>3, <2>1 DEF SignalLocked
  <2>4. \A r \in Regs : signalConn'[r] = IF r = c THEN q ELSE signalConn[r]
    BY <1>1, <2>1 DEF SignalTypes
  <2>5. SignalConnExact'
    BY <1>11, <1>2, <1>3, <2>1, <2>2, <2>4 DEF SignalConnExact
  <2> QED BY <2>3, <2>5
<1>6. CASE UpgradeFails(q) \/ (\E i \in Ids : RelaySignal(q, i)) \/ SignalReadFails(q)
  <2>1. /\ pc[q] \in {"upgrade", "signal"} /\ (pc[q] = "upgrade" => pc'[q] = "done")
        /\ (pc[q] = "signal" => pc'[q] \in {"send", "unset"})
        /\ UNCHANGED <<signalConn, signalMu, client, kind, stream>>
    BY <1>1, <1>6 DEF UpgradeFails, RelaySignal, SignalReadFails, Goto, ReqTypes, signalVars
  <2>2. SignalLocked'
    BY <1>10, <1>2, <1>3, <2>1 DEF SignalLocked
  <2>3. SignalConnExact'
    BY <1>11, <1>2, <1>3, <2>1 DEF SignalConnExact
  <2> QED BY <2>2, <2>3
<1>7. CASE SendSignal(q)
  <2> DEFINE r == peer[q]
  <2>1. /\ pc[q] = "send" /\ r \in Regs /\ signalMu[r] = None
        /\ \/ pc'[q] = "signal" /\ signalMu' = signalMu
           \/ pc'[q] = "write" /\ signalConn[r] # None /\ signalMu' = [signalMu EXCEPT ![r] = q]
        /\ UNCHANGED <<signalConn, peer, client, kind, stream>>
    BY <1>1, <1>3, <1>7 DEF SendSignal, Goto, ReqTypes
  <2>2. SignalLocked'
    <3>1. CASE pc'[q] = "signal" /\ signalMu' = signalMu
      BY <1>10, <1>2, <1>3, <2>1, <3>1 DEF SignalLocked
    <3>2. CASE pc'[q] = "write" /\ signalMu' = [signalMu EXCEPT ![r] = q]
      <4>1. \A x \in Regs : signalMu'[x] = IF x = r THEN q ELSE signalMu[x]
        BY <1>1, <3>2 DEF SignalTypes
      <4> QED BY <1>10, <1>2, <1>3, <2>1, <3>2, <4>1 DEF SignalLocked
    <3> QED BY <2>1, <3>1, <3>2
  <2>3. SignalConnExact'
    BY <1>11, <1>2, <1>3, <2>1 DEF SignalConnExact
  <2> QED BY <2>2, <2>3
<1>8. CASE SentSignal(q)
  <2> DEFINE r == peer[q]
  <2>1. /\ pc[q] = "write" /\ r \in Regs /\ pc'[q] = "signal" /\ signalMu' = [signalMu EXCEPT ![r] = None]
        /\ UNCHANGED <<signalConn, peer, client, kind, stream>>
    BY <1>1, <1>3, <1>8 DEF SentSignal, Goto, ReqTypes
  <2>2. SignalLocked'
    <3>1. \A x \in Regs : signalMu'[x] = IF x = r THEN None ELSE signalMu[x]
      BY <1>1, <2>1 DEF SignalTypes
    <3> QED BY <1>10, <1>2, <1>3, <2>1, <3>1 DEF SignalLocked
  <2>3. SignalConnExact'
    BY <1>11, <1>2, <1>3, <2>1 DEF SignalConnExact
  <2> QED BY <2>2, <2>3
<1>9. CASE UnsetSignal(q)
  <2> DEFINE c == client[q]
  <2>1. /\ pc[q] = "unset" /\ pc'[q] = "done" /\ c \in Regs /\ signalMu[c] = None /\ stream'[q] = "closed"
        /\ signalConn' = [signalConn EXCEPT ![c] = IF @ = q THEN None ELSE @]
        /\ UNCHANGED <<signalMu, peer, client, kind>>
    BY <1>1, <1>3, <1>9 DEF UnsetSignal, CloseStream, Goto, ReqTypes, SignalPcs
  <2>2. SignalLocked'
    BY <1>10, <1>2, <1>3, <2>1 DEF SignalLocked
  <2>3. \A r \in Regs : signalConn'[r] = IF r = c /\ signalConn[c] = q THEN None ELSE signalConn[r]
    BY <1>1, <2>1 DEF SignalTypes
  <2>4. \A p \in Reqs : pc[p] = "write" => peer[p] # c
    BY <1>10, <1>3, <2>1 DEF SignalLocked
  <2>5. SignalConnExact'
    BY <1>11, <1>2, <1>3, <2>1, <2>3, <2>4 DEF SignalConnExact
  <2> QED BY <2>2, <2>5
<1> QED BY <1>4, <1>5, <1>6, <1>7, <1>8, <1>9 DEF ExchangeStep, SignalStep

--------------------------------------------------------------------------------
(* The theorems.                                                             *)

\* The invariant is inductive.
LEMMA IngressNext == IngressInv /\ [Next]_vars => IngressInv'
<1> SUFFICES ASSUME IngressInv, [Next]_vars PROVE IngressInv'
  OBVIOUS
<1>1. ASSUME NEW r \in Regs, RegStep(r) PROVE IngressInv'
  <2>1. UNCHANGED <<slotVars, signalVars, reqVars>>
    BY <1>1 DEF RegStep, RegStart, RegClean, RegRefuse, RegPutClient, RegPutRoute, Attach, CarrierLost, Forget,
                Forgotten
  <2>2. /\ RegTypes' /\ LisTypes' /\ StartedNamed' /\ EntriesOwn' /\ RoutesLead' /\ BindsLeft'
        /\ \A q \in Reqs : ResolvedOwner(q)'
    BY <1>1, RegTyped, RegKeeps
  <2>3. CountTypes' /\ SignalTypes' /\ ReqTypes'
    BY <2>1 DEF IngressInv, CountTypes, SignalTypes, ReqTypes, slotVars, signalVars, reqVars
  <2>4. ASSUME NEW q \in Reqs PROVE Fits(q)' /\ ChildWithin(q)'
    BY <2>1, <2>2 DEF IngressInv, Fits, StepFits, OpenerFits, ChildWithin, signalVars, reqVars
  <2>5. CountsExact'
    BY <2>1 DEF IngressInv, CountsExact, Openers, Handlers, slotVars, reqVars
  <2>6. SignalLocked' /\ SignalConnExact'
    BY <2>1 DEF IngressInv, SignalLocked, SignalConnExact, signalVars, reqVars
  <2> QED BY <2>2, <2>3, <2>4, <2>5, <2>6 DEF IngressInv
<1>2. ASSUME NEW r \in Regs, PortStep(r) PROVE IngressInv'
  <2>1. LisTypes' /\ BindsLeft' /\ UNCHANGED <<regVars, slotVars, signalVars, reqVars>>
    BY <1>2, PortKeeps
  <2>2. RegTypes' /\ CountTypes' /\ SignalTypes' /\ ReqTypes'
    BY <2>1 DEF IngressInv, RegTypes, CountTypes, SignalTypes, ReqTypes, regVars, slotVars, signalVars, reqVars
  <2>3. StartedNamed' /\ EntriesOwn' /\ RoutesLead'
    BY <2>1 DEF IngressInv, StartedNamed, EntriesOwn, RoutesLead, regVars
  <2>4. ASSUME NEW q \in Reqs PROVE Fits(q)' /\ ChildWithin(q)'
    BY <2>1 DEF IngressInv, Fits, ResolvedOwner, RoutedId, StepFits, OpenerFits, ChildWithin, regVars, signalVars,
                reqVars
  <2>5. CountsExact'
    BY <2>1 DEF IngressInv, CountsExact, Openers, Handlers, slotVars, reqVars
  <2>6. SignalLocked' /\ SignalConnExact'
    BY <2>1 DEF IngressInv, SignalLocked, SignalConnExact, signalVars, reqVars
  <2> QED BY <2>1, <2>2, <2>3, <2>4, <2>5, <2>6 DEF IngressInv
<1>3. ASSUME NEW q \in Reqs, ExchangeStep(q) PROVE IngressInv'
  <2>1. UNCHANGED <<regVars, lisVars>>
    BY <1>3, Apart
  <2>2. RegTypes' /\ LisTypes'
    BY <2>1 DEF IngressInv, RegTypes, LisTypes, regVars, lisVars
  <2>3. StartedNamed' /\ EntriesOwn' /\ RoutesLead' /\ BindsLeft'
    BY <2>1 DEF IngressInv, StartedNamed, EntriesOwn, RoutesLead, BindsLeft, regVars, lisVars
  <2>4. ReqTypes' /\ SignalTypes'
    BY <1>3, ExchangeTyped
  <2>5. CountTypes' /\ CountsExact'
    BY <1>3, SlotsCount, HandlersCount, SessionsCount, FlowsCount DEF CountTypes, CountsExact
  <2>6. ASSUME NEW p \in Reqs PROVE Fits(p)'
    <3>1. CASE p = q
      BY <1>3, <3>1, ExchangeFits
    <3>2. CASE p # q
      <4>1. Same(p) /\ Fits(p) /\ UNCHANGED rid
        BY <1>3, <2>1, <3>2, Alone DEF IngressInv, regVars
      <4> QED BY <4>1 DEF Same, Fits, ResolvedOwner, RoutedId, StepFits, OpenerFits
    <3> QED BY <3>1, <3>2
  <2>7. \A c \in Reqs : ChildWithin(c)'
    BY <1>3, ExchangeChildren
  <2>8. SignalLocked' /\ SignalConnExact'
    BY <1>3, ExchangeSignals
  <2> QED BY <2>2, <2>3, <2>4, <2>5, <2>6, <2>7, <2>8 DEF IngressInv
<1>4. CASE UNCHANGED vars
  <2>1. RegTypes' /\ LisTypes' /\ CountTypes' /\ SignalTypes' /\ ReqTypes'
    BY <1>4 DEF IngressInv, RegTypes, LisTypes, CountTypes, SignalTypes, ReqTypes, vars, regVars, lisVars, slotVars,
                signalVars, reqVars
  <2>2. StartedNamed' /\ EntriesOwn' /\ RoutesLead' /\ BindsLeft'
    BY <1>4 DEF IngressInv, StartedNamed, EntriesOwn, RoutesLead, BindsLeft, vars, regVars, lisVars
  <2>3. ASSUME NEW q \in Reqs PROVE Fits(q)' /\ ChildWithin(q)'
    BY <1>4 DEF IngressInv, Fits, ResolvedOwner, RoutedId, StepFits, OpenerFits, ChildWithin, vars, regVars,
                signalVars, reqVars
  <2>4. CountsExact'
    BY <1>4 DEF IngressInv, CountsExact, Openers, Handlers, vars, slotVars, reqVars
  <2>5. SignalLocked' /\ SignalConnExact'
    BY <1>4 DEF IngressInv, SignalLocked, SignalConnExact, vars, signalVars, reqVars
  <2> QED BY <2>1, <2>2, <2>3, <2>4, <2>5 DEF IngressInv
<1> QED BY <1>1, <1>2, <1>3, <1>4, NextCases

\* The invariant holds throughout: whatever registrations come and go and
\* however exchanges interleave, each has what its step takes for granted.
THEOREM IngressInvariant == Spec => []IngressInv
  BY IngressInit, IngressNext, PTL DEF Spec

\* Every variable keeps its type, the counters within their capacities.
THEOREM TypeCorrect == Spec => []TypeOK
<1>1. IngressInv => TypeOK
  BY TypeParts DEF IngressInv
<1> QED BY <1>1, IngressInvariant, PTL

\* However the registries change between resolveServerTunnel's two reads, a
\* visitor is served by the client that owned the name when its route was read.
THEOREM OwnerServes == Spec => []ServedByOwner
<1>1. IngressInv => ServedByOwner
  BY DEF IngressInv, Fits, ResolvedOwner, StepFits, ServedByOwner, Visitors
<1> QED BY <1>1, IngressInvariant, PTL

\* The slots of openYamuxIngress, of client streams, of WebTransport sessions
\* and of MASQUE flows count exactly what holds one.
THEOREM SlotsCounted == Spec => []SlotsExact
<1>1. IngressInv => SlotsExact
  <2> SUFFICES ASSUME IngressInv PROVE SlotsExact
    OBVIOUS
  <2>1. \A q \in Reqs : Fits(q) /\ ChildWithin(q)
    BY DEF IngressInv
  <2>2. Sessions = {q \in Reqs : pc[q] \in SessionPcs}
    <3>1. \A q \in Reqs : pc[q] \in SessionPcs => kind[q] = "web"
      BY <2>1 DEF Fits, StepFits
    <3>2. \A q \in Reqs : (\E c \in Children(q) : pc[c] # "done") => pc[q] \in SessionPcs
      BY <2>1, Bounds DEF Children, ChildWithin
    <3> QED BY <3>1, <3>2 DEF Sessions, SessionPcs
  <2> QED BY <2>2 DEF IngressInv, CountsExact, SlotsExact, FlowPcs
<1> QED BY <1>1, IngressInvariant, PTL

\* A registration refers to the signalling connection stored last for as long
\* as it is read, and a signal is written only to a connection in place.
THEOREM SignalConnKept == Spec => []SignalConnExact
<1>1. IngressInv => SignalConnExact
  BY DEF IngressInv
<1> QED BY <1>1, IngressInvariant, PTL
================================================================================
