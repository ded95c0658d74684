-------------------------------- MODULE Ingress --------------------------------
(***************************************************************************)
(* The server's stream openings (cmd/server.go, cmd/ingress_http2.go,      *)
(* cmd/webtransport.go): a visitor's request is resolved to a registration *)
(* by two separate registry reads, admitted, and given a stream on that    *)
(* registration's carrier; reverse listeners and WebTransport sessions     *)
(* open streams in the same way, and clients open streams of their own.    *)
(* MASQUE flows and the signalling WebSockets of P2P clients share the     *)
(* slots and the registrations.                                            *)
(* All of it races with registrations being replaced, carriers being lost  *)
(* and visitors going away.                                                *)
(*                                                                         *)
(* Every exchange is one member of Reqs, used once.  What happens to its   *)
(* bytes once the stream is open is the module StreamRelay; here a relay   *)
(* lasts until an end finishes or something it depends on is lost.         *)
(***************************************************************************)
EXTENDS Naturals, FiniteSets

CONSTANTS
  Ids,        \* client IDs
  Names,      \* subdomains; a client's ID is one of its own
  MaxReg,     \* registrations made, numbered in the order of their handlers
  MaxReq,     \* exchanges, numbered in the order they begin
  MaxWork,    \* what one behaviour begins altogether (see Work)
  Kinds,      \* kinds of exchange that arrive from outside
  OpenSlots,  \* capacity of ingressOpening (128)
  DynSlots,   \* serverMaxClientStreams
  WebSlots,   \* capacity of http3Services.sessions (32)
  FlowSlots,  \* capacity of http3Services.flows (128)
  WebStreams, \* streams of one WebTransport session (32)
  BindTries,  \* attempts to bind a reverse port while it is in use (51)
  None        \* nil

AllKinds == {"h1", "h2", "web", "rev", "dyn", "masque", "ws"}

Regs == 1..MaxReg
Reqs == 1..MaxReq

ASSUME IngressAssumption ==
  /\ Kinds \subseteq AllKinds
  /\ {OpenSlots, DynSlots, WebSlots, FlowSlots, WebStreams, BindTries} \subseteq Nat \ {0}
  /\ {MaxReg, MaxReq, MaxWork} \subseteq Nat
  /\ Names \subseteq Ids
  /\ None \notin Ids \cup Regs \cup Reqs

VARIABLES
  clients,   \* legacyClientRegistry: registration of each client ID
  routes,    \* legacyRouteRegistry: registration whose route a name carries
  rid,       \* client ID of each registration
  rname,     \* tunnel name of each registration
  rstage,    \* progress of each registration's handler and of its teardown
  cancelled, \* registrations whose context is done
  carrier,   \* carrier of each registration
  mu,        \* holder of serverClientLifecycleMu
  listener,  \* startReverseListener of each registration
  tries,     \* its failed binds
  port,      \* registration whose socket holds the reverse port
  slots,     \* ingressOpening: openings in flight, per registration
  dyn,       \* slots of client-initiated streams in use, per registration
  web,       \* http3Services.sessions in use
  flows,     \* http3Services.flows in use
  signalConn,\* p2pSignalConn of each registration
  signalMu,  \* holder of its p2pSignalMutex while a signal is written
  kind,      \* kind of each exchange
  pc,        \* step of each exchange's goroutine
  name,      \* subdomain a visitor asked for
  route,     \* route the request resolved to
  client,    \* registration the exchange is for
  parent,    \* WebTransport session of a stream
  peer,      \* registration a signal is sent to
  ctx,       \* the exchange's own context is done
  stream,    \* the server's end of the exchange's stream
  opener     \* goroutine of openYamuxIngress

regVars == <<clients, routes, rid, rname, rstage, cancelled, carrier, mu>>
lisVars == <<listener, tries, port>>
slotVars == <<slots, dyn, web, flows>>
signalVars == <<signalConn, signalMu, peer>>
reqVars == <<kind, pc, name, route, client, parent, ctx, stream, opener>>
vars == <<regVars, lisVars, slotVars, signalVars, reqVars>>

Carriers == {"mux", "quic"}
ReqPcs == {"idle", "route", "client", "check", "carrier", "slot", "ready", "sync",
           "header", "relay", "session", "join", "command", "exit", "dial", "flow",
           "upgrade", "signal", "send", "write", "unset", "done"}

TypeOK ==
  /\ clients \in [Ids -> Regs \cup {None}]
  /\ routes \in [Names -> Regs \cup {None}]
  /\ rid \in [Regs -> Ids \cup {None}] /\ rname \in [Regs -> Names \cup {None}]
  /\ rstage \in [Regs -> {"new", "clean", "check", "put", "live", "forget", "over"}]
  /\ cancelled \subseteq Regs
  /\ carrier \in [Regs -> {"none", "lost"} \cup Carriers]
  /\ mu \in Regs \cup {None}
  /\ listener \in [Regs -> {"off", "bind", "bound", "accept", "ended"}]
  /\ tries \in [Regs -> 0..BindTries]
  /\ port \in Regs \cup {None}
  /\ slots \in [Regs -> 0..OpenSlots] /\ dyn \in [Regs -> 0..DynSlots] /\ web \in 0..WebSlots
  /\ flows \in 0..FlowSlots
  /\ signalConn \in [Regs -> Reqs \cup {None}] /\ signalMu \in [Regs -> Reqs \cup {None}]
  /\ peer \in [Reqs -> Regs \cup {None}]
  /\ kind \in [Reqs -> AllKinds \cup {"webstream", "webudp", "none"}]
  /\ pc \in [Reqs -> ReqPcs]
  /\ name \in [Reqs -> Names \cup {None}]
  /\ route \in [Reqs -> Regs \cup {None}] /\ client \in [Reqs -> Regs \cup {None}]
  /\ parent \in [Reqs -> Reqs \cup {None}]
  /\ ctx \in [Reqs -> BOOLEAN]
  /\ stream \in [Reqs -> {"none", "open", "closed"}]
  /\ opener \in [Reqs -> {"off", "open", "offer", "fail", "exit", "gone"}]

Init ==
  /\ clients = [i \in Ids |-> None] /\ routes = [n \in Names |-> None]
  /\ rid = [r \in Regs |-> None] /\ rname = [r \in Regs |-> None]
  /\ rstage = [r \in Regs |-> "new"]
  /\ cancelled = {}
  /\ carrier = [r \in Regs |-> "none"]
  /\ mu = None
  /\ listener = [r \in Regs |-> "off"] /\ tries = [r \in Regs |-> 0]
  /\ port = None
  /\ slots = [r \in Regs |-> 0] /\ dyn = [r \in Regs |-> 0] /\ web = 0 /\ flows = 0
  /\ signalConn = [r \in Regs |-> None] /\ signalMu = [r \in Regs |-> None]
  /\ peer = [q \in Reqs |-> None]
  /\ kind = [q \in Reqs |-> "none"]
  /\ pc = [q \in Reqs |-> "idle"]
  /\ name = [q \in Reqs |-> None]
  /\ route = [q \in Reqs |-> None] /\ client = [q \in Reqs |-> None]
  /\ parent = [q \in Reqs |-> None]
  /\ ctx = [q \in Reqs |-> FALSE]
  /\ stream = [q \in Reqs |-> "none"]
  /\ opener = [q \in Reqs |-> "off"]

Goto(q, p) == pc' = [pc EXCEPT ![q] = p]

\* The bound on what one behaviour begins: registrations and exchanges weigh
\* 2, flows, which have nothing to do with a registration, 3, and reverse
\* listeners 1.
Work ==
  2 * Cardinality({r \in Regs : rstage[r] # "new"}) + Cardinality({r \in Regs : listener[r] # "off"})
  + 2 * Cardinality({q \in Reqs : pc[q] # "idle"}) + Cardinality({q \in Reqs : kind[q] = "masque"})

\* The next exchange to begin.
Fresh(q) ==
  /\ pc[q] = "idle" /\ \A p \in 1..(q - 1) : pc[p] # "idle"
  /\ Work + (IF kind'[q] = "masque" THEN 3 ELSE 2) <= MaxWork

--------------------------------------------------------------------------------
(* Registrations, as far as visitors see them.  The handler holds            *)
(* serverClientLifecycleMu, which no visitor takes, so every registry write  *)
(* is a step of its own.                                                     *)

OwnedBy(n, i) == routes[n] # None /\ rid[routes[n]] = i

\* DeleteOwned for the registration's tunnel.
DropRoutes(r) ==
  routes' = IF OwnedBy(rname[r], rid[r]) THEN [routes EXCEPT ![rname[r]] = None] ELSE routes

\* The existing registration of the ID loses its routes, context and session.
RegStart(r, i, n) ==
  /\ rstage[r] = "new" /\ \A p \in 1..(r - 1) : rstage[p] # "new"
  /\ Work + 2 <= MaxWork
  /\ mu = None
  /\ mu' = r
  /\ rid' = [rid EXCEPT ![r] = i] /\ rname' = [rname EXCEPT ![r] = n]
  /\ rstage' = [rstage EXCEPT ![r] = "clean"]
  /\ LET old == clients[i] IN
       IF old = None
         THEN UNCHANGED <<routes, cancelled, carrier>>
         ELSE /\ DropRoutes(old)
              /\ cancelled' = cancelled \cup {old}
              /\ carrier' = [carrier EXCEPT ![old] = IF @ = "mux" THEN "lost" ELSE @]
  /\ UNCHANGED <<clients, lisVars, signalVars, slotVars, reqVars>>

RegClean(r) ==
  /\ rstage[r] = "clean"
  /\ clients' = [clients EXCEPT ![rid[r]] = None]
  /\ rstage' = [rstage EXCEPT ![r] = "check"]
  /\ UNCHANGED <<routes, rid, rname, cancelled, carrier, mu, lisVars, signalVars, slotVars, reqVars>>

\* 409: the name is routed to another client.
RegRefuse(r) ==
  /\ rstage[r] = "check"
  /\ routes[rname[r]] # None /\ ~OwnedBy(rname[r], rid[r])
  /\ mu' = None
  /\ rstage' = [rstage EXCEPT ![r] = "over"]
  /\ cancelled' = cancelled \cup {r}
  /\ UNCHANGED <<clients, routes, rid, rname, carrier, lisVars, signalVars, slotVars, reqVars>>

RegPutClient(r) ==
  /\ rstage[r] = "check"
  /\ routes[rname[r]] = None \/ OwnedBy(rname[r], rid[r])
  /\ clients' = [clients EXCEPT ![rid[r]] = r]
  /\ rstage' = [rstage EXCEPT ![r] = "put"]
  /\ UNCHANGED <<routes, rid, rname, cancelled, carrier, mu, lisVars, signalVars, slotVars, reqVars>>

\* The route is published and the reverse listener, if asked for, started.
RegPutRoute(r, reverse) ==
  /\ rstage[r] = "put"
  /\ routes' = [routes EXCEPT ![rname[r]] = r]
  /\ mu' = None
  /\ rstage' = [rstage EXCEPT ![r] = "live"]
  /\ reverse => Work + 1 <= MaxWork
  /\ listener' = [listener EXCEPT ![r] = IF reverse THEN "bind" ELSE "off"]
  /\ UNCHANGED <<clients, rid, rname, cancelled, carrier, tries, port, slotVars, signalVars, reqVars>>

Attach(r, c) ==
  /\ rstage[r] = "live" /\ r \notin cancelled /\ carrier[r] = "none"
  /\ carrier' = [carrier EXCEPT ![r] = c]
  /\ UNCHANGED <<clients, routes, rid, rname, rstage, cancelled, mu, lisVars, signalVars, slotVars, reqVars>>

\* The connection to the client dies, or the watcher of its registration's
\* context closes it.
CarrierLost(r) ==
  /\ carrier[r] \in Carriers
  /\ carrier' = [carrier EXCEPT ![r] = "lost"]
  /\ UNCHANGED <<clients, routes, rid, rname, rstage, cancelled, mu, lisVars, signalVars, slotVars, reqVars>>

CancelEndsCarrier(r) == r \in cancelled /\ CarrierLost(r)

\* forgetServerClient of the session that was lost, in its two registries.
Forget(r) ==
  /\ rstage[r] = "live" /\ carrier[r] = "lost" /\ mu = None
  /\ clients[rid[r]] = r
  /\ mu' = r
  /\ DropRoutes(r)
  /\ rstage' = [rstage EXCEPT ![r] = "forget"]
  /\ UNCHANGED <<clients, rid, rname, cancelled, carrier, lisVars, signalVars, slotVars, reqVars>>

Forgotten(r) ==
  /\ rstage[r] = "forget"
  /\ clients' = [clients EXCEPT ![rid[r]] = None]
  /\ mu' = None
  /\ cancelled' = cancelled \cup {r}
  /\ rstage' = [rstage EXCEPT ![r] = "over"]
  /\ UNCHANGED <<routes, rid, rname, carrier, lisVars, signalVars, slotVars, reqVars>>

Registration ==
  \/ \E r \in Regs : \E i \in Ids, n \in Names : RegStart(r, i, n)
  \/ \E r \in Regs, c \in Carriers : Attach(r, c)
  \/ \E r \in Regs : RegClean(r) \/ RegRefuse(r) \/ RegPutClient(r) \/ (\E reverse \in BOOLEAN : RegPutRoute(r, reverse))
                     \/ CarrierLost(r) \/ Forget(r) \/ Forgotten(r)

--------------------------------------------------------------------------------
(* Reverse listeners: one remote port, which successive registrations share. *)

Listener(r, from, to) ==
  /\ listener[r] = from
  /\ listener' = [listener EXCEPT ![r] = to]
  /\ UNCHANGED <<regVars, slotVars, signalVars, reqVars>>

Bind(r) ==
  \/ /\ port = None
     /\ Listener(r, "bind", "bound") /\ port' = r /\ UNCHANGED tries
  \/ /\ port # None
     /\ Listener(r, "bind", IF tries[r] + 1 = BindTries THEN "ended" ELSE "bind")
     /\ tries' = [tries EXCEPT ![r] = @ + 1] /\ UNCHANGED port

\* The wait before the next attempt ends with the registration.
BindCancelled(r) ==
  /\ tries[r] > 0 /\ r \in cancelled
  /\ Listener(r, "bind", "ended") /\ UNCHANGED <<tries, port>>

\* The listener is listed and its context watched.
Watch(r) == Listener(r, "bound", "accept") /\ UNCHANGED <<tries, port>>

\* Mutant: only the loss of a carrier closes the listener.
MutantCloseAttached(r) ==
  /\ r \in cancelled /\ carrier[r] = "lost"
  /\ Listener(r, "accept", "ended") /\ port' = None /\ UNCHANGED tries

\* The socket closes, Accept fails and the accept loop returns.
CloseListener(r) ==
  /\ r \in cancelled
  /\ Listener(r, "accept", "ended") /\ port' = None /\ UNCHANGED tries

AcceptReverse(r, q) ==
  /\ "rev" \in Kinds
  /\ listener[r] = "accept"
  /\ kind' = [kind EXCEPT ![q] = "rev"] /\ Fresh(q)
  /\ client' = [client EXCEPT ![q] = r]
  /\ Goto(q, "carrier")
  /\ UNCHANGED <<regVars, lisVars, signalVars, slotVars, name, route, parent, ctx, stream, opener>>

Reverse ==
  \E r \in Regs : Bind(r) \/ BindCancelled(r) \/ Watch(r) \/ CloseListener(r)
                  \/ \E q \in Reqs : AcceptReverse(r, q)

--------------------------------------------------------------------------------
(* Requests of visitors: resolution and admission.                           *)

Arrive(q, k, n) ==
  /\ k \in Kinds \cap {"h1", "h2", "web"}
  /\ kind' = [kind EXCEPT ![q] = k] /\ Fresh(q)
  /\ name' = [name EXCEPT ![q] = n]
  /\ Goto(q, "route")
  /\ UNCHANGED <<regVars, lisVars, signalVars, slotVars, route, client, parent, ctx, stream, opener>>

GetRoute(q) ==
  /\ pc[q] = "route"
  /\ route' = [route EXCEPT ![q] = routes[name[q]]]
  /\ Goto(q, "client")
  /\ UNCHANGED <<regVars, lisVars, signalVars, slotVars, kind, name, client, parent, ctx, stream, opener>>

\* The client ID is the route's, or the subdomain itself where there is none.
RoutedId(q) == IF route[q] = None THEN name[q] ELSE rid[route[q]]

\* Mutant: the route is looked up again for the client.
MutantGetClientAgain(q) ==
  /\ pc[q] = "client"
  /\ client' = [client EXCEPT ![q] = IF routes[name[q]] = None THEN clients[name[q]]
                                                             ELSE clients[rid[routes[name[q]]]]]
  /\ Goto(q, IF client'[q] = None \/ (kind[q] = "web" /\ route[q] = None) THEN "done" ELSE "check")
  /\ UNCHANGED <<regVars, lisVars, signalVars, slotVars, kind, name, route, parent, ctx, stream, opener>>

\* A WebTransport session needs a route.
GetClient(q) ==
  /\ pc[q] = "client"
  /\ client' = [client EXCEPT ![q] = clients[RoutedId(q)]]
  /\ Goto(q, IF client'[q] = None \/ (kind[q] = "web" /\ route[q] = None) THEN "done" ELSE "check")
  /\ UNCHANGED <<regVars, lisVars, signalVars, slotVars, kind, name, route, parent, ctx, stream, opener>>

\* Capability, Basic Auth or origin refused; or no WebTransport session left.
Deny(q) ==
  /\ pc[q] = "check"
  /\ route[q] # None
  /\ Goto(q, "done")
  /\ UNCHANGED <<regVars, lisVars, signalVars, slotVars, kind, name, route, client, parent, ctx, stream, opener>>

Admit(q) ==
  /\ pc[q] = "check"
  /\ IF kind[q] = "web"
       THEN web < WebSlots /\ web' = web + 1 /\ Goto(q, "session")
       ELSE UNCHANGED web /\ Goto(q, "carrier")
  /\ UNCHANGED <<regVars, lisVars, signalVars, slots, dyn, flows, kind, name, route, client, parent, ctx, stream, opener>>

Resolution ==
  \E q \in Reqs : \/ \E k \in Kinds, n \in Names : Arrive(q, k, n)
                 \/ GetRoute(q) \/ GetClient(q) \/ Deny(q) \/ Admit(q)

--------------------------------------------------------------------------------
(* Opening a stream on the registration's carrier.                           *)

Alive(q) == carrier[client[q]] \in Carriers

\* The context an opening waits on: the request's, the session's or the
\* registration's.  Hijacked HTTP/1 connections and client streams have none.
Cancelled(q) ==
  \/ kind[q] \in {"h2", "web"} /\ ctx[q]
  \/ kind[q] \in {"webstream", "webudp"} /\ ctx[parent[q]]
  \/ kind[q] = "rev" /\ client[q] \in cancelled

\* The exchange ends; the datagram bridge takes its session down with it.
Finish(q) ==
  /\ Goto(q, IF kind[q] = "dyn" THEN "exit" ELSE "done")
  /\ ctx' = IF kind[q] = "webudp" THEN [ctx EXCEPT ![parent[q]] = TRUE] ELSE ctx

CloseStream(q) == stream' = [stream EXCEPT ![q] = "closed"]

ReadCarrier(q) ==
  /\ pc[q] = "carrier"
  /\ IF Alive(q)
       THEN /\ Goto(q, IF carrier[client[q]] = "mux" /\ kind[q] # "h1" THEN "slot" ELSE "sync")
            /\ UNCHANGED ctx
       ELSE Finish(q)
  /\ UNCHANGED <<regVars, lisVars, signalVars, slotVars, kind, name, route, client, parent, stream, opener>>

\* session.Open of a hijacked connection, OpenStreamSync of a QUIC carrier.
OpenSync(q) ==
  /\ pc[q] = "sync"
  /\ \/ Alive(q) /\ Goto(q, "header") /\ stream' = [stream EXCEPT ![q] = "open"] /\ UNCHANGED ctx
     \/ (~Alive(q) \/ Cancelled(q)) /\ Finish(q) /\ UNCHANGED stream
  /\ UNCHANGED <<regVars, lisVars, signalVars, slotVars, kind, name, route, client, parent, opener>>

\* A slot is taken and the opening runs in a goroutine, which cannot be stopped.
TakeSlot(q) ==
  /\ pc[q] = "slot"
  /\ slots[client[q]] < OpenSlots
  /\ slots' = [slots EXCEPT ![client[q]] = @ + 1]
  /\ opener' = [opener EXCEPT ![q] = "open"]
  /\ Goto(q, "ready")
  /\ UNCHANGED <<regVars, lisVars, signalVars, dyn, web, flows, kind, name, route, client, parent, ctx, stream>>

\* The wait for a slot, or for the opener, is abandoned.
Abandon(q) ==
  /\ pc[q] \in {"slot", "ready"} /\ Cancelled(q)
  /\ Finish(q)
  /\ UNCHANGED <<regVars, lisVars, signalVars, slotVars, kind, name, route, client, parent, stream, opener>>

Opened(q) ==
  /\ opener[q] = "open"
  /\ IF Alive(q)
       THEN opener' = [opener EXCEPT ![q] = "offer"] /\ stream' = [stream EXCEPT ![q] = "open"]
       ELSE opener' = [opener EXCEPT ![q] = "fail"] /\ UNCHANGED stream
  /\ UNCHANGED <<regVars, lisVars, signalVars, slotVars, kind, pc, name, route, client, parent, ctx>>

\* The result meets the waiter on the unbuffered channel.
Receive(q) ==
  /\ pc[q] = "ready" /\ opener[q] \in {"offer", "fail"}
  /\ opener' = [opener EXCEPT ![q] = "exit"]
  /\ IF opener[q] = "offer" /\ ~Cancelled(q)
       THEN Goto(q, "header") /\ UNCHANGED <<stream, ctx>>
       ELSE /\ Finish(q)
            /\ IF stream[q] = "open" THEN CloseStream(q) ELSE UNCHANGED stream
  /\ UNCHANGED <<regVars, lisVars, signalVars, slotVars, kind, name, route, client, parent>>

\* Mutant: the opener returns without closing what it opened.
MutantDiscardOpen(q) ==
  /\ opener[q] \in {"offer", "fail"} /\ Cancelled(q)
  /\ opener' = [opener EXCEPT ![q] = "exit"]
  /\ UNCHANGED <<regVars, lisVars, signalVars, slotVars, kind, pc, name, route, client, parent, ctx, stream>>

\* Mutant: it returns past the release of its slot.
MutantDiscardSlot(q) ==
  /\ opener[q] \in {"offer", "fail"} /\ Cancelled(q)
  /\ opener' = [opener EXCEPT ![q] = "gone"]
  /\ IF stream[q] = "open" THEN CloseStream(q) ELSE UNCHANGED stream
  /\ UNCHANGED <<regVars, lisVars, signalVars, slotVars, kind, pc, name, route, client, parent, ctx>>

\* Nobody waits any more: the opener closes what it opened.
Discard(q) ==
  /\ opener[q] \in {"offer", "fail"} /\ Cancelled(q)
  /\ opener' = [opener EXCEPT ![q] = "exit"]
  /\ IF stream[q] = "open" THEN CloseStream(q) ELSE UNCHANGED stream
  /\ UNCHANGED <<regVars, lisVars, signalVars, slotVars, kind, pc, name, route, client, parent, ctx>>

ReturnSlot(q) ==
  /\ opener[q] = "exit"
  /\ opener' = [opener EXCEPT ![q] = "gone"]
  /\ slots' = [slots EXCEPT ![client[q]] = @ - 1]
  /\ UNCHANGED <<regVars, lisVars, signalVars, dyn, web, flows, kind, pc, name, route, client, parent, ctx, stream>>

\* The routing header and the request's first bytes are written, or the write
\* fails (carrier lost, stream reset, write deadline) and the stream is closed.
WriteHeader(q) ==
  /\ pc[q] = "header"
  /\ \/ Alive(q) /\ Goto(q, "relay") /\ UNCHANGED <<stream, ctx>>
     \/ Finish(q) /\ CloseStream(q)
  /\ UNCHANGED <<regVars, lisVars, signalVars, slotVars, kind, name, route, client, parent, opener>>

EndRelay(q) ==
  /\ pc[q] = "relay"
  /\ Finish(q) /\ CloseStream(q)
  /\ UNCHANGED <<regVars, lisVars, signalVars, slotVars, kind, name, route, client, parent, opener>>

\* The visitor cancels its request; nothing looks at its context earlier.
VisitorGone(q) ==
  /\ kind[q] = "h2" /\ pc[q] \in {"slot", "ready", "sync", "header", "relay"} /\ ~ctx[q]
  /\ ctx' = [ctx EXCEPT ![q] = TRUE]
  /\ UNCHANGED <<regVars, lisVars, signalVars, slotVars, kind, pc, name, route, client, parent, stream, opener>>

Opening ==
  \E q \in Reqs : ReadCarrier(q) \/ OpenSync(q) \/ TakeSlot(q) \/ Abandon(q) \/ Opened(q)
                 \/ Receive(q) \/ Discard(q) \/ ReturnSlot(q) \/ WriteHeader(q)
                 \/ EndRelay(q) \/ VisitorGone(q)

--------------------------------------------------------------------------------
(* WebTransport sessions: streams and one datagram bridge under one context. *)

Children(q) == {c \in Reqs : parent[c] = q}

Spawn(q, c, k) ==
  /\ pc[q] = "session" /\ ~ctx[q]
  /\ kind' = [kind EXCEPT ![c] = k] /\ Fresh(c)
  /\ client' = [client EXCEPT ![c] = client[q]]
  /\ parent' = [parent EXCEPT ![c] = q]
  /\ Goto(c, "carrier")
  /\ UNCHANGED <<regVars, lisVars, signalVars, slotVars, name, route, ctx, stream, opener>>

AcceptStream(q, c) ==
  /\ Cardinality({d \in Children(q) : kind[d] = "webstream" /\ pc[d] # "done"}) < WebStreams
  /\ Spawn(q, c, "webstream")

\* The first datagram opens the UDP stream.
FirstDatagram(q, c) ==
  /\ \A d \in Children(q) : kind[d] # "webudp"
  /\ Spawn(q, c, "webudp")

\* The visitor leaves, the credential expires, the registration ends or a
\* datagram arrives where the tunnel allows none.
SessionOver(q) ==
  /\ pc[q] = "session" /\ ~ctx[q]
  /\ ctx' = [ctx EXCEPT ![q] = TRUE]
  /\ UNCHANGED <<regVars, lisVars, signalVars, slotVars, kind, pc, name, route, client, parent, stream, opener>>

LeaveSession(q) ==
  /\ pc[q] = "session" /\ ctx[q]
  /\ Goto(q, "join")
  /\ UNCHANGED <<regVars, lisVars, signalVars, slotVars, kind, name, route, client, parent, ctx, stream, opener>>

JoinSession(q) ==
  /\ pc[q] = "join"
  /\ \A c \in Children(q) : pc[c] = "done"
  /\ web' = web - 1
  /\ Goto(q, "done")
  /\ UNCHANGED <<regVars, lisVars, signalVars, slots, dyn, flows, kind, name, route, client, parent, ctx, stream, opener>>

WebTransport ==
  \E q \in Reqs : \/ \E c \in Reqs : AcceptStream(q, c) \/ FirstDatagram(q, c)
                 \/ SessionOver(q) \/ LeaveSession(q) \/ JoinSession(q)

--------------------------------------------------------------------------------
(* Streams opened by the client (SOCKS5, HTTP proxy, UDP).                   *)

\* A stream beyond the cap is closed without a handler.
AcceptClientStream(r, q) ==
  /\ "dyn" \in Kinds
  /\ carrier[r] = "mux"
  /\ kind' = [kind EXCEPT ![q] = "dyn"] /\ Fresh(q)
  /\ client' = [client EXCEPT ![q] = r]
  /\ IF dyn[r] < DynSlots
       THEN /\ dyn' = [dyn EXCEPT ![r] = @ + 1]
            /\ Goto(q, "command") /\ stream' = [stream EXCEPT ![q] = "open"]
       ELSE UNCHANGED dyn /\ Goto(q, "done") /\ CloseStream(q)
  /\ UNCHANGED <<regVars, lisVars, signalVars, slots, web, flows, name, route, parent, ctx, opener>>

\* The header is read and the target dialled, or either fails.
ClientCommand(q) ==
  /\ pc[q] = "command"
  /\ \/ Alive(q) /\ Goto(q, "relay") /\ UNCHANGED <<stream, ctx>>
     \/ Finish(q) /\ CloseStream(q)
  /\ UNCHANGED <<regVars, lisVars, signalVars, slotVars, kind, name, route, client, parent, opener>>

ReturnClientSlot(q) ==
  /\ pc[q] = "exit"
  /\ dyn' = [dyn EXCEPT ![client[q]] = @ - 1]
  /\ Goto(q, "done")
  /\ UNCHANGED <<regVars, lisVars, signalVars, slots, web, flows, kind, name, route, client, parent, ctx, stream, opener>>

ClientStreams ==
  \E q \in Reqs : \/ \E r \in Regs : AcceptClientStream(r, q)
                 \/ ClientCommand(q) \/ ReturnClientSlot(q)

--------------------------------------------------------------------------------
(* MASQUE flows.                                                             *)

\* A flow beyond the cap is answered with 429.
FlowArrives(q) ==
  /\ "masque" \in Kinds
  /\ kind' = [kind EXCEPT ![q] = "masque"] /\ Fresh(q)
  /\ IF flows < FlowSlots THEN flows' = flows + 1 /\ Goto(q, "dial") ELSE UNCHANGED flows /\ Goto(q, "done")
  /\ UNCHANGED <<regVars, lisVars, signalVars, slots, dyn, web, name, route, client, parent, ctx, stream, opener>>

\* The target is parsed and dialled; the flow then lasts until an end closes it
\* or the five minutes of its deadline are over.
FlowDials(q) ==
  /\ pc[q] = "dial"
  /\ \/ Goto(q, "flow") /\ stream' = [stream EXCEPT ![q] = "open"] /\ UNCHANGED flows
     \/ Goto(q, "done") /\ flows' = flows - 1 /\ UNCHANGED stream
  /\ UNCHANGED <<regVars, lisVars, signalVars, slots, dyn, web, kind, name, route, client, parent, ctx, opener>>

FlowEnds(q) ==
  /\ pc[q] = "flow"
  /\ Goto(q, "done") /\ CloseStream(q) /\ flows' = flows - 1
  /\ UNCHANGED <<regVars, lisVars, signalVars, slots, dyn, web, kind, name, route, client, parent, ctx, opener>>

Flows == \E q \in Reqs : FlowArrives(q) \/ FlowDials(q) \/ FlowEnds(q)

--------------------------------------------------------------------------------
(* Signalling WebSockets (/p2p/ws).                                          *)

SignalArrives(q, i) ==
  /\ "ws" \in Kinds
  /\ kind' = [kind EXCEPT ![q] = "ws"] /\ Fresh(q)
  /\ client' = [client EXCEPT ![q] = clients[i]]
  /\ Goto(q, IF clients[i] = None THEN "done" ELSE "upgrade")
  /\ UNCHANGED <<regVars, lisVars, signalVars, slotVars, name, route, parent, ctx, stream, opener>>

\* The connection replaces and closes the one its registration had.
StoreSignal(q) ==
  LET old == signalConn[client[q]] IN
  /\ pc[q] = "upgrade" /\ signalMu[client[q]] = None
  /\ signalConn' = [signalConn EXCEPT ![client[q]] = q]
  /\ stream' = [p \in Reqs |-> CASE p = q -> "open" [] p = old -> "closed" [] OTHER -> stream[p]]
  /\ Goto(q, "signal")
  /\ UNCHANGED <<regVars, lisVars, slotVars, signalMu, peer, kind, name, route, client, parent, ctx, opener>>

UpgradeFails(q) ==
  /\ pc[q] = "upgrade"
  /\ Goto(q, "done")
  /\ UNCHANGED <<regVars, lisVars, signalVars, slotVars, kind, name, route, client, parent, ctx, stream, opener>>

\* A signal was read, for the client i as it is registered now.
RelaySignal(q, i) ==
  /\ pc[q] = "signal" /\ stream[q] = "open" /\ clients[i] # None
  /\ peer' = [peer EXCEPT ![q] = clients[i]]
  /\ Goto(q, "send")
  /\ UNCHANGED <<regVars, lisVars, slotVars, signalConn, signalMu, kind, name, route, client, parent, ctx, stream, opener>>

\* It is written under the peer's mutex, if the peer is connected.
SendSignal(q) ==
  /\ pc[q] = "send" /\ signalMu[peer[q]] = None
  /\ IF signalConn[peer[q]] = None
       THEN Goto(q, "signal") /\ UNCHANGED signalMu
       ELSE Goto(q, "write") /\ signalMu' = [signalMu EXCEPT ![peer[q]] = q]
  /\ UNCHANGED <<regVars, lisVars, slotVars, signalConn, peer, kind, name, route, client, parent, ctx, stream, opener>>

\* WriteMessage returns; an error is logged.
SentSignal(q) ==
  /\ pc[q] = "write"
  /\ signalMu' = [signalMu EXCEPT ![peer[q]] = None]
  /\ Goto(q, "signal")
  /\ UNCHANGED <<regVars, lisVars, slotVars, signalConn, peer, kind, name, route, client, parent, ctx, stream, opener>>

\* ReadMessage fails: the client left, or another connection took over.
SignalReadFails(q) ==
  /\ pc[q] = "signal"
  /\ Goto(q, "unset")
  /\ UNCHANGED <<regVars, lisVars, signalVars, slotVars, kind, name, route, client, parent, ctx, stream, opener>>

\* Mutant: the reader clears the reference whatever it refers to.
MutantUnsetAny(q) ==
  /\ pc[q] = "unset" /\ signalMu[client[q]] = None
  /\ signalConn' = [signalConn EXCEPT ![client[q]] = None]
  /\ Goto(q, "done") /\ CloseStream(q)
  /\ UNCHANGED <<regVars, lisVars, slotVars, signalMu, peer, kind, name, route, client, parent, ctx, opener>>

UnsetSignal(q) ==
  /\ pc[q] = "unset" /\ signalMu[client[q]] = None
  /\ signalConn' = [signalConn EXCEPT ![client[q]] = IF @ = q THEN None ELSE @]
  /\ Goto(q, "done") /\ CloseStream(q)
  /\ UNCHANGED <<regVars, lisVars, slotVars, signalMu, peer, kind, name, route, client, parent, ctx, opener>>

Signalling ==
  \E q \in Reqs : \/ \E i \in Ids : SignalArrives(q, i) \/ RelaySignal(q, i)
                 \/ StoreSignal(q) \/ UpgradeFails(q) \/ SendSignal(q) \/ SentSignal(q)
                 \/ SignalReadFails(q) \/ UnsetSignal(q)

--------------------------------------------------------------------------------
Next ==
  \/ Registration \/ Reverse \/ Resolution \/ Opening \/ WebTransport \/ ClientStreams
  \/ Flows \/ Signalling

Spec == Init /\ [][Next]_vars

(* Fairness: a goroutine that can take a step does, the watchers of a context *)
(* fire, and a relay notices that its carrier or its context is gone.         *)
(* Nothing makes a visitor arrive, finish or leave, a client attach, or a     *)
(* carrier fail.                                                              *)
HandlerStep(r) == RegClean(r) \/ RegRefuse(r) \/ RegPutClient(r) \/ (\E reverse \in BOOLEAN : RegPutRoute(r, reverse)) \/ Forgotten(r)
ListenerStep(r) == Bind(r) \/ BindCancelled(r) \/ Watch(r) \/ CloseListener(r)
OpenerStep(q) == Opened(q) \/ Discard(q) \/ ReturnSlot(q)
EndedRelay(q) ==
  \/ pc[q] = "relay" /\ (Cancelled(q) \/ ~Alive(q)) /\ EndRelay(q)
  \/ pc[q] = "command" /\ ~Alive(q) /\ ClientCommand(q)
RequestStep(q) ==
  \/ GetRoute(q) \/ GetClient(q) \/ Deny(q) \/ Admit(q) \/ ReadCarrier(q) \/ OpenSync(q)
  \/ TakeSlot(q) \/ Abandon(q) \/ Receive(q) \/ WriteHeader(q) \/ EndedRelay(q)
  \/ SessionOver(q) \/ LeaveSession(q) \/ JoinSession(q) \/ ReturnClientSlot(q)

Fairness ==
  /\ \A r \in Regs : /\ WF_vars(HandlerStep(r)) /\ SF_vars(Forget(r))
                     /\ WF_vars(CancelEndsCarrier(r)) /\ WF_vars(ListenerStep(r))
  /\ \A q \in Reqs : SF_vars(RequestStep(q)) /\ WF_vars(OpenerStep(q))

FairSpec == Spec /\ Fairness

--------------------------------------------------------------------------------
(* Properties.                                                               *)

Openers(r) == {q \in Reqs : client[q] = r /\ opener[q] \notin {"off", "gone"}}
Handlers(r) == {q \in Reqs : kind[q] = "dyn" /\ client[q] = r /\ pc[q] \in {"command", "relay", "exit"}}
\* Sessions whose handler, or a goroutine of which, still runs.
Sessions ==
  {q \in Reqs : kind[q] = "web" /\ (pc[q] \in {"session", "join"} \/ \E c \in Children(q) : pc[c] # "done")}

\* The slots in use are exactly the goroutines that hold one, whichever way
\* their exchange ended: openYamuxIngress, the accept loop of client streams,
\* serveWebTransport and serveMASQUE neither leak a slot nor return it early,
\* and a session keeps its slot until the last of its goroutines has returned.
SlotsExact ==
  /\ \A r \in Regs : slots[r] = Cardinality(Openers(r)) /\ dyn[r] = Cardinality(Handlers(r))
  /\ web = Cardinality(Sessions)
  /\ flows = Cardinality({q \in Reqs : pc[q] \in {"dial", "flow"}})

\* However the registries change between resolveServerTunnel's two reads, a
\* visitor's stream is opened only on a registration of the client that owned
\* the name when the route was read, never on the name's next owner.
ServedByOwner ==
  \A q \in Reqs : (stream[q] # "none" /\ kind[q] \in {"h1", "h2"}) =>
    /\ client[q] # None
    /\ rid[client[q]] = RoutedId(q)

\* A registration refers to the signalling connection that was stored last for
\* as long as that one is read: the reader it replaced, which is still relaying
\* or cleaning up, neither clears the reference nor leaves a second connection
\* open, and a signal is written only while the peer's connection is in place.
SignalConnExact ==
  /\ \A r \in Regs : signalConn[r] # None =>
       client[signalConn[r]] = r /\ pc[signalConn[r]] \in {"signal", "send", "write", "unset"}
  /\ \A q \in Reqs :
       /\ (kind[q] = "ws" /\ stream[q] = "open") => signalConn[client[q]] = q
       /\ pc[q] = "write" => signalConn[peer[q]] # None

\* A stream is not left behind by the exchange it was opened for, also when
\* session.Open answers after the request was cancelled.
LateStreamClosed ==
  \A q \in Reqs : (pc[q] = "done") ~> (stream[q] # "open" /\ opener[q] \in {"off", "gone"})

Drained(r) ==
  /\ slots[r] = 0 /\ dyn[r] = 0 /\ port # r
  /\ \A q \in Reqs : (client[q] = r /\ kind[q] # "ws") => stream[q] # "open"

\* Once a registration's context is cancelled, its reverse port, its slots and
\* every stream of its carrier are given back for good, whatever requests still
\* hold a pointer to it.  (Its signalling WebSocket is not: the server leaves it
\* open until the client closes it.)
RegistrationDrains == \A r \in Regs : (r \in cancelled) ~> []Drained(r)
================================================================================
