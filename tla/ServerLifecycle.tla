---------------------------- MODULE ServerLifecycle ----------------------------
(***************************************************************************)
(* The lifecycle of client registrations in the xrok server (cmd/server.go *)
(* and the carrier handlers it runs): registration and re-registration,    *)
(* attachment of mux (HTTP/2, WSS) and QUIC data connections, the reaper   *)
(* of unattached registrations, the inactivity monitor, the teardown that  *)
(* each of them runs, and the shutdown that cancels every client.          *)
(*                                                                         *)
(* A registration is one *serverClientInfo: a client that registers again  *)
(* gets a new one under the same client ID while goroutines of the old one *)
(* are still running.  Every goroutine of the server is a process here,    *)
(* and every critical section of the code is one step:                     *)
(*   - serverClientLifecycleMu: Register, Refuse, and the Forget step;     *)
(*   - attachMu: held from ClaimCheck to Publish; a single step elsewhere. *)
(* The state file is in ServerState.                                       *)
(***************************************************************************)
EXTENDS Integers, FiniteSets

CONSTANTS
  Ids,        \* client IDs
  Names,      \* subdomains; a client ID is one too (registrations without tunnels)
  Regs,       \* *serverClientInfo instances, one per registration or restored client
  MuxConns,   \* HTTP/2 and WSS carriers offered to the server
  QuicConns,  \* QUIC carriers offered to the server
  None,       \* nil
  Stoppable   \* whether the server may be told to shut down

Conns == MuxConns \cup QuicConns

ASSUME LifecycleAssumption ==
  /\ Ids \subseteq Names
  /\ None \notin Ids \cup Names \cup Regs \cup Conns
  /\ IsFiniteSet(Ids)
  /\ MuxConns \cap QuicConns = {}
  /\ Stoppable \in BOOLEAN

VARIABLES
  clients,    \* legacyClientRegistry: client ID -> registration
  routes,     \* legacyRouteRegistry: subdomain -> client ID of the owner
  rid,        \* UDID of each registration, None while it is unused
  tunnels,    \* names the registration asked for
  hasToken,   \* sessionToken # ""
  cancelled,  \* ctx.Err() # nil
  attached,   \* attached
  reaped,     \* reaped
  decOnce,    \* decrementOnce has run
  muxSession, \* muxSession
  quicConn,   \* quicConn
  counting,   \* the registration handler has yet to increment the gauge
  reaper,     \* reapUnattachedRegistration goroutine
  monitor,    \* monitorServerClientActivity goroutine
  owner,      \* registration a data connection authenticated for
  pc,         \* handler of each data connection
  open,       \* the data connection is up
  gauge,      \* srvActiveClients
  phase       \* shutdown: "up", channel closed, clients cancelled

registryVars == <<clients, routes>>
regVars == <<rid, tunnels, hasToken, cancelled, attached, reaped, decOnce>>
carrierVars == <<muxSession, quicConn>>
taskVars == <<counting, reaper, monitor>>
connVars == <<owner, pc, open>>
vars == <<registryVars, regVars, carrierVars, taskVars, connVars, gauge, phase>>

\* Stages of closeServerClientConnections, shared by everyone who runs it.
TeardownStages == {"forget", "closeMux", "cancel"}

ReaperStages  == {"off", "wait"} \cup TeardownStages
MonitorStages == {"off", "watch", "expire"} \cup TeardownStages
ConnStages    == {"idle", "claim", "publish", "serve", "releaseGone", "release",
                  "muxForget", "muxCancel", "muxStale", "done"} \cup TeardownStages

TypeOK ==
  /\ clients \in [Ids -> Regs \cup {None}]
  /\ routes \in [Names -> Ids \cup {None}]
  /\ rid \in [Regs -> Ids \cup {None}]
  /\ tunnels \in [Regs -> SUBSET Names]
  /\ hasToken \in [Regs -> BOOLEAN]
  /\ cancelled \in [Regs -> BOOLEAN]
  /\ attached \in [Regs -> BOOLEAN]
  /\ reaped \in [Regs -> BOOLEAN]
  /\ decOnce \in [Regs -> BOOLEAN]
  /\ muxSession \in [Regs -> MuxConns \cup {None}]
  /\ quicConn \in [Regs -> QuicConns \cup {None}]
  /\ counting \in [Regs -> BOOLEAN]
  /\ reaper \in [Regs -> ReaperStages]
  /\ monitor \in [Regs -> MonitorStages]
  /\ owner \in [Conns -> Regs \cup {None}]
  /\ pc \in [Conns -> ConnStages]
  /\ open \in [Conns -> BOOLEAN]
  /\ gauge \in Int
  /\ phase \in {"up", "stopping", "drained"}

\* loadServerState: every client of the state file is put back with neither
\* routes nor credential, with its own reaper and monitor, and is counted.
\* The server starts with any set of clients its last run may have saved.
Init ==
  /\ clients \in [Ids -> Regs \cup {None}]
  /\ \A i, j \in Ids : clients[i] = clients[j] => i = j \/ clients[i] = None
  /\ rid = [r \in Regs |-> IF \E i \in Ids : clients[i] = r
                           THEN CHOOSE i \in Ids : clients[i] = r ELSE None]
  /\ reaper = [r \in Regs |-> IF rid[r] = None THEN "off" ELSE "wait"]
  /\ monitor = [r \in Regs |-> IF rid[r] = None THEN "off" ELSE "watch"]
  /\ gauge = Cardinality({i \in Ids : clients[i] # None})
  /\ routes = [n \in Names |-> None]
  /\ tunnels = [r \in Regs |-> {}]
  /\ hasToken = [r \in Regs |-> FALSE]
  /\ cancelled = [r \in Regs |-> FALSE]
  /\ attached = [r \in Regs |-> FALSE]
  /\ reaped = [r \in Regs |-> FALSE]
  /\ decOnce = [r \in Regs |-> FALSE]
  /\ muxSession = [r \in Regs |-> None]
  /\ quicConn = [r \in Regs |-> None]
  /\ counting = [r \in Regs |-> FALSE]
  /\ owner = [c \in Conns |-> None]
  /\ pc = [c \in Conns |-> "idle"]
  /\ open = [c \in Conns |-> FALSE]
  /\ phase = "up"

--------------------------------------------------------------------------------
Used(r) == rid[r] # None

Registered(r) == Used(r) /\ clients[rid[r]] = r

RegisteredIds == {i \in Ids : clients[i] # None}

\* attachMu of r is held between the check and the publication of a claim.
AttachMuFree(r) == \A c \in Conns : ~(pc[c] = "publish" /\ owner[c] = r)

\* A session token names the registration that was handed it; restored
\* clients carry none, and a peer may present none.
ValidSessionToken(r, presented) == hasToken[r] /\ presented = r

\* RouteRegistry.DeleteOwned over the names of one registration.
RoutesWithout(ns, id) ==
  [n \in Names |-> IF n \in ns /\ routes[n] = id THEN None ELSE routes[n]]

\* The decrement is not guarded by decrementOnce.
MutantDecAlways(r) == gauge - 1

\* Effect of decrementOnce.Do(srvActiveClients.Dec) on the gauge.
GaugeAfterDec(r) == IF decOnce[r] THEN gauge ELSE gauge - 1

\* The handler of c returns.
Return(c) ==
  /\ pc' = [pc EXCEPT ![c] = "done"]
  /\ owner' = [owner EXCEPT ![c] = None]

--------------------------------------------------------------------------------
(* Registration: registerServerClientHandler.                              *)

\* Names a request registers: those it lists, or its ID when it lists none.
RequestedNames(id, ns) == IF ns = {} THEN {id} ELSE ns

\* A listed name routed to another client is refused.  The registration that
\* lists no tunnel takes its ID as subdomain without this check.
Conflict(ns, id) == \E n \in ns : routes[n] \notin {None, id}

\* Cleanup of the registration the client ID already has: its context is
\* cancelled, its mux session closed and its gauge share returned.
CleanedCancelled(id) == [r \in Regs |-> cancelled[r] \/ r = clients[id]]

CleanedDecOnce(id) == [r \in Regs |-> decOnce[r] \/ r = clients[id]]

CleanedOpen(id) ==
  [c \in Conns |-> open[c] /\ ~(clients[id] # None /\ muxSession[clients[id]] = c)]

CleanedRoutes(id) ==
  IF clients[id] = None THEN routes ELSE RoutesWithout(tunnels[clients[id]], id)

CleanedGauge(id) ==
  IF clients[id] = None THEN gauge ELSE GaugeAfterDec(clients[id])

\* The registration succeeds: everything the handler does before it releases
\* serverClientLifecycleMu, and the goroutines it starts.
Register(id, ns, r) ==
  /\ ~Used(r)
  /\ ~Conflict(ns, id)
  /\ LET names == RequestedNames(id, ns) IN
       /\ routes' = [n \in Names |-> IF n \in names THEN id ELSE CleanedRoutes(id)[n]]
       /\ tunnels' = [tunnels EXCEPT ![r] = names]
  /\ clients' = [clients EXCEPT ![id] = r]
  /\ rid' = [rid EXCEPT ![r] = id]
  /\ hasToken' = [hasToken EXCEPT ![r] = TRUE]
  /\ cancelled' = CleanedCancelled(id)
  /\ decOnce' = CleanedDecOnce(id)
  /\ open' = CleanedOpen(id)
  /\ gauge' = CleanedGauge(id)
  /\ counting' = [counting EXCEPT ![r] = TRUE]
  /\ reaper' = [reaper EXCEPT ![r] = "wait"]
  /\ monitor' = [monitor EXCEPT ![r] = "watch"]
  /\ UNCHANGED <<attached, reaped, carrierVars, owner, pc, phase>>

\* A name is in use: 409, after the old registration was already cleaned up.
Refuse(id, ns) ==
  /\ Conflict(ns, id)
  /\ clients' = [clients EXCEPT ![id] = None]
  /\ routes' = CleanedRoutes(id)
  /\ cancelled' = CleanedCancelled(id)
  /\ decOnce' = CleanedDecOnce(id)
  /\ open' = CleanedOpen(id)
  /\ gauge' = CleanedGauge(id)
  /\ UNCHANGED <<rid, tunnels, hasToken, attached, reaped, carrierVars, taskVars,
                 owner, pc, phase>>

\* The rest of the handler: the save (ServerState), srvActiveClients.Inc and
\* the response that carries the session token.
HandlerCount(r) ==
  /\ counting[r]
  /\ counting' = [counting EXCEPT ![r] = FALSE]
  /\ gauge' = gauge + 1
  /\ UNCHANGED <<registryVars, regVars, carrierVars, reaper, monitor, connVars, phase>>

--------------------------------------------------------------------------------
(* Teardown of a registration: closeServerClientConnections.               *)

\* A late teardown removes the entry of its client ID whoever owns it.
MutantForgetAny(r) ==
  IF Used(r)
  THEN /\ clients' = [clients EXCEPT ![rid[r]] = None]
       /\ routes' = RoutesWithout(tunnels[r], rid[r])
  ELSE UNCHANGED registryVars

\* forgetServerClient: only the registration that still owns its ID removes
\* the entry and the routes.
Forget(r) ==
  IF Registered(r)
  THEN /\ clients' = [clients EXCEPT ![rid[r]] = None]
       /\ routes' = RoutesWithout(tunnels[r], rid[r])
  ELSE UNCHANGED registryVars

\* Close and drop the published mux session.
CloseMux(r) ==
  /\ open' = [c \in Conns |-> open[c] /\ c # muxSession[r]]
  /\ muxSession' = [muxSession EXCEPT ![r] = None]

\* cancelFunc, and the deferred decrementOnce.
CancelAndCount(r) ==
  /\ cancelled' = [cancelled EXCEPT ![r] = TRUE]
  /\ decOnce' = [decOnce EXCEPT ![r] = TRUE]
  /\ gauge' = GaugeAfterDec(r)

NextTeardownStage(s) ==
  CASE s = "forget" -> "closeMux" [] s = "closeMux" -> "cancel" [] OTHER -> "off"

\* One step of closeServerClientConnections run at stage s for r; the caller
\* moves its own program counter to NextTeardownStage(s).
TeardownStep(r, s) ==
  \/ /\ s = "forget"
     /\ Forget(r)
     /\ UNCHANGED <<cancelled, decOnce, gauge, muxSession, open>>
  \/ /\ s = "closeMux"
     /\ CloseMux(r)
     /\ UNCHANGED <<registryVars, cancelled, decOnce, gauge>>
  \/ /\ s = "cancel"
     /\ CancelAndCount(r)
     /\ UNCHANGED <<registryVars, muxSession, open>>

\* reapUnattachedRegistration: the context ended first.
ReaperExit(r) ==
  /\ reaper[r] = "wait"
  /\ cancelled[r]
  /\ reaper' = [reaper EXCEPT ![r] = "off"]
  /\ UNCHANGED <<registryVars, regVars, carrierVars, counting, monitor, connVars,
                 gauge, phase>>

\* The reaper expires the registration but leaves it in the registry.
MutantReaperKeepsEntry(r) ==
  /\ reaper[r] = "wait"
  /\ AttachMuFree(r)
  /\ reaped' = [reaped EXCEPT ![r] = @ \/ ~attached[r]]
  /\ reaper' = [reaper EXCEPT ![r] = "off"]
  /\ UNCHANGED <<registryVars, rid, tunnels, hasToken, cancelled, attached, decOnce,
                 carrierVars, counting, monitor, connVars, gauge, phase>>

\* serverAttachTimeout fired: decide under attachMu.
ReaperFire(r) ==
  /\ reaper[r] = "wait"
  /\ AttachMuFree(r)
  /\ reaped' = [reaped EXCEPT ![r] = @ \/ ~attached[r]]
  /\ reaper' = [reaper EXCEPT ![r] = IF attached[r] THEN "off" ELSE "forget"]
  /\ UNCHANGED <<registryVars, rid, tunnels, hasToken, cancelled, attached, decOnce,
                 carrierVars, counting, monitor, connVars, gauge, phase>>

ReaperTeardown(r) ==
  /\ TeardownStep(r, reaper[r])
  /\ reaper' = [reaper EXCEPT ![r] = NextTeardownStage(@)]
  /\ UNCHANGED <<rid, tunnels, hasToken, attached, reaped, quicConn, counting,
                 monitor, owner, pc, phase>>

\* monitorServerClientActivity: the context ended.
MonitorExit(r) ==
  /\ monitor[r] = "watch"
  /\ cancelled[r]
  /\ monitor' = [monitor EXCEPT ![r] = "off"]
  /\ UNCHANGED <<registryVars, regVars, carrierVars, counting, reaper, connVars,
                 gauge, phase>>

MuxAlive(r) == muxSession[r] # None /\ open[muxSession[r]]

\* A tick found no live mux session and no recent activity.
MonitorTick(r) ==
  /\ monitor[r] = "watch"
  /\ ~MuxAlive(r)
  /\ monitor' = [monitor EXCEPT ![r] = "expire"]
  /\ UNCHANGED <<registryVars, regVars, carrierVars, counting, reaper, connVars,
                 gauge, phase>>

\* It cancels the context and leaves the teardown to a new goroutine.
MonitorExpire(r) ==
  /\ monitor[r] = "expire"
  /\ cancelled' = [cancelled EXCEPT ![r] = TRUE]
  /\ monitor' = [monitor EXCEPT ![r] = "forget"]
  /\ UNCHANGED <<registryVars, rid, tunnels, hasToken, attached, reaped, decOnce,
                 carrierVars, counting, reaper, connVars, gauge, phase>>

MonitorTeardown(r) ==
  /\ TeardownStep(r, monitor[r])
  /\ monitor' = [monitor EXCEPT ![r] = NextTeardownStage(@)]
  /\ UNCHANGED <<rid, tunnels, hasToken, attached, reaped, quicConn, counting,
                 reaper, owner, pc, phase>>

--------------------------------------------------------------------------------
(* Data connections: standardTunnelClient and serveServerMuxCarrier for    *)
(* HTTP/2 and WSS, handleQUICServerConnection for QUIC.                    *)

\* The peer names a client ID and presents a session token, which it has from
\* the response to its registration; a peer that is refused leaves no trace.
Authenticate(c, r, presented) ==
  /\ pc[c] = "idle"
  /\ Registered(r)
  /\ ~counting[r]
  /\ ValidSessionToken(r, presented)
  /\ owner' = [owner EXCEPT ![c] = r]
  /\ open' = [open EXCEPT ![c] = TRUE]
  /\ pc' = [pc EXCEPT ![c] = "claim"]
  /\ UNCHANGED <<registryVars, regVars, carrierVars, taskVars, gauge, phase>>

\* A cancelled context does not stop a claim.
MutantClaimCancelled(r) == ~reaped[r]

\* claimServerAttach accepts a registration that has not expired meanwhile.
Claimable(r) == ~reaped[r] /\ ~cancelled[r]

ClaimRefused(c) ==
  /\ pc[c] = "claim"
  /\ AttachMuFree(owner[c])
  /\ ~Claimable(owner[c])
  /\ Return(c)
  /\ open' = [open EXCEPT ![c] = FALSE]
  /\ UNCHANGED <<registryVars, regVars, carrierVars, taskVars, gauge, phase>>

\* The check passed; attachMu stays held until the connection is published.
ClaimCheck(c) ==
  /\ pc[c] = "claim"
  /\ AttachMuFree(owner[c])
  /\ Claimable(owner[c])
  /\ attached' = [attached EXCEPT ![owner[c]] = TRUE]
  /\ pc' = [pc EXCEPT ![c] = "publish"]
  /\ UNCHANGED <<registryVars, rid, tunnels, hasToken, cancelled, reaped, decOnce,
                 carrierVars, taskVars, owner, open, gauge, phase>>

\* The connection replaces the one of its kind, which the caller closes.
Published(c) == IF c \in MuxConns THEN muxSession[owner[c]] ELSE quicConn[owner[c]]

Publish(c) ==
  /\ pc[c] = "publish"
  /\ IF c \in MuxConns
     THEN /\ muxSession' = [muxSession EXCEPT ![owner[c]] = c]
          /\ UNCHANGED quicConn
     ELSE /\ quicConn' = [quicConn EXCEPT ![owner[c]] = c]
          /\ UNCHANGED muxSession
  /\ open' = [d \in Conns |-> open[d] /\ (d = Published(c) => d = c)]
  /\ pc' = [pc EXCEPT ![c] = "serve"]
  /\ UNCHANGED <<registryVars, regVars, taskVars, owner, gauge, phase>>

\* The peer or the network ends the connection.
PeerGone(c) ==
  /\ pc[c] \in {"claim", "publish", "serve"}
  /\ open[c]
  /\ open' = [open EXCEPT ![c] = FALSE]
  /\ UNCHANGED <<registryVars, regVars, carrierVars, taskVars, owner, pc, gauge, phase>>

\* A mux session has no watcher on the registration's context.
MutantNoWatcher(c) == FALSE /\ UNCHANGED vars

\* The watcher goroutine of a mux session: registration context done.
MuxWatch(c) ==
  /\ c \in MuxConns
  /\ pc[c] = "serve"
  /\ open[c]
  /\ cancelled[owner[c]]
  /\ open' = [open EXCEPT ![c] = FALSE]
  /\ UNCHANGED <<registryVars, regVars, carrierVars, taskVars, owner, pc, gauge, phase>>

\* releaseServerAttach: unpublish the session if it is still the current one
\* and expire the registration in the same critical section.
MuxRelease(c) ==
  /\ c \in MuxConns
  /\ pc[c] = "serve"
  /\ ~open[c]
  /\ AttachMuFree(owner[c])
  /\ IF muxSession[owner[c]] = c
     THEN /\ muxSession' = [muxSession EXCEPT ![owner[c]] = None]
          /\ reaped' = [reaped EXCEPT ![owner[c]] = TRUE]
          /\ pc' = [pc EXCEPT ![c] = "muxForget"]
          /\ UNCHANGED owner
     ELSE /\ Return(c)
          /\ UNCHANGED <<muxSession, reaped>>
  /\ UNCHANGED <<registryVars, rid, tunnels, hasToken, cancelled, attached, decOnce,
                 quicConn, taskVars, open, gauge, phase>>

MuxForget(c) ==
  /\ pc[c] = "muxForget"
  /\ Forget(owner[c])
  /\ pc' = [pc EXCEPT ![c] = IF Registered(owner[c]) THEN "muxCancel" ELSE "muxStale"]
  /\ UNCHANGED <<regVars, carrierVars, taskVars, owner, open, gauge, phase>>

\* The context is cancelled only by the session that removed the entry; the
\* gauge share is returned either way.
MuxCancel(c) ==
  /\ pc[c] \in {"muxCancel", "muxStale"}
  /\ cancelled' = [cancelled EXCEPT ![owner[c]] = @ \/ pc[c] = "muxCancel"]
  /\ decOnce' = [decOnce EXCEPT ![owner[c]] = TRUE]
  /\ gauge' = GaugeAfterDec(owner[c])
  /\ Return(c)
  /\ UNCHANGED <<registryVars, rid, tunnels, hasToken, attached, reaped, carrierVars,
                 taskVars, open, phase>>

\* The QUIC handler's select: the peer is gone, or the registration or the
\* server context is done.  Ready cases are picked at random.
QuicWake(c, gone) ==
  /\ c \in QuicConns
  /\ pc[c] = "serve"
  /\ IF gone THEN ~open[c] ELSE cancelled[owner[c]] \/ phase # "up"
  /\ open' = [open EXCEPT ![c] = FALSE]
  /\ pc' = [pc EXCEPT ![c] = IF gone THEN "releaseGone" ELSE "release"]
  /\ UNCHANGED <<registryVars, regVars, carrierVars, taskVars, owner, gauge, phase>>

\* A lost QUIC connection leaves its registration to the inactivity timeout.
MutantQuicKeepsRegistration(c) ==
  /\ pc[c] \in {"releaseGone", "release"}
  /\ AttachMuFree(owner[c])
  /\ quicConn' = [quicConn EXCEPT ![owner[c]] = IF @ = c THEN None ELSE @]
  /\ reaped' = [reaped EXCEPT ![owner[c]] = @ \/ quicConn[owner[c]] = c]
  /\ Return(c)
  /\ UNCHANGED <<registryVars, rid, tunnels, hasToken, cancelled, attached, decOnce,
                 muxSession, taskVars, open, gauge, phase>>

\* Only a peer that went away while its connection was current tears the
\* registration down.
QuicRelease(c) ==
  /\ pc[c] \in {"releaseGone", "release"}
  /\ AttachMuFree(owner[c])
  /\ LET current == quicConn[owner[c]] = c IN
       /\ quicConn' = [quicConn EXCEPT ![owner[c]] = IF current THEN None ELSE @]
       /\ reaped' = [reaped EXCEPT ![owner[c]] = @ \/ current]
       /\ IF current /\ pc[c] = "releaseGone"
          THEN pc' = [pc EXCEPT ![c] = "forget"] /\ UNCHANGED owner
          ELSE Return(c)
  /\ UNCHANGED <<registryVars, rid, tunnels, hasToken, cancelled, attached, decOnce,
                 muxSession, taskVars, open, gauge, phase>>

QuicTeardown(c) ==
  /\ TeardownStep(owner[c], pc[c])
  /\ IF pc[c] = "cancel"
     THEN Return(c)
     ELSE pc' = [pc EXCEPT ![c] = NextTeardownStage(@)] /\ UNCHANGED owner
  /\ UNCHANGED <<rid, tunnels, hasToken, attached, reaped, quicConn, taskVars,
                 phase>>

--------------------------------------------------------------------------------
(* Shutdown: runServerWithConfig.                                          *)

\* A signal or Shutdown closes the shutdown channel and so the server context.
CloseShutdown ==
  /\ Stoppable
  /\ phase = "up"
  /\ phase' = "stopping"
  /\ UNCHANGED <<registryVars, regVars, carrierVars, taskVars, connVars, gauge>>

\* The main goroutine cancels every client of one registry snapshot.
CancelClients ==
  /\ phase = "stopping"
  /\ phase' = "drained"
  /\ cancelled' = [r \in Regs |-> cancelled[r] \/ Registered(r)]
  /\ UNCHANGED <<registryVars, rid, tunnels, hasToken, attached, reaped, decOnce,
                 carrierVars, taskVars, connVars, gauge>>

--------------------------------------------------------------------------------
ReaperStep(r) == ReaperExit(r) \/ ReaperFire(r) \/ ReaperTeardown(r)

\* Steps of the monitor that do not depend on how much traffic there is.
MonitorRun(r) == MonitorExit(r) \/ MonitorExpire(r) \/ MonitorTeardown(r)

ConnStep(c) ==
  \/ ClaimRefused(c) \/ ClaimCheck(c) \/ Publish(c)
  \/ MuxWatch(c) \/ MuxRelease(c) \/ MuxForget(c) \/ MuxCancel(c)
  \/ QuicWake(c, TRUE) \/ QuicWake(c, FALSE) \/ QuicRelease(c) \/ QuicTeardown(c)

Next ==
  \/ \E id \in Ids, ns \in SUBSET Names, r \in Regs : Register(id, ns, r)
  \/ \E id \in Ids, ns \in SUBSET Names : Refuse(id, ns)
  \/ \E r \in Regs : HandlerCount(r) \/ ReaperStep(r) \/ MonitorTick(r) \/ MonitorRun(r)
  \/ \E c \in Conns, r \in Regs, p \in Regs \cup {None} : Authenticate(c, r, p)
  \/ \E c \in Conns : ConnStep(c) \/ PeerGone(c)
  \/ CloseShutdown \/ CancelClients

Spec == Init /\ [][Next]_vars

--------------------------------------------------------------------------------
(* Safety.                                                                 *)

\* claimServerAttach refuses the registration from now on.
Expired(r) == reaped[r] \/ cancelled[r]

\* Every route leads to a client that is registered and asked for that name:
\* no teardown (forgetServerClient), however late, and no refused or repeated
\* registration leaves a route behind that resolves to nobody.
RoutesLeadToRegistered ==
  \A n \in Names : routes[n] # None =>
    /\ clients[routes[n]] # None
    /\ n \in tunnels[clients[routes[n]]]

\* A registration that lost its registry entry is already marked as expired
\* (reaped or context cancelled), whichever of the reaper, the monitor, a lost
\* carrier or a re-registration removed it: claimServerAttach relies on this
\* to keep a late data connection from reviving it.
ForgottenIsExpired == \A r \in Regs : Used(r) /\ ~Registered(r) => Expired(r)

\* claimServerAttach never accepts a connection for a registration that no
\* longer owns its client ID, although the peer was authenticated earlier and
\* the two locks involved are different.
LateAttachRefused ==
  [][\A c \in Conns : pc[c] = "claim" /\ pc'[c] = "publish" => Registered(owner[c])]_vars

\* A client restored by loadServerState carries no session token, so no data
\* connection is ever published for it; it has to register again.
RestoredNeverServed ==
  \A r \in Regs : Used(r) /\ ~hasToken[r] => muxSession[r] = None /\ quicConn[r] = None

\* What the three invariants above rest on.  The registry files a registration
\* under its own client ID ...
EntriesKeepTheirId == \A i \in Ids : clients[i] # None => rid[clients[i]] = i

\* ... whoever is about to run forgetServerClient has expired the registration
\* before ...
TeardownsExpireFirst ==
  /\ \A r \in Regs : reaper[r] = "forget" \/ monitor[r] = "forget" => Expired(r)
  /\ \A c \in Conns : pc[c] \in {"muxForget", "forget"} => Expired(owner[c])

\* ... and a connection handler works for a registration that was handed a token.
HandlersHaveOwners ==
  \A c \in Conns : pc[c] \notin {"idle", "done"} =>
    owner[c] \in Regs /\ Used(owner[c]) /\ hasToken[owner[c]]

\* The inductive invariant of the specification: no interleaving of
\* registrations, attachments and teardowns (forgetServerClient under one
\* lock, claimServerAttach and releaseServerAttach under another) breaks it.
LifecycleInv ==
  /\ TypeOK
  /\ EntriesKeepTheirId
  /\ TeardownsExpireFirst
  /\ HandlersHaveOwners
  /\ RoutesLeadToRegistered
  /\ ForgottenIsExpired
  /\ RestoredNeverServed

InTeardown(s) == s \in TeardownStages

\* No handler or goroutine is between its registry change and its gauge change.
Settled ==
  /\ \A r \in Regs : /\ ~counting[r]
                     /\ ~InTeardown(reaper[r])
                     /\ ~InTeardown(monitor[r])
  /\ \A c \in Conns : /\ ~InTeardown(pc[c])
                      /\ pc[c] \notin {"muxForget", "muxCancel", "muxStale"}

\* Whenever every handler has finished its step, xrok_active_clients is the
\* number of registered clients: decrementOnce fires exactly once for each
\* counted registration, however many teardowns ran for it.
GaugeCountsRegistered == Settled => gauge = Cardinality(RegisteredIds)

--------------------------------------------------------------------------------
(* Fairness: the goroutines of the server are scheduled and the attach     *)
(* timer fires.  Nothing is assumed of clients, peers, traffic (and so of  *)
(* the inactivity timeout) or signals.                                     *)

Fairness ==
  /\ \A r \in Regs : WF_vars(HandlerCount(r)) /\ WF_vars(ReaperStep(r)) /\ WF_vars(MonitorRun(r))
  /\ \A c \in Conns : WF_vars(ConnStep(c))
  /\ WF_vars(CancelClients)

FairSpec == Spec /\ Fairness

\* A registration for which no data connection ever arrives gives its client
\* ID and subdomains back (reapUnattachedRegistration), restored ones too, unless
\* the server stops.
UnattachedIsReleased ==
  \A r \in Regs : Registered(r) ~> ~Registered(r) \/ attached[r] \/ phase # "up"

\* "Whatever ends the registration (replacement, reaper, inactivity, shutdown)
\* also ends its session, so the client notices and re-registers": a carrier of
\* a registration that was removed or cancelled is closed.
EndedRegistrationEndsCarrier ==
  \A c \in Conns :
    (pc[c] = "serve" /\ (~Registered(owner[c]) \/ cancelled[owner[c]])) ~> ~open[c]

\* Once its last carrier is lost the registration is released: its subdomains
\* do not stay with a client that cannot be reached, unless the server stops.
LostCarrierReleases ==
  \A r \in Regs :
    (Registered(r) /\ attached[r] /\ \A c \in Conns : owner[c] = r => ~open[c])
      ~> (~Registered(r) \/ phase # "up" \/ \E c \in Conns : owner[c] = r /\ open[c])

--------------------------------------------------------------------------------
(* A statement of the repository that the code does not keep.              *)

\* README.md: "Each tunnel gets a unique subdomain".  A route leaves its
\* owner only together with the owner's registration.  Not a property of any
\* configuration here: a registration without tunnels breaks it (see README).
SubdomainKeepsOwner ==
  [][\A n \in Names, i \in Ids :
       routes[n] = i /\ routes'[n] # i => clients'[i] # clients[i]]_vars

================================================================================
