--------------------------- MODULE ClientConnection ---------------------------
(***************************************************************************)
(* The client's connection manager: runWithReconnect registers, starts one *)
(* session goroutine per registration, waits for its disconnect signal or  *)
(* for the end of the program, and starts again.  The session goroutine    *)
(* picks a carrier (connectAutoWithDisconnect tries QUIC, HTTP/2 and WSS   *)
(* in turn, the last two through an upstream proxy if one is configured),  *)
(* publishes it in clientState, serves it and takes it down; its deferred  *)
(* calls run in the order clear, close, signal.  RunClient waits for the   *)
(* manager and for the local listener, closes the published QUIC           *)
(* connection and exits.                                                   *)
(*                                                                         *)
(* Sessions are numbered by successful registrations.  The server is the   *)
(* last token it issued and the one it still holds a registration for.     *)
(***************************************************************************)
EXTENDS Naturals, FiniteSets

CONSTANTS
  MaxSess,     \* sessions
  MaxToken,    \* registrations the server makes
  MaxTries,    \* attempts in one registerClient (3)
  Configs,     \* the combinations of flags considered
  Advertised   \* the sets of transports a server may advertise

Modes == {"quic", "http2", "wss"}
Transports == Modes \cup {"auto"}

Listeners == {"folder", "proxy", "socks", "udp"}

\* proxy: an upstream HTTP proxy is configured; local: the listener that runs
\* beside the manager; max: --max-retries, 0 for unlimited.
AllFlags(maxima) ==
  [transport : Transports, proxy : BOOLEAN, local : Listeners \cup {"none"}, reconnect : BOOLEAN, max : maxima]

\* A proxy and client-initiated streams require a TCP carrier.
RequiresTCP(c) == c.proxy \/ c.local \in {"proxy", "socks", "udp"}

\* RunClient refuses --transport quic where a TCP carrier is required.
Flags(maxima) == {c \in AllFlags(maxima) : ~(c.transport = "quic" /\ RequiresTCP(c))}

ASSUME ClientAssumption ==
  /\ MaxSess \in Nat /\ MaxToken \in Nat /\ MaxTries \in Nat \ {0}
  /\ Advertised \subseteq SUBSET Modes
  /\ Configs \subseteq Flags({c.max : c \in Configs}) /\ \A c \in Configs : c.max \in Nat

VARIABLES
  conf,       \* the client's flags
  cancelled,  \* the root context has ended
  mgr,        \* where runWithReconnect stands
  local,      \* the local listener: "run", "ended"
  tries,      \* attempts made in the current registerClient
  attempt,    \* reconnect attempts since the last success
  cur,        \* the current session, 0 before the first
  token, adv, \* state.SessionToken and state.SupportedTransports
  issued, srv,\* last token the server issued, and the one it still knows
  pc,         \* where each session goroutine stands
  mode,       \* the transport it dials or uses
  left,       \* transports still to try
  conn,       \* the carrier: "none", "dialling", "socket", "open", "closed"
  cred,       \* the token it was dialled with
  deadline,   \* the deadline dialRoute put on its socket: "none", "set", "past"
  armed,      \* sessions whose handshakeCancellation is registered
  stopped,    \* sessions whose context was cancelled
  signal,     \* sessions with a signal in their channel
  muxRef, quicRef  \* state.MuxSession and state.QUICConn, 0 for nil

mgrVars == <<mgr, tries, attempt, cur, token, adv>>
routeVars == <<deadline, armed>>
sessVars == <<pc, mode, left, conn, cred, routeVars, stopped, signal>>
vars == <<conf, cancelled, local, mgrVars, issued, srv, sessVars, muxRef, quicRef>>

Sess == 1..MaxSess

Phases == {"top", "register", "refused", "backoff", "launch", "wait", "returned", "exit"}
Steps == {"off", "select", "route", "arm", "connect", "release", "dial", "open", "serve", "clear", "close", "signal", "end"}

TypeOK ==
  /\ conf \in Configs
  /\ cancelled \in BOOLEAN /\ mgr \in Phases /\ local \in {"run", "ended"}
  /\ tries \in 0..MaxTries /\ attempt \in Nat /\ cur \in 0..MaxSess
  /\ token \in 0..MaxToken /\ issued \in 0..MaxToken /\ srv \in 0..MaxToken /\ adv \subseteq Modes
  /\ pc \in [Sess -> Steps] /\ mode \in [Sess -> Modes]
  /\ left \in [Sess -> SUBSET Modes]
  /\ conn \in [Sess -> {"none", "dialling", "socket", "open", "closed"}] /\ cred \in [Sess -> 0..MaxToken]
  /\ deadline \in [Sess -> {"none", "set", "past"}] /\ armed \subseteq Sess
  /\ stopped \subseteq Sess /\ signal \subseteq Sess
  /\ muxRef \in 0..MaxSess /\ quicRef \in 0..MaxSess

Init ==
  /\ conf \in Configs
  /\ cancelled = FALSE
  /\ local = IF conf.local = "none" THEN "ended" ELSE "run"
  /\ mgr = "top" /\ tries = 0 /\ attempt = 0 /\ cur = 0
  /\ token = 0 /\ adv = {} /\ issued = 0 /\ srv = 0
  /\ pc = [n \in Sess |-> "off"] /\ mode = [n \in Sess |-> "quic"]
  /\ left = [n \in Sess |-> {}]
  /\ conn = [n \in Sess |-> "none"] /\ cred = [n \in Sess |-> 0]
  /\ deadline = [n \in Sess |-> "none"] /\ armed = {}
  /\ stopped = {} /\ signal = {}
  /\ muxRef = 0 /\ quicRef = 0

Alive == mgr # "exit"
\* A session's context ends with its own cancellation or the program's.
Done(n) == cancelled \/ n \in stopped

--------------------------------------------------------------------------------
(* The manager.                                                              *)

\* Mutant: the manager does not look at its context.
MutantCtxIgnored == FALSE

CtxDone == cancelled

\* Only the comparison with MaxRetries depends on the number of attempts.
Counted == IF conf.max > 0 THEN attempt + 1 ELSE 0

LoopTop ==
  /\ mgr = "top"
  /\ mgr' = IF CtxDone \/ (conf.max > 0 /\ attempt >= conf.max) THEN "returned" ELSE "register"
  /\ tries' = 0
  /\ UNCHANGED <<conf, cancelled, local, attempt, cur, token, adv, issued, srv, sessVars, muxRef, quicRef>>

\* The transports a session may try: selectAutoCarrier skips QUIC for a client
\* that opens streams and what the server does not advertise; a QUIC client
\* does not look at the advertised ones.
Permitted(a) ==
  CASE conf.transport = "auto" -> IF RequiresTCP(conf) THEN a \ {"quic"} ELSE a
    [] conf.transport = "quic" -> {"quic"}
    [] OTHER -> {conf.transport} \cap a

\* Registered: the session goroutine of the new registration starts.
RegisterOk ==
  /\ mgr = "register" /\ ~cancelled /\ issued < MaxToken /\ cur < MaxSess
  /\ issued' = issued + 1 /\ srv' = issued' /\ token' = issued'
  /\ adv' \in Advertised
  /\ mgr' = "launch" /\ attempt' = 0 /\ cur' = cur + 1
  /\ pc' = [pc EXCEPT ![cur'] = "select"]
  /\ left' = [left EXCEPT ![cur'] = Permitted(adv')]
  /\ UNCHANGED <<conf, cancelled, local, tries, mode, conn, cred, routeVars, stopped, signal, muxRef, quicRef>>

\* Attempts are spaced by waits that end early with the context.
NextTry ==
  IF tries + 1 = MaxTries \/ CtxDone
    THEN mgr' = "refused" /\ UNCHANGED tries
    ELSE tries' = tries + 1 /\ UNCHANGED mgr

\* No answer, an answer that cannot be read, a conflict or a server error; the
\* server may have registered the client all the same.
RegisterFails ==
  /\ mgr = "register"
  /\ \/ UNCHANGED <<issued, srv>>
     \/ ~cancelled /\ issued < MaxToken /\ issued' = issued + 1 /\ srv' = issued'
  /\ NextTry
  /\ UNCHANGED <<conf, cancelled, local, attempt, cur, token, adv, sessVars, muxRef, quicRef>>

\* An answer without a client port: its credentials are kept all the same.
RegisterNoPort ==
  /\ mgr = "register" /\ ~cancelled /\ issued < MaxToken
  /\ issued' = issued + 1 /\ srv' = issued' /\ token' = issued'
  /\ adv' \in Advertised
  /\ NextTry
  /\ UNCHANGED <<conf, cancelled, local, attempt, cur, sessVars, muxRef, quicRef>>

\* 400, 401 and 403 end the program.
RegisterRejected ==
  /\ mgr = "register" /\ ~cancelled
  /\ mgr' = "exit"
  /\ UNCHANGED <<conf, cancelled, local, tries, attempt, cur, token, adv, issued, srv, sessVars, muxRef, quicRef>>

Refused ==
  /\ mgr = "refused"
  /\ attempt' = Counted
  /\ mgr' = IF conf.reconnect THEN "backoff" ELSE "exit"
  /\ UNCHANGED <<conf, cancelled, local, tries, cur, token, adv, issued, srv, sessVars, muxRef, quicRef>>

\* The wait before the next attempt ends by itself or with the context.
Backoff ==
  /\ mgr = "backoff"
  /\ \/ mgr' = "top"
     \/ CtxDone /\ mgr' = "returned"
  /\ UNCHANGED <<conf, cancelled, local, tries, attempt, cur, token, adv, issued, srv, sessVars, muxRef, quicRef>>

\* The manager reaches its select after the goroutines have been started.
ReachSelect ==
  /\ mgr = "launch"
  /\ mgr' = "wait"
  /\ UNCHANGED <<conf, cancelled, local, tries, attempt, cur, token, adv, issued, srv, sessVars, muxRef, quicRef>>

Disconnected ==
  /\ mgr = "wait" /\ cur \in signal
  /\ signal' = signal \ {cur} /\ stopped' = stopped \cup {cur}
  /\ conn' = [n \in Sess |-> IF n \in {muxRef, quicRef} THEN "closed" ELSE conn[n]]
  /\ muxRef' = 0 /\ quicRef' = 0
  /\ IF conf.reconnect
       THEN attempt' = Counted /\ mgr' = "backoff"
       ELSE UNCHANGED attempt /\ mgr' = "returned"
  /\ UNCHANGED <<conf, cancelled, local, tries, cur, token, adv, issued, srv, pc, mode, left, cred, routeVars>>

WaitCancelled ==
  /\ mgr = "wait" /\ CtxDone
  /\ stopped' = stopped \cup {cur}
  /\ mgr' = "returned"
  /\ UNCHANGED <<conf, cancelled, local, tries, attempt, cur, token, adv, issued, srv, pc, mode, left, conn,
                 cred, routeVars, signal, muxRef, quicRef>>

\* SIGINT or SIGTERM.
Interrupt ==
  /\ Alive /\ ~cancelled
  /\ cancelled' = TRUE
  /\ UNCHANGED <<conf, local, mgrVars, issued, srv, sessVars, muxRef, quicRef>>

\* Mutant: the program exits without closing the data connection.
MutantExitOpen ==
  /\ mgr = "returned" /\ local = "ended"
  /\ mgr' = "exit"
  /\ UNCHANGED <<conf, cancelled, local, tries, attempt, cur, token, adv, issued, srv, sessVars, muxRef, quicRef>>

\* The tail of RunClient, once the local listener has ended too.
MainExits ==
  /\ mgr = "returned" /\ local = "ended"
  /\ mgr' = "exit"
  /\ conn' = [n \in Sess |-> IF n = quicRef THEN "closed" ELSE conn[n]]
  /\ UNCHANGED <<conf, cancelled, local, tries, attempt, cur, token, adv, issued, srv, pc, mode, left, cred,
                 routeVars, stopped, signal, muxRef, quicRef>>

RegisterStep == RegisterOk \/ RegisterFails \/ RegisterNoPort \/ RegisterRejected
Manager ==
  \/ LoopTop \/ RegisterStep \/ Refused \/ Backoff
  \/ ReachSelect \/ Disconnected \/ WaitCancelled \/ MainExits

--------------------------------------------------------------------------------
(* The local listener.                                                       *)

\* Its goroutine returns when the end of the context has closed its socket.
ListenerEnds(l) ==
  /\ Alive /\ conf.local = l /\ local = "run" /\ cancelled
  /\ local' = "ended"
  /\ UNCHANGED <<conf, cancelled, mgrVars, issued, srv, sessVars, muxRef, quicRef>>

FolderEnds == ListenerEnds("folder")
ProxyEnds == ListenerEnds("proxy")
SocksEnds == ListenerEnds("socks")
UDPEnds == ListenerEnds("udp")

\* A UDP port that is taken ends its listener alone ...
UDPFails ==
  /\ Alive /\ conf.local = "udp" /\ local = "run"
  /\ local' = "ended"
  /\ UNCHANGED <<conf, cancelled, mgrVars, issued, srv, sessVars, muxRef, quicRef>>

\* ... that of the file server or the HTTP proxy ends the program.
ListenFatal ==
  /\ Alive /\ conf.local \in {"folder", "proxy"} /\ local = "run"
  /\ mgr' = "exit"
  /\ UNCHANGED <<conf, cancelled, local, tries, attempt, cur, token, adv, issued, srv, sessVars, muxRef, quicRef>>

LocalReturns == FolderEnds \/ ProxyEnds \/ SocksEnds \/ UDPEnds
Local == LocalReturns \/ UDPFails \/ ListenFatal

--------------------------------------------------------------------------------
(* Session goroutines.                                                       *)

SessGoto(n, p) == Alive /\ pc' = [pc EXCEPT ![n] = p]

\* QUIC first, then HTTP/2, then WSS.
Preferred(M) == IF "quic" \in M THEN "quic" ELSE IF "http2" \in M THEN "http2" ELSE "wss"

\* The next transport is dialled.  HTTP/2 and WSS put the credentials of
\* clientState into their request ahead of the dial.
Select(n) ==
  /\ pc[n] = "select"
  /\ IF left[n] = {} \/ Done(n)
       THEN SessGoto(n, "signal") /\ UNCHANGED <<mode, left, conn, cred>>
       ELSE /\ SessGoto(n, "route")
            /\ mode' = [mode EXCEPT ![n] = Preferred(left[n])]
            /\ left' = [left EXCEPT ![n] = @ \ {Preferred(left[n])}]
            /\ conn' = [conn EXCEPT ![n] = "dialling"]
            /\ cred' = IF Preferred(left[n]) = "quic" THEN cred ELSE [cred EXCEPT ![n] = token]
  /\ UNCHANGED <<conf, cancelled, local, mgrVars, issued, srv, routeVars, stopped, signal, muxRef, quicRef>>

\* A QUIC connection is up; the association sends the credentials read now.
QUICConnects(n) ==
  /\ pc[n] = "route" /\ mode[n] = "quic" /\ ~Done(n)
  /\ SessGoto(n, "dial")
  /\ conn' = [conn EXCEPT ![n] = "socket"]
  /\ cred' = [cred EXCEPT ![n] = token]
  /\ UNCHANGED <<conf, cancelled, local, mgrVars, issued, srv, mode, left, routeVars, stopped, signal, muxRef, quicRef>>

\* dialRoute without a proxy, or through a SOCKS5 proxy, is one call.
RouteDirect(n) ==
  /\ pc[n] = "route" /\ mode[n] # "quic" /\ ~conf.proxy /\ ~Done(n)
  /\ SessGoto(n, "dial")
  /\ conn' = [conn EXCEPT ![n] = "socket"]
  /\ UNCHANGED <<conf, cancelled, local, mgrVars, issued, srv, mode, left, cred, routeVars, stopped, signal, muxRef, quicRef>>

\* An HTTP proxy is reached: a function is registered that puts a deadline in
\* the past on the socket when the dial's context ends ...
ProxyDialled(n) ==
  /\ pc[n] = "route" /\ mode[n] # "quic" /\ conf.proxy /\ ~Done(n)
  /\ SessGoto(n, "arm")
  /\ conn' = [conn EXCEPT ![n] = "socket"]
  /\ armed' = armed \cup {n}
  /\ UNCHANGED <<conf, cancelled, local, mgrVars, issued, srv, mode, left, cred, deadline, stopped, signal, muxRef, quicRef>>

\* ... and then the socket gets the deadline of the dial, which replaces that of
\* a function that has struck already.
SetDeadline(n) ==
  /\ pc[n] = "arm"
  /\ SessGoto(n, "connect")
  /\ deadline' = [deadline EXCEPT ![n] = "set"]
  /\ UNCHANGED <<conf, cancelled, local, mgrVars, issued, srv, mode, left, conn, cred, armed, stopped, signal, muxRef, quicRef>>

\* The context of the dial ends, by cancellation or by its budget.
Strike(n) ==
  /\ Alive /\ n \in armed
  /\ deadline' = [deadline EXCEPT ![n] = "past"] /\ armed' = armed \ {n}
  /\ UNCHANGED <<conf, cancelled, local, mgrVars, issued, srv, pc, mode, left, conn, cred, stopped, signal, muxRef, quicRef>>

\* The proxy has answered CONNECT with 200.
ProxyConnects(n) ==
  /\ pc[n] = "connect" /\ deadline[n] = "set"
  /\ SessGoto(n, "release")
  /\ UNCHANGED <<conf, cancelled, local, mgrVars, issued, srv, mode, left, conn, cred, routeVars, stopped, signal, muxRef, quicRef>>

\* Mutant: the function is taken back only after the socket was handed over.
MutantReleaseLate(n) ==
  /\ pc[n] = "release" /\ n \in armed /\ ~Done(n)
  /\ SessGoto(n, "dial")
  /\ deadline' = [deadline EXCEPT ![n] = "none"] /\ armed' = armed
  /\ UNCHANGED <<conf, cancelled, local, mgrVars, issued, srv, mode, left, conn, cred, stopped, signal, muxRef, quicRef>>

\* release() takes the function back or waits for it; a dial whose context has
\* not ended clears the deadline and hands its socket over.
ProxyReleases(n) ==
  /\ pc[n] = "release" /\ n \in armed /\ ~Done(n)
  /\ SessGoto(n, "dial")
  /\ deadline' = [deadline EXCEPT ![n] = "none"] /\ armed' = armed \ {n}
  /\ UNCHANGED <<conf, cancelled, local, mgrVars, issued, srv, mode, left, conn, cred, stopped, signal, muxRef, quicRef>>

\* The server accepts the token of a registration it holds.  The deadline of
\* the dial may pass behind its success: the carrier is then returned closed.
Dialled(n) ==
  /\ pc[n] = "dial" /\ ~Done(n)
  /\ srv = cred[n]
  /\ SessGoto(n, "open")
  /\ \/ conn' = [conn EXCEPT ![n] = "open"]
     \/ mode[n] # "wss" /\ conn' = [conn EXCEPT ![n] = "closed"]
  /\ UNCHANGED <<conf, cancelled, local, mgrVars, issued, srv, mode, left, cred, routeVars, stopped, signal, muxRef, quicRef>>

\* A dial fails, is refused, runs out of time or is cancelled, its socket is
\* closed and the next transport is tried.
GiveUp(n, ps) ==
  /\ pc[n] \in ps
  /\ SessGoto(n, "select")
  /\ conn' = [conn EXCEPT ![n] = "closed"]
  /\ deadline' = [deadline EXCEPT ![n] = "none"] /\ armed' = armed \ {n}
  /\ UNCHANGED <<conf, cancelled, local, mgrVars, issued, srv, mode, left, cred, stopped, signal, muxRef, quicRef>>

RouteFails(n) == GiveUp(n, {"route", "connect", "release"})
DialFails(n) == GiveUp(n, {"dial"})

Publish(n) ==
  /\ Alive /\ pc[n] = "open"
  /\ pc' = [pc EXCEPT ![n] = "serve"]
  /\ IF mode[n] = "quic" THEN quicRef' = n /\ UNCHANGED muxRef ELSE muxRef' = n /\ UNCHANGED quicRef
  /\ UNCHANGED <<conf, cancelled, local, mgrVars, issued, srv, mode, left, conn, cred, routeVars, stopped, signal>>

\* The function registered with AfterFunc closes a mux session.
CtxCloses(n) ==
  /\ Alive /\ pc[n] = "serve" /\ mode[n] # "quic" /\ Done(n) /\ conn[n] = "open"
  /\ conn' = [conn EXCEPT ![n] = "closed"]
  /\ srv' = IF srv = cred[n] THEN 0 ELSE srv
  /\ UNCHANGED <<conf, cancelled, local, mgrVars, issued, pc, mode, left, cred, routeVars, stopped, signal, muxRef, quicRef>>

\* Accepting the next stream fails.
ServeEnds(n) ==
  /\ Alive /\ pc[n] = "serve"
  /\ conn[n] = "closed" \/ (mode[n] = "quic" /\ Done(n))
  /\ pc' = [pc EXCEPT ![n] = "clear"]
  /\ UNCHANGED <<conf, cancelled, local, mgrVars, issued, srv, mode, left, conn, cred, routeVars, stopped, signal, muxRef, quicRef>>

\* Mutant: the disconnect is signalled ahead of the other deferred calls.
MutantSignalFirst(n) ==
  /\ Alive /\ pc[n] = "clear"
  /\ pc' = [pc EXCEPT ![n] = "close"]
  /\ signal' = signal \cup {n}
  /\ muxRef' = IF muxRef = n THEN 0 ELSE muxRef
  /\ quicRef' = IF quicRef = n THEN 0 ELSE quicRef
  /\ UNCHANGED <<conf, cancelled, local, mgrVars, issued, srv, mode, left, conn, cred, routeVars, stopped>>

ClearRef(n) ==
  /\ Alive /\ pc[n] = "clear"
  /\ pc' = [pc EXCEPT ![n] = "close"]
  /\ muxRef' = IF muxRef = n THEN 0 ELSE muxRef
  /\ quicRef' = IF quicRef = n THEN 0 ELSE quicRef
  /\ UNCHANGED <<conf, cancelled, local, mgrVars, issued, srv, mode, left, conn, cred, routeVars, stopped, signal>>

CloseCarrier(n) ==
  /\ Alive /\ pc[n] = "close"
  /\ pc' = [pc EXCEPT ![n] = "signal"]
  /\ conn' = [conn EXCEPT ![n] = "closed"]
  /\ srv' = IF conn[n] = "open" /\ srv = cred[n] THEN 0 ELSE srv
  /\ UNCHANGED <<conf, cancelled, local, mgrVars, issued, mode, left, cred, routeVars, stopped, signal, muxRef, quicRef>>

\* Mutant: the channel is not buffered, a signal nobody waits for is lost.
MutantSignalLost(n) ==
  /\ Alive /\ pc[n] = "signal"
  /\ pc' = [pc EXCEPT ![n] = "end"]
  /\ signal' = IF mgr = "wait" THEN signal \cup {n} ELSE signal
  /\ UNCHANGED <<conf, cancelled, local, mgrVars, issued, srv, mode, left, conn, cred, routeVars, stopped, muxRef, quicRef>>

\* The non-blocking send to the session's channel of capacity one.
Signal(n) ==
  /\ Alive /\ pc[n] = "signal"
  /\ pc' = [pc EXCEPT ![n] = "end"]
  /\ signal' = signal \cup {n}
  /\ UNCHANGED <<conf, cancelled, local, mgrVars, issued, srv, mode, left, conn, cred, routeVars, stopped, muxRef, quicRef>>

SessionStep(n) ==
  \/ Select(n) \/ QUICConnects(n) \/ RouteDirect(n) \/ ProxyDialled(n) \/ SetDeadline(n) \/ ProxyConnects(n)
  \/ ProxyReleases(n) \/ RouteFails(n) \/ Dialled(n) \/ DialFails(n) \/ Publish(n) \/ ServeEnds(n)
  \/ ClearRef(n) \/ CloseCarrier(n) \/ Signal(n)

--------------------------------------------------------------------------------
(* The network and the server.                                               *)

\* The carrier is lost and the server releases the registration.
CarrierLost(n) ==
  /\ Alive /\ conn[n] = "open"
  /\ conn' = [conn EXCEPT ![n] = "closed"]
  /\ srv' = IF srv = cred[n] THEN 0 ELSE srv
  /\ UNCHANGED <<conf, cancelled, local, mgrVars, issued, pc, mode, left, cred, routeVars, stopped, signal, muxRef, quicRef>>

\* The registration expires before a carrier attaches, or the server restarts.
ServerForgets ==
  /\ Alive /\ srv # 0 /\ \A n \in Sess : ~(conn[n] = "open" /\ cred[n] = srv)
  /\ srv' = 0
  /\ UNCHANGED <<conf, cancelled, local, mgrVars, issued, sessVars, muxRef, quicRef>>

Next ==
  \/ Manager \/ Interrupt \/ Local \/ ServerForgets
  \/ \E n \in Sess : SessionStep(n) \/ Strike(n) \/ CtxCloses(n) \/ CarrierLost(n)

Spec == Init /\ [][Next]_vars

(* Fairness: goroutines run, every request and every dial is bounded by       *)
(* connectionBudget, waits end, AfterFunc runs its function, and a listener   *)
(* whose socket was closed returns.  Nothing makes a registration or a dial   *)
(* succeed, a carrier fail or a signal arrive.                                *)
FairSpec ==
  /\ Spec
  /\ WF_vars(Manager) /\ WF_vars(LocalReturns)
  /\ \A n \in Sess : WF_vars(SessionStep(n)) /\ WF_vars(CtxCloses(n))

--------------------------------------------------------------------------------
(* Properties.                                                               *)

\* A session goroutine that has ended, however early, is noticed: the manager
\* does not keep waiting for it (the stuck client of runWithReconnect's
\* comment on the buffered channel).
DisconnectHeard ==
  \A n \in Sess : (cur = n /\ pc[n] = "end") ~> ~(cur = n /\ mgr \in {"launch", "wait"})

\* Registering again excludes everything an earlier session dialled: no socket
\* or carrier outlives its session's signal on any path, and each one that is
\* dialled or open uses the credentials of the registration the client holds,
\* although both sides read and write them without a lock.
CarrierIsCurrent ==
  \A n \in Sess :
    conn[n] \in {"dialling", "socket", "open"} =>
      /\ n = cur
      /\ (mode[n] = "quic" /\ conn[n] = "dialling") \/ cred[n] = token
      /\ mgr \notin {"register", "refused", "backoff", "top"}

\* A socket dialRoute has handed over carries no deadline of the dial, and the
\* end of the dial's context does not strike it later: the tunnel does not
\* break when connectionBudget runs out behind a successful CONNECT.
RouteHandedOver ==
  \A n \in Sess : pc[n] \in {"dial", "open", "serve"} => deadline[n] = "none" /\ n \notin armed

\* After SIGINT or SIGTERM the client ends, wherever its manager, its session
\* and its local listener stand.
ShutdownEnds == cancelled ~> (mgr = "exit")

\* When the program ends in order a QUIC connection is left unclosed only in the
\* two windows in which clientState does not refer to it: before it is
\* published, and between the deferred clear and the deferred close.
QuicClosedAtExit ==
  (mgr = "exit" /\ local = "ended" /\ cancelled) =>
    \A n \in Sess : mode[n] = "quic" /\ conn[n] = "open" => pc[n] \in {"open", "close"}
================================================================================
