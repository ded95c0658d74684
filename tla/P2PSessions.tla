------------------------------ MODULE P2PSessions ------------------------------
(***************************************************************************)
(* Peer-to-peer session setup in one client: the signal handler and the    *)
(* negotiation goroutines of cmd/client.go, the NegotiationStore, the      *)
(* prepared sockets and TURN allocations of P2PManager (prepared_ice.go),  *)
(* the connectivity check that turns them into a session (p2p_ice.go), the *)
(* sessions' end, and closeP2PState when the server connection is lost.    *)
(*                                                                         *)
(* Everything the manager locks m.mu for is one step, and so is every      *)
(* operation of the store.  Signals arrive in any order, may never arrive, *)
(* and are repeated when Replays is TRUE.  Time-outs may fire whenever     *)
(* they are armed.                                                         *)
(***************************************************************************)
EXTENDS Naturals, FiniteSets

CONSTANTS
  Peers,       \* remote peer IDs
  Sessions,    \* negotiation session IDs
  Tasks,       \* goroutines and handler activations; each does one job
  Socks,       \* UDP sockets
  Relays,      \* TURN allocations
  MaxEpoch,    \* bound on reconnections
  Configs,     \* the clients considered
  Replays,     \* whether an offer may arrive again
  None

\* A client: the peers it sends the offer to (ShouldInitiateICE), whether a TURN
\* server is configured, maxPreparedICE (also the capacity of its store), and
\* the reconnections considered.
Clients ==
  [initiates : SUBSET Peers, turn : BOOLEAN, capacity : 1..Cardinality(Sessions), epochs : 0..MaxEpoch]

Epochs == 0..(MaxEpoch + 1)
Resources == Socks \cup Relays

\* What a task works on, an entry of a store, and an entry of preparedICE.
Jobs == [peer : Peers, session : Sessions, epoch : Epochs, store : Epochs]
Negotiations == [session : Sessions, state : {"pending", "checking", "completed"}, adv : Socks]
Preparations == [sock : Socks, relay : Relays \cup {None}, claimed : BOOLEAN, epoch : Epochs]

ASSUME SessionsAssumption ==
  /\ IsFiniteSet(Sessions) /\ Configs \subseteq Clients
  /\ Socks \cap Relays = {}
  /\ MaxEpoch \in Nat
  /\ Replays \in BOOLEAN
  /\ None \notin Peers \cup Sessions \cup Tasks \cup Resources
  /\ None \notin Jobs \cup Negotiations \cup Preparations

VARIABLES
  \* the client
  conf,        \* its configuration
  phase,       \* "up", then closeP2PState: "cancelled", "swapped", "down"
  epoch,       \* server connections so far; each has its own context
  known,       \* P2PPeers
  active,      \* P2PActiveSessions and the maps beside it: task that made the session
  entries,     \* NegotiationStore of each epoch: peer -> negotiation
  \* P2PManager
  preparing,   \* preparingICE
  prepared,    \* preparedICE
  cancelling,  \* sessions for which the context's AfterFunc has started
  connections, \* connections: task that made the session
  \* operating system and TURN server
  res,         \* sockets and allocations
  \* goroutines
  pc,
  job,         \* peer, session, context and store a task works with
  hold,        \* socket or allocation in its hands; that of its session later
  adv,         \* socket whose port its candidates advertise
  turn,        \* it still wants a relay candidate
  live         \* tasks whose ICESession has not been terminated

clientVars == <<conf, phase, epoch, known, active>>
managerVars == <<preparing, prepared, cancelling, connections>>
taskVars == <<pc, job, hold, adv, turn, live>>
vars == <<clientVars, entries, managerVars, res, taskVars>>

PrepareStages == {"prepare", "bind", "insert", "inserted", "relay", "allocate", "attach",
                  "start", "begin"}
CheckStages == {"establish", "claim", "check", "relayTry", "connect", "punch", "transfer",
                "transferRelay", "publish", "complete", "install"}
FailStages == {"failCancel", "failEntry", "failCancelAgain"}
FallbackStages == {"fallback", "fallbackFail", "fallbackCancel"}
Stages == {"idle", "monitor", "monitorDelete", "done"}
            \cup PrepareStages \cup CheckStages \cup FailStages \cup FallbackStages

TypeOK ==
  /\ phase \in {"up", "cancelled", "swapped", "down"}
  /\ conf \in Configs
  /\ epoch \in 0..MaxEpoch
  /\ known \subseteq Peers
  /\ active \in [Peers -> Tasks \cup {None}]
  /\ entries \in [Epochs -> [Peers -> Negotiations \cup {None}]]
  /\ preparing \subseteq Sessions
  /\ prepared \in [Sessions -> Preparations \cup {None}]
  /\ cancelling \subseteq Sessions
  /\ connections \in [Peers -> Tasks \cup {None}]
  /\ res \in [Resources -> {"unused", "open", "connected", "closed"}]
  /\ pc \in [Tasks -> Stages]
  /\ job \in [Tasks -> Jobs \cup {None}]
  /\ hold \in [Tasks -> Resources \cup {None}]
  /\ adv \in [Tasks -> Socks \cup {None}]
  /\ turn \in [Tasks -> BOOLEAN]
  /\ live \subseteq Tasks

Init ==
  /\ conf \in Configs
  /\ phase = "up"
  /\ epoch = 0
  /\ known = {}
  /\ active = [p \in Peers |-> None]
  /\ entries = [e \in Epochs |-> [p \in Peers |-> None]]
  /\ preparing = {}
  /\ prepared = [s \in Sessions |-> None]
  /\ cancelling = {}
  /\ connections = [p \in Peers |-> None]
  /\ res = [x \in Resources |-> "unused"]
  /\ pc = [t \in Tasks |-> "idle"]
  /\ job = [t \in Tasks |-> None]
  /\ hold = [t \in Tasks |-> None]
  /\ adv = [t \in Tasks |-> None]
  /\ turn = [t \in Tasks |-> FALSE]
  /\ live = {}

--------------------------------------------------------------------------------
Goto(t, stage) == pc' = [pc EXCEPT ![t] = stage]

Peer(t) == job[t].peer
Session(t) == job[t].session
Entry(t) == entries[job[t].store][job[t].peer]

\* The context of the server connection a task was started under.
CtxDone(t) == job[t].epoch < epoch \/ phase # "up"

\* Store that state.P2PNegotiations refers to.
CurrentStore == IF phase \in {"up", "cancelled"} THEN epoch ELSE epoch + 1

\* The store holds the negotiation a task works on.
Negotiating(t) == Entry(t) # None /\ Entry(t).session = Session(t)

SetEntry(t, n) == entries' = [entries EXCEPT ![job[t].store][job[t].peer] = n]

\* Close of sockets and of allocations no connection was made from.
Shut(xs) == [x \in Resources |-> IF x \in xs /\ res[x] = "open" THEN "closed" ELSE res[x]]

\* Close of connections.
HangUp(ts) == [x \in Resources |-> IF \E t \in ts : hold[t] = x THEN "closed" ELSE res[x]]

Owns(s) == IF prepared[s] = None THEN {} ELSE {prepared[s].sock, prepared[s].relay}

\* The allocation of the preparation is left behind.
MutantCancelSocketOnly(s) ==
  /\ prepared' = [prepared EXCEPT ![s] = None]
  /\ res' = Shut(Owns(s) \cap Socks)

\* CancelPreparedICE.
CancelPrepared(s) ==
  /\ prepared' = [prepared EXCEPT ![s] = None]
  /\ res' = Shut(Owns(s))

\* The candidates of the first attempt are kept.
MutantAdvertiseFirst(t, x) == [adv EXCEPT ![t] = IF @ = None THEN x ELSE @]

\* The candidates a task goes on with carry the port of socket x.
Advertise(t, x) == [adv EXCEPT ![t] = x]

\* The signal handler runs one signal at a time; offers are made and answers
\* checked in goroutines of their own.
HandlerBusy ==
  \E t \in Tasks : /\ job[t] # None /\ job[t].epoch = epoch
                   /\ \/ pc[t] \in PrepareStages /\ Peer(t) \notin conf.initiates
                      \/ pc[t] \in FallbackStages

\* A signal that was read before the connection was closed is still handled.
Receives == phase \in {"up", "cancelled"} /\ ~HandlerBusy

\* A task takes up a job.
Begin(t, p, s, stage) ==
  /\ pc[t] = "idle"
  /\ Goto(t, stage)
  /\ job' = [job EXCEPT ![t] = [peer |-> p, session |-> s, epoch |-> epoch, store |-> epoch]]
  /\ turn' = [turn EXCEPT ![t] = conf.turn]

\* Session IDs are random: no two negotiations share one.
UsedBy(p, s) == \E t \in Tasks : job[t] # None /\ Session(t) = s /\ Peer(t) = p

Unused(s) == \A p \in Peers : ~UsedBy(p, s)

--------------------------------------------------------------------------------
(* The signal handler: handleP2PSignal.                                    *)

\* PeerInfo of a peer that makes the offer itself, or one handled after the
\* context ended, when startICEOffer returns at once.
LearnPeer(p) ==
  /\ p \in conf.initiates => phase # "up"
  /\ known' = known \cup {p}
  /\ UNCHANGED <<phase, conf, epoch, active, entries, managerVars, res, taskVars>>

\* PeerInfo of a peer this client makes the offer to: startICEOffer.
OfferICE(t, p, s) ==
  /\ Receives
  /\ p \in conf.initiates
  /\ Unused(s)
  /\ known' = known \cup {p}
  /\ Begin(t, p, s, "prepare")
  /\ UNCHANGED <<phase, conf, epoch, active, entries, managerVars, res, hold, adv, live>>

\* An offer of a negotiation that is in the store is answered from the store.
ReceiveOffer(t, p, s) ==
  /\ Receives
  /\ p \in known \ conf.initiates
  /\ ~(entries[epoch][p] # None /\ entries[epoch][p].session = s)
  /\ \A q \in Peers : UsedBy(q, s) => Replays /\ q = p
  /\ Begin(t, p, s, "prepare")
  /\ UNCHANGED <<clientVars, entries, managerVars, res, hold, adv, live>>

\* AddRemote and BeginCheck accept an answer to a pending negotiation.
ReceiveAnswer(t, p, s) ==
  LET n == entries[epoch][p] IN
  /\ Receives
  /\ p \in known \cap conf.initiates
  /\ n # None /\ n.session = s /\ n.state = "pending"
  /\ entries' = [entries EXCEPT ![epoch][p].state = "checking"]
  /\ Begin(t, p, s, "establish")
  /\ adv' = Advertise(t, n.adv)
  /\ UNCHANGED <<clientVars, managerVars, res, hold, live>>

\* The peer gave the negotiation or the session up.
ReceiveFallback(t, p, s) ==
  /\ Receives
  /\ UsedBy(p, s)
  /\ Begin(t, p, s, "fallback")
  /\ UNCHANGED <<clientVars, entries, managerVars, res, hold, adv, live>>

--------------------------------------------------------------------------------
(* prepareClientICE: PrepareICE, PrepareICEWithRelay.                      *)

\* An error of the relay variant is followed by a direct-only attempt, an
\* error of that one by the end of the negotiation.
PrepareError(t) ==
  LET again == turn[t] /\ ~CtxDone(t) IN
  /\ Goto(t, IF again THEN "prepare" ELSE "done")
  /\ turn' = [turn EXCEPT ![t] = FALSE]

Prepared(t) == Goto(t, IF turn[t] THEN "relay" ELSE "start")

PreparedCount == Cardinality({s \in Sessions : prepared[s] # None})

\* Look for the session and reserve a place for it.
PrepareBegin(t) ==
  LET s == Session(t) IN
  /\ pc[t] = "prepare"
  /\ \/ /\ CtxDone(t)
        /\ Goto(t, "done")
        /\ UNCHANGED <<preparing, adv, turn>>
     \/ /\ ~CtxDone(t) /\ prepared[s] # None
        /\ adv' = Advertise(t, prepared[s].sock)
        /\ Prepared(t)
        /\ UNCHANGED <<preparing, turn>>
     \/ /\ ~CtxDone(t) /\ prepared[s] = None
        /\ s \in preparing \/ PreparedCount + Cardinality(preparing) >= conf.capacity
        /\ PrepareError(t)
        /\ UNCHANGED <<preparing, adv>>
     \/ /\ ~CtxDone(t) /\ prepared[s] = None
        /\ s \notin preparing /\ PreparedCount + Cardinality(preparing) < conf.capacity
        /\ preparing' = preparing \cup {s}
        /\ Goto(t, "bind")
        /\ UNCHANGED <<adv, turn>>
  /\ UNCHANGED <<clientVars, entries, prepared, cancelling, connections, res, job, hold, live>>

\* ListenUDP and the STUN exchange.
PrepareBind(t, ok, x) ==
  /\ pc[t] = "bind"
  /\ IF ok
     THEN /\ res[x] = "unused"
          /\ res' = [res EXCEPT ![x] = "open"]
          /\ hold' = [hold EXCEPT ![t] = x]
          /\ Goto(t, "insert")
          /\ UNCHANGED <<preparing, turn>>
     ELSE /\ PrepareError(t)
          /\ preparing' = preparing \ {Session(t)}
          /\ UNCHANGED <<res, hold>>
  /\ UNCHANGED <<clientVars, entries, prepared, cancelling, connections, job, adv, live>>

\* Hand the socket over to the manager, with its timer and the AfterFunc of
\* the context, which starts at once when the context is done.
PrepareInsert(t) ==
  LET s == Session(t)
      entry == [sock |-> hold[t], relay |-> None, claimed |-> FALSE, epoch |-> job[t].epoch]
  IN
  /\ pc[t] = "insert"
  /\ hold' = [hold EXCEPT ![t] = None]
  /\ \/ /\ prepared[s] # None
        /\ res' = Shut({hold[t]})
        /\ preparing' = preparing \ {s}
        /\ adv' = Advertise(t, prepared[s].sock)
        /\ Prepared(t)
        /\ UNCHANGED <<prepared, cancelling, turn>>
     \/ /\ prepared[s] = None /\ PreparedCount >= conf.capacity
        /\ res' = Shut({hold[t]})
        /\ preparing' = preparing \ {s}
        /\ PrepareError(t)
        /\ UNCHANGED <<prepared, cancelling, adv>>
     \/ /\ prepared[s] = None /\ PreparedCount < conf.capacity
        /\ prepared' = [prepared EXCEPT ![s] = entry]
        /\ cancelling' = IF CtxDone(t) THEN cancelling \cup {s} ELSE cancelling
        /\ adv' = Advertise(t, hold[t])
        /\ Goto(t, "inserted")
        /\ UNCHANGED <<res, preparing, turn>>
  /\ UNCHANGED <<clientVars, entries, connections, job, live>>

\* The last check of the context, and the deferred delete of the reservation.
PrepareReturn(t) ==
  /\ pc[t] = "inserted"
  /\ preparing' = preparing \ {Session(t)}
  /\ IF CtxDone(t)
     THEN CancelPrepared(Session(t)) /\ Goto(t, "done")
     ELSE Prepared(t) /\ UNCHANGED <<prepared, res>>
  /\ UNCHANGED <<clientVars, entries, cancelling, connections, job, hold, adv, turn, live>>

\* The preparation may have a relay already.
RelayLookup(t) ==
  LET n == prepared[Session(t)] IN
  /\ pc[t] = "relay"
  /\ Goto(t, IF n # None /\ n.relay # None THEN "start" ELSE "allocate")
  /\ UNCHANGED <<clientVars, entries, managerVars, res, job, hold, adv, turn, live>>

\* AllocateCandidate at the TURN server.
RelayAllocate(t, ok, y) ==
  /\ pc[t] = "allocate"
  /\ IF ok
     THEN /\ res[y] = "unused"
          /\ res' = [res EXCEPT ![y] = "open"]
          /\ hold' = [hold EXCEPT ![t] = y]
          /\ Goto(t, "attach")
          /\ UNCHANGED <<prepared, turn>>
     ELSE /\ CancelPrepared(Session(t))
          /\ PrepareError(t)
          /\ UNCHANGED hold
  /\ UNCHANGED <<clientVars, entries, preparing, cancelling, connections, job, adv, live>>

\* The preparation takes the allocation over, if it is still there.
RelayAttach(t) ==
  LET s == Session(t) IN
  /\ pc[t] = "attach"
  /\ hold' = [hold EXCEPT ![t] = None]
  /\ \/ /\ prepared[s] = None
        /\ res' = Shut({hold[t]})
        /\ PrepareError(t)
        /\ UNCHANGED prepared
     \/ /\ prepared[s] # None /\ prepared[s].relay # None
        /\ res' = Shut({hold[t]})
        /\ Goto(t, "start")
        /\ UNCHANGED <<prepared, turn>>
     \/ /\ prepared[s] # None /\ prepared[s].relay = None
        /\ prepared' = [prepared EXCEPT ![s].relay = hold[t]]
        /\ Goto(t, "start")
        /\ UNCHANGED <<res, turn>>
  /\ UNCHANGED <<clientVars, entries, preparing, cancelling, connections, job, adv, live>>

--------------------------------------------------------------------------------
(* NegotiationStore and the part of its callers around it.                 *)

\* Start: one negotiation per peer; a repeated start of the same one changes
\* nothing.  The offering side sends its offer, the other its answer.
NegotiationStart(t) ==
  LET mine == [session |-> Session(t), state |-> "pending", adv |-> adv[t]]
      count == Cardinality({p \in Peers : entries[job[t].store][p] # None})
      next == IF Peer(t) \in conf.initiates THEN "done" ELSE "begin"
  IN
  /\ pc[t] = "start"
  /\ \/ /\ Negotiating(t) \/ (Entry(t) = None /\ count < conf.capacity)
        /\ SetEntry(t, IF Negotiating(t) THEN Entry(t) ELSE mine)
        /\ Goto(t, next)
        /\ UNCHANGED <<prepared, res>>
     \/ /\ ~Negotiating(t) /\ (Entry(t) # None \/ count >= conf.capacity)
        /\ CancelPrepared(Session(t))
        /\ Goto(t, "done")
        /\ UNCHANGED entries
  /\ UNCHANGED <<clientVars, preparing, cancelling, connections, job, hold, adv, turn, live>>

\* The answering side wins the check or leaves it to whoever has it.
BeginCheck(t) ==
  /\ pc[t] = "begin"
  /\ IF Negotiating(t) /\ Entry(t).state = "pending"
     THEN /\ SetEntry(t, [Entry(t) EXCEPT !.state = "checking"])
          /\ adv' = Advertise(t, Entry(t).adv)
          /\ Goto(t, "establish")
     ELSE /\ Goto(t, "done")
          /\ UNCHANGED <<entries, adv>>
  /\ UNCHANGED <<clientVars, managerVars, res, job, hold, turn, live>>

\* expireLocked spares a negotiation that is being checked.  Complete and
\* Delete, all that is called on a store that was replaced, expire nothing.
EntryExpires(p) ==
  LET n == entries[CurrentStore][p] IN
  /\ n # None
  /\ n.state # "checking"
  /\ entries' = [entries EXCEPT ![CurrentStore][p] = None]
  /\ UNCHANGED <<clientVars, managerVars, res, taskVars>>

\* Delete of the negotiation a task works on.
DeleteEntry(t) == IF Negotiating(t) THEN SetEntry(t, None) ELSE UNCHANGED entries

--------------------------------------------------------------------------------
(* Time-outs and the context.                                              *)

\* expirePreparedSession and expirePreparedLocked.
PreparedExpires(s) ==
  /\ prepared[s] # None
  /\ ~prepared[s].claimed
  /\ CancelPrepared(s)
  /\ UNCHANGED <<clientVars, entries, preparing, cancelling, connections, taskVars>>

\* The timer of an allocation nobody connected.
RelayExpires(y) ==
  /\ y \in Relays
  /\ res[y] = "open"
  /\ res' = [res EXCEPT ![y] = "closed"]
  /\ UNCHANGED <<clientVars, entries, managerVars, taskVars>>

\* The AfterFunc of the context cancels the session it was made for, by ID.
ContextCancel(s) ==
  /\ s \in cancelling
  /\ cancelling' = cancelling \ {s}
  /\ CancelPrepared(s)
  /\ UNCHANGED <<clientVars, entries, preparing, connections, taskVars>>

--------------------------------------------------------------------------------
(* establishNegotiatedICE and establishICENegotiated.                      *)

\* The goroutine of the check reads the store it will report to.
Establish(t) ==
  /\ pc[t] = "establish"
  /\ job' = [job EXCEPT ![t].store = CurrentStore]
  /\ Goto(t, "claim")
  /\ UNCHANGED <<clientVars, entries, managerVars, res, hold, adv, turn, live>>

\* claimPrepared: the time-out of the preparation stops.
Claim(t) ==
  LET s == Session(t) IN
  /\ pc[t] = "claim"
  /\ IF prepared[s] # None /\ ~prepared[s].claimed
     THEN /\ prepared' = [prepared EXCEPT ![s].claimed = TRUE]
          /\ hold' = [hold EXCEPT ![t] = prepared[s].sock]
          /\ Goto(t, "check")
     ELSE /\ Goto(t, "failEntry")
          /\ UNCHANGED <<prepared, hold>>
  /\ UNCHANGED <<clientVars, entries, preparing, cancelling, connections, res, job, adv,
                 turn, live>>

\* The checklist: a pair answers while the socket is open, or none does.
CheckDirect(t, ok) ==
  /\ pc[t] = "check"
  /\ ok => res[hold[t]] = "open"
  /\ live' = IF ok THEN live \cup {t} ELSE live
  /\ Goto(t, IF ok THEN "transfer" ELSE "relayTry")
  /\ UNCHANGED <<clientVars, entries, managerVars, res, job, hold, adv, turn>>

\* preparedRelay, and a relay candidate of the peer.
RelayTry(t, ok) ==
  LET n == prepared[Session(t)] IN
  /\ pc[t] = "relayTry"
  /\ IF ok
     THEN /\ n # None /\ n.relay # None
          /\ hold' = [hold EXCEPT ![t] = n.relay]
          /\ Goto(t, "connect")
     ELSE /\ Goto(t, "failCancel")
          /\ UNCHANGED hold
  /\ UNCHANGED <<clientVars, entries, managerVars, res, job, adv, turn, live>>

\* Connect takes a pending allocation out of its owner's hands.
RelayConnect(t, ok) ==
  /\ pc[t] = "connect"
  /\ IF ok
     THEN /\ res[hold[t]] = "open"
          /\ res' = [res EXCEPT ![hold[t]] = "connected"]
          /\ Goto(t, "punch")
     ELSE /\ res' = Shut({hold[t]})
          /\ Goto(t, "failCancel")
  /\ UNCHANGED <<clientVars, entries, managerVars, job, hold, adv, turn, live>>

\* The peer authenticates itself over the relay, or the connection is closed.
RelayPunch(t, ok) ==
  /\ pc[t] = "punch"
  /\ live' = IF ok THEN live \cup {t} ELSE live
  /\ res' = IF ok THEN res ELSE [res EXCEPT ![hold[t]] = "closed"]
  /\ Goto(t, IF ok THEN "transferRelay" ELSE "failCancel")
  /\ UNCHANGED <<clientVars, entries, managerVars, job, hold, adv, turn>>

\* The preparation stays in the table after its socket was handed over.
MutantKeepPrepared(t) ==
  /\ pc[t] \in {"transfer", "transferRelay"}
  /\ Goto(t, "publish")
  /\ UNCHANGED <<clientVars, entries, managerVars, res, job, hold, adv, turn, live>>

\* transferPreparedSocket and transferPreparedRelay: the session owns what it
\* runs on and the rest of the preparation is closed.
Transfer(t) ==
  LET s == Session(t) IN
  /\ pc[t] \in {"transfer", "transferRelay"}
  /\ IF hold[t] \in Owns(s)
     THEN /\ prepared' = [prepared EXCEPT ![s] = None]
          /\ res' = Shut(Owns(s) \ {hold[t]})
     ELSE UNCHANGED <<prepared, res>>
  /\ Goto(t, "publish")
  /\ UNCHANGED <<clientVars, entries, preparing, cancelling, connections, job, hold, adv,
                 turn, live>>

\* The manager's own table of connections.
Publish(t) ==
  /\ pc[t] = "publish"
  /\ connections' = [connections EXCEPT ![Peer(t)] = t]
  /\ Goto(t, "complete")
  /\ UNCHANGED <<clientVars, entries, preparing, prepared, cancelling, res, job, hold, adv,
                 turn, live>>

\* A session whose negotiation is gone is dropped without being closed.
MutantCompleteDrops(t) ==
  /\ pc[t] = "complete"
  /\ IF Negotiating(t) /\ Entry(t).state = "checking"
     THEN /\ SetEntry(t, [Entry(t) EXCEPT !.state = "completed"])
          /\ Goto(t, "install")
     ELSE /\ Goto(t, "done")
          /\ UNCHANGED entries
  /\ UNCHANGED <<clientVars, managerVars, res, job, hold, adv, turn, live>>

\* The negotiation must still be the one that was being checked.
Complete(t) ==
  /\ pc[t] = "complete"
  /\ IF Negotiating(t) /\ Entry(t).state = "checking"
     THEN /\ SetEntry(t, [Entry(t) EXCEPT !.state = "completed"])
          /\ Goto(t, "install")
          /\ UNCHANGED res
     ELSE /\ res' = HangUp({t})
          /\ Goto(t, "done")
          /\ UNCHANGED entries
  /\ UNCHANGED <<clientVars, managerVars, job, hold, adv, turn, live>>

\* Nobody waits for the end of the session.
MutantInstallUnmonitored(t) ==
  /\ pc[t] = "install"
  /\ active' = [active EXCEPT ![Peer(t)] = t]
  /\ res' = HangUp({active[Peer(t)]} \ {None})
  /\ Goto(t, "done")
  /\ UNCHANGED <<phase, conf, epoch, known, entries, managerVars, job, hold, adv, turn, live>>

\* installP2PSession: a session that is replaced is closed.
Install(t) ==
  /\ pc[t] = "install"
  /\ active' = [active EXCEPT ![Peer(t)] = t]
  /\ res' = HangUp({active[Peer(t)]} \ {None})
  /\ Goto(t, "monitor")
  /\ UNCHANGED <<phase, conf, epoch, known, entries, managerVars, job, hold, adv, turn, live>>

\* The check failed: establishICENegotiated cancels the preparation, then
\* establishNegotiatedICE fails the negotiation and cancels again.
FailCancel(t) ==
  /\ pc[t] \in {"failCancel", "failCancelAgain"}
  /\ CancelPrepared(Session(t))
  /\ Goto(t, IF pc[t] = "failCancel" THEN "failEntry" ELSE "done")
  /\ UNCHANGED <<clientVars, entries, preparing, cancelling, connections, job, hold, adv,
                 turn, live>>

\* A failed check leaves its negotiation in the store.
MutantFailKeepsEntry(t) ==
  /\ pc[t] = "failEntry"
  /\ Goto(t, "failCancelAgain")
  /\ UNCHANGED <<clientVars, entries, managerVars, res, job, hold, adv, turn, live>>

FailEntry(t) ==
  /\ pc[t] = "failEntry"
  /\ DeleteEntry(t)
  /\ Goto(t, "failCancelAgain")
  /\ UNCHANGED <<clientVars, managerVars, res, job, hold, adv, turn, live>>

--------------------------------------------------------------------------------
(* The end of a session.                                                   *)

\* terminate: the context is done, consent was lost or the connection closed.
SessionEnds(t) ==
  /\ t \in live
  /\ live' = live \ {t}
  /\ res' = HangUp({t})
  /\ UNCHANGED <<clientVars, entries, managerVars, pc, job, hold, adv, turn>>

\* Whatever session the peer has is removed.
MutantRemoveAny(p, s) ==
  IF active[p] # None
  THEN active' = [active EXCEPT ![p] = None] /\ res' = HangUp({active[p]})
  ELSE UNCHANGED <<active, res>>

\* removeP2PSessionIfMatch.
RemoveIfMatch(p, s) ==
  LET u == active[p] IN
  IF u # None /\ Session(u) = s
  THEN active' = [active EXCEPT ![p] = None] /\ res' = HangUp({u})
  ELSE UNCHANGED <<active, res>>

Matches(t) == active[Peer(t)] # None /\ Session(active[Peer(t)]) = Session(t)

\* monitorP2PSession, after session.Done.
Monitor(t) ==
  /\ pc[t] = "monitor"
  /\ t \notin live
  /\ RemoveIfMatch(Peer(t), Session(t))
  /\ Goto(t, IF Matches(t) THEN "monitorDelete" ELSE "done")
  /\ UNCHANGED <<phase, conf, epoch, known, entries, managerVars, job, hold, adv, turn, live>>

MonitorDelete(t) ==
  /\ pc[t] = "monitorDelete"
  /\ DeleteEntry(t)
  /\ Goto(t, "done")
  /\ UNCHANGED <<clientVars, managerVars, res, job, hold, adv, turn, live>>

\* removeClosedICESession.
ForgetConnection(t) ==
  /\ job[t] # None
  /\ t \notin live
  /\ connections[Peer(t)] = t
  /\ connections' = [connections EXCEPT ![Peer(t)] = None]
  /\ UNCHANGED <<clientVars, entries, preparing, prepared, cancelling, res, taskVars>>

\* The three steps of a Fallback signal.
FallbackRemove(t) ==
  /\ pc[t] = "fallback"
  /\ RemoveIfMatch(Peer(t), Session(t))
  /\ Goto(t, "fallbackFail")
  /\ UNCHANGED <<phase, conf, epoch, known, entries, managerVars, job, hold, adv, turn, live>>

FallbackFail(t) ==
  /\ pc[t] = "fallbackFail"
  /\ DeleteEntry(t)
  /\ Goto(t, "fallbackCancel")
  /\ UNCHANGED <<clientVars, managerVars, res, job, hold, adv, turn, live>>

FallbackCancel(t) ==
  /\ pc[t] = "fallbackCancel"
  /\ CancelPrepared(Session(t))
  /\ Goto(t, "done")
  /\ UNCHANGED <<clientVars, entries, preparing, cancelling, connections, job, hold, adv,
                 turn, live>>

--------------------------------------------------------------------------------
(* The server connection: runWithReconnect, closeP2PState.                 *)

\* sessionCancel starts the AfterFunc of every preparation under the context.
Disconnect ==
  /\ phase = "up"
  /\ phase' = "cancelled"
  /\ cancelling' = cancelling \cup
       {s \in Sessions : prepared[s] # None /\ prepared[s].epoch = epoch}
  /\ UNCHANGED <<conf, epoch, known, active, entries, preparing, prepared, connections, res,
                 taskVars>>

\* closeP2PState puts empty maps and a new store in place and closes what the
\* old ones held.
SwapState ==
  /\ phase = "cancelled"
  /\ phase' = "swapped"
  /\ known' = {}
  /\ active' = [p \in Peers |-> None]
  /\ res' = HangUp({active[p] : p \in Peers} \ {None})
  /\ UNCHANGED <<conf, epoch, entries, managerVars, taskVars>>

\* P2PManager.Close.
ManagerClose ==
  /\ phase = "swapped"
  /\ phase' = "down"
  /\ preparing' = {}
  /\ prepared' = [s \in Sessions |-> None]
  /\ connections' = [p \in Peers |-> None]
  /\ res' = LET shut == UNION {Owns(s) : s \in Sessions}
                ts == {connections[p] : p \in Peers} \ {None}
            IN [x \in Resources |-> IF x \in shut THEN Shut(shut)[x] ELSE HangUp(ts)[x]]
  /\ UNCHANGED <<conf, epoch, known, active, entries, cancelling, taskVars>>

Reconnect ==
  /\ phase = "down"
  /\ epoch < conf.epochs
  /\ phase' = "up"
  /\ epoch' = epoch + 1
  /\ UNCHANGED <<conf, known, active, entries, managerVars, res, taskVars>>

--------------------------------------------------------------------------------
Signal(t, p, s) ==
  \/ OfferICE(t, p, s) \/ ReceiveOffer(t, p, s) \/ ReceiveAnswer(t, p, s)
  \/ ReceiveFallback(t, p, s)

\* A goroutine goes on; what binding, allocating and checking yields is open.
PrepareStep(t) ==
  \/ PrepareBegin(t) \/ PrepareInsert(t) \/ PrepareReturn(t)
  \/ RelayLookup(t) \/ RelayAttach(t) \/ NegotiationStart(t) \/ BeginCheck(t)
  \/ \E ok \in BOOLEAN, x \in Socks : PrepareBind(t, ok, x)
  \/ \E ok \in BOOLEAN, y \in Relays : RelayAllocate(t, ok, y)

CheckStep(t) ==
  \/ Establish(t) \/ Claim(t) \/ Transfer(t) \/ Publish(t) \/ Complete(t) \/ Install(t)
  \/ FailCancel(t) \/ FailEntry(t)
  \/ \E ok \in BOOLEAN :
       CheckDirect(t, ok) \/ RelayTry(t, ok) \/ RelayConnect(t, ok) \/ RelayPunch(t, ok)

EndStep(t) ==
  \/ Monitor(t) \/ MonitorDelete(t)
  \/ FallbackRemove(t) \/ FallbackFail(t) \/ FallbackCancel(t)

TaskStep(t) == PrepareStep(t) \/ CheckStep(t) \/ EndStep(t)

CloseStep == SwapState \/ ManagerClose

Next ==
  \/ \E p \in Peers : LearnPeer(p) \/ EntryExpires(p)
  \/ \E t \in Tasks, p \in Peers, s \in Sessions : Signal(t, p, s)
  \/ \E t \in Tasks : TaskStep(t) \/ SessionEnds(t) \/ ForgetConnection(t)
  \/ \E s \in Sessions : PreparedExpires(s) \/ ContextCancel(s)
  \/ \E y \in Relays : RelayExpires(y)
  \/ Disconnect \/ CloseStep \/ Reconnect

Spec == Init /\ [][Next]_vars

--------------------------------------------------------------------------------
(* Safety.                                                                 *)

\* Every open socket and allocation has an owner that will close it: the
\* preparation that holds it, the goroutine that has yet to hand it over, or
\* a session.  No error path of PrepareICEWithRelay, no expiry, cancellation
\* or Close between two of its steps, and no lost race leaks one.
ResourcesOwned ==
  \A x \in Resources : res[x] \in {"open", "connected"} =>
    \/ \E s \in Sessions : x \in Owns(s)
    \/ \E t \in Tasks : hold[t] = x /\ (pc[t] \in {"insert", "attach", "punch"} \/ t \in live)

\* Two sessions never run on the same socket or allocation, and a preparation
\* that is still in the manager's table never closes one a published session
\* runs on.
SessionsOwnAlone ==
  \A t \in live :
    /\ \A u \in live : hold[u] = hold[t] => u = t
    /\ pc[t] \notin {"transfer", "transferRelay"} => \A s \in Sessions : hold[t] \notin Owns(s)

\* "The exact same socket is later used for connectivity checks": a check runs
\* on the socket whose candidates the offer or answer carried, although the
\* preparation may expire, fail over to direct-only or be cancelled meanwhile.
CheckedSocketAdvertised ==
  \A t \in Tasks : pc[t] = "check" => hold[t] = adv[t]

\* A session leaves the client's table only by its own end, a Fallback for its
\* own session ID, a successor for the peer or the loss of the server: neither
\* the monitor of an earlier session nor a late Fallback removes another one.
SuccessorSurvives ==
  [][\A p \in Peers, t \in live :
       active[p] = t /\ active'[p] = None =>
         \/ phase # phase'
         \/ \E u \in Tasks : pc[u] = "fallback" /\ pc'[u] # pc[u] /\ Session(u) = Session(t)]_vars

--------------------------------------------------------------------------------
(* Liveness: goroutines are scheduled, exchanges with STUN, TURN and the   *)
(* peer end in time, timers fire, contexts reach their AfterFunc, and a    *)
(* session whose context is done or whose connection is closed terminates. *)

\* The consent monitor of the session sees its context or its connection end.
Orphaned(t) == t \in live /\ (CtxDone(t) \/ res[hold[t]] = "closed")

Fairness ==
  /\ \A t \in Tasks :
       /\ WF_vars(TaskStep(t))
       /\ WF_vars(Orphaned(t) /\ SessionEnds(t))
  /\ \A s \in Sessions : WF_vars(PreparedExpires(s)) /\ WF_vars(ContextCancel(s))
  /\ WF_vars(CloseStep)

FairSpec == Spec /\ Fairness

\* Every socket and allocation is closed in the end unless an installed
\* session runs on it: whatever the negotiation came to, and also when Close
\* and the reconnect ran before PrepareICE or a check had finished.
ResourcesReleased ==
  \A x \in Resources :
    (res[x] \in {"open", "connected"})
      ~> (res[x] = "closed" \/ \E t \in live : hold[t] = x /\ active[Peer(t)] = t)

\* A negotiation does not stay in the checking state, which never expires and
\* would keep the peer from negotiating again.
ChecksEnd ==
  \A p \in Peers :
    LET checking == entries[CurrentStore][p] # None /\ entries[CurrentStore][p].state = "checking"
    IN checking ~> ~checking

\* A session that ended leaves the client's table, also one that was installed
\* after closeP2PState had emptied it.
DeadSessionRemoved ==
  \A p \in Peers, t \in Tasks : (active[p] = t /\ t \notin live) ~> (active[p] # t)

================================================================================
