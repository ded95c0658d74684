--------------------------- MODULE P2PSessions_proofs ---------------------------
(***************************************************************************)
(* Proofs about P2PSessions for any peers, sessions, goroutines, sockets   *)
(* and reconnections: nothing open is without an owner, no two sessions    *)
(* share a socket or an allocation, and, when no offer arrives twice, a    *)
(* check runs on the socket its candidates advertised and no session is    *)
(* removed in another one's place.                                         *)
(***************************************************************************)
EXTENDS P2PSessions, FiniteSetTheorems, TLAPS

\* The stages of a goroutine by what it has in its hands: a socket or an
\* allocation nobody else knows yet, ...
NewSock(t) == pc[t] = "insert"
NewRelay(t) == pc[t] = "attach"

\* ... what it checks or connects, ...
OnSock(t) == pc[t] \in {"check", "transfer"}
OnRelay(t) == pc[t] \in {"connect", "punch", "transferRelay"}

\* ... or the connection that a session runs on.
SessionStages == {"transfer", "transferRelay", "publish", "complete", "install", "monitor",
                  "monitorDelete", "done"}

\* The goroutine made a connection of the allocation in its hands.
Connected(t) == pc[t] \in {"punch", "transferRelay"} \/ t \in live

\* Its candidates are known once a preparation exists or an answer was read.
Advertising(t) == pc[t] \in {"inserted", "relay", "allocate", "attach", "start",
                             "establish", "claim", "check"}

\* A goroutine has a job from its first step on, the candidates of its stage, and
\* what it holds is of the kind its stage works on; only a goroutine that found a
\* path has a session.
StagesFit ==
  /\ \A t \in Tasks : job[t] = None <=> pc[t] = "idle"
  /\ \A t \in Tasks : Advertising(t) => adv[t] \in Socks
  /\ \A t \in Tasks : NewSock(t) \/ OnSock(t) => hold[t] \in Socks
  /\ \A t \in Tasks : NewRelay(t) \/ OnRelay(t) => hold[t] \in Relays
  /\ \A t \in live : pc[t] \in SessionStages /\ hold[t] \in Resources

\* What is held or prepared was bound or allocated.
NothingUnused ==
  /\ \A t \in Tasks : hold[t] # None => res[hold[t]] # "unused"
  /\ \A s \in Sessions : \A x \in Owns(s) : x # None => res[x] # "unused"

\* No two preparations share a socket or an allocation.
OwnsDisjoint ==
  \A s, r \in Sessions : \A x \in Resources : x \in Owns(s) /\ x \in Owns(r) => s = r

\* What a goroutine is about to hand over is known to nobody else.
NewAlone ==
  \A t \in Tasks : NewSock(t) \/ NewRelay(t) =>
    /\ \A s \in Sessions : hold[t] \notin Owns(s)
    /\ \A u \in Tasks : hold[u] = hold[t] => u = t

\* A preparation is claimed by one goroutine, which alone has its socket in hand.
ClaimedOnce ==
  /\ \A t, u \in Tasks : hold[t] \in Socks /\ hold[u] = hold[t] => u = t
  /\ \A s \in Sessions : prepared[s] # None /\ ~prepared[s].claimed =>
       \A t \in Tasks : hold[t] # prepared[s].sock

\* A check works on the preparation of its own session and on no other.
ChecksOwn ==
  \A t \in Tasks : OnSock(t) \/ OnRelay(t) =>
    \A s \in Sessions : hold[t] \in Owns(s) => s = Session(t)

\* One goroutine connects an allocation: it is open before and never again.
ConnectedOnce ==
  /\ \A y \in Relays, t \in Tasks : res[y] = "open" /\ hold[t] = y => ~Connected(t)
  /\ \A t, u \in Tasks :
       (hold[t] \in Relays /\ hold[u] = hold[t] /\ Connected(t) /\ Connected(u)) => u = t

\* A connection belongs to the goroutine that made it or to its session.
ConnectedHeld ==
  \A x \in Resources : res[x] = "connected" =>
    \E t \in Tasks : hold[t] = x /\ (pc[t] = "punch" \/ t \in live)

\* A connection that is being transferred is alive or was closed.
TransfersLive ==
  \A t \in Tasks : pc[t] \in {"transfer", "transferRelay"} =>
    t \in live \/ res[hold[t]] = "closed"

\* The inductive invariant, whether or not offers arrive twice.
SessionsInv ==
  /\ TypeOK
  /\ StagesFit
  /\ NothingUnused
  /\ OwnsDisjoint
  /\ NewAlone
  /\ ClaimedOnce
  /\ ChecksOwn
  /\ ConnectedOnce
  /\ ConnectedHeld
  /\ TransfersLive
  /\ ResourcesOwned
  /\ SessionsOwnAlone

\* A goroutine that prepares a session, and one that checks or runs it.
Prepares(t) == pc[t] \in PrepareStages \ {"begin"}
Checks(t) == pc[t] \in CheckStages \cup FailStages \cup {"monitor", "monitorDelete"}

\* The session has been seen before.
Used(s) == \E t \in Tasks : job[t] # None /\ Session(t) = s

\* Negotiations and preparations are of sessions some goroutine works on.
KnownUsed ==
  /\ \A e \in Epochs, p \in Peers : entries[e][p] # None => Used(entries[e][p].session)
  /\ \A s \in Sessions : prepared[s] # None => Used(s)

\* One goroutine prepares a session, before it is in the store.
PreparedFirst ==
  \A t \in Tasks : Prepares(t) =>
    /\ \A u \in Tasks : (u # t /\ job[u] # None /\ Session(u) = Session(t))
                        => ~Prepares(u) /\ ~Checks(u)
    /\ \A e \in Epochs, p \in Peers : entries[e][p] # None =>
         entries[e][p].session # Session(t)

\* A session has one negotiation and one check, which ends the pending state.
CheckedOnce ==
  /\ \A e, f \in Epochs, p, q \in Peers :
       ( /\ entries[e][p] # None /\ entries[f][q] # None
         /\ entries[e][p].session = entries[f][q].session )
       => e = f /\ p = q
  /\ \A e \in Epochs, p \in Peers : entries[e][p] # None /\ entries[e][p].state = "pending" =>
       \A t \in Tasks : Checks(t) => Session(t) # entries[e][p].session
  /\ \A t, u \in Tasks : Checks(t) /\ Checks(u) /\ Session(t) = Session(u) => t = u

\* The stages between a preparation and its claim.
Advertises(t) == pc[t] \in {"inserted", "relay", "allocate", "attach", "start", "establish", "claim"}

\* The candidates of a goroutine or a negotiation name the socket of the session's
\* preparation for as long as there is one.
SocketAdvertised ==
  /\ \A t \in Tasks : Advertises(t) /\ prepared[Session(t)] # None =>
       prepared[Session(t)].sock = adv[t]
  /\ \A e \in Epochs, p \in Peers : entries[e][p] # None =>
       (prepared[entries[e][p].session] # None =>
          prepared[entries[e][p].session].sock = entries[e][p].adv)

\* The client's table names goroutines that installed a session, and while the
\* session is alive they wait for its end.
ActiveMonitored ==
  \A p \in Peers : active[p] # None =>
    /\ pc[active[p]] \in {"monitor", "monitorDelete", "done"}
    /\ active[p] \in live => pc[active[p]] = "monitor"

\* The inductive invariant when no offer arrives twice.
OnceInv ==
  /\ SessionsInv
  /\ KnownUsed
  /\ PreparedFirst
  /\ CheckedOnce
  /\ SocketAdvertised
  /\ CheckedSocketAdvertised
  /\ ActiveMonitored

--------------------------------------------------------------------------------
(* The case split and the types.                                           *)

\* A goroutine's step, by what the exchanges it waits for yield.
LEMMA TaskCases ==
  ASSUME NEW t \in Tasks, TaskStep(t)
  PROVE  \/ PrepareBegin(t) \/ PrepareInsert(t) \/ PrepareReturn(t) \/ RelayLookup(t)
         \/ RelayAttach(t) \/ NegotiationStart(t) \/ BeginCheck(t)
         \/ \E ok \in BOOLEAN, x \in Socks : PrepareBind(t, ok, x)
         \/ \E ok \in BOOLEAN, y \in Relays : RelayAllocate(t, ok, y)
         \/ Establish(t) \/ Claim(t) \/ Transfer(t) \/ Publish(t) \/ Complete(t) \/ Install(t)
         \/ FailCancel(t) \/ FailEntry(t)
         \/ \E ok \in BOOLEAN :
              CheckDirect(t, ok) \/ RelayTry(t, ok) \/ RelayConnect(t, ok) \/ RelayPunch(t, ok)
         \/ Monitor(t) \/ MonitorDelete(t)
         \/ FallbackRemove(t) \/ FallbackFail(t) \/ FallbackCancel(t)
BY DEF TaskStep, PrepareStep, CheckStep, EndStep

\* The configuration of the client and the stores it leads to.
LEMMA Configured ==
  ASSUME TypeOK
  PROVE  /\ conf.initiates \subseteq Peers /\ conf.turn \in BOOLEAN /\ conf.epochs \in 0..MaxEpoch
         /\ epoch \in Epochs /\ CurrentStore \in Epochs
BY SessionsAssumption DEF TypeOK, Clients, CurrentStore, Epochs

\* Closing keeps sockets and allocations in their states.
LEMMA ClosingTyped ==
  ASSUME TypeOK
  PROVE  /\ \A xs : Shut(xs) \in [Resources -> {"unused", "open", "connected", "closed"}]
         /\ \A ts : HangUp(ts) \in [Resources -> {"unused", "open", "connected", "closed"}]
BY DEF TypeOK, Shut, HangUp

\* The types of what a goroutine keeps for itself.
TaskTypes ==
  /\ pc \in [Tasks -> Stages]
  /\ job \in [Tasks -> Jobs \cup {None}]
  /\ hold \in [Tasks -> Resources \cup {None}]
  /\ adv \in [Tasks -> Socks \cup {None}]
  /\ turn \in [Tasks -> BOOLEAN]
  /\ live \subseteq Tasks

\* The types of what goroutines share.
SharedTypes ==
  /\ phase \in {"up", "cancelled", "swapped", "down"}
  /\ conf \in Configs
  /\ epoch \in 0..MaxEpoch
  /\ known \subseteq Peers
  /\ active \in [Peers -> Tasks \cup {None}]
  /\ preparing \subseteq Sessions
  /\ cancelling \subseteq Sessions
  /\ connections \in [Peers -> Tasks \cup {None}]
  /\ entries \in [Epochs -> [Peers -> Negotiations \cup {None}]]
  /\ prepared \in [Sessions -> Preparations \cup {None}]
  /\ res \in [Resources -> {"unused", "open", "connected", "closed"}]

\* A goroutine past its first step has a job.
LEMMA HasJob ==
  ASSUME TypeOK, StagesFit, NEW t \in Tasks, pc[t] # "idle"
  PROVE  /\ job[t] \in Jobs /\ Peer(t) \in Peers /\ Session(t) \in Sessions
         /\ job[t].epoch \in Epochs /\ job[t].store \in Epochs
BY DEF TypeOK, StagesFit, Jobs, Peer, Session

\* A step keeps the types of the goroutines.
LEMMA TaskTypesNext ==
  ASSUME TypeOK, StagesFit, [Next]_vars
  PROVE  TaskTypes'
<1> USE DEF TaskTypes
<1>1. TaskTypes
  BY DEF TypeOK
<1>2. ASSUME NEW p \in Peers, LearnPeer(p) \/ EntryExpires(p) PROVE TaskTypes'
  BY <1>1, <1>2 DEF LearnPeer, EntryExpires, taskVars
<1>3. ASSUME NEW t \in Tasks, NEW p \in Peers, NEW s \in Sessions, Signal(t, p, s)
      PROVE  TaskTypes'
  <2>1. conf.turn \in BOOLEAN /\ epoch \in Epochs
    BY Configured
  <2>2. ASSUME NEW stage \in Stages, Begin(t, p, s, stage)
        PROVE  /\ pc' \in [Tasks -> Stages] /\ turn' \in [Tasks -> BOOLEAN]
               /\ job' \in [Tasks -> Jobs \cup {None}]
    BY <1>1, <2>1, <2>2 DEF Begin, Goto, Jobs
  <2>3. CASE OfferICE(t, p, s)
    BY <1>1, <2>2, <2>3 DEF OfferICE, Stages, PrepareStages
  <2>4. CASE ReceiveOffer(t, p, s)
    BY <1>1, <2>2, <2>4 DEF ReceiveOffer, Stages, PrepareStages
  <2>5. CASE ReceiveAnswer(t, p, s)
    <3>1. entries[epoch][p].adv \in Socks
      BY <2>1, <2>5 DEF TypeOK, ReceiveAnswer, Negotiations
    <3> QED BY <1>1, <2>2, <2>5, <3>1 DEF ReceiveAnswer, Advertise, Stages, CheckStages
  <2>6. CASE ReceiveFallback(t, p, s)
    BY <1>1, <2>2, <2>6 DEF ReceiveFallback, Stages, FallbackStages
  <2> QED BY <1>3, <2>3, <2>4, <2>5, <2>6 DEF Signal
<1>4. ASSUME NEW t \in Tasks, TaskStep(t) PROVE TaskTypes'
  <2> DEFINE s == Session(t)
  <2>1. ASSUME NEW stage \in Stages, Goto(t, stage) PROVE pc' \in [Tasks -> Stages]
    BY <1>1, <2>1 DEF Goto
  <2>2. {"done", "insert", "inserted", "relay", "allocate", "attach", "start", "begin", "prepare",
         "bind", "claim", "check", "relayTry", "connect", "punch", "transfer", "transferRelay",
         "publish", "complete", "install", "monitor", "monitorDelete", "establish",
         "failEntry", "failCancel", "failCancelAgain", "fallbackFail", "fallbackCancel"}
        \subseteq Stages
    BY DEF Stages, PrepareStages, CheckStages, FailStages, FallbackStages
  <2>3. pc[t] # "idle" => s \in Sessions /\ Peer(t) \in Peers /\ job[t] \in Jobs
    BY HasJob
  <2>4. prepared[s] # None /\ s \in Sessions =>
          /\ prepared[s].sock \in Socks /\ prepared[s].relay \in Relays \cup {None}
    BY DEF TypeOK, Preparations
  <2>5. PrepareError(t) => pc' \in [Tasks -> Stages] /\ turn' \in [Tasks -> BOOLEAN]
    BY <1>1, <2>1, <2>2 DEF PrepareError
  <2>6. Prepared(t) => pc' \in [Tasks -> Stages]
    BY <2>1, <2>2 DEF Prepared
  <2>7. \A x \in Socks : Advertise(t, x) \in [Tasks -> Socks \cup {None}]
    BY <1>1 DEF Advertise
  <2>8. PrepareBegin(t) => TaskTypes'
    BY <1>1, <2>1, <2>2, <2>3, <2>4, <2>5, <2>6, <2>7 DEF PrepareBegin
  <2>9. PrepareInsert(t) => TaskTypes'
    BY <1>1, <2>1, <2>2, <2>3, <2>4, <2>5, <2>6, <2>7 DEF PrepareInsert, StagesFit, NewSock
  <2>10. PrepareReturn(t) \/ RelayLookup(t) => TaskTypes'
    BY <1>1, <2>1, <2>2, <2>6 DEF PrepareReturn, RelayLookup
  <2>11. RelayAttach(t) => TaskTypes'
    BY <1>1, <2>1, <2>2, <2>5 DEF RelayAttach
  <2>12. NegotiationStart(t) => TaskTypes'
    BY <1>1, <2>1, <2>2 DEF NegotiationStart
  <2>13. BeginCheck(t) => TaskTypes'
    <3>1. pc[t] = "begin" /\ Entry(t) # None => Entry(t).adv \in Socks
      BY HasJob DEF TypeOK, Entry, Negotiations, Peer
    <3> QED BY <1>1, <2>1, <2>2, <2>7, <3>1 DEF BeginCheck, Negotiating
  <2>14. ASSUME NEW ok \in BOOLEAN, NEW x \in Socks, PrepareBind(t, ok, x) PROVE TaskTypes'
    BY <1>1, <2>1, <2>2, <2>5, <2>14 DEF PrepareBind, Resources
  <2>15. ASSUME NEW ok \in BOOLEAN, NEW y \in Relays, RelayAllocate(t, ok, y) PROVE TaskTypes'
    BY <1>1, <2>1, <2>2, <2>5, <2>15 DEF RelayAllocate, Resources
  <2>16. Establish(t) => TaskTypes'
    <3>1. Establish(t) => job' \in [Tasks -> Jobs \cup {None}]
      BY <1>1, <2>3, Configured DEF Establish, Jobs
    <3> QED BY <1>1, <2>1, <2>2, <3>1 DEF Establish
  <2>17. Claim(t) => TaskTypes'
    BY <1>1, <2>1, <2>2, <2>3, <2>4 DEF Claim, Resources
  <2>18. Transfer(t) \/ Publish(t) \/ Complete(t) \/ Install(t) \/ FailCancel(t) \/ FailEntry(t)
           => TaskTypes'
    BY <1>1, <2>1, <2>2 DEF Transfer, Publish, Complete, Install, FailCancel, FailEntry
  <2>19. ASSUME NEW ok \in BOOLEAN,
                CheckDirect(t, ok) \/ RelayTry(t, ok) \/ RelayConnect(t, ok) \/ RelayPunch(t, ok)
         PROVE  TaskTypes'
    BY <1>1, <2>1, <2>2, <2>3, <2>4, <2>19 DEF CheckDirect, RelayTry, RelayConnect, RelayPunch,
       Resources
  <2>20. Monitor(t) \/ MonitorDelete(t) \/ FallbackRemove(t) \/ FallbackFail(t)
           \/ FallbackCancel(t) => TaskTypes'
    BY <1>1, <2>1, <2>2 DEF Monitor, MonitorDelete, FallbackRemove, FallbackFail, FallbackCancel
  <2> QED BY <1>4, TaskCases, <2>8, <2>9, <2>10, <2>11, <2>12, <2>13, <2>14, <2>15, <2>16, <2>17,
             <2>18, <2>19, <2>20
<1>5. ASSUME NEW t \in Tasks, SessionEnds(t) \/ ForgetConnection(t) PROVE TaskTypes'
  BY <1>1, <1>5 DEF SessionEnds, ForgetConnection, taskVars
<1>6. ASSUME NEW s \in Sessions, PreparedExpires(s) \/ ContextCancel(s) PROVE TaskTypes'
  BY <1>1, <1>6 DEF PreparedExpires, ContextCancel, taskVars
<1>7. ASSUME NEW y \in Relays, RelayExpires(y) PROVE TaskTypes'
  BY <1>1, <1>7 DEF RelayExpires, taskVars
<1>8. CASE Disconnect \/ CloseStep \/ Reconnect
  BY <1>1, <1>8 DEF Disconnect, CloseStep, SwapState, ManagerClose, Reconnect, taskVars
<1>9. CASE UNCHANGED vars
  BY <1>1, <1>9 DEF vars, taskVars
<1> QED BY <1>2, <1>3, <1>4, <1>5, <1>6, <1>7, <1>8, <1>9 DEF Next

\* Setting a negotiation keeps the type of the stores.
LEMMA SetEntryTyped ==
  ASSUME TypeOK, StagesFit, NEW t \in Tasks, pc[t] # "idle", NEW n \in Negotiations \cup {None},
         SetEntry(t, n)
  PROVE  entries' \in [Epochs -> [Peers -> Negotiations \cup {None}]]
<1>1. job[t].store \in Epochs /\ job[t].peer \in Peers
  BY HasJob DEF Peer
<1> QED BY <1>1 DEF SetEntry, TypeOK

\* What a goroutine finds in its store.
LEMMA EntryTyped ==
  ASSUME TypeOK, StagesFit, NEW t \in Tasks, pc[t] # "idle"
  PROVE  /\ Entry(t) \in Negotiations \cup {None}
         /\ DeleteEntry(t) => entries' \in [Epochs -> [Peers -> Negotiations \cup {None}]]
<1>1. job[t].store \in Epochs /\ job[t].peer \in Peers
  BY HasJob DEF Peer
<1>2. Entry(t) \in Negotiations \cup {None}
  BY <1>1 DEF Entry, TypeOK
<1> QED BY <1>2, SetEntryTyped DEF DeleteEntry, TypeOK

\* A step keeps the types of what goroutines share.
LEMMA SharedTypesNext ==
  ASSUME TypeOK, StagesFit, [Next]_vars
  PROVE  SharedTypes'
<1> USE DEF SharedTypes
<1>1. SharedTypes
  BY DEF TypeOK
<1>2. ASSUME NEW s \in Sessions, CancelPrepared(s)
      PROVE  /\ prepared' \in [Sessions -> Preparations \cup {None}]
             /\ res' \in [Resources -> {"unused", "open", "connected", "closed"}]
  BY <1>1, <1>2, ClosingTyped DEF CancelPrepared
<1>3. ASSUME NEW p \in Peers, LearnPeer(p) \/ EntryExpires(p) PROVE SharedTypes'
  BY <1>1, <1>3, Configured DEF LearnPeer, EntryExpires, managerVars, clientVars
<1>4. ASSUME NEW t \in Tasks, NEW p \in Peers, NEW s \in Sessions, Signal(t, p, s)
      PROVE  SharedTypes'
  <2>1. CASE OfferICE(t, p, s)
    BY <1>1, <2>1 DEF OfferICE, managerVars
  <2>2. CASE ReceiveOffer(t, p, s) \/ ReceiveFallback(t, p, s)
    BY <1>1, <2>2 DEF ReceiveOffer, ReceiveFallback, managerVars, clientVars
  <2>3. CASE ReceiveAnswer(t, p, s)
    <3>1. epoch \in Epochs /\ entries[epoch][p] \in Negotiations
      BY <1>1, <2>3, Configured DEF ReceiveAnswer
    <3>2. entries' \in [Epochs -> [Peers -> Negotiations \cup {None}]]
      <4>1. [entries[epoch][p] EXCEPT !.state = "checking"] \in Negotiations
        BY <3>1 DEF Negotiations
      <4>2. entries' = [entries EXCEPT ![epoch] =
                          [entries[epoch] EXCEPT ![p] =
                             [entries[epoch][p] EXCEPT !.state = "checking"]]]
        BY <2>3 DEF ReceiveAnswer
      <4> QED BY <1>1, <3>1, <4>1, <4>2
    <3> QED BY <1>1, <2>3, <3>2 DEF ReceiveAnswer, managerVars, clientVars
  <2> QED BY <1>4, <2>1, <2>2, <2>3 DEF Signal
<1>5. ASSUME NEW t \in Tasks, TaskStep(t) PROVE SharedTypes'
  <2> DEFINE s == Session(t)
  <2> USE DEF managerVars, clientVars
  <2>1. pc[t] # "idle" => s \in Sessions /\ Peer(t) \in Peers
    BY HasJob
  <2>2. \A x \in Socks \cup Relays : x \in Resources
    BY DEF Resources
  <2>3. PrepareBegin(t) \/ RelayLookup(t) => SharedTypes'
    BY <1>1, <2>1 DEF PrepareBegin, RelayLookup
  <2>4. ASSUME NEW ok \in BOOLEAN, NEW x \in Socks, PrepareBind(t, ok, x) PROVE SharedTypes'
    BY <1>1, <2>1, <2>2, <2>4 DEF PrepareBind
  <2>5. PrepareInsert(t) => SharedTypes'
    <3>1. pc[t] = "insert" => hold[t] \in Socks /\ job[t].epoch \in Epochs
      BY HasJob DEF StagesFit, NewSock
    <3>2. pc[t] = "insert" =>
            [sock |-> hold[t], relay |-> None, claimed |-> FALSE, epoch |-> job[t].epoch]
              \in Preparations
      BY <3>1 DEF Preparations
    <3>3. PrepareInsert(t) => prepared' \in [Sessions -> Preparations \cup {None}]
      BY <1>1, <2>1, <3>2 DEF PrepareInsert
    <3>4. PrepareInsert(t) => res' \in [Resources -> {"unused", "open", "connected", "closed"}]
      BY <1>1, <2>1, ClosingTyped DEF PrepareInsert
    <3>5. PrepareInsert(t) => preparing' \subseteq Sessions /\ cancelling' \subseteq Sessions
      BY <1>1, <2>1 DEF PrepareInsert
    <3> QED BY <1>1, <3>3, <3>4, <3>5 DEF PrepareInsert
  <2>6. PrepareReturn(t) => SharedTypes'
    BY <1>1, <1>2, <2>1 DEF PrepareReturn
  <2>7. ASSUME NEW ok \in BOOLEAN, NEW y \in Relays, RelayAllocate(t, ok, y) PROVE SharedTypes'
    BY <1>1, <1>2, <2>1, <2>2, <2>7 DEF RelayAllocate
  <2>8. RelayAttach(t) => SharedTypes'
    <3>1. pc[t] = "attach" /\ prepared[s] # None =>
            [prepared[s] EXCEPT !.relay = hold[t]] \in Preparations
      BY <1>1, <2>1 DEF StagesFit, NewRelay, Preparations
    <3> QED BY <1>1, <2>1, <3>1, ClosingTyped DEF RelayAttach
  <2>9. NegotiationStart(t) => SharedTypes'
    <3> DEFINE mine == [session |-> Session(t), state |-> "pending", adv |-> adv[t]]
    <3>1. pc[t] = "start" => mine \in Negotiations
      BY <2>1 DEF StagesFit, Advertising, Negotiations
    <3>2. pc[t] = "start" => (IF Negotiating(t) THEN Entry(t) ELSE mine) \in Negotiations \cup {None}
      BY <3>1, EntryTyped
    <3> QED BY <1>1, <1>2, <2>1, <3>2, SetEntryTyped DEF NegotiationStart
  <2>10. BeginCheck(t) \/ Complete(t) => SharedTypes'
    <3>1. pc[t] # "idle" /\ Entry(t) # None =>
            /\ [Entry(t) EXCEPT !.state = "checking"] \in Negotiations
            /\ [Entry(t) EXCEPT !.state = "completed"] \in Negotiations
      BY EntryTyped DEF Negotiations
    <3> QED BY <1>1, <3>1, SetEntryTyped, ClosingTyped DEF BeginCheck, Complete, Negotiating
  <2>11. Establish(t) => SharedTypes'
    BY <1>1 DEF Establish
  <2>12. Claim(t) => SharedTypes'
    <3>1. pc[t] = "claim" /\ prepared[s] # None =>
            [prepared[s] EXCEPT !.claimed = TRUE] \in Preparations
      BY <1>1, <2>1 DEF Preparations
    <3> QED BY <1>1, <2>1, <3>1 DEF Claim
  <2>13. ASSUME NEW ok \in BOOLEAN,
                CheckDirect(t, ok) \/ RelayTry(t, ok) \/ RelayConnect(t, ok) \/ RelayPunch(t, ok)
         PROVE  SharedTypes'
    BY <1>1, <2>1, <2>13, ClosingTyped DEF CheckDirect, RelayTry, RelayConnect, RelayPunch
  <2>14. Transfer(t) \/ Publish(t) => SharedTypes'
    BY <1>1, <2>1, ClosingTyped DEF Transfer, Publish
  <2>15. Install(t) => SharedTypes'
    BY <1>1, <2>1, ClosingTyped DEF Install
  <2>16. FailCancel(t) \/ FallbackCancel(t) => SharedTypes'
    BY <1>1, <1>2, <2>1 DEF FailCancel, FallbackCancel
  <2>17. FailEntry(t) \/ MonitorDelete(t) \/ FallbackFail(t) => SharedTypes'
    BY <1>1, EntryTyped DEF FailEntry, MonitorDelete, FallbackFail
  <2>18. Monitor(t) \/ FallbackRemove(t) => SharedTypes'
    BY <1>1, <2>1, ClosingTyped DEF Monitor, FallbackRemove, RemoveIfMatch
  <2> QED BY <1>5, TaskCases, <2>3, <2>4, <2>5, <2>6, <2>7, <2>8, <2>9, <2>10, <2>11, <2>12, <2>13,
             <2>14, <2>15, <2>16, <2>17, <2>18
<1>6. ASSUME NEW t \in Tasks, SessionEnds(t) \/ ForgetConnection(t) PROVE SharedTypes'
  BY <1>1, <1>6, ClosingTyped DEF SessionEnds, ForgetConnection, clientVars, managerVars
<1>7. ASSUME NEW s \in Sessions, PreparedExpires(s) \/ ContextCancel(s) PROVE SharedTypes'
  BY <1>1, <1>2, <1>7 DEF PreparedExpires, ContextCancel, clientVars
<1>8. ASSUME NEW y \in Relays, RelayExpires(y) PROVE SharedTypes'
  BY <1>1, <1>8 DEF RelayExpires, clientVars, managerVars
<1>9. CASE Disconnect \/ SwapState
  BY <1>1, <1>9, ClosingTyped DEF Disconnect, SwapState, managerVars
<1>10. CASE ManagerClose
  <2>1. res' \in [Resources -> {"unused", "open", "connected", "closed"}]
    BY <1>10, ClosingTyped DEF ManagerClose
  <2> QED BY <1>1, <1>10, <2>1 DEF ManagerClose
<1>11. CASE Reconnect
  BY <1>1, <1>11, Configured, SessionsAssumption DEF Reconnect, managerVars
<1>12. CASE UNCHANGED vars
  BY <1>1, <1>12 DEF vars, clientVars, managerVars
<1> QED BY <1>3, <1>4, <1>5, <1>6, <1>7, <1>8, <1>9, <1>10, <1>11, <1>12 DEF Next, CloseStep

\* A step keeps all types.
LEMMA TypesNext ==
  ASSUME TypeOK, StagesFit, [Next]_vars
  PROVE  TypeOK'
BY TaskTypesNext, SharedTypesNext DEF TypeOK, TaskTypes, SharedTypes

\* What StagesFit says of one goroutine after a step.
FitsNext(u) ==
  /\ job'[u] = None <=> pc'[u] = "idle"
  /\ pc'[u] \in {"inserted", "relay", "allocate", "attach", "start",
                 "establish", "claim", "check"} => adv'[u] \in Socks
  /\ pc'[u] \in {"insert", "check", "transfer"} => hold'[u] \in Socks
  /\ pc'[u] \in {"attach", "connect", "punch", "transferRelay"} => hold'[u] \in Relays
  /\ u \in live' => pc'[u] \in SessionStages /\ hold'[u] \in Resources

\* The goroutine is where it was, with what it had.
Rests(u) ==
  /\ pc'[u] = pc[u] /\ adv'[u] = adv[u] /\ hold'[u] = hold[u]
  /\ job'[u] = None <=> job[u] = None
  /\ u \in live' => u \in live

\* Goroutines that rest fit their stages.
LEMMA RestsFits ==
  ASSUME TypeOK', StagesFit, \A u \in Tasks : Rests(u) \/ FitsNext(u)
  PROVE  StagesFit'
<1> USE DEF StagesFit, Advertising, NewSock, NewRelay, OnSock, OnRelay, SessionStages
<1>1. \A u \in Tasks : FitsNext(u)
  <2> TAKE u \in Tasks
  <2>1. CASE Rests(u)
    BY <2>1 DEF Rests, FitsNext
  <2> QED BY <2>1
<1>2. live' \subseteq Tasks
  BY DEF TypeOK
<1>3. \A t \in Tasks : job'[t] = None <=> pc'[t] = "idle"
  BY <1>1 DEF FitsNext
<1>4. (\A t \in Tasks : Advertising(t) => adv[t] \in Socks)'
  BY <1>1 DEF FitsNext
<1>5. (\A t \in Tasks : NewSock(t) \/ OnSock(t) => hold[t] \in Socks)'
  BY <1>1 DEF FitsNext
<1>6. (\A t \in Tasks : NewRelay(t) \/ OnRelay(t) => hold[t] \in Relays)'
  BY <1>1 DEF FitsNext
<1>7. (\A t \in live : pc[t] \in SessionStages /\ hold[t] \in Resources)'
  BY <1>1, <1>2 DEF FitsNext
<1> QED BY <1>3, <1>4, <1>5, <1>6, <1>7

\* A goroutine that takes up a job, and the others.
LEMMA BeginMoves ==
  ASSUME TypeOK, TypeOK', NEW t \in Tasks, NEW p \in Peers, NEW s \in Sessions,
         NEW stage \in Stages, Begin(t, p, s, stage)
  PROVE  /\ pc[t] = "idle" /\ pc'[t] = stage
         /\ job'[t] = [peer |-> p, session |-> s, epoch |-> epoch, store |-> epoch]
         /\ job'[t] # None
         /\ \A u \in Tasks : u # t => pc'[u] = pc[u] /\ job'[u] = job[u]
<1>1. [peer |-> p, session |-> s, epoch |-> epoch, store |-> epoch] \in Jobs
  BY Configured DEF Jobs
<1>2. job \in [Tasks -> Jobs \cup {None}] /\ pc \in [Tasks -> Stages]
  BY DEF TypeOK
<1>3. /\ pc[t] = "idle" /\ pc' = [pc EXCEPT ![t] = stage]
      /\ job' = [job EXCEPT ![t] = [peer |-> p, session |-> s, epoch |-> epoch, store |-> epoch]]
  BY DEF Begin, Goto
<1>4. job'[t] = [peer |-> p, session |-> s, epoch |-> epoch, store |-> epoch]
  BY <1>2, <1>3
<1>5. job'[t] # None
  BY <1>1, <1>4, SessionsAssumption
<1> QED BY <1>2, <1>3, <1>4, <1>5

\* A step to another stage.
LEMMA GotoMoves ==
  ASSUME TypeOK, NEW t \in Tasks, NEW stage, Goto(t, stage)
  PROVE  pc'[t] = stage /\ \A u \in Tasks : u # t => pc'[u] = pc[u]
BY DEF Goto, TypeOK

\* A goroutine keeps its session, its job and its session's peer.
LEMMA JobsKept ==
  ASSUME TypeOK, StagesFit, [Next]_vars
  PROVE  \A u \in Tasks : job[u] # None =>
           /\ job'[u] # None /\ job'[u].session = job[u].session /\ job'[u].peer = job[u].peer
           /\ job'[u].epoch = job[u].epoch
<1>0. TypeOK' /\ job \in [Tasks -> Jobs \cup {None}]
  BY TypesNext DEF TypeOK
<1>1. CASE UNCHANGED job
  BY <1>1
<1>2. ASSUME NEW t \in Tasks, NEW p \in Peers, NEW s \in Sessions, Signal(t, p, s)
      PROVE  \A u \in Tasks : job[u] # None => job'[u] = job[u]
  <2>1. \E stage \in Stages : Begin(t, p, s, stage)
    BY <1>2 DEF Signal, OfferICE, ReceiveOffer, ReceiveAnswer, ReceiveFallback, Stages,
       PrepareStages, CheckStages, FallbackStages
  <2>2. pc[t] = "idle" /\ \A u \in Tasks : u # t => job'[u] = job[u]
    BY <1>0, <2>1, BeginMoves
  <2> QED BY <2>2 DEF StagesFit
<1>3. ASSUME NEW t \in Tasks, Establish(t)
      PROVE  \A u \in Tasks : job[u] # None =>
               /\ job'[u] # None /\ job'[u].session = job[u].session /\ job'[u].peer = job[u].peer
               /\ job'[u].epoch = job[u].epoch
  <2>1. job[t] \in Jobs /\ job' = [job EXCEPT ![t] = [job[t] EXCEPT !.store = CurrentStore]]
    BY <1>3, HasJob DEF Establish
  <2>2. job'[t] = [job[t] EXCEPT !.store = CurrentStore] /\ \A u \in Tasks : u # t => job'[u] = job[u]
    BY <1>0, <2>1
  <2>3. job'[t] \in Jobs
    BY <2>1, <2>2, Configured DEF Jobs
  <2>4. job'[t].session = job[t].session /\ job'[t].peer = job[t].peer /\ job'[t].epoch = job[t].epoch
    BY <2>1, <2>2 DEF Jobs
  <2> QED BY <2>2, <2>3, <2>4, SessionsAssumption
<1>4. ASSUME NEW t \in Tasks, TaskStep(t) PROVE UNCHANGED job \/ Establish(t)
  BY <1>4, TaskCases DEF PrepareBegin, PrepareInsert, PrepareReturn, RelayLookup, RelayAttach,
     NegotiationStart, BeginCheck, PrepareBind, RelayAllocate, Claim, Transfer, Publish,
     Complete, Install, FailCancel, FailEntry, CheckDirect, RelayTry, RelayConnect, RelayPunch,
     Monitor, MonitorDelete, FallbackRemove, FallbackFail, FallbackCancel
<1>5. ASSUME NEW p \in Peers, LearnPeer(p) \/ EntryExpires(p) PROVE UNCHANGED job
  BY <1>5 DEF LearnPeer, EntryExpires, taskVars
<1>6. ASSUME NEW t \in Tasks, SessionEnds(t) \/ ForgetConnection(t) PROVE UNCHANGED job
  BY <1>6 DEF SessionEnds, ForgetConnection, taskVars
<1>7. ASSUME NEW s \in Sessions, PreparedExpires(s) \/ ContextCancel(s) PROVE UNCHANGED job
  BY <1>7 DEF PreparedExpires, ContextCancel, taskVars
<1>8. ASSUME NEW y \in Relays, RelayExpires(y) PROVE UNCHANGED job
  BY <1>8 DEF RelayExpires, taskVars
<1>9. CASE Disconnect \/ CloseStep \/ Reconnect \/ UNCHANGED vars
  BY <1>9, <1>1 DEF Disconnect, CloseStep, SwapState, ManagerClose, Reconnect, vars, taskVars
<1> QED BY <1>1, <1>2, <1>3, <1>4, <1>5, <1>6, <1>7, <1>8, <1>9 DEF Next

\* A step leaves every goroutine but one where it was, and that one fits its new
\* stage.
LEMMA StagesFitNext ==
  ASSUME TypeOK, StagesFit, [Next]_vars
  PROVE  StagesFit'
<1>0. TypeOK'
  BY TypesNext
<1> DEFINE Alone(t) == FitsNext(t) /\ \A u \in Tasks \ {t} : Rests(u)
<1>1. ASSUME \A u \in Tasks : Rests(u) PROVE StagesFit'
  BY <1>0, <1>1, RestsFits
<1>2. ASSUME NEW t \in Tasks, Alone(t) PROVE StagesFit'
  BY <1>0, <1>2, RestsFits
<1>3. ASSUME NEW p \in Peers, LearnPeer(p) \/ EntryExpires(p) PROVE \A u \in Tasks : Rests(u)
  BY <1>3 DEF LearnPeer, EntryExpires, taskVars, Rests
<1>4. ASSUME NEW t \in Tasks, NEW p \in Peers, NEW s \in Sessions, Signal(t, p, s)
      PROVE  Alone(t)
  <2>1. t \notin live \/ pc[t] # "idle"
    BY DEF StagesFit, SessionStages
  <2>2. ASSUME NEW stage, stage \in {"prepare", "establish", "fallback"}, Begin(t, p, s, stage),
               UNCHANGED <<hold, live>>, \A u \in Tasks \ {t} : adv'[u] = adv[u],
               stage = "establish" => adv'[t] \in Socks
        PROVE  Alone(t)
    <3>1. /\ pc[t] = "idle" /\ pc'[t] = stage /\ job'[t] # None
          /\ \A u \in Tasks : u # t => pc'[u] = pc[u] /\ job'[u] = job[u]
      <4>1. stage \in Stages
        BY <2>2 DEF Stages, PrepareStages, CheckStages, FallbackStages
      <4> QED BY <1>0, <2>2, <4>1, BeginMoves
    <3>2. FitsNext(t)
      BY <2>1, <2>2, <3>1 DEF FitsNext
    <3>3. \A u \in Tasks \ {t} : Rests(u)
      BY <2>2, <3>1 DEF Rests
    <3> QED BY <3>2, <3>3
  <2>3. CASE OfferICE(t, p, s)
    BY <2>2, <2>3 DEF OfferICE
  <2>4. CASE ReceiveOffer(t, p, s)
    BY <2>2, <2>4 DEF ReceiveOffer
  <2>5. CASE ReceiveAnswer(t, p, s)
    <3>1. entries[epoch][p].adv \in Socks
      BY <2>5, Configured DEF TypeOK, ReceiveAnswer, Negotiations
    <3>2. adv'[t] \in Socks /\ \A u \in Tasks \ {t} : adv'[u] = adv[u]
      BY <2>5, <3>1 DEF ReceiveAnswer, Advertise, TypeOK
    <3> QED BY <2>2, <2>5, <3>2 DEF ReceiveAnswer
  <2>6. CASE ReceiveFallback(t, p, s)
    BY <2>2, <2>6 DEF ReceiveFallback
  <2> QED BY <1>4, <2>3, <2>4, <2>5, <2>6 DEF Signal
<1>5. ASSUME NEW t \in Tasks, TaskStep(t) PROVE Alone(t)
  <2> DEFINE s == Session(t)
  <2>1. pc[t] # "idle" /\ s \in Sessions /\ job[t] # None /\ job'[t] # None
        /\ \A u \in Tasks : job[u] # None => job'[u] # None
    <3>1. pc[t] # "idle"
      BY <1>5, TaskCases DEF PrepareBegin, PrepareInsert, PrepareReturn, RelayLookup, RelayAttach,
         NegotiationStart, BeginCheck, PrepareBind, RelayAllocate, Establish, Claim, Transfer,
         Publish, Complete, Install, FailCancel, FailEntry, CheckDirect, RelayTry, RelayConnect,
         RelayPunch, Monitor, MonitorDelete, FallbackRemove, FallbackFail, FallbackCancel
    <3> QED BY <3>1, HasJob, JobsKept, SessionsAssumption
  <2>2. ASSUME UNCHANGED job \/ Establish(t), \A u \in Tasks \ {t} : pc'[u] = pc[u] /\ adv'[u] = adv[u]
                                             /\ hold'[u] = hold[u] /\ (u \in live' => u \in live)
        PROVE  \A u \in Tasks \ {t} : Rests(u)
    <3>1. Establish(t) => \A u \in Tasks \ {t} : job'[u] = job[u]
      BY DEF Establish, TypeOK
    <3> QED BY <2>2, <3>1 DEF Rests
  <2>3. prepared[s] # None =>
          prepared[s].sock \in Socks /\ prepared[s].relay \in Relays \cup {None}
    BY <2>1 DEF TypeOK, Preparations
  <2>4. t \in live => pc[t] \in SessionStages /\ hold[t] \in Resources
    BY DEF StagesFit
  <2>5. \A x \in Socks : /\ Advertise(t, x)[t] = x
                         /\ \A u \in Tasks \ {t} : Advertise(t, x)[u] = adv[u]
    BY DEF Advertise, TypeOK
  <2>6. Advertising(t) => adv[t] \in Socks
    BY DEF StagesFit
  <2> DEFINE To(stages) == /\ pc'[t] \in stages /\ UNCHANGED <<job, live>>
                           /\ \A u \in Tasks \ {t} : pc'[u] = pc[u]
  <2>7. ASSUME NEW stage, Goto(t, stage)
        PROVE  pc'[t] = stage /\ \A u \in Tasks \ {t} : pc'[u] = pc[u]
    BY <2>7, GotoMoves
  <2>8. PrepareError(t) => pc'[t] \in {"prepare", "done"} /\ \A u \in Tasks \ {t} : pc'[u] = pc[u]
    BY <2>7 DEF PrepareError
  <2>9. Prepared(t) => pc'[t] \in {"relay", "start"} /\ \A u \in Tasks \ {t} : pc'[u] = pc[u]
    BY <2>7 DEF Prepared
  <2> USE <2>1, <2>2, <2>4 DEF FitsNext, SessionStages
  <2>10. PrepareBegin(t) => Alone(t)
    <3>1. PrepareBegin(t) => /\ UNCHANGED <<job, hold, live>> /\ \A u \in Tasks \ {t} : pc'[u] = pc[u] /\ adv'[u] = adv[u]
                             /\ pc[t] = "prepare" /\ pc'[t] \in {"prepare", "done", "bind", "relay", "start"}
                             /\ pc'[t] \in {"relay", "start"} => adv'[t] \in Socks
      BY <2>3, <2>5, <2>7, <2>8, <2>9 DEF PrepareBegin
    <3> QED BY <3>1
  <2>11. ASSUME NEW ok \in BOOLEAN, NEW x \in Socks, PrepareBind(t, ok, x) PROVE Alone(t)
    <3>1. /\ UNCHANGED <<job, adv, live>> /\ pc[t] = "bind"
          /\ \A u \in Tasks \ {t} : pc'[u] = pc[u] /\ hold'[u] = hold[u]
          /\ pc'[t] \in {"prepare", "done", "insert"} /\ (pc'[t] = "insert" => hold'[t] \in Socks)
      BY <2>7, <2>8, <2>11 DEF PrepareBind, TypeOK
    <3> QED BY <3>1
  <2>12. PrepareInsert(t) => Alone(t)
    <3>1. pc[t] = "insert" => hold[t] \in Socks
      BY DEF StagesFit, NewSock
    <3>2. PrepareInsert(t) => /\ UNCHANGED <<job, live>> /\ pc[t] = "insert"
                              /\ \A u \in Tasks \ {t} : pc'[u] = pc[u] /\ hold'[u] = hold[u] /\ adv'[u] = adv[u]
                              /\ pc'[t] \in {"prepare", "done", "inserted", "relay", "start"}
                              /\ pc'[t] \in {"inserted", "relay", "start"} => adv'[t] \in Socks
      BY <2>3, <2>5, <2>7, <2>8, <2>9, <3>1 DEF PrepareInsert, TypeOK
    <3> QED BY <3>2
  <2>13. PrepareReturn(t) \/ RelayLookup(t) => Alone(t)
    <3>1. PrepareReturn(t) \/ RelayLookup(t) =>
            /\ UNCHANGED <<job, hold, live, adv>> /\ pc[t] \in {"inserted", "relay"}
            /\ \A u \in Tasks \ {t} : pc'[u] = pc[u]
            /\ pc'[t] \in {"done", "relay", "start", "allocate"}
      BY <2>7, <2>9 DEF PrepareReturn, RelayLookup
    <3> QED BY <2>6, <3>1 DEF Advertising
  <2>14. ASSUME NEW ok \in BOOLEAN, NEW y \in Relays, RelayAllocate(t, ok, y) PROVE Alone(t)
    <3>1. /\ UNCHANGED <<job, adv, live>> /\ pc[t] = "allocate"
          /\ \A u \in Tasks \ {t} : pc'[u] = pc[u] /\ hold'[u] = hold[u]
          /\ pc'[t] \in {"prepare", "done", "attach"} /\ (pc'[t] = "attach" => hold'[t] \in Relays)
      BY <2>7, <2>8, <2>14 DEF RelayAllocate, TypeOK
    <3> QED BY <2>6, <3>1 DEF Advertising
  <2>15. RelayAttach(t) => Alone(t)
    <3>1. RelayAttach(t) => /\ UNCHANGED <<job, live, adv>> /\ pc[t] = "attach"
                            /\ \A u \in Tasks \ {t} : pc'[u] = pc[u] /\ hold'[u] = hold[u]
                            /\ pc'[t] \in {"prepare", "done", "start"}
      BY <2>7, <2>8 DEF RelayAttach, TypeOK
    <3> QED BY <2>6, <3>1 DEF Advertising
  <2>16. NegotiationStart(t) => Alone(t)
    <3>1. NegotiationStart(t) => /\ UNCHANGED <<job, live, adv, hold>> /\ pc[t] = "start"
                                 /\ \A u \in Tasks \ {t} : pc'[u] = pc[u]
                                 /\ pc'[t] \in {"done", "begin"}
      BY <2>7 DEF NegotiationStart
    <3> QED BY <3>1
  <2>17. BeginCheck(t) => Alone(t)
    <3>1. Entry(t) # None => Entry(t).adv \in Socks
      BY EntryTyped DEF Negotiations
    <3>2. BeginCheck(t) => /\ UNCHANGED <<job, live, hold>> /\ pc[t] = "begin"
                           /\ \A u \in Tasks \ {t} : pc'[u] = pc[u] /\ adv'[u] = adv[u]
                           /\ pc'[t] \in {"establish", "done"} /\ (pc'[t] = "establish" => adv'[t] \in Socks)
      BY <2>5, <2>7, <3>1 DEF BeginCheck, Negotiating
    <3> QED BY <3>2
  <2>18. Establish(t) => Alone(t)
    <3>1. Establish(t) => /\ UNCHANGED <<live, hold, adv>> /\ pc[t] = "establish"
                          /\ \A u \in Tasks \ {t} : pc'[u] = pc[u]
                          /\ pc'[t] = "claim"
      BY <2>7 DEF Establish
    <3> QED BY <2>6, <3>1 DEF Advertising
  <2>19. Claim(t) => Alone(t)
    <3>1. Claim(t) => /\ UNCHANGED <<job, live, adv>> /\ pc[t] = "claim"
                      /\ \A u \in Tasks \ {t} : pc'[u] = pc[u] /\ hold'[u] = hold[u]
                      /\ pc'[t] \in {"check", "failEntry"} /\ (pc'[t] = "check" => hold'[t] \in Socks)
      BY <2>3, <2>7 DEF Claim, TypeOK
    <3> QED BY <2>6, <3>1 DEF Advertising
  <2>20. ASSUME NEW ok \in BOOLEAN, CheckDirect(t, ok) \/ RelayPunch(t, ok) PROVE Alone(t)
    <3>1. /\ pc[t] = "check" => hold[t] \in Socks
          /\ pc[t] = "punch" => hold[t] \in Relays
      BY DEF StagesFit, OnSock, OnRelay
    <3>2. /\ UNCHANGED <<job, adv, hold>>
          /\ \A u \in Tasks \ {t} : pc'[u] = pc[u] /\ (u \in live' => u \in live)
          /\ \/ pc[t] = "check" /\ pc'[t] \in {"transfer", "relayTry"}
             \/ pc[t] = "punch" /\ pc'[t] \in {"transferRelay", "failCancel"}
          /\ pc'[t] \in {"relayTry", "failCancel"} => t \notin live'
      BY <2>7, <2>20 DEF CheckDirect, RelayPunch
    <3> QED BY <3>1, <3>2 DEF Resources
  <2>21. ASSUME NEW ok \in BOOLEAN, RelayTry(t, ok) \/ RelayConnect(t, ok) PROVE Alone(t)
    <3>1. pc[t] = "connect" => hold[t] \in Relays
      BY DEF StagesFit, OnRelay
    <3>2. /\ UNCHANGED <<job, adv, live>>
          /\ \A u \in Tasks \ {t} : pc'[u] = pc[u] /\ hold'[u] = hold[u]
          /\ \/ pc[t] = "relayTry" /\ pc'[t] \in {"connect", "failCancel"}
             \/ pc[t] = "connect" /\ pc'[t] \in {"punch", "failCancel"} /\ hold'[t] = hold[t]
          /\ pc'[t] = "connect" => hold'[t] \in Relays
      BY <2>3, <2>7, <2>21 DEF RelayTry, RelayConnect, TypeOK
    <3> QED BY <3>1, <3>2
  <2>22. Transfer(t) \/ Publish(t) \/ Complete(t) \/ Install(t) \/ Monitor(t) \/ MonitorDelete(t) => Alone(t)
    <3>1. Transfer(t) \/ Publish(t) \/ Complete(t) \/ Install(t) \/ Monitor(t) \/ MonitorDelete(t) =>
            /\ UNCHANGED <<job, adv, live, hold>>
            /\ \A u \in Tasks \ {t} : pc'[u] = pc[u]
            /\ pc'[t] \in {"publish", "complete", "install", "monitor", "monitorDelete", "done"}
      BY <2>7 DEF Transfer, Publish, Complete, Install, Monitor, MonitorDelete
    <3> QED BY <3>1
  <2>23. FailCancel(t) \/ FailEntry(t) \/ FallbackRemove(t) \/ FallbackFail(t) \/ FallbackCancel(t) => Alone(t)
    <3>1. FailCancel(t) \/ FailEntry(t) \/ FallbackRemove(t) \/ FallbackFail(t) \/ FallbackCancel(t) =>
            /\ UNCHANGED <<job, adv, live, hold>>
            /\ \A u \in Tasks \ {t} : pc'[u] = pc[u]
            /\ pc[t] \in FailStages \cup FallbackStages
            /\ pc'[t] \in {"failEntry", "failCancelAgain", "fallbackFail", "fallbackCancel", "done"}
      BY <2>7 DEF FailCancel, FailEntry, FallbackRemove, FallbackFail, FallbackCancel, FailStages, FallbackStages
    <3> QED BY <3>1 DEF FailStages, FallbackStages
  <2> HIDE DEF Alone
  <2> QED BY <1>5, TaskCases, <2>10, <2>11, <2>12, <2>13, <2>14, <2>15, <2>16, <2>17, <2>18, <2>19,
             <2>20, <2>21, <2>22, <2>23
<1>6. ASSUME NEW t \in Tasks, SessionEnds(t) \/ ForgetConnection(t) PROVE \A u \in Tasks : Rests(u)
  BY <1>6 DEF SessionEnds, ForgetConnection, taskVars, Rests
<1>7. ASSUME NEW s \in Sessions, PreparedExpires(s) \/ ContextCancel(s) PROVE \A u \in Tasks : Rests(u)
  BY <1>7 DEF PreparedExpires, ContextCancel, taskVars, Rests
<1>8. ASSUME NEW y \in Relays, RelayExpires(y) PROVE \A u \in Tasks : Rests(u)
  BY <1>8 DEF RelayExpires, taskVars, Rests
<1>9. CASE Disconnect \/ CloseStep \/ Reconnect \/ UNCHANGED vars
  <2>1. \A u \in Tasks : Rests(u)
    BY <1>9 DEF Disconnect, CloseStep, SwapState, ManagerClose, Reconnect, vars, taskVars, Rests
  <2> QED BY <1>1, <2>1
<1> HIDE DEF Alone
<1> QED BY <1>1, <1>2, <1>3, <1>4, <1>5, <1>6, <1>7, <1>8, <1>9 DEF Next

--------------------------------------------------------------------------------
(* Sockets and allocations: steps that only let go of them.                *)

\* The parts of the invariant about who has what.
OwnersInv ==
  /\ NothingUnused
  /\ OwnsDisjoint
  /\ NewAlone
  /\ ClaimedOnce
  /\ ChecksOwn
  /\ ConnectedOnce
  /\ ConnectedHeld
  /\ TransfersLive
  /\ ResourcesOwned
  /\ SessionsOwnAlone

\* A socket or an allocation stays as it was, or is closed after it was bound.
Closes(x) == res'[x] = res[x] \/ (res[x] # "unused" /\ res'[x] = "closed")

\* A preparation stays as it was, or goes and nothing of it is left open.
Cancels(s) ==
  \/ prepared'[s] = prepared[s]
  \/ prepared'[s] = None /\ \A x \in Owns(s) : x \in Resources => res'[x] # "open"

\* A goroutine keeps what it has, or closes what it could not hand over.
Discards(t) ==
  \/ hold'[t] = hold[t]
  \/ hold'[t] = None /\ (NewSock(t) \/ NewRelay(t)) /\ res'[hold[t]] \notin {"open", "connected"}

\* Its session goes on or its connection is closed, and its stage changes to one
\* in which it has nothing in its hands.
LetsGo(t) ==
  /\ t \in live' => t \in live
  /\ t \in live => t \in live' \/ res'[hold[t]] = "closed"
  /\ \/ pc'[t] = pc[t] /\ hold'[t] = hold[t]
     \/ /\ pc'[t] \notin {"insert", "attach", "check", "transfer", "connect", "punch", "transferRelay"}
        /\ pc[t] \notin {"transfer", "transferRelay"}
        /\ NewSock(t) \/ NewRelay(t) => hold'[t] = None
        /\ pc[t] = "punch" => res'[hold[t]] = "closed"

\* A step that hands nothing over.
Fades ==
  /\ \A x \in Resources : Closes(x)
  /\ \A s \in Sessions : Cancels(s)
  /\ \A t \in Tasks : Discards(t) /\ LetsGo(t)
  /\ \A t \in Tasks : job[t] # None => job'[t].session = job[t].session

\* What a preparation has after such a step it had before.
LEMMA OwnsShrink ==
  ASSUME Fades, NEW s \in Sessions
  PROVE  /\ Owns(s)' \subseteq Owns(s) \cup {None}
         /\ Owns(s)' = Owns(s) \/ (prepared'[s] = None /\ Owns(s)' = {})
         /\ prepared'[s] # None => prepared'[s] = prepared[s]
BY DEF Fades, Cancels, Owns

\* Such a step keeps every socket and allocation with its owner.
LEMMA FadesKeeps ==
  ASSUME TypeOK, StagesFit, OwnersInv, TypeOK', StagesFit', Fades
  PROVE  OwnersInv'
<1>1. NothingUnused'
  <2>1. \A t \in Tasks : hold'[t] # None => hold'[t] = hold[t] /\ hold[t] \in Resources /\ res[hold[t]] # "unused"
    BY DEF Fades, Discards, OwnersInv, NothingUnused, TypeOK
  <2>2. \A t \in Tasks : hold'[t] # None => res'[hold'[t]] # "unused"
    BY <2>1 DEF Fades, Closes
  <2>3. \A s \in Sessions : \A x \in Owns(s)' : x # None => res'[x] # "unused"
    <3> TAKE s \in Sessions
    <3> TAKE x \in Owns(s)'
    <3> HAVE x # None
    <3>1. x \in Owns(s) /\ x \in Resources /\ res[x] # "unused"
      <4>1. x \in Owns(s)
        BY OwnsShrink
      <4>2. prepared[s] # None => prepared[s] \in Preparations
        BY DEF TypeOK
      <4>3. x \in Resources
        BY <4>1, <4>2 DEF Owns, Preparations, Resources
      <4> QED BY <4>1, <4>3 DEF OwnersInv, NothingUnused
    <3> QED BY <3>1 DEF Fades, Closes
  <2> QED BY <2>2, <2>3 DEF NothingUnused
<1>2. OwnsDisjoint'
  <2>1. \A s \in Sessions, x \in Resources : x \in Owns(s)' => x \in Owns(s)
    BY OwnsShrink, SessionsAssumption
  <2> QED BY <2>1 DEF OwnsDisjoint, OwnersInv
<1>3. NewAlone'
  <2>1. ASSUME NEW t \in Tasks, (NewSock(t) \/ NewRelay(t))'
        PROVE  /\ NewSock(t) \/ NewRelay(t)
               /\ hold'[t] = hold[t] /\ hold[t] \in Resources
    BY <2>1 DEF Fades, LetsGo, NewSock, NewRelay, StagesFit, Resources
  <2>2. \A t \in Tasks : (NewSock(t) \/ NewRelay(t))' => \A s \in Sessions : hold'[t] \notin Owns(s)'
    <3> SUFFICES ASSUME NEW t \in Tasks, (NewSock(t) \/ NewRelay(t))', NEW s \in Sessions
                 PROVE  hold'[t] \notin Owns(s)'
      OBVIOUS
    <3>1. hold[t] \notin Owns(s)
      BY <2>1 DEF OwnersInv, NewAlone
    <3> QED BY <2>1, <3>1, OwnsShrink, SessionsAssumption
  <2>3. \A t \in Tasks : (NewSock(t) \/ NewRelay(t))' => \A u \in Tasks : hold'[u] = hold'[t] => u = t
    <3> SUFFICES ASSUME NEW t \in Tasks, (NewSock(t) \/ NewRelay(t))', NEW u \in Tasks, hold'[u] = hold'[t]
                 PROVE  u = t
      OBVIOUS
    <3>1. hold[u] = hold[t]
      BY <2>1, SessionsAssumption DEF Fades, Discards
    <3> QED BY <2>1, <3>1 DEF OwnersInv, NewAlone
  <2> QED BY <2>2, <2>3 DEF NewAlone
<1>4. ClaimedOnce'
  <2>1. \A t \in Tasks : hold'[t] \in Socks => hold'[t] = hold[t]
    BY SessionsAssumption DEF Fades, Discards, Resources
  <2>2. (\A t, u \in Tasks : hold[t] \in Socks /\ hold[u] = hold[t] => u = t)'
    BY <2>1 DEF OwnersInv, ClaimedOnce
  <2>3. \A s \in Sessions : prepared'[s] # None /\ ~prepared'[s].claimed =>
          \A t \in Tasks : hold'[t] # prepared'[s].sock
    <3> SUFFICES ASSUME NEW s \in Sessions, prepared'[s] # None, ~prepared'[s].claimed,
                        NEW t \in Tasks, hold'[t] = prepared'[s].sock
                 PROVE  FALSE
      OBVIOUS
    <3>1. prepared'[s] = prepared[s] /\ prepared[s].sock \in Socks
      BY OwnsShrink DEF TypeOK, Preparations
    <3> QED BY <2>1, <3>1 DEF OwnersInv, ClaimedOnce
  <2> QED BY <2>2, <2>3 DEF ClaimedOnce
<1>5. ASSUME NEW t \in Tasks, (OnSock(t) \/ OnRelay(t))'
      PROVE  /\ OnSock(t) \/ OnRelay(t)
             /\ hold'[t] = hold[t] /\ hold[t] \in Resources /\ pc'[t] = pc[t]
             /\ Session(t)' = Session(t)
  <2>1. pc'[t] = pc[t] /\ hold'[t] = hold[t]
    BY <1>5 DEF Fades, LetsGo, OnSock, OnRelay
  <2>2. pc[t] # "idle" /\ (OnSock(t) \/ OnRelay(t))
    BY <1>5, <2>1 DEF OnSock, OnRelay
  <2>3. Session(t)' = Session(t)
    BY <2>2 DEF Fades, StagesFit, Session
  <2> QED BY <2>1, <2>2, <2>3 DEF StagesFit, Resources
<1>6. ChecksOwn'
  <2> SUFFICES ASSUME NEW t \in Tasks, (OnSock(t) \/ OnRelay(t))', NEW s \in Sessions, hold'[t] \in Owns(s)'
               PROVE  s = Session(t)'
    BY DEF ChecksOwn
  <2>1. hold[t] \in Owns(s)
    BY <1>5, OwnsShrink, SessionsAssumption
  <2> QED BY <1>5, <2>1 DEF OwnersInv, ChecksOwn
<1>7. \A t \in Tasks : Connected(t)' => Connected(t) /\ (hold'[t] \in Relays => hold'[t] = hold[t])
  BY SessionsAssumption DEF Connected, Fades, LetsGo, Discards, Resources
<1>8. ConnectedOnce'
  <2>1. \A y \in Relays : res'[y] = "open" => res[y] = "open"
    BY DEF Fades, Closes, Resources
  <2>2. (\A y \in Relays, t \in Tasks : res[y] = "open" /\ hold[t] = y => ~Connected(t))'
    BY <1>7, <2>1 DEF OwnersInv, ConnectedOnce
  <2>3. \A t, u \in Tasks :
          (hold'[t] \in Relays /\ hold'[u] = hold'[t] /\ Connected(t)' /\ Connected(u)') => u = t
    BY <1>7 DEF OwnersInv, ConnectedOnce
  <2> QED BY <2>2, <2>3 DEF ConnectedOnce
<1>9. ConnectedHeld'
  <2> SUFFICES ASSUME NEW x \in Resources, res'[x] = "connected"
               PROVE  \E t \in Tasks : hold'[t] = x /\ (pc'[t] = "punch" \/ t \in live')
    BY DEF ConnectedHeld
  <2>1. res[x] = "connected"
    BY DEF Fades, Closes
  <2>2. PICK t \in Tasks : hold[t] = x /\ (pc[t] = "punch" \/ t \in live)
    BY <2>1 DEF OwnersInv, ConnectedHeld
  <2>3. Discards(t) /\ LetsGo(t)
    BY DEF Fades
  <2>4. ~NewSock(t) /\ ~NewRelay(t)
    BY <2>2 DEF StagesFit, NewSock, NewRelay, SessionStages
  <2>5. hold'[t] = x
    BY <2>2, <2>3, <2>4 DEF Discards
  <2> QED BY <2>2, <2>3, <2>5 DEF LetsGo
<1>10. ResourcesOwned'
  <2> SUFFICES ASSUME NEW x \in Resources, res'[x] \in {"open", "connected"}
               PROVE  \/ \E s \in Sessions : x \in Owns(s)'
                      \/ \E t \in Tasks : hold'[t] = x /\ (pc'[t] \in {"insert", "attach", "punch"} \/ t \in live')
    BY DEF ResourcesOwned
  <2>1. CASE res'[x] = "connected"
    BY <1>9, <2>1 DEF ConnectedHeld
  <2>2. CASE res'[x] = "open"
    <3>1. res[x] = "open"
      BY <2>2 DEF Fades, Closes
    <3>2. ASSUME NEW s \in Sessions, x \in Owns(s) PROVE x \in Owns(s)'
      BY <2>2, <3>2 DEF Fades, Cancels, Owns
    <3>3. ASSUME NEW t \in Tasks, hold[t] = x, pc[t] \in {"insert", "attach", "punch"} \/ t \in live
          PROVE  hold'[t] = x /\ (pc'[t] \in {"insert", "attach", "punch"} \/ t \in live')
      <4>1. Discards(t) /\ LetsGo(t)
        BY DEF Fades
      <4>2. hold'[t] = x
        BY <2>2, <3>3, <4>1 DEF Discards
      <4>3. x # None
        BY SessionsAssumption
      <4> QED BY <2>2, <3>3, <4>1, <4>2, <4>3 DEF LetsGo, NewSock, NewRelay
    <3> QED BY <3>1, <3>2, <3>3 DEF OwnersInv, ResourcesOwned
  <2> QED BY <2>1, <2>2
<1>11. SessionsOwnAlone'
  <2>1. ASSUME NEW t \in Tasks, t \in live'
        PROVE  t \in live /\ hold'[t] = hold[t] /\ hold[t] \in Resources
               /\ (pc'[t] \notin {"transfer", "transferRelay"} => pc[t] \notin {"transfer", "transferRelay"})
    <3>1. Discards(t) /\ LetsGo(t)
      BY DEF Fades
    <3>2. t \in live /\ ~NewSock(t) /\ ~NewRelay(t) /\ hold[t] \in Resources
      BY <2>1, <3>1 DEF LetsGo, StagesFit, NewSock, NewRelay, SessionStages
    <3> QED BY <3>1, <3>2 DEF Discards, LetsGo
  <2>2. live' \subseteq Tasks
    BY DEF TypeOK
  <2>3. \A t \in live' : \A u \in live' : hold'[u] = hold'[t] => u = t
    BY <2>1, <2>2 DEF OwnersInv, SessionsOwnAlone
  <2>4. \A t \in live' : pc'[t] \notin {"transfer", "transferRelay"} => \A s \in Sessions : hold'[t] \notin Owns(s)'
    BY <2>1, <2>2, OwnsShrink, SessionsAssumption DEF OwnersInv, SessionsOwnAlone
  <2> QED BY <2>3, <2>4 DEF SessionsOwnAlone
<1>12. TransfersLive'
  <2> SUFFICES ASSUME NEW t \in Tasks, pc'[t] \in {"transfer", "transferRelay"}, t \notin live'
               PROVE  res'[hold'[t]] = "closed"
    BY DEF TransfersLive
  <2>1. pc'[t] = pc[t] /\ hold'[t] = hold[t] /\ hold[t] \in Resources
    BY DEF Fades, LetsGo, StagesFit, OnSock, OnRelay, Resources
  <2>2. t \in live => res'[hold[t]] = "closed"
    BY DEF Fades, LetsGo
  <2>3. t \notin live => res[hold[t]] = "closed"
    BY <2>1 DEF OwnersInv, TransfersLive
  <2> QED BY <2>1, <2>2, <2>3 DEF Fades, Closes
<1> QED BY <1>1, <1>2, <1>3, <1>4, <1>6, <1>8, <1>9, <1>10, <1>11, <1>12 DEF OwnersInv

--------------------------------------------------------------------------------
(* Sockets and allocations: steps that take, hand over or connect them.    *)

\* The goroutines other than t stay where they are, and all keep their sessions.
OthersRest(t) ==
  /\ \A u \in Tasks : u # t => pc'[u] = pc[u] /\ hold'[u] = hold[u]
  /\ \A u \in Tasks : u # t => (u \in live' <=> u \in live)
  /\ \A u \in Tasks : job[u] # None => job'[u].session = job[u].session

\* ListenUDP or AllocateCandidate yields a new socket or allocation x.
Takes(t, x) ==
  /\ res[x] = "unused" /\ res'[x] = "open"
  /\ \A y \in Resources : y # x => res'[y] = res[y]
  /\ hold'[t] = x
  /\ pc[t] \in {"bind", "allocate"} /\ pc'[t] \in {"insert", "attach"}
  /\ UNCHANGED <<prepared, live>>
  /\ OthersRest(t)

\* Something new is in nobody else's hands.
LEMMA TakesKeeps ==
  ASSUME TypeOK, StagesFit, OwnersInv, TypeOK', StagesFit',
         NEW t \in Tasks, NEW x \in Resources, Takes(t, x)
  PROVE  OwnersInv'
<1> USE DEF Takes, OthersRest
<1>1. x # None /\ t \notin live /\ ~NewSock(t) /\ ~NewRelay(t) /\ ~Connected(t) /\ ~Connected(t)'
  BY SessionsAssumption DEF StagesFit, SessionStages, NewSock, NewRelay, Connected
<1>2. /\ \A u \in Tasks : hold[u] # x
      /\ \A s \in Sessions : x \notin Owns(s) /\ Owns(s)' = Owns(s)
  BY <1>1 DEF OwnersInv, NothingUnused, Owns
<1>3. \A u \in Tasks : u # t => /\ NewSock(u)' = NewSock(u) /\ NewRelay(u)' = NewRelay(u)
                                /\ OnSock(u)' = OnSock(u) /\ OnRelay(u)' = OnRelay(u)
                                /\ Connected(u)' = Connected(u)
  BY DEF NewSock, NewRelay, OnSock, OnRelay, Connected
<1>4. NothingUnused'
  <2>1. \A u \in Tasks : hold'[u] # None => res'[hold'[u]] # "unused"
    BY <1>2 DEF OwnersInv, NothingUnused, TypeOK
  <2>2. \A s \in Sessions : \A y \in Owns(s)' : y # None => res'[y] # "unused"
    <3> TAKE s \in Sessions
    <3> TAKE y \in Owns(s)'
    <3> HAVE y # None
    <3>1. y \in Owns(s) /\ y # x /\ res[y] # "unused"
      BY <1>2 DEF OwnersInv, NothingUnused
    <3>2. prepared[s] # None => prepared[s] \in Preparations
      BY DEF TypeOK
    <3>3. y \in Resources
      BY <3>1, <3>2 DEF Owns, Preparations, Resources
    <3> QED BY <3>1, <3>3
  <2> QED BY <2>1, <2>2 DEF NothingUnused
<1>5. OwnsDisjoint'
  BY <1>2 DEF OwnersInv, OwnsDisjoint
<1>6. NewAlone'
  <2>1. ASSUME NEW u \in Tasks, (NewSock(u) \/ NewRelay(u))'
        PROVE  /\ \A s \in Sessions : hold'[u] \notin Owns(s)'
               /\ \A v \in Tasks : hold'[v] = hold'[u] => v = u
    BY <1>2, <1>3, <2>1 DEF OwnersInv, NewAlone
  <2> QED BY <2>1 DEF NewAlone
<1>7. ClaimedOnce'
  <2>1. (\A u, v \in Tasks : hold[u] \in Socks /\ hold[v] = hold[u] => v = u)'
    BY <1>2 DEF OwnersInv, ClaimedOnce
  <2>2. \A s \in Sessions : prepared[s] # None => prepared[s].sock # x
    BY <1>2 DEF Owns
  <2>3. (\A s \in Sessions : prepared[s] # None /\ ~prepared[s].claimed =>
          \A u \in Tasks : hold[u] # prepared[s].sock)'
    BY <2>2 DEF OwnersInv, ClaimedOnce
  <2> QED BY <2>1, <2>3 DEF ClaimedOnce
<1>8. ChecksOwn'
  <2> SUFFICES ASSUME NEW u \in Tasks, (OnSock(u) \/ OnRelay(u))', NEW s \in Sessions, hold'[u] \in Owns(s)'
               PROVE  s = Session(u)'
    BY DEF ChecksOwn
  <2>1. u # t
    BY DEF OnSock, OnRelay
  <2>2. OnSock(u) \/ OnRelay(u)
    BY <1>3, <2>1
  <2>3. Session(u)' = Session(u)
    BY <2>2 DEF StagesFit, OnSock, OnRelay, Session
  <2> QED BY <1>2, <2>1, <2>2, <2>3 DEF OwnersInv, ChecksOwn
<1>9. ConnectedOnce'
  <2>1. (\A y \in Relays, u \in Tasks : res[y] = "open" /\ hold[u] = y => ~Connected(u))'
    BY <1>1, <1>2, <1>3 DEF OwnersInv, ConnectedOnce, Resources
  <2>2. \A u, v \in Tasks :
          (hold'[u] \in Relays /\ hold'[v] = hold'[u] /\ Connected(u)' /\ Connected(v)') => v = u
    BY <1>1, <1>3 DEF OwnersInv, ConnectedOnce
  <2> QED BY <2>1, <2>2 DEF ConnectedOnce
<1>10. ConnectedHeld'
  <2> SUFFICES ASSUME NEW y \in Resources, res'[y] = "connected"
               PROVE  \E u \in Tasks : hold'[u] = y /\ (pc'[u] = "punch" \/ u \in live')
    BY DEF ConnectedHeld
  <2>1. PICK u \in Tasks : hold[u] = y /\ (pc[u] = "punch" \/ u \in live)
    BY DEF OwnersInv, ConnectedHeld
  <2> QED BY <1>1, <2>1
<1>11. ResourcesOwned'
  <2> SUFFICES ASSUME NEW y \in Resources, res'[y] \in {"open", "connected"}
               PROVE  \/ \E s \in Sessions : y \in Owns(s)'
                      \/ \E u \in Tasks : hold'[u] = y /\ (pc'[u] \in {"insert", "attach", "punch"} \/ u \in live')
    BY DEF ResourcesOwned
  <2>1. CASE y = x
    BY <2>1
  <2>2. CASE y # x
    <3>1. ASSUME NEW u \in Tasks, hold[u] = y, pc[u] \in {"insert", "attach", "punch"} \/ u \in live
          PROVE  hold'[u] = y /\ (pc'[u] \in {"insert", "attach", "punch"} \/ u \in live')
      BY <1>1, <3>1
    <3> QED BY <1>2, <2>2, <3>1 DEF OwnersInv, ResourcesOwned
  <2> QED BY <2>1, <2>2
<1>12. SessionsOwnAlone'
  <2>1. \A u \in live : u # t /\ u \in Tasks
    BY <1>1 DEF TypeOK
  <2> QED BY <1>2, <2>1 DEF OwnersInv, SessionsOwnAlone
<1>13. TransfersLive'
  <2>1. \A u \in Tasks : pc'[u] \in {"transfer", "transferRelay"} => u # t /\ hold[u] \in Resources
    BY DEF StagesFit, OnSock, OnRelay, Resources
  <2> QED BY <1>2, <2>1 DEF OwnersInv, TransfersLive
<1> QED BY <1>4, <1>5, <1>6, <1>7, <1>8, <1>9, <1>10, <1>11, <1>12, <1>13 DEF OwnersInv

\* What t has becomes part of the preparation of its session o.
HandsOver(t, o) ==
  /\ o = Session(t)
  /\ NewSock(t) \/ NewRelay(t)
  /\ pc'[t] \in {"inserted", "start"} /\ hold'[t] = None
  /\ \A s \in Sessions : s # o => prepared'[s] = prepared[s]
  /\ \A x \in Resources : x \in Owns(o)' <=> x \in Owns(o) \/ x = hold[t]
  /\ \/ prepared'[o].sock = hold[t]
     \/ /\ prepared[o] # None
        /\ prepared'[o].sock = prepared[o].sock
        /\ prepared'[o].claimed = prepared[o].claimed
  /\ UNCHANGED <<res, live>>
  /\ OthersRest(t)

\* What is handed over has one owner again, the preparation.
LEMMA HandsOverKeeps ==
  ASSUME TypeOK, StagesFit, OwnersInv, TypeOK', StagesFit', NEW t \in Tasks,
         NEW o \in Sessions, HandsOver(t, o)
  PROVE  OwnersInv'
<1> DEFINE h == hold[t]
<1> USE DEF HandsOver, OthersRest
<1>1. /\ h \in Resources /\ h # None /\ t \notin live
      /\ ~Connected(t) /\ ~Connected(t)' /\ res[h] # "unused"
      /\ pc'[t] \notin {"insert", "attach", "punch", "transfer", "transferRelay", "check", "connect"}
  BY SessionsAssumption DEF StagesFit, SessionStages, NewSock, NewRelay, Connected, Resources,
     OwnersInv, NothingUnused
<1>2. /\ \A s \in Sessions : h \notin Owns(s)
      /\ \A u \in Tasks : hold[u] = h => u = t
      /\ \A u \in Tasks : hold'[u] # h
      /\ \A u \in Tasks : hold'[u] # None => hold'[u] = hold[u] /\ u # t
  BY <1>1 DEF OwnersInv, NewAlone
<1>3. \A u \in Tasks : u # t => /\ NewSock(u)' = NewSock(u) /\ NewRelay(u)' = NewRelay(u)
                                /\ OnSock(u)' = OnSock(u) /\ OnRelay(u)' = OnRelay(u)
                                /\ Connected(u)' = Connected(u)
  BY DEF NewSock, NewRelay, OnSock, OnRelay, Connected
<1>4. \A s \in Sessions : s # o => Owns(s)' = Owns(s)
  BY DEF Owns
<1>5. \A s \in Sessions, x \in Resources : x \in Owns(s)' => x \in Owns(s) \/ (s = o /\ x = h)
  BY <1>4
<1>6. \A s \in Sessions, x \in Resources : x \in Owns(s) => x \in Owns(s)'
  BY <1>4
<1>7. h \in Owns(o)' /\ \A s \in Sessions : \A x \in Owns(s)' : x # None => x \in Resources
  <2>1. h \in Owns(o)'
    BY <1>1
  <2>2. \A s \in Sessions : prepared'[s] # None => prepared'[s] \in Preparations
    BY DEF TypeOK
  <2>3. \A s \in Sessions : \A x \in Owns(s)' : x # None => x \in Resources
    BY <2>2 DEF Owns, Preparations, Resources
  <2> QED BY <2>1, <2>3
<1> HIDE DEF h
<1>8. NothingUnused'
  <2>1. \A u \in Tasks : hold'[u] # None => res'[hold'[u]] # "unused"
    BY <1>2 DEF OwnersInv, NothingUnused
  <2>2. \A s \in Sessions : \A x \in Owns(s)' : x # None => res'[x] # "unused"
    BY <1>1, <1>5, <1>7 DEF OwnersInv, NothingUnused
  <2> QED BY <2>1, <2>2 DEF NothingUnused
<1>9. OwnsDisjoint'
  BY <1>2, <1>5 DEF OwnersInv, OwnsDisjoint
<1>10. NewAlone'
  <2>1. ASSUME NEW u \in Tasks, (NewSock(u) \/ NewRelay(u))'
        PROVE  /\ \A s \in Sessions : hold'[u] \notin Owns(s)'
               /\ \A v \in Tasks : hold'[v] = hold'[u] => v = u
    <3>1. u # t /\ (NewSock(u) \/ NewRelay(u))
      BY <1>1, <1>3, <2>1 DEF NewSock, NewRelay
    <3>2. hold'[u] = hold[u] /\ hold[u] \in Resources /\ hold[u] # None
      BY <3>1, SessionsAssumption DEF StagesFit, Resources
    <3> QED BY <1>2, <1>5, <3>1, <3>2 DEF OwnersInv, NewAlone
  <2> QED BY <2>1 DEF NewAlone
<1>11. ClaimedOnce'
  <2>1. \A u \in Tasks : hold'[u] \in Socks => hold'[u] = hold[u] /\ u # t
    BY <1>2, SessionsAssumption DEF Resources
  <2>2. (\A u, v \in Tasks : hold[u] \in Socks /\ hold[v] = hold[u] => v = u)'
    BY <2>1 DEF OwnersInv, ClaimedOnce
  <2>3. ASSUME NEW s \in Sessions, prepared'[s] # None, ~prepared'[s].claimed, NEW u \in Tasks
        PROVE  hold'[u] # prepared'[s].sock
    <3>1. prepared'[s].sock \in Socks
      BY <2>3 DEF TypeOK, Preparations
    <3>2. CASE prepared'[s].sock = h
      BY <1>2, <3>2
    <3>3. CASE prepared[s] # None /\ prepared'[s].sock = prepared[s].sock /\ ~prepared[s].claimed
      BY <2>1, <3>1, <3>3 DEF OwnersInv, ClaimedOnce
    <3> QED BY <2>3, <3>2, <3>3 DEF h
  <2> QED BY <2>2, <2>3 DEF ClaimedOnce
<1>12. ChecksOwn'
  <2> SUFFICES ASSUME NEW u \in Tasks, (OnSock(u) \/ OnRelay(u))', NEW s \in Sessions, hold'[u] \in Owns(s)'
               PROVE  s = Session(u)'
    BY DEF ChecksOwn
  <2>1. u # t /\ (OnSock(u) \/ OnRelay(u))
    BY <1>1, <1>3 DEF OnSock, OnRelay
  <2>2. Session(u)' = Session(u) /\ hold[u] \in Resources
    BY <2>1 DEF StagesFit, OnSock, OnRelay, Session, Resources
  <2> QED BY <1>2, <1>5, <2>1, <2>2 DEF OwnersInv, ChecksOwn
<1>13. ConnectedOnce'
  <2>1. (\A y \in Relays, u \in Tasks : res[y] = "open" /\ hold[u] = y => ~Connected(u))'
    BY <1>1, <1>2, <1>3 DEF OwnersInv, ConnectedOnce
  <2>2. \A u, v \in Tasks :
          (hold'[u] \in Relays /\ hold'[v] = hold'[u] /\ Connected(u)' /\ Connected(v)') => v = u
    BY <1>1, <1>3 DEF OwnersInv, ConnectedOnce
  <2> QED BY <2>1, <2>2 DEF ConnectedOnce
<1>14. ConnectedHeld'
  <2> SUFFICES ASSUME NEW y \in Resources, res'[y] = "connected"
               PROVE  \E u \in Tasks : hold'[u] = y /\ (pc'[u] = "punch" \/ u \in live')
    BY DEF ConnectedHeld
  <2>1. PICK u \in Tasks : hold[u] = y /\ (pc[u] = "punch" \/ u \in live)
    BY DEF OwnersInv, ConnectedHeld
  <2>2. u # t
    BY <1>1, <2>1 DEF NewSock, NewRelay
  <2> QED BY <2>1, <2>2
<1>15. ResourcesOwned'
  <2> SUFFICES ASSUME NEW y \in Resources, res'[y] \in {"open", "connected"}
               PROVE  \/ \E s \in Sessions : y \in Owns(s)'
                      \/ \E u \in Tasks : hold'[u] = y /\ (pc'[u] \in {"insert", "attach", "punch"} \/ u \in live')
    BY DEF ResourcesOwned
  <2>1. CASE y = h
    BY <1>1, <1>7, <2>1
  <2>2. CASE y # h
    <3>1. ASSUME NEW u \in Tasks, hold[u] = y, pc[u] \in {"insert", "attach", "punch"} \/ u \in live
          PROVE  hold'[u] = y /\ (pc'[u] \in {"insert", "attach", "punch"} \/ u \in live')
      BY <2>2, <3>1 DEF h
    <3> QED BY <1>6, <3>1 DEF OwnersInv, ResourcesOwned
  <2> QED BY <2>1, <2>2
<1>16. SessionsOwnAlone'
  <2>1. \A u \in live : u # t /\ u \in Tasks /\ hold[u] \in Resources /\ hold[u] # h
    BY <1>1, <1>2 DEF TypeOK, StagesFit
  <2>2. (\A u \in live : \A v \in live : hold[v] = hold[u] => v = u)'
    BY <2>1 DEF OwnersInv, SessionsOwnAlone
  <2>3. (\A u \in live : pc[u] \notin {"transfer", "transferRelay"} => \A s \in Sessions : hold[u] \notin Owns(s))'
    BY <1>5, <2>1 DEF OwnersInv, SessionsOwnAlone
  <2> QED BY <2>2, <2>3 DEF SessionsOwnAlone
<1>17. TransfersLive'
  BY <1>1 DEF OwnersInv, TransfersLive
<1> QED BY <1>8, <1>9, <1>10, <1>11, <1>12, <1>13, <1>14, <1>15, <1>16, <1>17 DEF OwnersInv

\* claimPrepared, or preparedRelay: t works on x of the preparation of its session o.
Picks(t, o, x) ==
  /\ o = Session(t) /\ x \in Owns(o) /\ hold'[t] = x
  /\ pc[t] \in {"claim", "relayTry"}
  /\ \/ /\ pc'[t] = "check" /\ x = prepared[o].sock
        /\ ~prepared[o].claimed /\ prepared'[o].claimed
     \/ pc'[t] = "connect" /\ x \in Relays
  /\ \A s \in Sessions :
       /\ Owns(s)' = Owns(s)
       /\ prepared'[s] # None =>
            /\ prepared[s] # None /\ prepared'[s].sock = prepared[s].sock
            /\ prepared[s].claimed => prepared'[s].claimed
  /\ UNCHANGED <<res, live>>
  /\ OthersRest(t)

\* A socket is claimed by the first goroutine that works on it.
LEMMA PicksKeeps ==
  ASSUME TypeOK, StagesFit, OwnersInv, TypeOK', StagesFit', NEW t \in Tasks,
         NEW o \in Sessions, NEW x \in Resources, Picks(t, o, x)
  PROVE  OwnersInv'
<1> USE DEF Picks, OthersRest
<1>1. /\ t \notin live /\ ~Connected(t) /\ ~Connected(t)' /\ res[x] # "unused" /\ x # None
      /\ Session(t)' = o
      /\ pc[t] \notin {"insert", "attach", "punch"} /\ pc'[t] \notin {"insert", "attach", "transfer", "transferRelay"}
  BY SessionsAssumption DEF StagesFit, SessionStages, Connected, OwnersInv, NothingUnused, Session
<1>2. \A u \in Tasks : u # t => /\ NewSock(u)' = NewSock(u) /\ NewRelay(u)' = NewRelay(u)
                                /\ OnSock(u)' = OnSock(u) /\ OnRelay(u)' = OnRelay(u)
                                /\ Connected(u)' = Connected(u)
  BY DEF NewSock, NewRelay, OnSock, OnRelay, Connected
<1>3. \A u \in Tasks : NewSock(u) \/ NewRelay(u) => u # t /\ hold[u] # x
  BY <1>1 DEF OwnersInv, NewAlone, NewSock, NewRelay
<1>4. x \in Socks => /\ pc'[t] = "check" /\ x = prepared[o].sock /\ prepared'[o].claimed
                     /\ \A u \in Tasks : hold[u] # x
  <2>1. x \in Owns(o) => prepared[o] # None
    BY DEF Owns
  <2> QED BY <2>1, SessionsAssumption DEF OwnersInv, ClaimedOnce
<1>5. NothingUnused'
  BY <1>1 DEF OwnersInv, NothingUnused
<1>6. OwnsDisjoint'
  BY DEF OwnersInv, OwnsDisjoint
<1>7. NewAlone'
  <2>1. ASSUME NEW u \in Tasks, (NewSock(u) \/ NewRelay(u))'
        PROVE  /\ \A s \in Sessions : hold'[u] \notin Owns(s)'
               /\ \A v \in Tasks : hold'[v] = hold'[u] => v = u
    <3>1. u # t /\ (NewSock(u) \/ NewRelay(u)) /\ hold[u] # x
      BY <1>1, <1>2, <1>3, <2>1 DEF NewSock, NewRelay
    <3> QED BY <3>1 DEF OwnersInv, NewAlone
  <2> QED BY <2>1 DEF NewAlone
<1>8. ClaimedOnce'
  <2>1. (\A u, v \in Tasks : hold[u] \in Socks /\ hold[v] = hold[u] => v = u)'
    BY <1>4 DEF OwnersInv, ClaimedOnce
  <2>2. ASSUME NEW s \in Sessions, prepared'[s] # None, ~prepared'[s].claimed, NEW u \in Tasks
        PROVE  hold'[u] # prepared'[s].sock
    <3>1. /\ prepared[s] # None /\ ~prepared[s].claimed /\ prepared'[s].sock = prepared[s].sock
          /\ prepared[s].sock \in Socks /\ prepared[s].sock \in Owns(s)
      <4>1. prepared[s] # None /\ prepared'[s].sock = prepared[s].sock /\ ~prepared[s].claimed
        BY <2>2
      <4>2. prepared[s].sock \in Socks
        BY <4>1 DEF TypeOK, Preparations
      <4> QED BY <4>1, <4>2 DEF Owns
    <3>2. \A v \in Tasks : hold[v] # prepared[s].sock
      BY <3>1 DEF OwnersInv, ClaimedOnce
    <3>3. x = prepared[s].sock => s = o
      BY <3>1 DEF OwnersInv, OwnsDisjoint
    <3> QED BY <1>4, <2>2, <3>1, <3>2, <3>3
  <2> QED BY <2>1, <2>2 DEF ClaimedOnce
<1>9. ChecksOwn'
  <2> SUFFICES ASSUME NEW u \in Tasks, (OnSock(u) \/ OnRelay(u))', NEW s \in Sessions, hold'[u] \in Owns(s)'
               PROVE  s = Session(u)'
    BY DEF ChecksOwn
  <2>1. CASE u = t
    BY <1>1, <2>1 DEF OwnersInv, OwnsDisjoint
  <2>2. CASE u # t
    <3>1. OnSock(u) \/ OnRelay(u)
      BY <1>2, <2>2
    <3>2. Session(u)' = Session(u)
      BY <3>1 DEF StagesFit, OnSock, OnRelay, Session
    <3> QED BY <2>2, <3>1, <3>2 DEF OwnersInv, ChecksOwn
  <2> QED BY <2>1, <2>2
<1>10. ConnectedOnce'
  <2>1. (\A y \in Relays, u \in Tasks : res[y] = "open" /\ hold[u] = y => ~Connected(u))'
    BY <1>1, <1>2 DEF OwnersInv, ConnectedOnce
  <2>2. \A u, v \in Tasks :
          (hold'[u] \in Relays /\ hold'[v] = hold'[u] /\ Connected(u)' /\ Connected(v)') => v = u
    BY <1>1, <1>2 DEF OwnersInv, ConnectedOnce
  <2> QED BY <2>1, <2>2 DEF ConnectedOnce
<1>11. ConnectedHeld'
  BY <1>1 DEF OwnersInv, ConnectedHeld
<1>12. ResourcesOwned'
  <2> SUFFICES ASSUME NEW y \in Resources, res'[y] \in {"open", "connected"}
               PROVE  \/ \E s \in Sessions : y \in Owns(s)'
                      \/ \E u \in Tasks : hold'[u] = y /\ (pc'[u] \in {"insert", "attach", "punch"} \/ u \in live')
    BY DEF ResourcesOwned
  <2>1. ASSUME NEW u \in Tasks, hold[u] = y, pc[u] \in {"insert", "attach", "punch"} \/ u \in live
        PROVE  hold'[u] = y /\ (pc'[u] \in {"insert", "attach", "punch"} \/ u \in live')
    BY <1>1, <2>1
  <2> QED BY <2>1 DEF OwnersInv, ResourcesOwned
<1>13. SessionsOwnAlone'
  <2>1. \A u \in live : u # t /\ u \in Tasks
    BY <1>1 DEF TypeOK
  <2> QED BY <2>1 DEF OwnersInv, SessionsOwnAlone
<1>14. TransfersLive'
  BY <1>1 DEF OwnersInv, TransfersLive
<1> QED BY <1>5, <1>6, <1>7, <1>8, <1>9, <1>10, <1>11, <1>12, <1>13, <1>14 DEF OwnersInv

\* A pair answered, or the peer proved itself over the relay: t has a session.
Lives(t) ==
  /\ \/ pc[t] = "check" /\ pc'[t] = "transfer"
     \/ pc[t] = "punch" /\ pc'[t] = "transferRelay"
  /\ live' = live \cup {t}
  /\ UNCHANGED <<hold, prepared, res>>
  /\ OthersRest(t)

\* Connect takes the allocation in the hands of t.
Connects(t) ==
  /\ pc[t] = "connect" /\ pc'[t] = "punch"
  /\ res[hold[t]] = "open" /\ res'[hold[t]] = "connected"
  /\ \A x \in Resources : x # hold[t] => res'[x] = res[x]
  /\ UNCHANGED <<hold, prepared, live>>
  /\ OthersRest(t)

\* No other session runs on what t has claimed or connected.
LEMMA LivesKeeps ==
  ASSUME TypeOK, StagesFit, OwnersInv, TypeOK', StagesFit', NEW t \in Tasks,
         Lives(t) \/ Connects(t)
  PROVE  OwnersInv'
<1>1. /\ OthersRest(t) /\ UNCHANGED <<hold, prepared>>
      /\ t \in Tasks /\ hold[t] \in Resources /\ Session(t)' = Session(t)
      /\ pc[t] \in {"check", "punch", "connect"} /\ t \notin live
      /\ \A s \in Sessions : Owns(s)' = Owns(s)
      /\ \A u \in Tasks : u # t => pc'[u] = pc[u] /\ (u \in live' <=> u \in live)
      /\ \A x \in Resources : res'[x] = res[x] \/ (res[x] = "open" /\ res'[x] = "connected")
  BY DEF Lives, Connects, OthersRest, StagesFit, OnSock, OnRelay, SessionStages, Session, Resources, Owns
<1>2. \A u \in Tasks : /\ NewSock(u)' = NewSock(u) /\ NewRelay(u)' = NewRelay(u)
                       /\ OnSock(u)' = OnSock(u) /\ OnRelay(u)' = OnRelay(u)
                       /\ u # t => Connected(u)' = Connected(u)
  BY <1>1 DEF Lives, Connects, NewSock, NewRelay, OnSock, OnRelay, Connected
<1>3. \A u \in Tasks : OnSock(u) \/ OnRelay(u) => Session(u)' = Session(u)
  BY <1>1 DEF OthersRest, StagesFit, OnSock, OnRelay, Session
<1>4. NothingUnused'
  <2>1. \A u \in Tasks : hold[u] # None => res'[hold[u]] # "unused"
    BY <1>1 DEF OwnersInv, NothingUnused, TypeOK
  <2>2. \A s \in Sessions : \A y \in Owns(s) : y # None => res'[y] # "unused"
    <3> TAKE s \in Sessions
    <3> TAKE y \in Owns(s)
    <3> HAVE y # None
    <3>1. prepared[s] # None => prepared[s] \in Preparations
      BY DEF TypeOK
    <3>2. y \in Resources
      BY <3>1 DEF Owns, Preparations, Resources
    <3> QED BY <1>1, <3>2 DEF OwnersInv, NothingUnused
  <2> QED BY <1>1, <2>1, <2>2 DEF NothingUnused
<1>5. OwnsDisjoint'
  BY <1>1 DEF OwnersInv, OwnsDisjoint
<1>6. NewAlone'
  BY <1>1, <1>2 DEF OwnersInv, NewAlone
<1>7. ClaimedOnce'
  BY <1>1 DEF OwnersInv, ClaimedOnce
<1>8. ChecksOwn'
  BY <1>1, <1>2, <1>3 DEF OwnersInv, ChecksOwn
<1>9. ConnectedOnce'
  <2>1. CASE pc[t] = "check"
    <3>1. hold[t] \notin Relays /\ UNCHANGED res
      BY <2>1, SessionsAssumption DEF Lives, Connects, StagesFit, OnSock
    <3> QED BY <1>1, <1>2, <3>1 DEF OwnersInv, ConnectedOnce
  <2>2. CASE pc[t] = "punch"
    <3>1. Connected(t) /\ UNCHANGED res
      BY <2>2 DEF Lives, Connects, Connected
    <3> QED BY <1>1, <1>2, <3>1 DEF OwnersInv, ConnectedOnce
  <2>3. CASE pc[t] = "connect"
    <3>1. Connects(t) /\ hold[t] \in Relays
      BY <2>3 DEF Lives, StagesFit, OnRelay
    <3>2. \A u \in Tasks : hold[u] = hold[t] => ~Connected(u)
      BY <3>1 DEF OwnersInv, ConnectedOnce, Connects
    <3>3. (\A y \in Relays, u \in Tasks : res[y] = "open" /\ hold[u] = y => ~Connected(u))'
      BY <1>1, <1>2, <3>1 DEF OwnersInv, ConnectedOnce, Connects, Resources
    <3>4. \A u, v \in Tasks :
            (hold'[u] \in Relays /\ hold'[v] = hold'[u] /\ Connected(u)' /\ Connected(v)') => v = u
      BY <1>1, <1>2, <3>2 DEF OwnersInv, ConnectedOnce
    <3> QED BY <3>3, <3>4 DEF ConnectedOnce
  <2> QED BY <1>1, <2>1, <2>2, <2>3
<1>10. ConnectedHeld'
  <2> SUFFICES ASSUME NEW y \in Resources, res'[y] = "connected"
               PROVE  \E u \in Tasks : hold[u] = y /\ (pc'[u] = "punch" \/ u \in live')
    BY <1>1 DEF ConnectedHeld
  <2>1. CASE y = hold[t] /\ Connects(t)
    BY <2>1 DEF Connects
  <2>2. CASE res[y] = "connected"
    <3>1. PICK u \in Tasks : hold[u] = y /\ (pc[u] = "punch" \/ u \in live)
      BY <2>2 DEF OwnersInv, ConnectedHeld
    <3>2. u = t => u \in live'
      BY <1>1, <3>1 DEF Lives, Connects
    <3> QED BY <1>1, <3>1, <3>2
  <2> QED BY <1>1, <2>1, <2>2 DEF Lives, Connects
<1>11. ResourcesOwned'
  <2> SUFFICES ASSUME NEW y \in Resources, res'[y] \in {"open", "connected"}
               PROVE  \/ \E s \in Sessions : y \in Owns(s)'
                      \/ \E u \in Tasks : hold[u] = y /\ (pc'[u] \in {"insert", "attach", "punch"} \/ u \in live')
    BY <1>1 DEF ResourcesOwned
  <2>1. res[y] \in {"open", "connected"}
    BY <1>1
  <2>2. ASSUME NEW u \in Tasks, hold[u] = y, pc[u] \in {"insert", "attach", "punch"} \/ u \in live
        PROVE  pc'[u] \in {"insert", "attach", "punch"} \/ u \in live'
    BY <1>1, <2>2 DEF Lives, Connects
  <2> QED BY <1>1, <2>1, <2>2 DEF OwnersInv, ResourcesOwned
<1>12. SessionsOwnAlone'
  <2>1. CASE Connects(t)
    <3>1. \A u \in live : u # t /\ u \in Tasks
      BY <1>1 DEF TypeOK
    <3> QED BY <1>1, <2>1, <3>1 DEF OwnersInv, SessionsOwnAlone, Connects
  <2>2. CASE Lives(t)
    <3>1. \A u \in live : u # t /\ u \in Tasks
      BY <1>1 DEF TypeOK
    <3>2. \A u \in live : hold[u] # hold[t]
      <4>1. CASE pc[t] = "check"
        <5>1. hold[t] \in Socks
          BY <4>1 DEF StagesFit, OnSock
        <5> QED BY <3>1, <5>1 DEF OwnersInv, ClaimedOnce
      <4>2. CASE pc[t] = "punch"
        <5>1. hold[t] \in Relays /\ Connected(t) /\ \A u \in live : Connected(u)
          BY <4>2 DEF StagesFit, OnRelay, Connected
        <5> QED BY <3>1, <5>1 DEF OwnersInv, ConnectedOnce
      <4> QED BY <2>2, <4>1, <4>2 DEF Lives
    <3>3. \A u \in live' : \A v \in live' : hold[v] = hold[u] => v = u
      BY <2>2, <3>2 DEF Lives, OwnersInv, SessionsOwnAlone
    <3>4. \A u \in live' : pc'[u] \notin {"transfer", "transferRelay"} => u \in live /\ u # t
      BY <2>2, <3>1 DEF Lives
    <3>5. \A u \in live' : pc'[u] \notin {"transfer", "transferRelay"} => \A s \in Sessions : hold[u] \notin Owns(s)
      BY <1>1, <3>1, <3>4 DEF OwnersInv, SessionsOwnAlone
    <3> QED BY <1>1, <3>3, <3>5 DEF SessionsOwnAlone
  <2> QED BY <2>1, <2>2
<1>13. TransfersLive'
  <2>1. \A u \in Tasks : u # t /\ pc[u] \in {"transfer", "transferRelay"} => hold[u] \in Resources
    BY DEF StagesFit, OnSock, OnRelay, Resources
  <2>2. \A u \in Tasks : u # t /\ pc'[u] \in {"transfer", "transferRelay"} => u \in live' \/ res'[hold'[u]] = "closed"
    BY <1>1, <2>1 DEF OwnersInv, TransfersLive
  <2>3. pc'[t] \in {"transfer", "transferRelay"} => t \in live'
    BY DEF Lives, Connects
  <2> QED BY <2>2, <2>3 DEF TransfersLive
<1> QED BY <1>4, <1>5, <1>6, <1>7, <1>8, <1>9, <1>10, <1>11, <1>12, <1>13 DEF OwnersInv

\* transferPreparedSocket, transferPreparedRelay: the preparation of o no longer
\* has what the session of t runs on, and nothing else of it is left open.
Transfers(t, o) ==
  /\ o = Session(t)
  /\ pc[t] \in {"transfer", "transferRelay"} /\ pc'[t] = "publish"
  /\ hold[t] \notin Owns(o)'
  /\ prepared'[o] \in {prepared[o], None}
  /\ \A s \in Sessions : s # o => prepared'[s] = prepared[s]
  /\ \A x \in Resources : Closes(x) /\ (x \in Owns(o) => x \in Owns(o)' \/ x = hold[t] \/ res'[x] # "open")
  /\ UNCHANGED <<hold, live>>
  /\ OthersRest(t)

\* The session is the only owner of what it runs on.
LEMMA TransfersKeeps ==
  ASSUME TypeOK, StagesFit, OwnersInv, TypeOK', StagesFit', NEW t \in Tasks,
         NEW o \in Sessions, Transfers(t, o)
  PROVE  OwnersInv'
<1> USE DEF Transfers, OthersRest
<1>1. \A s \in Sessions : /\ Owns(s)' \subseteq Owns(s)
                          /\ s # o => Owns(s)' = Owns(s)
                          /\ prepared'[s] # None => prepared'[s] = prepared[s]
  BY DEF Owns
<1>2. \A u \in Tasks : /\ NewSock(u)' = NewSock(u) /\ NewRelay(u)' = NewRelay(u)
                       /\ OnSock(u)' => OnSock(u) /\ u # t
                       /\ OnRelay(u)' => OnRelay(u) /\ u # t
                       /\ Connected(u)' => Connected(u)
  BY DEF NewSock, NewRelay, OnSock, OnRelay, Connected
<1>3. \A u \in Tasks : OnSock(u) \/ OnRelay(u) => Session(u)' = Session(u)
  BY DEF StagesFit, OnSock, OnRelay, Session
<1>4. hold[t] \in Resources /\ (t \notin live => res[hold[t]] = "closed")
  BY DEF StagesFit, OnSock, OnRelay, Resources, OwnersInv, TransfersLive
<1>5. \A x \in Resources : res[x] # "unused" => res'[x] # "unused"
  BY DEF Closes
<1>6. NothingUnused'
  <2>1. \A u \in Tasks : hold[u] # None => res'[hold[u]] # "unused"
    BY <1>5 DEF OwnersInv, NothingUnused, TypeOK
  <2>2. \A s \in Sessions : \A y \in Owns(s)' : y # None => res'[y] # "unused"
    <3> TAKE s \in Sessions
    <3> TAKE y \in Owns(s)'
    <3> HAVE y # None
    <3>1. prepared[s] # None => prepared[s] \in Preparations
      BY DEF TypeOK
    <3>2. y \in Owns(s) /\ y \in Resources
      BY <1>1, <3>1 DEF Owns, Preparations, Resources
    <3> QED BY <1>5, <3>2 DEF OwnersInv, NothingUnused
  <2> QED BY <2>1, <2>2 DEF NothingUnused
<1>7. OwnsDisjoint'
  BY <1>1 DEF OwnersInv, OwnsDisjoint
<1>8. NewAlone'
  BY <1>1, <1>2 DEF OwnersInv, NewAlone
<1>9. ClaimedOnce'
  BY <1>1 DEF OwnersInv, ClaimedOnce
<1>10. ChecksOwn'
  BY <1>1, <1>2, <1>3 DEF OwnersInv, ChecksOwn
<1>11. ConnectedOnce'
  <2>1. \A y \in Relays : res'[y] = "open" => res[y] = "open"
    BY DEF Closes, Resources
  <2> QED BY <1>2, <2>1 DEF OwnersInv, ConnectedOnce
<1>12. ConnectedHeld'
  <2> SUFFICES ASSUME NEW y \in Resources, res'[y] = "connected"
               PROVE  \E u \in Tasks : hold[u] = y /\ (pc'[u] = "punch" \/ u \in live)
    BY DEF ConnectedHeld
  <2>1. PICK u \in Tasks : hold[u] = y /\ (pc[u] = "punch" \/ u \in live)
    BY DEF OwnersInv, ConnectedHeld, Closes
  <2> QED BY <2>1
<1>13. ResourcesOwned'
  <2> SUFFICES ASSUME NEW y \in Resources, res'[y] \in {"open", "connected"}
               PROVE  \/ \E s \in Sessions : y \in Owns(s)'
                      \/ \E u \in Tasks : hold[u] = y /\ (pc'[u] \in {"insert", "attach", "punch"} \/ u \in live)
    BY DEF ResourcesOwned
  <2>1. CASE res'[y] = "connected"
    BY <1>12, <2>1 DEF ConnectedHeld
  <2>2. CASE res'[y] = "open" /\ y = hold[t]
    BY <1>4, <2>2 DEF Closes
  <2>3. CASE res'[y] = "open" /\ y # hold[t]
    <3>1. res[y] = "open"
      BY <2>3 DEF Closes
    <3>2. ASSUME NEW s \in Sessions, y \in Owns(s) PROVE y \in Owns(s)'
      BY <1>1, <2>3, <3>2
    <3>3. ASSUME NEW u \in Tasks, hold[u] = y, pc[u] \in {"insert", "attach", "punch"} \/ u \in live
          PROVE  pc'[u] \in {"insert", "attach", "punch"} \/ u \in live
      BY <2>3, <3>3
    <3> QED BY <3>1, <3>2, <3>3 DEF OwnersInv, ResourcesOwned
  <2> QED BY <2>1, <2>2, <2>3
<1>14. SessionsOwnAlone'
  <2>1. \A s \in Sessions : hold[t] \notin Owns(s)'
    <3>1. OnSock(t) \/ OnRelay(t)
      BY DEF OnSock, OnRelay
    <3> QED BY <1>1, <3>1 DEF OwnersInv, ChecksOwn
  <2>2. \A u \in live : u \in Tasks
    BY DEF TypeOK
  <2> QED BY <1>1, <2>1, <2>2 DEF OwnersInv, SessionsOwnAlone
<1>15. TransfersLive'
  <2>1. \A u \in Tasks : pc[u] \in {"transfer", "transferRelay"} => hold[u] \in Resources
    BY DEF StagesFit, OnSock, OnRelay, Resources
  <2> QED BY <2>1 DEF OwnersInv, TransfersLive, Closes
<1> QED BY <1>6, <1>7, <1>8, <1>9, <1>10, <1>11, <1>12, <1>13, <1>14, <1>15 DEF OwnersInv

\* What Shut and HangUp do to one socket or allocation.
LEMMA ClosingCloses ==
  ASSUME TypeOK, NothingUnused
  PROVE  /\ \A xs : \A x \in Resources :
              /\ Shut(xs)[x] = res[x] \/ (res[x] # "unused" /\ Shut(xs)[x] = "closed")
              /\ x \in xs => Shut(xs)[x] # "open"
              /\ x \notin xs => Shut(xs)[x] = res[x]
         /\ \A ts \in SUBSET Tasks : \A x \in Resources :
              HangUp(ts)[x] = res[x] \/ (res[x] # "unused" /\ HangUp(ts)[x] = "closed")
         /\ \A ts : \A t \in ts : hold[t] \in Resources => HangUp(ts)[hold[t]] = "closed"
<1>1. \A xs : \A x \in Resources :
        /\ Shut(xs)[x] = res[x] \/ (res[x] # "unused" /\ Shut(xs)[x] = "closed")
        /\ x \in xs => Shut(xs)[x] # "open"
        /\ x \notin xs => Shut(xs)[x] = res[x]
  BY DEF Shut
<1>2. ASSUME NEW ts \in SUBSET Tasks, NEW x \in Resources
      PROVE  HangUp(ts)[x] = res[x] \/ (res[x] # "unused" /\ HangUp(ts)[x] = "closed")
  BY SessionsAssumption DEF HangUp, NothingUnused
<1>3. \A ts : \A t \in ts : hold[t] \in Resources => HangUp(ts)[hold[t]] = "closed"
  BY DEF HangUp
<1> QED BY <1>1, <1>2, <1>3

\* The goroutine does not move and keeps what it has.
Stays(u) ==
  /\ pc'[u] = pc[u] /\ hold'[u] = hold[u]
  /\ u \in live' <=> u \in live

\* Cancelling the preparation of s.
LEMMA CancelFades ==
  ASSUME TypeOK, NothingUnused, NEW s, CancelPrepared(s)
  PROVE  (\A x \in Resources : Closes(x)) /\ (\A r \in Sessions : Cancels(r))
<1>1. \A r \in Sessions : r = s => prepared'[r] = None
  BY DEF CancelPrepared, TypeOK
<1>2. \A r \in Sessions : r # s => prepared'[r] = prepared[r]
  BY DEF CancelPrepared, TypeOK
<1>3. res' = Shut(Owns(s))
  BY DEF CancelPrepared
<1> QED BY <1>1, <1>2, <1>3, ClosingCloses DEF Closes, Cancels

\* A step that moves one goroutine with nothing in its hands and hands nothing over.
LEMMA OneFades ==
  ASSUME TypeOK, StagesFit, [Next]_vars, NEW t \in Tasks,
         \A x \in Resources : Closes(x), \A s \in Sessions : Cancels(s),
         Discards(t), LetsGo(t), \A u \in Tasks : u # t => Stays(u)
  PROVE  Fades
<1>1. \A u \in Tasks : u # t => Discards(u) /\ LetsGo(u)
  BY DEF Stays, Discards, LetsGo
<1> QED BY <1>1, JobsKept DEF Fades

\* A step that moves no goroutine and hands nothing over.
LEMMA NoneFades ==
  ASSUME TypeOK, StagesFit, [Next]_vars,
         \A x \in Resources : Closes(x), \A s \in Sessions : Cancels(s),
         UNCHANGED <<pc, hold, live>>
  PROVE  Fades
BY JobsKept DEF Fades, Discards, LetsGo

\* A signal, and the steps that belong to no goroutine, hand nothing over.
LEMMA EventsFade ==
  ASSUME TypeOK, StagesFit, NothingUnused, [Next]_vars
  PROVE  Fades \/ \E t \in Tasks : TaskStep(t)
<1>1. UNCHANGED res => \A x \in Resources : Closes(x)
  BY DEF Closes
<1>2. UNCHANGED prepared => \A s \in Sessions : Cancels(s)
  BY DEF Cancels
<1>3. ASSUME NEW p \in Peers, LearnPeer(p) \/ EntryExpires(p) PROVE Fades
  BY <1>1, <1>2, <1>3, NoneFades DEF LearnPeer, EntryExpires, taskVars, managerVars
<1>4. ASSUME NEW t \in Tasks, NEW p \in Peers, NEW s \in Sessions, Signal(t, p, s) PROVE Fades
  <2>1. /\ UNCHANGED <<res, prepared, hold, live>>
        /\ \E stage \in {"prepare", "establish", "fallback"} : pc[t] = "idle" /\ Goto(t, stage)
    BY <1>4 DEF Signal, OfferICE, ReceiveOffer, ReceiveAnswer, ReceiveFallback, Begin, managerVars
  <2>2. pc'[t] \in {"prepare", "establish", "fallback"} /\ \A u \in Tasks : u # t => pc'[u] = pc[u]
    BY <2>1, GotoMoves
  <2>3. Discards(t) /\ LetsGo(t)
    BY <2>1, <2>2 DEF Discards, LetsGo, NewSock, NewRelay
  <2>4. \A u \in Tasks : u # t => Stays(u)
    BY <2>1, <2>2 DEF Stays
  <2> QED BY <1>1, <1>2, <2>1, <2>3, <2>4, OneFades
<1>5. ASSUME NEW t \in Tasks, SessionEnds(t) PROVE Fades
  <2>1. /\ UNCHANGED <<prepared, pc, hold>> /\ res' = HangUp({t}) /\ live' = live \ {t}
        /\ t \in live /\ hold[t] \in Resources
    BY <1>5 DEF SessionEnds, managerVars, StagesFit
  <2>2. (\A x \in Resources : Closes(x)) /\ res'[hold[t]] = "closed"
    BY <2>1, ClosingCloses DEF Closes
  <2>3. Discards(t) /\ LetsGo(t)
    BY <2>1, <2>2 DEF Discards, LetsGo
  <2>4. \A u \in Tasks : u # t => Stays(u)
    BY <2>1 DEF Stays
  <2> QED BY <1>2, <2>1, <2>2, <2>3, <2>4, OneFades
<1>6. ASSUME NEW t \in Tasks, ForgetConnection(t) PROVE Fades
  BY <1>1, <1>2, <1>6, NoneFades DEF ForgetConnection, taskVars
<1>7. ASSUME NEW s \in Sessions, PreparedExpires(s) \/ ContextCancel(s) PROVE Fades
  BY <1>7, CancelFades, NoneFades DEF PreparedExpires, ContextCancel, taskVars
<1>8. ASSUME NEW y \in Relays, RelayExpires(y) PROVE Fades
  <2>1. \A x \in Resources : Closes(x)
    BY <1>8 DEF RelayExpires, Closes, TypeOK
  <2> QED BY <1>2, <1>8, <2>1, NoneFades DEF RelayExpires, managerVars, taskVars
<1>9. CASE Disconnect \/ Reconnect \/ UNCHANGED vars
  BY <1>1, <1>2, <1>9, NoneFades DEF Disconnect, Reconnect, vars, managerVars, taskVars
<1>10. CASE SwapState
  <2>1. {active[p] : p \in Peers} \ {None} \in SUBSET Tasks
    BY DEF TypeOK
  <2>2. \A x \in Resources : Closes(x)
    BY <1>10, <2>1, ClosingCloses DEF SwapState, Closes
  <2> QED BY <1>2, <1>10, <2>2, NoneFades DEF SwapState, managerVars, taskVars
<1>11. CASE ManagerClose
  <2> DEFINE shut == UNION {Owns(s) : s \in Sessions}
             ts == {connections[p] : p \in Peers} \ {None}
  <2>1. ts \in SUBSET Tasks
    BY DEF TypeOK
  <2>2. res' = [x \in Resources |-> IF x \in shut THEN Shut(shut)[x] ELSE HangUp(ts)[x]]
    BY <1>11 DEF ManagerClose
  <2>3. \A s \in Sessions : Owns(s) \subseteq shut /\ prepared'[s] = None
    BY <1>11 DEF ManagerClose
  <2> HIDE DEF shut, ts
  <2>4. \A x \in Resources : Closes(x) /\ (x \in shut => res'[x] # "open")
    BY <2>1, <2>2, ClosingCloses DEF Closes
  <2>5. \A s \in Sessions : Cancels(s)
    BY <2>3, <2>4 DEF Cancels
  <2> QED BY <1>11, <2>4, <2>5, NoneFades DEF ManagerClose, taskVars
<1> QED BY <1>3, <1>4, <1>5, <1>6, <1>7, <1>8, <1>9, <1>10, <1>11 DEF Next, CloseStep

\* What a goroutine's step does with sockets and allocations.
LEMMA TaskOwners ==
  ASSUME TypeOK, StagesFit, OwnersInv, [Next]_vars, NEW t \in Tasks, TaskStep(t)
  PROVE  \/ Fades
         \/ \E x \in Resources : Takes(t, x)
         \/ \E o \in Sessions : HandsOver(t, o)
         \/ \E o \in Sessions, x \in Resources : Picks(t, o, x)
         \/ Lives(t) \/ Connects(t)
         \/ \E o \in Sessions : Transfers(t, o)
<1> DEFINE s == Session(t)
           Goal == \/ Fades
                   \/ \E x \in Resources : Takes(t, x)
                   \/ \E o \in Sessions : HandsOver(t, o)
                   \/ \E o \in Sessions, x \in Resources : Picks(t, o, x)
                   \/ Lives(t) \/ Connects(t)
                   \/ \E o \in Sessions : Transfers(t, o)
           Free == {"idle", "prepare", "bind", "inserted", "relay", "allocate", "start", "begin",
                    "establish", "claim", "relayTry", "publish", "complete", "install", "monitor",
                    "monitorDelete", "done", "failCancel", "failEntry", "failCancelAgain",
                    "fallback", "fallbackFail", "fallbackCancel"}
<1>1. NothingUnused
  BY DEF OwnersInv
<1>2. UNCHANGED res => \A x \in Resources : Closes(x)
  BY DEF Closes
<1>3. UNCHANGED prepared => \A r \in Sessions : Cancels(r)
  BY DEF Cancels
<1>4. \A xs : res' = Shut(xs) => \A x \in Resources : Closes(x) /\ (x \in xs => res'[x] # "open")
  BY <1>1, ClosingCloses DEF Closes
<1>5. \A ts \in SUBSET Tasks : res' = HangUp(ts) => \A x \in Resources : Closes(x)
  BY <1>1, ClosingCloses DEF Closes
<1>6. \A r \in Sessions : CancelPrepared(r) => (\A x \in Resources : Closes(x)) /\ (\A q \in Sessions : Cancels(q))
  BY <1>1, CancelFades
<1>7. ASSUME \A u \in Tasks : u # t => pc'[u] = pc[u], UNCHANGED <<hold, live>>, pc[t] \in Free, pc'[t] \in Free,
             \A x \in Resources : Closes(x), \A r \in Sessions : Cancels(r)
      PROVE  Fades
  <2>1. Discards(t) /\ LetsGo(t)
    BY <1>7 DEF Discards, LetsGo, NewSock, NewRelay
  <2>2. \A u \in Tasks : u # t => Stays(u)
    BY <1>7 DEF Stays
  <2> QED BY <1>7, <2>1, <2>2, OneFades
<1>8. ASSUME NEW stage, Goto(t, stage)
      PROVE  pc'[t] = stage /\ \A u \in Tasks : u # t => pc'[u] = pc[u]
  BY <1>8, GotoMoves
<1>9. PrepareError(t) => pc'[t] \in {"prepare", "done"} /\ \A u \in Tasks : u # t => pc'[u] = pc[u]
  BY <1>8 DEF PrepareError
<1>10. Prepared(t) => pc'[t] \in {"relay", "start"} /\ \A u \in Tasks : u # t => pc'[u] = pc[u]
  BY <1>8 DEF Prepared
<1>11. pc[t] # "idle" => s \in Sessions /\ job[t] # None
  BY HasJob, SessionsAssumption
<1>12. \A u \in Tasks : job[u] # None => job'[u].session = job[u].session
  BY JobsKept
<1>13. \A x : \A u \in Tasks : [hold EXCEPT ![t] = x][u] = IF u = t THEN x ELSE hold[u]
  BY DEF TypeOK
<1>14. ASSUME NEW ok \in BOOLEAN, NEW x \in Socks, PrepareBind(t, ok, x) PROVE Goal
  <2>1. CASE ok
    <3>1. /\ x \in Resources /\ res[x] = "unused" /\ res'[x] = "open" /\ \A y \in Resources : y # x => res'[y] = res[y]
          /\ pc[t] = "bind" /\ pc'[t] = "insert" /\ UNCHANGED <<prepared, live>> /\ hold'[t] = x
          /\ \A u \in Tasks : u # t => pc'[u] = pc[u] /\ hold'[u] = hold[u]
      BY <1>8, <1>13, <1>14, <2>1 DEF PrepareBind, TypeOK, Resources
    <3> QED BY <1>12, <3>1 DEF Takes, OthersRest
  <2>2. CASE ~ok
    BY <1>2, <1>3, <1>7, <1>9, <1>14, <2>2 DEF PrepareBind
  <2> QED BY <2>1, <2>2
<1>15. ASSUME NEW ok \in BOOLEAN, NEW y \in Relays, RelayAllocate(t, ok, y) PROVE Goal
  <2>1. CASE ok
    <3>1. /\ y \in Resources /\ res[y] = "unused" /\ res'[y] = "open" /\ \A z \in Resources : z # y => res'[z] = res[z]
          /\ pc[t] = "allocate" /\ pc'[t] = "attach" /\ UNCHANGED <<prepared, live>> /\ hold'[t] = y
          /\ \A u \in Tasks : u # t => pc'[u] = pc[u] /\ hold'[u] = hold[u]
      BY <1>8, <1>13, <1>15, <2>1 DEF RelayAllocate, TypeOK, Resources
    <3> QED BY <1>12, <3>1 DEF Takes, OthersRest
  <2>2. CASE ~ok
    <3>1. pc[t] = "allocate" /\ CancelPrepared(s) /\ PrepareError(t) /\ UNCHANGED <<hold, live>>
      BY <1>15, <2>2 DEF RelayAllocate
    <3> QED BY <1>6, <1>7, <1>9, <1>11, <3>1
  <2> QED BY <2>1, <2>2
<1>16. ASSUME pc[t] \in {"insert", "attach"}, hold' = [hold EXCEPT ![t] = None], res' = Shut({hold[t]}),
              UNCHANGED <<prepared, live>>, pc'[t] \in Free, \A u \in Tasks : u # t => pc'[u] = pc[u]
       PROVE  Fades
  <2>1. hold[t] \in Resources /\ res[hold[t]] # "connected"
    <3>1. hold[t] \in Resources
      BY <1>16 DEF StagesFit, NewSock, NewRelay, Resources
    <3>2. \A u \in Tasks : hold[u] = hold[t] => u = t
      BY <1>16 DEF OwnersInv, NewAlone, NewSock, NewRelay
    <3>3. t \notin live /\ pc[t] # "punch"
      BY <1>16 DEF StagesFit, SessionStages
    <3> QED BY <3>1, <3>2, <3>3 DEF OwnersInv, ConnectedHeld
  <2>2. \A x \in Resources : Closes(x)
    BY <1>4, <1>16
  <2>3. res'[hold[t]] \notin {"open", "connected"}
    BY <1>4, <1>16, <2>1 DEF Closes
  <2>4. hold'[t] = None /\ \A u \in Tasks : u # t => Stays(u)
    BY <1>13, <1>16 DEF Stays
  <2>5. Discards(t) /\ LetsGo(t)
    BY <1>16, <2>3, <2>4 DEF Discards, LetsGo, NewSock, NewRelay
  <2> QED BY <1>3, <1>16, <2>2, <2>4, <2>5, OneFades
<1>17. ASSUME PrepareInsert(t) PROVE Goal
  <2>1. pc[t] = "insert" /\ hold' = [hold EXCEPT ![t] = None] /\ UNCHANGED live
    BY <1>17 DEF PrepareInsert
  <2>2. CASE prepared[s] # None \/ PreparedCount >= conf.capacity
    <3>1. res' = Shut({hold[t]}) /\ UNCHANGED prepared
          /\ pc'[t] \in Free /\ \A u \in Tasks : u # t => pc'[u] = pc[u]
      <4>1. CASE prepared[s] # None
        BY <1>10, <1>17, <4>1 DEF PrepareInsert
      <4>2. CASE prepared[s] = None
        <5>1. ~(PreparedCount < conf.capacity)
          <6>1. IsFiniteSet({r \in Sessions : prepared[r] # None})
            BY SessionsAssumption, FS_Subset
          <6>2. PreparedCount \in Nat
            BY <6>1, FS_CardinalityType DEF PreparedCount
          <6>3. IsFiniteSet(Sessions) /\ Cardinality(Sessions) \in Nat
            BY SessionsAssumption, FS_CardinalityType
          <6>4. conf.capacity \in Nat
            BY <6>3, SessionsAssumption DEF TypeOK, Clients
          <6> QED BY <2>2, <4>2, <6>2, <6>4
        <5> QED BY <1>9, <1>17, <4>2, <5>1 DEF PrepareInsert
      <4> QED BY <4>1, <4>2
    <3> QED BY <1>16, <2>1, <3>1
  <2>3. CASE prepared[s] = None /\ ~(PreparedCount >= conf.capacity)
    <3> DEFINE entry == [sock |-> hold[t], relay |-> None, claimed |-> FALSE, epoch |-> job[t].epoch]
    <3>1. /\ prepared' = [prepared EXCEPT ![s] = entry] /\ UNCHANGED res
          /\ pc'[t] = "inserted" /\ \A u \in Tasks : u # t => pc'[u] = pc[u]
      BY <1>8, <1>17, <2>3 DEF PrepareInsert
    <3>2. s \in Sessions /\ hold[t] \in Resources /\ hold[t] \in Socks
      BY <1>11, <2>1 DEF StagesFit, NewSock, Resources
    <3>3. /\ prepared'[s] = entry /\ \A r \in Sessions : r # s => prepared'[r] = prepared[r]
      BY <3>1, <3>2 DEF TypeOK
    <3>4. entry # None
      <4>1. job[t].epoch \in Epochs
        BY <2>1, HasJob
      <4>2. entry \in Preparations
        BY <3>2, <4>1 DEF Preparations
      <4> QED BY <4>2, SessionsAssumption
    <3> DEFINE o == s
    <3>5. o = Session(t) /\ o \in Sessions /\ prepared[o] = None /\ prepared'[o] = entry
      BY <2>3, <3>2, <3>3
    <3>6. \E q \in Sessions : q = s
      BY <3>2
    <3>7. ASSUME NEW q \in Sessions, q = s PROVE HandsOver(t, q)
      <4>1. prepared[q] = None /\ prepared'[q] = entry /\ q = Session(t)
        BY <3>5, <3>7
      <4>2. Owns(q) = {} /\ Owns(q)' = {hold[t], None}
        BY <3>4, <4>1 DEF Owns
      <4>3. \A x \in Resources : x \in Owns(q)' <=> x \in Owns(q) \/ x = hold[t]
        BY <4>2, SessionsAssumption
      <4>4. OthersRest(t)
        BY <1>12, <1>13, <2>1, <3>1 DEF OthersRest
      <4>5. prepared'[q].sock = hold[t] /\ hold'[t] = None
        BY <1>13, <2>1, <4>1
      <4> QED BY <2>1, <3>1, <3>3, <4>1, <4>3, <4>4, <4>5 DEF HandsOver, NewSock
    <3> QED BY <3>6, <3>7
  <2> QED BY <2>2, <2>3
<1>18. ASSUME RelayAttach(t) PROVE Goal
  <2>1. pc[t] = "attach" /\ hold' = [hold EXCEPT ![t] = None] /\ UNCHANGED live
    BY <1>18 DEF RelayAttach
  <2>2. CASE prepared[s] = None \/ prepared[s].relay # None
    BY <1>8, <1>9, <1>16, <1>18, <2>1, <2>2 DEF RelayAttach
  <2>3. CASE ~(prepared[s] = None \/ prepared[s].relay # None)
    <3>1. /\ prepared' = [prepared EXCEPT ![s].relay = hold[t]] /\ UNCHANGED res
          /\ pc'[t] = "start" /\ \A u \in Tasks : u # t => pc'[u] = pc[u]
      BY <1>8, <1>18, <2>3 DEF RelayAttach
    <3>2. s \in Sessions /\ hold[t] \in Resources /\ hold[t] \in Relays
      BY <1>11, <2>1 DEF StagesFit, NewRelay, Resources
    <3>3. PICK q \in Sessions : q = s
      BY <3>2
    <3>4. prepared[q] # None /\ prepared[q].relay = None /\ q = Session(t) /\ prepared[q] \in Preparations
      BY <2>3, <3>3 DEF TypeOK
    <3>5. prepared'[q] = [prepared[q] EXCEPT !.relay = hold[t]] /\ \A r \in Sessions : r # q => prepared'[r] = prepared[r]
      BY <3>1, <3>3 DEF TypeOK
    <3>6. prepared'[q] \in Preparations /\ prepared'[q].sock = prepared[q].sock
          /\ prepared'[q].relay = hold[t] /\ prepared'[q].claimed = prepared[q].claimed
      BY <3>2, <3>4, <3>5 DEF Preparations
    <3>7. Owns(q) = {prepared[q].sock, None} /\ Owns(q)' = {prepared[q].sock, hold[t]}
      BY <3>4, <3>6, SessionsAssumption DEF Owns
    <3>8. \A x \in Resources : x \in Owns(q)' <=> x \in Owns(q) \/ x = hold[t]
      BY <3>7, SessionsAssumption
    <3>9. OthersRest(t) /\ hold'[t] = None
      <4>1. hold'[t] = None /\ \A u \in Tasks : u # t => hold'[u] = hold[u]
        BY <1>13, <2>1
      <4> QED BY <1>12, <2>1, <3>1, <4>1 DEF OthersRest
    <3>10. HandsOver(t, q)
      BY <2>1, <3>1, <3>4, <3>5, <3>6, <3>8, <3>9 DEF HandsOver, NewRelay
    <3> QED BY <3>10
  <2> QED BY <2>2, <2>3
<1>19. ASSUME Claim(t) PROVE Goal
  <2>1. pc[t] = "claim" /\ UNCHANGED <<res, live>> /\ s \in Sessions
    BY <1>11, <1>19 DEF Claim
  <2>2. CASE prepared[s] # None /\ ~prepared[s].claimed
    <3>1. /\ prepared' = [prepared EXCEPT ![s].claimed = TRUE] /\ hold' = [hold EXCEPT ![t] = prepared[s].sock]
          /\ pc'[t] = "check" /\ \A u \in Tasks : u # t => pc'[u] = pc[u]
      BY <1>8, <1>19, <2>2 DEF Claim
    <3>2. PICK q \in Sessions : q = s
      BY <2>1
    <3>3. PICK x \in Resources : x = prepared[q].sock
      BY <2>2, <3>2 DEF TypeOK, Preparations, Resources
    <3>4. prepared[q] # None /\ ~prepared[q].claimed /\ q = Session(t) /\ prepared[q] \in Preparations
      BY <2>2, <3>2 DEF TypeOK
    <3>5. prepared'[q] = [prepared[q] EXCEPT !.claimed = TRUE] /\ \A r \in Sessions : r # q => prepared'[r] = prepared[r]
      BY <3>1, <3>2 DEF TypeOK
    <3>6. prepared'[q] \in Preparations /\ prepared'[q].sock = prepared[q].sock
          /\ prepared'[q].relay = prepared[q].relay /\ prepared'[q].claimed
      BY <3>4, <3>5 DEF Preparations
    <3>7. Owns(q)' = Owns(q) /\ x \in Owns(q)
      BY <3>3, <3>4, <3>6, SessionsAssumption DEF Owns
    <3>8. ASSUME NEW r \in Sessions
          PROVE  /\ Owns(r)' = Owns(r)
                 /\ prepared'[r] # None =>
                      /\ prepared[r] # None /\ prepared'[r].sock = prepared[r].sock
                      /\ prepared[r].claimed => prepared'[r].claimed
      BY <3>4, <3>5, <3>6, <3>7 DEF Owns
    <3>9. OthersRest(t) /\ hold'[t] = x
      <4>1. hold'[t] = x /\ \A u \in Tasks : u # t => hold'[u] = hold[u]
        BY <1>13, <3>1, <3>2, <3>3
      <4> QED BY <1>12, <2>1, <3>1, <4>1 DEF OthersRest
    <3>10. Picks(t, q, x)
      BY <2>1, <3>1, <3>3, <3>4, <3>6, <3>7, <3>8, <3>9 DEF Picks
    <3> QED BY <3>10
  <2>3. CASE ~(prepared[s] # None /\ ~prepared[s].claimed)
    BY <1>2, <1>3, <1>7, <1>8, <1>19, <2>1, <2>3 DEF Claim
  <2> QED BY <2>2, <2>3
<1>20. ASSUME NEW ok \in BOOLEAN, RelayTry(t, ok) PROVE Goal
  <2>1. pc[t] = "relayTry" /\ UNCHANGED <<res, live, prepared>> /\ s \in Sessions
    BY <1>11, <1>20 DEF RelayTry, managerVars
  <2>2. CASE ok
    <3>1. /\ prepared[s] # None /\ prepared[s].relay # None /\ hold' = [hold EXCEPT ![t] = prepared[s].relay]
          /\ pc'[t] = "connect" /\ \A u \in Tasks : u # t => pc'[u] = pc[u]
      BY <1>8, <1>20, <2>2 DEF RelayTry
    <3>2. PICK q \in Sessions : q = s
      BY <2>1
    <3>3. PICK x \in Resources : x = prepared[q].relay /\ x \in Relays /\ x \in Owns(q)
      BY <3>1, <3>2 DEF TypeOK, Preparations, Resources, Owns
    <3>4. \A r \in Sessions : Owns(r)' = Owns(r)
      BY <2>1 DEF Owns
    <3>5. OthersRest(t) /\ hold'[t] = x
      BY <1>12, <1>13, <2>1, <3>1, <3>2, <3>3 DEF OthersRest
    <3>6. Picks(t, q, x)
      BY <2>1, <3>1, <3>2, <3>3, <3>4, <3>5 DEF Picks
    <3> QED BY <3>6
  <2>3. CASE ~ok
    BY <1>2, <1>3, <1>7, <1>8, <1>20, <2>1, <2>3 DEF RelayTry
  <2> QED BY <2>2, <2>3
<1>21. ASSUME UNCHANGED <<hold, live>>, (\A x \in Resources : Closes(x)), (\A r \in Sessions : Cancels(r)),
              pc'[t] \in Free, \A u \in Tasks : u # t => pc'[u] = pc[u],
              pc[t] \in {"check", "connect"} \/ (pc[t] = "punch" /\ res'[hold[t]] = "closed")
       PROVE  Fades
  <2>1. Discards(t) /\ LetsGo(t)
    BY <1>21 DEF Discards, LetsGo, NewSock, NewRelay
  <2>2. \A u \in Tasks : u # t => Stays(u)
    BY <1>21 DEF Stays
  <2> QED BY <1>21, <2>1, <2>2, OneFades
<1>22. ASSUME NEW ok \in BOOLEAN, CheckDirect(t, ok) PROVE Goal
  <2>1. pc[t] = "check" /\ UNCHANGED <<res, prepared, hold>>
    BY <1>22 DEF CheckDirect, managerVars
  <2>2. CASE ok
    <3>1. pc'[t] = "transfer" /\ live' = live \cup {t} /\ \A u \in Tasks : u # t => pc'[u] = pc[u]
      BY <1>8, <1>22, <2>2 DEF CheckDirect
    <3>2. Lives(t)
      BY <1>12, <2>1, <3>1 DEF Lives, OthersRest
    <3> QED BY <3>2
  <2>3. CASE ~ok
    BY <1>2, <1>3, <1>8, <1>21, <1>22, <2>1, <2>3 DEF CheckDirect
  <2> QED BY <2>2, <2>3
<1>23. ASSUME NEW ok \in BOOLEAN, RelayConnect(t, ok) PROVE Goal
  <2>1. pc[t] = "connect" /\ UNCHANGED <<prepared, hold, live>> /\ hold[t] \in Resources
    BY <1>23 DEF RelayConnect, managerVars, StagesFit, OnRelay, Resources
  <2>2. CASE ok
    <3>1. /\ pc'[t] = "punch" /\ \A u \in Tasks : u # t => pc'[u] = pc[u]
          /\ res[hold[t]] = "open" /\ res' = [res EXCEPT ![hold[t]] = "connected"]
      BY <1>8, <1>23, <2>2 DEF RelayConnect
    <3>2. res'[hold[t]] = "connected" /\ \A x \in Resources : x # hold[t] => res'[x] = res[x]
      BY <2>1, <3>1 DEF TypeOK
    <3>3. Connects(t)
      BY <1>12, <2>1, <3>1, <3>2 DEF Connects, OthersRest
    <3> QED BY <3>3
  <2>3. CASE ~ok
    BY <1>3, <1>4, <1>8, <1>21, <1>23, <2>1, <2>3 DEF RelayConnect
  <2> QED BY <2>2, <2>3
<1>24. ASSUME NEW ok \in BOOLEAN, RelayPunch(t, ok) PROVE Goal
  <2>1. pc[t] = "punch" /\ UNCHANGED <<prepared, hold>> /\ hold[t] \in Resources
    BY <1>24 DEF RelayPunch, managerVars, StagesFit, OnRelay, Resources
  <2>2. CASE ok
    <3>1. pc'[t] = "transferRelay" /\ live' = live \cup {t} /\ UNCHANGED res /\ \A u \in Tasks : u # t => pc'[u] = pc[u]
      BY <1>8, <1>24, <2>2 DEF RelayPunch
    <3>2. Lives(t)
      BY <1>12, <2>1, <3>1 DEF Lives, OthersRest
    <3> QED BY <3>2
  <2>3. CASE ~ok
    <3>1. /\ pc'[t] = "failCancel" /\ UNCHANGED live /\ res' = [res EXCEPT ![hold[t]] = "closed"]
          /\ \A u \in Tasks : u # t => pc'[u] = pc[u]
      BY <1>8, <1>24, <2>3 DEF RelayPunch
    <3>2. res[hold[t]] # "unused" /\ res'[hold[t]] = "closed" /\ \A x \in Resources : x # hold[t] => res'[x] = res[x]
      BY <1>1, <2>1, <3>1, SessionsAssumption DEF TypeOK, NothingUnused
    <3>3. \A x \in Resources : Closes(x)
      BY <3>2 DEF Closes
    <3> QED BY <1>3, <1>21, <2>1, <3>1, <3>2, <3>3
  <2> QED BY <2>2, <2>3
<1>25. ASSUME Transfer(t) PROVE Goal
  <2>1. /\ pc[t] \in {"transfer", "transferRelay"} /\ UNCHANGED <<hold, live>>
        /\ pc'[t] = "publish" /\ \A u \in Tasks : u # t => pc'[u] = pc[u]
    BY <1>8, <1>25 DEF Transfer
  <2>2. PICK q \in Sessions : q = s
    BY <1>11, <2>1
  <2>3. CASE hold[t] \in Owns(q)
    <3>1. prepared' = [prepared EXCEPT ![q] = None] /\ res' = Shut(Owns(q) \ {hold[t]})
      BY <1>25, <2>2, <2>3 DEF Transfer
    <3>2. prepared'[q] = None /\ \A r \in Sessions : r # q => prepared'[r] = prepared[r]
      BY <3>1 DEF TypeOK
    <3>3. \A x \in Resources : Closes(x) /\ (x \in Owns(q) => x = hold[t] \/ res'[x] # "open")
      BY <1>4, <3>1
    <3>4. Owns(q)' = {}
      BY <3>2 DEF Owns
    <3>5. Transfers(t, q)
      BY <1>12, <2>1, <2>2, <3>2, <3>3, <3>4 DEF Transfers, OthersRest
    <3> QED BY <3>5
  <2>4. CASE hold[t] \notin Owns(q)
    <3>1. UNCHANGED <<prepared, res>>
      BY <1>25, <2>2, <2>4 DEF Transfer
    <3>2. Owns(q)' = Owns(q)
      BY <3>1 DEF Owns
    <3>3. Transfers(t, q)
      BY <1>2, <1>12, <2>1, <2>2, <2>4, <3>1, <3>2 DEF Transfers, OthersRest
    <3> QED BY <3>3
  <2> QED BY <2>3, <2>4
<1>26. ASSUME PrepareBegin(t) \/ RelayLookup(t) \/ BeginCheck(t) \/ Establish(t) PROVE Fades
  BY <1>2, <1>3, <1>7, <1>8, <1>9, <1>10, <1>26 DEF PrepareBegin, RelayLookup, BeginCheck, Establish, managerVars
<1>27. ASSUME PrepareReturn(t) \/ NegotiationStart(t) \/ FailCancel(t) \/ FallbackCancel(t) PROVE Fades
  <2>1. /\ pc[t] \in Free /\ pc'[t] \in Free /\ UNCHANGED <<hold, live>> /\ \A u \in Tasks : u # t => pc'[u] = pc[u]
        /\ CancelPrepared(s) \/ UNCHANGED <<prepared, res>>
    BY <1>8, <1>10, <1>27 DEF PrepareReturn, NegotiationStart, FailCancel, FallbackCancel
  <2>2. s \in Sessions
    BY <1>11, <1>27 DEF PrepareReturn, NegotiationStart, FailCancel, FallbackCancel
  <2> QED BY <1>2, <1>3, <1>6, <1>7, <2>1, <2>2
<1>28. ASSUME Publish(t) \/ FailEntry(t) \/ MonitorDelete(t) \/ FallbackFail(t) PROVE Fades
  BY <1>2, <1>3, <1>7, <1>8, <1>28 DEF Publish, FailEntry, MonitorDelete, FallbackFail, managerVars
<1>29. ASSUME Complete(t) \/ Install(t) \/ Monitor(t) \/ FallbackRemove(t) PROVE Fades
  <2>1. \A p \in Peers : active[p] \in Tasks \cup {None}
    BY DEF TypeOK
  <2>2. pc[t] # "idle" => Peer(t) \in Peers
    BY HasJob
  <2>3. /\ pc[t] \in Free /\ pc'[t] \in Free /\ UNCHANGED <<hold, live, prepared>> /\ \A u \in Tasks : u # t => pc'[u] = pc[u]
    BY <1>8, <1>29 DEF Complete, Install, Monitor, FallbackRemove, managerVars
  <2>4. (\E ts \in SUBSET Tasks : res' = HangUp(ts)) \/ UNCHANGED res
    <3>1. CASE Complete(t)
      BY <3>1 DEF Complete
    <3>2. CASE Install(t)
      <4>1. {active[Peer(t)]} \ {None} \in SUBSET Tasks
        BY <2>1, <2>2, <3>2 DEF Install
      <4> QED BY <3>2, <4>1 DEF Install
    <3>3. CASE Monitor(t) \/ FallbackRemove(t)
      <4>1. active[Peer(t)] # None => {active[Peer(t)]} \in SUBSET Tasks
        BY <2>1, <2>2, <3>3 DEF Monitor, FallbackRemove
      <4> QED BY <3>3, <4>1 DEF Monitor, FallbackRemove, RemoveIfMatch
    <3> QED BY <1>29, <3>1, <3>2, <3>3
  <2>5. \A x \in Resources : Closes(x)
    BY <1>2, <1>5, <2>4
  <2> QED BY <1>3, <1>7, <2>3, <2>5
<1> HIDE DEF Goal
<1>30. Fades => Goal
  BY DEF Goal
<1>31. Goal
  BY TaskCases, <1>14, <1>15, <1>17, <1>18, <1>19, <1>20, <1>22, <1>23, <1>24, <1>25, <1>26, <1>27, <1>28,
     <1>29, <1>30
<1> QED BY <1>31 DEF Goal

\* A step keeps every socket and allocation with its owner.
LEMMA OwnersNext ==
  ASSUME TypeOK, StagesFit, OwnersInv, [Next]_vars
  PROVE  OwnersInv'
<1>1. TypeOK' /\ StagesFit'
  BY TypesNext, StagesFitNext
<1>2. NothingUnused
  BY DEF OwnersInv
<1>3. CASE Fades
  BY <1>1, <1>3, FadesKeeps
<1>4. ASSUME NEW t \in Tasks, TaskStep(t) PROVE OwnersInv'
  BY <1>1, <1>3, <1>4, TaskOwners, TakesKeeps, HandsOverKeeps, PicksKeeps, LivesKeeps, TransfersKeeps
<1> QED BY <1>2, <1>3, <1>4, EventsFade

--------------------------------------------------------------------------------
(* Negotiations and candidates when no offer arrives twice.                *)

\* The parts of the invariant about sessions.
BookInv ==
  /\ KnownUsed
  /\ PreparedFirst
  /\ CheckedOnce
  /\ SocketAdvertised
  /\ CheckedSocketAdvertised

\* Negotiations are forgotten, or are no longer pending.
EntriesFade ==
  \A e \in Epochs, p \in Peers : entries'[e][p] # None =>
    /\ entries[e][p] # None
    /\ entries'[e][p].session = entries[e][p].session
    /\ entries'[e][p].adv = entries[e][p].adv
    /\ entries'[e][p].state = "pending" => entries[e][p].state = "pending"

\* Preparations are forgotten, or keep their sockets.
PreparedFade ==
  \A s \in Sessions : prepared'[s] # None =>
    prepared[s] # None /\ prepared'[s].sock = prepared[s].sock

\* The goroutine starts no preparation and no check, and advertises what it did or
\* what is prepared.
CalmOf(u) ==
  /\ (Prepares(u)' => Prepares(u)) /\ (Checks(u)' => Checks(u))
  /\ Advertises(u)' =>
       \/ Advertises(u) /\ adv'[u] = adv[u]
       \/ prepared'[Session(u)] # None => prepared'[Session(u)].sock = adv'[u]
  /\ pc'[u] = "check" => hold'[u] = adv'[u]

\* A step that starts no preparation and no check, and files and prepares nothing.
Calm == EntriesFade /\ PreparedFade /\ \A u \in Tasks : CalmOf(u)

\* What a goroutine is called by keeps its meaning.
LEMMA SessionsKept ==
  ASSUME TypeOK, StagesFit, [Next]_vars
  PROVE  /\ \A u \in Tasks : job[u] # None => job'[u] # None /\ Session(u)' = Session(u) /\ Session(u) \in Sessions
         /\ \A u \in Tasks : Prepares(u) \/ Checks(u) \/ Advertises(u) => job[u] # None
         /\ \A u \in Tasks : Prepares(u)' \/ Checks(u)' \/ Advertises(u)' => job'[u] # None
         /\ \A s : Used(s) => Used(s)'
<1>1. \A u \in Tasks : job[u] # None => job'[u] # None /\ Session(u)' = Session(u)
  BY JobsKept DEF Session
<1>2. \A u \in Tasks : job[u] # None => Session(u) \in Sessions
  BY HasJob DEF StagesFit
<1>3. \A u \in Tasks : Prepares(u) \/ Checks(u) \/ Advertises(u) => job[u] # None
  BY DEF StagesFit, Prepares, Checks, Advertises, PrepareStages, CheckStages, FailStages
<1>4. \A u \in Tasks : Prepares(u)' \/ Checks(u)' \/ Advertises(u)' => job'[u] # None
  BY StagesFitNext DEF StagesFit, Prepares, Checks, Advertises, PrepareStages, CheckStages, FailStages
<1>5. \A s : Used(s) => Used(s)'
  BY <1>1 DEF Used
<1> QED BY <1>1, <1>2, <1>3, <1>4, <1>5

\* Such a step keeps the books.
LEMMA CalmKeeps ==
  ASSUME TypeOK, StagesFit, BookInv, [Next]_vars, TypeOK', Calm
  PROVE  BookInv'
<1> USE DEF Calm, CalmOf, EntriesFade, PreparedFade
<1>1. KnownUsed'
  BY SessionsKept DEF BookInv, KnownUsed
<1>2. PreparedFirst'
  <2> SUFFICES ASSUME NEW t \in Tasks, Prepares(t)'
               PROVE  /\ \A u \in Tasks : u # t /\ job'[u] # None /\ Session(u)' = Session(t)'
                                          => ~Prepares(u)' /\ ~Checks(u)'
                      /\ \A e \in Epochs, p \in Peers : entries'[e][p] # None =>
                           entries'[e][p].session # Session(t)'
    BY DEF PreparedFirst
  <2>1. Prepares(t) /\ Session(t)' = Session(t)
    BY SessionsKept
  <2>2. ASSUME NEW u \in Tasks, u # t, Session(u)' = Session(t)', Prepares(u)' \/ Checks(u)' PROVE FALSE
    <3>1. (Prepares(u) \/ Checks(u)) /\ job[u] # None /\ Session(u)' = Session(u)
      BY <2>2, SessionsKept
    <3>2. PreparedFirst /\ Session(u) = Session(t)
      BY <2>1, <2>2, <3>1 DEF BookInv
    <3> HIDE DEF Calm, CalmOf
    <3> QED BY <2>1, <2>2, <3>1, <3>2 DEF PreparedFirst
  <2>3. ASSUME NEW e \in Epochs, NEW p \in Peers, entries'[e][p] # None
        PROVE  entries'[e][p].session # Session(t)'
    BY <2>1, <2>3 DEF BookInv, PreparedFirst
  <2> QED BY <2>2, <2>3
<1>3. CheckedOnce'
  <2>1. \A e, f \in Epochs, p, q \in Peers :
          ( /\ entries'[e][p] # None /\ entries'[f][q] # None
            /\ entries'[e][p].session = entries'[f][q].session )
          => e = f /\ p = q
    BY DEF BookInv, CheckedOnce
  <2>2. ASSUME NEW e \in Epochs, NEW p \in Peers, entries'[e][p] # None, entries'[e][p].state = "pending",
               NEW t \in Tasks, Checks(t)'
        PROVE  Session(t)' # entries'[e][p].session
    <3>1. Checks(t) /\ Session(t)' = Session(t)
      BY <2>2, SessionsKept
    <3> QED BY <2>2, <3>1 DEF BookInv, CheckedOnce
  <2>3. ASSUME NEW t \in Tasks, NEW u \in Tasks, Checks(t)', Checks(u)', Session(t)' = Session(u)' PROVE t = u
    <3>1. Checks(t) /\ Checks(u)
      BY <2>3
    <3>2. job[t] # None /\ job[u] # None
      BY <3>1, SessionsKept
    <3>3. Session(t)' = Session(t) /\ Session(u)' = Session(u)
      BY <3>2, SessionsKept
    <3>4. CheckedOnce /\ Session(t) = Session(u)
      BY <2>3, <3>3 DEF BookInv
    <3> HIDE DEF Calm, CalmOf
    <3> QED BY <3>1, <3>4 DEF CheckedOnce
  <2> QED BY <2>1, <2>2, <2>3 DEF CheckedOnce
<1>4. SocketAdvertised'
  <2>1. ASSUME NEW t \in Tasks, Advertises(t)', prepared'[Session(t)'] # None
        PROVE  prepared'[Session(t)'].sock = adv'[t]
    <3>1. CASE job[t] = None
      <4>1. ~Advertises(t)
        BY <3>1, SessionsKept
      <4>2. prepared'[Session(t)] # None => prepared'[Session(t)].sock = adv'[t]
        BY <2>1, <4>1
      <4>3. pc[t] = "idle"
        BY <3>1 DEF StagesFit
      <4>4. Checks(t)' \/ Prepares(t)'
        BY <2>1 DEF Advertises, Checks, Prepares, CheckStages, PrepareStages
      <4>5. ~Checks(t) /\ ~Prepares(t)
        BY <4>3 DEF Checks, Prepares, CheckStages, PrepareStages, FailStages
      <4> QED BY <4>4, <4>5
    <3>2. CASE job[t] # None
      <4>1. Session(t)' = Session(t) /\ Session(t) \in Sessions
        BY <3>2, SessionsKept
      <4> QED BY <2>1, <4>1 DEF BookInv, SocketAdvertised
    <3> QED BY <3>1, <3>2
  <2>2. ASSUME NEW e \in Epochs, NEW p \in Peers, entries'[e][p] # None, prepared'[entries'[e][p].session] # None
        PROVE  prepared'[entries'[e][p].session].sock = entries'[e][p].adv
    <3>1. entries'[e][p] \in Negotiations
      BY <2>2 DEF TypeOK
    <3>2. entries'[e][p].session \in Sessions
      BY <3>1 DEF Negotiations
    <3> QED BY <2>2, <3>2 DEF BookInv, SocketAdvertised
  <2> QED BY <2>1, <2>2 DEF SocketAdvertised
<1>5. CheckedSocketAdvertised'
  BY DEF CheckedSocketAdvertised
<1> QED BY <1>1, <1>2, <1>3, <1>4, <1>5 DEF BookInv

\* The goroutines other than t are where they were, with the candidates they had.
OthersAdvertise(t) ==
  /\ \A u \in Tasks : u # t => pc'[u] = pc[u] /\ adv'[u] = adv[u] /\ hold'[u] = hold[u]
  /\ \A u \in Tasks : u # t => job'[u] = job[u]

\* What that means for the others.
LEMMA OthersKept ==
  ASSUME NEW t \in Tasks, OthersAdvertise(t)
  PROVE  \A u \in Tasks : u # t =>
           /\ Prepares(u)' = Prepares(u) /\ Checks(u)' = Checks(u) /\ Advertises(u)' = Advertises(u)
           /\ job'[u] = job[u] /\ Session(u)' = Session(u)
           /\ adv'[u] = adv[u] /\ hold'[u] = hold[u] /\ pc'[u] = pc[u]
BY DEF OthersAdvertise, Prepares, Checks, Advertises, Session

\* A new session: the first preparation of s.
Starts(t, s) ==
  /\ ~Used(s)
  /\ pc'[t] = "prepare" /\ job'[t].session = s
  /\ UNCHANGED <<entries, prepared>>
  /\ OthersAdvertise(t)

\* Nobody works on a session that is not used.
LEMMA StartsKeeps ==
  ASSUME TypeOK, StagesFit, BookInv, [Next]_vars, NEW t \in Tasks, NEW s \in Sessions, Starts(t, s)
  PROVE  BookInv'
<1> USE DEF Starts
<1>1. Session(t)' = s /\ Prepares(t)' /\ ~Checks(t)' /\ ~Advertises(t)'
  BY DEF Session, Prepares, Checks, Advertises, PrepareStages, CheckStages, FailStages
<1>2. \A u \in Tasks : job[u] # None => Session(u) # s
  BY DEF Used
<1>3. \A e \in Epochs, p \in Peers : entries[e][p] # None => entries[e][p].session # s
  BY DEF BookInv, KnownUsed
<1>4. KnownUsed'
  BY SessionsKept DEF BookInv, KnownUsed
<1>5. PreparedFirst'
  <2> SUFFICES ASSUME NEW v \in Tasks, Prepares(v)'
               PROVE  /\ \A u \in Tasks : u # v /\ job'[u] # None /\ Session(u)' = Session(v)'
                                          => ~Prepares(u)' /\ ~Checks(u)'
                      /\ \A e \in Epochs, p \in Peers : entries'[e][p] # None =>
                           entries'[e][p].session # Session(v)'
    BY DEF PreparedFirst
  <2>1. CASE v = t
    BY <1>1, <1>2, <1>3, <2>1, OthersKept
  <2>2. CASE v # t
    <3>1. Prepares(v) /\ job[v] # None /\ Session(v)' = Session(v) /\ Session(v) # s
      BY <1>2, <2>2, OthersKept, SessionsKept
    <3> QED BY <1>1, <3>1, OthersKept DEF BookInv, PreparedFirst
  <2> QED BY <2>1, <2>2
<1>6. CheckedOnce'
  <2>1. \A u \in Tasks : Checks(u)' => u # t /\ Checks(u) /\ Session(u)' = Session(u)
    BY <1>1, OthersKept
  <2> QED BY <2>1 DEF BookInv, CheckedOnce
<1>7. SocketAdvertised'
  <2>1. \A u \in Tasks : Advertises(u)' => u # t /\ Advertises(u) /\ Session(u)' = Session(u) /\ adv'[u] = adv[u]
    BY <1>1, OthersKept
  <2> QED BY <2>1 DEF BookInv, SocketAdvertised
<1>8. CheckedSocketAdvertised'
  BY OthersKept DEF BookInv, CheckedSocketAdvertised
<1> QED BY <1>4, <1>5, <1>6, <1>7, <1>8 DEF BookInv

\* An answer is taken up: the pending negotiation of peer p in store e is checked by t.
Answers(t, e, p) ==
  /\ entries[e][p] # None /\ entries[e][p].state = "pending"
  /\ entries'[e][p].session = entries[e][p].session /\ entries'[e][p].adv = entries[e][p].adv
  /\ entries'[e][p].state = "checking"
  /\ \A f \in Epochs, q \in Peers : ~(f = e /\ q = p) => entries'[f][q] = entries[f][q]
  /\ pc'[t] = "establish" /\ job'[t].session = entries[e][p].session /\ adv'[t] = entries[e][p].adv
  /\ UNCHANGED prepared
  /\ OthersAdvertise(t)

\* Nobody checked it before, and nobody will again.
LEMMA AnswersKeeps ==
  ASSUME TypeOK, StagesFit, BookInv, [Next]_vars, NEW t \in Tasks,
         NEW e \in Epochs, NEW p \in Peers, Answers(t, e, p)
  PROVE  BookInv'
<1> USE DEF Answers
<1> DEFINE s == entries[e][p].session
<1>1. Session(t)' = s /\ ~Prepares(t)' /\ Checks(t)' /\ Advertises(t)'
  BY DEF Session, Prepares, Checks, Advertises, PrepareStages, CheckStages, FailStages
<1>2. \A f \in Epochs, q \in Peers : entries'[f][q] # None =>
        /\ entries[f][q] # None /\ entries'[f][q].session = entries[f][q].session
        /\ entries'[f][q].adv = entries[f][q].adv
        /\ entries'[f][q].state = "pending" => entries[f][q].state = "pending" /\ ~(f = e /\ q = p)
  OBVIOUS
<1>3. \A u \in Tasks : Checks(u) => Session(u) # s
  BY DEF BookInv, CheckedOnce
<1>4. \A u \in Tasks : Prepares(u) => Session(u) # s
  BY DEF BookInv, PreparedFirst
<1> HIDE DEF s
<1>5. KnownUsed'
  BY <1>2, SessionsKept DEF BookInv, KnownUsed
<1>6. PreparedFirst'
  <2> SUFFICES ASSUME NEW v \in Tasks, Prepares(v)'
               PROVE  /\ \A u \in Tasks : u # v /\ job'[u] # None /\ Session(u)' = Session(v)'
                                          => ~Prepares(u)' /\ ~Checks(u)'
                      /\ \A f \in Epochs, q \in Peers : entries'[f][q] # None =>
                           entries'[f][q].session # Session(v)'
    BY DEF PreparedFirst
  <2>1. v # t /\ Prepares(v) /\ Session(v)' = Session(v) /\ Session(v) # s
    BY <1>1, <1>4, OthersKept
  <2>2. ASSUME NEW u \in Tasks, u # v, job'[u] # None, Session(u)' = Session(v)'
        PROVE  ~Prepares(u)' /\ ~Checks(u)'
    BY <1>1, <2>1, <2>2, OthersKept DEF BookInv, PreparedFirst
  <2>3. ASSUME NEW f \in Epochs, NEW q \in Peers, entries'[f][q] # None PROVE entries'[f][q].session # Session(v)'
    BY <1>2, <2>1, <2>3 DEF BookInv, PreparedFirst
  <2> QED BY <2>2, <2>3
<1>7. CheckedOnce'
  <2>1. \A f, g \in Epochs, q, r \in Peers :
          ( /\ entries'[f][q] # None /\ entries'[g][r] # None
            /\ entries'[f][q].session = entries'[g][r].session )
          => f = g /\ q = r
    BY <1>2 DEF BookInv, CheckedOnce
  <2>2. ASSUME NEW f \in Epochs, NEW q \in Peers, entries'[f][q] # None, entries'[f][q].state = "pending",
               NEW u \in Tasks, Checks(u)'
        PROVE  Session(u)' # entries'[f][q].session
    <3>1. entries[f][q] # None /\ entries[f][q].state = "pending" /\ ~(f = e /\ q = p)
          /\ entries'[f][q].session = entries[f][q].session
      BY <1>2, <2>2
    <3>2. entries[f][q].session # s
      BY <3>1 DEF BookInv, CheckedOnce, s
    <3>3. u # t => Checks(u) /\ Session(u)' = Session(u)
      BY <2>2, OthersKept
    <3> QED BY <1>1, <3>1, <3>2, <3>3 DEF BookInv, CheckedOnce
  <2>3. ASSUME NEW u \in Tasks, NEW v \in Tasks, Checks(u)', Checks(v)', Session(u)' = Session(v)' PROVE u = v
    <3>1. \A w \in Tasks : w # t /\ Checks(w)' => Checks(w) /\ Session(w)' = Session(w) /\ Session(w) # s
      BY <1>3, OthersKept
    <3> QED BY <1>1, <2>3, <3>1 DEF BookInv, CheckedOnce
  <2> QED BY <2>1, <2>2, <2>3 DEF CheckedOnce
<1>8. SocketAdvertised'
  <2>1. ASSUME NEW u \in Tasks, Advertises(u)', prepared'[Session(u)'] # None
        PROVE  prepared'[Session(u)'].sock = adv'[u]
    <3>1. CASE u = t
      BY <1>1, <2>1, <3>1 DEF BookInv, SocketAdvertised, s
    <3>2. CASE u # t
      BY <2>1, <3>2, OthersKept DEF BookInv, SocketAdvertised
    <3> QED BY <3>1, <3>2
  <2>2. ASSUME NEW f \in Epochs, NEW q \in Peers, entries'[f][q] # None, prepared'[entries'[f][q].session] # None
        PROVE  prepared'[entries'[f][q].session].sock = entries'[f][q].adv
    BY <1>2, <2>2 DEF BookInv, SocketAdvertised
  <2> QED BY <2>1, <2>2 DEF SocketAdvertised
<1>9. CheckedSocketAdvertised'
  BY OthersKept DEF BookInv, CheckedSocketAdvertised
<1> QED BY <1>5, <1>6, <1>7, <1>8, <1>9 DEF BookInv

\* The preparing goroutine files the negotiation of its session.
Files(t, e, p) ==
  /\ pc[t] = "start" /\ pc'[t] \in {"done", "begin"}
  /\ entries'[e][p] = [session |-> Session(t), state |-> "pending", adv |-> adv[t]]
  /\ \A f \in Epochs, q \in Peers : ~(f = e /\ q = p) => entries'[f][q] = entries[f][q]
  /\ UNCHANGED <<prepared, job>>
  /\ OthersAdvertise(t)

\* It is the session's first and only negotiation.
LEMMA FilesKeeps ==
  ASSUME TypeOK, StagesFit, BookInv, [Next]_vars, NEW t \in Tasks,
         NEW e \in Epochs, NEW p \in Peers, Files(t, e, p)
  PROVE  BookInv'
<1> USE DEF Files
<1> DEFINE s == Session(t)
<1>1. /\ Prepares(t) /\ ~Prepares(t)' /\ ~Checks(t)' /\ ~Checks(t) /\ Advertises(t) /\ ~Advertises(t)'
      /\ job[t] # None /\ pc'[t] # "check"
  BY DEF Prepares, Checks, Advertises, PrepareStages, CheckStages, FailStages, StagesFit
<1>2. entries'[e][p].session = s /\ entries'[e][p].adv = adv[t]
  OBVIOUS
<1>3. \A u \in Tasks : u # t /\ job[u] # None /\ Session(u) = s => ~Prepares(u) /\ ~Checks(u)
  BY <1>1 DEF BookInv, PreparedFirst
<1>4. \A f \in Epochs, q \in Peers : entries[f][q] # None => entries[f][q].session # s
  BY <1>1 DEF BookInv, PreparedFirst
<1> HIDE DEF s
<1>5. KnownUsed'
  <2>2. \A f \in Epochs, q \in Peers : entries'[f][q] # None =>
          \E u \in Tasks : job[u] # None /\ Session(u) = entries'[f][q].session
    BY <1>1, <1>2 DEF BookInv, KnownUsed, Used, s
  <2>3. \A f \in Epochs, q \in Peers : entries'[f][q] # None =>
          \E u \in Tasks : job'[u] # None /\ Session(u)' = entries'[f][q].session
    BY <2>2, SessionsKept
  <2>4. \A r \in Sessions : prepared'[r] # None => Used(r)'
    BY SessionsKept DEF BookInv, KnownUsed
  <2> QED BY <2>3, <2>4 DEF KnownUsed, Used
<1>6. PreparedFirst'
  <2> SUFFICES ASSUME NEW v \in Tasks, Prepares(v)'
               PROVE  /\ \A u \in Tasks : u # v /\ job'[u] # None /\ Session(u)' = Session(v)'
                                          => ~Prepares(u)' /\ ~Checks(u)'
                      /\ \A f \in Epochs, q \in Peers : entries'[f][q] # None =>
                           entries'[f][q].session # Session(v)'
    BY DEF PreparedFirst
  <2>1. v # t /\ Prepares(v) /\ Session(v)' = Session(v) /\ Session(v) # s
    BY <1>1, <1>3, OthersKept, SessionsKept
  <2>2. ASSUME NEW u \in Tasks, u # v, job'[u] # None, Session(u)' = Session(v)'
        PROVE  ~Prepares(u)' /\ ~Checks(u)'
    BY <1>1, <2>1, <2>2, OthersKept DEF BookInv, PreparedFirst
  <2>3. ASSUME NEW f \in Epochs, NEW q \in Peers, entries'[f][q] # None PROVE entries'[f][q].session # Session(v)'
    BY <1>2, <2>1, <2>3 DEF BookInv, PreparedFirst
  <2> QED BY <2>2, <2>3
<1>7. CheckedOnce'
  <2>1. \A f, g \in Epochs, q, r \in Peers :
          ( /\ entries'[f][q] # None /\ entries'[g][r] # None
            /\ entries'[f][q].session = entries'[g][r].session )
          => f = g /\ q = r
    BY <1>2, <1>4 DEF BookInv, CheckedOnce
  <2>2. \A u \in Tasks : Checks(u)' => u # t /\ Checks(u) /\ Session(u)' = Session(u) /\ Session(u) # s
    BY <1>1, <1>3, OthersKept, SessionsKept
  <2>3. ASSUME NEW f \in Epochs, NEW q \in Peers, entries'[f][q] # None, entries'[f][q].state = "pending",
               NEW u \in Tasks, Checks(u)'
        PROVE  Session(u)' # entries'[f][q].session
    BY <1>2, <2>2, <2>3 DEF BookInv, CheckedOnce
  <2>4. \A u, v \in Tasks : Checks(u)' /\ Checks(v)' /\ Session(u)' = Session(v)' => u = v
    BY <2>2 DEF BookInv, CheckedOnce
  <2> QED BY <2>1, <2>3, <2>4 DEF CheckedOnce
<1>8. SocketAdvertised'
  <2>1. ASSUME NEW u \in Tasks, Advertises(u)', prepared'[Session(u)'] # None
        PROVE  prepared'[Session(u)'].sock = adv'[u]
    BY <1>1, <2>1, OthersKept DEF BookInv, SocketAdvertised
  <2>2. prepared[s] # None => prepared[s].sock = adv[t]
    BY <1>1 DEF BookInv, SocketAdvertised, s
  <2>3. ASSUME NEW f \in Epochs, NEW q \in Peers, entries'[f][q] # None, prepared'[entries'[f][q].session] # None
        PROVE  prepared'[entries'[f][q].session].sock = entries'[f][q].adv
    BY <1>2, <2>2, <2>3 DEF BookInv, SocketAdvertised
  <2> QED BY <2>1, <2>3 DEF SocketAdvertised
<1>9. CheckedSocketAdvertised'
  BY <1>1, OthersKept DEF BookInv, CheckedSocketAdvertised
<1> QED BY <1>5, <1>6, <1>7, <1>8, <1>9 DEF BookInv

\* The preparing goroutine hands the socket it advertises over to the manager.
Inserts(t, s) ==
  /\ s = Session(t) /\ pc[t] = "insert" /\ pc'[t] = "inserted"
  /\ prepared'[s].sock = adv'[t]
  /\ \A r \in Sessions : r # s => prepared'[r] = prepared[r]
  /\ UNCHANGED <<entries, job>>
  /\ OthersAdvertise(t)

\* Nobody else has advertised a socket for the session.
LEMMA InsertsKeeps ==
  ASSUME TypeOK, StagesFit, BookInv, [Next]_vars, TypeOK', NEW t \in Tasks,
         NEW s \in Sessions, Inserts(t, s)
  PROVE  BookInv'
<1> USE DEF Inserts
<1>1. /\ Prepares(t) /\ Prepares(t)' /\ ~Checks(t)' /\ Advertises(t)' /\ job[t] # None
      /\ Session(t)' = s
  BY DEF Prepares, Checks, Advertises, PrepareStages, CheckStages, FailStages, StagesFit, Session
<1>2. \A u \in Tasks : u # t /\ job[u] # None /\ Session(u) = s => ~Prepares(u) /\ ~Checks(u)
  BY <1>1 DEF BookInv, PreparedFirst
<1>3. \A f \in Epochs, q \in Peers : entries[f][q] # None => entries[f][q].session # s
  BY <1>1 DEF BookInv, PreparedFirst
<1>4. \A u \in Tasks : (Prepares(u)' <=> Prepares(u)) /\ (Checks(u)' => Checks(u)) /\ Session(u)' = Session(u)
  <2> TAKE u \in Tasks
  <2>1. CASE u = t
    BY <1>1, <2>1
  <2>2. CASE u # t
    BY <2>2, OthersKept
  <2> QED BY <2>1, <2>2
<1>5. KnownUsed'
  <2>1. Used(s)'
    BY <1>1, SessionsKept DEF Used
  <2> QED BY <2>1, SessionsKept DEF BookInv, KnownUsed
<1>6. PreparedFirst'
  BY <1>4 DEF BookInv, PreparedFirst
<1>7. CheckedOnce'
  BY <1>4 DEF BookInv, CheckedOnce
<1>8. SocketAdvertised'
  <2>1. ASSUME NEW u \in Tasks, u # t, Advertises(u)'
        PROVE  Advertises(u) /\ Session(u) # s /\ Session(u) \in Sessions /\ adv'[u] = adv[u] /\ Session(u)' = Session(u)
    <3>1. Advertises(u) /\ job[u] # None /\ Session(u) \in Sessions
      BY <2>1, OthersKept, SessionsKept
    <3>2. Prepares(u) \/ Checks(u)
      BY <3>1 DEF Advertises, Prepares, Checks, PrepareStages, CheckStages
    <3> QED BY <1>2, <2>1, <3>1, <3>2, OthersKept
  <2>2. ASSUME NEW u \in Tasks, Advertises(u)', prepared'[Session(u)'] # None
        PROVE  prepared'[Session(u)'].sock = adv'[u]
    BY <1>1, <2>1, <2>2 DEF BookInv, SocketAdvertised
  <2>3. ASSUME NEW f \in Epochs, NEW q \in Peers, entries'[f][q] # None, prepared'[entries'[f][q].session] # None
        PROVE  prepared'[entries'[f][q].session].sock = entries'[f][q].adv
    <3>1. entries[f][q] \in Negotiations
      BY <2>3 DEF TypeOK
    <3>2. entries[f][q].session \in Sessions /\ entries[f][q].session # s
      BY <1>3, <2>3, <3>1 DEF Negotiations
    <3> QED BY <2>3, <3>2 DEF BookInv, SocketAdvertised
  <2> QED BY <2>2, <2>3 DEF SocketAdvertised
<1>9. CheckedSocketAdvertised'
  BY OthersKept DEF BookInv, CheckedSocketAdvertised
<1> QED BY <1>5, <1>6, <1>7, <1>8, <1>9 DEF BookInv

\* What closing preparations and deleting negotiations mean for the books.
LEMMA FadingBooks ==
  ASSUME TypeOK, StagesFit, BookInv
  PROVE  /\ UNCHANGED entries => EntriesFade
         /\ \A t \in Tasks : pc[t] # "idle" /\ DeleteEntry(t) => EntriesFade
         /\ UNCHANGED prepared => PreparedFade
         /\ \A s : CancelPrepared(s) => PreparedFade
<1>1. UNCHANGED entries => EntriesFade
  BY DEF EntriesFade
<1>2. ASSUME NEW t \in Tasks, pc[t] # "idle", DeleteEntry(t) PROVE EntriesFade
  <2>1. CASE UNCHANGED entries
    BY <1>1, <2>1
  <2>2. CASE SetEntry(t, None)
    BY <2>2 DEF SetEntry, EntriesFade, TypeOK
  <2> QED BY <1>2, <2>1, <2>2 DEF DeleteEntry
<1>3. UNCHANGED prepared => PreparedFade
  BY DEF PreparedFade
<1>4. ASSUME NEW s, CancelPrepared(s) PROVE PreparedFade
  BY <1>4 DEF CancelPrepared, PreparedFade, TypeOK
<1> QED BY <1>1, <1>2, <1>3, <1>4

\* A step in which one goroutine moves calmly.
LEMMA OneCalm ==
  ASSUME TypeOK, StagesFit, BookInv, NEW t \in Tasks, EntriesFade, PreparedFade,
         CalmOf(t), OthersAdvertise(t)
  PROVE  Calm
<1>1. \A u \in Tasks : u # t => CalmOf(u)
  <2> TAKE u \in Tasks
  <2> HAVE u # t
  <2>1. /\ (Prepares(u)' <=> Prepares(u)) /\ (Checks(u)' <=> Checks(u)) /\ (Advertises(u)' <=> Advertises(u))
        /\ adv'[u] = adv[u] /\ hold'[u] = hold[u] /\ pc'[u] = pc[u]
    BY OthersKept
  <2> QED BY <2>1 DEF CalmOf, BookInv, CheckedSocketAdvertised
<1> QED BY <1>1 DEF Calm

\* A step that moves no goroutine.
LEMMA NoneCalm ==
  ASSUME TypeOK, StagesFit, BookInv, EntriesFade, PreparedFade, UNCHANGED <<pc, adv, hold>>
  PROVE  Calm
BY DEF Calm, CalmOf, Prepares, Checks, Advertises, BookInv, CheckedSocketAdvertised

\* Signals and the steps that belong to no goroutine.
LEMMA EventsCalm ==
  ASSUME TypeOK, StagesFit, BookInv, [Next]_vars, TypeOK', ~Replays
  PROVE  \/ Calm
         \/ \E t \in Tasks : TaskStep(t)
         \/ \E t \in Tasks, s \in Sessions : Starts(t, s)
         \/ \E t \in Tasks, e \in Epochs, p \in Peers : Answers(t, e, p)
<1>1. ASSUME NEW p \in Peers, LearnPeer(p) PROVE Calm
  BY <1>1, FadingBooks, NoneCalm DEF LearnPeer, managerVars, taskVars
<1>2. ASSUME NEW p \in Peers, EntryExpires(p) PROVE Calm
  <2>1. EntriesFade
    BY <1>2, Configured DEF EntryExpires, EntriesFade, TypeOK
  <2> QED BY <1>2, <2>1, FadingBooks, NoneCalm DEF EntryExpires, managerVars, taskVars
<1>3. ASSUME NEW t \in Tasks, NEW p \in Peers, NEW s \in Sessions, Signal(t, p, s)
      PROVE  \/ Calm
             \/ \E u \in Tasks, r \in Sessions : Starts(u, r)
             \/ \E u \in Tasks, e \in Epochs, q \in Peers : Answers(u, e, q)
  <2>1. ASSUME NEW stage \in Stages, Begin(t, p, s, stage)
        PROVE  /\ pc[t] = "idle" /\ pc'[t] = stage /\ job'[t].session = s
               /\ \A u \in Tasks : u # t => pc'[u] = pc[u] /\ job'[u] = job[u]
    <3>1. /\ pc[t] = "idle" /\ pc'[t] = stage
          /\ job'[t] = [peer |-> p, session |-> s, epoch |-> epoch, store |-> epoch]
          /\ \A u \in Tasks : u # t => pc'[u] = pc[u] /\ job'[u] = job[u]
      BY <2>1, BeginMoves
    <3>2. job'[t].session = s
      BY <3>1
    <3> QED BY <3>1, <3>2
  <2>2. {"prepare", "establish", "fallback"} \subseteq Stages
    BY DEF Stages, PrepareStages, CheckStages, FallbackStages
  <2>3. CASE OfferICE(t, p, s) \/ ReceiveOffer(t, p, s)
    <3>1. ~Used(s)
      <4>1. \A q \in Peers : ~UsedBy(q, s)
        BY <2>3 DEF OfferICE, ReceiveOffer, Unused
      <4>2. \A u \in Tasks : job[u] # None => Peer(u) \in Peers
        BY HasJob DEF StagesFit
      <4> QED BY <4>1, <4>2 DEF UsedBy, Used
    <3>2. Begin(t, p, s, "prepare") /\ UNCHANGED <<entries, prepared, hold, adv>>
      BY <2>3 DEF OfferICE, ReceiveOffer, managerVars
    <3>3. Starts(t, s)
      BY <2>1, <2>2, <3>1, <3>2 DEF Starts, OthersAdvertise
    <3> QED BY <3>3
  <2>4. CASE ReceiveAnswer(t, p, s)
    <3>1. PICK e \in Epochs : e = epoch
      BY Configured
    <3>2. /\ entries[e][p] # None /\ entries[e][p].session = s /\ entries[e][p].state = "pending"
          /\ entries' = [entries EXCEPT ![e][p].state = "checking"]
          /\ Begin(t, p, s, "establish") /\ adv' = Advertise(t, entries[e][p].adv)
          /\ UNCHANGED <<prepared, hold>>
      BY <2>4, <3>1 DEF ReceiveAnswer, managerVars
    <3>3. entries[e][p] \in Negotiations
      BY <3>2 DEF TypeOK
    <3>4. /\ entries'[e][p] = [entries[e][p] EXCEPT !.state = "checking"]
          /\ \A f \in Epochs, q \in Peers : ~(f = e /\ q = p) => entries'[f][q] = entries[f][q]
      BY <3>2 DEF TypeOK
    <3>5. /\ entries'[e][p].session = s /\ entries'[e][p].adv = entries[e][p].adv
          /\ entries'[e][p].state = "checking"
      BY <3>2, <3>3, <3>4 DEF Negotiations
    <3>6. adv'[t] = entries[e][p].adv /\ \A u \in Tasks : u # t => adv'[u] = adv[u]
      BY <3>2 DEF Advertise, TypeOK
    <3>7. Answers(t, e, p)
      BY <2>1, <2>2, <3>2, <3>4, <3>5, <3>6 DEF Answers, OthersAdvertise
    <3> QED BY <3>7
  <2>5. CASE ReceiveFallback(t, p, s)
    <3>1. Begin(t, p, s, "fallback") /\ UNCHANGED <<entries, prepared, hold, adv>>
      BY <2>5 DEF ReceiveFallback, managerVars
    <3>2. OthersAdvertise(t) /\ pc'[t] = "fallback"
      BY <2>1, <2>2, <3>1 DEF OthersAdvertise
    <3>3. CalmOf(t)
      BY <3>2 DEF CalmOf, Prepares, Checks, Advertises, PrepareStages, CheckStages, FailStages
    <3> QED BY <3>1, <3>2, <3>3, FadingBooks, OneCalm
  <2> QED BY <1>3, <2>3, <2>4, <2>5 DEF Signal
<1>4. ASSUME NEW t \in Tasks, SessionEnds(t) \/ ForgetConnection(t) PROVE Calm
  BY <1>4, FadingBooks, NoneCalm DEF SessionEnds, ForgetConnection, managerVars, taskVars
<1>5. ASSUME NEW s \in Sessions, PreparedExpires(s) \/ ContextCancel(s) PROVE Calm
  BY <1>5, FadingBooks, NoneCalm DEF PreparedExpires, ContextCancel, taskVars
<1>6. ASSUME NEW y \in Relays, RelayExpires(y) PROVE Calm
  BY <1>6, FadingBooks, NoneCalm DEF RelayExpires, managerVars, taskVars
<1>7. CASE Disconnect \/ SwapState \/ Reconnect \/ UNCHANGED vars
  BY <1>7, FadingBooks, NoneCalm DEF Disconnect, SwapState, Reconnect, vars, managerVars, taskVars
<1>8. CASE ManagerClose
  <2>1. PreparedFade
    BY <1>8 DEF ManagerClose, PreparedFade
  <2> QED BY <1>8, <2>1, FadingBooks, NoneCalm DEF ManagerClose, taskVars
<1> QED BY <1>1, <1>2, <1>3, <1>4, <1>5, <1>6, <1>7, <1>8 DEF Next, CloseStep

\* A goroutine's step.
LEMMA TaskBooks ==
  ASSUME TypeOK, StagesFit, BookInv, [Next]_vars, NEW t \in Tasks, TaskStep(t)
  PROVE  \/ Calm
         \/ \E e \in Epochs, p \in Peers : Answers(t, e, p)
         \/ \E e \in Epochs, p \in Peers : Files(t, e, p)
         \/ \E s \in Sessions : Inserts(t, s)
<1> DEFINE s == Session(t)
           Goal == \/ Calm
                   \/ \E e \in Epochs, p \in Peers : Answers(t, e, p)
                   \/ \E e \in Epochs, p \in Peers : Files(t, e, p)
                   \/ \E r \in Sessions : Inserts(t, r)
           Alone == \A u \in Tasks : u # t => pc'[u] = pc[u]
           Late == (CheckStages \ {"establish", "claim", "check"}) \cup FailStages
                     \cup {"monitor", "monitorDelete"}
<1>1. ASSUME NEW stage, Goto(t, stage) PROVE pc'[t] = stage /\ Alone
  BY <1>1, GotoMoves
<1>2. PrepareError(t) => pc'[t] \in {"prepare", "done"} /\ Alone
  BY <1>1 DEF PrepareError
<1>3. Prepared(t) => pc'[t] \in {"relay", "start"} /\ Alone
  BY <1>1 DEF Prepared
<1>4. pc[t] # "idle" => s \in Sessions /\ job[t] \in Jobs /\ Peer(t) \in Peers
  BY HasJob
<1>5. \A x : \A u \in Tasks : [hold EXCEPT ![t] = x][u] = IF u = t THEN x ELSE hold[u]
  BY DEF TypeOK
<1> DEFINE Hands == \A u \in Tasks : u # t => hold'[u] = hold[u]
<1>5a. ASSUME NEW x, hold' = [hold EXCEPT ![t] = x] \/ UNCHANGED hold PROVE Hands
  <2>1. CASE hold' = [hold EXCEPT ![t] = x]
    BY <1>5, <2>1
  <2> QED BY <1>5a, <2>1
<1>6. \A x : \A u \in Tasks : Advertise(t, x)[u] = IF u = t THEN x ELSE adv[u]
  BY DEF TypeOK, Advertise
<1>7. /\ UNCHANGED entries => EntriesFade
      /\ pc[t] # "idle" /\ DeleteEntry(t) => EntriesFade
      /\ UNCHANGED prepared => PreparedFade
      /\ CancelPrepared(s) => PreparedFade
  BY FadingBooks
<1>8. ASSUME EntriesFade, PreparedFade, CalmOf(t), UNCHANGED job, Alone,
             \A u \in Tasks : u # t => adv'[u] = adv[u] /\ hold'[u] = hold[u]
      PROVE  Calm
  <2>1. OthersAdvertise(t)
    BY <1>8 DEF OthersAdvertise
  <2> QED BY <1>8, <2>1, OneCalm
<1> USE DEF CalmOf
<1>9. ASSUME Prepares(t), pc'[t] \in {"prepare", "bind", "insert", "done", "begin"} PROVE CalmOf(t)
  BY <1>9 DEF Prepares, Checks, Advertises, PrepareStages, CheckStages, FailStages
<1>10. ASSUME Prepares(t), pc'[t] \in {"relay", "start", "allocate", "attach"},
              (Advertises(t) /\ adv'[t] = adv[t]) \/ (prepared'[s] # None => prepared'[s].sock = adv'[t])
       PROVE  CalmOf(t)
  BY <1>10 DEF Prepares, Checks, Advertises, PrepareStages, CheckStages, FailStages
<1>11. ASSUME Checks(t) \/ pc'[t] \notin Late, pc'[t] \in Late \cup {"done", "idle", "fallbackFail", "fallbackCancel"}
       PROVE  CalmOf(t)
  BY <1>11 DEF Prepares, Checks, Advertises, PrepareStages, CheckStages, FailStages
<1>12. PrepareBegin(t) => Calm
  <2> SUFFICES ASSUME PrepareBegin(t) PROVE Calm
    OBVIOUS
  <2>1. /\ pc[t] = "prepare" /\ UNCHANGED <<entries, prepared, job, hold>>
        /\ Alone /\ \A u \in Tasks : u # t => adv'[u] = adv[u]
        /\ \/ pc'[t] \in {"prepare", "done", "bind"}
           \/ pc'[t] \in {"relay", "start"} /\ adv'[t] = prepared[s].sock
    BY <1>1, <1>2, <1>3, <1>6 DEF PrepareBegin
  <2>2. Prepares(t)
    BY <2>1 DEF Prepares, PrepareStages
  <2>3. CalmOf(t)
    BY <1>9, <1>10, <2>1, <2>2
  <2> QED BY <1>7, <1>8, <2>1, <2>3
<1>13. ASSUME NEW ok \in BOOLEAN, NEW x \in Socks, PrepareBind(t, ok, x) PROVE Calm
  <2>1. /\ pc[t] = "bind" /\ UNCHANGED <<entries, prepared, job, adv>>
        /\ Alone /\ \A u \in Tasks : u # t => hold'[u] = hold[u]
        /\ pc'[t] \in {"prepare", "done", "insert"}
    <3>1. /\ pc[t] = "bind" /\ UNCHANGED <<entries, prepared, job, adv>>
          /\ \/ hold' = [hold EXCEPT ![t] = x] /\ Goto(t, "insert")
             \/ UNCHANGED hold /\ PrepareError(t)
      BY <1>13 DEF PrepareBind
    <3>2. Hands
      BY <1>5a, <3>1
    <3>3. Alone /\ pc'[t] \in {"prepare", "done", "insert"}
      BY <1>1, <1>2, <3>1
    <3> QED BY <3>1, <3>2, <3>3
  <2>2. CalmOf(t)
    BY <1>9, <2>1 DEF Prepares, PrepareStages
  <2> QED BY <1>7, <1>8, <2>1, <2>2
<1>14. PrepareInsert(t) => Goal
  <2> SUFFICES ASSUME PrepareInsert(t) PROVE Goal
    OBVIOUS
  <2>1. /\ pc[t] = "insert" /\ UNCHANGED <<entries, job>> /\ hold' = [hold EXCEPT ![t] = None]
        /\ Alone /\ \A u \in Tasks : u # t => adv'[u] = adv[u]
        /\ \/ UNCHANGED prepared /\ pc'[t] \in {"prepare", "done"}
           \/ UNCHANGED prepared /\ pc'[t] \in {"relay", "start"} /\ adv'[t] = prepared[s].sock
           \/ /\ pc'[t] = "inserted" /\ adv'[t] = hold[t]
              /\ prepared' = [prepared EXCEPT ![s] =
                   [sock |-> hold[t], relay |-> None, claimed |-> FALSE, epoch |-> job[t].epoch]]
    BY <1>1, <1>2, <1>3, <1>6 DEF PrepareInsert
  <2>2. Prepares(t) /\ \A u \in Tasks : u # t => hold'[u] = hold[u]
    BY <1>5, <2>1 DEF Prepares, PrepareStages
  <2>3. CASE UNCHANGED prepared /\ pc'[t] # "inserted"
    <3>1. CalmOf(t)
      BY <1>9, <1>10, <2>1, <2>2, <2>3
    <3> QED BY <1>7, <1>8, <2>1, <2>2, <2>3, <3>1
  <2>4. CASE pc'[t] = "inserted"
    <3>1. PICK r \in Sessions : r = s
      BY <1>4, <2>1
    <3>2. prepared'[r].sock = adv'[t] /\ \A q \in Sessions : q # r => prepared'[q] = prepared[q]
      BY <2>1, <2>4, <3>1 DEF TypeOK
    <3>3. Inserts(t, r)
      BY <2>1, <2>2, <2>4, <3>1, <3>2 DEF Inserts, OthersAdvertise
    <3> QED BY <3>3
  <2> QED BY <2>1, <2>3, <2>4
<1>15. PrepareReturn(t) \/ RelayLookup(t) => Calm
  <2> SUFFICES ASSUME PrepareReturn(t) \/ RelayLookup(t) PROVE Calm
    OBVIOUS
  <2>1. /\ pc[t] \in {"inserted", "relay"} /\ UNCHANGED <<entries, job, hold, adv>> /\ Alone
        /\ UNCHANGED prepared \/ CancelPrepared(s)
        /\ pc'[t] \in {"relay", "start", "allocate", "done"}
    BY <1>1, <1>3 DEF PrepareReturn, RelayLookup, managerVars
  <2>2. Prepares(t) /\ Advertises(t)
    BY <2>1 DEF Prepares, PrepareStages, Advertises
  <2>3. CalmOf(t)
    BY <1>9, <1>10, <2>1, <2>2
  <2> QED BY <1>7, <1>8, <2>1, <2>3
<1>16. ASSUME NEW ok \in BOOLEAN, NEW y \in Relays, RelayAllocate(t, ok, y) PROVE Calm
  <2>1. /\ pc[t] = "allocate" /\ UNCHANGED <<entries, job, adv>> /\ Alone
        /\ UNCHANGED prepared \/ CancelPrepared(s)
        /\ \A u \in Tasks : u # t => hold'[u] = hold[u]
        /\ pc'[t] \in {"attach", "prepare", "done"}
    <3>1. /\ pc[t] = "allocate" /\ UNCHANGED <<entries, job, adv>>
          /\ \/ hold' = [hold EXCEPT ![t] = y] /\ Goto(t, "attach") /\ UNCHANGED prepared
             \/ UNCHANGED hold /\ PrepareError(t) /\ CancelPrepared(s)
      BY <1>16 DEF RelayAllocate
    <3>2. Hands
      BY <1>5a, <3>1
    <3>3. Alone /\ pc'[t] \in {"attach", "prepare", "done"}
      BY <1>1, <1>2, <3>1
    <3> QED BY <3>1, <3>2, <3>3
  <2>2. Prepares(t) /\ Advertises(t)
    BY <2>1 DEF Prepares, PrepareStages, Advertises
  <2>3. CalmOf(t)
    BY <1>9, <1>10, <2>1, <2>2
  <2> QED BY <1>7, <1>8, <2>1, <2>3
<1>17. RelayAttach(t) => Calm
  <2> SUFFICES ASSUME RelayAttach(t) PROVE Calm
    OBVIOUS
  <2>1. /\ pc[t] = "attach" /\ UNCHANGED <<entries, job, adv>> /\ Alone
        /\ hold' = [hold EXCEPT ![t] = None]
        /\ UNCHANGED prepared \/ (prepared[s] # None /\ prepared' = [prepared EXCEPT ![s].relay = hold[t]])
        /\ pc'[t] \in {"start", "prepare", "done"}
    BY <1>1, <1>2 DEF RelayAttach
  <2>2. Prepares(t) /\ Advertises(t) /\ \A u \in Tasks : u # t => hold'[u] = hold[u]
    BY <1>5, <2>1 DEF Prepares, PrepareStages, Advertises
  <2>3. PreparedFade
    <3>1. CASE UNCHANGED prepared
      BY <1>7, <3>1
    <3>2. CASE prepared[s] # None /\ prepared' = [prepared EXCEPT ![s].relay = hold[t]]
      <4>1. prepared[s] \in Preparations /\ s \in Sessions
        BY <1>4, <2>1, <3>2 DEF TypeOK
      <4>2. prepared'[s] = [prepared[s] EXCEPT !.relay = hold[t]] /\ \A r \in Sessions : r # s => prepared'[r] = prepared[r]
        BY <3>2, <4>1 DEF TypeOK
      <4>3. prepared'[s].sock = prepared[s].sock
        BY <4>1, <4>2 DEF Preparations
      <4> QED BY <3>2, <4>2, <4>3 DEF PreparedFade
    <3> QED BY <2>1, <3>1, <3>2
  <2>4. CalmOf(t)
    BY <1>9, <1>10, <2>1, <2>2
  <2> QED BY <1>7, <1>8, <2>1, <2>2, <2>3, <2>4
<1>18. NegotiationStart(t) => Goal
  <2> SUFFICES ASSUME NegotiationStart(t) PROVE Goal
    OBVIOUS
  <2> DEFINE mine == [session |-> Session(t), state |-> "pending", adv |-> adv[t]]
  <2>1. /\ pc[t] = "start" /\ UNCHANGED <<job, hold, adv>> /\ Alone
        /\ pc'[t] \in {"done", "begin"}
        /\ \/ SetEntry(t, IF Negotiating(t) THEN Entry(t) ELSE mine) /\ UNCHANGED prepared
           \/ UNCHANGED entries /\ CancelPrepared(s)
    BY <1>1 DEF NegotiationStart
  <2>2. CalmOf(t)
    BY <1>9, <2>1 DEF Prepares, PrepareStages
  <2>3. CASE UNCHANGED entries /\ CancelPrepared(s)
    BY <1>7, <1>8, <2>1, <2>2, <2>3
  <2>4. CASE SetEntry(t, IF Negotiating(t) THEN Entry(t) ELSE mine) /\ UNCHANGED prepared
    <3>1. PICK e \in Epochs, p \in Peers : e = job[t].store /\ p = job[t].peer
      BY <1>4, <2>1 DEF Jobs
    <3>2. ~Negotiating(t)
      BY <2>1, <3>1 DEF Negotiating, Entry, BookInv, PreparedFirst, Prepares, PrepareStages
    <3>3. entries' = [entries EXCEPT ![e][p] = mine]
      BY <2>4, <3>1, <3>2 DEF SetEntry
    <3>4. entries'[e][p] = mine /\ \A f \in Epochs, q \in Peers : ~(f = e /\ q = p) => entries'[f][q] = entries[f][q]
      BY <3>3 DEF TypeOK
    <3>5. Files(t, e, p)
      BY <2>1, <2>4, <3>4 DEF Files, OthersAdvertise
    <3> QED BY <3>5
  <2> QED BY <2>1, <2>3, <2>4
<1>19. BeginCheck(t) => Goal
  <2> SUFFICES ASSUME BeginCheck(t) PROVE Goal
    OBVIOUS
  <2>1. pc[t] = "begin" /\ UNCHANGED <<job, hold, prepared>> /\ Alone
    BY <1>1 DEF BeginCheck, managerVars
  <2>2. CASE Negotiating(t) /\ Entry(t).state = "pending"
    <3>1. PICK e \in Epochs, p \in Peers : e = job[t].store /\ p = job[t].peer
      BY <1>4, <2>1 DEF Jobs
    <3>2. /\ entries[e][p] # None /\ entries[e][p].session = s /\ entries[e][p].state = "pending"
          /\ entries' = [entries EXCEPT ![e][p] = [entries[e][p] EXCEPT !.state = "checking"]]
          /\ pc'[t] = "establish" /\ adv' = Advertise(t, entries[e][p].adv)
      BY <1>1, <2>2, <3>1 DEF BeginCheck, Negotiating, Entry, SetEntry
    <3>3. entries[e][p] \in Negotiations
      BY <3>2 DEF TypeOK
    <3>4. /\ entries'[e][p] = [entries[e][p] EXCEPT !.state = "checking"]
          /\ \A f \in Epochs, q \in Peers : ~(f = e /\ q = p) => entries'[f][q] = entries[f][q]
      BY <3>2 DEF TypeOK
    <3>5. /\ entries'[e][p].session = entries[e][p].session /\ entries'[e][p].adv = entries[e][p].adv
          /\ entries'[e][p].state = "checking"
      BY <3>2, <3>3, <3>4 DEF Negotiations
    <3>6. adv'[t] = entries[e][p].adv /\ \A u \in Tasks : u # t => adv'[u] = adv[u]
      BY <1>6, <3>2
    <3>7. job'[t].session = entries[e][p].session
      BY <2>1, <3>2 DEF Session
    <3>8. Answers(t, e, p)
      BY <2>1, <3>2, <3>4, <3>5, <3>6, <3>7 DEF Answers, OthersAdvertise
    <3> QED BY <3>8
  <2>3. CASE ~(Negotiating(t) /\ Entry(t).state = "pending")
    <3>1. pc'[t] = "done" /\ UNCHANGED <<entries, adv>>
      BY <1>1, <2>3 DEF BeginCheck
    <3>2. CalmOf(t)
      BY <1>11, <3>1 DEF CheckStages, FailStages
    <3> QED BY <1>7, <1>8, <2>1, <3>1, <3>2
  <2> QED BY <2>2, <2>3
<1>20. Establish(t) => Calm
  <2> SUFFICES ASSUME Establish(t) PROVE Calm
    OBVIOUS
  <2>1. /\ pc[t] = "establish" /\ pc'[t] = "claim" /\ UNCHANGED <<entries, prepared, hold, adv>> /\ Alone
        /\ \A u \in Tasks : u # t => job'[u] = job[u]
    BY <1>1 DEF Establish, managerVars, TypeOK
  <2>2. CalmOf(t)
    BY <2>1 DEF Prepares, Checks, Advertises, PrepareStages, CheckStages
  <2>3. OthersAdvertise(t)
    BY <2>1 DEF OthersAdvertise
  <2> QED BY <1>7, <2>1, <2>2, <2>3, OneCalm
<1>21. Claim(t) => Calm
  <2> SUFFICES ASSUME Claim(t) PROVE Calm
    OBVIOUS
  <2>1. /\ pc[t] = "claim" /\ UNCHANGED <<entries, job, adv>> /\ Alone /\ s \in Sessions
        /\ \/ /\ prepared[s] # None /\ prepared' = [prepared EXCEPT ![s].claimed = TRUE]
              /\ hold' = [hold EXCEPT ![t] = prepared[s].sock] /\ pc'[t] = "check"
           \/ UNCHANGED <<prepared, hold>> /\ pc'[t] = "failEntry"
    BY <1>1, <1>4 DEF Claim
  <2>2. Checks(t) /\ Advertises(t)
    BY <2>1 DEF Checks, Advertises, CheckStages
  <2>3. CASE pc'[t] = "failEntry" /\ UNCHANGED <<prepared, hold>>
    <3>1. CalmOf(t)
      BY <1>11, <2>2, <2>3 DEF FailStages
    <3> QED BY <1>7, <1>8, <2>1, <2>3, <3>1
  <2>4. CASE /\ prepared[s] # None /\ prepared' = [prepared EXCEPT ![s].claimed = TRUE]
             /\ hold' = [hold EXCEPT ![t] = prepared[s].sock] /\ pc'[t] = "check"
    <3>1. prepared[s] \in Preparations
      BY <2>1, <2>4 DEF TypeOK
    <3>2. prepared'[s] = [prepared[s] EXCEPT !.claimed = TRUE] /\ \A r \in Sessions : r # s => prepared'[r] = prepared[r]
      BY <2>1, <2>4 DEF TypeOK
    <3>3. prepared'[s].sock = prepared[s].sock
      BY <3>1, <3>2 DEF Preparations
    <3>4. PreparedFade
      BY <2>4, <3>2, <3>3 DEF PreparedFade
    <3>5. hold'[t] = prepared[s].sock /\ \A u \in Tasks : u # t => hold'[u] = hold[u]
      BY <1>5, <2>4
    <3>6. prepared[s].sock = adv[t]
      BY <2>2, <2>4 DEF BookInv, SocketAdvertised
    <3>7. CalmOf(t)
      BY <2>1, <2>2, <2>4, <3>5, <3>6 DEF Prepares, Checks, Advertises, PrepareStages
    <3> QED BY <1>7, <1>8, <2>1, <3>4, <3>5, <3>7
  <2> QED BY <2>1, <2>3, <2>4
<1>22. ASSUME NEW ok \in BOOLEAN,
              CheckDirect(t, ok) \/ RelayTry(t, ok) \/ RelayConnect(t, ok) \/ RelayPunch(t, ok)
       PROVE  Calm
  <2>1. /\ pc[t] \in {"check", "relayTry", "connect", "punch"} /\ UNCHANGED <<entries, prepared, job, adv>> /\ Alone
        /\ \A u \in Tasks : u # t => hold'[u] = hold[u]
        /\ pc'[t] \in {"transfer", "relayTry", "connect", "punch", "transferRelay", "failCancel"}
    <3>1. /\ pc[t] \in {"check", "relayTry", "connect", "punch"} /\ UNCHANGED <<entries, prepared, job, adv>>
          /\ UNCHANGED hold \/ hold' = [hold EXCEPT ![t] = prepared[s].relay]
      BY <1>22 DEF CheckDirect, RelayTry, RelayConnect, RelayPunch, managerVars
    <3>2. Hands
      BY <1>5a, <3>1
    <3>3. \E stage \in {"transfer", "relayTry", "connect", "punch", "transferRelay", "failCancel"} : Goto(t, stage)
      BY <1>22 DEF CheckDirect, RelayTry, RelayConnect, RelayPunch
    <3>4. Alone /\ pc'[t] \in {"transfer", "relayTry", "connect", "punch", "transferRelay", "failCancel"}
      BY <1>1, <3>3
    <3> QED BY <3>1, <3>2, <3>4
  <2>2. CalmOf(t)
    BY <1>11, <2>1 DEF Checks, CheckStages, FailStages
  <2> QED BY <1>7, <1>8, <2>1, <2>2
<1>23. Transfer(t) \/ Publish(t) \/ Install(t) \/ FailCancel(t) \/ FailEntry(t) => Calm
  <2> SUFFICES ASSUME Transfer(t) \/ Publish(t) \/ Install(t) \/ FailCancel(t) \/ FailEntry(t) PROVE Calm
    OBVIOUS
  <2>1. /\ pc[t] \in {"transfer", "transferRelay", "publish", "install", "failCancel", "failCancelAgain", "failEntry"}
        /\ UNCHANGED <<job, adv, hold>> /\ Alone
        /\ pc'[t] \in {"publish", "complete", "monitor", "failEntry", "failCancelAgain", "done"}
    BY <1>1 DEF Transfer, Publish, Install, FailCancel, FailEntry
  <2>2. UNCHANGED entries \/ DeleteEntry(t)
    BY DEF Transfer, Publish, Install, FailCancel, FailEntry
  <2>3. PreparedFade
    <3>1. UNCHANGED prepared \/ CancelPrepared(s) \/ prepared' = [prepared EXCEPT ![s] = None]
      BY DEF Transfer, Publish, Install, FailCancel, FailEntry, managerVars
    <3>2. ASSUME prepared' = [prepared EXCEPT ![s] = None] PROVE PreparedFade
      BY <3>2 DEF PreparedFade, TypeOK
    <3> QED BY <1>7, <3>1, <3>2
  <2>4. Checks(t)
    BY <2>1 DEF Checks, CheckStages, FailStages
  <2>5. CalmOf(t)
    BY <1>11, <2>1, <2>4 DEF CheckStages, FailStages
  <2> QED BY <1>7, <1>8, <2>1, <2>2, <2>3, <2>5
<1>24. Complete(t) => Calm
  <2> SUFFICES ASSUME Complete(t) PROVE Calm
    OBVIOUS
  <2>1. pc[t] = "complete" /\ UNCHANGED <<prepared, job, adv, hold>> /\ Alone /\ pc'[t] \in {"install", "done"}
    BY <1>1 DEF Complete, managerVars
  <2>2. CalmOf(t)
    BY <1>11, <2>1 DEF Checks, CheckStages, FailStages
  <2>3. EntriesFade
    <3>1. CASE UNCHANGED entries
      BY <1>7, <3>1
    <3>2. CASE Entry(t) # None /\ SetEntry(t, [Entry(t) EXCEPT !.state = "completed"])
      <4>1. Entry(t) \in Negotiations
        BY <2>1, <3>2, EntryTyped
      <4>2. /\ [Entry(t) EXCEPT !.state = "completed"].session = Entry(t).session
            /\ [Entry(t) EXCEPT !.state = "completed"].adv = Entry(t).adv
            /\ [Entry(t) EXCEPT !.state = "completed"].state = "completed"
        BY <4>1 DEF Negotiations
      <4>3. PICK e \in Epochs, p \in Peers : e = job[t].store /\ p = job[t].peer
        BY <1>4, <2>1 DEF Jobs
      <4>4. entries' = [entries EXCEPT ![e][p] = [Entry(t) EXCEPT !.state = "completed"]] /\ Entry(t) = entries[e][p]
        BY <3>2, <4>3 DEF SetEntry, Entry
      <4>5. /\ entries'[e][p] = [Entry(t) EXCEPT !.state = "completed"]
            /\ \A f \in Epochs, q \in Peers : ~(f = e /\ q = p) => entries'[f][q] = entries[f][q]
        BY <4>4 DEF TypeOK
      <4> QED BY <3>2, <4>2, <4>4, <4>5 DEF EntriesFade
    <3> QED BY <3>1, <3>2 DEF Complete, Negotiating
  <2> QED BY <1>7, <1>8, <2>1, <2>2, <2>3
<1>25. Monitor(t) \/ MonitorDelete(t) \/ FallbackRemove(t) \/ FallbackFail(t) \/ FallbackCancel(t) => Calm
  <2> SUFFICES ASSUME Monitor(t) \/ MonitorDelete(t) \/ FallbackRemove(t) \/ FallbackFail(t) \/ FallbackCancel(t)
               PROVE  Calm
    OBVIOUS
  <2>1. /\ pc[t] # "idle" /\ UNCHANGED <<job, adv, hold>> /\ Alone
        /\ \/ pc[t] = "monitor" /\ pc'[t] \in {"monitorDelete", "done"}
           \/ pc'[t] \in {"fallbackFail", "fallbackCancel", "done"}
    BY <1>1 DEF Monitor, MonitorDelete, FallbackRemove, FallbackFail, FallbackCancel
  <2>2. UNCHANGED entries \/ DeleteEntry(t)
    BY DEF Monitor, MonitorDelete, FallbackRemove, FallbackFail, FallbackCancel
  <2>3. UNCHANGED prepared \/ CancelPrepared(s)
    BY DEF Monitor, MonitorDelete, FallbackRemove, FallbackFail, FallbackCancel, managerVars
  <2>4. CalmOf(t)
    BY <1>11, <2>1 DEF Checks, CheckStages, FailStages
  <2> QED BY <1>7, <1>8, <2>1, <2>2, <2>3, <2>4
<1> HIDE DEF Goal
<1>26. Calm => Goal
  BY DEF Goal
<1>27. Goal
  BY TaskCases, <1>12, <1>13, <1>14, <1>15, <1>16, <1>17, <1>18, <1>19, <1>20, <1>21, <1>22, <1>23, <1>24,
     <1>25, <1>26
<1> QED BY <1>27 DEF Goal

\* A step keeps the books when no offer arrives twice.
LEMMA BookNext ==
  ASSUME TypeOK, StagesFit, BookInv, [Next]_vars, ~Replays
  PROVE  BookInv'
<1>1. TypeOK'
  BY TypesNext
<1>2. CASE Calm
  BY <1>1, <1>2, CalmKeeps
<1>3. ASSUME NEW t \in Tasks, TaskStep(t) PROVE BookInv'
  BY <1>1, <1>2, <1>3, TaskBooks, AnswersKeeps, FilesKeeps, InsertsKeeps
<1> QED BY <1>1, <1>2, <1>3, EventsCalm, StartsKeeps, AnswersKeeps


--------------------------------------------------------------------------------
(* The client's table of sessions.                                         *)

\* The goroutine has installed its session or given up.
Ended == {"monitor", "monitorDelete", "done"}

\* A goroutine's step moves no other goroutine and starts no session but its own.
LEMMA TaskAlone ==
  ASSUME TypeOK, NEW t \in Tasks, TaskStep(t)
  PROVE  \A u \in Tasks : u # t => pc'[u] = pc[u] /\ (u \in live' => u \in live)
<1> DEFINE Alone == \A u \in Tasks : u # t => pc'[u] = pc[u]
           Goal == \A u \in Tasks : u # t => pc'[u] = pc[u] /\ (u \in live' => u \in live)
<1>1. ASSUME NEW stage, Goto(t, stage) PROVE Alone
  BY <1>1, GotoMoves
<1>2. PrepareError(t) \/ Prepared(t) => Alone
  BY <1>1 DEF PrepareError, Prepared
<1>3. ASSUME Alone, \A u \in live' : u \in live \/ u = t PROVE Goal
  BY <1>3
<1> HIDE DEF Alone, Goal
<1>4. ASSUME PrepareBegin(t) \/ PrepareInsert(t) \/ PrepareReturn(t) \/ RelayLookup(t) \/ RelayAttach(t) PROVE Goal
  BY <1>1, <1>2, <1>3, <1>4 DEF PrepareBegin, PrepareInsert, PrepareReturn, RelayLookup, RelayAttach
<1>5. ASSUME NegotiationStart(t) \/ BeginCheck(t) PROVE Goal
  BY <1>1, <1>3, <1>5 DEF NegotiationStart, BeginCheck
<1>6. ASSUME NEW ok \in BOOLEAN, NEW x \in Socks, PrepareBind(t, ok, x) PROVE Goal
  BY <1>1, <1>2, <1>3, <1>6 DEF PrepareBind
<1>7. ASSUME NEW ok \in BOOLEAN, NEW y \in Relays, RelayAllocate(t, ok, y) PROVE Goal
  BY <1>1, <1>2, <1>3, <1>7 DEF RelayAllocate
<1>8. ASSUME Establish(t) \/ Claim(t) \/ Transfer(t) \/ Publish(t) \/ Complete(t) \/ Install(t) PROVE Goal
  BY <1>1, <1>3, <1>8 DEF Establish, Claim, Transfer, Publish, Complete, Install
<1>9. ASSUME FailCancel(t) \/ FailEntry(t) \/ Monitor(t) \/ MonitorDelete(t) PROVE Goal
  BY <1>1, <1>3, <1>9 DEF FailCancel, FailEntry, Monitor, MonitorDelete
<1>10. ASSUME FallbackRemove(t) \/ FallbackFail(t) \/ FallbackCancel(t) PROVE Goal
  BY <1>1, <1>3, <1>10 DEF FallbackRemove, FallbackFail, FallbackCancel
<1>11. ASSUME NEW ok \in BOOLEAN,
              CheckDirect(t, ok) \/ RelayTry(t, ok) \/ RelayConnect(t, ok) \/ RelayPunch(t, ok)
       PROVE  Goal
  BY <1>1, <1>3, <1>11 DEF CheckDirect, RelayTry, RelayConnect, RelayPunch
<1>12. Goal
  BY <1>4, <1>5, <1>6, <1>7, <1>8, <1>9, <1>10, <1>11, TaskCases
<1> QED BY <1>12 DEF Goal

\* A goroutine that has ended starts no other session, and while its session is
\* alive it waits.
LEMMA EndedStay ==
  ASSUME TypeOK, StagesFit, [Next]_vars, NEW u \in Tasks, pc[u] \in Ended
  PROVE  /\ pc'[u] \in Ended
         /\ u \in live' => u \in live
         /\ u \in live /\ pc[u] = "monitor" => pc'[u] = "monitor"
<1> DEFINE Stay == /\ pc'[u] \in Ended
                   /\ u \in live' => u \in live
                   /\ u \in live /\ pc[u] = "monitor" => pc'[u] = "monitor"
<1>1. ASSUME pc'[u] = pc[u], u \in live' => u \in live PROVE Stay
  BY <1>1
<1>2. ASSUME NEW t \in Tasks, NEW p \in Peers, NEW s \in Sessions, Signal(t, p, s) PROVE Stay
  <2>1. pc[t] = "idle" /\ UNCHANGED live /\ \E stage : Goto(t, stage)
    BY <1>2 DEF Signal, OfferICE, ReceiveOffer, ReceiveAnswer, ReceiveFallback, Begin
  <2>2. u # t
    BY <2>1 DEF Ended
  <2>3. pc'[u] = pc[u]
    BY <2>1, <2>2, GotoMoves
  <2> QED BY <1>1, <2>1, <2>3
<1>3. ASSUME NEW t \in Tasks, TaskStep(t) PROVE Stay
  <2>1. CASE u # t
    BY <1>1, <1>3, <2>1, TaskAlone
  <2>2. CASE u = t
    <3>1. Monitor(t) \/ MonitorDelete(t)
      <4>1. pc[t] \in {"monitor", "monitorDelete", "done"}
        BY <2>2 DEF Ended
      <4> QED BY <1>3, <4>1, TaskCases DEF PrepareBegin, PrepareInsert, PrepareReturn, RelayLookup, RelayAttach,
             NegotiationStart, BeginCheck, PrepareBind, RelayAllocate, Establish, Claim, Transfer,
             Publish, Complete, Install, FailCancel, FailEntry, CheckDirect, RelayTry, RelayConnect,
             RelayPunch, FallbackRemove, FallbackFail, FallbackCancel
    <3>2. UNCHANGED live /\ (Goto(t, "monitorDelete") \/ Goto(t, "done")) /\ (pc[t] = "monitor" => t \notin live)
      BY <3>1 DEF Monitor, MonitorDelete
    <3>3. pc'[t] \in {"monitorDelete", "done"}
      BY <3>2, GotoMoves
    <3> QED BY <2>2, <3>2, <3>3 DEF Ended
  <2> QED BY <2>1, <2>2
<1>4. ASSUME UNCHANGED pc, live' \subseteq live PROVE Stay
  BY <1>1, <1>4
<1>5. ASSUME NEW p \in Peers, LearnPeer(p) \/ EntryExpires(p) PROVE Stay
  BY <1>4, <1>5 DEF LearnPeer, EntryExpires, taskVars
<1>6. ASSUME NEW t \in Tasks, SessionEnds(t) \/ ForgetConnection(t) PROVE Stay
  BY <1>4, <1>6 DEF SessionEnds, ForgetConnection, taskVars
<1>7. ASSUME NEW s \in Sessions, PreparedExpires(s) \/ ContextCancel(s) PROVE Stay
  BY <1>4, <1>7 DEF PreparedExpires, ContextCancel, taskVars
<1>8. ASSUME NEW y \in Relays, RelayExpires(y) PROVE Stay
  BY <1>4, <1>8 DEF RelayExpires, taskVars
<1>9. ASSUME Disconnect \/ CloseStep \/ Reconnect \/ UNCHANGED vars PROVE Stay
  BY <1>4, <1>9 DEF Disconnect, CloseStep, SwapState, ManagerClose, Reconnect, vars, taskVars
<1> HIDE DEF Stay
<1>10. Stay
  BY <1>2, <1>3, <1>5, <1>6, <1>7, <1>8, <1>9 DEF Next
<1> QED BY <1>10 DEF Stay

\* An entry of the table changes when a session is installed, when the maps are
\* swapped, and when a session is removed by a goroutine that names it.
LEMMA TableSteps ==
  ASSUME TypeOK, StagesFit, [Next]_vars, NEW p \in Peers
  PROVE  \/ active'[p] = active[p]
         \/ \E t \in Tasks : active'[p] = t /\ pc'[t] = "monitor"
         \/ active'[p] = None /\ phase' # phase
         \/ /\ active'[p] = None /\ active[p] # None
            /\ \E t \in Tasks : /\ Session(t) = Session(active[p])
                                /\ \/ pc[t] = "monitor" /\ t \notin live
                                   \/ pc[t] = "fallback" /\ pc'[t] # pc[t]
<1> DEFINE Removes(t) == /\ active'[p] = None /\ active[p] # None /\ Session(t) = Session(active[p])
                         /\ \/ pc[t] = "monitor" /\ t \notin live
                            \/ pc[t] = "fallback" /\ pc'[t] # pc[t]
           Goal == \/ active'[p] = active[p]
                   \/ \E t \in Tasks : active'[p] = t /\ pc'[t] = "monitor"
                   \/ active'[p] = None /\ phase' # phase
                   \/ \E t \in Tasks : Removes(t)
<1>1. UNCHANGED active => Goal
  OBVIOUS
<1>2. ASSUME NEW t \in Tasks, Install(t) PROVE Goal
  <2>1. active' = [active EXCEPT ![Peer(t)] = t] /\ pc'[t] = "monitor"
    BY <1>2, GotoMoves DEF Install
  <2>2. active'[p] = active[p] \/ active'[p] = t
    BY <2>1 DEF TypeOK
  <2> QED BY <2>1, <2>2
<1>3. ASSUME NEW t \in Tasks, Monitor(t) \/ FallbackRemove(t) PROVE Goal
  <2>1. RemoveIfMatch(Peer(t), Session(t))
    BY <1>3 DEF Monitor, FallbackRemove
  <2>2. \/ pc[t] = "monitor" /\ t \notin live
        \/ pc[t] = "fallback" /\ pc'[t] # pc[t]
    BY <1>3, GotoMoves DEF Monitor, FallbackRemove
  <2>3. \/ UNCHANGED active
        \/ /\ active[Peer(t)] # None /\ Session(active[Peer(t)]) = Session(t)
           /\ active' = [active EXCEPT ![Peer(t)] = None]
    BY <2>1 DEF RemoveIfMatch
  <2>4. active'[p] = active[p] \/ (active[p] # None /\ Session(active[p]) = Session(t) /\ active'[p] = None)
    BY <2>3 DEF TypeOK
  <2> QED BY <2>2, <2>4
<1>4. ASSUME NEW t \in Tasks, TaskStep(t) PROVE UNCHANGED active \/ Install(t) \/ Monitor(t) \/ FallbackRemove(t)
  BY <1>4, TaskCases DEF PrepareBegin, PrepareInsert, PrepareReturn, RelayLookup, RelayAttach,
     NegotiationStart, BeginCheck, PrepareBind, RelayAllocate, Establish, Claim, Transfer,
     Publish, Complete, FailCancel, FailEntry, CheckDirect, RelayTry, RelayConnect,
     RelayPunch, MonitorDelete, FallbackFail, FallbackCancel, clientVars
<1>5. ASSUME SwapState PROVE Goal
  BY <1>5 DEF SwapState
<1>6. ASSUME NEW q \in Peers, LearnPeer(q) \/ EntryExpires(q) PROVE UNCHANGED active
  BY <1>6 DEF LearnPeer, EntryExpires, clientVars
<1>7. ASSUME NEW t \in Tasks, NEW q \in Peers, NEW s \in Sessions, Signal(t, q, s) PROVE UNCHANGED active
  BY <1>7 DEF Signal, OfferICE, ReceiveOffer, ReceiveAnswer, ReceiveFallback, clientVars
<1>8. ASSUME NEW t \in Tasks, SessionEnds(t) \/ ForgetConnection(t) PROVE UNCHANGED active
  BY <1>8 DEF SessionEnds, ForgetConnection, clientVars
<1>9. ASSUME NEW s \in Sessions, PreparedExpires(s) \/ ContextCancel(s) PROVE UNCHANGED active
  BY <1>9 DEF PreparedExpires, ContextCancel, clientVars
<1>10. ASSUME NEW y \in Relays, RelayExpires(y) PROVE UNCHANGED active
  BY <1>10 DEF RelayExpires, clientVars
<1>11. ASSUME Disconnect \/ ManagerClose \/ Reconnect \/ UNCHANGED vars PROVE Goal
  BY <1>1, <1>11 DEF Disconnect, ManagerClose, Reconnect, vars, clientVars
<1> HIDE DEF Goal
<1>12. Goal
  BY <1>1, <1>2, <1>3, <1>4, <1>5, <1>6, <1>7, <1>8, <1>9, <1>10, <1>11 DEF Next, CloseStep
<1> QED BY <1>12 DEF Goal, Removes

\* A step keeps the table and the goroutines it names together.
LEMMA ActiveNext ==
  ASSUME TypeOK, StagesFit, ActiveMonitored, [Next]_vars
  PROVE  ActiveMonitored'
<1> SUFFICES ASSUME NEW p \in Peers, active'[p] # None
             PROVE  /\ pc'[active'[p]] \in Ended
                    /\ active'[p] \in live' => pc'[active'[p]] = "monitor"
  BY DEF ActiveMonitored, Ended
<1>1. CASE active'[p] = active[p]
  <2>1. PICK u \in Tasks : u = active[p]
    BY <1>1 DEF TypeOK
  <2>2. pc[u] \in Ended /\ (u \in live => pc[u] = "monitor")
    BY <1>1, <2>1 DEF ActiveMonitored, Ended
  <2> QED BY <1>1, <2>1, <2>2, EndedStay
<1>2. ASSUME NEW t \in Tasks, active'[p] = t, pc'[t] = "monitor" 
      PROVE  pc'[active'[p]] \in Ended /\ pc'[active'[p]] = "monitor"
  BY <1>2 DEF Ended
<1> QED BY <1>1, <1>2, TableSteps

--------------------------------------------------------------------------------
(* The theorems.                                                           *)

\* A client that has just started holds and owes nothing.
LEMMA InitHolds ==
  ASSUME Init
  PROVE  SessionsInv /\ BookInv /\ ActiveMonitored
<1> USE DEF Init
<1>1. TypeOK
  BY SessionsAssumption DEF TypeOK, Epochs, Stages
<1>2. \A t \in Tasks : pc[t] = "idle" /\ job[t] = None /\ hold[t] = None
  OBVIOUS
<1>3. StagesFit
  BY <1>2 DEF StagesFit, Advertising, NewSock, OnSock, NewRelay, OnRelay
<1>4. \A s \in Sessions : prepared[s] = None /\ Owns(s) = {}
  BY DEF Owns
<1>5. \A x \in Resources : res[x] = "unused"
  OBVIOUS
<1>6. \A t \in Tasks : hold[t] \notin Resources
  BY <1>2, SessionsAssumption
<1>7. NothingUnused /\ OwnsDisjoint
  BY <1>2, <1>4 DEF NothingUnused, OwnsDisjoint
<1>8. NewAlone /\ ChecksOwn /\ TransfersLive
  BY <1>2, <1>4 DEF NewAlone, ChecksOwn, TransfersLive, NewSock, NewRelay, OnSock, OnRelay
<1>9. ClaimedOnce /\ ConnectedOnce
  BY <1>4, <1>5, <1>6 DEF ClaimedOnce, ConnectedOnce, Resources
<1>10. ConnectedHeld /\ ResourcesOwned /\ SessionsOwnAlone
  BY <1>5 DEF ConnectedHeld, ResourcesOwned, SessionsOwnAlone
<1>11. \A t \in Tasks : ~Prepares(t) /\ ~Checks(t) /\ ~Advertises(t)
  BY <1>2 DEF Prepares, Checks, Advertises, PrepareStages, CheckStages, FailStages
<1>12. \A e \in Epochs, p \in Peers : entries[e][p] = None
  OBVIOUS
<1>13. BookInv
  BY <1>2, <1>4, <1>11, <1>12 DEF BookInv, KnownUsed, PreparedFirst, CheckedOnce, SocketAdvertised, CheckedSocketAdvertised
<1>14. ActiveMonitored
  BY DEF ActiveMonitored
<1> QED BY <1>1, <1>3, <1>7, <1>8, <1>9, <1>10, <1>13, <1>14 DEF SessionsInv

\* The inductive invariant: with the types and the stages, who has which socket
\* and which allocation in hand, and that nobody else has.
THEOREM SessionsInvariant == Spec => []SessionsInv
<1>1. Init => SessionsInv
  BY InitHolds
<1>2. SessionsInv /\ [Next]_vars => SessionsInv'
  BY TypesNext, StagesFitNext, OwnersNext DEF SessionsInv, OwnersInv
<1> QED BY <1>1, <1>2, PTL DEF Spec

\* Types: the client's maps, the stores, the manager and the goroutines keep the
\* values the code gives them.
THEOREM TypeCorrect == Spec => []TypeOK
<1>1. SessionsInv => TypeOK
  BY DEF SessionsInv
<1> QED BY <1>1, SessionsInvariant, PTL

\* PrepareICEWithRelay, the claim, the transfer, the time-outs and Close never
\* leave an open socket or allocation without an owner that will close it.
THEOREM ResourcesStayOwned == Spec => []ResourcesOwned
<1>1. SessionsInv => ResourcesOwned
  BY DEF SessionsInv
<1> QED BY <1>1, SessionsInvariant, PTL

\* transferPreparedSocket and transferPreparedRelay give a session what it runs on
\* for itself: no other session and no preparation will close it.
THEOREM SessionsAlone == Spec => []SessionsOwnAlone
<1>1. SessionsInv => SessionsOwnAlone
  BY DEF SessionsInv
<1> QED BY <1>1, SessionsInvariant, PTL

\* The inductive invariant when no offer is delivered twice: besides, a session has
\* one preparation, one negotiation and one check.
THEOREM OnceInvariant ==
  ASSUME ~Replays
  PROVE  Spec => []OnceInv
<1>1. Init => OnceInv
  BY InitHolds DEF OnceInv, BookInv
<1>2. OnceInv /\ [Next]_vars => OnceInv'
  <2> SUFFICES ASSUME OnceInv, [Next]_vars PROVE OnceInv'
    OBVIOUS
  <2>1. SessionsInv /\ BookInv /\ ActiveMonitored
    BY DEF OnceInv, BookInv
  <2>2. TypeOK /\ StagesFit
    BY <2>1 DEF SessionsInv
  <2>3. SessionsInv'
    BY <2>1, TypesNext, StagesFitNext, OwnersNext DEF SessionsInv, OwnersInv
  <2>4. BookInv'
    BY <2>1, <2>2, BookNext
  <2>5. ActiveMonitored'
    BY <2>1, <2>2, ActiveNext
  <2> QED BY <2>3, <2>4, <2>5 DEF OnceInv, BookInv
<1> QED BY <1>1, <1>2, PTL DEF Spec

\* A connectivity check runs on the socket whose candidates the offer or the answer
\* carried.
THEOREM CheckAdvertised ==
  ASSUME ~Replays
  PROVE  Spec => []CheckedSocketAdvertised
<1>1. OnceInv => CheckedSocketAdvertised
  BY DEF OnceInv
<1> QED BY <1>1, OnceInvariant, PTL

\* Neither the monitor of an earlier session nor a late Fallback takes a live
\* session out of the client's table: removeP2PSessionIfMatch names it by its ID.
THEOREM SuccessorKept ==
  ASSUME ~Replays
  PROVE  Spec => SuccessorSurvives
<1>1. OnceInv /\ [Next]_vars
        => [\A p \in Peers, t \in live :
              active[p] = t /\ active'[p] = None =>
                \/ phase # phase'
                \/ \E u \in Tasks : pc[u] = "fallback" /\ pc'[u] # pc[u] /\ Session(u) = Session(t)]_vars
  <2> SUFFICES ASSUME OnceInv, [Next]_vars, NEW p \in Peers, NEW t \in live, active[p] = t, active'[p] = None
               PROVE  \/ phase # phase'
                      \/ \E u \in Tasks : pc[u] = "fallback" /\ pc'[u] # pc[u] /\ Session(u) = Session(t)
    OBVIOUS
  <2>1. TypeOK /\ StagesFit /\ CheckedOnce /\ ActiveMonitored
    BY DEF OnceInv, SessionsInv
  <2>2. t \in Tasks /\ t # None
    BY <2>1, SessionsAssumption DEF TypeOK
  <2>3. Checks(t)
    BY <2>1, <2>2 DEF ActiveMonitored, Checks
  <2>4. \A u \in Tasks : (Session(u) = Session(t) /\ pc[u] = "monitor") => u = t
    BY <2>1, <2>2, <2>3 DEF CheckedOnce, Checks
  <2>5. active'[p] # active[p] /\ ~\E u \in Tasks : active'[p] = u
    BY <2>2, SessionsAssumption
  <2> QED BY <2>1, <2>4, <2>5, TableSteps
<1> QED BY <1>1, OnceInvariant, PTL DEF Spec, SuccessorSurvives
================================================================================
