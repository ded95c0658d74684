------------------------------ MODULE ServerState ------------------------------
(***************************************************************************)
(* The server's state file and process lifecycle (cmd/server.go):          *)
(* saveServerState as run by concurrent registration handlers and by the   *)
(* main goroutine, loadServerState at start, crashes at any point, and the *)
(* graceful shutdown of runServerWithConfig, which cancels every client,   *)
(* waits for the goroutines of serverWg and saves once more.               *)
(*                                                                         *)
(* Registrations are the coarse ones of ServerLifecycle: a registration    *)
(* attaches once, the carriers that replace its first one included;        *)
(* forgetServerClient is one step of every teardown and Cancel its         *)
(* cancelFunc.  The monitor stands for all goroutines of a registration in *)
(* serverWg: its reverse listeners end with the same context.              *)
(***************************************************************************)
EXTENDS FiniteSets

CONSTANTS
  Ids,    \* client IDs
  Regs,   \* registrations; each is made by one handler, which then saves
  Main,   \* the goroutine that runs runServerWithConfig
  None    \* nil

ASSUME StateAssumption == Main \notin Regs /\ None \notin Ids \cup Regs \cup {Main}

VARIABLES
  clients,   \* legacyClientRegistry
  rid,       \* client ID of each registration, None while it is unused
  ctx,       \* context of each registration: "none", "live" or "done"
  hasToken,  \* registrations that carry a session token
  carrier,   \* data connection published: "none", "mux" session, "quic", or "gone"
  monitor,   \* activity monitor of each registration; in serverWg while it watches
  saver,     \* progress of saveServerState in each goroutine that runs it
  saveMu,    \* holder of serverStateSaveMu
  snapshot,  \* registry snapshot each saver took
  tmpFile,   \* serverStateFile + ".tmp", while a save is under way
  stateFile, \* serverStateFile
  late,      \* history: registrations made after the clients were cancelled
  durable,   \* history: registrations whose own save succeeded
  phase      \* the process: "up", "stopping", "waiting", "saving", "down"

fileVars == <<tmpFile, stateFile>>
saveVars == <<saver, saveMu, snapshot, tmpFile, stateFile, durable>>
regVars  == <<clients, rid, ctx, hasToken, carrier, monitor, late>>
vars == <<regVars, saveVars, phase>>

Savers == Regs \cup {Main}
SaverStages == {"off", "lock", "open", "encode", "rename"}

\* Contents of a file: a complete state, or what a partial write left.
Files == [whole : BOOLEAN, ids : SUBSET Ids]
Complete(ids) == [whole |-> TRUE, ids |-> ids]
Truncated == [whole |-> FALSE, ids |-> {}]
Missing == Complete({})  \* a missing state file restores nobody, like an empty one

TypeOK ==
  /\ clients \in [Ids -> Regs \cup {None}]
  /\ rid \in [Regs -> Ids \cup {None}]
  /\ ctx \in [Regs -> {"none", "live", "done"}]
  /\ hasToken \subseteq Regs
  /\ carrier \in [Regs -> {"none", "mux", "quic", "gone"}]
  /\ monitor \in [Regs -> {"off", "watch", "forget"}]
  /\ late \subseteq Regs
  /\ saver \in [Savers -> SaverStages]
  /\ saveMu \in Savers \cup {None}
  /\ snapshot \in [Savers -> SUBSET Ids]
  /\ tmpFile \in Files
  /\ stateFile \in Files
  /\ durable \subseteq Regs
  /\ phase \in {"up", "stopping", "waiting", "saving", "down"}

Init ==
  /\ clients = [i \in Ids |-> None]
  /\ rid = [r \in Regs |-> None]
  /\ ctx = [r \in Regs |-> "none"]
  /\ hasToken = {}
  /\ carrier = [r \in Regs |-> "none"]
  /\ monitor = [r \in Regs |-> "off"]
  /\ late = {}
  /\ saver = [s \in Savers |-> "off"]
  /\ saveMu = None
  /\ snapshot = [s \in Savers |-> {}]
  /\ tmpFile = Missing
  /\ stateFile = Missing
  /\ durable = {}
  /\ phase = "up"

--------------------------------------------------------------------------------
Running == phase # "down"

Registered(r) == rid[r] # None /\ clients[rid[r]] = r

\* Every registration is made once, by a handler or by a restart.
Unused(r) == rid[r] = None /\ ctx[r] = "none"

\* Which unused one is taken makes no difference.
Fresh(r) == Unused(r) /\ r = CHOOSE q \in Regs : Unused(q)

RegisteredIds == {i \in Ids : clients[i] # None}

\* A registration, replacing and cancelling the one the client ID had.  The
\* HTTP server lets requests in flight finish after the shutdown began.
Register(i, r) ==
  /\ Running
  /\ Fresh(r)
  /\ clients' = [clients EXCEPT ![i] = r]
  /\ rid' = [rid EXCEPT ![r] = i]
  /\ ctx' = [s \in Regs |-> IF s = r THEN "live"
                            ELSE IF s = clients[i] THEN "done" ELSE ctx[s]]
  /\ hasToken' = hasToken \cup {r}
  /\ monitor' = [monitor EXCEPT ![r] = "watch"]
  /\ late' = IF phase = "waiting" THEN late \cup {r} ELSE late
  /\ saver' = [saver EXCEPT ![r] = "lock"]
  /\ UNCHANGED <<carrier, saveMu, snapshot, fileVars, durable, phase>>

\* claimServerAttach publishes a carrier for a client that got its session
\* token in the response.  It asks for the registration alone: the listeners
\* are closed by other goroutines than the one that cancels the clients, and
\* connections and requests they accepted before go on.
Attach(r, k) ==
  /\ Running
  /\ Registered(r) /\ ctx[r] = "live"
  /\ r \in hasToken /\ carrier[r] = "none" /\ saver[r] = "off"
  /\ carrier' = [carrier EXCEPT ![r] = k]
  /\ UNCHANGED <<clients, rid, ctx, hasToken, monitor, late, saveVars, phase>>

\* forgetServerClient: the entry goes unless it is a successor's.
Forget(r) == clients' = [i \in Ids |-> IF clients[i] = r THEN None ELSE clients[i]]


\* reapUnattachedRegistration: the attach timeout fired before the context ended.
Reap(r) ==
  /\ Running
  /\ carrier[r] = "none"
  /\ Registered(r) /\ ctx[r] = "live"
  /\ Forget(r)
  /\ UNCHANGED <<rid, ctx, hasToken, carrier, monitor, late, saveVars, phase>>

\* The peer closes the carrier or is lost, or the end of the registration's
\* context closed its mux session.
CarrierLost(r) ==
  /\ Running
  /\ carrier[r] \in {"mux", "quic"}
  /\ carrier' = [carrier EXCEPT ![r] = "gone"]
  /\ Forget(r)
  /\ UNCHANGED <<rid, ctx, hasToken, monitor, late, saveVars, phase>>

\* handleQUICServerConnection also ends with the server's context or with the
\* registration's; it then leaves the entry alone.
QuicReleased(r) ==
  /\ Running
  /\ carrier[r] = "quic"
  /\ phase # "up" \/ ctx[r] = "done"
  /\ carrier' = [carrier EXCEPT ![r] = "gone"]
  /\ UNCHANGED <<clients, rid, ctx, hasToken, monitor, late, saveVars, phase>>

\* The rest of a teardown cancels the registration's context.
Cancel(r) ==
  /\ Running
  /\ rid[r] # None /\ ~Registered(r)
  /\ ctx[r] = "live"
  /\ ctx' = [ctx EXCEPT ![r] = "done"]
  /\ UNCHANGED <<clients, rid, hasToken, carrier, monitor, late, saveVars, phase>>

\* monitorServerClientActivity returns with its context.
MonitorExit(r) ==
  /\ Running
  /\ monitor[r] = "watch"
  /\ ctx[r] = "done"
  /\ monitor' = [monitor EXCEPT ![r] = "off"]
  /\ UNCHANGED <<clients, rid, ctx, hasToken, carrier, late, saveVars, phase>>

\* The inactivity timeout, unless a mux session is up: the monitor cancels the
\* context and returns ...
MonitorExpire(r) ==
  /\ Running
  /\ monitor[r] = "watch"
  /\ carrier[r] # "mux"
  /\ ctx' = [ctx EXCEPT ![r] = "done"]
  /\ monitor' = [monitor EXCEPT ![r] = "forget"]
  /\ UNCHANGED <<clients, rid, hasToken, carrier, late, saveVars, phase>>

\* ... and a goroutine nobody waits for removes the registration.
MonitorForget(r) ==
  /\ Running
  /\ monitor[r] = "forget"
  /\ Forget(r)
  /\ monitor' = [monitor EXCEPT ![r] = "off"]
  /\ UNCHANGED <<rid, ctx, hasToken, carrier, late, saveVars, phase>>

--------------------------------------------------------------------------------
(* saveServerState, run by goroutine s.                                    *)

\* The snapshot and the write are not serialised.
MutantSaveUnlocked(s) ==
  /\ Running
  /\ saver[s] = "lock"
  /\ snapshot' = [snapshot EXCEPT ![s] = RegisteredIds]
  /\ saver' = [saver EXCEPT ![s] = "open"]
  /\ UNCHANGED <<regVars, saveMu, fileVars, durable, phase>>

\* Lock serverStateSaveMu and copy the registry.
SaveSnapshot(s) ==
  /\ Running
  /\ saver[s] = "lock"
  /\ saveMu = None
  /\ saveMu' = s
  /\ snapshot' = [snapshot EXCEPT ![s] = RegisteredIds]
  /\ saver' = [saver EXCEPT ![s] = "open"]
  /\ UNCHANGED <<regVars, fileVars, durable, phase>>

\* Unlock and return.  A temp file that a failed rename or a crash leaves behind
\* is never read: the next save truncates it.
SaveReturns(s) ==
  /\ tmpFile' = Missing
  /\ saveMu' = None
  /\ saver' = [saver EXCEPT ![s] = "off"]
  /\ snapshot' = [snapshot EXCEPT ![s] = {}]

\* The state file itself is opened for writing.
MutantOpenInPlace(s, ok) ==
  /\ Running
  /\ saver[s] = "open"
  /\ IF ok
     THEN /\ stateFile' = Truncated
          /\ saver' = [saver EXCEPT ![s] = "encode"]
          /\ UNCHANGED <<saveMu, snapshot, tmpFile>>
     ELSE SaveReturns(s) /\ UNCHANGED stateFile
  /\ UNCHANGED <<regVars, durable, phase>>

\* OpenFile with O_TRUNC empties the shared temp file.
SaveOpen(s, ok) ==
  /\ Running
  /\ saver[s] = "open"
  /\ IF ok
     THEN /\ tmpFile' = Truncated
          /\ saver' = [saver EXCEPT ![s] = "encode"]
          /\ UNCHANGED <<saveMu, snapshot>>
     ELSE SaveReturns(s)
  /\ UNCHANGED <<regVars, stateFile, durable, phase>>

\* The gob encoding and Close.
SaveEncode(s, ok) ==
  /\ Running
  /\ saver[s] = "encode"
  /\ IF ok
     THEN /\ tmpFile' = Complete(snapshot[s])
          /\ saver' = [saver EXCEPT ![s] = "rename"]
          /\ UNCHANGED <<saveMu, snapshot>>
     ELSE SaveReturns(s)
  /\ UNCHANGED <<regVars, stateFile, durable, phase>>

\* The complete temp file replaces the state file.
SaveRename(s, ok) ==
  /\ Running
  /\ saver[s] = "rename"
  /\ IF ok
     THEN stateFile' = tmpFile /\ durable' = durable \cup ({s} \cap Regs)
     ELSE UNCHANGED <<stateFile, durable>>
  /\ SaveReturns(s)
  /\ UNCHANGED <<regVars, phase>>

--------------------------------------------------------------------------------
(* The process.                                                            *)

\* A signal or an embedder's Shutdown closes the shutdown channel.
CloseShutdown ==
  /\ phase = "up"
  /\ phase' = "stopping"
  /\ UNCHANGED <<regVars, saveVars>>

\* Only clients that never attached are cancelled.
MutantCancelUnattached ==
  /\ phase = "stopping"
  /\ ctx' = [r \in Regs |-> IF Registered(r) /\ carrier[r] = "none" THEN "done" ELSE ctx[r]]
  /\ phase' = "waiting"
  /\ UNCHANGED <<clients, rid, hasToken, carrier, monitor, late, saveVars>>

\* The main goroutine cancels every client of one registry snapshot.
CancelClients ==
  /\ phase = "stopping"
  /\ ctx' = [r \in Regs |-> IF Registered(r) THEN "done" ELSE ctx[r]]
  /\ phase' = "waiting"
  /\ UNCHANGED <<clients, rid, hasToken, carrier, monitor, late, saveVars>>

\* serverWg.Wait returned: no activity monitor is watching.
WaitGroupDone ==
  /\ phase = "waiting"
  /\ \A r \in Regs : monitor[r] # "watch"
  /\ phase' = "saving"
  /\ saver' = [saver EXCEPT ![Main] = "lock"]
  /\ UNCHANGED <<regVars, saveMu, snapshot, fileVars, durable>>

\* The memory of the process is gone; the state file stays.
ProcessEnds ==
  /\ phase' = "down"
  /\ clients' = [i \in Ids |-> None]
  /\ rid' = [r \in Regs |-> None]
  /\ ctx' = [r \in Regs |-> IF Unused(r) THEN "none" ELSE "done"]
  /\ monitor' = [r \in Regs |-> "off"]
  /\ carrier' = [r \in Regs |-> "none"]
  /\ hasToken' = {}
  /\ late' = {}
  /\ saver' = [s \in Savers |-> "off"]
  /\ saveMu' = None
  /\ snapshot' = [s \in Savers |-> {}]
  /\ tmpFile' = Missing
  /\ durable' = {}
  /\ UNCHANGED stateFile

Crash ==
  /\ Running
  /\ ProcessEnds

\* runServerWithConfig returned after its own save.
Exit ==
  /\ phase = "saving"
  /\ saver[Main] = "off"
  /\ ProcessEnds

\* The client IDs the state file restores: none if it does not decode.
SavedIds == IF stateFile.whole THEN stateFile.ids ELSE {}

\* Each of them gets a registration of its own.
Restores(f) == \A i, j \in SavedIds : Unused(f[i]) /\ (f[i] = f[j] => i = j)

\* loadServerState: the restored registrations have no token, but a reaper and a
\* monitor.
Restart(f) ==
  /\ phase = "down"
  /\ Restores(f) /\ f = CHOOSE g \in [Ids -> Regs] : Restores(g)
  /\ LET restored == {f[i] : i \in SavedIds}
     IN /\ clients' = [i \in Ids |-> IF i \in SavedIds THEN f[i] ELSE None]
        /\ rid' = [r \in Regs |-> IF r \in restored
                                  THEN CHOOSE i \in SavedIds : f[i] = r ELSE rid[r]]
        /\ ctx' = [r \in Regs |-> IF r \in restored THEN "live" ELSE ctx[r]]
        /\ monitor' = [r \in Regs |-> IF r \in restored THEN "watch" ELSE "off"]
  /\ phase' = "up"
  /\ UNCHANGED <<hasToken, carrier, late, saveVars>>

--------------------------------------------------------------------------------
\* The steps of saveServerState, failing or not.
SaveStep(s) ==
  \/ SaveSnapshot(s)
  \/ \E ok \in BOOLEAN : SaveOpen(s, ok) \/ SaveEncode(s, ok) \/ SaveRename(s, ok)

MainStep == CancelClients \/ WaitGroupDone \/ Exit

Next ==
  \/ \E i \in Ids, r \in Regs : Register(i, r)
  \/ \E r \in Regs : Reap(r) \/ CarrierLost(r) \/ QuicReleased(r) \/ Cancel(r)
  \/ \E r \in Regs, k \in {"mux", "quic"} : Attach(r, k)
  \/ \E r \in Regs : MonitorExit(r) \/ MonitorExpire(r) \/ MonitorForget(r)
  \/ \E s \in Savers : SaveStep(s)
  \/ CloseShutdown \/ MainStep \/ Crash
  \/ \E f \in [Ids -> Regs] : Restart(f)

Spec == Init /\ [][Next]_vars

--------------------------------------------------------------------------------
\* The state file always decodes, whatever crashed and whoever saved at the
\* same time: saveServerState replaces it only by a completely written one.
StateFileLoadable == stateFile.whole

\* A registration whose own saveServerState succeeded stays in the state file
\* for as long as it is registered: a concurrent or later save never replaces
\* the file by an older snapshot, so a crash does not lose it.
SavedWhileRegistered ==
  \A r \in durable : Registered(r) => rid[r] \in stateFile.ids

\* Without a carrier there is no traffic that would defer the inactivity timeout.
MonitorIdle(r) == carrier[r] = "gone" /\ MonitorExpire(r)

\* The goroutines of a registration: its reaper and what else cancels it, and
\* its monitor.
ReaperStep(r) == Reap(r) \/ Cancel(r)
MonitorStep(r) == MonitorExit(r) \/ MonitorForget(r) \/ MonitorIdle(r)

\* The goroutines run, the attach timer of a live registration fires, and so
\* does the inactivity timeout of one whose carrier is gone.  Nothing is
\* assumed of clients: one may keep its carrier for ever.
Fairness ==
  /\ WF_vars(\E s \in Savers : SaveStep(s))
  /\ \A r \in Regs : WF_vars(ReaperStep(r)) /\ WF_vars(MonitorStep(r)) /\ WF_vars(QuicReleased(r))
  /\ WF_vars(MainStep)

FairSpec == Spec /\ Fairness

Stopping == phase \in {"stopping", "waiting", "saving"}

\* A client that registered after the clients were cancelled and then opened a
\* mux session: nobody cancels its context any more, the reaper spares it and
\* its monitor watches for as long as the session is up.
LateSession(r) == phase = "waiting" /\ r \in late /\ carrier[r] = "mux" /\ monitor[r] = "watch"

\* Graceful shutdown ends unless such a client keeps its session for ever:
\* serverWg.Wait does not wait for ever for any other registration, early or
\* late, attached over QUIC, never attached or restored.
ShutdownCompletes ==
  (Stopping /\ \A r \in Regs : ~LateSession(r)) ~> (phase = "down" \/ \E r \in Regs : LateSession(r))


================================================================================
