--------------------------- MODULE ServerState_proofs --------------------------
(***************************************************************************)
(* Proofs about ServerState for any sets of client IDs and registrations:  *)
(* the state file always decodes, and a registration that was saved is in  *)
(* it for as long as it is registered.                                     *)
(***************************************************************************)
EXTENDS ServerState, TLAPS

\* The goroutine that is between taking its snapshot and returning.
Saving(s) == saver[s] \in {"open", "encode", "rename"}

\* serverStateSaveMu is held by every goroutine that is saving.
SavesExclude == \A s \in Savers : Saving(s) => saveMu = s

\* What is about to be renamed is the complete encoding of the saver's snapshot.
TmpWritten == \A s \in Savers : saver[s] = "rename" => tmpFile = Complete(snapshot[s])

\* A handler saves, and is recorded as saved, only after it has registered.
SavedHaveIds ==
  /\ \A r \in Regs : saver[r] # "off" => rid[r] # None
  /\ \A r \in durable : rid[r] # None

\* A snapshot in use misses no registration it could take out of the file, and
\* not the one of the handler that saves.
SnapshotCovers ==
  \A s \in Savers : Saving(s) =>
    \A r \in Regs : (r \in durable \/ r = s) /\ Registered(r) => rid[r] \in snapshot[s]

\* A process that is down runs no goroutine.
DownIsIdle ==
  phase = "down" => durable = {} /\ \A s \in Savers : saver[s] = "off"

\* The inductive invariant.
StateInv ==
  /\ TypeOK
  /\ SavesExclude
  /\ TmpWritten
  /\ SavedHaveIds
  /\ SnapshotCovers
  /\ DownIsIdle
  /\ StateFileLoadable
  /\ SavedWhileRegistered

--------------------------------------------------------------------------------
\* Case split over the next-state relation, one case per action of the code.
LEMMA NextCases ==
  ASSUME [Next]_vars
  PROVE  \/ \E i \in Ids, r \in Regs : Register(i, r)
         \/ \E r \in Regs, k \in {"mux", "quic"} : Attach(r, k)
         \/ \E r \in Regs : Reap(r)
         \/ \E r \in Regs : CarrierLost(r)
         \/ \E r \in Regs : QuicReleased(r)
         \/ \E r \in Regs : Cancel(r)
         \/ \E r \in Regs : MonitorExit(r)
         \/ \E r \in Regs : MonitorExpire(r)
         \/ \E r \in Regs : MonitorForget(r)
         \/ \E s \in Savers : SaveSnapshot(s)
         \/ \E s \in Savers, ok \in BOOLEAN : SaveOpen(s, ok)
         \/ \E s \in Savers, ok \in BOOLEAN : SaveEncode(s, ok)
         \/ \E s \in Savers, ok \in BOOLEAN : SaveRename(s, ok)
         \/ CloseShutdown
         \/ CancelClients
         \/ WaitGroupDone
         \/ ProcessEnds
         \/ \E f \in [Ids -> Regs] : Restart(f)
         \/ UNCHANGED vars
  BY Zenon DEF Next, SaveStep, MainStep, Crash, Exit

\* The files hold complete states or what a partial write left.
LEMMA FileTypes ==
  /\ \A ids \in SUBSET Ids : Complete(ids) \in Files
  /\ Truncated \in Files /\ Missing \in Files /\ Missing.whole
  /\ \A ids : Complete(ids).whole /\ Complete(ids).ids = ids
  BY DEF Complete, Truncated, Missing, Files

\* An empty server with no state file is well typed.
LEMMA TypeInit == Init => TypeOK
  BY FileTypes DEF Init, TypeOK, Savers, SaverStages

\* Every step keeps the state well typed.
LEMMA TypeNext ==
  ASSUME TypeOK, [Next]_vars
  PROVE  TypeOK'
<1> USE StateAssumption DEF TypeOK, Savers, SaverStages, regVars, saveVars, fileVars
<1>1. ASSUME NEW i \in Ids, NEW r \in Regs, Register(i, r) PROVE TypeOK'
  BY <1>1 DEF Register
<1>2. ASSUME NEW r \in Regs, NEW k \in {"mux", "quic"}, Attach(r, k) PROVE TypeOK'
  BY <1>2 DEF Attach
<1>3. ASSUME NEW r \in Regs, MonitorExit(r) \/ MonitorExpire(r) \/ MonitorForget(r)
      PROVE  TypeOK'
  BY <1>3 DEF MonitorExit, MonitorExpire, MonitorForget, Forget
<1>4. ASSUME NEW s \in Savers, SaveSnapshot(s) PROVE TypeOK'
  BY <1>4 DEF SaveSnapshot, RegisteredIds
<1>5. ASSUME NEW s \in Savers, NEW ok \in BOOLEAN, SaveOpen(s, ok) PROVE TypeOK'
  BY <1>5, FileTypes DEF SaveOpen, SaveReturns
<1>6. ASSUME NEW s \in Savers, NEW ok \in BOOLEAN, SaveEncode(s, ok) PROVE TypeOK'
  BY <1>6, FileTypes DEF SaveEncode, SaveReturns
<1>7. ASSUME NEW s \in Savers, NEW ok \in BOOLEAN, SaveRename(s, ok) PROVE TypeOK'
  BY <1>7, FileTypes DEF SaveRename, SaveReturns
<1>8. CASE CloseShutdown \/ CancelClients \/ WaitGroupDone
  BY <1>8 DEF CloseShutdown, CancelClients, WaitGroupDone
<1>9. CASE ProcessEnds
  BY <1>9, FileTypes DEF ProcessEnds
<1>10. ASSUME NEW f \in [Ids -> Regs], Restart(f) PROVE TypeOK'
  <2> DEFINE restored == {f[i] : i \in SavedIds}
  <2>1. SavedIds \subseteq Ids
    BY DEF SavedIds, Files
  <2>2. rid' \in [Regs -> Ids \cup {None}]
    <3>1. \A r \in restored : (CHOOSE i \in SavedIds : f[i] = r) \in Ids
      BY <2>1
    <3>2. rid' = [r \in Regs |-> IF r \in restored THEN CHOOSE i \in SavedIds : f[i] = r ELSE rid[r]]
      BY <1>10 DEF Restart
    <3> QED BY ZenonT(60), <3>1, <3>2
  <2>3. /\ clients' \in [Ids -> Regs \cup {None}]
        /\ ctx' \in [Regs -> {"none", "live", "done"}]
        /\ monitor' \in [Regs -> {"off", "watch", "forget"}]
    BY <1>10, <2>1 DEF Restart
  <2> QED BY <1>10, <2>2, <2>3 DEF Restart
<1>11. CASE UNCHANGED vars
  BY <1>11 DEF vars
<1>12. ASSUME NEW r \in Regs, Reap(r) \/ CarrierLost(r) PROVE TypeOK'
  BY <1>12 DEF Reap, CarrierLost, Forget
<1>13. ASSUME NEW r \in Regs, QuicReleased(r) \/ Cancel(r) PROVE TypeOK'
  BY <1>13 DEF QuicReleased, Cancel
<1> HIDE DEF TypeOK
<1> QED BY <1>1, <1>2, <1>3, <1>4, <1>5, <1>6, <1>7, <1>8, <1>9, <1>10, <1>11, <1>12, <1>13, NextCases

--------------------------------------------------------------------------------
\* A server that starts without a state file satisfies the invariant.
LEMMA StateInit == Init => StateInv
<1> SUFFICES ASSUME Init PROVE StateInv
  OBVIOUS
<1>1. TypeOK
  BY TypeInit
<1>2. SavesExclude /\ TmpWritten /\ SavedHaveIds /\ SnapshotCovers /\ DownIsIdle
  BY DEF Init, SavesExclude, TmpWritten, SavedHaveIds, SnapshotCovers, DownIsIdle, Saving, Savers
<1>3. StateFileLoadable /\ SavedWhileRegistered
  BY FileTypes DEF Init, StateFileLoadable, SavedWhileRegistered
<1> QED BY <1>1, <1>2, <1>3 DEF StateInv

\* A step that saves nothing and under which no registration that has an ID
\* becomes registered keeps the invariant: this is every teardown, every
\* cancellation and every step of a monitor.
LEMMA TeardownKeeps ==
  ASSUME StateInv, TypeOK', UNCHANGED <<saveVars, rid>>, phase' # "down",
         \A r \in Regs : Registered(r)' => Registered(r)
  PROVE  StateInv'
<1>1. SavesExclude' /\ TmpWritten' /\ SavedHaveIds' /\ DownIsIdle' /\ StateFileLoadable'
  BY DEF StateInv, SavesExclude, TmpWritten, SavedHaveIds, DownIsIdle, StateFileLoadable, saveVars, Saving
<1>2. SnapshotCovers' /\ SavedWhileRegistered'
  BY DEF StateInv, SnapshotCovers, SavedWhileRegistered, saveVars, Saving, TypeOK
<1> QED BY <1>1, <1>2 DEF StateInv

\* A registration under a new pointer, which nobody has saved yet.
LEMMA RegisterKeeps ==
  ASSUME StateInv, TypeOK', NEW i \in Ids, NEW r \in Regs, Register(i, r)
  PROVE  StateInv'
<1> USE StateAssumption DEF StateInv, Register, fileVars
<1>1. \A q \in Regs \ {r} : rid'[q] = rid[q] /\ (Registered(q)' => Registered(q))
  BY DEF Registered, TypeOK
<1>2. saver[r] = "off" /\ r \notin durable /\ rid'[r] = i
  BY DEF SavedHaveIds, TypeOK, Fresh, Unused
<1>3. \A s \in Savers : Saving(s)' <=> Saving(s)
  BY <1>2 DEF Saving, TypeOK, Savers
<1>4. SavesExclude' /\ TmpWritten' /\ StateFileLoadable'
  BY <1>3 DEF SavesExclude, TmpWritten, StateFileLoadable, TypeOK, Savers
<1>5. SavedHaveIds' /\ DownIsIdle'
  BY <1>1, <1>2 DEF SavedHaveIds, DownIsIdle, TypeOK, Savers, Running
<1>6. SnapshotCovers'
  BY <1>1, <1>2, <1>3 DEF SnapshotCovers, Saving, TypeOK
<1>7. SavedWhileRegistered'
  BY <1>1, <1>2 DEF SavedWhileRegistered, TypeOK
<1> QED BY <1>4, <1>5, <1>6, <1>7

\* The snapshot holds every client ID that is registered when it is taken.
LEMMA SnapshotKeeps ==
  ASSUME StateInv, TypeOK', NEW s \in Savers, SaveSnapshot(s)
  PROVE  StateInv'
<1> USE StateAssumption DEF StateInv, SaveSnapshot, regVars, fileVars
<1>1. \A t \in Savers : ~Saving(t)
  BY DEF SavesExclude, Savers
<1>2. \A t \in Savers : Saving(t)' => t = s
  BY <1>1 DEF Saving, TypeOK
<1>3. SavesExclude' /\ TmpWritten' /\ StateFileLoadable'
  BY <1>1, <1>2 DEF SavesExclude, TmpWritten, StateFileLoadable, Saving, TypeOK
<1>4. SavedHaveIds' /\ DownIsIdle'
  BY DEF SavedHaveIds, DownIsIdle, TypeOK, Running
<1>5. \A r \in Regs : Registered(r)' => rid'[r] \in snapshot'[s]
  <2> SUFFICES ASSUME NEW r \in Regs, Registered(r)' PROVE rid'[r] \in RegisteredIds
    BY DEF TypeOK
  <2> QED BY DEF Registered, RegisteredIds, TypeOK
<1>6. SnapshotCovers' /\ SavedWhileRegistered'
  BY <1>2, <1>5 DEF SnapshotCovers, SavedWhileRegistered, Registered
<1> QED BY <1>3, <1>4, <1>6

\* A save that fails gives the lock back and changes no file but the temporary
\* one.
LEMMA FailedSaveKeeps ==
  ASSUME StateInv, TypeOK', NEW s \in Savers, Saving(s), SaveReturns(s),
         UNCHANGED <<regVars, stateFile, durable, phase>>
  PROVE  StateInv'
<1> USE StateAssumption DEF StateInv, SaveReturns, regVars
<1>1. \A t \in Savers : ~Saving(t)' /\ (saver'[t] # "off" => saver[t] # "off")
  BY DEF SavesExclude, Saving, TypeOK
<1>2. SavesExclude' /\ TmpWritten' /\ StateFileLoadable' /\ SnapshotCovers'
  BY <1>1 DEF SavesExclude, TmpWritten, StateFileLoadable, SnapshotCovers, Saving
<1>3. SavedHaveIds' /\ DownIsIdle'
  BY <1>1 DEF SavedHaveIds, DownIsIdle, Savers
<1>4. SavedWhileRegistered'
  BY DEF SavedWhileRegistered, Registered
<1> QED BY <1>2, <1>3, <1>4

\* A step of the goroutine that holds the lock, between its snapshot and its
\* rename, in which only the temporary file changes.
LEMMA WritingKeeps ==
  ASSUME StateInv, TypeOK', NEW s \in Savers, Saving(s),
         NEW p \in {"encode", "rename"}, saver' = [saver EXCEPT ![s] = p],
         p = "rename" => tmpFile' = Complete(snapshot[s]),
         UNCHANGED <<regVars, saveMu, snapshot, stateFile, durable, phase>>
  PROVE  StateInv'
<1> USE StateAssumption DEF StateInv, regVars
<1>1. \A t \in Savers : t # s => ~Saving(t) /\ ~Saving(t)'
  BY DEF SavesExclude, Saving, TypeOK
<1>2. SavesExclude' /\ TmpWritten' /\ StateFileLoadable'
  BY <1>1 DEF SavesExclude, TmpWritten, StateFileLoadable, Saving, TypeOK
<1>3. SavedHaveIds' /\ DownIsIdle'
  BY DEF SavedHaveIds, DownIsIdle, Savers, Saving, TypeOK
<1>4. SnapshotCovers' /\ SavedWhileRegistered'
  BY <1>1 DEF SnapshotCovers, SavedWhileRegistered, Registered
<1> QED BY <1>2, <1>3, <1>4

\* The rename puts a complete state in place that misses no saved registration.
LEMMA RenameKeeps ==
  ASSUME StateInv, TypeOK', NEW s \in Savers, SaveRename(s, TRUE)
  PROVE  StateInv'
<1> USE StateAssumption DEF StateInv, SaveRename, SaveReturns, regVars
<1>1. Saving(s) /\ stateFile' = Complete(snapshot[s])
  BY DEF TmpWritten, Saving
<1>2. \A t \in Savers : ~Saving(t)' /\ (saver'[t] # "off" => saver[t] # "off")
  BY <1>1 DEF SavesExclude, Saving, TypeOK
<1>3. SavesExclude' /\ TmpWritten' /\ SnapshotCovers'
  BY <1>2 DEF SavesExclude, TmpWritten, SnapshotCovers, Saving
<1>4. StateFileLoadable'
  BY <1>1, FileTypes DEF StateFileLoadable
<1>5. SavedHaveIds' /\ DownIsIdle'
  BY <1>2 DEF SavedHaveIds, DownIsIdle, Savers, Running
<1>6. SavedWhileRegistered'
  <2> SUFFICES ASSUME NEW r \in durable', Registered(r)' PROVE rid[r] \in snapshot[s]
    BY <1>1, FileTypes DEF SavedWhileRegistered
  <2>1. r \in Regs /\ (r \in durable \/ r = s) /\ Registered(r)
    BY DEF Registered, TypeOK
  <2> QED BY <1>1, <2>1 DEF SnapshotCovers
<1> QED BY <1>3, <1>4, <1>5, <1>6

\* Neither the loss of the process, orderly or not, nor loading the file
\* disturbs what is on disk.
LEMMA ProcessKeeps ==
  ASSUME StateInv, TypeOK', ProcessEnds \/ \E f \in [Ids -> Regs] : Restart(f)
  PROVE  StateInv'
<1> USE StateAssumption DEF StateInv
<1>1. \A s \in Savers : saver'[s] = "off"
  BY DEF ProcessEnds, Restart, DownIsIdle, saveVars
<1>2. durable' = {} /\ stateFile' = stateFile
  BY DEF ProcessEnds, Restart, DownIsIdle, saveVars, fileVars
<1>3. SavesExclude' /\ TmpWritten' /\ SavedHaveIds' /\ SnapshotCovers' /\ DownIsIdle'
  BY <1>1, <1>2 DEF SavesExclude, TmpWritten, SavedHaveIds, SnapshotCovers, DownIsIdle, Saving, Savers
<1>4. StateFileLoadable' /\ SavedWhileRegistered'
  BY <1>2 DEF StateFileLoadable, SavedWhileRegistered
<1> QED BY <1>3, <1>4

\* Every step keeps the invariant.
LEMMA StateNext ==
  ASSUME StateInv, [Next]_vars
  PROVE  StateInv'
<1>1. TypeOK /\ TypeOK'
  BY TypeNext DEF StateInv
<1>2. ASSUME NEW i \in Ids, NEW r \in Regs, Register(i, r) PROVE StateInv'
  BY <1>1, <1>2, RegisterKeeps
<1>3. ASSUME NEW r \in Regs,
             (\E k \in {"mux", "quic"} : Attach(r, k)) \/ QuicReleased(r) \/ Cancel(r)
               \/ MonitorExit(r) \/ MonitorExpire(r)
      PROVE  StateInv'
  <2>1. UNCHANGED <<saveVars, clients, rid>> /\ phase' # "down"
    BY <1>3 DEF Attach, QuicReleased, Cancel, MonitorExit, MonitorExpire, Running
  <2> QED BY <1>1, <2>1, TeardownKeeps DEF Registered
<1>4. ASSUME NEW r \in Regs, Reap(r) \/ CarrierLost(r) \/ MonitorForget(r) PROVE StateInv'
  <2>1. Forget(r) /\ UNCHANGED <<saveVars, rid>> /\ phase' # "down"
    BY <1>4 DEF Reap, CarrierLost, MonitorForget, Running
  <2>2. \A q \in Regs : Registered(q)' => Registered(q)
    BY <1>1, <2>1, StateAssumption DEF Forget, Registered, TypeOK
  <2> QED BY <1>1, <2>1, <2>2, TeardownKeeps
<1>5. ASSUME NEW s \in Savers, SaveSnapshot(s) PROVE StateInv'
  BY <1>1, <1>5, SnapshotKeeps
<1>6. ASSUME NEW s \in Savers, NEW ok \in BOOLEAN, SaveOpen(s, ok) PROVE StateInv'
  <2>1. CASE ok
    BY <1>1, <1>6, <2>1, WritingKeeps DEF SaveOpen, Saving
  <2>2. CASE ~ok
    BY <1>1, <1>6, <2>2, FailedSaveKeeps DEF SaveOpen, Saving
  <2> QED BY <2>1, <2>2
<1>7. ASSUME NEW s \in Savers, NEW ok \in BOOLEAN, SaveEncode(s, ok) PROVE StateInv'
  <2>1. CASE ok
    BY <1>1, <1>7, <2>1, WritingKeeps DEF SaveEncode, Saving
  <2>2. CASE ~ok
    BY <1>1, <1>7, <2>2, FailedSaveKeeps DEF SaveEncode, Saving
  <2> QED BY <2>1, <2>2
<1>8. ASSUME NEW s \in Savers, NEW ok \in BOOLEAN, SaveRename(s, ok) PROVE StateInv'
  <2>1. CASE ok = TRUE
    BY <1>1, <1>8, <2>1, RenameKeeps
  <2>2. CASE ok = FALSE
    BY <1>1, <1>8, <2>2, FailedSaveKeeps DEF SaveRename, Saving
  <2> QED BY <2>1, <2>2
<1>9. CASE CloseShutdown \/ CancelClients
  <2>1. UNCHANGED <<saveVars, clients, rid>> /\ phase' # "down"
    BY <1>9 DEF CloseShutdown, CancelClients, regVars
  <2> QED BY <1>1, <2>1, TeardownKeeps DEF Registered
<1>10. CASE WaitGroupDone
  <2> USE StateAssumption, <1>10 DEF WaitGroupDone, StateInv, regVars, fileVars
  <2>1. \A s \in Savers : Saving(s)' => Saving(s)
    BY <1>1 DEF Saving, TypeOK
  <2>2. SavesExclude' /\ TmpWritten' /\ StateFileLoadable' /\ DownIsIdle'
    BY <1>1, <2>1 DEF SavesExclude, TmpWritten, StateFileLoadable, DownIsIdle, TypeOK
  <2>3. SavedHaveIds'
    BY <1>1 DEF SavedHaveIds, TypeOK, Savers
  <2>4. SnapshotCovers' /\ SavedWhileRegistered'
    BY <2>1 DEF SnapshotCovers, SavedWhileRegistered, Registered
  <2> QED BY <1>1, <2>2, <2>3, <2>4
<1>11. CASE ProcessEnds \/ \E f \in [Ids -> Regs] : Restart(f)
  BY <1>1, <1>11, ProcessKeeps
<1>12. CASE UNCHANGED vars
  <2>1. CASE phase = "down"
    <3>1. \A s \in Savers : saver'[s] = "off"
      BY <1>12, <2>1 DEF StateInv, DownIsIdle, vars, saveVars
    <3> QED BY <1>1, <1>12, <2>1, <3>1 DEF vars, saveVars, regVars, StateInv, SavesExclude, TmpWritten,
               SavedHaveIds, SnapshotCovers, DownIsIdle, StateFileLoadable, SavedWhileRegistered,
               Saving, Registered, Savers
  <2>2. CASE phase # "down"
    BY <1>1, <1>12, <2>2, TeardownKeeps DEF vars, regVars, Registered
  <2> QED BY <2>1, <2>2
<1> QED BY <1>2, <1>3, <1>4, <1>5, <1>6, <1>7, <1>8, <1>9, <1>10, <1>11, <1>12, NextCases

--------------------------------------------------------------------------------
\* The inductive invariant of saveServerState, loadServerState, shutdown and
\* crashes.
THEOREM StateInvariant == Spec => []StateInv
<1>1. Init => StateInv
  BY StateInit
<1>2. StateInv /\ [Next]_vars => StateInv'
  BY StateNext
<1> QED BY <1>1, <1>2, PTL DEF Spec

\* Every reachable state is well typed.
THEOREM TypeCorrect == Spec => []TypeOK
<1>1. StateInv => TypeOK
  BY DEF StateInv
<1> QED BY <1>1, StateInvariant, PTL

\* The state file always decodes, whatever crashed and whoever saved at the
\* same time (saveServerState).
THEOREM FileLoadable == Spec => []StateFileLoadable
<1>1. StateInv => StateFileLoadable
  BY DEF StateInv
<1> QED BY <1>1, StateInvariant, PTL

\* No save, concurrent or later, takes a registration that was saved and still
\* is registered out of the state file (saveServerState).
THEOREM SavedStays == Spec => []SavedWhileRegistered
<1>1. StateInv => SavedWhileRegistered
  BY DEF StateInv
<1> QED BY <1>1, StateInvariant, PTL
================================================================================
