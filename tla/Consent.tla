-------------------------------- MODULE Consent ---------------------------------
(***************************************************************************)
(* The data plane of consentConn (cmd/p2p/consent.go): one direction of    *)
(* the sealed, acknowledged, replay-protected record layer that P2P tunnel *)
(* frames travel in, over a datagram network that loses, duplicates,       *)
(* delays and reorders.                                                    *)
(*                                                                         *)
(* Reliable is the mode of two peers with different labels, the only one   *)
(* the runtime uses: a Write holds sendMu until its record is acknowledged *)
(* and closes the connection when the retries are used up.  Otherwise      *)
(* (newConsentConn, both labels "shared") Write returns after the first    *)
(* transmission and a goroutine retransmits.                               *)
(*                                                                         *)
(* The network keeps every datagram ever sent: one that is never read was  *)
(* lost, one read again was duplicated.  Encryption appears as what it     *)
(* guarantees: the receiver opens only records this sender sealed.         *)
(***************************************************************************)
EXTENDS Naturals, Sequences, FiniteSets

CONSTANTS
  Writes,      \* Write calls on the connection, each with its own record
  Reliable,    \* sendLabel # receiveLabel
  Window,      \* consentReplayWindowBits
  Retries,     \* consentDataRetries
  MaxPending,  \* maxConsentDataPending
  None

ASSUME ConsentAssumption ==
  /\ Reliable \in BOOLEAN
  /\ Window \in Nat \ {0}
  /\ Retries \in Nat
  /\ MaxPending \in Nat \ {0}
  /\ None \notin Writes

VARIABLES
  \* the sending consentConn
  sealed,       \* records in the order of their sequence numbers; sendSeq = Len(sealed)
  seq,          \* sequence number of each Write's record, 0 before it is sealed
  pc,           \* each Write and, in shared mode, its retransmitter
  attempt,      \* transmissions of each record that timed out
  result,       \* what each Write returned
  sendMu,       \* holder of sendMu
  pendingData,  \* sequence numbers with a registered waiter
  acked,        \* sequence numbers whose waiter channel is closed
  senderOpen,   \* ~done
  \* the network
  data,         \* consentData datagrams sent so far
  acks,         \* sequence numbers of the consentDataAck datagrams sent so far
  \* the receiving consentConn
  recvHighest, recvWindow, recvNext, recvPending,
  delivered,    \* records Read returned to the tunnel
  receiverOpen

senderVars == <<sealed, seq, pc, attempt, result, sendMu, pendingData, acked, senderOpen>>
networkVars == <<data, acks>>
receiverVars == <<recvHighest, recvWindow, recvNext, recvPending, delivered, receiverOpen>>
vars == <<senderVars, networkVars, receiverVars>>

SeqNos == Nat \ {0}
Packets == [seq : SeqNos, rec : Writes]

TypeOK ==
  /\ sealed \in Seq(Writes)
  /\ seq \in [Writes -> Nat]
  /\ pc \in [Writes -> {"idle", "sealed", "send", "wait", "done"}]
  /\ attempt \in [Writes -> 0..Retries]
  /\ result \in [Writes -> {"none", "ok", "error"}]
  /\ sendMu \in Writes \cup {None}
  /\ pendingData \subseteq SeqNos
  /\ acked \subseteq SeqNos
  /\ senderOpen \in BOOLEAN
  /\ data \subseteq Packets
  /\ acks \subseteq SeqNos
  /\ recvHighest \in Nat
  /\ recvWindow \subseteq SeqNos
  /\ recvNext \in SeqNos
  /\ recvPending \subseteq Packets
  /\ delivered \in Seq(Writes)
  /\ receiverOpen \in BOOLEAN

Init ==
  /\ sealed = << >>
  /\ seq = [w \in Writes |-> 0]
  /\ pc = [w \in Writes |-> "idle"]
  /\ attempt = [w \in Writes |-> 0]
  /\ result = [w \in Writes |-> "none"]
  /\ sendMu = None
  /\ pendingData = {}
  /\ acked = {}
  /\ senderOpen = TRUE
  /\ data = {}
  /\ acks = {}
  /\ recvHighest = 0
  /\ recvWindow = {}
  /\ recvNext = 1
  /\ recvPending = {}
  /\ delivered = << >>
  /\ receiverOpen = TRUE

--------------------------------------------------------------------------------
(* The sender: Write, writeReliableData, retransmitData.                   *)

\* Several Writes have records in flight although the connection is reliable.
MutantSealUnlocked(w) ==
  /\ pc[w] = "idle"
  /\ sendMu' = w
  /\ sealed' = Append(sealed, w)
  /\ seq' = [seq EXCEPT ![w] = Len(sealed) + 1]
  /\ pc' = [pc EXCEPT ![w] = "sealed"]
  /\ UNCHANGED <<attempt, result, pendingData, acked, senderOpen, networkVars, receiverVars>>

\* Lock sendMu (reliable mode) and seal the record under the next number.
Seal(w) ==
  /\ pc[w] = "idle"
  /\ IF Reliable THEN sendMu = None /\ sendMu' = w ELSE UNCHANGED sendMu
  /\ sealed' = Append(sealed, w)
  /\ seq' = [seq EXCEPT ![w] = Len(sealed) + 1]
  /\ pc' = [pc EXCEPT ![w] = "sealed"]
  /\ UNCHANGED <<attempt, result, pendingData, acked, senderOpen, networkVars, receiverVars>>

\* The Write or its retransmitter ends: the waiter is removed and sendMu
\* released.  A result already returned stands.
Finish(w, r) ==
  /\ pc' = [pc EXCEPT ![w] = "done"]
  /\ result' = [result EXCEPT ![w] = IF @ = "none" THEN r ELSE @]
  /\ sendMu' = IF sendMu = w THEN None ELSE sendMu
  /\ pendingData' = pendingData \ {seq[w]}

\* Register the waiter, unless too many records wait; the number of a record
\* refused here stays used.
Enqueue(w) ==
  /\ pc[w] = "sealed"
  /\ Cardinality(pendingData) < MaxPending
  /\ pendingData' = pendingData \cup {seq[w]}
  /\ pc' = [pc EXCEPT ![w] = "send"]
  /\ UNCHANGED <<sealed, seq, attempt, result, sendMu, acked, senderOpen, networkVars,
                 receiverVars>>

TooManyPending(w) ==
  /\ pc[w] = "sealed"
  /\ Cardinality(pendingData) >= MaxPending
  /\ Finish(w, "error")
  /\ UNCHANGED <<sealed, seq, attempt, acked, senderOpen, networkVars, receiverVars>>

\* writeRecord succeeds.  A shared Write returns now, and its retransmitter
\* ends after its last transmission without waiting for an answer.
Transmit(w) ==
  /\ pc[w] = "send"
  /\ senderOpen
  /\ data' = data \cup {[seq |-> seq[w], rec |-> w]}
  /\ IF ~Reliable /\ attempt[w] = Retries
     THEN Finish(w, "ok")
     ELSE /\ pc' = [pc EXCEPT ![w] = "wait"]
          /\ result' = IF Reliable THEN result ELSE [result EXCEPT ![w] = "ok"]
          /\ UNCHANGED <<sendMu, pendingData>>
  /\ UNCHANGED <<sealed, seq, attempt, acked, senderOpen, acks, receiverVars>>

\* writeRecord fails: the socket is closed or the datagram is refused.
TransmitFails(w) ==
  /\ pc[w] = "send"
  /\ Finish(w, "error")
  /\ senderOpen' = (senderOpen /\ ~Reliable)
  /\ UNCHANGED <<sealed, seq, attempt, acked, networkVars, receiverVars>>

\* The waiter was closed by Read.
Acknowledged(w) ==
  /\ pc[w] = "wait"
  /\ seq[w] \in acked
  /\ Finish(w, "ok")
  /\ UNCHANGED <<sealed, seq, attempt, acked, senderOpen, networkVars, receiverVars>>

\* The connection was closed while the Write waited.
Interrupted(w) ==
  /\ pc[w] = "wait"
  /\ ~senderOpen
  /\ Finish(w, "error")
  /\ UNCHANGED <<sealed, seq, attempt, acked, senderOpen, networkVars, receiverVars>>

\* The retry timer fires and an attempt is left.
Retry(w) ==
  /\ pc[w] = "wait"
  /\ attempt[w] < Retries
  /\ attempt' = [attempt EXCEPT ![w] = @ + 1]
  /\ pc' = [pc EXCEPT ![w] = "send"]
  /\ UNCHANGED <<sealed, seq, result, sendMu, pendingData, acked, senderOpen, networkVars,
                 receiverVars>>

\* Giving up ends the Write but never returns to the caller's lock.
MutantGiveUpLocked(w) ==
  /\ pc[w] = "wait"
  /\ Reliable
  /\ attempt[w] = Retries
  /\ pc' = [pc EXCEPT ![w] = "done"]
  /\ result' = [result EXCEPT ![w] = "error"]
  /\ pendingData' = pendingData \ {seq[w]}
  /\ senderOpen' = FALSE
  /\ UNCHANGED <<sealed, seq, attempt, sendMu, acked, networkVars, receiverVars>>

\* It fires after the last one: the reliable Write closes the connection.
GiveUp(w) ==
  /\ pc[w] = "wait"
  /\ Reliable
  /\ attempt[w] = Retries
  /\ Finish(w, "error")
  /\ senderOpen' = FALSE
  /\ UNCHANGED <<sealed, seq, attempt, acked, networkVars, receiverVars>>

\* An acknowledgement wakes whoever waits, whatever number it carries.
MutantAckAny(s) ==
  /\ senderOpen
  /\ s \in acks
  /\ acked' = acked \cup pendingData
  /\ pendingData' = {}
  /\ UNCHANGED <<sealed, seq, pc, attempt, result, sendMu, senderOpen, networkVars,
                 receiverVars>>

\* The sender's own Read handles a consentDataAck: only a registered waiter
\* is closed, and only once.
ReadAck(s) ==
  /\ senderOpen
  /\ s \in acks \cap pendingData
  /\ acked' = acked \cup {s}
  /\ pendingData' = pendingData \ {s}
  /\ UNCHANGED <<sealed, seq, pc, attempt, result, sendMu, senderOpen, networkVars,
                 receiverVars>>

\* Close from the tunnel, the session or the consent monitor.
CloseSender ==
  /\ senderOpen
  /\ senderOpen' = FALSE
  /\ UNCHANGED <<sealed, seq, pc, attempt, result, sendMu, pendingData, acked, networkVars,
                 receiverVars>>

--------------------------------------------------------------------------------
(* The receiver: Read, openData.                                           *)

\* openData's replay check.
Fresh(s) ==
  \/ s > recvHighest
  \/ recvHighest - s < Window /\ s \notin recvWindow

\* openData marks the number; the window slides with the highest one.
MarkReceived(s) ==
  LET highest == IF s > recvHighest THEN s ELSE recvHighest
  IN /\ recvHighest' = highest
     /\ recvWindow' = {q \in recvWindow \cup {s} : highest - q < Window}

\* Read looks at the buffered records first and only then at the socket.
ReadsSocket == receiverOpen /\ \A p \in recvPending : p.seq # recvNext

\* The next record was buffered when it arrived ahead of its turn.
ReadBuffered(p) ==
  /\ receiverOpen
  /\ p \in recvPending
  /\ p.seq = recvNext
  /\ recvPending' = recvPending \ {p}
  /\ recvNext' = recvNext + 1
  /\ delivered' = Append(delivered, p.rec)
  /\ UNCHANGED <<senderVars, networkVars, recvHighest, recvWindow, receiverOpen>>

\* errConsentReplay: dropped, but acknowledged for a sender that missed the
\* first acknowledgement.
ReadReplay(p) ==
  /\ ReadsSocket
  /\ p \in data
  /\ ~Fresh(p.seq)
  /\ acks' = acks \cup {p.seq}
  /\ UNCHANGED <<senderVars, data, receiverVars>>

ReadNext(p) ==
  /\ ReadsSocket
  /\ p \in data
  /\ Fresh(p.seq)
  /\ p.seq = recvNext
  /\ MarkReceived(p.seq)
  /\ recvNext' = recvNext + 1
  /\ delivered' = Append(delivered, p.rec)
  /\ acks' = acks \cup {p.seq}
  /\ UNCHANGED <<senderVars, data, recvPending, receiverOpen>>

\* Records ahead of their turn are handed up as they come.
MutantReadAhead(p) ==
  /\ ReadsSocket
  /\ p \in data
  /\ Fresh(p.seq)
  /\ p.seq > recvNext /\ p.seq - recvNext < Window
  /\ MarkReceived(p.seq)
  /\ delivered' = Append(delivered, p.rec)
  /\ acks' = acks \cup {p.seq}
  /\ UNCHANGED <<senderVars, data, recvNext, recvPending, receiverOpen>>

\* The buffer takes whatever is ahead.
MutantReadAheadUnbounded(p) ==
  /\ ReadsSocket
  /\ p \in data
  /\ Fresh(p.seq)
  /\ p.seq > recvNext
  /\ MarkReceived(p.seq)
  /\ recvPending' = recvPending \cup {p}
  /\ acks' = acks \cup {p.seq}
  /\ UNCHANGED <<senderVars, data, recvNext, delivered, receiverOpen>>

ReadAhead(p) ==
  /\ ReadsSocket
  /\ p \in data
  /\ Fresh(p.seq)
  /\ p.seq > recvNext /\ p.seq - recvNext < Window
  /\ MarkReceived(p.seq)
  /\ recvPending' = recvPending \cup {p}
  /\ acks' = acks \cup {p.seq}
  /\ UNCHANGED <<senderVars, data, recvNext, delivered, receiverOpen>>

\* A record behind its turn or too far ahead is neither kept nor acknowledged.
ReadDropped(p) ==
  /\ ReadsSocket
  /\ p \in data
  /\ Fresh(p.seq)
  /\ p.seq < recvNext \/ p.seq >= recvNext + Window
  /\ MarkReceived(p.seq)
  /\ UNCHANGED <<senderVars, networkVars, recvNext, recvPending, delivered, receiverOpen>>

CloseReceiver ==
  /\ receiverOpen
  /\ receiverOpen' = FALSE
  /\ UNCHANGED <<senderVars, networkVars, recvHighest, recvWindow, recvNext, recvPending,
                 delivered>>

--------------------------------------------------------------------------------
WriteStep(w) ==
  \/ Seal(w) \/ Enqueue(w) \/ TooManyPending(w) \/ Transmit(w) \/ TransmitFails(w)
  \/ Acknowledged(w) \/ Interrupted(w) \/ Retry(w) \/ GiveUp(w)

ReadStep(p) ==
  \/ ReadBuffered(p) \/ ReadReplay(p) \/ ReadNext(p) \/ ReadAhead(p) \/ ReadDropped(p)

Next ==
  \/ \E w \in Writes : WriteStep(w)
  \/ \E s \in acks : ReadAck(s)
  \/ \E p \in data \cup recvPending : ReadStep(p)
  \/ CloseSender \/ CloseReceiver

Spec == Init /\ [][Next]_vars

\* Writes and retransmitters run and their timers fire; nothing is assumed of
\* the network or of the peer.
FairSpec == Spec /\ \A w \in Writes : WF_vars(WriteStep(w))

--------------------------------------------------------------------------------
(* Properties.                                                             *)

\* The tunnel at the far end reads the records in the order they were sealed,
\* each once and none skipped, in both modes: neither the retransmissions, the
\* reordering nor the out-of-order buffer of Read shows.
InOrderOnce ==
  /\ Len(delivered) <= Len(sealed)
  /\ \A i \in 1..Len(delivered) : delivered[i] = sealed[i]

\* A reliable Write reports success only when the peer's Read returned its
\* record: an acknowledgement that is late, repeated, or was answered to a
\* replay never confirms another record.
ConfirmedIsReceived ==
  Reliable => \A w \in Writes :
    result[w] = "ok" => \E i \in 1..Len(delivered) : delivered[i] = w

\* A reliable Write that fails ends the connection, so no later record can
\* follow a missing one (writeReliableData closes on error and on timeout, and
\* the pending limit is never what refuses a record).
FailedWriteCloses ==
  Reliable => \A w \in Writes : result[w] = "error" => ~senderOpen

\* The sender is never more than one record ahead of what the peer's tunnel
\* has read while the connection lives, so Read never has to buffer or drop a
\* record of a reliable peer.
OneInFlight == Reliable /\ senderOpen => Len(sealed) <= Len(delivered) + 1

\* What InOrderOnce rests on.  A Write that took sendSeq has its record there ...
RecordsNumbered ==
  /\ \A w \in Writes : pc[w] = "idle" => seq[w] = 0
  /\ \A w \in Writes : pc[w] # "idle" => seq[w] \in 1..Len(sealed) /\ sealed[seq[w]] = w
  /\ \A i \in 1..Len(sealed) : seq[sealed[i]] = i

\* ... and a datagram, on the wire or buffered, carries the record of its number.
PacketsGenuine ==
  \A p \in data \cup recvPending : p.seq \in 1..Len(sealed) /\ sealed[p.seq] = p.rec

\* The inductive invariant of both modes: retransmission, duplication and the
\* reorder buffer of Read keep numbers and records together.
RecordsInv ==
  /\ TypeOK
  /\ RecordsNumbered
  /\ PacketsGenuine
  /\ recvNext = Len(delivered) + 1
  /\ InOrderOnce

\* What the reliable mode adds.  The Write that holds sendMu is the only one
\* under way and has the last number ...
Active(w) == pc[w] \in {"sealed", "send", "wait"}

OneActive ==
  /\ \A w \in Writes : Active(w) => sendMu = w /\ seq[w] = Len(sealed)
  /\ \A w \in Writes : result[w] = "none" <=> pc[w] # "done"
  /\ \A s \in pendingData :
       s = Len(sealed) /\ sendMu \in Writes /\ pc[sendMu] \in {"send", "wait"}

\* ... a record is on the wire only after every earlier Write was confirmed ...
PredecessorsConfirmed ==
  \A p \in data : \A i \in 1..Len(sealed) : i < p.seq => result[sealed[i]] = "ok"

\* ... and the receiver has marked and acknowledged exactly what it delivered.
ReceivedExactly ==
  /\ recvHighest = Len(delivered)
  /\ recvWindow = {q \in 1..Len(delivered) : Len(delivered) - q < Window}
  /\ recvPending = {}
  /\ acks \cup acked \subseteq 1..Len(delivered)
  /\ \A w \in Writes : result[w] = "ok" => seq[w] \in 1..Len(delivered)

\* The inductive invariant of the reliable mode: writeReliableData keeps sendMu
\* until its record is confirmed, and closes the connection if it is not.
ReliableInv ==
  Reliable => /\ RecordsInv
              /\ OneActive
              /\ PredecessorsConfirmed
              /\ ReceivedExactly
              /\ FailedWriteCloses

\* Read keeps fewer records waiting than the replay window is wide, whatever
\* the peer sends.
BufferBounded == Cardinality(recvPending) < Window

\* Every Write returns: it is acknowledged, it gives up or the connection is
\* closed, and none of them leaves sendMu locked.
WriteReturns == \A w \in Writes : <>(result[w] # "none")

\* A reliable consentConn implements RecordPipe.
Pipe == INSTANCE RecordPipe
          WITH offered <- sealed, received <- delivered,
               confirmed <- {w \in Writes : result[w] = "ok"}

\* The reliable record layer refines the ordered pipe of confirmed records,
\* over every loss, duplication and reordering of datagrams.
ImplementsPipe == Pipe!Spec

================================================================================
