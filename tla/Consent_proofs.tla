----------------------------- MODULE Consent_proofs -----------------------------
(***************************************************************************)
(* Proofs about Consent for any number of Writes, any replay window, any   *)
(* number of retries and any limit on pending records: in both modes the   *)
(* peer reads the sealed records in order and buffers no more than the     *)
(* window, and the reliable mode implements RecordPipe.                    *)
(***************************************************************************)
EXTENDS Consent, FiniteSetTheorems, TLAPS

\* Case split over the next-state relation, one case per operation of the code.
LEMMA NextCases ==
  ASSUME [Next]_vars
  PROVE  \/ \E w \in Writes : Seal(w)
         \/ \E w \in Writes : Enqueue(w)
         \/ \E w \in Writes : TooManyPending(w)
         \/ \E w \in Writes : Transmit(w)
         \/ \E w \in Writes : TransmitFails(w)
         \/ \E w \in Writes : Acknowledged(w)
         \/ \E w \in Writes : Interrupted(w)
         \/ \E w \in Writes : Retry(w)
         \/ \E w \in Writes : GiveUp(w)
         \/ \E s \in acks : ReadAck(s)
         \/ \E p \in data \cup recvPending : ReadBuffered(p)
         \/ \E p \in data \cup recvPending : ReadReplay(p)
         \/ \E p \in data \cup recvPending : ReadNext(p)
         \/ \E p \in data \cup recvPending : ReadAhead(p)
         \/ \E p \in data \cup recvPending : ReadDropped(p)
         \/ CloseSender
         \/ CloseReceiver
         \/ UNCHANGED vars
  BY Zenon DEF Next, WriteStep, ReadStep

--------------------------------------------------------------------------------
(* Both modes: RecordsInv.                                                 *)

\* A new connection has numbered, sent and delivered nothing.
LEMMA RecordsInit == Init => RecordsInv
<1> SUFFICES ASSUME Init PROVE RecordsInv
  OBVIOUS
<1>1. TypeOK
  BY ConsentAssumption DEF Init, TypeOK, SeqNos, Packets
<1>2. RecordsNumbered /\ PacketsGenuine /\ recvNext = Len(delivered) + 1 /\ InOrderOnce
  BY DEF Init, RecordsNumbered, PacketsGenuine, InOrderOnce
<1> QED BY <1>1, <1>2 DEF RecordsInv

\* A sealed record has a positive number.
LEMMA SealedNumber ==
  ASSUME TypeOK, RecordsNumbered, NEW w \in Writes, pc[w] # "idle"
  PROVE  /\ seq[w] \in 1..Len(sealed)
         /\ sealed[seq[w]] = w
         /\ seq[w] \in Nat \ {0}
<1>1. Len(sealed) \in Nat
  BY DEF TypeOK
<1>2. seq[w] \in 1..Len(sealed) /\ sealed[seq[w]] = w
  BY DEF RecordsNumbered
<1> QED BY <1>1, <1>2

\* Every operation of either end, and every choice of the network, keeps the
\* state well typed.
LEMMA TypeNext ==
  ASSUME TypeOK, RecordsNumbered, [Next]_vars
  PROVE  TypeOK'
<1> USE ConsentAssumption DEF TypeOK, SeqNos, Packets
<1>1. ASSUME NEW w \in Writes, Seal(w) PROVE TypeOK'
  BY <1>1 DEF Seal, networkVars, receiverVars
<1>2. ASSUME NEW w \in Writes, Enqueue(w) PROVE TypeOK'
  <2>1. seq[w] \in Nat \ {0}
    <3>1. pc[w] # "idle"
      BY <1>2 DEF Enqueue
    <3> QED BY <3>1, SealedNumber
  <2> QED BY <1>2, <2>1 DEF Enqueue, networkVars, receiverVars
<1>3. ASSUME NEW w \in Writes, NEW r \in {"ok", "error"}, Finish(w, r)
      PROVE  /\ pc' \in [Writes -> {"idle", "sealed", "send", "wait", "done"}]
             /\ result' \in [Writes -> {"none", "ok", "error"}]
             /\ sendMu' \in Writes \cup {None}
             /\ pendingData' \subseteq Nat \ {0}
  BY <1>3 DEF Finish
<1>4. ASSUME NEW w \in Writes, TooManyPending(w) \/ Interrupted(w) PROVE TypeOK'
  BY <1>4, <1>3 DEF TooManyPending, Interrupted, networkVars, receiverVars
<1>5. ASSUME NEW w \in Writes, Transmit(w) PROVE TypeOK'
  <2>1. seq[w] \in Nat \ {0}
    <3>1. pc[w] # "idle"
      BY <1>5 DEF Transmit
    <3> QED BY <3>1, SealedNumber
  <2>2. data' \subseteq [seq : Nat \ {0}, rec : Writes]
    BY <1>5, <2>1 DEF Transmit
  <2>3. CASE ~Reliable /\ attempt[w] = Retries
    <3>1. Finish(w, "ok")
      BY <1>5, <2>3 DEF Transmit
    <3> QED BY <1>5, <1>3, <2>2, <3>1 DEF Transmit, receiverVars
  <2>4. CASE ~(~Reliable /\ attempt[w] = Retries)
    BY <1>5, <2>2, <2>4 DEF Transmit, receiverVars
  <2> QED BY <2>3, <2>4
<1>6. ASSUME NEW w \in Writes, TransmitFails(w) \/ GiveUp(w) PROVE TypeOK'
  BY <1>6, <1>3 DEF TransmitFails, GiveUp, networkVars, receiverVars
<1>7. ASSUME NEW w \in Writes, Acknowledged(w) PROVE TypeOK'
  BY <1>7, <1>3 DEF Acknowledged, networkVars, receiverVars
<1>8. ASSUME NEW w \in Writes, Retry(w) PROVE TypeOK'
  <2>1. attempt' \in [Writes -> 0..Retries]
    BY <1>8 DEF Retry
  <2>2. pc' \in [Writes -> {"idle", "sealed", "send", "wait", "done"}]
    BY <1>8 DEF Retry
  <2> QED BY <1>8, <2>1, <2>2 DEF Retry, networkVars, receiverVars
<1>9. ASSUME NEW s \in acks, ReadAck(s) PROVE TypeOK'
  BY <1>9 DEF ReadAck, networkVars, receiverVars
<1>10. ASSUME NEW p \in data \cup recvPending
       PROVE  p.seq \in Nat \ {0} /\ p.rec \in Writes
  BY <1>10
<1>11. ASSUME NEW p \in data \cup recvPending, MarkReceived(p.seq)
       PROVE  recvHighest' \in Nat /\ recvWindow' \subseteq Nat \ {0}
  <2> DEFINE highest == IF p.seq > recvHighest THEN p.seq ELSE recvHighest
  <2>1. highest \in Nat
    BY <1>10, <1>11
  <2>2. recvWindow \cup {p.seq} \subseteq Nat \ {0}
    BY <1>10, <1>11
  <2>3. /\ recvHighest' = highest
        /\ recvWindow' = {q \in recvWindow \cup {p.seq} : highest - q < Window}
    BY <1>11 DEF MarkReceived
  <2> QED BY <2>1, <2>2, <2>3
<1>12. ASSUME NEW p \in data \cup recvPending, ReadNext(p) PROVE TypeOK'
  <2>1. /\ MarkReceived(p.seq)
        /\ recvNext' = recvNext + 1
        /\ delivered' = Append(delivered, p.rec)
        /\ acks' = acks \cup {p.seq}
        /\ UNCHANGED <<senderVars, data, recvPending, receiverOpen>>
    BY <1>12 DEF ReadNext
  <2>2. recvHighest' \in Nat /\ recvWindow' \subseteq Nat \ {0}
    BY <1>11, <2>1
  <2>3. p.seq \in Nat \ {0} /\ p.rec \in Writes
    BY <1>10
  <2>4. delivered' \in Seq(Writes)
    BY <2>1, <2>3
  <2>5. acks' \subseteq Nat \ {0}
    BY <2>1, <2>3
  <2>6. recvNext' \in Nat \ {0}
    BY <2>1
  <2> QED BY <2>1, <2>2, <2>4, <2>5, <2>6 DEF senderVars
<1>13. ASSUME NEW p \in data \cup recvPending, ReadAhead(p) \/ ReadDropped(p) PROVE TypeOK'
  BY <1>13, <1>11 DEF ReadAhead, ReadDropped, senderVars, networkVars
<1>14. ASSUME CloseSender \/ CloseReceiver PROVE TypeOK'
  BY <1>14 DEF CloseSender, CloseReceiver, senderVars, networkVars, receiverVars
<1>15. ASSUME UNCHANGED vars PROVE TypeOK'
  BY <1>15 DEF vars, senderVars, networkVars, receiverVars
<1>16. ASSUME NEW p \in data \cup recvPending, ReadBuffered(p) PROVE TypeOK'
  BY SMTT(30), <1>16, <1>10 DEF ReadBuffered, senderVars, networkVars
<1>17. ASSUME NEW p \in data \cup recvPending, ReadReplay(p) PROVE TypeOK'
  BY <1>17, <1>10 DEF ReadReplay, senderVars, receiverVars
<1> QED BY NextCases, <1>1, <1>2, <1>4, <1>5, <1>6, <1>7, <1>8, <1>9, <1>12, <1>13,
           <1>14, <1>15, <1>16, <1>17

\* Sealing appends: the records that have a number keep it.
LEMMA SealNext ==
  ASSUME RecordsInv, NEW w \in Writes, Seal(w)
  PROVE  RecordsNumbered' /\ PacketsGenuine' /\ InOrderOnce'
<1> USE DEF RecordsInv, TypeOK
<1>1. /\ sealed' = Append(sealed, w)
      /\ seq' = [seq EXCEPT ![w] = Len(sealed) + 1]
      /\ pc' = [pc EXCEPT ![w] = "sealed"]
      /\ pc[w] = "idle"
      /\ UNCHANGED <<data, recvPending, delivered>>
  BY DEF Seal, networkVars, receiverVars
<1>2. /\ Len(sealed) \in Nat
      /\ Len(sealed') = Len(sealed) + 1
      /\ \A i \in 1..Len(sealed) : sealed'[i] = sealed[i]
      /\ sealed'[Len(sealed) + 1] = w
  BY <1>1
<1>3. \A i \in 1..Len(sealed) : sealed[i] \in Writes /\ sealed[i] # w
  <2>1. seq[w] = 0
    BY <1>1 DEF RecordsNumbered
  <2>2. \A i \in 1..Len(sealed) : seq[sealed[i]] = i
    BY Zenon DEF RecordsNumbered
  <2>3. \A i \in 1..Len(sealed) : i # 0
    BY <1>2
  <2>4. \A i \in 1..Len(sealed) : sealed[i] \in Writes
    BY <1>2
  <2> QED BY <2>1, <2>2, <2>3, <2>4
<1>4. RecordsNumbered'
  <2>1. \A v \in Writes : pc'[v] = "idle" => seq'[v] = 0
    BY <1>1 DEF RecordsNumbered
  <2>2. \A v \in Writes : pc'[v] # "idle" => seq'[v] \in 1..Len(sealed') /\ sealed'[seq'[v]] = v
    BY <1>1, <1>2 DEF RecordsNumbered
  <2>3. \A i \in 1..Len(sealed') : seq'[sealed'[i]] = i
    BY SMTT(30), <1>1, <1>2, <1>3 DEF RecordsNumbered
  <2> QED BY <2>1, <2>2, <2>3 DEF RecordsNumbered
<1>5. PacketsGenuine'
  BY <1>1, <1>2 DEF PacketsGenuine
<1>6. InOrderOnce'
  BY <1>1, <1>2 DEF InOrderOnce
<1> QED BY <1>4, <1>5, <1>6

\* Handing up the record whose turn it is extends the delivered prefix by one.
LEMMA DeliverNext ==
  ASSUME RecordsInv, NEW p \in data \cup recvPending, p.seq = recvNext,
         delivered' = Append(delivered, p.rec), recvNext' = recvNext + 1, sealed' = sealed
  PROVE  recvNext' = Len(delivered') + 1 /\ InOrderOnce'
<1> USE DEF RecordsInv, TypeOK
<1>1. p.seq \in 1..Len(sealed) /\ sealed[p.seq] = p.rec /\ p.rec \in Writes
  BY DEF PacketsGenuine, Packets
<1>2. /\ Len(delivered) \in Nat /\ Len(sealed) \in Nat
      /\ Len(delivered') = Len(delivered) + 1
      /\ \A i \in 1..Len(delivered) : delivered'[i] = delivered[i]
      /\ delivered'[Len(delivered) + 1] = p.rec
  BY <1>1
<1> QED BY SMTT(30), <1>1, <1>2 DEF InOrderOnce

\* The inductive step: whatever either end or the network does, numbers and
\* records stay together and what was delivered is a prefix of what was sealed.
LEMMA RecordsNext ==
  ASSUME RecordsInv, [Next]_vars
  PROVE  RecordsInv'
<1> USE DEF RecordsInv
<1>1. TypeOK'
  BY TypeNext
<1> DEFINE Rest == /\ RecordsNumbered
                   /\ PacketsGenuine
                   /\ recvNext = Len(delivered) + 1
                   /\ InOrderOnce
<1> SUFFICES Rest'
  BY <1>1
<1>2. ASSUME UNCHANGED <<sealed, seq>>, \A v \in Writes : pc'[v] = "idle" <=> pc[v] = "idle"
      PROVE  RecordsNumbered'
  BY <1>2 DEF RecordsNumbered
<1>3. ASSUME UNCHANGED <<sealed, delivered, recvNext>>
      PROVE  recvNext' = Len(delivered') + 1 /\ InOrderOnce'
  BY <1>3 DEF InOrderOnce
<1>4. ASSUME UNCHANGED sealed, data' \cup recvPending' \subseteq data \cup recvPending
      PROVE  PacketsGenuine'
  BY <1>4 DEF PacketsGenuine
<1>5. ASSUME NEW w \in Writes, Seal(w) PROVE Rest'
  <2>1. UNCHANGED <<delivered, recvNext>>
    BY <1>5 DEF Seal, receiverVars
  <2> QED BY <1>5, <2>1, SealNext
<1>6. ASSUME NEW w \in Writes, Transmit(w) PROVE Rest'
  <2>1. /\ pc[w] = "send"
        /\ UNCHANGED <<sealed, seq, delivered, recvNext, recvPending>>
        /\ data' = data \cup {[seq |-> seq[w], rec |-> w]}
    BY <1>6 DEF Transmit, receiverVars
  <2>2. \A v \in Writes : pc'[v] = "idle" <=> pc[v] = "idle"
    BY <1>6 DEF Transmit, Finish, TypeOK
  <2>3. seq[w] \in 1..Len(sealed) /\ sealed[seq[w]] = w
    BY <2>1, SealedNumber
  <2>4. PacketsGenuine'
    BY <2>1, <2>3 DEF PacketsGenuine
  <2> QED BY <1>2, <1>3, <2>1, <2>2, <2>4
<1>7. ASSUME NEW w \in Writes,
             \/ Enqueue(w) \/ TooManyPending(w) \/ TransmitFails(w) \/ Acknowledged(w)
             \/ Interrupted(w) \/ Retry(w) \/ GiveUp(w)
      PROVE  Rest'
  <2>1. UNCHANGED <<sealed, seq, data, delivered, recvNext, recvPending>>
    BY <1>7 DEF Enqueue, TooManyPending, TransmitFails, Acknowledged, Interrupted, Retry,
                GiveUp, networkVars, receiverVars
  <2>2. \A v \in Writes : pc'[v] = "idle" <=> pc[v] = "idle"
    BY <1>7 DEF Enqueue, TooManyPending, TransmitFails, Acknowledged, Interrupted, Retry,
                GiveUp, Finish, TypeOK
  <2> QED BY <1>2, <1>3, <1>4, <2>1, <2>2
<1>8. ASSUME NEW s \in acks, ReadAck(s) PROVE Rest'
  <2>1. UNCHANGED <<sealed, seq, pc, data, delivered, recvNext, recvPending>>
    BY <1>8 DEF ReadAck, networkVars, receiverVars
  <2> QED BY <1>2, <1>3, <1>4, <2>1
<1>9. ASSUME NEW p \in data \cup recvPending, ReadBuffered(p) \/ ReadNext(p) PROVE Rest'
  <2>1. /\ p.seq = recvNext
        /\ delivered' = Append(delivered, p.rec)
        /\ recvNext' = recvNext + 1
        /\ UNCHANGED <<sealed, seq, pc>>
        /\ data' \cup recvPending' \subseteq data \cup recvPending
    BY <1>9 DEF ReadBuffered, ReadNext, senderVars, networkVars
  <2> QED BY <1>2, <1>4, <2>1, DeliverNext
<1>10. ASSUME NEW p \in data \cup recvPending, ReadReplay(p) \/ ReadAhead(p) \/ ReadDropped(p)
       PROVE  Rest'
  <2>1. /\ UNCHANGED <<sealed, seq, pc, delivered, recvNext>>
        /\ data' \cup recvPending' \subseteq data \cup recvPending
    BY <1>10 DEF ReadReplay, ReadAhead, ReadDropped, senderVars, networkVars, receiverVars
  <2> QED BY <1>2, <1>3, <1>4, <2>1
<1>11. ASSUME CloseSender \/ CloseReceiver \/ UNCHANGED vars PROVE Rest'
  <2>1. UNCHANGED <<sealed, seq, pc, data, delivered, recvNext, recvPending>>
    BY <1>11 DEF CloseSender, CloseReceiver, vars, senderVars, networkVars, receiverVars
  <2> QED BY <1>2, <1>3, <1>4, <2>1
<1> QED BY NextCases, <1>5, <1>6, <1>7, <1>8, <1>9, <1>10, <1>11

\* Numbers and records stay together in every reachable state, in both modes.
THEOREM RecordsInvariant == Spec => []RecordsInv
<1>1. RecordsInv /\ [Next]_vars => RecordsInv'
  BY RecordsNext
<1> QED BY RecordsInit, <1>1, PTL DEF Spec

\* Every reachable state of the record layer is type correct.
THEOREM TypeCorrect == Spec => []TypeOK
<1>1. RecordsInv => TypeOK
  BY DEF RecordsInv
<1> QED BY RecordsInvariant, <1>1, PTL

\* In both modes Read hands up the sealed records in order, each once.
THEOREM DeliveredInOrder == Spec => []InOrderOnce
<1>1. RecordsInv => InOrderOnce
  BY DEF RecordsInv
<1> QED BY RecordsInvariant, <1>1, PTL

--------------------------------------------------------------------------------
(* Reliable mode: ReliableInv.                                             *)

\* A new connection has nothing under way.
LEMMA ReliableInit == Init => ReliableInv
<1> SUFFICES ASSUME Init PROVE ReliableInv
  OBVIOUS
<1>1. OneActive
  BY DEF Init, OneActive, Active
<1>2. PredecessorsConfirmed /\ FailedWriteCloses
  BY DEF Init, PredecessorsConfirmed, FailedWriteCloses
<1>3. ReceivedExactly
  BY DEF Init, ReceivedExactly
<1> QED BY <1>1, <1>2, <1>3, RecordsInit DEF ReliableInv

\* While the connection is open, every Write before the last one was confirmed.
LEMMA EarlierConfirmed ==
  ASSUME Reliable, ReliableInv, senderOpen,
         NEW i \in 1..Len(sealed), i < Len(sealed) \/ ~Active(sealed[i])
  PROVE  result[sealed[i]] = "ok"
<1> USE DEF ReliableInv, RecordsInv
<1>1. Len(sealed) \in Nat /\ sealed[i] \in Writes
  BY DEF TypeOK
<1>2. seq[sealed[i]] = i
  BY Zenon DEF RecordsNumbered
<1>3. pc[sealed[i]] # "idle"
  BY <1>1, <1>2 DEF RecordsNumbered
<1>4. ~Active(sealed[i])
  BY <1>1, <1>2 DEF OneActive
<1>5. pc[sealed[i]] = "done"
  BY <1>1, <1>3, <1>4 DEF Active, TypeOK
<1>6. result[sealed[i]] # "none" /\ result[sealed[i]] # "error"
  BY <1>1, <1>5 DEF OneActive, FailedWriteCloses
<1> QED BY <1>1, <1>6 DEF TypeOK

\* A record on the wire is at most one ahead of what the peer has read.
LEMMA OneAhead ==
  ASSUME Reliable, ReliableInv, NEW p \in data
  PROVE  p.seq \in 1..(Len(delivered) + 1)
<1> USE DEF ReliableInv, RecordsInv
<1>1. Len(sealed) \in Nat /\ Len(delivered) \in Nat /\ p.seq \in 1..Len(sealed)
  BY DEF TypeOK, PacketsGenuine
<1>2. CASE p.seq = 1
  BY <1>1, <1>2
<1>3. CASE p.seq # 1
  <2>1. p.seq - 1 \in 1..Len(sealed) /\ p.seq - 1 < p.seq
    BY <1>1, <1>3
  <2>2. result[sealed[p.seq - 1]] = "ok"
    BY <2>1 DEF PredecessorsConfirmed
  <2>3. sealed[p.seq - 1] \in Writes
    BY <2>1 DEF TypeOK
  <2>4. seq[sealed[p.seq - 1]] = p.seq - 1
    BY <2>1, Zenon DEF RecordsNumbered
  <2>5. p.seq - 1 \in 1..Len(delivered)
    BY <2>2, <2>3, <2>4 DEF ReceivedExactly
  <2> QED BY <1>1, <2>5
<1> QED BY <1>2, <1>3

\* The end of a Write releases sendMu and leaves no waiter.
LEMMA FinishActive ==
  ASSUME Reliable, ReliableInv, NEW w \in Writes, Active(w), NEW r \in {"ok", "error"},
         Finish(w, r), UNCHANGED <<sealed, seq>>
  PROVE  /\ OneActive'
         /\ result' = [result EXCEPT ![w] = r]
         /\ result[w] = "none"
<1> USE DEF ReliableInv, RecordsInv
<1>1. sendMu = w /\ seq[w] = Len(sealed) /\ result[w] = "none"
  BY DEF OneActive, Active
<1>2. /\ pc' = [pc EXCEPT ![w] = "done"]
      /\ result' = [result EXCEPT ![w] = r]
      /\ sendMu' = None
      /\ pendingData' = pendingData \ {seq[w]}
  BY <1>1 DEF Finish
<1>3. \A v \in Writes : v # w => ~Active(v)
  BY <1>1 DEF OneActive
<1>4. \A v \in Writes : ~Active(v)'
  BY <1>2, <1>3 DEF Active, TypeOK
<1>5. pendingData' = {}
  BY <1>1, <1>2 DEF OneActive
<1>6. \A v \in Writes : result'[v] = "none" <=> pc'[v] # "done"
  BY <1>2 DEF OneActive, TypeOK
<1> QED BY <1>1, <1>2, <1>4, <1>5, <1>6 DEF OneActive

\* A Write that locks sendMu finds nobody under way.
LEMMA SealActive ==
  ASSUME Reliable, ReliableInv, NEW w \in Writes, Seal(w)
  PROVE  /\ OneActive'
         /\ PredecessorsConfirmed'
<1> USE ConsentAssumption DEF ReliableInv, RecordsInv
<1>1. /\ pc[w] = "idle" /\ sendMu = None /\ sendMu' = w
      /\ sealed' = Append(sealed, w)
      /\ seq' = [seq EXCEPT ![w] = Len(sealed) + 1]
      /\ pc' = [pc EXCEPT ![w] = "sealed"]
      /\ UNCHANGED <<result, pendingData, data>>
  BY DEF Seal, networkVars
<1>2. \A v \in Writes : ~Active(v)
  BY <1>1 DEF OneActive
<1>3. pendingData' = {}
  BY <1>1 DEF OneActive
<1>4. /\ Len(sealed) \in Nat
      /\ Len(sealed') = Len(sealed) + 1
      /\ \A i \in 1..Len(sealed) : sealed'[i] = sealed[i]
  BY <1>1 DEF TypeOK
<1>5. OneActive'
  <2>1. \A v \in Writes : Active(v)' => v = w
    BY <1>1, <1>2 DEF Active, TypeOK
  <2>2. seq'[w] = Len(sealed')
    BY <1>1, <1>4 DEF TypeOK
  <2>3. \A v \in Writes : result'[v] = "none" <=> pc'[v] # "done"
    BY <1>1 DEF OneActive, TypeOK
  <2> QED BY <1>1, <1>3, <2>1, <2>2, <2>3 DEF OneActive
<1>6. PredecessorsConfirmed'
  <2> SUFFICES ASSUME NEW p \in data, NEW i \in 1..Len(sealed'), i < p.seq
               PROVE  result[sealed'[i]] = "ok"
    BY <1>1 DEF PredecessorsConfirmed
  <2>1. p.seq \in 1..Len(sealed)
    BY DEF PacketsGenuine
  <2>2. i \in 1..Len(sealed)
    BY <1>4, <2>1
  <2> QED BY <1>4, <2>2 DEF PredecessorsConfirmed
<1> QED BY <1>5, <1>6

\* The steps of the sender keep the invariant of the reliable mode.
LEMMA SenderNext ==
  ASSUME Reliable, ReliableInv, NEW w \in Writes, WriteStep(w)
  PROVE  OneActive' /\ PredecessorsConfirmed' /\ ReceivedExactly' /\ FailedWriteCloses'
<1> USE DEF ReliableInv, RecordsInv
<1>1. UNCHANGED <<recvHighest, recvWindow, recvPending, delivered, acks, acked>>
  BY DEF WriteStep, Seal, Enqueue, TooManyPending, Transmit, TransmitFails, Acknowledged,
         Interrupted, Retry, GiveUp, networkVars, receiverVars
<1>2. ASSUME UNCHANGED <<sealed, data>>, \A v \in Writes : result[v] = "ok" => result'[v] = "ok"
      PROVE  PredecessorsConfirmed'
  <2>1. \A i \in 1..Len(sealed) : sealed[i] \in Writes
    BY DEF TypeOK
  <2> QED BY <1>2, <2>1 DEF PredecessorsConfirmed
<1>3. ASSUME \A v \in Writes : result'[v] = "ok" =>
               seq'[v] = seq[v] /\ (result[v] = "ok" \/ seq[v] \in acked)
      PROVE  ReceivedExactly'
  BY <1>1, <1>3 DEF ReceivedExactly
<1>4. ASSUME senderOpen' => senderOpen,
             \A v \in Writes : result'[v] = "error" => result[v] = "error" \/ ~senderOpen'
      PROVE  FailedWriteCloses'
  BY <1>4 DEF FailedWriteCloses
<1>5. CASE Seal(w)
  <2>1. pc[w] = "idle" /\ UNCHANGED <<result, senderOpen>> /\ seq' = [seq EXCEPT ![w] = Len(sealed) + 1]
    BY <1>5 DEF Seal
  <2>2. result[w] = "none"
    BY <2>1 DEF OneActive
  <2> QED BY <1>3, <1>4, <1>5, <2>1, <2>2, SealActive DEF TypeOK
<1>6. CASE Enqueue(w)
  <2>1. /\ pc[w] = "sealed" /\ pc' = [pc EXCEPT ![w] = "send"]
        /\ pendingData' = pendingData \cup {seq[w]}
        /\ UNCHANGED <<sealed, seq, result, sendMu, senderOpen, data>>
    BY <1>6 DEF Enqueue, networkVars
  <2>2. OneActive'
    BY <2>1 DEF OneActive, Active, TypeOK
  <2> QED BY <1>2, <1>3, <1>4, <2>1, <2>2
<1>7. CASE TooManyPending(w)
  <2>1. pendingData = {}
    BY <1>7 DEF TooManyPending, OneActive, Active
  <2>2. Cardinality(pendingData) = 0
    BY <2>1, FS_EmptySet
  <2> QED BY <1>7, <2>2, ConsentAssumption DEF TooManyPending
<1>8. CASE Transmit(w)
  <2>1. /\ pc[w] = "send" /\ pc' = [pc EXCEPT ![w] = "wait"] /\ senderOpen
        /\ data' = data \cup {[seq |-> seq[w], rec |-> w]}
        /\ UNCHANGED <<sealed, seq, result, sendMu, pendingData, senderOpen>>
    BY <1>8 DEF Transmit
  <2>2. OneActive'
    BY <2>1 DEF OneActive, Active, TypeOK
  <2>3. seq[w] = Len(sealed)
    BY <2>1 DEF OneActive, Active
  <2>4. PredecessorsConfirmed'
    <3> SUFFICES ASSUME NEW p \in data', NEW i \in 1..Len(sealed), i < p.seq
                 PROVE  result[sealed[i]] = "ok"
      BY <2>1 DEF PredecessorsConfirmed
    <3>1. CASE p \in data
      BY <3>1 DEF PredecessorsConfirmed
    <3>2. CASE p = [seq |-> seq[w], rec |-> w]
      BY <2>1, <2>3, <3>2, EarlierConfirmed
    <3> QED BY <2>1, <3>1, <3>2
  <2> QED BY <1>3, <1>4, <2>1, <2>2, <2>4
<1>9. CASE TransmitFails(w) \/ Interrupted(w) \/ GiveUp(w)
  <2>1. /\ Active(w) /\ Finish(w, "error") /\ ~senderOpen'
        /\ UNCHANGED <<sealed, seq, data>>
    <3>1. CASE TransmitFails(w)
      BY <3>1, Zenon DEF TransmitFails, Active, networkVars
    <3>2. CASE Interrupted(w)
      BY <3>2, Zenon DEF Interrupted, Active, networkVars
    <3>3. CASE GiveUp(w)
      BY <3>3, Zenon DEF GiveUp, Active, networkVars
    <3> QED BY <1>9, <3>1, <3>2, <3>3
  <2>2. OneActive' /\ result' = [result EXCEPT ![w] = "error"] /\ result[w] = "none"
    BY <2>1, FinishActive
  <2> QED BY <1>2, <1>3, <1>4, <2>1, <2>2 DEF TypeOK
<1>10. CASE Acknowledged(w)
  <2>1. /\ Active(w) /\ Finish(w, "ok") /\ seq[w] \in acked
        /\ UNCHANGED <<sealed, seq, data, senderOpen>>
    BY <1>10 DEF Acknowledged, Active, networkVars
  <2>2. OneActive' /\ result' = [result EXCEPT ![w] = "ok"] /\ result[w] = "none"
    BY <2>1, FinishActive
  <2> QED BY <1>2, <1>3, <1>4, <2>1, <2>2 DEF TypeOK
<1>11. CASE Retry(w)
  <2>1. /\ pc[w] = "wait" /\ pc' = [pc EXCEPT ![w] = "send"]
        /\ UNCHANGED <<sealed, seq, result, sendMu, pendingData, senderOpen, data>>
    BY <1>11 DEF Retry, networkVars
  <2>2. OneActive'
    BY <2>1 DEF OneActive, Active, TypeOK
  <2> QED BY <1>2, <1>3, <1>4, <2>1, <2>2
<1> QED BY <1>5, <1>6, <1>7, <1>8, <1>9, <1>10, <1>11 DEF WriteStep

\* In reliable mode Read meets only the next record and replays: nothing is
\* buffered, and nothing is dropped as too old or too far ahead.
LEMMA ReadsNextOrReplay ==
  ASSUME Reliable, ReliableInv, NEW p \in data \cup recvPending, ReadStep(p)
  PROVE  p \in data /\ (ReadNext(p) \/ ReadReplay(p))
<1> USE ConsentAssumption DEF ReliableInv, RecordsInv
<1>1. p \in data
  BY DEF ReceivedExactly
<1>2. ~ReadBuffered(p)
  BY DEF ReadBuffered, ReceivedExactly
<1>3. /\ Len(delivered) \in Nat
      /\ p.seq \in 1..(Len(delivered) + 1)
      /\ recvNext = Len(delivered) + 1
      /\ recvHighest = Len(delivered)
  BY <1>1, OneAhead DEF ReceivedExactly, TypeOK
<1>4. Fresh(p.seq) => p.seq = recvNext
  <2>1. ASSUME Fresh(p.seq), p.seq # Len(delivered) + 1 PROVE FALSE
    <3>1. p.seq \in 1..Len(delivered)
      BY <1>3, <2>1
    <3>2. recvHighest - p.seq < Window /\ p.seq \notin recvWindow
      BY <1>3, <2>1, <3>1 DEF Fresh
    <3>3. p.seq \in recvWindow
      BY <1>3, <3>1, <3>2 DEF ReceivedExactly
    <3> QED BY <3>2, <3>3
  <2> QED BY <1>3, <2>1
<1>5. ~ReadAhead(p)
  BY <1>3, <1>4 DEF ReadAhead
<1>6. ~ReadDropped(p)
  BY <1>3, <1>4 DEF ReadDropped
<1> QED BY <1>1, <1>2, <1>5, <1>6 DEF ReadStep

\* The steps of the receiver keep the invariant of the reliable mode.
LEMMA ReceiverNext ==
  ASSUME Reliable, ReliableInv, NEW p \in data \cup recvPending, ReadStep(p)
  PROVE  OneActive' /\ PredecessorsConfirmed' /\ ReceivedExactly' /\ FailedWriteCloses'
<1> USE ConsentAssumption DEF ReliableInv, RecordsInv
<1>1. p \in data /\ (ReadNext(p) \/ ReadReplay(p))
  BY ReadsNextOrReplay
<1>2. UNCHANGED <<sealed, seq, pc, result, sendMu, pendingData, acked, senderOpen, data>>
  BY <1>1 DEF ReadNext, ReadReplay, senderVars
<1>3. OneActive' /\ PredecessorsConfirmed' /\ FailedWriteCloses'
  BY <1>2 DEF OneActive, Active, PredecessorsConfirmed, FailedWriteCloses
<1>4. /\ Len(delivered) \in Nat
      /\ p.seq \in 1..(Len(delivered) + 1)
      /\ recvNext = Len(delivered) + 1
      /\ recvHighest = Len(delivered)
  BY <1>1, OneAhead DEF ReceivedExactly, TypeOK
<1>5. CASE ReadReplay(p)
  <2>1. p.seq \in 1..Len(delivered)
    BY <1>4, <1>5 DEF ReadReplay, Fresh
  <2>2. acks' = acks \cup {p.seq}
        /\ UNCHANGED <<delivered, recvHighest, recvWindow, recvPending>>
    BY <1>5 DEF ReadReplay, receiverVars
  <2>3. ReceivedExactly'
    BY <1>2, <2>1, <2>2 DEF ReceivedExactly
  <2> QED BY <1>3, <2>3
<1>6. CASE ReadNext(p)
  <2> DEFINE d == Len(delivered)
  <2>1. /\ p.seq = d + 1
        /\ delivered' = Append(delivered, p.rec)
        /\ acks' = acks \cup {p.seq}
        /\ recvPending' = recvPending
        /\ MarkReceived(p.seq)
    BY <1>4, <1>6 DEF ReadNext
  <2>2. p.rec \in Writes
    BY <1>1 DEF TypeOK, Packets
  <2>3. Len(delivered') = d + 1
    BY <1>4, <2>1, <2>2 DEF TypeOK
  <2>4. /\ recvHighest' = d + 1
        /\ recvWindow' = {q \in 1..(d + 1) : d + 1 - q < Window}
    <3> DEFINE highest == IF p.seq > recvHighest THEN p.seq ELSE recvHighest
    <3>1. /\ recvHighest' = highest
          /\ recvWindow' = {q \in recvWindow \cup {p.seq} : highest - q < Window}
      BY <2>1 DEF MarkReceived
    <3>2. recvWindow = {q \in 1..d : d - q < Window}
      BY DEF ReceivedExactly
    <3>3. highest = d + 1
      BY <1>4, <2>1
    <3>4. \A q \in Nat : q \in recvWindow \cup {p.seq} /\ d + 1 - q < Window
                          <=> q \in 1..(d + 1) /\ d + 1 - q < Window
      BY <1>4, <2>1, <3>2
    <3>5. recvWindow \cup {p.seq} \subseteq Nat
      BY <1>4, <2>1, <3>2
    <3> QED BY <1>4, <3>1, <3>3, <3>4, <3>5
  <2>5. acks' \cup acked' \subseteq 1..(d + 1)
    <3>1. acks \cup acked \subseteq 1..d
      BY DEF ReceivedExactly
    <3> QED BY <1>2, <1>4, <2>1, <3>1
  <2>6. \A w \in Writes : result'[w] = "ok" => seq'[w] \in 1..(d + 1)
    <3>1. \A w \in Writes : result[w] = "ok" => seq[w] \in 1..d
      BY DEF ReceivedExactly
    <3> QED BY <1>2, <1>4, <3>1
  <2>7. ReceivedExactly'
    BY <2>1, <2>3, <2>4, <2>5, <2>6 DEF ReceivedExactly
  <2> QED BY <1>3, <2>7
<1> QED BY <1>1, <1>5, <1>6

\* The inductive step of the reliable mode.
LEMMA ReliableNext ==
  ASSUME ReliableInv, [Next]_vars
  PROVE  ReliableInv'
<1> SUFFICES ASSUME Reliable PROVE ReliableInv'
  BY DEF ReliableInv
<1>1. RecordsInv'
  BY RecordsNext DEF ReliableInv
<1> DEFINE Rest == OneActive /\ PredecessorsConfirmed /\ ReceivedExactly /\ FailedWriteCloses
<1> SUFFICES Rest'
  BY <1>1 DEF ReliableInv
<1> USE DEF ReliableInv, RecordsInv
<1>2. ASSUME NEW w \in Writes, WriteStep(w) PROVE Rest'
  BY <1>2, SenderNext
<1>3. ASSUME NEW p \in data \cup recvPending, ReadStep(p) PROVE Rest'
  BY <1>3, ReceiverNext
<1>4. ASSUME NEW s \in acks, ReadAck(s) PROVE Rest'
  <2>1. /\ acked' = acked \cup {s} /\ pendingData' = pendingData \ {s}
        /\ UNCHANGED <<sealed, seq, pc, result, sendMu, senderOpen, data, acks, recvHighest,
                       recvWindow, recvPending, delivered>>
    BY <1>4 DEF ReadAck, networkVars, receiverVars
  <2>2. OneActive' /\ PredecessorsConfirmed' /\ FailedWriteCloses'
    BY <2>1 DEF OneActive, Active, PredecessorsConfirmed, FailedWriteCloses
  <2>3. ReceivedExactly'
    BY <2>1 DEF ReceivedExactly
  <2> QED BY <2>2, <2>3
<1>5. ASSUME CloseSender \/ CloseReceiver \/ UNCHANGED vars PROVE Rest'
  <2>1. /\ senderOpen' => senderOpen
        /\ UNCHANGED <<sealed, seq, pc, result, sendMu, pendingData, acked, data, acks,
                       recvHighest, recvWindow, recvPending, delivered>>
    BY <1>5 DEF CloseSender, CloseReceiver, vars, senderVars, networkVars, receiverVars
  <2> QED BY <2>1 DEF OneActive, Active, PredecessorsConfirmed, FailedWriteCloses, ReceivedExactly
<1> QED BY <1>2, <1>3, <1>4, <1>5 DEF Next

\* The invariant of the reliable mode holds in every reachable state.
THEOREM ReliableInvariant == Spec => []ReliableInv
<1>1. ReliableInv /\ [Next]_vars => ReliableInv'
  BY ReliableNext
<1> QED BY ReliableInit, <1>1, PTL DEF Spec

\* A reliable Write reports success only for a record the peer's Read returned.
THEOREM ConfirmedReceived == Spec => []ConfirmedIsReceived
<1>1. ReliableInv => ConfirmedIsReceived
  <2> SUFFICES ASSUME ReliableInv, Reliable, NEW w \in Writes, result[w] = "ok"
               PROVE  delivered[seq[w]] = w /\ seq[w] \in 1..Len(delivered)
    BY DEF ConfirmedIsReceived
  <2>1. seq[w] \in 1..Len(delivered)
    BY DEF ReliableInv, ReceivedExactly
  <2>2. delivered[seq[w]] = sealed[seq[w]]
    BY <2>1 DEF ReliableInv, RecordsInv, InOrderOnce
  <2>3. pc[w] # "idle"
    BY DEF ReliableInv, OneActive
  <2> QED BY <2>1, <2>2, <2>3, SealedNumber DEF ReliableInv, RecordsInv
<1> QED BY ReliableInvariant, <1>1, PTL

\* A reliable Write that fails leaves a closed connection.
THEOREM FailureCloses == Spec => []FailedWriteCloses
<1>1. ReliableInv => FailedWriteCloses
  BY DEF ReliableInv, FailedWriteCloses
<1> QED BY ReliableInvariant, <1>1, PTL

\* While the connection is open at most one record is unread.
THEOREM AtMostOneInFlight == Spec => []OneInFlight
<1>1. ReliableInv => OneInFlight
  <2> SUFFICES ASSUME ReliableInv, Reliable, senderOpen PROVE Len(sealed) <= Len(delivered) + 1
    BY DEF OneInFlight
  <2> USE DEF ReliableInv, RecordsInv
  <2>1. Len(sealed) \in Nat /\ Len(delivered) \in Nat
    BY DEF TypeOK
  <2>2. CASE Len(sealed) <= 1
    BY <2>1, <2>2
  <2>3. CASE Len(sealed) > 1
    <3> DEFINE i == Len(sealed) - 1
    <3>1. i \in 1..Len(sealed) /\ i < Len(sealed)
      BY <2>1, <2>3
    <3>2. result[sealed[i]] = "ok"
      BY <3>1, EarlierConfirmed
    <3>3. sealed[i] \in Writes
      BY <3>1 DEF TypeOK
    <3>4. seq[sealed[i]] = i
      BY <3>1, Zenon DEF RecordsNumbered
    <3>5. i \in 1..Len(delivered)
      BY <3>2, <3>3, <3>4 DEF ReceivedExactly
    <3> QED BY <2>1, <3>5
  <2> QED BY <2>1, <2>2, <2>3
<1> QED BY ReliableInvariant, <1>1, PTL

--------------------------------------------------------------------------------
(* Refinement: a reliable consentConn implements RecordPipe.               *)

\* A new connection is an empty pipe.
LEMMA PipeInit == Init => Pipe!Init
BY DEF Init, Pipe!Init

\* Every step of the reliable record layer offers, receives or confirms a
\* record of the pipe, or leaves the pipe as it is.
LEMMA PipeNext ==
  ASSUME Reliable, ReliableInv, [Next]_vars
  PROVE  [Pipe!Next]_Pipe!vars
<1> USE DEF ReliableInv, RecordsInv
<1> DEFINE Confirmed == {w \in Writes : result[w] = "ok"}
<1>1. ASSUME UNCHANGED <<sealed, delivered>>, Confirmed' = Confirmed
      PROVE  UNCHANGED Pipe!vars
  BY <1>1 DEF Pipe!vars
<1>2. ASSUME NEW w \in Writes, Seal(w) PROVE Pipe!Offer(w)
  <2>1. pc[w] = "idle" /\ sealed' = Append(sealed, w) /\ UNCHANGED <<delivered, result>>
    BY <1>2 DEF Seal, receiverVars
  <2>2. \A i \in 1..Len(sealed) : sealed[i] # w
    <3>1. seq[w] = 0
      BY <2>1 DEF RecordsNumbered
    <3>2. \A i \in 1..Len(sealed) : seq[sealed[i]] = i
      BY Zenon DEF RecordsNumbered
    <3>3. \A i \in 1..Len(sealed) : i # 0
      BY DEF TypeOK
    <3> QED BY <3>1, <3>2, <3>3
  <2> QED BY <2>1, <2>2 DEF Pipe!Offer
<1>3. ASSUME NEW w \in Writes, Acknowledged(w) PROVE Pipe!Confirm(w)
  <2>1. /\ Active(w) /\ Finish(w, "ok") /\ seq[w] \in acked
        /\ UNCHANGED <<sealed, seq, delivered>>
    BY <1>3 DEF Acknowledged, Active, receiverVars
  <2>2. result' = [result EXCEPT ![w] = "ok"]
    BY <2>1, FinishActive
  <2>3. Confirmed' = Confirmed \cup {w}
    BY <2>2 DEF TypeOK
  <2>4. seq[w] \in 1..Len(delivered) /\ delivered[seq[w]] = w
    <3>1. seq[w] \in 1..Len(delivered)
      BY <2>1 DEF ReceivedExactly
    <3>2. pc[w] # "idle"
      BY <2>1 DEF Active
    <3>3. sealed[seq[w]] = w
      BY <3>2, SealedNumber
    <3> QED BY <3>1, <3>3 DEF InOrderOnce
  <2> QED BY <2>1, <2>3, <2>4 DEF Pipe!Confirm
<1>4. ASSUME NEW p \in data \cup recvPending, ReadNext(p) PROVE Pipe!Receive
  <2>1. /\ p \in data /\ p.seq = Len(delivered) + 1
        /\ delivered' = Append(delivered, p.rec)
        /\ UNCHANGED <<sealed, result>>
    BY <1>4 DEF ReadNext, senderVars
  <2>2. p.seq \in 1..Len(sealed) /\ sealed[p.seq] = p.rec
    BY <2>1 DEF PacketsGenuine
  <2>3. Len(delivered) \in Nat /\ Len(sealed) \in Nat /\ Len(delivered) < Len(sealed)
    BY <2>1, <2>2 DEF TypeOK
  <2>4. ASSUME NEW i \in 1..Len(delivered) PROVE delivered[i] \in Confirmed
    <3>1. i \in 1..Len(sealed) /\ i < p.seq
      BY <2>1, <2>3
    <3>2. result[sealed[i]] = "ok"
      BY <2>1, <3>1 DEF PredecessorsConfirmed
    <3>3. delivered[i] = sealed[i] /\ sealed[i] \in Writes
      BY <3>1 DEF InOrderOnce, TypeOK
    <3> QED BY <3>2, <3>3
  <2> QED BY <2>1, <2>2, <2>3, <2>4 DEF Pipe!Receive
<1>5. ASSUME NEW w \in Writes, TransmitFails(w) \/ Interrupted(w) \/ GiveUp(w) \/ TooManyPending(w)
      PROVE  UNCHANGED Pipe!vars
  <2>1. Active(w) /\ Finish(w, "error") /\ UNCHANGED <<sealed, seq, delivered>>
    BY <1>5 DEF TransmitFails, Interrupted, GiveUp, TooManyPending, Active, receiverVars
  <2>2. result' = [result EXCEPT ![w] = "error"] /\ result[w] = "none"
    BY <2>1, FinishActive
  <2> QED BY <1>1, <2>1, <2>2 DEF TypeOK
<1>6. ASSUME NEW w \in Writes, Enqueue(w) \/ Transmit(w) \/ Retry(w)
      PROVE  UNCHANGED Pipe!vars
  <2>1. UNCHANGED <<sealed, delivered, result>>
    BY <1>6 DEF Enqueue, Transmit, Retry, receiverVars
  <2> QED BY <1>1, <2>1
<1>7. ASSUME NEW p \in data \cup recvPending,
             ReadBuffered(p) \/ ReadReplay(p) \/ ReadAhead(p) \/ ReadDropped(p)
      PROVE  UNCHANGED Pipe!vars
  <2>1. ~ReadBuffered(p)
    BY DEF ReadBuffered, ReceivedExactly
  <2>2. UNCHANGED <<sealed, delivered, result>>
    BY <1>7, <2>1 DEF ReadReplay, ReadAhead, ReadDropped, senderVars, receiverVars
  <2> QED BY <1>1, <2>2
<1>8. ASSUME (\E s \in acks : ReadAck(s)) \/ CloseSender \/ CloseReceiver \/ UNCHANGED vars
      PROVE  UNCHANGED Pipe!vars
  <2>1. UNCHANGED <<sealed, delivered, result>>
    BY <1>8 DEF ReadAck, CloseSender, CloseReceiver, vars, senderVars, receiverVars
  <2> QED BY <1>1, <2>1
<1> QED BY NextCases, <1>2, <1>3, <1>4, <1>5, <1>6, <1>7, <1>8 DEF Pipe!Next

\* The reliable record layer implements the pipe: records are read in order,
\* once and none skipped, each only after its predecessor's Write was confirmed,
\* and Write reports success only for what the peer has, whatever the network
\* loses, repeats or reorders.
THEOREM ReliableImplementsPipe ==
  ASSUME Reliable
  PROVE  Spec => ImplementsPipe
<1>1. ReliableInv /\ [Next]_vars => [Pipe!Next]_Pipe!vars
  BY PipeNext
<1> QED BY PipeInit, <1>1, ReliableInvariant, PTL DEF Spec, Pipe!Spec, ImplementsPipe

--------------------------------------------------------------------------------
(* The reorder buffer of Read, in either mode.                             *)

\* The buffered records are not behind the next one, and less than a window ahead.
BufferAhead == \A p \in recvPending : recvNext <= p.seq /\ p.seq < recvNext + Window

\* The inductive invariant of the buffer, on top of RecordsInv.
BufferInv ==
  /\ BufferAhead
  /\ IsFiniteSet(recvPending)
  /\ BufferBounded

\* At most one record of each number is buffered, so there is room for Window - 1
\* records that are strictly ahead of the next one.
LEMMA BufferFits ==
  ASSUME NEW S \in SUBSET Packets, NEW n \in SeqNos,
         \A p \in S : n < p.seq /\ p.seq < n + Window,
         \A p, q \in S : p.seq = q.seq => p = q
  PROVE  IsFiniteSet(S) /\ Cardinality(S) < Window
<1> DEFINE T == (n + 1)..(n + Window - 1)
           f == [p \in S |-> p.seq]
<1> USE ConsentAssumption DEF SeqNos, Packets
<1>1. \A p \in S : f[p] \in T
  OBVIOUS
<1>2. \A p, q \in S : f[p] = f[q] => p = q
  OBVIOUS
<1>3. n + 1 \in Int /\ n + Window - 1 \in Int
  OBVIOUS
<1>4. IsFiniteSet(T) /\ Cardinality(T) = Window - 1
  BY <1>3, FS_Interval
<1>5. f \in [S -> T]
  BY <1>1
<1> HIDE DEF f, T
<1>6. f \in Injection(S, T)
  BY <1>2, <1>5 DEF Injection, IsInjective
<1>7. IsFiniteSet(S) /\ Cardinality(S) <= Cardinality(T)
  BY <1>4, <1>6, FS_Injection
<1> QED BY <1>4, <1>7, FS_CardinalityType

\* A datagram is determined by its number: it carries the record sealed under it.
LEMMA OnePacketPerNumber ==
  ASSUME RecordsInv, NEW p \in data \cup recvPending, NEW q \in data \cup recvPending,
         p.seq = q.seq
  PROVE  p = q
<1>1. p \in Packets /\ q \in Packets
  BY DEF RecordsInv, TypeOK
<1>2. p.rec = q.rec
  BY DEF RecordsInv, PacketsGenuine
<1>3. p = [seq |-> p.seq, rec |-> p.rec] /\ q = [seq |-> q.seq, rec |-> q.rec]
  BY <1>1 DEF Packets
<1> QED BY <1>2, <1>3

\* No step lets the buffer grow to the width of the window: ReadAhead keeps what
\* is less than a window ahead, and only when the next record is not there.
LEMMA BufferNext ==
  ASSUME RecordsInv, BufferInv, [Next]_vars
  PROVE  BufferInv'
<1> USE ConsentAssumption DEF RecordsInv, BufferInv, BufferAhead, TypeOK, SeqNos
<1>1. ASSUME NEW p \in data, ReadAhead(p) PROVE BufferInv'
  <2>1. /\ recvPending' = recvPending \cup {p} /\ recvNext' = recvNext
        /\ recvNext < p.seq /\ p.seq < recvNext + Window
        /\ \A q \in recvPending : q.seq # recvNext
        /\ p \in Packets
    BY <1>1 DEF ReadAhead, ReadsSocket, Packets
  <2>2. \A q \in recvPending' : q \in Packets /\ recvNext < q.seq /\ q.seq < recvNext + Window
    BY <2>1 DEF Packets
  <2>3. \A q \in recvPending' : q \in data \cup recvPending
    BY <2>1
  <2>4. \A q, r \in recvPending' : q.seq = r.seq => q = r
    BY <2>3, OnePacketPerNumber
  <2>5. IsFiniteSet(recvPending') /\ Cardinality(recvPending') < Window
    BY <2>2, <2>4, BufferFits
  <2>6. \A q \in recvPending' : recvNext' <= q.seq /\ q.seq < recvNext' + Window
    BY <2>1, <2>2 DEF Packets
  <2> QED BY <2>5, <2>6 DEF BufferBounded
<1>2. ASSUME NEW p \in recvPending, ReadBuffered(p) PROVE BufferInv'
  <2>1. p.seq = recvNext /\ recvPending' = recvPending \ {p} /\ recvNext' = recvNext + 1
    BY <1>2 DEF ReadBuffered
  <2>2. \A q \in recvPending' : q.seq # recvNext
    BY <2>1, OnePacketPerNumber
  <2>3. BufferAhead'
    BY <2>1, <2>2 DEF Packets
  <2>4. IsFiniteSet(recvPending') /\ Cardinality(recvPending') <= Cardinality(recvPending)
    BY <2>1, FS_Subset
  <2>5. Cardinality(recvPending') \in Nat /\ Cardinality(recvPending) \in Nat
    BY <2>4, FS_CardinalityType
  <2> QED BY <2>3, <2>4, <2>5 DEF BufferBounded
<1>3. ASSUME NEW p \in data, ReadNext(p) PROVE BufferInv'
  <2>1. /\ recvPending' = recvPending /\ recvNext' = recvNext + 1
        /\ \A q \in recvPending : q.seq # recvNext
    BY <1>3 DEF ReadNext, ReadsSocket
  <2>2. BufferAhead'
    BY <2>1 DEF Packets
  <2> QED BY <2>1, <2>2 DEF BufferBounded
<1>4. CASE UNCHANGED <<recvPending, recvNext>>
  BY <1>4 DEF BufferBounded
<1>5. \/ \E p \in data : ReadAhead(p) \/ ReadNext(p)
      \/ \E p \in recvPending : ReadBuffered(p)
      \/ UNCHANGED <<recvPending, recvNext>>
  BY NextCases DEF Seal, Enqueue, TooManyPending, Transmit, TransmitFails, Acknowledged,
     Interrupted, Retry, GiveUp, ReadAck, CloseSender, ReadReplay, ReadDropped, ReadNext,
     ReadAhead, ReadBuffered, CloseReceiver, vars, receiverVars
<1> QED BY <1>1, <1>2, <1>3, <1>4, <1>5

\* Read never keeps as many records waiting as the replay window is wide,
\* whichever datagrams the network repeats, delays or reorders.
THEOREM BufferStaysBounded == Spec => []BufferBounded
<1>1. Init => BufferInv
  BY ConsentAssumption, FS_EmptySet DEF Init, BufferInv, BufferAhead, BufferBounded
<1>2. RecordsInv /\ BufferInv /\ [Next]_vars => BufferInv'
  BY BufferNext
<1>3. BufferInv => BufferBounded
  BY DEF BufferInv
<1> QED BY RecordsInvariant, <1>1, <1>2, <1>3, PTL DEF Spec
================================================================================
