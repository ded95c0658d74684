------------------------------- MODULE RecordPipe -------------------------------
(***************************************************************************)
(* What a reliable consentConn (cmd/p2p/consent.go) promises the two P2P   *)
(* tunnel endpoints that use it: records are read in the order they were   *)
(* offered, none twice and none skipped; Write reports success only for a  *)
(* record the peer has; and the peer never has more than one record whose  *)
(* Write has not returned.                                                 *)
(***************************************************************************)
EXTENDS Sequences, Naturals

CONSTANT Writes   \* Write calls; each offers one record of its own

VARIABLES
  offered,    \* records in the order the sender gave them a sequence number
  received,   \* records the peer has read
  confirmed   \* Write calls that returned without error

vars == <<offered, received, confirmed>>

Init ==
  /\ offered = << >>
  /\ received = << >>
  /\ confirmed = {}

Offer(w) ==
  /\ \A i \in 1..Len(offered) : offered[i] # w
  /\ offered' = Append(offered, w)
  /\ UNCHANGED <<received, confirmed>>

\* The next record arrives; every earlier one was confirmed before it was sent.
Receive ==
  /\ Len(received) < Len(offered)
  /\ \A i \in 1..Len(received) : received[i] \in confirmed
  /\ received' = Append(received, offered[Len(received) + 1])
  /\ UNCHANGED <<offered, confirmed>>

Confirm(w) ==
  /\ \E i \in 1..Len(received) : received[i] = w
  /\ confirmed' = confirmed \cup {w}
  /\ UNCHANGED <<offered, received>>

Next == Receive \/ \E w \in Writes : Offer(w) \/ Confirm(w)

Spec == Init /\ [][Next]_vars

=================================================================================
