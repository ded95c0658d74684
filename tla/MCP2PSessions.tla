---------------------------- MODULE MCP2PSessions ----------------------------
(* Model checking of P2PSessions.                                          *)
EXTENDS P2PSessions, TLC

Symmetric ==
  Permutations(Tasks) \cup Permutations(Sessions) \cup Permutations(Socks) \cup Permutations(Relays)

Client(offers, relay, room, more) ==
  [initiates |-> offers, turn |-> relay, capacity |-> room, epochs |-> more]

\* One that sends the offers, with room for one session and a reconnection, and
\* one that answers them, with room for two.
BothRoles == {Client(Peers, TRUE, 1, 1), Client({}, FALSE, 2, 0)}
Answering == {Client({}, TRUE, 1, 1)}

================================================================================
