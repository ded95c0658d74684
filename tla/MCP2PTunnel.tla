------------------------------ MODULE MCP2PTunnel ------------------------------
(* Small instances of P2PTunnel for TLC. *)
EXTENDS P2PTunnel, TLC

\* Calls are interchangeable, and so are handlers.
Symmetric == Permutations(Calls) \cup Permutations(Handlers)
================================================================================
