----------------------------- MODULE MCServerState -----------------------------
(* Small instances of ServerState for TLC. *)
EXTENDS ServerState, TLC

\* Registrations are interchangeable, and so are client IDs.
Symmetric == Permutations(Regs) \cup Permutations(Ids)
================================================================================
