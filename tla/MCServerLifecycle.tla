--------------------------- MODULE MCServerLifecycle ---------------------------
(* Small instances of ServerLifecycle for TLC. *)
EXTENDS ServerLifecycle, TLC

\* Registrations are interchangeable, and so are connections of one kind.
Symmetric == Permutations(Regs) \cup Permutations(MuxConns) \cup Permutations(QuicConns)
================================================================================
