------------------------------- MODULE MCConsent -------------------------------
(* Small instances of Consent for TLC. *)
EXTENDS Consent, TLC

\* Write calls are interchangeable.
Symmetric == Permutations(Writes)
================================================================================
