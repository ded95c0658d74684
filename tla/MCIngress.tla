------------------------------- MODULE MCIngress -------------------------------
(* Small instances of Ingress for TLC. *)
EXTENDS Ingress
================================================================================
