-------------------------- MODULE MCCircuitBreaker --------------------------
(* CircuitBreaker for TLC: the constants get their values in the cfg files. *)
EXTENDS CircuitBreaker
=============================================================================
