-------------------------- MODULE MCCircuitBreaker --------------------------
(* Small instances of CircuitBreaker for TLC: the callers are given in the *)
(* configurations.                                                         *)
EXTENDS CircuitBreaker
=============================================================================
