-------------------------- MODULE MCCircuitBreaker --------------------------
(* Model values for CircuitBreaker.                                       *)
EXTENDS CircuitBreaker

CONSTANTS r1, r2, r3, r4
MCRequests == {r1, r2, r3, r4}
=============================================================================
