------------------------ MODULE MCRedisCircuitBreaker ------------------------
(* Model values for RedisCircuitBreaker.                                   *)
EXTENDS RedisCircuitBreaker

CONSTANTS r1, r2, r3
MCRequests == {r1, r2, r3}
=============================================================================
