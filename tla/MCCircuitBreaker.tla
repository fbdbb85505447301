-------------------------- MODULE MCCircuitBreaker --------------------------
(* The breaker with the defaults of CircuitBreakerConfig and more requests  *)
(* than a half-open episode admits.                                         *)
EXTENDS CircuitBreaker, TLC

RequestSymmetry == Permutations(Request)
=============================================================================
