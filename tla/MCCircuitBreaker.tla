-------------------------- MODULE MCCircuitBreaker --------------------------
(* Small instances of CircuitBreaker for TLC. *)
EXTENDS CircuitBreaker, TLC

\* For the run that checks an invariant only.
Interchangeable == Permutations(Calls)
=============================================================================
