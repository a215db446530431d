----------------------------- MODULE MCKeyFetch -----------------------------
(* Instances of KeyFetch, and of CircuitBreaker alone, for TLC. *)
EXTENDS KeyFetch
=============================================================================
