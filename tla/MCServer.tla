------------------------------ MODULE MCServer ------------------------------
(* Small instances of Server for TLC. *)
EXTENDS Server, TLC

Interchangeable == Permutations(Requests) \cup Permutations(Pulses)
=============================================================================
