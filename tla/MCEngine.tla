------------------------------ MODULE MCEngine ------------------------------
(* Small instances of Engine for TLC. *)
EXTENDS Engine, TLC

Interchangeable == Permutations(Tasks) \cup Permutations(Pulses)
                     \cup Permutations(Dicts)
=============================================================================
