----------------------------- MODULE MCStorage -----------------------------
(* Small instances of Storage for TLC. *)
EXTENDS Storage, TLC

Interchangeable == Permutations(Clients) \cup Permutations(Pulses)
                     \cup Permutations(Large)
=============================================================================
