----------------------------- MODULE MCCommands -----------------------------
(* Small instances of Commands for TLC. *)
EXTENDS Commands, TLC

Interchangeable == Permutations(Processes) \cup Permutations(Pulses)
                     \cup Permutations(Passphrases)
=============================================================================
