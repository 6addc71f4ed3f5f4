--------------------------- MODULE MCVirtualMount ---------------------------
(* Small instances of VirtualMount for TLC. *)
EXTENDS VirtualMount, TLC

Interchangeable == Permutations(Readers) \cup Permutations(Paths)
                     \cup Permutations(Pulses)
=============================================================================
