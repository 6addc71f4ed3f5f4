--------------------------- MODULE MCAdaptiveDict ---------------------------
(* Small instances of AdaptiveDict for TLC. *)
EXTENDS AdaptiveDict

\* One improvement below zero, one below the threshold of 1 %, one at it.
MCGains == {-1, 0, 1}
=============================================================================
