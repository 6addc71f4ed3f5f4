----------------------------- MODULE MCDbAccess -----------------------------
(* Small instances of DbAccess for TLC. *)
EXTENDS DbAccess

MCRequests == Loads \cup Saves \cup Others
=============================================================================
