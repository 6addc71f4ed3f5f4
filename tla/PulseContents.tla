--------------------------- MODULE PulseContents ---------------------------
(***************************************************************************)
(* What the storage backends of core/db.py store: blobs with the metadata  *)
(* that seal or rotate made for them, under pulse ids, for the requests of *)
(* many clients.                                                           *)
(***************************************************************************)
CONSTANTS
  Clients,       \* requests that are inside a method of PulseDB
  Pulses,        \* pulse ids
  Contents,      \* blobs with their metadata
  NoPulse, NoContent   \* of a client that is in no method; nothing stored

ASSUME ContentsAssumption == NoContent \notin Contents /\ NoPulse \notin Pulses
=============================================================================
