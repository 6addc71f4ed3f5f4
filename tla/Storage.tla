------------------------------ MODULE Storage ------------------------------
(***************************************************************************)
(* The PulseDB of core/db.py over its backends: a bucket (CloudStore),     *)
(* MongoDB (PulseStore), or the dictionaries of _MemoryStore when MongoDB  *)
(* cannot be reached at the start.  The backend is chosen by connect, once *)
(* per process; what the others hold stays where it is.                    *)
(***************************************************************************)
EXTENDS PulseStore, CloudStore

VARIABLES
  setting,    \* QUANTUM_STORAGE_BACKEND: "mongo", or a bucket ("cloud")
  backend,    \* PulseDB.backend_name; "off" before connect
  held,       \* _MemoryStore: per pulse, its content
  accepted    \* per pulse: the backend whose save of it has returned; "none"
              \* again as soon as somebody updates, deletes or expires it

routerVars  == <<setting, backend>>
storageVars == <<storeVars, cloudVars, routerVars, held, accepted>>

StorageInit ==
  /\ StoreInit /\ CloudInit
  /\ setting \in {"mongo", "cloud"} /\ backend = "off"
  /\ setting = "mongo" => service = "s3"    \* without meaning then
  /\ held = [p \in Pulses |-> NoContent]
  /\ accepted = [p \in Pulses |-> "none"]

\* A bucket that cannot be reached raises, and the process does not start; a
\* MongoDB that cannot be reached is replaced by the memory.
Connect ==
  /\ backend = "off"
  /\ backend' \in IF setting = "cloud" THEN {"cloud"} ELSE {"mongo", "memory"}
  /\ UNCHANGED <<storeVars, cloudVars, setting, held, accepted>>

-----------------------------------------------------------------------------
(* _MemoryStore: no method suspends, so each is one step; between the load *)
(* and the update of a rotation the others run.                            *)

MemSave(p, x) ==
  /\ p \notin used /\ used' = used \cup {p}
  /\ held' = [held EXCEPT ![p] = x]
  /\ accepted' = [accepted EXCEPT ![p] = "memory"]
  /\ UNCHANGED <<doc, files, made, step, job, abandoned, leaky>>

MemRotate(c, p) ==
  /\ held[p] # NoContent
  /\ Call(c, "idle", "load", p, NoContent, "rotating")
  /\ UNCHANGED <<used, held, accepted>>

\* The entry is written whether or not the pulse is still there.
MemUpdate(c, p, x) ==
  /\ step[c] = "rotating" /\ job[c].pulse = p /\ Return(c)
  /\ held' = [held EXCEPT ![p] = x]
  /\ accepted' = [accepted EXCEPT ![p] = "none"]
  /\ UNCHANGED <<doc, files, made, used, abandoned, leaky>>

MemDelete(p) ==
  /\ held[p] # NoContent
  /\ held' = [held EXCEPT ![p] = NoContent]
  /\ accepted' = [accepted EXCEPT ![p] = "none"]
  /\ UNCHANGED storeVars

MemoryStep ==
  /\ \/ \E p \in Pulses, x \in Contents : MemSave(p, x)
     \/ \E c \in Clients, p \in Pulses :
          MemRotate(c, p) \/ \E x \in Contents : MemUpdate(c, p, x)
     \/ \E p \in Pulses : MemDelete(p)
     \/ \E c \in Clients : Abandon(c) /\ UNCHANGED <<held, accepted>>
  /\ UNCHANGED cloudVars

\* The pulses that somebody begins to change in a step of MongoDB or a bucket,
\* and those whose save returns in it without having met another writer.
Touched ==
  {p \in Pulses : \/ \E c \in Clients : job[c] # job'[c] /\ job'[c].pulse = p
                                        /\ job'[c].kind \in {"update", "delete"}
                  \/ \E c \in Clients : call[c] # call'[c] /\ call'[c].pulse = p
                                        /\ call'[c].kind \in {"rotate", "delete"}
                  \/ p \in leaky' \ leaky}

Returned ==
  {p \in Pulses :
     \/ \E c \in Clients : /\ job[c].kind = "save" /\ job[c].pulse = p
                           /\ step'[c] = "idle" /\ p \notin abandoned' \cup leaky'
     \/ \E c \in Clients : /\ call[c].kind = "save" /\ call[c].pulse = p
                           /\ todo'[c] = <<>> /\ p \notin torn'}

\* The ids come from one uuid4, whatever the backend.
BackendStep ==
  /\ \/ backend = "mongo" /\ StoreNext /\ UNCHANGED cloudVars
     \/ backend = "cloud" /\ CloudNext /\ UNCHANGED storeVars
  /\ accepted' = [p \in Pulses |-> IF p \in Touched THEN "none"
                                   ELSE IF p \in Returned THEN backend
                                   ELSE accepted[p]]
  /\ UNCHANGED held

\* The process ends and another one starts: requests stop where they are, and
\* the memory is gone.
Stop ==
  LET cut == {c \in Clients : step[c] # "idle" /\ job[c].kind # "load"}
      left == {c \in Clients : todo[c] # <<>> /\ call[c].kind # "load"}
  IN  /\ backend # "off" /\ backend' = "off"
      /\ step' = [c \in Clients |-> "idle"] /\ job' = [c \in Clients |-> NoJob]
      /\ abandoned' = abandoned \cup {job[c].pulse : c \in cut}
      /\ todo' = [c \in Clients |-> <<>>] /\ call' = [c \in Clients |-> NoCall]
      /\ torn' = torn \cup {call[c].pulse : c \in left}
      /\ held' = [p \in Pulses |-> NoContent]
      /\ accepted' = [p \in Pulses |-> IF accepted[p] = "memory" THEN "none"
                                                             ELSE accepted[p]]
      /\ UNCHANGED <<doc, files, made, used, leaky, service, blobs, metas,
                     named, dropped, setting>>

StorageNext ==
  \/ Connect \/ Stop
  \/ BackendStep /\ UNCHANGED routerVars
  \/ backend = "memory" /\ MemoryStep /\ UNCHANGED routerVars

StorageSpec == StorageInit /\ [][StorageNext]_storageVars

-----------------------------------------------------------------------------
(* Properties.                                                             *)

LoadableFrom(b, p) ==
  CASE b = "mongo"  -> Stored(p) /\ ~Broken(p)
    [] b = "cloud"  -> blobs[p] # NoContent /\ metas[p] = blobs[p]
    [] b = "memory" -> held[p] # NoContent

\* Once the save of a pulse has returned, whatever else runs, stops half way
\* or fails, and however often the process ends, the pulse is whole in the
\* backend that accepted it, until somebody updates, deletes or expires it.
\* (What the memory accepted lasts as long as the process.)
AcceptedIsLoadable ==
  \A p \in Pulses : accepted[p] # "none" => LoadableFrom(accepted[p], p)
=============================================================================
