---------------------------- MODULE VirtualMount ----------------------------
(***************************************************************************)
(* core/interface.py: one mount, its registered paths, the decrypted       *)
(* handles that it caches, and the readers of GET /mount/{id}/cat.  All    *)
(* readers of a cached handle share its position.                          *)
(***************************************************************************)
EXTENDS Naturals, FiniteSets, Sequences, SequencesExt

CONSTANTS
  Readers,       \* requests for /cat at one time
  Paths, Pulses, \* virtual paths; pulses registered under them
  Nothing,       \* None
  Chunks,        \* chunks of STREAM_CHUNK_BYTES in a decrypted pulse
  MaxHandles     \* MAX_CACHED_HANDLES

ASSUME MountAssumption ==
  /\ Nothing \notin Pulses \cup Paths /\ IsFiniteSet(Readers)
  /\ Chunks \in Nat /\ MaxHandles \in Nat \ {0}

VARIABLES
  live,          \* whether the manager still knows the mount
  files,         \* per path: the registered pulse
  cache,         \* per path: the cached handle
  recent,        \* the cached paths, the one not read for longest first
  heap,          \* the handles in use: pulse, position, idle for too long
  reader,        \* per reader: phase, path, pulse, handle, chunks received
  met,           \* readers whose handle somebody else has read meanwhile
  moved          \* paths registered again, until a load of the new pulse is
                 \* cached and no load of another one is under way

mountVars == <<live, files, cache, recent, heap, reader, met, moved>>

NoHandle == 0
Handles  == 1..(Cardinality(Readers) + MaxHandles + 1)
Away == [phase |-> "away", path |-> Nothing, pulse |-> Nothing,
         handle |-> NoHandle, got |-> <<>>]

MountInit ==
  /\ live = TRUE /\ files = [p \in Paths |-> Nothing]
  /\ cache = [p \in Paths |-> NoHandle] /\ recent = <<>>
  /\ heap = <<>> /\ met = {} /\ moved = {}
  /\ reader = [r \in Readers |-> Away]

Loading(p, x) ==
  {r \in Readers : reader[r].phase = "loading" /\ reader[r].path = p
                   /\ reader[r].pulse = x}

\* The paths without p.
Without(paths, p) ==
  LET i == CHOOSE j \in 1..Len(paths) : paths[j] = p
  IN  IF p \notin ToSet(paths) THEN paths
      ELSE SubSeq(paths, 1, i - 1) \o SubSeq(paths, i + 1, Len(paths))

\* What becomes of the handles: those that nothing refers to are collected.
HeapBecomes(new) ==
  heap' = [h \in {h \in DOMAIN new : \/ \E p \in Paths : cache'[p] = h
                                     \/ \E r \in Readers : reader'[r].handle = h}
             |-> new[h]]

\* The files of a mount are registered when it is created, and later.
Register(p, x) ==
  /\ live /\ files[p] # x
  /\ files' = [files EXCEPT ![p] = x]
  /\ moved' = IF files[p] = Nothing THEN moved ELSE moved \cup {p}
  /\ UNCHANGED <<live, cache, recent, heap, reader, met>>

\* The cached handles are flushed; streams go on with the handles they have.
Destroy ==
  /\ live /\ live' = FALSE
  /\ cache' = [p \in Paths |-> NoHandle] /\ recent' = <<>>
  /\ UNCHANGED <<files, reader, met, moved>> /\ HeapBecomes(heap)

\* The next mount, when nobody reads of this one any more: they share nothing.
Create ==
  /\ ~live /\ live' = TRUE /\ \A r \in Readers : reader[r] = Away
  /\ files' = [p \in Paths |-> Nothing] /\ moved' = {}
  /\ UNCHANGED <<cache, recent, heap, reader, met>>

-----------------------------------------------------------------------------
(* open_file.                                                              *)

Responding(r, p, h) ==
  reader' = [reader EXCEPT ![r] =
    [Away EXCEPT !.phase = "responding", !.path = p, !.handle = h]]

\* A handle that has been idle for too long is dropped by the look-up.
Open(r, p) ==
  LET h == cache[p]
      expired == h # NoHandle /\ heap[h].idle
  IN  /\ reader[r].phase = "away"
      /\ live /\ files[p] # Nothing       \* otherwise a 404
      /\ IF h # NoHandle /\ ~expired
           THEN Responding(r, p, h) /\ UNCHANGED <<cache, recent>>
           ELSE /\ reader' = [reader EXCEPT ![r] =
                     [Away EXCEPT !.phase = "loading", !.path = p,
                                  !.pulse = files[p]]]
                /\ cache' = [cache EXCEPT ![p] = NoHandle]
                /\ recent' = Without(recent, p)
      /\ met' = met \ {r}
      /\ UNCHANGED <<live, files, moved>> /\ HeapBecomes(heap)

\* Variant: the cap is noticed one handle too late.
FullTooLate == Len(recent) > MaxHandles

Full == Len(recent) >= MaxHandles

\* The path read longest ago makes room at the cap.
Gone == IF Full THEN {Head(recent)} ELSE {}
Kept == IF Full THEN Tail(recent) ELSE recent

\* Variant: a handle that another reader has cached meanwhile stays.
PutIfAbsent(p, h) ==
  IF cache[p] # NoHandle THEN UNCHANGED <<cache, recent>>
  ELSE /\ cache' = [q \in Paths |-> IF q = p THEN h
                      ELSE IF q \in Gone THEN NoHandle ELSE cache[q]]
       /\ recent' = Append(Kept, p)

\* put_handle: a path makes room also for a handle that replaces another.
PutHandle(p, h) ==
  /\ cache' = [q \in Paths |-> IF q = p THEN h
                  ELSE IF q \in Gone THEN NoHandle ELSE cache[q]]
  /\ recent' = Append(Without(Kept, p), p)

\* Load and unseal are done.  The handle goes into the mount object; if the
\* mount has been destroyed meanwhile the request ends with an error, and the
\* object with it.
Loaded(r) ==
  LET p == reader[r].path
      x == reader[r].pulse
      h == CHOOSE h \in Handles : h \notin DOMAIN heap
      new == [k \in DOMAIN heap \cup {h} |->
                IF k = h THEN [pulse |-> x, pos |-> 0, idle |-> FALSE]
                         ELSE heap[k]]
  IN  /\ reader[r].phase = "loading"
      /\ IF live
           THEN /\ PutHandle(p, h) /\ Responding(r, p, h)
                /\ moved' = IF x = files[p] /\ \A y \in Pulses \ {x} : Loading(p, y) = {}
                              THEN moved \ {p} ELSE moved
           ELSE /\ reader' = [reader EXCEPT ![r] = Away]
                /\ UNCHANGED <<cache, recent, moved>>
      /\ UNCHANGED <<live, files, met>> /\ HeapBecomes(new)

-----------------------------------------------------------------------------
(* The stream of a response: each read is followed by a suspension.        *)

\* Variant: the first read goes on where the handle stands.
StartAnywhere(r) == heap[reader[r].handle].pos

\* The first read rewinds the handle.
Start(r) == IF reader[r].phase = "responding" THEN 0
            ELSE heap[reader[r].handle].pos

Sharing(r) == {q \in Readers \ {r} : /\ reader[q].handle = reader[r].handle
                                     /\ reader[q].phase = "streaming"}

\* A read makes the path the most recent one.  At the end it is empty.  Of what
\* is received, one chunk more than there are is kept: enough to be wrong.
ReadChunk(r) ==
  LET h == reader[r].handle
      p == reader[r].path
      at == Start(r)
      more == at < Chunks
  IN  /\ reader[r].phase \in {"responding", "streaming"}
      /\ reader' = [reader EXCEPT
           ![r].phase = IF more THEN "streaming" ELSE "served",
           ![r].got = IF more /\ Len(@) <= Chunks THEN Append(@, at) ELSE @]
      /\ recent' = IF cache[p] = h THEN Append(Without(recent, p), p) ELSE recent
      /\ met' = met \cup Sharing(r)
      /\ UNCHANGED <<live, files, cache, moved>>
      /\ HeapBecomes([heap EXCEPT ![h].pos = IF more THEN at + 1 ELSE at,
                                  ![h].idle = FALSE])

\* The response is complete, the client disconnects, or the load has failed.
Quit(r) ==
  /\ reader[r].phase # "away"
  /\ reader' = [reader EXCEPT ![r] = Away] /\ met' = met \ {r}
  /\ UNCHANGED <<live, files, cache, recent, moved>> /\ HeapBecomes(heap)

\* Nobody has read the handle for HANDLE_TTL_SECONDS.
Idle(h) ==
  /\ heap' = [heap EXCEPT ![h].idle = TRUE]
  /\ UNCHANGED <<live, files, cache, recent, reader, met, moved>>

MountNext ==
  \/ \E p \in Paths, x \in Pulses : Register(p, x)
  \/ Destroy \/ Create
  \/ \E r \in Readers : \/ \E p \in Paths : Open(r, p)
                        \/ Loaded(r) \/ ReadChunk(r) \/ Quit(r)
  \/ \E h \in DOMAIN heap : Idle(h)

MountSpec == MountInit /\ [][MountNext]_mountVars

-----------------------------------------------------------------------------
(* Properties.                                                             *)

\* A response is the whole pulse in order, as its Content-Length says, unless
\* somebody else has read the same handle since its first chunk.
WholeUnlessShared ==
  \A r \in Readers \ met :
    reader[r].phase = "served" => reader[r].got = [i \in 1..Chunks |-> i - 1]

\* A handle of another pulse than the registered one is found under a path
\* only after the path was registered again, and before the new pulse has
\* been cached with no older load under way.
StaleOnlyWhileMoved ==
  \A p \in Paths \ moved :
    cache[p] # NoHandle => heap[cache[p]].pulse = files[p]

\* The cache stays at its cap, and its order names what is in it.
CacheBounded ==
  /\ Cardinality({p \in Paths : cache[p] # NoHandle}) <= MaxHandles
  /\ ToSet(recent) = {p \in Paths : cache[p] # NoHandle}
=============================================================================
