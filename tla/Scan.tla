-------------------------------- MODULE Scan --------------------------------
(***************************************************************************)
(* core/scanner.py and POST /scan of main.py.  A thread walks a directory  *)
(* tree and puts what it finds into a bounded queue; coroutines take it    *)
(* out and sort it by directory.  The request scans twice, for samples and *)
(* for the manifests, seals and stores one pulse per manifest, and stores  *)
(* the master pulse of them last (MerkleTree).                             *)
(***************************************************************************)
EXTENDS MerkleTree, Integers, FiniteSets, SequencesExt

CONSTANTS
  Entries, Dirs,     \* files and directories; those that are directories
  Root, Parent,      \* the scanned one; per entry but Root its directory
  Hidden,            \* names that begin with a dot or have a skipped extension
  Recursive,         \* the mode of the request, or shallow
  MaxDepth,          \* of the request; -1: no limit
  Workers,           \* consumer coroutines
  QueueSize,         \* SCAN_QUEUE_SIZE
  Sentinel           \* _SENTINEL

ASSUME ScanAssumption ==
  /\ Dirs \subseteq Entries /\ Root \in Dirs /\ Hidden \subseteq Entries \ {Root}
  /\ Parent \in [Entries \ {Root} -> Dirs] /\ Sentinel \notin Entries
  /\ Recursive \in BOOLEAN /\ QueueSize \in Nat \ {0} /\ Workers # {}
  /\ {"get", "left", "failed"} \cap (Entries \cup {Sentinel}) = {}

VARIABLES
  stack, unread,   \* the producer: directories to walk, entries of the current
  producer,        \* "walking", or "ended" after the sentinel
  queue,           \* raw_queue
  worker,          \* per worker: "get", an item in its hands, "left", "failed"
  listed,          \* per entry: how often it was put into its bucket
  lost,            \* entries given up after an OSError
  round,           \* 1: scan_samples, 2: scan
  phase,           \* of the request
  stored,          \* the sealed manifests, in their order
  master           \* the master pulse

walkVars == <<stack, unread, producer>>
scanVars == <<walkVars, queue, worker, listed, lost, round, phase, stored, master>>

Depth[d \in Dirs] == IF d = Root THEN 0 ELSE Depth[Parent[d]] + 1
Children(d) == {e \in Entries \ {Root} : Parent[e] = d /\ e \notin Hidden}

\* An entry and what contains it, up to the root: the least set with the entry
\* that has the directory of each of its members.
Path == [e \in Entries |->
          {a \in Entries : \A S \in SUBSET Entries :
             e \in S /\ (\A x \in S \ {Root} : Parent[x] \in S) => a \in S}]

\* Links are not followed: what is scanned is a tree.
ASSUME TreeAssumption == \A e \in Entries : Root \in Path[e]

Below(S) == {e \in Entries : Path[e] \cap S # {}}

TooDeep(d) == MaxDepth >= 0 /\ Depth[d] > MaxDepth

NoMaster == [shards |-> <<>>, root |-> <<>>]

ScanInit ==
  /\ stack = <<Root>> /\ unread = {} /\ producer = "walking" /\ queue = <<>>
  /\ worker = [w \in Workers |-> "get"]
  /\ listed = [e \in Entries |-> 0] /\ lost = {}
  /\ round = 1 /\ phase = "scanning"
  /\ stored = <<>> /\ master = NoMaster

requestVars == <<round, phase, stored, master>>

-----------------------------------------------------------------------------
(* The producer thread.  It blocks on a full queue.                        *)

Room == Len(queue) < QueueSize

OpenDir ==
  /\ unread = {} /\ stack # <<>>
  /\ stack' = Front(stack)
  /\ unread' = IF TooDeep(Last(stack)) THEN {} ELSE Children(Last(stack))
  /\ UNCHANGED <<producer, queue, worker, listed, lost, requestVars>>

\* The entry is in the queue when its type is asked for.  If that fails, the
\* rest of its directory is given up, and whatever it contains.
PutEntry(e) ==
  /\ e \in unread /\ Room /\ queue' = Append(queue, e)
  /\ \/ /\ unread' = unread \ {e}
        /\ stack' = IF e \in Dirs /\ Recursive THEN Append(stack, e) ELSE stack
        /\ UNCHANGED lost
     \/ unread' = {} /\ lost' = lost \cup (Below(unread) \ {e}) /\ UNCHANGED stack
  /\ UNCHANGED <<producer, worker, listed, requestVars>>

\* Reading the directory fails, at the beginning or on the way.
GiveUp ==
  /\ unread # {} /\ unread' = {} /\ lost' = lost \cup Below(unread)
  /\ UNCHANGED <<stack, producer, queue, worker, listed, requestVars>>

\* Variant: one sentinel for each of two workers.
PutSentinels ==
  /\ producer = "walking" /\ unread = {} /\ stack = <<>> /\ Room
  /\ queue' = queue \o <<Sentinel, Sentinel>> /\ producer' = "ended"
  /\ UNCHANGED <<stack, unread, worker, listed, lost, requestVars>>

PutSentinel ==
  /\ producer = "walking" /\ unread = {} /\ stack = <<>> /\ Room
  /\ queue' = Append(queue, Sentinel) /\ producer' = "ended"
  /\ UNCHANGED <<stack, unread, worker, listed, lost, requestVars>>

Producer == OpenDir \/ (\E e \in Entries : PutEntry(e)) \/ GiveUp \/ PutSentinel

-----------------------------------------------------------------------------
(* The workers, coroutines of one event loop.                              *)

Becomes(w, x) == worker' = [worker EXCEPT ![w] = x]

Take(w) ==
  /\ worker[w] = "get" /\ queue # <<>>
  /\ Becomes(w, Head(queue)) /\ queue' = Tail(queue)
  /\ UNCHANGED <<walkVars, listed, lost, requestVars>>

\* Variant: a worker that finds nothing for 50 ms leaves.
LeaveWhenEmpty(w) ==
  /\ worker[w] = "get" /\ queue = <<>> /\ Becomes(w, "left")
  /\ UNCHANGED <<walkVars, queue, listed, lost, requestVars>>

\* Nothing for 50 ms: the worker leaves if nothing can come any more.
TimeOut(w) ==
  /\ worker[w] = "get" /\ queue = <<>> /\ producer = "ended"
  /\ Becomes(w, "left")
  /\ UNCHANGED <<walkVars, queue, listed, lost, requestVars>>

\* The put of the event loop itself: a full queue would stop the process.
PassOn(w) ==
  /\ worker[w] = Sentinel /\ Room
  /\ queue' = Append(queue, Sentinel) /\ Becomes(w, "left")
  /\ UNCHANGED <<walkVars, listed, lost, requestVars>>

\* The entry is put into the bucket of its directory.  If stat fails it is
\* skipped; if its type cannot be read the worker fails, and with it the scan,
\* while the other workers go on.
ListEntry(w) ==
  LET e == worker[w]
  IN  /\ e \in Entries
      /\ \/ /\ listed' = [listed EXCEPT ![e] = @ + 1]
            /\ Becomes(w, "get") /\ UNCHANGED <<lost, phase>>
         \/ lost' = lost \cup {e} /\ Becomes(w, "get") /\ UNCHANGED <<listed, phase>>
         \/ /\ Becomes(w, "failed") /\ lost' = lost \cup {e} /\ UNCHANGED listed
            /\ phase' = IF phase = "scanning" THEN "failed" ELSE phase
      /\ UNCHANGED <<walkVars, queue, round, stored, master>>

Work(w) == Take(w) \/ TimeOut(w) \/ PassOn(w) \/ ListEntry(w)

-----------------------------------------------------------------------------
(* The request.                                                            *)

Gathered ==
  /\ phase = "scanning" /\ producer = "ended"
  /\ \A w \in Workers : worker[w] = "left"

\* The samples train a dictionary; then everything is scanned again, with a
\* queue, buckets and a thread of its own.
ScanAgain ==
  /\ Gathered /\ round = 1 /\ round' = 2
  /\ stack' = <<Root>> /\ producer' = "walking" /\ queue' = <<>>
  /\ worker' = [w \in Workers |-> "get"]
  /\ listed' = [e \in Entries |-> 0] /\ lost' = {}
  /\ UNCHANGED <<unread, phase, stored, master>>

Ends(how) ==
  phase' = how /\ UNCHANGED <<walkVars, queue, worker, listed, lost, round>>

StartSealing ==
  Gathered /\ round = 2 /\ Ends("sealing") /\ UNCHANGED <<stored, master>>

Manifests == {Parent[e] : e \in {e \in Entries : listed[e] > 0}}

SealManifest ==
  /\ phase = "sealing"
  /\ \E d \in Manifests \ ToSet(stored) : stored' = Append(stored, d)
  /\ UNCHANGED <<phase, master>>
  /\ UNCHANGED <<walkVars, queue, worker, listed, lost, round>>

\* build_master_pulse; a scan that found nothing is answered without one.
MasterOf(shards) ==
  IF shards = <<>> THEN NoMaster
                   ELSE [shards |-> shards, root |-> MerkleRoot(shards)]

\* Variant: the master pulse is stored before the last shard.
SaveMasterEarly ==
  /\ phase = "sealing" /\ Cardinality(Manifests \ ToSet(stored)) <= 1
  /\ master' = MasterOf(stored) /\ Ends("answered") /\ UNCHANGED stored

SaveMaster ==
  /\ phase = "sealing" /\ Manifests = ToSet(stored)
  /\ master' = MasterOf(stored) /\ Ends("answered") /\ UNCHANGED stored

\* The training, a seal, a save or the save of the master pulse raises: what
\* has been stored stays.
RequestFails ==
  /\ \/ Gathered /\ round = 1
     \/ phase = "sealing"
  /\ Ends("failed") /\ UNCHANGED <<stored, master>>

\* The request is cancelled and its workers with it, but not the thread.
CancelScan ==
  /\ phase \in {"scanning", "sealing"} /\ phase' = "cancelled"
  /\ worker' = [w \in Workers |-> "left"]
  /\ UNCHANGED <<walkVars, queue, listed, lost, round, stored, master>>

Request == ScanAgain \/ StartSealing \/ SealManifest \/ SaveMaster

Over == phase \in {"answered", "failed", "cancelled"}
Gone == {w \in Workers : worker[w] \in {"left", "failed"}}

\* Nothing is left to do, or the thread is blocked for good.
Finished ==
  /\ Over /\ Gone = Workers /\ (producer = "walking" => ~Room /\ (unread # {} \/ stack = <<>>))
  /\ UNCHANGED scanVars

ScanNext ==
  \/ Producer \/ (\E w \in Workers : Work(w))
  \/ Request \/ RequestFails \/ CancelScan \/ Finished

\* The thread is scheduled, a file can be read to its end, and what the request
\* awaits ends.
ScanSpec ==
  /\ ScanInit /\ [][ScanNext]_scanVars
  /\ WF_scanVars(Producer) /\ WF_scanVars(Request)
  /\ \A w \in Workers : WF_scanVars(Work(w))

-----------------------------------------------------------------------------
(* Properties.                                                             *)

Unwalked(d) == TooDeep(d) \/ (~Recursive /\ d # Root)

\* What a scan should find: what no hidden directory contains, down to the
\* depth of the request, and in the root alone if the mode is shallow.
Expected ==
  {e \in Entries \ {Root} :
     Path[e] \cap Hidden = {} /\ \A d \in Path[Parent[e]] : ~Unwalked(d)}

\* The manifests that are sealed list every entry exactly once, but for those
\* that an error of the file system hid.
ScanIsPartition ==
  phase \in {"sealing", "answered"} =>
    \A e \in Entries : listed[e] = IF e \in Expected \ lost THEN 1 ELSE 0

\* A worker that has the sentinel finds room for it: the event loop never
\* blocks on the queue.
LoopNeverBlocks == \A w \in Workers : worker[w] = Sentinel => queue = <<>>

\* A scan that was answered has a master pulse of all that it stored.
MasterComplete ==
  phase = "answered" =>
    /\ ToSet(stored) = {Parent[e] : e \in Expected \ lost}
    /\ master.shards = stored

\* The root of a master pulse and the number of its shards fix the shards and
\* their order.
RootFixesShards ==
  master # NoMaster =>
    \A other \in [1..Len(master.shards) -> Dirs] :
      MerkleRoot(other) = master.root => other = master.shards

\* Every scan ends.
ScanEnds == <>Over

\* Its thread ends too, unless the request was cancelled or every worker has
\* failed: then a full queue keeps it.
ThreadEnds ==
  <>[](producer = "ended" \/ phase = "cancelled"
         \/ \A w \in Workers : worker[w] = "failed")
=============================================================================
