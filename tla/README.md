# QuantumPulse: TLA+ models and proofs

QuantumPulse seals payloads into *pulses* (MsgPack, Zstandard with a trained
dictionary, AES-256-GCM) and stores them in MongoDB/GridFS, S3 or GCS behind a
FastAPI server.  The cryptography is straight-line code that a unit test
reaches.  What a test hardly reaches is around it: one event loop runs many
requests whose `await`s interleave, dictionaries are retrained while pulses are
sealed with them, a circuit breaker and a bulkhead stand before the database,
a pulse is stored by several database commands, or by two objects of a bucket,
master keys are derived in a thread pool, readers of a mount share file handles
and a scan shares a bounded queue with a thread.  That is what the modules of
this directory model and check with TLC; every safety property that a run
checks is also proved with TLAPS, for every value of the constants.

`PROJECT.json` maps every definition to the lines it stands for.

## 1. Inventory of the system

| Component (source) | State it keeps | Operations | Hard part | Correct when |
|---|---|---|---|---|
| Adaptive dictionary manager (`core/adaptive.py`) | sample buffer, counters, list of dictionary versions, `_current`, retrain lock | `record_seal`, `force_retrain`, `load_dict_bytes`, `compressor`, `compressor_for_version` | tasks suspended in the lock, the training and the A/B test; failures inside the lock | one retrain at a time, no lost wakeup, numbers name one dictionary each |
| Engine (`core/engine.py`, `core/compression.py`) | manager, fallback trainer | `seal`, `unseal`, `bootstrap_dict`, `benchmark`, master pulses | version read awaits after it was used; eviction; restarts | what is sealed can be unsealed |
| Circuit breaker (`core/retry.py`) | state, failures, opening time | `call`, `state`, `status` | calls end after the state they were admitted in is gone | fields agree; leaves OPEN in time; closes with a healthy backend |
| Bulkhead (`core/retry.py`) | semaphore, gauge | `async with` | cancelled waiters, hand-over of slots | no slot lost or made, no lost wakeup |
| Retry and database access (`core/retry.py`, `main.py`) | attempts of each request | `with_retry` around bulkhead around circuit | what is held while waiting, pausing, failing, refused, cancelled | every request is answered, nothing leaks |
| MongoDB/GridFS storage (`core/db.py`) | documents of `pulse_meta`, GridFS files, the in-process fallback | `connect`, `save_pulse`, `load_pulse`, `update_pulse`, `delete_pulse`, master pulses | each is several commands; overlapping callers; TTL job; stopping half way; a fallback that ends with the process | blob and metadata belong together; what was accepted can be loaded |
| S3 and GCS storage (`core/storage_*.py`) | two objects per pulse | the same four | two puts without a pointer between them | a pulse is torn only by overlapping or abandoned writers |
| Key vault (`core/vault.py`) | passphrase, master key, sub-key cache | `unlock`, `lock`, `change_passphrase`, `derive_shard_key`, `rotate_shard` | `await` between test and store; a cache filled after it | the master key is that of the passphrase; a sub-key is of the master key it was asked from |
| Audit log (`core/audit.py`, `main.py`) | a file, a collection | `emit`, one builder per event | order of a record and its event; how a failure is told | a success record tells of a success |
| Virtual mount (`core/interface.py`) | mounts, registered files, cached handles | `register_file`, `open_file`, `cat`, `flush_handles`, destruction | handles shared by readers; expiry and eviction; a load under way when the path moves | a reader gets the bytes of the registered pulse |
| Scanner (`core/scanner.py`, `POST /scan`) | bounded queue, buckets, shards | producer thread, workers, seals, master pulse | a thread and coroutines share a queue and one sentinel | every entry lands in exactly one manifest; the scan ends |
| Scheduler (`core/scheduler.py`) | jobs | daily retrain, TTL cleanup, self test | jobs meet requests | as the components they call |
| Health checks (`core/health.py`) | none | engine check, others that only read | the engine check seals with the dictionaries of the moment | a healthy service is not called unready |
| Command line (`cli.py`) | files; MongoDB, shared with the server | `seal`, `unseal`, `rotate`, `scan`; others that only read | each command is a process that may stop anywhere; files are overwritten | what was sealed can be unsealed by a later command |
| Auth, middleware, config, metrics, scripts | none that spans steps | | | |

**Interactions.**  `main.py` creates one engine, one manager and one database
object per process.  A `seal` request hands a sample to the manager in a task
of its own, compresses in a thread pool with the manager's current dictionary
(or the trainer's), encrypts in the pool, reads the manager's version for the
metadata and saves the pulse through bulkhead and circuit.  An `unseal`, a
stream, a master pulse or a mount loads through retry, bulkhead and circuit and
decompresses with the dictionary that the metadata name.  `bootstrap` and the
daily job force a retrain; `rotate` replaces a stored pulse; the TTL job deletes
documents.  Everything runs on one event loop: between two suspension points a
coroutine is atomic, and that is the grain of the actions here.

The hazards of this code, each at its line, are listed in `PROJECT.json` with
the properties that are about them.

## 2. Modules

| Module | Models | Builds on |
|---|---|---|
| `AdaptiveDict` | `AdaptiveDictManager` | |
| `DictRegister` | what the manager promises, without locks and tasks | refined by `AdaptiveDict` |
| `Engine` | `QuantumEngine` of the server on the manager, the fallback trainer, the engine check of `/healthz`, restarts | `AdaptiveDict` |
| `CircuitBreaker` | `CircuitBreaker` | |
| `Bulkhead` | `Bulkhead` and the `asyncio.Semaphore` in it: operators and the ways out | |
| `DbAccess` | `_load_blob`, seal, upload, rotate and scan: retry, bulkhead and circuit together | `Bulkhead`, `INSTANCE CircuitBreaker` |
| `PulseContents` | the constants that the stores share | |
| `PulseStore` | `PulseDB` on MongoDB/GridFS, command by command, and the TTL job | `PulseContents` |
| `CloudStore` | `S3Store` and `GCSStore`, request by request | `PulseContents` |
| `Storage` | `PulseDB` over a backend chosen by `connect`, with the in-process fallback, process after process | `PulseStore`, `CloudStore` |
| `KeyVault` | `QuantumVault` shared by the requests of a process | |
| `Server` | the handlers of a pulse's life in `main.py`, the audit record of each, rotation | `KeyVault` |
| `VirtualMount` | a mount, its handle cache and the readers of `cat` | |
| `MerkleTree` | `build_merkle_tree` as a recursive function | |
| `Scan` | the scanner's thread, queue and workers, and `POST /scan` to its master pulse | `MerkleTree` |
| `Commands` | the commands of `qp` as processes beside a server | |
| `MC...` | value definitions and symmetry sets for TLC | the module of that name |
| `Engine_proofs` | theorems about the manager and the engine | `Engine` |
| `CircuitBreaker_proofs` | theorems about the circuit | `CircuitBreaker` |
| `DbAccess_proofs` | theorems about the semaphore and the requests | `DbAccess`, `INSTANCE CircuitBreaker_proofs` |
| `Storage_proofs` | theorems about MongoDB, the buckets and the choice between them | `Storage` |
| `Server_proofs` | theorems about the vault and the server | `Server` |
| `VirtualMount_proofs`, `Scan_proofs`, `Commands_proofs` | theorems about the component of that name | the module of that name |

Definitions whose comment begins with *Variant:* are not part of any
specification.  Each is a definition of the module as a plausible bug would
have it, kept beside the original so that one can see that a property notices.

### AdaptiveDict

The buffer is its length, a dictionary is a model value, the A/B test is the
improvement it reports.  `pc[t]` says where a coroutine of `_retrain` is
suspended: `waiting` for `_retrain_lock`, `training` or `testing` in the pool.

* `RecordSeal` / `ForceRetrain`: the call up to its first suspension, with the
  early return "lock held and not forced" in `Retrain`, the wait in `Queue` and
  the too-few-samples return in `StartTraining`.
* `LockGranted`: `asyncio.Lock` hands the lock to the first waiter only when
  that waiter runs.  In between `locked()` is false and the queue is not empty;
  a `record_seal` that lands there passes the test and joins the queue.
* `TrainingDone`, `TestingDone`, `RetrainFails`: the resumptions.  A commit is
  `Committed` (insert in front, cut at `KeepVersions` = 3).
* `LoadDict`: takes no lock, so it may land between any two steps.  Nothing in
  the server calls it; the run `AdaptiveDict` includes it, the runs of `Engine`
  do not.

### Engine

`Engine` extends the manager.  A pulse has a `frame` (the dictionary it was
compressed with) and `recorded` (its `dict_version`); the steps of `seal` are
`SealStart`, `Compress`, `RecordVersion`, `SealFails`.  `DecompressionDict` is
`_decompress`.  `EngineCheck` begins the check of `/healthz`, which seals a
payload of its own by the same steps and unseals it in `CheckEnds`; `SealFails`
is its timeout too.  `Bootstrap` and `ManagerStep` follow `bootstrap_dict`
through the manager to the trainer; `BenchmarkTrains` is `POST /benchmark`;
`ScheduledRetrain` the daily job.  `Restart` empties what lives in memory and
keeps the sealed pulses.

### CircuitBreaker, Bulkhead, DbAccess

The breaker's clock is `age`, the ticks since `_opened_at` up to
`RecoveryTimeout`.  `StateRead` is the `state` property, whose reading moves
OPEN to HALF_OPEN.  A cancelled call (`CancelledError` is no `Exception`)
leaves the breaker as it is.  `ended` is history, how the last call to end has
ended: without it a success in a closed circuit without failures would be the
same step as a cancellation, and a property could not tell a late success from
a late failure.

The semaphore is modelled as CPython's `asyncio.Semaphore`: a released slot is
taken at once for the first waiter, which enters when it is resumed.
`DbAccess` composes the layers: `Attempt` enters the bulkhead (or queues) and
asks the circuit in the same step, `Succeeds`, `Breaks` and `Refused` (an
unknown pulse: the `KeyError` passes through the circuit before it becomes a
404) leave both, `Breaks` puts a load to sleep outside the bulkhead while
attempts remain, `CancelRequest` may strike anywhere.

### PulseStore, CloudStore, Storage

One step is one database command.  `Save`, `Update`, `Delete` and `Load` begin
a method of `PulseStore`; `Find`, `Drop`, `Upload`, `Replace`, `Erase`,
`LoadFind` and `LoadRead` are its commands; `Abandon` stands for an error, a
cancellation or the end of the process between two; `DropFails` for the
suppressed error of a file's deletion; `Expire` for the TTL job.  A rotation is a
load that ends in `Loaded` at the step `rotating`, and `Update`, which asks for
nothing: a pulse that is deleted in between is stored again.  GridFS ids are
numbers given once.  `used`, `abandoned` and `leaky` are history for the
properties: no guard but the freshness of a saved id reads them.

In `CloudStore` a method is the sequence of its requests (`S3Save`,
`GcsDelete`, ...), which `todo` holds for each client; each request is an
action.  The classes differ in their delete: S3 looks for the blob first, GCS
learns from the 404 of the first deletion.  A rotation is a load followed by the
update of what was loaded.  `dropped` is history: the pulses whose blob a delete
has dropped.

`Storage` chooses: `Connect` takes the bucket of the settings, or MongoDB, or,
if that cannot be reached, the dictionaries of `_MemoryStore`; `Stop` is the end
of the process, and the next one chooses anew.  In the memory a method is one
step, and a rotation two (`MemRotate`, `MemUpdate`).

### KeyVault, Server

PBKDF2 and HKDF are free: a master key is a passphrase and the number of its
salt, a sub-key its master key, pulse and salt.  A request in the pool is at
`pbkdf2` or `hkdf`; `MasterReady` and `SubKeyReady` store what arrives.  `raced`
says that the last change of the passphrase met a derivation under way.

`Server` runs the handlers between their awaits: `step` says where a handler
is, `work` what it holds and what it has recorded.  `Emit` writes the audit
record, or gives it up silently, and awaits MongoDB if there is one.
`RotateUnlock`, `RotateUnlocked` and `RotateShard` are `/pulse/rotate`.

### VirtualMount

A handle is a number in `heap`; `cache` names the handle of a path and `recent`
the order of the cache.  `Open` finds a cached handle or begins a load, `Loaded`
caches it (evicting through `PutHandle`), `Start` seeks it to its beginning and
`ReadChunk` yields one chunk.  `Register`, `Idle` (the time to live) and
`Destroy` may come between any two of these.  `Without` takes a path out of the
order, which has each path once.  `met` and `moved` are history for the
properties.

### Scan, MerkleTree

`OpenDir`, `PutEntry`, `GiveUp` and `PutSentinel` are the thread; `Take`,
`TimeOut`, `PassOn` and `ListEntry` a worker; `ScanAgain` begins the second
round, `SealManifest` stores a shard and `SaveMaster` the master pulse.
`Recursive` is the mode of the request: the others put what the root contains
into the queue and go no deeper.  A manifest is its directory.  `Path` is what contains an entry, up to the root, as
the least set that is closed under the parent; `TreeAssumption` says that links
are not followed.  `MerkleRoot` is the pairing of `build_merkle_tree`
with free hashes: a node is the pair of what it hashes.

### Commands

A process has an engine with a passphrase and a trainer.  `Seal` ends in
`OpenFile` and `WriteFile` (`--offline`), or in `SavePulse`; `UnsealPulse` and
`UnsealFile` read, `Unsealed` decrypts; `WriteOutput` is `--output`;
`RotateLoad` and `RotateShard`, `Scan`, `Train` and `SealShard` are the other
commands; `Leave` stops a process anywhere.  `ServerSeals` and `ServerDeletes`
are a server on the same database.  `kept` is history: where `qp seal` has
stored a pulse, until a file is written over or a pulse deleted.

## 3. Runs

TLC explores every state of each instance.  Except where "violation" is said
the properties hold.

| Run | Instance | Question |
|---|---|---|
| `AdaptiveDict` | 3 coroutines, 2 dictionaries, gains below/at zero/at the threshold, buffer of 3, `load_dict_bytes` | one trainer; lock queue exact; `_current` is `_versions[0]`; every coroutine comes back |
| `EngineBootstrap` | 2 coroutines, no pulses, versions beyond the kept window | numbers without gap; the manager implements `DictRegister`; bootstraps end |
| `Engine` | 1 pulse, 1 engine check, 2 coroutines, kept window of 2, 3 versions, 1 restart | what carries the right number is readable inside the window; readability is lost only for known causes; the engine check fails only if a dictionary was replaced while it ran |
| `EngineWrongVersion` | 1 pulse | *violation*: the recorded version is not the one used |
| `CircuitBreaker` | 3 calls, threshold 2, timeout 2 | fields agree; OPEN becomes half-open in time only, and closes by a success only; closes with a healthy backend |
| `DbAccess` | 2 loads, 1 save, 1 upload, 2 slots, 3 attempts | no slot or wakeup lost; calls hold slots; the circuit is asked when the slot has come and told of each attempt before the pause; everyone is answered |
| `Storage` | 3 clients, 1 pulse, an inline and two large contents, 2 files, every backend | MongoDB: blob matches metadata, broken only while a writer is at work or was abandoned, no orphans but for named causes; buckets: torn only by overlap, loads return pairs, only a delete leaves metadata without a blob; what a backend accepted it can load |
| `Server` | 2 requests, 1 pulse, 2 passphrases, 3 master keys, with and without MongoDB, restarts | the master key is that of the passphrase; sub-keys are of their master key; the audit log tells the truth but for named causes; what is stored can be unsealed |
| `ServerRotate` | the same | *violation*: a rotation with the right passphrase fails |
| `VirtualMount` | 2 readers, 2 paths, 2 pulses of 2 chunks, a cache of 1 | a response is whole unless its handle was shared; stale handles only after a registration; the cache keeps its cap |
| `Scan` | 9 entries with a hidden one and one too deep, the recursive mode, 2 workers, a queue of 2 | every entry listed once or lost to an error; the event loop never blocks; the master pulse is complete and its root fixes its shards; scan and thread end |
| `Commands` | 3 processes, 2 pulses, 1 file name, 2 passphrases, 1 dictionary | what `qp seal` stored a later command unseals |

### Bounds and why they are enough

The theorems of section 4 hold for every value of the constants, so for safety
the instances only have to make the interesting cases happen; the bounds carry
weight for liveness.

* *Coroutines of the manager*: two contend for the lock; with the third there is
  a queue of one behind a hand-over window, which is where the lock's rules
  differ from a plain mutex.
* *Versions*: the code keeps three.  `Engine` keeps two and commits three,
  `EngineBootstrap` keeps two and commits four, so that eviction happens.
* `MaxSeals`, `MaxVersion`, `MaxFailures`, `MaxFiles`, `MaxProbes`,
  `MaxRestarts`, `MaxSalts` are bounds of a run.  Each is only a guard and is
  named in the module that declares it.  `MaxFailures` exceeds the threshold, so
  that calls fail after the circuit has opened.  `MaxSeals` of the `Engine` runs
  is not reached: the samples come from the seals and checks.  In `Engine` the
  one pulse id serves the engine check first and a seal after it.
* *Database access*: four requests on two slots give a queue of two and every
  combination of guarded and unguarded neighbours.
* *Storage*: all three clients meet on one pulse; pulses do not interact, since
  files are reached only through the document of their own pulse, which
  `BlobAlwaysMatchesMeta` proves for any number of pulses, and the objects of a
  bucket are named by their pulse.  Two files allow an uploaded blob to be
  replaced.
* *Server*: two requests are the two sides of every race of the vault; three
  master keys are the first, one of a derivation and one of a change or of the
  next process.
* *Mount*: a cache of one evicts on every second path.  A response has room
  for one chunk more than a pulse has, so that too long a response shows.
* *Scan*: a queue of two fills up with nine entries; two workers are the ones
  that hand the sentinel over.  The tree has an entry for each case: in the
  root, in a directory, hidden, too deep, in a second directory.
* *Commands*: with one name every two files collide, which is what two stems
  that agree do.
* *Symmetry* is used only in runs without liveness properties, and the elements
  permuted occur in no definition.

### Deadlock

TLC checks every run for deadlock.  No run switches the check off: `Scan`, which
ends, has the step `Finished` for it, whose guard names the states in which
nothing is left to do.

### Fairness

* `AdaptiveDict`, `Engine`: the event loop resumes every coroutine whose
  future is done, and a job of the thread pool ends with a result or an
  exception (`WF` of the resumptions).  No call is assumed to come.
* `CircuitBreaker`: time passes; an admitted call ends, because the Mongo
  driver has server-selection and socket timeouts.  That callers keep coming and
  that the backend stays healthy are assumptions of `ClosesWithHealthyBackend`,
  not of the specification.
* `DbAccess`: a woken waiter runs, a pause ends, a database operation ends.
  Requests need not be sent.  Weak fairness suffices: nothing that has become
  able to proceed is disabled again except by its own cancellation.
* `Scan`: the thread is scheduled, each worker is resumed, and what the request
  awaits ends.  Weak fairness suffices for the same reason; an error or a
  cancellation is never assumed to come.
* `Storage`, `Server`, `VirtualMount` and `Commands` state no liveness: a
  method may be abandoned, and a command stopped, at every step.

## 4. What is proved

For every value of the constants (under the `ASSUME` of each module) and
checked by TLAPS:

| Module | Theorem | States |
|---|---|---|
| `Engine_proofs` | `TypeCorrect` | `TypeOK` of the manager |
| | `AtMostOneTrainer` | `OneTrainer` |
| | `QueueAlwaysExact` | `QueueExact` |
| | `CurrentAlwaysHead` | `CurrentIsHead`, with `load_dict_bytes` |
| | `AlwaysConsecutive` | `VersionsConsecutive`, if nothing calls `load_dict_bytes` |
| | `RegisterRefined` | the manager implements `DictRegister`, if nothing calls `load_dict_bytes` |
| | `ManagerKeepsPromises` | the manager's invariants inside the engine |
| | `KeptAlwaysReadable` | `KeptPulseReadable` |
| | `LossAlwaysHasCause` | `LostOnlyByKnownCauses` |
| | `ChecksFailOnlyInRetrain` | `CheckFailsOnlyInRetrain` |
| `CircuitBreaker_proofs` | `FieldsAlwaysAgree` | `FieldsAgree` |
| | `OpenLeftInTime` | `OpenIsLeftInTime` |
| `DbAccess_proofs` | `SlotsAlwaysConserved` | `SlotsConserved` |
| | `NoWakeupLost` | `NoLostWakeup` |
| | `CallsAlwaysHoldSlots` | `CallsHoldSlots` |
| | `TryingAlwaysSomewhere` | `TryingIsSomewhere` |
| | `AskedAndTold` | `AskedAndToldPerAttempt` |
| | `ServerCircuitAgrees`, `ServerCircuitLeftInTime` | the two theorems of the circuit, for the circuit of the server |
| `Storage_proofs` | `StoreTypeCorrect` | `StoreTypeOK` |
| | `BlobAlwaysMatchesMeta` | `BlobMatchesMeta` |
| | `BrokenAlwaysInWork` | `BrokenOnlyInWork` |
| | `OrphansAlwaysNamed` | `NoOrphans` |
| | `MongoAcrossRestarts` | the last three of `Storage` too: across ends of the process |
| | `TornAlwaysByOverlap` | `TornOnlyByOverlap` |
| | `LoadsAlwaysPair` | `LoadsPair` |
| | `ListedAlwaysHasBlob` | `ListedHasBlob` |
| | `AcceptedAlwaysLoadable` | `AcceptedIsLoadable` |
| `Server_proofs` | `VaultTypeCorrect` | `VaultTypeOK` |
| | `MasterAlwaysOfPassphrase`, `SubKeyAlwaysOfMaster` | `MasterOfPassphrase`, `SubKeyOfMaster` of the vault |
| | `ServerImplementsVault` | every behaviour of `Server` is one of `KeyVault` |
| | `ServerMasterOfPassphrase`, `ServerSubKeyOfMaster` | the same two of the server |
| | `AuditAlwaysTruthful` | `AuditTruthful` |
| | `StoredAlwaysUnseals` | `StoredUnseals` |
| `VirtualMount_proofs` | `UnsharedAlwaysWhole` | `WholeUnlessShared` |
| | `StaleAlwaysMoved` | `StaleOnlyWhileMoved` |
| | `CacheAlwaysBounded` | `CacheBounded` |
| `Scan_proofs` | `LoopIsNeverBlocked` | `LoopNeverBlocks` |
| | `ScansArePartitions` | `ScanIsPartition` |
| | `MastersAlwaysComplete` | `MasterComplete` |
| | `RootAlwaysFixesShards` | `RootFixesShards` |
| `Commands_proofs` | `SealedAlwaysUnseals` | `SealedUnseals` |

The assumptions are those of the modules: the constants have their types, marks
are none of the values they stand beside, and limits are numbers, positive where
a zero would leave nothing to do.
`MountAssumption` adds that the readers are finitely many, and `TreeAssumption`
that the scanned entries are a tree.

**The arguments.**

* *Manager.*  `OneTrainer` is inductive given the types: the lock is held
  exactly while somebody is busy, so whoever finds it free finds nobody busy.
  `QueueExact` follows each suspension: only a coroutine that was idle joins the
  queue, at its end, and only the first one leaves it.  `CurrentIsHead` needs
  `Candidates` (a coroutine that tests has a candidate that is a dictionary) and
  that a cut list keeps its head (`CommittedList`).  `VersionsConsecutive` is
  inductive: insertion in front adds head + 1, and the cut removes the oldest.
  Without gaps `DictOfVersion` is the entry at position `CurrentVersion + 1 - v`,
  which makes a commit a `Publish` of the register and every other step a
  stutter.
* *Engine.*  `EngineInv` is the manager's invariant, `LifeOK` (of an earlier
  process only sealed pulses are left), `NotNewer` and `Numbered` (while the
  number of a frame is kept, its dictionary is found under it) and `Ordered`:
  the version recorded for a pulse is read after the frame was made, so it is
  at least that of the frame.  A pulse that carries the right number is then
  read with the dictionary of its frame.
* *Circuit.*  `FieldsAgree` is inductive given the types; `OpenIsLeftInTime`
  follows step by step: an open circuit that is read early stays open, the
  types bound the timer by the timeout, and neither a failure nor a cancellation moves it.
* *Bulkhead and database access.*  Of each operation of the semaphore it is
  shown what it does to the slots it can still give (`Spare`) and to those in
  line.  `DBInv` adds that a request is inside or in line and never both
  (`Placed`), that the slots add up (`Conserved`), that nobody waits beside a
  free slot (`Wakes`) and that the circuit's calls are the guarded requests
  inside (`Counted`).  `AskedAndToldPerAttempt` takes from `Placed` that who
  is inside is trying, so that only a failure can bring a load from there to its
  pause; and whoever enters, at once or after a wait, asks in that step.  Each
  step is one of the circuit or leaves it alone (lemma `CircuitSteps`, which
  holds by the shape of the actions), so the theorems of the circuit carry over.
* *MongoDB.*  `StoreInv` says who may know a file.  A file that was uploaded and
  is not yet in its document is known to its writer alone (`PrivateFile`); no
  two documents name one file (`OneOwner`); a file that a writer is about to
  drop was found in the document of its own pulse (`OldIsOwn`), so a drop breaks
  no other pulse, and the writer that breaks its own is still at work.  Neither
  `BlobMatchesMeta` nor `BrokenOnlyInWork` is inductive without these.
  `OrphanInv` adds that outside the named causes a pulse has one writer
  (`SoleWriter`), which drops the very file that the document names (`Found`),
  and that afterwards neither that file nor an older one is there (`Dropped`).
* *Buckets.*  Outside `torn` a pulse has one writer at most (`SoleCloudWriter`),
  and where that writer is in its method says how far the blob is ahead of the
  metadata (`AtHand`).  A load that met nobody is alone, and what it has read is
  still there (`Unmet`).  `ListedHasBlob` is inductive with `BlobFirst`: a writer
  puts metadata only after it has put the blob, and only a delete takes a blob
  away.
* *Storage.*  A pulse that a backend accepted is whole there and nobody is
  writing it (`InMongo`, `InCloud`), so only the beginning of a writer can spoil
  it, and that is what ends the promise.  The end of the process abandons every
  method, which is a step that the invariants of the backends allow.
* *Vault.*  `VaultInv`: while the last change of the passphrase met no
  derivation, every derivation in the pool is one of the passphrase of the vault
  (`Current`), so it does not matter which ends last.  A cached sub-key is filed
  under the master key and the pulse that it was derived from (`Filed`), and a
  request that waits has no result yet (`Waiting`).
* *Server.*  `ServerInv`: a handler waits for the vault only while a rotation
  unlocks it (`AtVault`), which makes each step a step of the vault or none; it
  has a record of success only when it is over, but for a stream (`Sound`); and
  what it has loaded is what the engine sealed for its pulse, which is never the
  key that a rotation asks for (`OldKeyIsNone`).  That is why `StoredUnseals`
  holds: no rotation succeeds (section 5).
* *Mount.*  `MountInv`: the handles in use are those that the cache or a reader
  refers to (`Referred`), so a new one is shared with nobody; every cached path
  is once in the order of the cache (`InOrder`), so making room for one keeps
  the cap; a cached path that was not registered again is loaded for what is
  registered (`UpToDate`); and what an unshared reader was sent is what lies
  before the position of its handle (`Sent`).
* *Scan.*  `ScanInv`: what the walk has pending never lies inside something
  else that is pending (`Walk`), so an expected entry is ahead of it in one
  place; an expected entry is ahead, in the queue, in the hands of one worker,
  listed or lost, and in one of these only (`Places`); there is one sentinel,
  behind every entry (`OneSentinel`), so whoever has it has found the queue
  empty; and when a worker has left, nothing is queued (`LeftLast`).
* *Merkle tree.*  Of two lists of the same length every layer has the same
  length, and a layer determines the one below it (`NextDetermines`): a node is
  a pair, and every node below is in a pair.  Equal roots therefore go down to
  equal leaves.  Both that and the existence of the layers, which `MerkleRoot`
  defines by recursion, are inductions; they are done by the least number for
  which the claim would fail (`LeastMember`, from the library's theorem that
  finite sets are well-founded under the strict subset relation).
* *Commands.*  `CommandsInv`: what `kept` names is stored as `qp seal` makes it,
  under the passphrase named and without a dictionary (`KeptIsStored`); every
  key in the database is one of an engine (`EngineKeysOnly`), so no rotation
  changes a pulse; and a process that is due its payload has read what its
  passphrase opens (`DueOpens`).

**Only model-checked.**  Liveness (`RetrainsFinish`, `BootstrapsEnd`,
`ClosesWithHealthyBackend`, `EveryoneAnswered`, `ScanEnds`, `ThreadEnds`), which
is out of this prover's reach.

## 5. Where the code and its documents differ

Two have a run that shows them and an entry under `findings`:

* `dict_version` may name another dictionary than the one used
  (`pulse_models.py:100`; `EngineWrongVersion`);
* no pulse can be rotated, whatever the passphrase: `rotate_shard` derives the
  old key through HKDF from a new random salt, while `seal` uses the PBKDF2 key
  of the salt in the metadata (`vault.py:214`; `ServerRotate`).

Seen while modelling, kept in the models as the code has them, and without a
run of their own.  Dictionaries:

* a forced retrain commits whatever the A/B test says (`adaptive.py:13-15`
  against `:274`);
* dictionaries are not stored (`adaptive.py:20`), and a fourth retrain makes
  pulses of the first unreadable in one process too; pulses of the fallback
  trainer become unreadable when the manager gets a dictionary
  (`engine.py:214`, `:481`); all are named causes of `LostOnlyByKnownCauses`.

Database access and storage:

* a half-open circuit lets every caller through (`retry.py:106`, `:164`); a
  call admitted before the circuit opened closes it when it succeeds late;
  requests for unknown pulses count as failures of the circuit;
* `update_pulse` removes the old file before the new document is there
  (`db.py:9-10`, `:284`); the TTL job leaves GridFS files behind;
* a pulse that is deleted while it is rotated comes back, since `update_pulse`
  stores it whether or not it is there;
* a delete of a bucket that stops between its two requests leaves metadata that
  are listed, cannot be loaded and cannot be deleted again, for both classes
  end at the missing blob;
* an update of a bucket is not atomic (`storage_s3.py:167`); `list_pulses` of
  either bucket filters after it has cut the list at its limit, and fails if an
  object that it lists is deleted meanwhile;
* `is_mongo` is false on a bucket, so the TTL job and the audit collection do
  not run there; `list_masters` ignores the bucket.

Vault and audit:

* a failed rotation is recorded as a success, since `str(exc)` of the
  `InvalidTag` is empty and the builder takes an empty error for none
  (`main.py:451`, `audit.py:192` against `audit.py:19-20`);
* a changed passphrase never reaches the engine and is lost at the restart;
  `derive_shard_key` of the shared vault is called by no endpoint;
* `query_recent` filters after it has taken the tail of the file.

Mount and scan:

* two readers of one cached handle share its position, so that a response may
  be neither whole nor as long as its Content-Length says;
* a mount destroyed while a file is being opened answers 500;
* the statistics of a scan are counted in both rounds; `_maybe_shard` never
  splits, for all entries of a manifest have one parent; the duplication of an
  odd leaf makes roots of different lists equal, and only the number of shards
  tells them apart (`RootFixesShards` holds it fixed).

Command line:

* the pulses of `qp scan` that were compressed with its dictionary can be
  unsealed by no later command, and neither can those that a server sealed once
  it has a dictionary;
* `_get_db` takes MongoDB whatever storage is configured, and without MongoDB
  `qp seal` reports a success that ends with the process;
* `.with_suffix(".qp")` gives `data.json` and `data.csv` one file, where the
  help says `<file>.qp` (`cli.py:122`);
* `qp master` is documented (`README.md:202`) and does not exist.

## 6. What is not modelled, and why

* Keys, nonces, tags, hashes and headers: pure functions of one call.
* `stream_compress` and the other ways of compression: one call each, without
  a suspension between state that others change.
* Authentication, middleware, configuration, metrics: per request, or read
  once; no protocol between steps.
* Health checks but for the engine check: they read.  Likewise the listing,
  counting and statistics endpoints, and the audit log's queries.
* `POST /pulse/master`, which builds a master pulse of pulses that it loads:
  the loads are those of `DbAccess` and `Storage`, the tree that of
  `MerkleTree`, and the save one atomic command.
* An exception of the scanner's thread that is no `OSError`, which would end it
  without a sentinel (`scanner.py:104-107`): nothing that the loop calls raises
  one for a directory that exists, short of a lack of memory.
* Scripts and benchmarks: demonstrations and measurements.

## 7. Plan

Done, in this order: `AdaptiveDict`, `Engine`, `CircuitBreaker`, `Bulkhead` and
`DbAccess`, `PulseStore`, `CloudStore`, `Storage`, `KeyVault`, `Server`,
`VirtualMount`, `MerkleTree`, `Scan`, `Commands`, and the eight proof modules.
Every safety property of a passing run, invariant or action property, has its
theorem.  What could still be added:

1. a lemma that the root of a list depends on the number of its shards only
   through the doubled leaf, which would say exactly which lists of different
   lengths share a root;
2. models of the query side (`list_pulses` and the audit queries), whose
   filter after a limit is described in section 5.
