------------------------------- MODULE Engine -------------------------------
(***************************************************************************)
(* core/engine.py on top of AdaptiveDict: the QuantumEngine of the server  *)
(* sealing and unsealing pulses while the adaptive manager retrains, the   *)
(* ZstdDictTrainer is trained as a fallback and by POST /benchmark         *)
(* (core/compression.py), and the process restarts.                        *)
(*                                                                         *)
(* A pulse is what the zstd frame in its blob was compressed with and the  *)
(* dict_version of its PulseBlob.  Keys, nonces, hashes and the Merkle     *)
(* root are abstracted: they are read back exactly as they were written.   *)
(***************************************************************************)
EXTENDS AdaptiveDict

CONSTANTS
  Pulses,        \* pulse ids
  MaxProbes,     \* bound of a run: engine checks of /healthz
  MaxRestarts    \* bound of a run: restarts of the process

ASSUME EngineAssumption ==
  MaxProbes \in Nat /\ MaxRestarts \in Nat

VARIABLES
  stage,      \* per pulse: how far its seal, or the engine check, has come
  frame,      \* per pulse: the dictionary of its frame, with its version
  recorded,   \* per pulse: PulseBlob.dict_version
  life,       \* per pulse: the process in which it was compressed
  epoch,      \* restarts so far
  feeding,    \* record_seal tasks scheduled by seal and not yet started
  probes,     \* engine checks so far
  probe,      \* per pulse: whether an engine check seals it
  trainer,    \* _trainer._cdict
  boot        \* per coroutine: what a bootstrap or benchmark waits for

pulseVars  == <<stage, frame, recorded, life>>
engineVars == <<pulseVars, epoch, feeding, probes, probe, trainer, boot>>
allVars    == <<vars, engineVars>>

Stages == {"new", "compressing", "encrypting", "sealed", "failed",
           "unsealing", "refuted"}

\* A frame: its dictionary, and the manager's number of it (0: not from the
\* manager, so either no dictionary or the trainer's).
Frame == [dict : Dicts \cup {NoDict}, version : Nat]
NoFrame == [dict |-> NoDict, version |-> 0]

EngineInit ==
  /\ Init
  /\ stage = [p \in Pulses |-> "new"]
  /\ frame = [p \in Pulses |-> NoFrame]
  /\ recorded = [p \in Pulses |-> 0]
  /\ life = [p \in Pulses |-> 0]
  /\ epoch = 0 /\ feeding = 0 /\ probes = 0
  /\ probe = [p \in Pulses |-> FALSE]
  /\ trainer = NoDict
  /\ boot = [t \in Tasks |-> "no"]

-----------------------------------------------------------------------------
(* seal: a sample is handed to the manager, the payload is compressed in   *)
(* the CPU pool, a key is derived and the frame encrypted, and only then   *)
(* is the manager's version read for the metadata.                         *)

ManagerTrained == current # NoDict

Sample == feeding' = feeding + 1

SealStart(p) ==
  /\ stage[p] = "new"
  /\ stage' = [stage EXCEPT ![p] = "compressing"]
  /\ Sample
  /\ UNCHANGED <<vars, frame, recorded, life, epoch, probes, probe, trainer, boot>>

\* The compressors of the manager and of the trainer.
ManagerFrame == [dict |-> current, version |-> CurrentVersion]
TrainerFrame == [dict |-> trainer, version |-> 0]

\* _compress: the manager's current dictionary, else the trainer's.
CompressionFrame == IF ManagerTrained THEN ManagerFrame ELSE TrainerFrame

Compress(p) ==
  /\ stage[p] = "compressing"
  /\ stage' = [stage EXCEPT ![p] = "encrypting"]
  /\ frame' = [frame EXCEPT ![p] = CompressionFrame]
  /\ life' = [life EXCEPT ![p] = epoch]
  /\ UNCHANGED <<vars, recorded, epoch, feeding, probes, probe, trainer, boot>>

RecordVersion(p) ==
  /\ stage[p] = "encrypting"
  /\ stage' = [stage EXCEPT ![p] = IF probe[p] THEN "unsealing" ELSE "sealed"]
  /\ recorded' = [recorded EXCEPT ![p] = CurrentVersion]
  /\ UNCHANGED <<vars, frame, life, epoch, feeding, probes, probe, trainer, boot>>

\* A pool job of the seal raises, or the five seconds of an engine check are
\* over: the sample has been handed over already.
SealFails(p) ==
  /\ stage[p] \in {"compressing", "encrypting", "unsealing"}
  /\ stage' = [stage EXCEPT ![p] = "failed"]
  /\ UNCHANGED <<vars, frame, recorded, life, epoch, feeding, probes, probe,
                 trainer, boot>>

-----------------------------------------------------------------------------
(* unseal changes nothing: it is the question whether a pulse can be read. *)

\* Variant: the version recorded in the metadata is not looked at.
DecompressionDictCurrent(p) ==
  IF ManagerTrained THEN DictOfVersion(CurrentVersion) ELSE trainer

\* Variant: only the trainer of the engine is asked.
DecompressionDictLegacy(p) == trainer

\* The dictionary that _decompress decompresses with.
DecompressionDict(p) ==
  IF recorded[p] > 0
    THEN IF recorded[p] \in KnownVersions THEN DictOfVersion(recorded[p])
                                          ELSE NoDict
    ELSE IF ManagerTrained THEN DictOfVersion(CurrentVersion) ELSE trainer

\* zstd: a frame without a dictionary decompresses with any decompressor,
\* a frame with one only with that one; anything else is an error.
Decompresses(dict, with) == dict = NoDict \/ dict = with

Unseals(p) == Decompresses(frame[p].dict, DecompressionDict(p))

Readable(p) == stage[p] = "sealed" /\ Unseals(p)

-----------------------------------------------------------------------------
(* The engine check of /healthz seals a payload of its own, which is not   *)
(* stored, and unseals it.                                                 *)

EngineCheck(p) ==
  /\ stage[p] = "new" /\ probes < MaxProbes
  /\ probes' = probes + 1
  /\ stage' = [stage EXCEPT ![p] = "compressing"]
  /\ probe' = [probe EXCEPT ![p] = TRUE]
  /\ Sample
  /\ UNCHANGED <<vars, frame, recorded, life, epoch, trainer, boot>>

\* PASS, or the exception of unseal, which makes it FAIL: /healthz/ready is a
\* 503 then.  After a PASS the id is free for another payload of the model.
CheckEnds(p) ==
  /\ stage[p] = "unsealing"
  /\ stage' = [stage EXCEPT ![p] = IF Unseals(p) THEN "new" ELSE "refuted"]
  /\ frame' = [frame EXCEPT ![p] = NoFrame]
  /\ recorded' = [recorded EXCEPT ![p] = 0] /\ life' = [life EXCEPT ![p] = 0]
  /\ probe' = [probe EXCEPT ![p] = FALSE]
  /\ UNCHANGED <<vars, epoch, feeding, probes, trainer, boot>>

-----------------------------------------------------------------------------
(* The manager's coroutines inside the engine.                             *)

Free(t) == pc[t] = "idle" /\ boot[t] = "no"

Feed(t) ==
  /\ Free(t) /\ feeding > 0
  /\ RecordSeal(t)
  /\ feeding' = feeding - 1
  /\ UNCHANGED <<pulseVars, epoch, probes, probe, trainer, boot>>

\* The daily job retrains unless the buffer is too small.
ScheduledRetrain(t) ==
  /\ Free(t) /\ buffer >= MinSamples
  /\ ForceRetrain(t, 0)
  /\ UNCHANGED engineVars

\* bootstrap_dict: samples go to the manager, which is forced to retrain;
\* without a committed result the trainer is trained instead.
Bootstrap(t, n) ==
  /\ Free(t)
  /\ ForceRetrain(t, n)
  /\ boot' = [boot EXCEPT ![t] = IF pc'[t] = "idle" THEN "trainer" ELSE "manager"]
  /\ UNCHANGED <<pulseVars, epoch, feeding, probes, probe, trainer>>

\* Where a bootstrap is after its coroutine made a step of _retrain: a result
\* ends it (a forced one is committed), None (too few samples, or the training
\* failed) sends it to the trainer, and an exception of the A/B test goes to
\* its caller.
AfterStep(t) ==
  IF boot[t] # "manager" \/ pc'[t] # "idle" THEN boot[t]
  ELSE IF pc[t] = "testing" THEN "no" ELSE "trainer"

ManagerStep(t) ==
  /\ Resume(t)
  /\ boot' = [boot EXCEPT ![t] = AfterStep(t)]
  /\ UNCHANGED <<pulseVars, epoch, feeding, probes, probe, trainer>>

\* PulseCompressor.benchmark trains the engine's trainer when it has no
\* dictionary yet; the test comes before the wait for the pool.
BenchmarkTrains(t) ==
  /\ Free(t) /\ trainer = NoDict
  /\ boot' = [boot EXCEPT ![t] = "trainer"]
  /\ UNCHANGED <<vars, pulseVars, epoch, feeding, probes, probe, trainer>>

TrainerTrained(t, d) ==
  /\ boot[t] = "trainer"
  /\ trainer' = d
  /\ boot' = [boot EXCEPT ![t] = "no"]
  /\ UNCHANGED <<vars, pulseVars, epoch, feeding, probes, probe>>

TrainerFails(t) ==
  /\ boot[t] = "trainer"
  /\ boot' = [boot EXCEPT ![t] = "no"]
  /\ UNCHANGED <<vars, pulseVars, epoch, feeding, probes, probe, trainer>>

TrainerJob(t) == TrainerFails(t) \/ \E d \in Dicts : TrainerTrained(t, d)

-----------------------------------------------------------------------------
\* A new process: the manager and the trainer start empty, seals that had not
\* finished are gone, and the sealed pulses are in the database.
Restart ==
  /\ epoch < MaxRestarts
  /\ epoch' = epoch + 1
  /\ buffer' = 0 /\ since' = 0 /\ total' = 0
  /\ versions' = <<>> /\ current' = NoDict
  /\ locked' = FALSE /\ waiters' = <<>>
  /\ pc' = [t \in Tasks |-> "idle"]
  /\ forced' = [t \in Tasks |-> FALSE]
  /\ cand' = [t \in Tasks |-> NoDict]
  /\ result' = NoResult
  /\ stage' = [p \in Pulses |->
                 IF stage[p] = "sealed" THEN "sealed" ELSE "failed"]
  /\ probe' = [p \in Pulses |-> FALSE]
  /\ feeding' = 0 /\ trainer' = NoDict
  /\ boot' = [t \in Tasks |-> "no"]
  /\ UNCHANGED <<frame, recorded, life, probes>>

EngineNext ==
  \/ \E p \in Pulses : \/ SealStart(p) \/ Compress(p)
                       \/ RecordVersion(p) \/ SealFails(p)
                       \/ EngineCheck(p) \/ CheckEnds(p)
  \/ \E t \in Tasks : \/ Feed(t) \/ ScheduledRetrain(t) \/ ManagerStep(t)
                      \/ \E n \in ExtraSizes : Bootstrap(t, n)
                      \/ BenchmarkTrains(t) \/ TrainerJob(t)
  \/ Restart

\* The event loop and the CPU pool go on; nothing makes anybody call.
EngineFairness ==
  /\ \A t \in Tasks : /\ WF_allVars(ManagerStep(t))
                      /\ WF_allVars(TrainerJob(t))
  /\ \A p \in Pulses : WF_allVars(Compress(p) \/ RecordVersion(p))

EngineSpec == EngineInit /\ [][EngineNext]_allVars /\ EngineFairness

-----------------------------------------------------------------------------
(* Properties.                                                             *)

\* The pulse was compressed with a dictionary of the manager and carries the
\* number of that very dictionary.
RightlyRecorded(p) ==
  /\ stage[p] = "sealed"
  /\ frame[p].version > 0 /\ frame[p].version = recorded[p]

\* What seal, retrain and unseal together do promise: a pulse that carries the
\* right number can be unsealed until KeepVersions newer versions have been
\* committed or the process ends, whatever is skipped, queued or forced.
KeptPulseReadable ==
  \A p \in Pulses :
    RightlyRecorded(p) /\ life[p] = epoch
      /\ recorded[p] > CurrentVersion - KeepVersions => Readable(p)

\* A stored pulse that can be unsealed stops being so only when the process
\* restarts, when the version it carries leaves the list of the manager, or,
\* if it carries none, when the engine's dictionary is replaced.
LostOnlyByKnownCauses ==
  [][\A p \in Pulses :
       Readable(p) /\ ~Readable(p)' =>
         \/ epoch' # epoch
         \/ recorded[p] > 0 /\ CurrentVersion' = recorded[p] + KeepVersions
         \/ recorded[p] = 0 /\ <<current, trainer>>' # <<current, trainer>>
    ]_allVars

\* An engine check that is neither cut off by its timeout nor hit by an error of
\* the pool fails only if dictionaries were replaced while it ran: the health of
\* the service is not put down to what was sealed, trained or lost before.
CheckFailsOnlyInRetrain ==
  [][\A p \in Pulses :
       stage[p] = "unsealing" /\ stage'[p] = "refuted" =>
         \/ CurrentVersion > frame[p].version
         \/ frame[p].version = 0 /\ trainer # frame[p].dict
    ]_allVars

\* A bootstrap call comes back to its caller, through the queue of the lock,
\* a failed training and the fallback to the trainer.
BootstrapsEnd == \A t \in Tasks : boot[t] # "no" ~> boot[t] = "no"

\* "adaptive dict version used at seal time" (pulse_models.py:100): the
\* metadata carry the version that the frame was compressed with.
DictVersionIsTheOneUsed ==
  \A p \in Pulses :
    stage[p] = "sealed" /\ frame[p].version > 0
      => recorded[p] = frame[p].version
=============================================================================
