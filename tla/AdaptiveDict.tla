---------------------------- MODULE AdaptiveDict ----------------------------
(***************************************************************************)
(* core/adaptive.py: the AdaptiveDictManager.                              *)
(*                                                                         *)
(* One event loop runs many coroutines of the manager: a record_seal task  *)
(* per sealed payload, and force_retrain calls of the bootstrap endpoint   *)
(* and of the daily job.  A step below is what one coroutine does between  *)
(* two suspension points (the wait for _retrain_lock, the training and the *)
(* A/B test in the CPU pool); other coroutines run in between.             *)
(*                                                                         *)
(* Abstracted: the buffer is its length, a dictionary is a member of       *)
(* Dicts, and the two ratios of the A/B test are their difference in       *)
(* percent (the improvement).                                              *)
(***************************************************************************)
EXTENDS Integers, Sequences

CONSTANTS
  Tasks,            \* coroutines inside record_seal or force_retrain
  Dicts,            \* contents a trained dictionary may have
  NoDict,           \* no dictionary (_current is None)
  Gains,            \* improvements an A/B test may measure, in percent
  ExtraSizes,       \* numbers of samples a force_retrain caller brings
  Loadable,         \* version numbers load_dict_bytes is called with
  RetrainEvery,     \* retrain_every_n
  MinSamples,       \* min_samples
  BufferMax,        \* buffer_max
  MinImprovement,   \* min_improvement
  KeepVersions,     \* the literal 3 of the truncation in _retrain
  MaxSeals,         \* bound of a run: calls of record_seal
  MaxVersion        \* bound of a run: no training succeeds at this version

ASSUME ConstantsAssumption ==
  /\ NoDict \notin Dicts
  /\ Gains \subseteq Int
  /\ ExtraSizes \subseteq Nat
  /\ Loadable \subseteq Nat \ {0}
  /\ RetrainEvery \in Nat /\ MinSamples \in Nat /\ BufferMax \in Nat
  /\ MinImprovement \in Int
  /\ KeepVersions \in Nat \ {0}
  /\ MaxSeals \in Nat /\ MaxVersion \in Nat

VARIABLES
  buffer,     \* len(_buffer)
  since,      \* _seals_since_retrain
  total,      \* _total_seals
  versions,   \* _versions, newest first
  current,    \* _current
  locked,     \* _retrain_lock._locked
  waiters,    \* _retrain_lock._waiters, in order of arrival
  pc,         \* where each coroutine is suspended
  forced,     \* the force argument of its _retrain call
  cand,       \* its candidate_raw
  result      \* the RetrainResult most recently returned

counters == <<buffer, since, total>>
store    == <<versions, current>>
lockVars == <<locked, waiters>>
taskVars == <<pc, forced, cand>>
vars     == <<counters, store, lockVars, taskVars, result>>

DictVersion == [version : Nat \ {0}, dict : Dicts]

NoResult == [old |-> 0, new |-> 0, gain |-> 0, committed |-> FALSE]

Places == {"idle", "waiting", "training", "testing"}

Init ==
  /\ buffer = 0 /\ since = 0 /\ total = 0
  /\ versions = <<>> /\ current = NoDict
  /\ locked = FALSE /\ waiters = <<>>
  /\ pc = [t \in Tasks |-> "idle"]
  /\ forced = [t \in Tasks |-> FALSE]
  /\ cand = [t \in Tasks |-> NoDict]
  /\ result = NoResult

CurrentVersion == IF versions = <<>> THEN 0 ELSE versions[1].version

\* _version_by_id: the first entry of the list with that number.
KnownVersions == {versions[i].version : i \in 1..Len(versions)}
DictOfVersion(v) ==
  LET i == CHOOSE j \in 1..Len(versions) :
             /\ versions[j].version = v
             /\ \A k \in 1..(j - 1) : versions[k].version # v
  IN  versions[i].dict

\* The deque drops its oldest samples beyond maxlen.
AfterAppending(n) == IF buffer + n > BufferMax THEN BufferMax ELSE buffer + n

ShouldRetrain(size, seals) == size >= MinSamples /\ seals >= RetrainEvery

-----------------------------------------------------------------------------
(* _retrain up to its first suspension.  The caller's step has already     *)
(* given buffer its new value.                                             *)

Suspend(t, where, f) ==
  /\ pc' = [pc EXCEPT ![t] = where]
  /\ forced' = [forced EXCEPT ![t] = f]
  /\ UNCHANGED cand

\* asyncio.Lock.acquire goes to the queue when the lock is held, or when
\* somebody is already queued: a released lock belongs to the first waiter.
Queue(t, f) ==
  /\ locked \/ waiters # <<>>
  /\ waiters' = Append(waiters, t)
  /\ UNCHANGED locked
  /\ Suspend(t, "waiting", f)

\* Variant: the granted coroutine stays in the queue of the lock.
StartTrainingStillQueued(t, f, queue) ==
  /\ UNCHANGED waiters
  /\ locked' = TRUE /\ Suspend(t, "training", f)

\* Inside the lock: too few samples end the call, otherwise training starts.
StartTraining(t, f, queue) ==
  /\ waiters' = queue
  /\ IF buffer' < MinSamples
       THEN locked' = FALSE /\ Suspend(t, "idle", FALSE)
       ELSE locked' = TRUE /\ Suspend(t, "training", f)

Retrain(t, f) ==
  IF locked /\ ~f
    THEN UNCHANGED <<lockVars, taskVars>>
    ELSE \/ Queue(t, f)
         \/ /\ ~locked /\ waiters = <<>>
            /\ StartTraining(t, f, waiters)

-----------------------------------------------------------------------------
(* The calls.                                                              *)

RecordSeal(t) ==
  /\ pc[t] = "idle" /\ total < MaxSeals
  /\ buffer' = AfterAppending(1)
  /\ since' = since + 1
  /\ total' = total + 1
  /\ IF ShouldRetrain(buffer', since')
       THEN Retrain(t, FALSE)
       ELSE UNCHANGED <<lockVars, taskVars>>
  /\ UNCHANGED <<store, result>>

ForceRetrain(t, n) ==
  /\ pc[t] = "idle"
  /\ buffer' = AfterAppending(n)
  /\ Retrain(t, TRUE)
  /\ UNCHANGED <<since, total, store, result>>

\* load_dict_bytes takes no lock: its one effect is after its only await.
LoadDict(v, d) ==
  /\ v <= MaxVersion /\ Len(versions) < MaxVersion
  /\ versions' = <<[version |-> v, dict |-> d]>> \o versions
  /\ current' = d
  /\ UNCHANGED <<counters, lockVars, taskVars, result>>

-----------------------------------------------------------------------------
(* What a suspended _retrain does when it is resumed.                      *)

\* Variant: a woken waiter enters without looking at the lock again.
LockGrantedUnchecked(t) ==
  /\ waiters # <<>> /\ Head(waiters) = t
  /\ UNCHANGED counters
  /\ StartTraining(t, forced[t], Tail(waiters))
  /\ UNCHANGED <<store, result>>

LockGranted(t) ==
  /\ ~locked /\ waiters # <<>> /\ Head(waiters) = t
  /\ UNCHANGED counters
  /\ StartTraining(t, forced[t], Tail(waiters))
  /\ UNCHANGED <<store, result>>

TrainingDone(t, d) ==
  /\ pc[t] = "training" /\ CurrentVersion < MaxVersion
  /\ pc' = [pc EXCEPT ![t] = "testing"]
  /\ cand' = [cand EXCEPT ![t] = d]
  /\ UNCHANGED <<counters, store, lockVars, forced, result>>

Finish(t) ==
  /\ pc' = [pc EXCEPT ![t] = "idle"]
  /\ forced' = [forced EXCEPT ![t] = FALSE]
  /\ cand' = [cand EXCEPT ![t] = NoDict]
  /\ locked' = FALSE
  /\ UNCHANGED waiters

\* Variant: the way out by an exception leaves the lock locked.
RetrainFailsLocked(t) ==
  /\ pc[t] \in {"training", "testing"}
  /\ pc' = [pc EXCEPT ![t] = "idle"]
  /\ UNCHANGED <<counters, store, lockVars, forced, cand, result>>

\* The trainer or the A/B test raises: the lock is released, nothing is kept.
RetrainFails(t) ==
  /\ pc[t] \in {"training", "testing"}
  /\ Finish(t)
  /\ UNCHANGED <<counters, store, result>>

Commits(t, gain) == forced[t] \/ gain >= MinImprovement

\* Variant: the next number is the length of the list plus one.
CommittedByLength(d) ==
  LET longer == <<[version |-> Len(versions) + 1, dict |-> d]>> \o versions
  IN  IF Len(longer) > KeepVersions THEN SubSeq(longer, 1, KeepVersions)
                                    ELSE longer

\* Variant: the newest version goes to the end of the list.
CommittedAtEnd(d) ==
  LET longer == Append(versions, [version |-> CurrentVersion + 1, dict |-> d])
  IN  IF Len(longer) > KeepVersions THEN Tail(longer) ELSE longer

\* Variant: one version too few survives the truncation.
CommittedTooShort(d) ==
  LET longer == <<[version |-> CurrentVersion + 1, dict |-> d]>> \o versions
  IN  IF Len(longer) >= KeepVersions THEN SubSeq(longer, 1, KeepVersions - 1)
                                     ELSE longer

\* The newest version goes to the front, and only KeepVersions remain.
Committed(d) ==
  LET longer == <<[version |-> CurrentVersion + 1, dict |-> d]>> \o versions
  IN  IF Len(longer) > KeepVersions THEN SubSeq(longer, 1, KeepVersions)
                                    ELSE longer

TestingDone(t, gain) ==
  /\ pc[t] = "testing"
  /\ IF Commits(t, gain)
       THEN versions' = Committed(cand[t]) /\ current' = cand[t]
       ELSE UNCHANGED store
  /\ since' = 0
  /\ result' = [old |-> CurrentVersion,
                new |-> CurrentVersion + (IF Commits(t, gain) THEN 1 ELSE 0),
                gain |-> gain, committed |-> Commits(t, gain)]
  /\ Finish(t)
  /\ UNCHANGED <<buffer, total>>

-----------------------------------------------------------------------------
Resume(t) ==
  \/ LockGranted(t)
  \/ \E d \in Dicts : TrainingDone(t, d)
  \/ RetrainFails(t)
  \/ \E g \in Gains : TestingDone(t, g)

Next ==
  \/ \E t \in Tasks : \/ RecordSeal(t)
                      \/ \E n \in ExtraSizes : ForceRetrain(t, n)
                      \/ Resume(t)
  \/ \E v \in Loadable, d \in Dicts : LoadDict(v, d)

\* The event loop resumes every coroutine whose future is done, and a job of
\* the CPU pool ends, with a result or with an exception.
Fairness == \A t \in Tasks : WF_vars(Resume(t))

Spec == Init /\ [][Next]_vars /\ Fairness
-----------------------------------------------------------------------------
(* Properties.                                                             *)

Busy == {t \in Tasks : pc[t] \in {"training", "testing"}}

\* Every variable stays in its type; the sample buffer never outgrows its
\* maxlen whichever of record_seal, force_retrain and bootstrap feeds it.
TypeOK ==
  /\ buffer \in 0..BufferMax /\ since \in Nat /\ total \in Nat
  /\ versions \in Seq(DictVersion) /\ current \in Dicts \cup {NoDict}
  /\ locked \in BOOLEAN /\ waiters \in Seq(Tasks)
  /\ pc \in [Tasks -> Places]
  /\ forced \in [Tasks -> BOOLEAN]
  /\ cand \in [Tasks -> Dicts \cup {NoDict}]
  /\ result \in [old : Nat, new : Nat, gain : Int, committed : BOOLEAN]

\* "Prevent concurrent retrains" (adaptive.py:104): at most one coroutine
\* trains or tests a dictionary, through skips, queued forced retrains, the
\* hand-over window of a released lock, and failures; and the lock is held
\* exactly while one does.
OneTrainer ==
  /\ locked <=> Busy # {}
  /\ \A t, u \in Busy : t = u

\* No waiter is lost or queued twice: the queue of the lock holds exactly the
\* coroutines suspended in _retrain's "async with", each once.
QueueExact ==
  /\ {t \in Tasks : pc[t] = "waiting"} = {waiters[i] : i \in 1..Len(waiters)}
  /\ \A i, j \in 1..Len(waiters) : waiters[i] = waiters[j] => i = j

\* The list kept by the manager is the newest versions without a gap or a
\* repeated number, so that a number finds at most one dictionary, whatever
\* retrains were skipped, queued, failed or not committed in between.
VersionsConsecutive ==
  /\ \A i \in 1..Len(versions) : versions[i].version = CurrentVersion + 1 - i
  /\ CurrentVersion >= Len(versions)
  /\ Len(versions) <= KeepVersions
  /\ Len(versions) < KeepVersions => CurrentVersion = Len(versions)

\* compressor() reads _current and current_version reads _versions[0]: the
\* two always name the same dictionary.
CurrentIsHead ==
  current = IF versions = <<>> THEN NoDict ELSE versions[1].dict

\* The manager implements the register of numbered versions: each number is
\* published once, in order, and keeps its contents while it is kept.
Register == INSTANCE DictRegister WITH
              Keep <- KeepVersions,
              latest <- CurrentVersion,
              archive <- [v \in KnownVersions |-> DictOfVersion(v)]
ImplementsRegister == Register!RegSpec

\* Every call that waits for the lock, trains or tests comes back: no wakeup
\* is lost and no way out of _retrain keeps the lock.
RetrainsFinish == \A t \in Tasks : pc[t] # "idle" ~> pc[t] = "idle"
=============================================================================
