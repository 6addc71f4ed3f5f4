---------------------------- MODULE Engine_proofs ----------------------------
(***************************************************************************)
(* Proofs about AdaptiveDict and Engine, for any number of pulses,         *)
(* coroutines, dictionaries and restarts.                                  *)
(*                                                                         *)
(* The manager: coroutines enter the queue of the lock and leave it when   *)
(* they suspend and resume, so each lemma follows one suspension (Suspend, *)
(* StartTraining, Retrain, ...) and the actions are put together from      *)
(* them; the lemmas are about the steps of the coroutines whoever runs     *)
(* them (AnyStep), so that they hold inside the engine too.                *)
(*                                                                         *)
(* The engine: its steps are steps of the manager's coroutines, or leave   *)
(* the manager alone, or start it anew.  KeptPulseReadable, and what a     *)
(* step may do to a pulse or an engine check, are consequences of          *)
(* EngineInv: between restarts the manager implements the register of      *)
(* numbered versions, so that a number means the same dictionary for as    *)
(* long as it is kept (Numbered); the number recorded for a pulse is read  *)
(* after the one it was compressed with (NotNewer, Ordered); and a pulse   *)
(* of an earlier process is told from the others by its life.              *)
(***************************************************************************)
EXTENDS Engine, SequenceTheorems, TLAPS

\* What Suspend leaves typed, whoever calls it.
LEMMA SuspendType ==
  ASSUME TypeOK, NEW t \in Tasks, NEW where \in Places, NEW f \in BOOLEAN,
         Suspend(t, where, f)
  PROVE  /\ pc' \in [Tasks -> Places]
         /\ forced' \in [Tasks -> BOOLEAN]
         /\ cand' \in [Tasks -> Dicts \cup {NoDict}]
BY DEF Suspend, TypeOK

LEMMA StartTrainingType ==
  ASSUME TypeOK, NEW t \in Tasks, NEW f \in BOOLEAN, NEW q \in Seq(Tasks),
         StartTraining(t, f, q)
  PROVE  /\ locked' \in BOOLEAN /\ waiters' \in Seq(Tasks)
         /\ pc' \in [Tasks -> Places]
         /\ forced' \in [Tasks -> BOOLEAN]
         /\ cand' \in [Tasks -> Dicts \cup {NoDict}]
BY SuspendType DEF StartTraining, Places

LEMMA RetrainType ==
  ASSUME TypeOK, NEW t \in Tasks, NEW f \in BOOLEAN, Retrain(t, f)
  PROVE  /\ locked' \in BOOLEAN /\ waiters' \in Seq(Tasks)
         /\ pc' \in [Tasks -> Places]
         /\ forced' \in [Tasks -> BOOLEAN]
         /\ cand' \in [Tasks -> Dicts \cup {NoDict}]
<1>1. CASE UNCHANGED <<lockVars, taskVars>>
  BY <1>1 DEF TypeOK, lockVars, taskVars
<1>2. CASE Queue(t, f)
  BY <1>2, SuspendType DEF Queue, TypeOK, Places
<1>3. CASE StartTraining(t, f, waiters)
  BY <1>3, StartTrainingType DEF TypeOK
<1> QED
  BY <1>1, <1>2, <1>3 DEF Retrain

LEMMA FinishType ==
  ASSUME TypeOK, NEW t \in Tasks, Finish(t)
  PROVE  /\ locked' \in BOOLEAN /\ waiters' \in Seq(Tasks)
         /\ pc' \in [Tasks -> Places]
         /\ forced' \in [Tasks -> BOOLEAN]
         /\ cand' \in [Tasks -> Dicts \cup {NoDict}]
BY DEF Finish, TypeOK, Places

LEMMA AppendingType ==
  ASSUME buffer \in 0..BufferMax, NEW n \in Nat
  PROVE  AfterAppending(n) \in 0..BufferMax
BY ConstantsAssumption DEF AfterAppending

LEMMA CurrentVersionType ==
  ASSUME versions \in Seq(DictVersion)
  PROVE  CurrentVersion \in Nat
<1>1. CASE versions = <<>>
  BY <1>1 DEF CurrentVersion
<1>2. CASE versions # <<>>
  <2>1. 1 \in 1..Len(versions)
    BY <1>2, EmptySeq
  <2>2. versions[1] \in DictVersion
    BY <2>1, ElementOfSeq
  <2> QED
    BY <1>2, <2>2 DEF CurrentVersion, DictVersion
<1> QED
  BY <1>1, <1>2

\* The list a commit leaves: the new version, then the old list, cut.
LEMMA CommittedList ==
  ASSUME versions \in Seq(DictVersion), NEW d \in Dicts
  PROVE  /\ Committed(d) \in Seq(DictVersion)
         /\ Len(Committed(d)) = IF Len(versions) + 1 > KeepVersions
                                  THEN KeepVersions ELSE Len(versions) + 1
         /\ Committed(d)[1] = [version |-> CurrentVersion + 1, dict |-> d]
         /\ \A i \in 2..Len(Committed(d)) : Committed(d)[i] = versions[i - 1]
<1> DEFINE new    == [version |-> CurrentVersion + 1, dict |-> d]
           longer == <<new>> \o versions
<1>1. new \in DictVersion
  BY CurrentVersionType DEF DictVersion
<1>2. /\ longer \in Seq(DictVersion)
      /\ Len(longer) = Len(versions) + 1
      /\ longer[1] = new
      /\ \A i \in 2..Len(longer) : longer[i] = versions[i - 1]
  BY <1>1
<1>3. KeepVersions \in Nat \ {0}
  BY ConstantsAssumption
<1> HIDE DEF longer, new
<1>4. CASE Len(longer) > KeepVersions
  <2>1. Committed(d) = SubSeq(longer, 1, KeepVersions)
    BY <1>4 DEF Committed, longer, new
  <2>2. Len(longer) \in Nat
    BY <1>2
  <2> QED
    BY <1>2, <1>3, <1>4, <2>1, <2>2 DEF new
<1>5. CASE ~(Len(longer) > KeepVersions)
  <2>1. Committed(d) = longer
    BY <1>5 DEF Committed, longer, new
  <2> QED
    BY <1>2, <1>3, <1>5, <2>1 DEF new
<1> QED
  BY <1>4, <1>5

-----------------------------------------------------------------------------
\* A coroutine whose A/B test runs has a candidate: without this, a commit
\* could put "no dictionary" into the list of versions.
Candidates == \A t \in Tasks : pc[t] = "testing" => cand[t] \in Dicts

\* The steps of the coroutines, for callers that bring any number of samples;
\* and the same beside load_dict_bytes.
TaskStep ==
  \E t \in Tasks : \/ RecordSeal(t)
                  \/ \E n \in Nat : ForceRetrain(t, n)
                  \/ Resume(t)

AnyStep == TaskStep \/ \E v \in Loadable, d \in Dicts : LoadDict(v, d)

LEMMA StepsOfNext ==
  /\ Next => AnyStep
  /\ Loadable = {} /\ Next => TaskStep
BY ConstantsAssumption DEF Next, AnyStep, TaskStep

LEMMA InitType == Init => TypeOK /\ Candidates
<1> SUFFICES ASSUME Init PROVE TypeOK /\ Candidates
  OBVIOUS
<1>1. buffer \in 0..BufferMax /\ since \in Nat /\ total \in Nat
  BY ConstantsAssumption DEF Init
<1>2. versions \in Seq(DictVersion) /\ waiters \in Seq(Tasks)
  BY EmptySeq DEF Init
<1>3. /\ pc \in [Tasks -> Places] /\ forced \in [Tasks -> BOOLEAN]
      /\ cand \in [Tasks -> Dicts \cup {NoDict}]
  BY DEF Init, Places
<1>4. result \in [old : Nat, new : Nat, gain : Int, committed : BOOLEAN]
  BY DEF Init, NoResult
<1> QED
  BY <1>1, <1>2, <1>3, <1>4 DEF Init, TypeOK, Candidates

LEMMA NextType ==
  ASSUME TypeOK, Candidates, [AnyStep]_vars
  PROVE  TypeOK'
<1> USE DEF counters, store, lockVars, taskVars
<1>1. ASSUME NEW t \in Tasks, RecordSeal(t) PROVE TypeOK'
  <2>1. buffer' \in 0..BufferMax
    BY <1>1, AppendingType DEF RecordSeal, TypeOK
  <2>2. since' \in Nat /\ total' \in Nat
    BY <1>1 DEF RecordSeal, TypeOK
  <2>3. /\ locked' \in BOOLEAN /\ waiters' \in Seq(Tasks)
        /\ pc' \in [Tasks -> Places]
        /\ forced' \in [Tasks -> BOOLEAN]
        /\ cand' \in [Tasks -> Dicts \cup {NoDict}]
    <3>1. CASE Retrain(t, FALSE)
      BY <3>1, RetrainType
    <3>2. CASE UNCHANGED <<lockVars, taskVars>>
      BY <3>2 DEF TypeOK
    <3> QED
      BY <1>1, <3>1, <3>2 DEF RecordSeal
  <2> QED
    BY <1>1, <2>1, <2>2, <2>3 DEF RecordSeal, TypeOK
<1>2. ASSUME NEW t \in Tasks, NEW n \in Nat, ForceRetrain(t, n)
      PROVE  TypeOK'
  <2>1. buffer' \in 0..BufferMax
    BY <1>2, AppendingType, ConstantsAssumption DEF ForceRetrain, TypeOK
  <2>2. Retrain(t, TRUE)
    BY <1>2 DEF ForceRetrain
  <2> QED
    BY <1>2, <2>1, <2>2, RetrainType DEF ForceRetrain, TypeOK
<1>3. ASSUME NEW t \in Tasks, LockGranted(t) PROVE TypeOK'
  <2>1. Tail(waiters) \in Seq(Tasks)
    BY <1>3, HeadTailProperties DEF LockGranted, TypeOK
  <2>2. StartTraining(t, forced[t], Tail(waiters)) /\ forced[t] \in BOOLEAN
    BY <1>3 DEF LockGranted, TypeOK
  <2> QED
    BY <1>3, <2>1, <2>2, StartTrainingType DEF LockGranted, TypeOK
<1>4. ASSUME NEW t \in Tasks, NEW d \in Dicts, TrainingDone(t, d)
      PROVE  TypeOK'
  BY <1>4 DEF TrainingDone, TypeOK, Places
<1>5. ASSUME NEW t \in Tasks, RetrainFails(t) PROVE TypeOK'
  BY <1>5, FinishType DEF RetrainFails, TypeOK
<1>6. ASSUME NEW t \in Tasks, NEW g \in Gains, TestingDone(t, g)
      PROVE  TypeOK'
  <2>1. versions' \in Seq(DictVersion) /\ current' \in Dicts \cup {NoDict}
    <3>1. CASE Commits(t, g)
      <4>1. cand[t] \in Dicts
        BY <1>6 DEF TestingDone, Candidates
      <4>2. Committed(cand[t]) \in Seq(DictVersion)
        BY <4>1, CommittedList DEF TypeOK
      <4> QED
        BY <1>6, <3>1, <4>1, <4>2 DEF TestingDone
    <3>2. CASE ~Commits(t, g)
      BY <1>6, <3>2 DEF TestingDone, TypeOK
    <3> QED
      BY <1>6, <3>1, <3>2 DEF TestingDone, TypeOK
  <2>2. result' \in [old : Nat, new : Nat, gain : Int, committed : BOOLEAN]
    BY <1>6, CurrentVersionType, ConstantsAssumption
       DEF TestingDone, TypeOK, Commits
  <2>3. Finish(t)
    BY <1>6 DEF TestingDone
  <2> QED
    BY <1>6, <2>1, <2>2, <2>3, FinishType DEF TestingDone, TypeOK
<1>7. ASSUME NEW v \in Loadable, NEW d \in Dicts, LoadDict(v, d)
      PROVE  TypeOK'
  <2>1. <<[version |-> v, dict |-> d]>> \in Seq(DictVersion)
    BY ConstantsAssumption DEF DictVersion
  <2> QED
    BY <1>7, <2>1, ConcatProperties DEF LoadDict, TypeOK
<1>8. CASE UNCHANGED vars
  BY <1>8 DEF vars, TypeOK
<1> QED
  BY <1>1, <1>2, <1>3, <1>4, <1>5, <1>6, <1>7, <1>8 DEF AnyStep, TaskStep, Resume

LEMMA NextCandidates ==
  ASSUME TypeOK, Candidates, [AnyStep]_vars
  PROVE  Candidates'
<1> USE DEF counters, store, lockVars, taskVars, Candidates
<1>1. ASSUME NEW t \in Tasks, NEW where \in Places \ {"testing"},
             NEW f \in BOOLEAN, Suspend(t, where, f)
      PROVE  Candidates'
  BY <1>1 DEF Suspend, TypeOK
<1>2. ASSUME NEW t \in Tasks, NEW f \in BOOLEAN, NEW q,
             StartTraining(t, f, q)
      PROVE  Candidates'
  BY <1>1, <1>2 DEF StartTraining, Places
<1>3. ASSUME NEW t \in Tasks, NEW f \in BOOLEAN, Retrain(t, f)
      PROVE  Candidates'
  <2>1. CASE UNCHANGED <<lockVars, taskVars>>
    BY <2>1
  <2>2. CASE Queue(t, f)
    BY <1>1, <2>2 DEF Queue, Places
  <2>3. CASE StartTraining(t, f, waiters)
    BY <1>2, <2>3
  <2> QED
    BY <1>3, <2>1, <2>2, <2>3 DEF Retrain
<1>4. ASSUME NEW t \in Tasks, Finish(t) PROVE Candidates'
  BY <1>4 DEF Finish, TypeOK
<1>5. ASSUME NEW t \in Tasks, RecordSeal(t) PROVE Candidates'
  BY <1>3, <1>5 DEF RecordSeal
<1>6. ASSUME NEW t \in Tasks, NEW n \in Nat, ForceRetrain(t, n)
      PROVE  Candidates'
  BY <1>3, <1>6 DEF ForceRetrain
<1>7. ASSUME NEW t \in Tasks, LockGranted(t) PROVE Candidates'
  BY <1>2, <1>7 DEF LockGranted, TypeOK
<1>8. ASSUME NEW t \in Tasks, NEW d \in Dicts, TrainingDone(t, d)
      PROVE  Candidates'
  BY <1>8 DEF TrainingDone, TypeOK
<1>9. ASSUME NEW t \in Tasks, RetrainFails(t) PROVE Candidates'
  BY <1>4, <1>9 DEF RetrainFails
<1>10. ASSUME NEW t \in Tasks, NEW g \in Gains, TestingDone(t, g)
       PROVE  Candidates'
  BY <1>4, <1>10 DEF TestingDone
<1>11. ASSUME NEW v \in Loadable, NEW d \in Dicts, LoadDict(v, d)
       PROVE  Candidates'
  BY <1>11 DEF LoadDict
<1>12. CASE UNCHANGED vars
  BY <1>12 DEF vars
<1> QED
  BY <1>5, <1>6, <1>7, <1>8, <1>9, <1>10, <1>11, <1>12 DEF AnyStep, TaskStep, Resume

LEMMA TypeInvariant == Spec => [](TypeOK /\ Candidates)
<1>1. TypeOK /\ Candidates /\ [Next]_vars => (TypeOK /\ Candidates)'
  BY NextType, NextCandidates, StepsOfNext
<1> QED
  BY InitType, <1>1, PTL DEF Spec

\* Every variable stays in its type and the sample buffer within its maxlen,
\* for every number of coroutines, dictionaries, versions and samples
\* (AdaptiveDictManager, adaptive.py:80-328).
THEOREM TypeCorrect == Spec => []TypeOK
BY TypeInvariant, PTL

-----------------------------------------------------------------------------
(* At most one trainer.  OneTrainer is inductive given the types: a         *)
(* coroutine enters only when the lock is free, which by the first conjunct *)
(* means that nobody is inside.                                             *)

LEMMA StartTrainingOne ==
  ASSUME TypeOK, OneTrainer, NEW t \in Tasks, NEW f, NEW q, ~locked,
         StartTraining(t, f, q)
  PROVE  OneTrainer'
BY DEF OneTrainer, Busy, TypeOK, StartTraining, Suspend

LEMMA RetrainOne ==
  ASSUME TypeOK, OneTrainer, NEW t \in Tasks, NEW f, pc[t] = "idle",
         Retrain(t, f)
  PROVE  OneTrainer'
<1>1. CASE UNCHANGED <<lockVars, taskVars>>
  BY <1>1 DEF OneTrainer, Busy, lockVars, taskVars
<1>2. CASE Queue(t, f)
  BY <1>2 DEF Queue, Suspend, OneTrainer, Busy, TypeOK
<1>3. CASE ~locked /\ StartTraining(t, f, waiters)
  BY <1>3, StartTrainingOne
<1> QED
  BY <1>1, <1>2, <1>3 DEF Retrain

LEMMA FinishOne ==
  ASSUME TypeOK, OneTrainer, NEW t \in Tasks,
         pc[t] \in {"training", "testing"}, Finish(t)
  PROVE  OneTrainer'
BY DEF Finish, OneTrainer, Busy, TypeOK

LEMMA NextOne ==
  ASSUME TypeOK, OneTrainer, [AnyStep]_vars
  PROVE  OneTrainer'
<1>1. ASSUME UNCHANGED <<lockVars, taskVars>> PROVE OneTrainer'
  BY <1>1 DEF OneTrainer, Busy, lockVars, taskVars
<1>2. ASSUME NEW t \in Tasks, RecordSeal(t) PROVE OneTrainer'
  BY <1>1, <1>2, RetrainOne DEF RecordSeal
<1>3. ASSUME NEW t \in Tasks, NEW n \in Nat, ForceRetrain(t, n)
      PROVE  OneTrainer'
  BY <1>3, RetrainOne DEF ForceRetrain
<1>4. ASSUME NEW t \in Tasks, LockGranted(t) PROVE OneTrainer'
  BY <1>4, StartTrainingOne DEF LockGranted
<1>5. ASSUME NEW t \in Tasks, NEW d \in Dicts, TrainingDone(t, d)
      PROVE  OneTrainer'
  BY <1>5 DEF TrainingDone, OneTrainer, Busy, TypeOK, lockVars
<1>6. ASSUME NEW t \in Tasks, RetrainFails(t) PROVE OneTrainer'
  BY <1>6, FinishOne DEF RetrainFails
<1>7. ASSUME NEW t \in Tasks, NEW g \in Gains, TestingDone(t, g)
      PROVE  OneTrainer'
  BY <1>7, FinishOne DEF TestingDone
<1>8. ASSUME NEW v \in Loadable, NEW d \in Dicts, LoadDict(v, d)
      PROVE  OneTrainer'
  BY <1>1, <1>8 DEF LoadDict
<1>9. CASE UNCHANGED vars
  BY <1>1, <1>9 DEF vars
<1> QED
  BY <1>2, <1>3, <1>4, <1>5, <1>6, <1>7, <1>8, <1>9 DEF AnyStep, TaskStep, Resume

\* "Prevent concurrent retrains" (adaptive.py:104-105): whatever calls, skips,
\* queued forced retrains and failures come before, at most one coroutine
\* trains or tests, and the lock is held exactly while one does.
THEOREM AtMostOneTrainer == Spec => []OneTrainer
<1>1. Init => OneTrainer
  BY DEF Init, OneTrainer, Busy
<1>2. TypeOK /\ OneTrainer /\ [Next]_vars => OneTrainer'
  BY NextOne, StepsOfNext
<1> QED
  BY <1>1, <1>2, TypeCorrect, PTL DEF Spec

-----------------------------------------------------------------------------
(* The queue of the lock.  QueueExact is inductive given the types: only a  *)
(* coroutine that was idle joins it, at the end, and only the first one     *)
(* leaves it, to train or to return.                                        *)

Elements(q) == {q[i] : i \in 1..Len(q)}

Once(q) == \A i, j \in 1..Len(q) : q[i] = q[j] => i = j

LEMMA QueueExactly ==
  QueueExact <=> /\ {t \in Tasks : pc[t] = "waiting"} = Elements(waiters)
                 /\ Once(waiters)
BY DEF QueueExact, Elements, Once

\* The first of a queue leaves it, and the others keep their places.
LEMMA FirstLeaves ==
  ASSUME NEW q \in Seq(Tasks), q # <<>>, Once(q)
  PROVE  /\ Head(q) \in Tasks /\ Tail(q) \in Seq(Tasks)
         /\ Once(Tail(q))
         /\ Head(q) \in Elements(q)
         /\ Elements(Tail(q)) = Elements(q) \ {Head(q)}
<1>1. /\ Head(q) \in Tasks /\ Tail(q) \in Seq(Tasks)
      /\ Len(Tail(q)) = Len(q) - 1 /\ Len(q) \in Nat \ {0}
      /\ \A i \in 1..Len(Tail(q)) : Tail(q)[i] = q[i + 1]
  BY HeadTailProperties, EmptySeq
<1>2. Head(q) = q[1]
  BY <1>1
<1>3. Once(Tail(q))
  <2> SUFFICES ASSUME NEW i \in 1..Len(Tail(q)), NEW j \in 1..Len(Tail(q)),
                      Tail(q)[i] = Tail(q)[j]
               PROVE  i = j
    BY DEF Once
  <2>1. q[i + 1] = q[j + 1] /\ i + 1 \in 1..Len(q) /\ j + 1 \in 1..Len(q)
    BY <1>1
  <2> QED
    BY <2>1 DEF Once
<1>4. ASSUME NEW x \in Elements(Tail(q))
      PROVE  x \in Elements(q) \ {Head(q)}
  <2>1. PICK i \in 1..Len(Tail(q)) : x = Tail(q)[i]
    BY DEF Elements
  <2>2. x = q[i + 1] /\ i + 1 \in 1..Len(q) /\ 1 \in 1..Len(q) /\ i + 1 # 1
    BY <1>1, <2>1
  <2> QED
    BY <1>2, <2>2 DEF Elements, Once
<1>5. ASSUME NEW x \in Elements(q) \ {Head(q)}
      PROVE  x \in Elements(Tail(q))
  <2>1. PICK i \in 1..Len(q) : x = q[i]
    BY DEF Elements
  <2>2. i # 1
    BY <1>2, <2>1
  <2>3. i - 1 \in 1..Len(Tail(q)) /\ Tail(q)[i - 1] = x
    BY <1>1, <2>1, <2>2
  <2> QED
    BY <2>3 DEF Elements
<1>6. Head(q) \in Elements(q)
  BY <1>1, <1>2 DEF Elements
<1> QED
  BY <1>1, <1>3, <1>4, <1>5, <1>6

LEMMA JoinsQueue ==
  ASSUME NEW q \in Seq(Tasks), NEW t \in Tasks, t \notin Elements(q),
         Once(q)
  PROVE  /\ Append(q, t) \in Seq(Tasks) /\ Append(q, t) # <<>>
         /\ Once(Append(q, t))
         /\ Elements(Append(q, t)) = Elements(q) \cup {t}
<1> DEFINE p == Append(q, t)
<1>1. /\ p \in Seq(Tasks) /\ p # <<>> /\ Len(p) = Len(q) + 1
      /\ Len(q) \in Nat
      /\ \A i \in 1..Len(q) : p[i] = q[i]
      /\ p[Len(q) + 1] = t
  BY AppendProperties, LenProperties
<1> HIDE DEF p
<1>2. \A i \in 1..Len(p) : i \in 1..Len(q) \/ i = Len(q) + 1
  BY <1>1
<1>3. Elements(p) = Elements(q) \cup {t}
  <2>1. ASSUME NEW x \in Elements(p) PROVE x \in Elements(q) \cup {t}
    BY <1>1, <1>2 DEF Elements
  <2>2. ASSUME NEW x \in Elements(q) \cup {t} PROVE x \in Elements(p)
    <3>1. CASE x = t
      BY <1>1, <3>1 DEF Elements
    <3>2. CASE x \in Elements(q)
      BY <1>1, <3>2 DEF Elements
    <3> QED
      BY <3>1, <3>2
  <2> QED
    BY <2>1, <2>2
<1>4. Once(p)
  BY <1>1, <1>2 DEF Once, Elements
<1> QED
  BY <1>1, <1>3, <1>4 DEF p

LEMMA StartTrainingQueue ==
  ASSUME TypeOK, NEW t \in Tasks, NEW f, NEW q, StartTraining(t, f, q),
         {u \in Tasks : pc[u] = "waiting"} \ {t} = Elements(q), Once(q)
  PROVE  QueueExact'
<1>1. /\ waiters' = q /\ pc'[t] \in {"idle", "training"}
      /\ \A u \in Tasks \ {t} : pc'[u] = pc[u]
  BY DEF StartTraining, Suspend, TypeOK
<1>2. {u \in Tasks : pc'[u] = "waiting"} = {u \in Tasks : pc[u] = "waiting"} \ {t}
  BY <1>1
<1> QED
  BY <1>1, <1>2 DEF QueueExact, Elements, Once

LEMMA RetrainQueue ==
  ASSUME TypeOK, QueueExact, NEW t \in Tasks, NEW f, pc[t] = "idle",
         Retrain(t, f)
  PROVE  QueueExact'
<1>1. {u \in Tasks : pc[u] = "waiting"} = Elements(waiters) /\ Once(waiters)
  BY QueueExactly
<1>2. CASE UNCHANGED <<lockVars, taskVars>>
  BY <1>2 DEF QueueExact, lockVars, taskVars
<1>3. CASE Queue(t, f)
  <2>1. /\ waiters' = Append(waiters, t) /\ pc'[t] = "waiting"
        /\ \A u \in Tasks \ {t} : pc'[u] = pc[u]
    BY <1>3 DEF Queue, Suspend, TypeOK
  <2>2. /\ Once(Append(waiters, t))
        /\ Elements(Append(waiters, t)) = Elements(waiters) \cup {t}
    BY <1>1, JoinsQueue DEF TypeOK
  <2>3. {u \in Tasks : pc'[u] = "waiting"}
          = {u \in Tasks : pc[u] = "waiting"} \cup {t}
    BY <2>1
  <2> QED
    BY <1>1, <2>1, <2>2, <2>3 DEF QueueExact, Elements, Once
<1>4. CASE StartTraining(t, f, waiters)
  BY <1>1, <1>4, StartTrainingQueue
<1> QED
  BY <1>2, <1>3, <1>4 DEF Retrain

LEMMA FinishQueue ==
  ASSUME TypeOK, QueueExact, NEW t \in Tasks,
         pc[t] \in {"training", "testing"}, Finish(t)
  PROVE  QueueExact'
<1>1. /\ waiters' = waiters /\ pc'[t] = "idle"
      /\ \A u \in Tasks \ {t} : pc'[u] = pc[u]
  BY DEF Finish, TypeOK
<1>2. {u \in Tasks : pc'[u] = "waiting"} = {u \in Tasks : pc[u] = "waiting"}
  BY <1>1
<1> QED
  BY <1>1, <1>2 DEF QueueExact

LEMMA NextQueue ==
  ASSUME TypeOK, QueueExact, [AnyStep]_vars
  PROVE  QueueExact'
<1>1. ASSUME UNCHANGED <<lockVars, taskVars>> PROVE QueueExact'
  BY <1>1 DEF QueueExact, lockVars, taskVars
<1>2. ASSUME NEW t \in Tasks, RecordSeal(t) PROVE QueueExact'
  BY <1>1, <1>2, RetrainQueue DEF RecordSeal
<1>3. ASSUME NEW t \in Tasks, NEW n \in Nat, ForceRetrain(t, n)
      PROVE  QueueExact'
  BY <1>3, RetrainQueue DEF ForceRetrain
<1>4. ASSUME NEW t \in Tasks, LockGranted(t) PROVE QueueExact'
  <2>1. {u \in Tasks : pc[u] = "waiting"} = Elements(waiters) /\ Once(waiters)
    BY QueueExactly
  <2>2. /\ Once(Tail(waiters))
        /\ Elements(Tail(waiters)) = Elements(waiters) \ {t}
    BY <1>4, <2>1, FirstLeaves DEF LockGranted, TypeOK
  <2> QED
    BY <1>4, <2>1, <2>2, StartTrainingQueue DEF LockGranted
<1>5. ASSUME NEW t \in Tasks, NEW d \in Dicts, TrainingDone(t, d)
      PROVE  QueueExact'
  <2>1. /\ waiters' = waiters /\ pc[t] # "waiting" /\ pc'[t] # "waiting"
        /\ \A u \in Tasks \ {t} : pc'[u] = pc[u]
    BY <1>5 DEF TrainingDone, TypeOK, lockVars
  <2>2. {u \in Tasks : pc'[u] = "waiting"} = {u \in Tasks : pc[u] = "waiting"}
    BY <2>1
  <2> QED
    BY <2>1, <2>2 DEF QueueExact
<1>6. ASSUME NEW t \in Tasks, RetrainFails(t) PROVE QueueExact'
  BY <1>6, FinishQueue DEF RetrainFails
<1>7. ASSUME NEW t \in Tasks, NEW g \in Gains, TestingDone(t, g)
      PROVE  QueueExact'
  BY <1>7, FinishQueue DEF TestingDone
<1>8. ASSUME NEW v \in Loadable, NEW d \in Dicts, LoadDict(v, d)
      PROVE  QueueExact'
  BY <1>1, <1>8 DEF LoadDict
<1>9. CASE UNCHANGED vars
  BY <1>1, <1>9 DEF vars
<1> QED
  BY <1>2, <1>3, <1>4, <1>5, <1>6, <1>7, <1>8, <1>9 DEF AnyStep, TaskStep, Resume

\* The queue of _retrain_lock holds exactly the coroutines that wait at the
\* "async with" of _retrain, each once, through skipped and forced retrains,
\* hand-overs of the lock, failures and loads (adaptive.py:237-292).
THEOREM QueueAlwaysExact == Spec => []QueueExact
<1>1. Init => QueueExact
  BY EmptySeq DEF Init, QueueExact
<1>2. TypeOK /\ QueueExact /\ [Next]_vars => QueueExact'
  BY NextQueue, StepsOfNext
<1> QED
  BY <1>1, <1>2, TypeCorrect, PTL DEF Spec

-----------------------------------------------------------------------------
(* The versions.                                                            *)

LEMMA NextHead ==
  ASSUME TypeOK, Candidates, CurrentIsHead, [AnyStep]_vars
  PROVE  CurrentIsHead'
<1>1. ASSUME UNCHANGED store PROVE CurrentIsHead'
  BY <1>1 DEF CurrentIsHead, store
<1>2. ASSUME NEW t \in Tasks, NEW g \in Gains, TestingDone(t, g)
      PROVE  CurrentIsHead'
  <2>1. CASE Commits(t, g)
    <3>1. cand[t] \in Dicts
      BY <1>2 DEF TestingDone, Candidates
    <3>2. /\ Len(Committed(cand[t])) # 0
          /\ Committed(cand[t])[1].dict = cand[t]
      <4>1. Len(versions) \in Nat /\ KeepVersions \in Nat \ {0}
        BY LenProperties, ConstantsAssumption DEF TypeOK
      <4>2. /\ Len(Committed(cand[t])) \in {KeepVersions, Len(versions) + 1}
            /\ Committed(cand[t])[1].dict = cand[t]
        <5>1. /\ Len(Committed(cand[t])) =
                   IF Len(versions) + 1 > KeepVersions
                     THEN KeepVersions ELSE Len(versions) + 1
              /\ Committed(cand[t])[1]
                   = [version |-> CurrentVersion + 1, dict |-> cand[t]]
          BY <3>1, CommittedList DEF TypeOK
        <5> QED
          BY <5>1
      <4> QED
        BY <4>1, <4>2
    <3> QED
      BY <1>2, <2>1, <3>2, EmptySeq DEF TestingDone, CurrentIsHead
  <2>2. CASE ~Commits(t, g)
    BY <1>1, <1>2, <2>2 DEF TestingDone
  <2> QED
    BY <2>1, <2>2
<1>3. ASSUME NEW v \in Loadable, NEW d \in Dicts, LoadDict(v, d)
      PROVE  CurrentIsHead'
  <2>1. <<[version |-> v, dict |-> d]>> \in Seq(DictVersion)
    BY ConstantsAssumption DEF DictVersion
  <2>2. Len(versions') # 0 /\ versions'[1].dict = d
    BY <1>3, <2>1, ConcatProperties, LenProperties DEF LoadDict, TypeOK
  <2> QED
    BY <1>3, <2>2, EmptySeq DEF LoadDict, CurrentIsHead
<1>4. CASE UNCHANGED vars
  BY <1>1, <1>4 DEF vars
<1> QED
  BY <1>1, <1>2, <1>3, <1>4
     DEF AnyStep, TaskStep, Resume, RecordSeal, ForceRetrain, LockGranted,
         TrainingDone, RetrainFails

\* The dictionary that compressor() uses (_current) is the one that
\* current_version and dict_id report (_versions[0]), after every retrain and
\* every load_dict_bytes (adaptive.py:142-143, 288-289).
THEOREM CurrentAlwaysHead == Spec => []CurrentIsHead
<1>1. Init => CurrentIsHead
  BY DEF Init, CurrentIsHead
<1>2. TypeOK /\ Candidates /\ CurrentIsHead /\ [Next]_vars => CurrentIsHead'
  BY NextHead, StepsOfNext
<1> QED
  BY <1>1, <1>2, TypeInvariant, PTL DEF Spec

-----------------------------------------------------------------------------
(* The refinement.  It holds while nobody calls load_dict_bytes, which      *)
(* takes its number from the caller.                                        *)

LEMMA NextConsecutive ==
  ASSUME TypeOK, Candidates, VersionsConsecutive, [TaskStep]_vars
  PROVE  VersionsConsecutive'
<1>1. ASSUME UNCHANGED store PROVE VersionsConsecutive'
  BY <1>1 DEF VersionsConsecutive, CurrentVersion, store
<1>2. ASSUME NEW t \in Tasks, NEW g \in Gains, TestingDone(t, g), Commits(t, g)
      PROVE  VersionsConsecutive'
  <2> DEFINE list == Committed(cand[t])
  <2>1. cand[t] \in Dicts
    BY <1>2 DEF TestingDone, Candidates
  <2>2. /\ CurrentVersion \in Nat /\ Len(versions) \in Nat
        /\ KeepVersions \in Nat \ {0}
    BY CurrentVersionType, LenProperties, ConstantsAssumption DEF TypeOK
  <2>3. /\ list \in Seq(DictVersion)
        /\ Len(list) = IF Len(versions) + 1 > KeepVersions
                         THEN KeepVersions ELSE Len(versions) + 1
        /\ list[1] = [version |-> CurrentVersion + 1, dict |-> cand[t]]
        /\ \A i \in 2..Len(list) : list[i] = versions[i - 1]
    BY <2>1, CommittedList DEF TypeOK
  <2>4. versions' = list
    BY <1>2 DEF TestingDone
  <2> HIDE DEF list
  <2>5. Len(list) \in Nat /\ Len(list) > 0
    BY <2>2, <2>3
  <2>6. CurrentVersion' = CurrentVersion + 1
    BY <2>3, <2>4, <2>5, EmptySeq DEF CurrentVersion
  <2>7. ASSUME NEW i \in 1..Len(list)
        PROVE  list[i].version = CurrentVersion + 2 - i
    <3>1. CASE i = 1
      BY <2>2, <2>3, <3>1
    <3>2. CASE i # 1
      <4>1. i - 1 \in 1..Len(versions) /\ i \in 2..Len(list)
        BY <2>2, <2>3, <2>5, <3>2
      <4>2. versions[i - 1].version = CurrentVersion + 1 - (i - 1)
        BY <4>1 DEF VersionsConsecutive
      <4> QED
        BY <2>2, <2>3, <4>1, <4>2
    <3> QED
      BY <3>1, <3>2
  <2>8. /\ CurrentVersion + 1 >= Len(list)
        /\ Len(list) <= KeepVersions
        /\ Len(list) < KeepVersions => CurrentVersion + 1 = Len(list)
    BY <2>2, <2>3 DEF VersionsConsecutive
  <2> QED
    BY <2>2, <2>4, <2>6, <2>7, <2>8 DEF VersionsConsecutive
<1>3. ASSUME NEW t \in Tasks, NEW g \in Gains, TestingDone(t, g)
      PROVE  VersionsConsecutive'
  BY <1>1, <1>2, <1>3 DEF TestingDone
<1>4. CASE UNCHANGED vars
  BY <1>1, <1>4 DEF vars
<1> QED
  BY <1>1, <1>3, <1>4
     DEF TaskStep, Resume, RecordSeal, ForceRetrain, LockGranted,
         TrainingDone, RetrainFails

\* The numbers of the kept versions are consecutive and end at the current
\* one, so that _version_by_id finds at most one dictionary (adaptive.py:
\* 272-292, 364-368), as long as load_dict_bytes is not called.
THEOREM AlwaysConsecutive ==
  ASSUME Loadable = {} PROVE Spec => []VersionsConsecutive
<1>1. Init => VersionsConsecutive
  BY ConstantsAssumption, EmptySeq
     DEF Init, VersionsConsecutive, CurrentVersion
<1>2. TypeOK /\ Candidates /\ VersionsConsecutive /\ [Next]_vars
        => VersionsConsecutive'
  BY NextConsecutive, StepsOfNext
<1> QED
  BY <1>1, <1>2, TypeInvariant, PTL DEF Spec

\* With consecutive numbers the kept ones are the register's window, and a
\* number's place in the list follows from it.
LookupInWindow ==
  /\ KnownVersions = Register!Window(CurrentVersion)
  /\ \A v \in KnownVersions :
       /\ CurrentVersion + 1 - v \in 1..Len(versions)
       /\ DictOfVersion(v) = versions[CurrentVersion + 1 - v].dict

LEMMA Lookup == TypeOK /\ VersionsConsecutive => LookupInWindow
<1> SUFFICES ASSUME TypeOK, VersionsConsecutive PROVE LookupInWindow
  OBVIOUS
<1>1. /\ CurrentVersion \in Nat /\ Len(versions) \in Nat
      /\ KeepVersions \in Nat \ {0}
  BY CurrentVersionType, LenProperties, ConstantsAssumption DEF TypeOK
<1>2. \A i \in 1..Len(versions) : versions[i].version = CurrentVersion + 1 - i
  BY DEF VersionsConsecutive
<1>3. ASSUME NEW v \in KnownVersions
      PROVE  /\ CurrentVersion + 1 - v \in 1..Len(versions)
             /\ v \in Register!Window(CurrentVersion)
  <2>1. PICK i \in 1..Len(versions) : v = versions[i].version
    BY DEF KnownVersions
  <2>2. v = CurrentVersion + 1 - i
    BY <1>2, <2>1
  <2> QED
    BY <1>1, <2>2 DEF Register!Window, VersionsConsecutive
<1>4. ASSUME NEW v \in Register!Window(CurrentVersion)
      PROVE  v \in KnownVersions
  <2>1. CurrentVersion + 1 - v \in 1..Len(versions)
    BY <1>1 DEF Register!Window, VersionsConsecutive
  <2>2. versions[CurrentVersion + 1 - v].version = v
    BY <1>1, <1>2, <2>1 DEF Register!Window
  <2> QED
    BY <2>1, <2>2 DEF KnownVersions
<1>5. ASSUME NEW v \in KnownVersions
      PROVE  DictOfVersion(v) = versions[CurrentVersion + 1 - v].dict
  <2> DEFINE Found(j) == /\ versions[j].version = v
                         /\ \A k \in 1..(j - 1) : versions[k].version # v
             at == CurrentVersion + 1 - v
  <2>1. at \in 1..Len(versions) /\ v \in Int
    BY <1>1, <1>3 DEF Register!Window
  <2>2. ASSUME NEW j \in 1..Len(versions) PROVE Found(j) <=> j = at
    <3>1. versions[j].version = v <=> j = at
      <4>1. versions[j].version = CurrentVersion + 1 - j
        BY <1>2
      <4> QED
        BY <1>1, <2>1, <4>1
    <3>2. ASSUME j = at, NEW k \in 1..(j - 1) PROVE versions[k].version # v
      <4>1. k \in 1..Len(versions) /\ k # at
        BY <1>1, <2>1, <3>2
      <4> QED
        BY <1>1, <1>2, <2>1, <4>1
    <3> QED
      BY <3>1, <3>2
  <2> HIDE DEF Found, at
  <2>3. (CHOOSE j \in 1..Len(versions) : Found(j)) = at
    BY <2>1, <2>2
  <2> QED
    BY <2>3 DEF DictOfVersion, Found, at
<1> QED
  BY <1>3, <1>4, <1>5 DEF LookupInWindow

LEMMA LookupNext ==
  TypeOK' /\ VersionsConsecutive' => LookupInWindow'
BY Lookup, PTL

LEMMA CommitPublishes ==
  ASSUME TypeOK, Candidates, VersionsConsecutive,
         TypeOK', VersionsConsecutive',
         NEW t \in Tasks, NEW g \in Gains, TestingDone(t, g), Commits(t, g)
  PROVE  Register!Publish(cand[t])
<1> DEFINE n == CurrentVersion
           d == cand[t]
<1>1. d \in Dicts /\ versions' = Committed(d)
  BY DEF TestingDone, Candidates
<1>2. /\ n \in Nat /\ Len(versions) \in Nat /\ KeepVersions \in Nat \ {0}
  BY CurrentVersionType, LenProperties, ConstantsAssumption DEF TypeOK
<1>3. /\ Len(versions') = IF Len(versions) + 1 > KeepVersions
                            THEN KeepVersions ELSE Len(versions) + 1
      /\ versions'[1] = [version |-> n + 1, dict |-> d]
      /\ \A i \in 2..Len(versions') : versions'[i] = versions[i - 1]
  BY <1>1, CommittedList DEF TypeOK
<1>4. CurrentVersion' = n + 1
  <2>1. Len(versions') # 0
    BY <1>2, <1>3
  <2> QED
    BY <1>3, <2>1, EmptySeq DEF CurrentVersion
<1>5. LookupInWindow /\ LookupInWindow'
  BY Lookup, LookupNext
<1>6. KnownVersions' = Register!Window(n + 1)
  BY <1>4, <1>5 DEF LookupInWindow, Register!Window
<1>7. ASSUME NEW v \in Register!Window(n + 1)
      PROVE  DictOfVersion(v)' =
               IF v = n + 1 THEN d
               ELSE [w \in KnownVersions |-> DictOfVersion(w)][v]
  <2> DEFINE at == n + 2 - v
  <2>1. at \in 1..Len(versions') /\ DictOfVersion(v)' = versions'[at].dict
    BY <1>2, <1>4, <1>5, <1>6 DEF LookupInWindow, Register!Window
  <2>2. CASE v = n + 1
    <3>1. at = 1
      BY <1>2, <2>2
    <3> QED
      BY <1>3, <2>1, <2>2, <3>1
  <2>3. CASE v # n + 1
    <3>1. at \in 2..Len(versions') /\ at - 1 = n + 1 - v
      BY <1>2, <2>1, <2>3 DEF Register!Window
    <3>2. versions'[at] = versions[n + 1 - v]
      BY <1>3, <3>1
    <3>3. v \in KnownVersions
      BY <1>2, <1>5, <2>3 DEF LookupInWindow, Register!Window
    <3>4. DictOfVersion(v) = versions[n + 1 - v].dict
      BY <1>5, <3>3 DEF LookupInWindow
    <3> QED
      BY <2>1, <2>3, <3>2, <3>3, <3>4
  <2> QED
    BY <2>2, <2>3
<1> QED
  BY <1>4, <1>6, <1>7 DEF Register!Publish

LEMMA StepPublishes ==
  ASSUME TypeOK, Candidates, VersionsConsecutive, [TaskStep]_vars,
         TypeOK', VersionsConsecutive'
  PROVE  [Register!RegNext]_(Register!regVars)
<1>1. ASSUME UNCHANGED store PROVE UNCHANGED Register!regVars
  BY <1>1 DEF Register!regVars, store, CurrentVersion, KnownVersions,
              DictOfVersion
<1>2. ASSUME NEW t \in Tasks, NEW g \in Gains, TestingDone(t, g)
      PROVE  [Register!RegNext]_(Register!regVars)
  <2>1. CASE Commits(t, g)
    <3>1. cand[t] \in Dicts
      BY <1>2 DEF TestingDone, Candidates
    <3> QED
      BY <1>2, <2>1, <3>1, CommitPublishes DEF Register!RegNext
  <2>2. CASE ~Commits(t, g)
    BY <1>1, <1>2, <2>2 DEF TestingDone
  <2> QED
    BY <2>1, <2>2
<1>3. CASE UNCHANGED vars
  BY <1>1, <1>3 DEF vars
<1> QED
  BY <1>1, <1>2, <1>3
     DEF TaskStep, Resume, RecordSeal, ForceRetrain, LockGranted,
         TrainingDone, RetrainFails

\* The manager implements the register of numbered versions: a commit
\* publishes the next number and no other step changes what is readable
\* (adaptive.py:271-292, 364-368), while load_dict_bytes is not called.
THEOREM RegisterRefined ==
  ASSUME Loadable = {} PROVE Spec => ImplementsRegister
<1>1. Init => Register!RegInit
  <2>1. Init => CurrentVersion = 0 /\ KnownVersions = {}
    BY EmptySeq DEF Init, CurrentVersion, KnownVersions
  <2> QED
    BY <2>1 DEF Register!RegInit
<1>2. /\ TypeOK /\ Candidates /\ VersionsConsecutive /\ [Next]_vars
      /\ TypeOK' /\ VersionsConsecutive'
      => [Register!RegNext]_(Register!regVars)
  BY StepPublishes, StepsOfNext
<1> QED
  BY <1>1, <1>2, TypeInvariant, AlwaysConsecutive, PTL
     DEF Spec, ImplementsRegister, Register!RegSpec

-----------------------------------------------------------------------------
(* The engine.                                                             *)

ManagerInv ==
  /\ TypeOK /\ Candidates /\ OneTrainer /\ QueueExact
  /\ CurrentIsHead /\ VersionsConsecutive

PulsesTyped ==
  /\ stage \in [Pulses -> Stages] /\ frame \in [Pulses -> Frame]
  /\ recorded \in [Pulses -> Nat] /\ life \in [Pulses -> Nat]
  /\ epoch \in Nat /\ probe \in [Pulses -> BOOLEAN]
  /\ trainer \in Dicts \cup {NoDict}

\* The pulse was compressed by the process that runs.
OfThisProcess(p) ==
  stage[p] \in {"encrypting", "unsealing", "sealed"} /\ life[p] = epoch

\* Of what an earlier process began only sealed pulses are left.
LifeOK ==
  \A p \in Pulses : /\ life[p] <= epoch
                    /\ stage[p] \in {"encrypting", "unsealing"} => life[p] = epoch

NotNewer ==
  \A p \in Pulses : OfThisProcess(p) => frame[p].version <= CurrentVersion

\* While its number is kept, the dictionary of a frame is found under it.
Numbered ==
  \A p \in Pulses :
    OfThisProcess(p) /\ frame[p].version \in KnownVersions
      => DictOfVersion(frame[p].version) = frame[p].dict

\* The version recorded is at least that of the frame.
Ordered ==
  \A p \in Pulses :
    OfThisProcess(p) /\ stage[p] # "encrypting" =>
      /\ frame[p].version <= recorded[p]
      /\ recorded[p] <= CurrentVersion

EngineInv ==
  ManagerInv /\ PulsesTyped /\ LifeOK /\ NotNewer /\ Numbered /\ Ordered

-----------------------------------------------------------------------------
(* The manager inside the engine.                                          *)

LEMMA ManagerInit == Init => ManagerInv
<1> SUFFICES ASSUME Init PROVE ManagerInv
  OBVIOUS
<1>1. OneTrainer /\ CurrentIsHead
  BY DEF Init, OneTrainer, Busy, CurrentIsHead
<1>2. QueueExact
  BY EmptySeq DEF Init, QueueExact
<1>3. VersionsConsecutive
  BY ConstantsAssumption, EmptySeq
     DEF Init, VersionsConsecutive, CurrentVersion
<1> QED
  BY <1>1, <1>2, <1>3, InitType DEF ManagerInv

LEMMA ManagerStarts == Init' => ManagerInv'
BY ManagerInit, PTL

LEMMA ManagerNext ==
  ASSUME ManagerInv, [TaskStep]_vars
  PROVE  ManagerInv'
<1>1. [AnyStep]_vars
  BY DEF AnyStep
<1> QED
  BY <1>1, NextType, NextCandidates, NextOne, NextQueue, NextHead,
     NextConsecutive DEF ManagerInv

\* A new process has a new manager.
LEMMA RestartInit == Restart => Init'
BY DEF Restart, Init

\* Every step but a restart is one of the manager's coroutines, or none of it.
LEMMA EngineSteps == EngineNext => [TaskStep]_vars \/ Restart
<1> SUFFICES ASSUME EngineNext PROVE [TaskStep]_vars \/ Restart
  OBVIOUS
<1>1. ASSUME NEW p \in Pulses,
             \/ SealStart(p) \/ Compress(p) \/ RecordVersion(p)
             \/ SealFails(p) \/ EngineCheck(p) \/ CheckEnds(p)
      PROVE  UNCHANGED vars
  BY <1>1 DEF SealStart, Compress, RecordVersion, SealFails, EngineCheck,
              CheckEnds
<1>2. ASSUME NEW t \in Tasks, BenchmarkTrains(t) \/ TrainerJob(t)
      PROVE  UNCHANGED vars
  BY <1>2 DEF BenchmarkTrains, TrainerJob, TrainerFails, TrainerTrained
<1>3. ASSUME NEW t \in Tasks,
             \/ Feed(t) \/ ScheduledRetrain(t) \/ ManagerStep(t)
             \/ \E n \in ExtraSizes : Bootstrap(t, n)
      PROVE  TaskStep
  BY <1>3, ConstantsAssumption
     DEF Feed, ScheduledRetrain, ManagerStep, Bootstrap, TaskStep
<1> QED
  BY <1>1, <1>2, <1>3 DEF EngineNext

LEMMA ManagerInEngine == ManagerInv /\ [EngineNext]_allVars => ManagerInv'
<1>1. UNCHANGED allVars => UNCHANGED vars
  BY DEF allVars
<1> QED
  BY <1>1, EngineSteps, ManagerNext, RestartInit, ManagerStarts

\* What a step other than a restart does to the versions: none is renumbered,
\* and what it adds is newer than all of them.
VersionsMove ==
  /\ CurrentVersion' \in {CurrentVersion, CurrentVersion + 1}
  /\ KnownVersions' = Register!Window(CurrentVersion')
  /\ \A v \in KnownVersions' :
       v <= CurrentVersion => /\ v \in KnownVersions
                              /\ DictOfVersion(v)' = DictOfVersion(v)

LEMMA VersionsMoved ==
  ASSUME ManagerInv, ManagerInv', [TaskStep]_vars
  PROVE  VersionsMove
<1>1. [Register!RegNext]_(Register!regVars)
  BY StepPublishes DEF ManagerInv
<1>2. LookupInWindow /\ LookupInWindow' /\ CurrentVersion \in Nat
      /\ KeepVersions \in Nat
  BY Lookup, LookupNext, CurrentVersionType, ConstantsAssumption
     DEF ManagerInv, TypeOK
<1>3. KnownVersions = Register!Window(CurrentVersion)
  BY <1>2 DEF LookupInWindow
<1>4. KnownVersions' = Register!Window(CurrentVersion')
  BY <1>2 DEF LookupInWindow, Register!Window
<1> DEFINE A == [v \in KnownVersions |-> DictOfVersion(v)]
<1>5. CASE UNCHANGED Register!regVars
  <2>1. CurrentVersion' = CurrentVersion /\ A' = A
    BY <1>5 DEF Register!regVars
  <2>2. KnownVersions' = KnownVersions
    BY <1>3, <1>4, <2>1
  <2>3. ASSUME NEW v \in KnownVersions'
        PROVE  DictOfVersion(v)' = DictOfVersion(v)
    <3>1. A'[v] = DictOfVersion(v)' /\ A[v] = DictOfVersion(v)
      BY <2>2, <2>3
    <3> QED
      BY <2>1, <3>1
  <2> QED
    BY <1>4, <2>1, <2>2, <2>3 DEF VersionsMove
<1>6. ASSUME NEW d \in Dicts, Register!Publish(d)
      PROVE  VersionsMove
  <2>1. /\ CurrentVersion' = CurrentVersion + 1
        /\ A' = [v \in Register!Window(CurrentVersion + 1) |->
                   IF v = CurrentVersion + 1 THEN d ELSE A[v]]
    BY <1>6 DEF Register!Publish
  <2>2. ASSUME NEW v \in KnownVersions', v <= CurrentVersion
        PROVE  v \in KnownVersions /\ DictOfVersion(v)' = DictOfVersion(v)
    <3>1. v \in Register!Window(CurrentVersion + 1)
      BY <1>4, <2>1
    <3>2. v \in KnownVersions /\ v # CurrentVersion + 1
      BY <1>2, <1>3, <2>2, <3>1 DEF Register!Window
    <3>3. A'[v] = DictOfVersion(v)' /\ A[v] = DictOfVersion(v)
      BY <3>2
    <3> QED
      BY <2>1, <3>1, <3>2, <3>3
  <2> QED
    BY <1>4, <2>1, <2>2 DEF VersionsMove
<1> QED
  BY <1>1, <1>5, <1>6 DEF Register!RegNext

-----------------------------------------------------------------------------
(* EngineInv is inductive.                                                 *)

LEMMA EngineInitInv == EngineInit => EngineInv
<1> SUFFICES ASSUME EngineInit PROVE EngineInv
  OBVIOUS
<1>1. ManagerInv
  BY ManagerInit DEF EngineInit
<1>2. PulsesTyped
  BY DEF EngineInit, PulsesTyped, Stages, Frame, NoFrame
<1>3. LifeOK /\ NotNewer /\ Numbered /\ Ordered
  BY DEF EngineInit, LifeOK, NotNewer, Numbered, Ordered, OfThisProcess
<1> QED
  BY <1>1, <1>2, <1>3 DEF EngineInv

\* What EngineInv says of a pulse, once its stage, frame, recorded version and
\* process are s, f, r and l.
PulseOK(s, f, r, l) ==
  /\ l <= epoch
  /\ s \in {"encrypting", "unsealing"} => l = epoch
  /\ s \in {"encrypting", "unsealing", "sealed"} /\ l = epoch =>
       /\ f.version <= CurrentVersion
       /\ f.version \in KnownVersions => DictOfVersion(f.version) = f.dict
       /\ s # "encrypting" => f.version <= r /\ r <= CurrentVersion

PulsesOK ==
  \A p \in Pulses : PulseOK(stage[p], frame[p], recorded[p], life[p])

LEMMA OnePulseEach == LifeOK /\ NotNewer /\ Numbered /\ Ordered <=> PulsesOK
BY DEF LifeOK, NotNewer, Numbered, Ordered, OfThisProcess, PulseOK, PulsesOK

LEMMA OnePulseEachNext ==
  LifeOK' /\ NotNewer' /\ Numbered' /\ Ordered' <=> PulsesOK'
BY OnePulseEach, PTL

\* A step of one pulse, which leaves the manager and the process as they are.
LEMMA OnePulse ==
  ASSUME EngineInv, NEW p \in Pulses, UNCHANGED <<vars, epoch>>,
         PulsesTyped',
         \A q \in Pulses \ {p} : /\ stage'[q] = stage[q] /\ frame'[q] = frame[q]
                                 /\ recorded'[q] = recorded[q]
                                 /\ life'[q] = life[q],
         PulseOK(stage'[p], frame'[p], recorded'[p], life'[p])
  PROVE  EngineInv'
<1>1. ManagerInv'
  <2>1. [TaskStep]_vars /\ ManagerInv
    BY DEF EngineInv
  <2> QED
    BY <2>1, ManagerNext
<1>2. /\ CurrentVersion' = CurrentVersion /\ KnownVersions' = KnownVersions
      /\ \A v : DictOfVersion(v)' = DictOfVersion(v)
  BY DEF vars, store, CurrentVersion, KnownVersions, DictOfVersion
<1>3. ASSUME NEW q \in Pulses
      PROVE  PulseOK(stage[q], frame[q], recorded[q], life[q])'
  <2>1. PulseOK(stage'[q], frame'[q], recorded'[q], life'[q])
    <3>1. CASE q = p
      BY <3>1
    <3>2. CASE q # p
      BY <3>2, OnePulseEach DEF EngineInv, PulsesOK
    <3> QED
      BY <3>1, <3>2
  <2> QED
    BY <1>2, <2>1 DEF PulseOK
<1> QED
  BY <1>1, <1>3, OnePulseEachNext DEF EngineInv, PulsesOK

\* The current dictionary is found under the current number, and 0 is the
\* number of none.
LEMMA CurrentFound ==
  ASSUME ManagerInv
  PROVE  /\ CurrentVersion \in Nat /\ 0 \notin KnownVersions
         /\ current # NoDict =>
              /\ CurrentVersion \in KnownVersions
              /\ DictOfVersion(CurrentVersion) = current
<1>1. /\ CurrentVersion \in Nat /\ Len(versions) \in Nat
      /\ KeepVersions \in Nat \ {0} /\ LookupInWindow
  BY CurrentVersionType, LenProperties, ConstantsAssumption, Lookup
     DEF ManagerInv, TypeOK
<1>2. 0 \notin KnownVersions
  BY <1>1 DEF LookupInWindow, Register!Window
<1>3. ASSUME current # NoDict
      PROVE  /\ CurrentVersion \in KnownVersions
             /\ DictOfVersion(CurrentVersion) = current
  <2>1. versions # <<>> /\ current = versions[1].dict
    BY <1>3 DEF ManagerInv, CurrentIsHead
  <2>2. Len(versions) > 0
    BY <1>1, <2>1, EmptySeq DEF ManagerInv, TypeOK
  <2>3. CurrentVersion \in KnownVersions
    BY <1>1, <2>1, <2>2 DEF CurrentVersion, KnownVersions
  <2>4. DictOfVersion(CurrentVersion) = versions[CurrentVersion + 1 - CurrentVersion].dict
    BY <1>1, <2>3 DEF LookupInWindow
  <2>5. CurrentVersion + 1 - CurrentVersion = 1
    BY <1>1
  <2> QED
    BY <2>1, <2>3, <2>4, <2>5
<1> QED
  BY <1>1, <1>2, <1>3

LEMMA PulseStepInv ==
  ASSUME EngineInv, NEW p \in Pulses,
         \/ SealStart(p) \/ Compress(p) \/ RecordVersion(p)
         \/ SealFails(p) \/ EngineCheck(p) \/ CheckEnds(p)
  PROVE  EngineInv'
<1>1. /\ PulsesTyped /\ TypeOK /\ VersionsConsecutive
      /\ CurrentVersion \in Nat /\ current \in Dicts \cup {NoDict}
  BY CurrentVersionType DEF EngineInv, ManagerInv, TypeOK
<1>2. PulseOK(stage[p], frame[p], recorded[p], life[p])
  BY OnePulseEach DEF EngineInv, PulsesOK
<1>3. CASE SealStart(p) \/ EngineCheck(p)
  <2>1. /\ UNCHANGED <<vars, epoch, frame, recorded, life, trainer>>
        /\ stage' = [stage EXCEPT ![p] = "compressing"]
        /\ probe' \in [Pulses -> BOOLEAN]
    BY <1>1, <1>3 DEF SealStart, EngineCheck, PulsesTyped
  <2>2. PulsesTyped'
    BY <1>1, <2>1 DEF PulsesTyped, Stages
  <2>3. PulseOK(stage'[p], frame'[p], recorded'[p], life'[p])
    BY <1>1, <1>2, <2>1 DEF PulseOK, PulsesTyped
  <2> QED
    BY <1>1, <2>1, <2>2, <2>3, OnePulse DEF PulsesTyped
<1>4. CASE SealFails(p)
  <2>1. /\ UNCHANGED <<vars, epoch, frame, recorded, life, probe, trainer>>
        /\ stage' = [stage EXCEPT ![p] = "failed"]
    BY <1>4 DEF SealFails
  <2>2. PulsesTyped'
    BY <1>1, <2>1 DEF PulsesTyped, Stages
  <2>3. PulseOK(stage'[p], frame'[p], recorded'[p], life'[p])
    BY <1>1, <1>2, <2>1 DEF PulseOK, PulsesTyped
  <2> QED
    BY <1>1, <2>1, <2>2, <2>3, OnePulse DEF PulsesTyped
<1>5. CASE Compress(p)
  <2>1. /\ CompressionFrame \in Frame
        /\ CompressionFrame.version <= CurrentVersion
        /\ CompressionFrame.version \in KnownVersions =>
             DictOfVersion(CompressionFrame.version) = CompressionFrame.dict
    <3>1. CASE ManagerTrained
      BY <1>1, <3>1, CurrentFound
         DEF CompressionFrame, ManagerFrame, ManagerTrained, Frame, EngineInv
    <3>2. CASE ~ManagerTrained
      BY <1>1, <3>2, CurrentFound
         DEF CompressionFrame, TrainerFrame, Frame, PulsesTyped, EngineInv
    <3> QED
      BY <3>1, <3>2
  <2>2. /\ UNCHANGED <<vars, epoch, recorded, probe, trainer>>
        /\ stage' = [stage EXCEPT ![p] = "encrypting"]
        /\ frame' = [frame EXCEPT ![p] = CompressionFrame]
        /\ life' = [life EXCEPT ![p] = epoch]
    BY <1>5 DEF Compress
  <2> HIDE DEF CompressionFrame
  <2>3. PulsesTyped'
    BY <1>1, <2>1, <2>2 DEF PulsesTyped, Stages
  <2>4. PulseOK(stage'[p], frame'[p], recorded'[p], life'[p])
    BY <1>1, <2>1, <2>2 DEF PulseOK, PulsesTyped
  <2> QED
    BY <1>1, <2>2, <2>3, <2>4, OnePulse DEF PulsesTyped
<1>6. CASE RecordVersion(p)
  <2>1. /\ UNCHANGED <<vars, epoch, frame, life, probe, trainer>>
        /\ stage[p] = "encrypting"
        /\ stage' = [stage EXCEPT ![p] = IF probe[p] THEN "unsealing"
                                                     ELSE "sealed"]
        /\ recorded' = [recorded EXCEPT ![p] = CurrentVersion]
    BY <1>6 DEF RecordVersion
  <2>2. PulsesTyped'
    BY <1>1, <2>1 DEF PulsesTyped, Stages
  <2>3. PulseOK(stage'[p], frame'[p], recorded'[p], life'[p])
    BY <1>1, <1>2, <2>1 DEF PulseOK, PulsesTyped
  <2> QED
    BY <1>1, <2>1, <2>2, <2>3, OnePulse DEF PulsesTyped
<1>7. CASE CheckEnds(p)
  <2>1. /\ UNCHANGED <<vars, epoch, trainer>>
        /\ stage' = [stage EXCEPT ![p] = IF Unseals(p) THEN "new" ELSE "refuted"]
        /\ frame' = [frame EXCEPT ![p] = NoFrame]
        /\ recorded' = [recorded EXCEPT ![p] = 0]
        /\ life' = [life EXCEPT ![p] = 0]
        /\ probe' = [probe EXCEPT ![p] = FALSE]
    BY <1>7 DEF CheckEnds
  <2>2. PulsesTyped'
    BY <1>1, <2>1 DEF PulsesTyped, Stages, Frame, NoFrame
  <2>3. PulseOK(stage'[p], frame'[p], recorded'[p], life'[p])
    BY <1>1, <2>1 DEF PulseOK, PulsesTyped
  <2> QED
    BY <1>1, <2>1, <2>2, <2>3, OnePulse DEF PulsesTyped
<1> QED
  BY <1>3, <1>4, <1>5, <1>6, <1>7

\* The steps of the manager and of the trainer leave the pulses alone.
LEMMA ManagerStepInv ==
  ASSUME EngineInv, [TaskStep]_vars, UNCHANGED <<pulseVars, epoch, probe>>,
         trainer' \in Dicts \cup {NoDict}
  PROVE  EngineInv'
<1>1. ManagerInv /\ ManagerInv' /\ PulsesTyped
  BY ManagerNext DEF EngineInv
<1>2. VersionsMove /\ CurrentVersion \in Nat
  BY <1>1, VersionsMoved, CurrentFound
<1>3. PulsesTyped'
  BY <1>1 DEF PulsesTyped, pulseVars
<1>4. ASSUME NEW p \in Pulses
      PROVE  PulseOK(stage[p], frame[p], recorded[p], life[p])'
  <2>1. /\ PulseOK(stage[p], frame[p], recorded[p], life[p])
        /\ frame[p].version \in Nat /\ recorded[p] \in Nat
    BY <1>1, OnePulseEach DEF EngineInv, PulsesOK, PulsesTyped, Frame
  <2>2. /\ stage'[p] = stage[p] /\ frame'[p] = frame[p]
        /\ recorded'[p] = recorded[p] /\ life'[p] = life[p]
        /\ epoch' = epoch
    BY DEF pulseVars
  <2> QED
    BY <1>2, <2>1, <2>2 DEF PulseOK, VersionsMove
<1> QED
  BY <1>1, <1>3, <1>4, OnePulseEachNext DEF EngineInv, PulsesOK

LEMMA RestartInv ==
  ASSUME EngineInv, Restart
  PROVE  EngineInv'
<1>1. ManagerInv' /\ PulsesTyped
  BY RestartInit, ManagerStarts DEF EngineInv
<1>2. /\ epoch' = epoch + 1 /\ UNCHANGED <<frame, recorded, life>>
      /\ stage' = [p \in Pulses |->
                    IF stage[p] = "sealed" THEN "sealed" ELSE "failed"]
      /\ probe' = [p \in Pulses |-> FALSE] /\ trainer' = NoDict
  BY DEF Restart
<1>3. PulsesTyped'
  BY <1>1, <1>2 DEF PulsesTyped, Stages
<1>4. ASSUME NEW p \in Pulses
      PROVE  PulseOK(stage[p], frame[p], recorded[p], life[p])'
  <2>1. PulseOK(stage[p], frame[p], recorded[p], life[p])
    BY OnePulseEach DEF EngineInv, PulsesOK
  <2> QED
    BY <1>1, <1>2, <2>1 DEF PulseOK, PulsesTyped
<1> QED
  BY <1>1, <1>3, <1>4, OnePulseEachNext DEF EngineInv, PulsesOK

LEMMA EngineStepInv == EngineInv /\ [EngineNext]_allVars => EngineInv'
<1> SUFFICES ASSUME EngineInv, [EngineNext]_allVars PROVE EngineInv'
  OBVIOUS
<1>1. ASSUME NEW t \in Tasks,
             \/ Feed(t) \/ ScheduledRetrain(t) \/ ManagerStep(t)
             \/ \E n \in ExtraSizes : Bootstrap(t, n)
      PROVE  EngineInv'
  <2>1. TaskStep
    BY <1>1, ConstantsAssumption
       DEF Feed, ScheduledRetrain, ManagerStep, Bootstrap, TaskStep
  <2>2. UNCHANGED <<pulseVars, epoch, probe, trainer>>
    BY <1>1 DEF Feed, ScheduledRetrain, ManagerStep, Bootstrap, engineVars
  <2> QED
    BY <2>1, <2>2, ManagerStepInv DEF EngineInv, PulsesTyped
<1>2. ASSUME NEW t \in Tasks, BenchmarkTrains(t) \/ TrainerJob(t)
      PROVE  EngineInv'
  BY <1>2, ManagerStepInv
     DEF BenchmarkTrains, TrainerJob, TrainerFails, TrainerTrained, EngineInv,
         PulsesTyped
<1>3. CASE UNCHANGED allVars
  BY <1>3, ManagerStepInv DEF allVars, engineVars, EngineInv, PulsesTyped
<1> QED
  BY <1>1, <1>2, <1>3, PulseStepInv, RestartInv DEF EngineNext

LEMMA EngineInvariant == EngineSpec => []EngineInv
BY EngineInitInv, EngineStepInv, PTL DEF EngineSpec

-----------------------------------------------------------------------------
(* What follows for the pulses.                                            *)

\* Inside the engine, across restarts and with the daily job, the manager
\* keeps one trainer, an exact queue, one dictionary behind compressor() and
\* current_version, and consecutive numbers (adaptive.py:237-292, and the
\* callers engine.py:310-312, 426-443, scheduler.py:131-190).
THEOREM ManagerKeepsPromises ==
  EngineSpec => [](/\ TypeOK /\ OneTrainer /\ QueueExact
                   /\ CurrentIsHead /\ VersionsConsecutive)
<1>1. EngineInv => /\ TypeOK /\ OneTrainer /\ QueueExact
                   /\ CurrentIsHead /\ VersionsConsecutive
  BY DEF EngineInv, ManagerInv
<1> QED
  BY <1>1, EngineInvariant, PTL

LEMMA KeptReadable == EngineInv => KeptPulseReadable
<1> SUFFICES ASSUME EngineInv, NEW p \in Pulses,
                    RightlyRecorded(p), life[p] = epoch,
                    recorded[p] > CurrentVersion - KeepVersions
             PROVE  Readable(p)
  BY DEF KeptPulseReadable
<1>1. /\ stage[p] = "sealed" /\ recorded[p] = frame[p].version
      /\ recorded[p] \in Nat /\ recorded[p] > 0
  BY DEF RightlyRecorded, EngineInv, PulsesTyped
<1>2. /\ OfThisProcess(p) /\ recorded[p] <= CurrentVersion
      /\ CurrentVersion \in Nat /\ KeepVersions \in Nat
  BY <1>1, CurrentFound, ConstantsAssumption
     DEF OfThisProcess, EngineInv, NotNewer
<1>3. recorded[p] \in KnownVersions
  BY <1>1, <1>2, Lookup
     DEF LookupInWindow, Register!Window, EngineInv, ManagerInv
<1>4. DictOfVersion(recorded[p]) = frame[p].dict
  BY <1>1, <1>2, <1>3 DEF EngineInv, Numbered
<1> QED
  BY <1>1, <1>3, <1>4
     DEF Readable, Unseals, Decompresses, DecompressionDict

\* A pulse that carries the number of the dictionary it was compressed with is
\* unsealed by the process that sealed it until KeepVersions newer versions
\* have been committed, whatever retrains are skipped, queued, forced or fail
\* and however seals, retrains and bootstraps interleave (engine.py:295-408,
\* 473-485, adaptive.py:272-292).
THEOREM KeptAlwaysReadable == EngineSpec => []KeptPulseReadable
BY KeptReadable, EngineInvariant, PTL

\* What _decompress takes for a pulse that carries no number.
Unnumbered ==
  \A p : recorded[p] = 0 =>
           DecompressionDict(p) = IF current # NoDict THEN current ELSE trainer

LEMMA UnnumberedFound == ManagerInv => Unnumbered
BY CurrentFound DEF DecompressionDict, ManagerTrained, Unnumbered

LEMMA UnnumberedNext == ManagerInv' => Unnumbered'
BY UnnumberedFound, PTL

\* A sealed pulse stays as it is.
LEMMA SealedStays ==
  ASSUME [EngineNext]_allVars, PulsesTyped, NEW p \in Pulses,
         stage[p] = "sealed"
  PROVE  /\ stage'[p] = "sealed" /\ frame'[p] = frame[p]
         /\ recorded'[p] = recorded[p]
<1>1. ASSUME NEW q \in Pulses,
             \/ SealStart(q) \/ Compress(q) \/ RecordVersion(q)
             \/ SealFails(q) \/ EngineCheck(q) \/ CheckEnds(q)
      PROVE  /\ stage'[p] = "sealed" /\ frame'[p] = frame[p]
             /\ recorded'[p] = recorded[p]
  BY <1>1 DEF SealStart, Compress, RecordVersion, SealFails, EngineCheck,
              CheckEnds, PulsesTyped
<1>2. ASSUME NEW t \in Tasks,
             \/ Feed(t) \/ ScheduledRetrain(t) \/ ManagerStep(t)
             \/ \E n \in ExtraSizes : Bootstrap(t, n)
             \/ BenchmarkTrains(t) \/ TrainerJob(t)
      PROVE  UNCHANGED pulseVars
  BY <1>2 DEF Feed, ScheduledRetrain, ManagerStep, Bootstrap, engineVars,
              BenchmarkTrains, TrainerJob, TrainerFails, TrainerTrained
<1>3. CASE Restart
  BY <1>3 DEF Restart
<1>4. CASE UNCHANGED pulseVars
  BY <1>4 DEF pulseVars
<1> QED
  BY <1>1, <1>2, <1>3, <1>4 DEF EngineNext, allVars, engineVars

LEMMA LossStep ==
  ASSUME EngineInv, EngineInv', [EngineNext]_allVars, NEW p \in Pulses,
         Readable(p), ~Readable(p)', epoch' = epoch
  PROVE  \/ recorded[p] > 0 /\ CurrentVersion' = recorded[p] + KeepVersions
         \/ recorded[p] = 0 /\ <<current, trainer>>' # <<current, trainer>>
<1>1. /\ PulsesTyped /\ ManagerInv /\ ManagerInv'
      /\ recorded[p] \in Nat /\ epoch \in Nat
  BY DEF EngineInv, PulsesTyped
<1>2. stage[p] = "sealed" /\ Decompresses(frame[p].dict, DecompressionDict(p))
  BY DEF Readable, Unseals
<1>3. /\ stage'[p] = "sealed" /\ frame'[p] = frame[p]
      /\ recorded'[p] = recorded[p]
  BY <1>1, <1>2, SealedStays
<1>4. ~Decompresses(frame[p].dict, DecompressionDict(p)')
  BY <1>3 DEF Readable, Unseals
<1>5. frame[p].dict # NoDict /\ frame[p].dict = DecompressionDict(p)
  BY <1>2, <1>4 DEF Decompresses
<1>6. DecompressionDict(p)' # DecompressionDict(p)
  BY <1>4, <1>5 DEF Decompresses
<1>7. CASE recorded[p] = 0
  BY <1>1, <1>3, <1>6, <1>7, UnnumberedFound, UnnumberedNext DEF Unnumbered
<1>8. CASE recorded[p] > 0
  <2>1. recorded[p] \in KnownVersions /\ DecompressionDict(p) = DictOfVersion(recorded[p])
    BY <1>5, <1>8 DEF DecompressionDict
  <2>2. VersionsMove
    <3>1. [TaskStep]_vars
      <4>1. ~Restart
        BY <1>1 DEF Restart
      <4> QED
        BY <4>1, EngineSteps DEF allVars
    <3> QED
      BY <1>1, <3>1, VersionsMoved
  <2>3. /\ LookupInWindow /\ CurrentVersion \in Nat /\ KeepVersions \in Nat
    BY <1>1, Lookup, CurrentFound, ConstantsAssumption DEF ManagerInv
  <2>4. recorded[p] \in Register!Window(CurrentVersion)
    BY <2>1, <2>3 DEF LookupInWindow
  <2>5. recorded[p] \notin KnownVersions'
    <3>1. PICK v : v = recorded[p]
      OBVIOUS
    <3>2. DecompressionDict(p)' = IF v \in KnownVersions'
                                    THEN DictOfVersion(v)' ELSE NoDict
      BY <1>3, <1>8, <3>1 DEF DecompressionDict
    <3>3. v <= CurrentVersion
      BY <2>3, <2>4, <3>1 DEF Register!Window
    <3>4. v \in KnownVersions' => DictOfVersion(v)' = DictOfVersion(v)
      BY <2>2, <3>3 DEF VersionsMove
    <3> QED
      BY <1>6, <2>1, <3>1, <3>2, <3>4
  <2> QED
    BY <1>8, <2>2, <2>3, <2>4, <2>5 DEF VersionsMove, Register!Window
<1> QED
  BY <1>1, <1>7, <1>8

\* A stored pulse stops being readable only by a restart, by the eviction of
\* exactly the version that it carries, or, if it carries none, by a new
\* dictionary of the engine (engine.py:473-485, adaptive.py:287-291): no
\* commit, failure or bootstrap touches another pulse.
THEOREM LossAlwaysHasCause == EngineSpec => LostOnlyByKnownCauses
<1>1. /\ EngineInv /\ EngineInv' /\ [EngineNext]_allVars
      => [\A p \in Pulses :
            Readable(p) /\ ~Readable(p)' =>
              \/ epoch' # epoch
              \/ recorded[p] > 0 /\ CurrentVersion' = recorded[p] + KeepVersions
              \/ recorded[p] = 0 /\ <<current, trainer>>' # <<current, trainer>>
         ]_allVars
  BY LossStep
<1> QED
  BY <1>1, EngineInvariant, PTL DEF EngineSpec, LostOnlyByKnownCauses

LEMMA RefutedStep ==
  ASSUME EngineInv, [EngineNext]_allVars, NEW p \in Pulses,
         stage[p] = "unsealing", stage'[p] = "refuted"
  PROVE  \/ CurrentVersion > frame[p].version
         \/ frame[p].version = 0 /\ trainer # frame[p].dict
<1>1. /\ PulsesTyped /\ ManagerInv /\ frame[p].version \in Nat
      /\ recorded[p] \in Nat
  BY DEF EngineInv, PulsesTyped, Frame
<1>2. ~Unseals(p)
  <2>1. CheckEnds(p)
    <3>1. ASSUME NEW q \in Pulses,
                 \/ SealStart(q) \/ Compress(q) \/ RecordVersion(q)
                 \/ SealFails(q) \/ EngineCheck(q) \/ (CheckEnds(q) /\ q # p)
          PROVE  stage'[p] # "refuted"
      BY <1>1, <3>1 DEF SealStart, Compress, RecordVersion, SealFails,
                        EngineCheck, CheckEnds, PulsesTyped
    <3>2. ASSUME NEW t \in Tasks,
                 \/ Feed(t) \/ ScheduledRetrain(t) \/ ManagerStep(t)
                 \/ \E n \in ExtraSizes : Bootstrap(t, n)
                 \/ BenchmarkTrains(t) \/ TrainerJob(t)
          PROVE  stage'[p] # "refuted"
      BY <3>2 DEF Feed, ScheduledRetrain, ManagerStep, Bootstrap, engineVars,
                  BenchmarkTrains, TrainerJob, TrainerFails, TrainerTrained,
                  pulseVars
    <3>3. ~Restart
      BY DEF Restart
    <3> QED
      <4>1. stage'[p] # stage[p]
        OBVIOUS
      <4>2. EngineNext
        BY <4>1 DEF allVars, engineVars, pulseVars
      <4>3. PICK q \in Pulses :
                  \/ SealStart(q) \/ Compress(q) \/ RecordVersion(q)
                  \/ SealFails(q) \/ EngineCheck(q) \/ CheckEnds(q)
        BY <3>2, <3>3, <4>2 DEF EngineNext
      <4> QED
        BY <3>1, <4>3
  <2> QED
    BY <1>1, <2>1 DEF CheckEnds, PulsesTyped
<1>3. /\ frame[p].version <= recorded[p] /\ recorded[p] <= CurrentVersion
      /\ CurrentVersion \in Nat
      /\ frame[p].version \in KnownVersions
           => DictOfVersion(frame[p].version) = frame[p].dict
  BY <1>1, CurrentFound
     DEF EngineInv, LifeOK, OfThisProcess, Ordered, Numbered
<1> SUFFICES ASSUME ~(CurrentVersion > frame[p].version)
             PROVE  frame[p].version = 0 /\ trainer # frame[p].dict
  OBVIOUS
<1>4. frame[p].version = CurrentVersion /\ recorded[p] = CurrentVersion
  BY <1>1, <1>3
<1>5. DecompressionDict(p) # frame[p].dict
  BY <1>2 DEF Unseals, Decompresses
<1>6. CASE CurrentVersion > 0
  <2>1. CurrentVersion \in KnownVersions
    BY <1>1, <1>3, <1>6, Lookup, ConstantsAssumption
       DEF ManagerInv, LookupInWindow, Register!Window
  <2> QED
    BY <1>3, <1>4, <1>5, <1>6, <2>1 DEF DecompressionDict
<1>7. CASE CurrentVersion = 0
  <2>1. current = NoDict
    BY <1>1, <1>7, CurrentFound
  <2> QED
    BY <1>1, <1>4, <1>5, <1>7, <2>1, UnnumberedFound DEF Unnumbered
<1> QED
  BY <1>3, <1>6, <1>7

\* The engine check of /healthz, unless cut off or hit by an error of the pool,
\* fails only if the manager committed a version or the trainer was trained
\* while it ran (health.py:102-119, engine.py:473-485): nothing that was sealed,
\* trained or evicted before makes a healthy service unready.
THEOREM ChecksFailOnlyInRetrain == EngineSpec => CheckFailsOnlyInRetrain
<1>1. /\ EngineInv /\ [EngineNext]_allVars
      => [\A p \in Pulses :
            stage[p] = "unsealing" /\ stage'[p] = "refuted" =>
              \/ CurrentVersion > frame[p].version
              \/ frame[p].version = 0 /\ trainer # frame[p].dict
         ]_allVars
  BY RefutedStep
<1> QED
  BY <1>1, EngineInvariant, PTL DEF EngineSpec, CheckFailsOnlyInRetrain
=============================================================================
