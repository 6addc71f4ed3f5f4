------------------------------ MODULE DbAccess ------------------------------
(***************************************************************************)
(* How main.py reaches the database: with_retry around db_bulkhead around  *)
(* mongo_circuit around one operation of PulseDB.                          *)
(*                                                                         *)
(*   Loads   _load_blob, behind all three (unseal, stream, master, mount)  *)
(*   Saves   POST /pulse/seal, bulkhead and circuit, no retry              *)
(*   Others  seal/file, rotate and scan, the bulkhead only                 *)
(*                                                                         *)
(* A step is what one request does between two suspension points: the wait *)
(* for a slot, the database operation, the pause before a retry.  Entering *)
(* the bulkhead and asking the circuit are one step, and so are the        *)
(* circuit's bookkeeping and the exit.                                     *)
(***************************************************************************)
EXTENDS Bulkhead

CONSTANTS
  Loads, Saves, Others,    \* what each request is
  MaxAttempts,             \* DB_MAX_ATTEMPTS
  FailureThreshold, RecoveryTimeout, MaxFailures   \* as in CircuitBreaker

ASSUME DbAccessAssumption ==
  /\ Requests = Loads \cup Saves \cup Others
  /\ Loads \cap Saves = {} /\ Others \cap (Loads \cup Saves) = {}
  /\ MaxAttempts \in Nat \ {0} /\ FailureThreshold \in Nat \ {0}
  /\ RecoveryTimeout \in Nat /\ MaxFailures \in Nat

VARIABLES
  state, failures, age, place, ended,   \* the circuit
  phase,      \* per request: "new", "trying", "sleeping" (the pause before a
              \* retry), "answered"
  attempt     \* per request: attempts begun

Breaker == INSTANCE CircuitBreaker WITH Calls <- Requests

circuitVars == <<state, failures, age, place, ended>>
dbVars == <<bhVars, circuitVars, phase, attempt>>

Guarded == Loads \cup Saves

DBInit ==
  /\ BHInit /\ Breaker!CBInit
  /\ phase = [r \in Requests |-> "new"]
  /\ attempt = [r \in Requests |-> 0]

To(r, where) == phase' = [phase EXCEPT ![r] = where]

\* Variant: a refused request keeps its slot.
BeginKeepsSlot(r, s) ==
  \/ /\ r \in Guarded /\ Breaker!Admit(r)
     /\ sem' = s /\ GoIn(r) /\ To(r, "trying")
  \/ /\ r \in Guarded /\ Breaker!Reject(r)
     /\ sem' = s /\ UNCHANGED <<inside, active>> /\ To(r, "answered")
  \/ /\ r \in Others
     /\ sem' = s /\ GoIn(r) /\ To(r, "trying") /\ UNCHANGED circuitVars

\* In the bulkhead with semaphore s: the circuit admits the request, or it
\* refuses it with an error that is not retried and the slot is free again.
Begin(r, s) ==
  \/ /\ r \in Guarded /\ Breaker!Admit(r)
     /\ sem' = s /\ GoIn(r) /\ To(r, "trying")
  \/ /\ r \in Guarded /\ Breaker!Reject(r)
     /\ sem' = Release(s) /\ UNCHANGED <<inside, active>> /\ To(r, "answered")
  \/ /\ r \in Others
     /\ sem' = s /\ GoIn(r) /\ To(r, "trying") /\ UNCHANGED circuitVars

\* Variant: the circuit is asked before the wait for a slot.
AttemptCircuitFirst(r) ==
  /\ phase[r] \in {"new", "sleeping"}
  /\ attempt' = [attempt EXCEPT ![r] = @ + 1]
  /\ IF Locked(sem)
       THEN /\ sem' = Wait(sem, r) /\ To(r, "trying")
            /\ IF r \in Guarded THEN Breaker!Admit(r) ELSE UNCHANGED circuitVars
            /\ UNCHANGED <<inside, active>>
       ELSE Begin(r, Take(sem))

\* A new request, or the next attempt of one that was paused.
Attempt(r) ==
  /\ phase[r] \in {"new", "sleeping"}
  /\ attempt' = [attempt EXCEPT ![r] = @ + 1]
  /\ IF Locked(sem)
       THEN /\ sem' = Wait(sem, r) /\ To(r, "trying")
            /\ UNCHANGED <<inside, active, circuitVars>>
       ELSE Begin(r, Take(sem))

Woken(r) ==
  /\ r \in sem.woken
  /\ Begin(r, Resumed(sem, r))
  /\ UNCHANGED attempt

Succeeds(r) ==
  /\ Leave(r) /\ To(r, "answered")
  /\ IF r \in Guarded THEN Breaker!Succeed(r) ELSE UNCHANGED circuitVars
  /\ UNCHANGED attempt

\* Variant: the pause before a retry is spent inside the bulkhead.
BreaksInside(r) ==
  /\ r \in inside
  /\ IF r \in Guarded THEN Breaker!Fail(r) ELSE UNCHANGED circuitVars
  /\ IF r \in Loads /\ attempt[r] < MaxAttempts
       THEN To(r, "sleeping") /\ UNCHANGED bhVars
       ELSE To(r, "answered") /\ Leave(r)
  /\ UNCHANGED attempt

\* Variant: the circuit learns only of the last attempt.
BreaksUntold(r) ==
  LET retried == r \in Loads /\ attempt[r] < MaxAttempts
  IN  /\ Leave(r)
      /\ CASE r \notin Guarded -> UNCHANGED circuitVars
           [] retried          -> Breaker!Cancel(r)
           [] OTHER            -> Breaker!Fail(r)
      /\ To(r, IF retried THEN "sleeping" ELSE "answered")
      /\ UNCHANGED attempt

\* A connection error or a timeout: a load is retried, up to MaxAttempts.
Breaks(r) ==
  /\ Leave(r)
  /\ IF r \in Guarded THEN Breaker!Fail(r) ELSE UNCHANGED circuitVars
  /\ To(r, IF r \in Loads /\ attempt[r] < MaxAttempts THEN "sleeping"
                                                     ELSE "answered")
  /\ UNCHANGED attempt

\* Any other exception, the KeyError of an unknown id among them, counts as a
\* failure of the circuit and is not retried.
Refused(r) ==
  /\ Leave(r) /\ To(r, "answered")
  /\ IF r \in Guarded THEN Breaker!Fail(r) ELSE UNCHANGED circuitVars
  /\ UNCHANGED attempt

\* The request is cancelled where it is suspended.
CancelRequest(r) ==
  /\ To(r, "answered") /\ UNCHANGED attempt
  /\ \/ r \in Guarded /\ Leave(r) /\ Breaker!Cancel(r)
     \/ r \in Others /\ Leave(r) /\ UNCHANGED circuitVars
     \/ CancelWait(r) /\ UNCHANGED circuitVars
     \/ phase[r] = "sleeping" /\ UNCHANGED <<bhVars, circuitVars>>

\* The client sends its next request.
Again(r) ==
  /\ phase[r] = "answered"
  /\ To(r, "new") /\ attempt' = [attempt EXCEPT ![r] = 0]
  /\ UNCHANGED <<bhVars, circuitVars>>

TimePasses ==
  \/ Breaker!Tick /\ UNCHANGED <<bhVars, phase, attempt>>
  \/ Breaker!Observe /\ UNCHANGED <<bhVars, phase, attempt>>

Proceeds(r) ==
  \/ phase[r] = "sleeping" /\ Attempt(r)
  \/ Woken(r) \/ Succeeds(r) \/ Breaks(r) \/ Refused(r)

DBNext ==
  \/ \E r \in Requests : Attempt(r) \/ Proceeds(r) \/ CancelRequest(r) \/ Again(r)
  \/ TimePasses

\* The event loop resumes what can go on, pauses end, and the database driver
\* answers or times out.  Nobody has to send a request.
DBFairness == \A r \in Requests : WF_dbVars(Proceeds(r))

DBSpec == DBInit /\ [][DBNext]_dbVars /\ DBFairness

-----------------------------------------------------------------------------
(* Properties.                                                             *)

\* The calls the circuit counts as running are exactly the loads and saves
\* that hold a slot: an open circuit, a missing pulse, an error, a retry or a
\* cancellation leaves no slot taken and no call uncounted.
CallsHoldSlots == {r \in Requests : place[r] # "idle"} = inside \cap Guarded

\* Who is asked for an answer is in exactly one place: a request that tries is
\* inside, has been woken or waits, at one position of the queue; one that
\* pauses, has been answered or was not sent is in none of them.
TryingIsSomewhere ==
  /\ {r \in Requests : phase[r] = "trying"} = inside \cup sem.woken \cup Waiting
  /\ inside \cap sem.woken = {} /\ Waiting \cap (inside \cup sem.woken) = {}
  /\ Cardinality(Waiting) = Len(sem.queue)

\* The circuit is asked and told once per attempt, in the right order with the
\* wait and the pause.  What it says counts when the slot has come, however
\* many calls failed during the wait; and a load pauses only after the failure
\* was counted, so that a retry meets a circuit that knows of it.
AskedAndToldPerAttempt ==
  [][\A r \in Guarded :
       /\ r \in inside' \ inside => Breaker!StateRead # "open"
       /\ r \in inside /\ phase'[r] = "sleeping" =>
            failures' = failures + 1 /\ r \notin inside']_dbVars

\* Every request is answered: through the queue, the circuit and the retries.
EveryoneAnswered ==
  \A r \in Requests :
    phase[r] \in {"trying", "sleeping"} ~> phase[r] = "answered"
=============================================================================
