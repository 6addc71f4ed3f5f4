--------------------------- MODULE CircuitBreaker ---------------------------
(***************************************************************************)
(* core/retry.py: the CircuitBreaker, shared by every request of the       *)
(* server (mongo_circuit).  A call runs from its admission to the return   *)
(* of the function it wraps, and other calls are admitted, end and fail in *)
(* between.                                                                *)
(*                                                                         *)
(* Time is what the breaker measures: the ticks since _opened_at, counted  *)
(* up to RecoveryTimeout.                                                  *)
(***************************************************************************)
EXTENDS Integers

CONSTANTS
  Calls,             \* concurrent callers
  FailureThreshold,  \* failure_threshold
  RecoveryTimeout,   \* recovery_timeout, in ticks
  MaxFailures        \* bound of a run: no call fails at this count

ASSUME BreakerAssumption ==
  /\ FailureThreshold \in Nat \ {0}
  /\ RecoveryTimeout \in Nat
  /\ MaxFailures \in Nat

NotOpened == -1      \* _opened_at is None

VARIABLES
  state,      \* _state
  failures,   \* _failures
  age,        \* ticks since _opened_at
  place,      \* per caller: "idle", or its call: "running" when it was
              \* admitted by a closed circuit, "probing" by a half-open one
  ended       \* history: how the last call to end has ended; "none" so far

cbVars == <<state, failures, age, place, ended>>

CBInit ==
  /\ state = "closed" /\ failures = 0 /\ age = NotOpened
  /\ place = [c \in Calls |-> "idle"] /\ ended = "none"

\* The state property: reading it makes an open circuit half-open in time.
StateRead ==
  IF state = "open" /\ age >= RecoveryTimeout THEN "half_open" ELSE state

-----------------------------------------------------------------------------
\* Variant: a half-open circuit refuses calls too.
AdmitClosedOnly(c) ==
  /\ place[c] = "idle" /\ StateRead = "closed"
  /\ state' = "closed"
  /\ place' = [place EXCEPT ![c] = "running"]
  /\ UNCHANGED <<failures, age, ended>>

\* call, up to the await: refused by an open circuit, admitted otherwise.
Admit(c) ==
  /\ place[c] = "idle" /\ StateRead # "open"
  /\ state' = StateRead
  /\ place' = [place EXCEPT ![c] =
                 IF StateRead = "closed" THEN "running" ELSE "probing"]
  /\ UNCHANGED <<failures, age, ended>>

Reject(c) ==
  /\ place[c] = "idle" /\ StateRead = "open"
  /\ UNCHANGED cbVars

\* status() reads the property too.
Observe ==
  /\ state' = StateRead
  /\ UNCHANGED <<failures, age, place, ended>>

OnSuccess ==
  /\ failures' = 0 /\ state' = "closed" /\ age' = NotOpened

\* Variant: one failure more than the threshold is needed.
OnFailureLate ==
  /\ failures' = failures + 1
  /\ IF failures + 1 > FailureThreshold \/ state = "half_open"
       THEN state' = "open" /\ age' = 0
       ELSE UNCHANGED <<state, age>>

OnFailure ==
  /\ failures' = failures + 1
  /\ IF failures + 1 >= FailureThreshold \/ state = "half_open"
       THEN state' = "open" /\ age' = 0
       ELSE UNCHANGED <<state, age>>

Return(c, how) ==
  /\ place[c] # "idle"
  /\ place' = [place EXCEPT ![c] = "idle"]
  /\ ended' = how

Succeed(c) == Return(c, "success") /\ OnSuccess

Fail(c) == Return(c, "failure") /\ failures < MaxFailures /\ OnFailure

\* Variant: whatever is not an Exception counts as a success.
CancelSettles(c) == Return(c, "cancelled") /\ OnSuccess

\* CancelledError is no Exception: the circuit learns nothing of the call.
Cancel(c) == Return(c, "cancelled") /\ UNCHANGED <<state, failures, age>>

Tick ==
  /\ age # NotOpened /\ age < RecoveryTimeout
  /\ age' = age + 1
  /\ UNCHANGED <<state, failures, place, ended>>

CBNext ==
  \/ \E c \in Calls : \/ Admit(c) \/ Reject(c)
                      \/ Succeed(c) \/ Fail(c) \/ Cancel(c)
  \/ Observe \/ Tick

\* Time passes, and a call of the database ends: its driver has timeouts.
CBFairness ==
  /\ WF_cbVars(Tick)
  /\ \A c \in Calls : WF_cbVars(Succeed(c) \/ Fail(c) \/ Cancel(c))

CBSpec == CBInit /\ [][CBNext]_cbVars /\ CBFairness

-----------------------------------------------------------------------------
(* Properties.                                                             *)

States == {"closed", "open", "half_open"}

\* Every variable stays in its type.
CBTypeOK ==
  /\ state \in States /\ failures \in Nat
  /\ age \in {NotOpened} \cup 0..RecoveryTimeout
  /\ place \in [Calls -> {"idle", "running", "probing"}]
  /\ ended \in {"none", "success", "failure", "cancelled"}

\* The three fields agree whatever order calls end in: the circuit is closed
\* exactly while fewer than the threshold of calls have failed since the last
\* success, and it has an opening time exactly while it is not closed, so no
\* open circuit is without a timer and none stays shut out for ever.
FieldsAgree ==
  /\ state = "closed" <=> failures < FailureThreshold
  /\ state = "closed" <=> age = NotOpened

\* An open circuit is left in two ways only.  It becomes half-open, and that a
\* full timeout after the last failure; or it closes, and that when a call that
\* was still running succeeds.  A call that fails late or is cancelled, however
\* the others are doing, leaves it open.
OpenIsLeftInTime ==
  [][state = "open" /\ state' # "open" =>
       \/ state' = "half_open" /\ age = RecoveryTimeout
       \/ /\ state' = "closed" /\ ended' = "success"
          /\ \E c \in Calls : place[c] # "idle" /\ place'[c] = "idle"]_cbVars

\* Once the backend answers and callers keep coming, the circuit closes for
\* good: neither cancelled probes nor late failures leave it open or half-open.
ClosesWithHealthyBackend ==
  (/\ <>[][\A c \in Calls : ~Fail(c) /\ ~Cancel(c)]_cbVars
   /\ \A c \in Calls : WF_cbVars(Admit(c)))
  => <>[](state = "closed")
=============================================================================
