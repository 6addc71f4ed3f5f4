----------------------- MODULE CircuitBreaker_proofs -----------------------
(***************************************************************************)
(* Theorems about CircuitBreaker, for any number of concurrent calls and   *)
(* any threshold and timeout.                                              *)
(***************************************************************************)
EXTENDS CircuitBreaker, TLAPS

\* Reading the property never makes a state that is not one, and neither
\* opens nor closes the circuit.
LEMMA Reading ==
  ASSUME CBTypeOK
  PROVE  /\ StateRead \in States
         /\ StateRead = "closed" <=> state = "closed"
         /\ StateRead # state => state = "open" /\ StateRead = "half_open"
                                   /\ age = RecoveryTimeout
BY BreakerAssumption DEF StateRead, CBTypeOK, States, NotOpened

CBInv == CBTypeOK /\ FieldsAgree

LEMMA BreakerInit == CBInit => CBInv
BY BreakerAssumption
   DEF CBInit, CBInv, CBTypeOK, FieldsAgree, States, NotOpened

\* One step per action.  FieldsAgree is inductive only with both conjuncts: a
\* failure of a circuit that is not closed must find the count at the
\* threshold already, so that it opens the circuit again.
LEMMA BreakerNext ==
  ASSUME CBInv, [CBNext]_cbVars
  PROVE  CBInv'
<1> USE DEF CBInv, CBTypeOK, FieldsAgree
<1>1. ASSUME NEW c \in Calls, Admit(c) PROVE CBInv'
  BY <1>1, Reading DEF Admit
<1>2. ASSUME NEW c \in Calls, Reject(c) PROVE CBInv'
  BY <1>2 DEF Reject, cbVars
<1>3. ASSUME NEW c \in Calls, Succeed(c) PROVE CBInv'
  BY <1>3, BreakerAssumption
     DEF Succeed, Return, OnSuccess, States, NotOpened
<1>4. ASSUME NEW c \in Calls, Fail(c) PROVE CBInv'
  <2>1. /\ place' \in [Calls -> {"idle", "running", "probing"}]
        /\ ended' \in {"none", "success", "failure", "cancelled"}
    BY <1>4 DEF Fail, Return
  <2>2. failures' = failures + 1
    BY <1>4 DEF Fail, OnFailure
  <2>3. CASE failures + 1 >= FailureThreshold \/ state = "half_open"
    <3>1. state' = "open" /\ age' = 0
      BY <1>4, <2>3 DEF Fail, OnFailure
    <3>2. failures + 1 >= FailureThreshold
      BY <2>3, BreakerAssumption
    <3> QED
      BY <2>1, <2>2, <3>1, <3>2, BreakerAssumption DEF States, NotOpened
  <2>4. CASE ~(failures + 1 >= FailureThreshold \/ state = "half_open")
    <3>1. state' = state /\ age' = age
      BY <1>4, <2>4 DEF Fail, OnFailure
    <3> QED
      BY <2>1, <2>2, <2>4, <3>1, BreakerAssumption
  <2> QED
    BY <2>3, <2>4
<1>5. ASSUME NEW c \in Calls, Cancel(c) PROVE CBInv'
  BY <1>5 DEF Cancel, Return
<1>6. CASE Observe
  BY <1>6, Reading DEF Observe
<1>7. CASE Tick
  BY <1>7, BreakerAssumption DEF Tick, NotOpened
<1>8. CASE UNCHANGED cbVars
  BY <1>8 DEF cbVars
<1> QED
  BY <1>1, <1>2, <1>3, <1>4, <1>5, <1>6, <1>7, <1>8 DEF CBNext

\* Safety needs no fairness; DbAccess_proofs instantiates this lemma and the
\* next for the circuit of the server.
LEMMA BreakerInvariant == CBInit /\ [][CBNext]_cbVars => []CBInv
<1>1. CBInv /\ [CBNext]_cbVars => CBInv'
  BY BreakerNext
<1> QED
  BY BreakerInit, <1>1, PTL

LEMMA BreakerLeavesOpen == CBInit /\ [][CBNext]_cbVars => OpenIsLeftInTime
<1>1. ASSUME CBInv, [CBNext]_cbVars, state = "open", state' # "open"
      PROVE  \/ state' = "half_open" /\ age = RecoveryTimeout
             \/ /\ state' = "closed" /\ ended' = "success"
                /\ \E c \in Calls : place[c] # "idle" /\ place'[c] = "idle"
  <2>1. CASE state' = StateRead
    BY <1>1, <2>1, Reading DEF CBInv
  <2>2. ASSUME NEW c \in Calls, Succeed(c)
        PROVE  /\ state' = "closed" /\ ended' = "success"
               /\ place[c] # "idle" /\ place'[c] = "idle"
    BY <1>1, <2>2 DEF Succeed, Return, OnSuccess, CBInv, CBTypeOK
  <2>3. ASSUME NEW c \in Calls, Fail(c)
        PROVE  FALSE
    BY <1>1, <2>3 DEF Fail, OnFailure
  <2> QED
    BY <1>1, <2>1, <2>2, <2>3
       DEF CBNext, Admit, Reject, Observe, Cancel, Tick, cbVars
<1> QED
  BY <1>1, BreakerInvariant, PTL DEF OpenIsLeftInTime

\* The breaker's state, count and opening time agree (retry.py:133-160) for
\* every order in which any number of concurrent calls succeed, fail and are
\* cancelled.
THEOREM FieldsAlwaysAgree == CBSpec => []FieldsAgree
<1>1. CBInv => FieldsAgree
  BY DEF CBInv
<1> QED
  BY <1>1, BreakerInvariant, PTL DEF CBSpec

\* An open circuit becomes half-open only a full timeout after the last failure,
\* and closes only when a call that was still running succeeds; no failure and
\* no cancellation leaves it (retry.py:133-148).
THEOREM OpenLeftInTime == CBSpec => OpenIsLeftInTime
BY BreakerLeavesOpen, PTL DEF CBSpec
=============================================================================
