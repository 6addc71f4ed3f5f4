\* Two loads, a save and an upload of a file share two slots and one circuit.
\* No symmetry, for the liveness property.
SPECIFICATION DBSpec
CONSTANTS
  Requests <- MCRequests
  Loads = {l1, l2}
  Saves = {s1}
  Others = {o1}
  MaxConcurrent = 2
  MaxAttempts = 3
  FailureThreshold = 2
  RecoveryTimeout = 1
  MaxFailures = 3
INVARIANTS
  SlotsConserved
  NoLostWakeup
  CallsHoldSlots
  TryingIsSomewhere
PROPERTIES
  AskedAndToldPerAttempt
  EveryoneAnswered
