\* Three overlapping calls, a threshold of two failures.  No symmetry, for the
\* liveness property.
SPECIFICATION CBSpec
CONSTANTS
  Calls = {c1, c2, c3}
  FailureThreshold = 2
  RecoveryTimeout = 2
  MaxFailures = 4
INVARIANTS
  FieldsAgree
PROPERTIES
  OpenIsLeftInTime
  ClosesWithHealthyBackend
