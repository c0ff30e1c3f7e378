\* Only the architect enabled: the other phases ask the breaker and are skipped.
\* Invariants only, so the runs may be exchanged.
CONSTANTS
  r1 = r1
  r2 = r2
  r3 = r3
  Runs <- ThreeRuns
  Callers <- ThreeRuns
  Enabled = {"architect"}
  MaxRetries = 1
  FailureThreshold = 2
  SuccessThreshold = 2
  MaxHalfOpenRequests = 1
  Timeout = 1
SPECIFICATION PipelineSpec
SYMMETRY RunSymmetry
INVARIANTS
  TrialLoadBounded
  ResultMatchesOutcomes
