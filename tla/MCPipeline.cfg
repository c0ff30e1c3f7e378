\* All agents enabled, as in DefaultPipelineConfig; thresholds scaled down with
\* SuccessThreshold still MaxHalfOpenRequests + 1.
CONSTANTS
  r1 = r1
  r2 = r2
  r3 = r3
  Runs <- TwoRuns
  Callers <- TwoRuns
  Enabled = {"scout", "architect", "diplomat"}
  MaxRetries = 1
  FailureThreshold = 2
  SuccessThreshold = 2
  MaxHalfOpenRequests = 1
  Timeout = 1
SPECIFICATION FairPipelineSpec
INVARIANTS
  PipelineTypeOK
  ClosedBelowThreshold
  NotWedged
  AdmissionsMatchCalls
  ResultMatchesOutcomes
PROPERTIES
  FairBreakerSpec
  Recovers
  ReviewsEnd
  ReviewsAreFinite
