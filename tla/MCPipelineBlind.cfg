\* The breaker as in MCPipeline.cfg.
CONSTANTS
  r1 = r1
  r2 = r2
  r3 = r3
  Runs <- TwoRuns
  Callers <- TwoRuns
  Enabled = {"scout", "architect", "diplomat"}
  MaxRetries = 1
  FailureThreshold = 2
  SuccessThreshold = 2
  MaxHalfOpenRequests = 1
  Timeout = 1
SPECIFICATION PipelineSpec
INVARIANT ReviewsAreGrounded
