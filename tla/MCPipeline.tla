----------------------------- MODULE MCPipeline -----------------------------
(* Two or three concurrent reviews; the breaker's callers are the runs.    *)
EXTENDS Pipeline, TLC
CONSTANTS r1, r2, r3
TwoRuns == {r1, r2}
ThreeRuns == {r1, r2, r3}
RunSymmetry == Permutations(ThreeRuns)
=============================================================================
