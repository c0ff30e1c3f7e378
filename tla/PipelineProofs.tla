--------------------------- MODULE PipelineProofs ---------------------------
(* Theorems about Pipeline for any number of concurrent reviews, any set   *)
(* of enabled agents and any thresholds.                                   *)
EXTENDS Pipeline, CircuitBreakerProofs

(* Where a review stands determines which phases have an outcome.          *)
PhasesInOrder(r) ==
  LET o == outcome[r] IN
  /\ pc[r] # "gate" => stage[r] \in Agents
  /\ pc[r] = "wait" => attempt[r] < Retries
  /\ stage[r] # "idle" => result[r] = "running"
  /\ stage[r] = "scout" => o = [a \in Agents |-> "none"]
  /\ stage[r] = "architect" =>
       o["scout"] # "none" /\ o["architect"] = "none" /\ o["diplomat"] = "none"
  /\ stage[r] = "diplomat" =>
       o["scout"] # "none" /\ o["architect"] \notin {"none", "error"} /\ o["diplomat"] = "none"
  /\ stage[r] = "idle" => result[r] # "running"

RunsInOrder ==
  /\ RunTypeOK
  /\ \A r \in Runs : PhasesInOrder(r)
  /\ ResultMatchesOutcomes

PipelineInv == RunsInOrder /\ SafeInv /\ AdmissionsMatchCalls
-----------------------------------------------------------------------------
(* Refinement.  With every agent enabled, a pipeline's steps are steps of  *)
(* callers that keep the breaker's protocol.                               *)
LEMMA PipelineStepIsBreakerStep ==
  ASSUME Enabled = Agents, RunTypeOK, [PipelineNext]_vars
  PROVE  [BreakerNext]_breakerVars
<1> USE PipelineAssumption
<1>1. ASSUME NEW r \in Runs, Start(r) \/ Gate(r) \/ EndAttempt(r) \/ EndWait(r) \/ Expire(r)
      PROVE  [BreakerNext]_breakerVars
  <2>1. CASE Start(r)
    BY <2>1 DEF Start, breakerVars
  <2>2. CASE EnterAgent(r)
    BY <2>2 DEF EnterAgent, BreakerNext
  <2>3. CASE SkipDisabled(r)
    BY <2>3 DEF SkipDisabled, AtGate, RunTypeOK
  <2>4. CASE SkipRefused(r)
    BY <2>4 DEF SkipRefused
  <2>5. CASE AgentSucceeds(r)
    BY <2>5 DEF AgentSucceeds, BreakerNext
  <2>6. ASSUME NEW e \in Errors, AgentFails(r, e)
        PROVE  [BreakerNext]_breakerVars
    BY <2>6 DEF AgentFails, ReportFailure, BreakerNext
  <2>7. ASSUME NEW e \in Errors, BackOff(r, e)
        PROVE  [BreakerNext]_breakerVars
    BY <2>7 DEF BackOff, breakerVars
  <2>8. CASE TryAgain(r)
    BY <2>8 DEF TryAgain, breakerVars
  <2>9. CASE WaitCutShort(r)
    BY <2>9 DEF WaitCutShort, ReportFailure, BreakerNext
  <2>10. CASE Expire(r)
    BY <2>10 DEF Expire, breakerVars
  <2>11. QED
    BY <1>1, <2>1, <2>2, <2>3, <2>4, <2>5, <2>6, <2>7, <2>8, <2>9, <2>10
       DEF Gate, EndAttempt, EndWait
<1>2. CASE PassTime
  BY <1>2 DEF PassTime, BreakerNext
<1>3. CASE UNCHANGED vars
  BY <1>3 DEF vars
<1>4. QED
  BY <1>1, <1>2, <1>3 DEF PipelineNext
-----------------------------------------------------------------------------
(* The end of a phase, for a review that goes on and for one that stops.   *)
LEMMA EndPhaseEffect ==
  ASSUME RunsInOrder, NEW r \in Runs, stage[r] \in Agents,
         NEW how \in Outcomes, EndPhase(r, how)
  PROVE  /\ outcome' \in [Runs -> [Agents -> Outcomes]]
         /\ pc' \in [Runs -> {"gate", "attempt", "wait"}]
         /\ attempt' \in [Runs -> 0 .. Retries]
         /\ expired' \in [Runs -> BOOLEAN]
         /\ outcome'[r][stage[r]] = how
         /\ \A a \in Agents \ {stage[r]} : outcome'[r][a] = outcome[r][a]
         /\ pc'[r] = "gate"
         /\ \A q \in Runs \ {r} :
              outcome'[q] = outcome[q] /\ pc'[q] = pc[q] /\ attempt'[q] = attempt[q]
<1>1. Retries \in Nat
  BY PipelineAssumption DEF Retries
<1>2. QED
  BY <1>1 DEF RunsInOrder, RunTypeOK, EndPhase

LEMMA ProceedKeeps ==
  ASSUME RunsInOrder, NEW r \in Runs, stage[r] \in Agents,
         NEW how \in Outcomes \ {"none"}, how = "error" => stage[r] = "scout",
         Proceed(r, how)
  PROVE  RunsInOrder'
<1>1. /\ EndPhase(r, how)
      /\ stage' = [stage EXCEPT ![r] = Following(stage[r])]
      /\ result' = [result EXCEPT ![r] = IF stage[r] = "diplomat" THEN Completed(r) ELSE @]
  BY DEF Proceed
<1>2. RunTypeOK'
  BY <1>1, EndPhaseEffect
     DEF RunsInOrder, RunTypeOK, Following, Completed, Results, Agents
<1>3. ASSUME NEW q \in Runs \ {r}
      PROVE  /\ outcome'[q] = outcome[q] /\ pc'[q] = pc[q] /\ attempt'[q] = attempt[q]
             /\ stage'[q] = stage[q] /\ result'[q] = result[q]
  BY <1>1, EndPhaseEffect DEF RunsInOrder, RunTypeOK
<1>4. PhasesInOrder(r) /\ PhasesInOrder(r)'
  <2>1. CASE stage[r] = "scout"
    BY <1>1, <2>1, EndPhaseEffect
       DEF RunsInOrder, RunTypeOK, PhasesInOrder, Following, Agents
  <2>2. CASE stage[r] = "architect"
    BY <1>1, <2>2, EndPhaseEffect
       DEF RunsInOrder, RunTypeOK, PhasesInOrder, Following, Agents
  <2>3. CASE stage[r] = "diplomat"
    BY <1>1, <2>3, EndPhaseEffect
       DEF RunsInOrder, RunTypeOK, PhasesInOrder, Following, Completed, Agents
  <2>4. QED
    BY <2>1, <2>2, <2>3 DEF Agents
<1>5. \A q \in Runs : PhasesInOrder(q)'
  BY <1>3, <1>4 DEF RunsInOrder, PhasesInOrder
<1>6. ResultMatchesOutcomes'
  <2>1. CASE stage[r] = "diplomat"
    BY <1>1, <1>3, <1>4, <2>1, EndPhaseEffect
       DEF RunsInOrder, RunTypeOK, PhasesInOrder, ResultMatchesOutcomes,
           Completed, Agents
  <2>2. CASE stage[r] # "diplomat"
    BY <1>1, <1>3, <1>4, <2>2, EndPhaseEffect
       DEF RunsInOrder, RunTypeOK, PhasesInOrder, ResultMatchesOutcomes, Agents
  <2>3. QED
    BY <2>1, <2>2
<1>7. QED
  BY <1>2, <1>5, <1>6 DEF RunsInOrder

LEMMA AbortKeeps ==
  ASSUME RunsInOrder, NEW r \in Runs, stage[r] \in {"architect", "diplomat"},
         NEW verdict,
         verdict \in IF stage[r] = "architect" THEN {"transient", "permanent"}
                                                ELSE {"unformatted"},
         Abort(r, verdict)
  PROVE  RunsInOrder'
<1>1. /\ EndPhase(r, "error")
      /\ stage' = [stage EXCEPT ![r] = "idle"]
      /\ result' = [result EXCEPT ![r] = verdict]
      /\ "error" \in Outcomes
      /\ stage[r] \in Agents
  BY DEF Abort, Outcomes, Agents
<1>2. RunTypeOK'
  BY <1>1, EndPhaseEffect DEF RunsInOrder, RunTypeOK, Results
<1>3. ASSUME NEW q \in Runs \ {r}
      PROVE  /\ outcome'[q] = outcome[q] /\ pc'[q] = pc[q] /\ attempt'[q] = attempt[q]
             /\ stage'[q] = stage[q] /\ result'[q] = result[q]
  BY <1>1, EndPhaseEffect DEF RunsInOrder, RunTypeOK
<1>4. /\ PhasesInOrder(r)
      /\ stage'[r] = "idle" /\ result'[r] = verdict /\ pc'[r] = "gate"
  BY <1>1, EndPhaseEffect DEF RunsInOrder, RunTypeOK
<1>5. \A q \in Runs : PhasesInOrder(q)'
  BY <1>3, <1>4 DEF RunsInOrder, PhasesInOrder
<1>6. ResultMatchesOutcomes'
  <2>1. CASE stage[r] = "architect"
    BY <1>1, <1>3, <1>4, <2>1, EndPhaseEffect
       DEF RunsInOrder, PhasesInOrder, ResultMatchesOutcomes, Agents
  <2>2. CASE stage[r] = "diplomat"
    BY <1>1, <1>3, <1>4, <2>2, EndPhaseEffect
       DEF RunsInOrder, PhasesInOrder, ResultMatchesOutcomes, Agents
  <2>3. QED
    BY <2>1, <2>2
<1>7. QED
  BY <1>2, <1>5, <1>6 DEF RunsInOrder

LEMMA AgentFailedKeeps ==
  ASSUME RunsInOrder, NEW r \in Runs, stage[r] \in Agents, NEW e \in Errors,
         AgentFailed(r, e)
  PROVE  RunsInOrder' /\ EndPhase(r, "error")
<1>1. CASE stage[r] = "scout"
  <2>1. Proceed(r, "error")
    BY <1>1 DEF AgentFailed
  <2>2. QED
    BY <1>1, <2>1, ProceedKeeps DEF Outcomes, Proceed
<1>2. CASE stage[r] = "architect"
  <2>1. Abort(r, IF e \in Transient THEN "transient" ELSE "permanent")
    BY <1>2 DEF AgentFailed
  <2>2. QED
    BY <1>2, <2>1, AbortKeeps DEF Abort
<1>3. CASE stage[r] = "diplomat"
  <2>1. Abort(r, "unformatted")
    BY <1>3 DEF AgentFailed
  <2>2. QED
    BY <1>3, <2>1, AbortKeeps DEF Abort
<1>4. QED
  BY <1>1, <1>2, <1>3 DEF Agents
-----------------------------------------------------------------------------
(* One lemma for each action, or group of actions that do the same to the  *)
(* breaker.  A run past the gate is in flight exactly until it reports.    *)
LEMMA InvInit == PipelineInit => PipelineInv
<1> SUFFICES ASSUME PipelineInit
             PROVE  PipelineInv
  OBVIOUS
<1>1. SafeInv
  BY BreakerInvInit DEF PipelineInit, BreakerInv
<1>2. Retries \in Nat
  BY PipelineAssumption DEF Retries
<1>3. RunTypeOK
  BY <1>2 DEF PipelineInit, RunTypeOK, Outcomes, Results
<1>4. \A r \in Runs : PhasesInOrder(r)
  BY DEF PipelineInit, PhasesInOrder, Agents
<1>5. ResultMatchesOutcomes
  BY DEF PipelineInit, ResultMatchesOutcomes, Agents
<1>6. AdmissionsMatchCalls
  BY DEF PipelineInit, BreakerInit, AdmissionsMatchCalls
<1>7. QED
  BY <1>1, <1>3, <1>4, <1>5, <1>6 DEF PipelineInv, RunsInOrder

LEMMA SafeUnchanged ==
  ASSUME SafeInv, UNCHANGED breakerVars
  PROVE  SafeInv'
BY DEF breakerVars, SafeInv, TypeOK, ClosedBelowThreshold

LEMMA StartKeeps ==
  ASSUME PipelineInv, NEW r \in Runs, Start(r)
  PROVE  PipelineInv'
<1> USE DEF PipelineInv, RunsInOrder
<1>1. SafeInv'
  BY SafeUnchanged DEF Start
<1>2. RunTypeOK'
  BY DEF Start, RunTypeOK, Agents, Outcomes, Results
<1>3. \A q \in Runs : PhasesInOrder(q)'
  <2>1. ASSUME NEW q \in Runs \ {r}
        PROVE  PhasesInOrder(q)'
    BY DEF Start, RunTypeOK, PhasesInOrder
  <2>2. pc[r] = "gate"
    BY DEF Start, PhasesInOrder, Agents
  <2>3. PhasesInOrder(r)'
    BY <2>2 DEF Start, RunTypeOK, PhasesInOrder
  <2>4. QED
    BY <2>1, <2>3
<1>4. ResultMatchesOutcomes'
  <2>1. ASSUME NEW q \in Runs \ {r}
        PROVE  outcome'[q] = outcome[q] /\ result'[q] = result[q]
    BY DEF Start, RunTypeOK
  <2>2. /\ outcome'[r] = [a \in Agents |-> "none"]
        /\ result'[r] = "running"
    BY DEF Start, RunTypeOK
  <2>3. QED
    BY <2>1, <2>2 DEF ResultMatchesOutcomes, Agents
<1>5. AdmissionsMatchCalls'
  BY DEF Start, AdmissionsMatchCalls, breakerVars
<1>6. QED
  BY <1>1, <1>2, <1>3, <1>4, <1>5

(* Steps inside one agent's phase leave stages, outcomes and results alone.*)
LEMMA WithinPhaseKeeps ==
  ASSUME RunsInOrder, NEW r \in Runs, stage[r] \in Agents, RunTypeOK',
         UNCHANGED <<stage, outcome, result>>,
         \A q \in Runs \ {r} : pc'[q] = pc[q] /\ attempt'[q] = attempt[q],
         pc'[r] = "wait" => attempt'[r] < Retries
  PROVE  RunsInOrder'
<1>1. \A q \in Runs : PhasesInOrder(q)'
  BY DEF RunsInOrder, PhasesInOrder
<1>2. ResultMatchesOutcomes'
  BY DEF RunsInOrder, ResultMatchesOutcomes
<1>3. QED
  BY <1>1, <1>2 DEF RunsInOrder

LEMMA GateKeeps ==
  ASSUME PipelineInv, NEW r \in Runs, Gate(r)
  PROVE  PipelineInv'
<1> USE PipelineAssumption DEF PipelineInv
<1>0. AtGate(r) => pc[r] = "gate" /\ stage[r] \in Agents
  BY DEF AtGate, RunsInOrder, RunTypeOK
<1>1. CASE EnterAgent(r)
  <2>1. SafeInv'
    BY <1>1, AdmitKeepsSafe DEF EnterAgent
  <2>2. /\ RunTypeOK'
        /\ pc'[r] = "attempt"
        /\ \A q \in Runs \ {r} : pc'[q] = pc[q] /\ attempt'[q] = attempt[q]
    BY <1>1 DEF EnterAgent, RunsInOrder, RunTypeOK
  <2>3. RunsInOrder'
    BY <1>0, <1>1, <2>2, WithinPhaseKeeps DEF EnterAgent
  <2>4. AdmissionsMatchCalls'
    BY <1>1, <2>2 DEF EnterAgent, Admit, AdmissionsMatchCalls
  <2>5. QED
    BY <2>1, <2>3, <2>4
<1>2. CASE SkipDisabled(r)
  <2>1. SafeInv'
    <3>1. Allow /\ UNCHANGED <<inflight, trial>>
      BY <1>2 DEF SkipDisabled
    <3>2. Cardinality(trial) \in Nat
      BY SafeCounts
    <3>3. CASE AllowClosed
      BY <3>1, <3>3 DEF AllowClosed, counters, SafeInv, TypeOK, ClosedBelowThreshold
    <3>4. CASE AllowProbe
      BY <3>1, <3>4, SafeCounts, ThresholdAssumption
         DEF AllowProbe, SafeInv, TypeOK, ClosedBelowThreshold, States
    <3>5. CASE AllowTrial
      BY <3>1, <3>2, <3>5, ThresholdAssumption
         DEF AllowTrial, SafeInv, TypeOK, ClosedBelowThreshold
    <3>6. QED
      BY <3>1, <3>3, <3>4, <3>5 DEF Allow
  <2>2. RunsInOrder' /\ EndPhase(r, "disabled")
    BY <1>0, <1>2, ProceedKeeps DEF SkipDisabled, Outcomes, Proceed
  <2>3. AdmissionsMatchCalls'
    BY <1>0, <1>2, <2>2
       DEF SkipDisabled, EndPhase, AdmissionsMatchCalls, RunsInOrder, RunTypeOK
  <2>4. QED
    BY <2>1, <2>2, <2>3
<1>3. CASE SkipRefused(r)
  <2>1. SafeInv'
    BY <1>3, SafeUnchanged DEF SkipRefused
  <2>2. RunsInOrder' /\ EndPhase(r, "refused")
    BY <1>0, <1>3, ProceedKeeps DEF SkipRefused, Outcomes, Proceed
  <2>3. AdmissionsMatchCalls'
    BY <1>0, <1>3, <2>2
       DEF SkipRefused, EndPhase, AdmissionsMatchCalls, RunsInOrder, RunTypeOK,
           breakerVars
  <2>4. QED
    BY <2>1, <2>2, <2>3
<1>4. QED
  BY <1>1, <1>2, <1>3 DEF Gate

(* The two ways a phase ends with a report to the breaker.                 *)
LEMMA ReportKeeps ==
  ASSUME PipelineInv, NEW r \in Runs,
         \/ AgentSucceeds(r)
         \/ \E e \in Errors : Fail(r) /\ pc[r] # "gate" /\ AgentFailed(r, e)
  PROVE  PipelineInv'
<1> USE PipelineAssumption DEF PipelineInv
<1>1. pc[r] # "gate" => stage[r] \in Agents
  BY DEF RunsInOrder, PhasesInOrder
<1>2. CASE AgentSucceeds(r)
  <2>1. SafeInv'
    BY <1>2, SucceedKeepsSafe DEF AgentSucceeds
  <2>2. RunsInOrder' /\ EndPhase(r, "ok")
    BY <1>1, <1>2, ProceedKeeps DEF AgentSucceeds, Outcomes, Proceed
  <2>3. AdmissionsMatchCalls'
    BY <1>2, <2>2
       DEF AgentSucceeds, Succeed, Leave, EndPhase, AdmissionsMatchCalls,
           RunsInOrder, RunTypeOK
  <2>4. QED
    BY <2>1, <2>2, <2>3
<1>3. ASSUME NEW e \in Errors, Fail(r), pc[r] # "gate", AgentFailed(r, e)
      PROVE  PipelineInv'
  <2>1. SafeInv'
    BY <1>3, FailKeepsInv
  <2>2. RunsInOrder' /\ EndPhase(r, "error")
    BY <1>1, <1>3, AgentFailedKeeps
  <2>3. AdmissionsMatchCalls'
    BY <1>3, <2>2
       DEF Fail, Leave, EndPhase, AdmissionsMatchCalls, RunsInOrder, RunTypeOK
  <2>4. QED
    BY <2>1, <2>2, <2>3
<1>4. QED
  BY <1>2, <1>3

(* Retries, waits and the timeout: nothing is reported, the run stays in.  *)
LEMMA RetryKeeps ==
  ASSUME PipelineInv, NEW r \in Runs,
         (\E e \in Errors : BackOff(r, e)) \/ TryAgain(r) \/ Expire(r)
  PROVE  PipelineInv'
<1> USE DEF PipelineInv, RunsInOrder
<1>1. Retries \in Nat
  BY PipelineAssumption DEF Retries
<1>2. /\ stage[r] \in Agents
      /\ pc[r] = "wait" => attempt[r] < Retries
      /\ attempt[r] \in 0 .. Retries
  BY DEF PhasesInOrder, BackOff, TryAgain, Expire, RunTypeOK
<1>3. SafeInv'
  BY SafeUnchanged DEF BackOff, TryAgain, Expire
<1> DEFINE Within ==
      /\ RunTypeOK'
      /\ \A q \in Runs \ {r} : pc'[q] = pc[q] /\ attempt'[q] = attempt[q]
      /\ pc[r] # "gate" /\ pc'[r] # "gate"
      /\ pc'[r] = "wait" => attempt'[r] < Retries
      /\ UNCHANGED <<stage, outcome, result>>
<1>4. Within
  <2>1. ASSUME NEW e \in Errors, BackOff(r, e)
        PROVE  Within
    <3>1. attempt[r] < Retries
      BY <1>1, <1>2, <2>1 DEF BackOff, IsFinal
    <3>2. QED
      BY <1>1, <2>1, <3>1 DEF BackOff, RunTypeOK
  <2>2. CASE TryAgain(r)
    BY <1>1, <1>2, <2>2 DEF TryAgain, RunTypeOK
  <2>3. CASE Expire(r)
    BY <1>1, <1>2, <2>3 DEF Expire, RunTypeOK
  <2>4. QED
    BY <2>1, <2>2, <2>3
<1>5. RunsInOrder'
  BY <1>2, <1>4, WithinPhaseKeeps
<1>6. AdmissionsMatchCalls'
  BY <1>4 DEF AdmissionsMatchCalls, breakerVars, BackOff, TryAgain, Expire
<1>7. QED
  BY <1>3, <1>5, <1>6

LEMMA PassTimeKeeps ==
  ASSUME PipelineInv, PassTime
  PROVE  PipelineInv'
<1>1. SafeInv'
  BY TickKeepsInv DEF PassTime, PipelineInv
<1>2. QED
  BY <1>1 DEF PassTime, Tick, PipelineInv, RunsInOrder, RunTypeOK, runVars,
              PhasesInOrder, ResultMatchesOutcomes, AdmissionsMatchCalls

LEMMA PipelineInvStep == PipelineInv /\ [PipelineNext]_vars => PipelineInv'
<1> SUFFICES ASSUME PipelineInv, [PipelineNext]_vars
             PROVE  PipelineInv'
  OBVIOUS
<1>1. ASSUME NEW r \in Runs, EndAttempt(r) \/ EndWait(r)
      PROVE  PipelineInv'
  <2>1. CASE AgentSucceeds(r)
    BY <2>1, ReportKeeps
  <2>2. ASSUME NEW e \in Errors, AgentFails(r, e)
        PROVE  PipelineInv'
    BY <2>2, ReportKeeps DEF AgentFails, ReportFailure
  <2>3. ASSUME NEW e \in Errors, BackOff(r, e)
        PROVE  PipelineInv'
    BY <2>3, RetryKeeps
  <2>4. CASE TryAgain(r)
    BY <2>4, RetryKeeps
  <2>5. CASE WaitCutShort(r)
    BY <2>5, ReportKeeps DEF WaitCutShort, ReportFailure, Errors
  <2>6. QED
    BY <1>1, <2>1, <2>2, <2>3, <2>4, <2>5 DEF EndAttempt, EndWait
<1>2. ASSUME NEW r \in Runs, Start(r) \/ Gate(r) \/ Expire(r)
      PROVE  PipelineInv'
  BY <1>2, StartKeeps, GateKeeps, RetryKeeps
<1>3. CASE PassTime
  BY <1>3, PassTimeKeeps
<1>4. CASE UNCHANGED vars
  BY <1>4, SafeUnchanged
     DEF vars, PipelineInv, RunsInOrder, RunTypeOK, runVars, breakerVars,
         PhasesInOrder, ResultMatchesOutcomes, AdmissionsMatchCalls
<1>5. QED
  BY <1>1, <1>2, <1>3, <1>4 DEF PipelineNext

THEOREM PipelineInvariance == PipelineSpec => []PipelineInv
BY InvInit, PipelineInvStep, PTL DEF PipelineSpec
-----------------------------------------------------------------------------
(* Every variable keeps its type; above all the retry loop never counts    *)
(* past the configured number of retries.                                  *)
THEOREM PipelineTypeCorrect == PipelineSpec => []PipelineTypeOK
<1>1. PipelineInv => PipelineTypeOK
  BY DEF PipelineInv, RunsInOrder, SafeInv, PipelineTypeOK
<1>2. QED
  BY <1>1, PipelineInvariance, PTL

(* A run is admitted exactly while it is inside a call of an agent.        *)
THEOREM PipelineAdmissions == PipelineSpec => []AdmissionsMatchCalls
<1>1. PipelineInv => AdmissionsMatchCalls
  BY DEF PipelineInv
<1>2. QED
  BY <1>1, PipelineInvariance, PTL

(* What Execute returns agrees with what its agents did.                   *)
THEOREM PipelineResults == PipelineSpec => []ResultMatchesOutcomes
<1>1. PipelineInv => ResultMatchesOutcomes
  BY DEF PipelineInv, RunsInOrder
<1>2. QED
  BY <1>1, PipelineInvariance, PTL

(* With any set of agents disabled a half-open breaker still limits the    *)
(* calls of its period.                                                    *)
THEOREM PipelineTrialLoad == PipelineSpec => []TrialLoadBounded
<1>1. PipelineInv => TrialLoadBounded
  BY SafeIsBounded DEF PipelineInv
<1>2. QED
  BY <1>1, PipelineInvariance, PTL

(* Only admissions, reports and time touch the breaker, so without disabled *)
(* agents the pipeline inherits whatever holds of BreakerSpec, above all    *)
(* that it is not wedged.                                                   *)
THEOREM PipelineImplementsBreaker ==
  Enabled = Agents => (PipelineSpec => BreakerSpec)
<1> SUFFICES ASSUME Enabled = Agents
             PROVE  PipelineSpec => BreakerSpec
  OBVIOUS
<1>1. PipelineInit => BreakerInit
  BY DEF PipelineInit
<1>2. RunTypeOK /\ [PipelineNext]_vars => [BreakerNext]_breakerVars
  BY PipelineStepIsBreakerStep
<1>3. PipelineInv => RunTypeOK
  BY DEF PipelineInv, RunsInOrder
<1>4. QED
  BY <1>1, <1>2, <1>3, PipelineInvariance, PTL DEF PipelineSpec, BreakerSpec

(* So a pipeline whose agents are all enabled is never stuck with a        *)
(* half-open breaker that refuses everybody.                               *)
THEOREM PipelineNotWedged == Enabled = Agents => (PipelineSpec => []NotWedged)
BY PipelineImplementsBreaker, BreakerNotWedged, PTL
-----------------------------------------------------------------------------
(* Inside a phase a review has fewer steps left than the phase, and some.  *)
LEMMA WithinPhase ==
  ASSUME RunsInOrder, NEW r \in Runs, stage[r] # "idle"
  PROVE  /\ PhaseSteps \in Nat /\ Retries \in Nat /\ attempt[r] \in 0 .. Retries
         /\ StepsInPhase(r) \in 1 .. PhaseSteps
         /\ pc[r] # "gate" => StepsInPhase(r) < PhaseSteps
<1>1. Retries \in Nat
  BY PipelineAssumption DEF Retries
<1>2. /\ attempt[r] \in 0 .. Retries
      /\ pc[r] \in {"gate", "attempt", "wait"}
      /\ expired[r] \in BOOLEAN
  BY DEF RunsInOrder, RunTypeOK
<1>3. QED
  BY <1>1, <1>2 DEF PhaseSteps, StepsInPhase

(* The end of a phase, by whatever way, costs at least a step.             *)
LEMMA PhaseEndCounts ==
  ASSUME RunsInOrder, NEW r \in Runs, stage[r] \in Agents,
         pc' = [pc EXCEPT ![r] = "gate"],
         stage'[r] \in {Following(stage[r]), "idle"}
  PROVE  StepsLeft(r)' < StepsLeft(r)
<1>1. PhaseSteps \in Nat /\ StepsInPhase(r) \in 1 .. PhaseSteps
  BY WithinPhase DEF Agents
<1>2. PhaseSteps' = PhaseSteps /\ StepsInPhase(r)' = PhaseSteps
  BY DEF RunsInOrder, RunTypeOK, StepsInPhase, PhaseSteps, Retries
<1>3. CASE stage[r] = "scout"
  <2>1. StepsLeft(r) = 2 * PhaseSteps + StepsInPhase(r)
    BY <1>3 DEF StepsLeft
  <2>2. StepsLeft(r)' = PhaseSteps + PhaseSteps \/ StepsLeft(r)' = 0
    BY <1>2, <1>3 DEF StepsLeft, Following
  <2>3. QED
    BY <1>1, <2>1, <2>2
<1>4. CASE stage[r] = "architect"
  <2>1. StepsLeft(r) = PhaseSteps + StepsInPhase(r)
    BY <1>4 DEF StepsLeft
  <2>2. StepsLeft(r)' = PhaseSteps \/ StepsLeft(r)' = 0
    BY <1>2, <1>4 DEF StepsLeft, Following
  <2>3. QED
    BY <1>1, <2>1, <2>2
<1>5. CASE stage[r] = "diplomat"
  <2>1. StepsLeft(r) = StepsInPhase(r)
    BY <1>5 DEF StepsLeft
  <2>2. StepsLeft(r)' = 0
    BY <1>5 DEF StepsLeft, Following
  <2>3. QED
    BY <1>1, <2>1, <2>2
<1>6. QED
  BY <1>3, <1>4, <1>5 DEF Agents

(* So does every step within one.                                          *)
LEMMA StepInPhaseCounts ==
  ASSUME RunsInOrder, NEW r \in Runs, stage[r] \in Agents, stage' = stage,
         StepsInPhase(r)' \in Nat, StepsInPhase(r)' < StepsInPhase(r)
  PROVE  StepsLeft(r)' < StepsLeft(r)
<1>1. PhaseSteps \in Nat /\ StepsInPhase(r) \in Nat /\ PhaseSteps' = PhaseSteps
  BY WithinPhase DEF Agents, PhaseSteps, Retries
<1>2. \/ /\ StepsLeft(r) = 2 * PhaseSteps + StepsInPhase(r)
         /\ StepsLeft(r)' = 2 * PhaseSteps + StepsInPhase(r)'
      \/ /\ StepsLeft(r) = PhaseSteps + StepsInPhase(r)
         /\ StepsLeft(r)' = PhaseSteps + StepsInPhase(r)'
      \/ /\ StepsLeft(r) = StepsInPhase(r)
         /\ StepsLeft(r)' = StepsInPhase(r)'
  BY <1>1 DEF StepsLeft, Agents
<1>3. QED
  BY <1>1, <1>2

\* What a step of one review leaves as it is of another.
Same(q) == UNCHANGED <<stage[q], pc[q], attempt[q], expired[q], outcome[q], result[q]>>

LEMMA OwnStepCounts ==
  ASSUME RunsInOrder, RunsInOrder', NEW r \in Runs, stage[r] # "idle",
         Gate(r) \/ EndAttempt(r) \/ EndWait(r) \/ Expire(r)
  PROVE  StepsLeft(r)' < StepsLeft(r)
<1>1. stage[r] \in Agents
  BY DEF RunsInOrder, RunTypeOK
<1>2. /\ PhaseSteps \in Nat /\ Retries \in Nat /\ attempt[r] \in 0 .. Retries
      /\ StepsInPhase(r) \in 1 .. PhaseSteps
      /\ expired[r] \in BOOLEAN /\ pc[r] \in {"gate", "attempt", "wait"}
  BY WithinPhase DEF RunsInOrder, RunTypeOK
<1>3. ASSUME NEW how, EndPhase(r, how), stage'[r] \in {Following(stage[r]), "idle"}
      PROVE  StepsLeft(r)' < StepsLeft(r)
  BY <1>1, <1>3, PhaseEndCounts DEF EndPhase
<1>4. ASSUME NEW how, Proceed(r, how)
      PROVE  StepsLeft(r)' < StepsLeft(r)
  BY <1>3, <1>4 DEF Proceed, RunsInOrder, RunTypeOK
<1>5. ASSUME NEW e, AgentFailed(r, e)
      PROVE  StepsLeft(r)' < StepsLeft(r)
  BY <1>1, <1>3, <1>4, <1>5 DEF AgentFailed, Abort, Agents, RunsInOrder, RunTypeOK
<1>6. CASE stage' = stage
  <2>1. stage'[r] # "idle" /\ Retries' = Retries
    BY <1>1, <1>6 DEF Agents, Retries
  <2>2. StepsInPhase(r)' \in Nat
    <3>1. /\ attempt'[r] \in 0 .. Retries /\ expired'[r] \in BOOLEAN
          /\ pc'[r] \in {"gate", "attempt", "wait"}
      BY <2>1 DEF RunsInOrder, RunTypeOK
    <3>2. QED
      BY <1>2, <2>1, <3>1 DEF StepsInPhase, PhaseSteps
  <2>3. StepsInPhase(r)' < StepsInPhase(r)
    <3> USE DEF RunsInOrder, RunTypeOK
    <3>1. CASE EnterAgent(r)
      BY <1>2, <2>1, <3>1 DEF EnterAgent, AtGate, StepsInPhase, PhaseSteps
    <3>2. ASSUME NEW e \in Errors, BackOff(r, e)
          PROVE  StepsInPhase(r)' < StepsInPhase(r)
      BY <1>2, <2>1, <3>2 DEF BackOff, StepsInPhase, PhaseSteps
    <3>3. CASE TryAgain(r)
      BY <1>2, <2>1, <3>3 DEF TryAgain, StepsInPhase, PhaseSteps
    <3>4. CASE Expire(r)
      BY <1>2, <2>1, <3>4 DEF Expire, StepsInPhase, PhaseSteps
    <3>5. stage'[r] = stage[r] /\ Following(stage[r]) # stage[r] /\ stage[r] # "idle"
      BY <1>1, <1>6 DEF Following, Agents
    <3>6. \A how : ~ Proceed(r, how)
      BY <3>5 DEF Proceed
    <3>7. \A e : ~ AgentFailed(r, e)
      BY <1>1, <3>5, <3>6 DEF AgentFailed, Abort, Agents
    <3>8. QED
      BY <3>1, <3>2, <3>3, <3>4, <3>6, <3>7
         DEF Gate, SkipDisabled, SkipRefused, EndAttempt, AgentSucceeds, AgentFails,
             EndWait, WaitCutShort
  <2>4. QED
    BY <1>1, <1>6, <2>2, <2>3, StepInPhaseCounts
<1>7. CASE stage' # stage
  BY <1>4, <1>5, <1>7
     DEF Gate, EnterAgent, SkipDisabled, SkipRefused, EndAttempt, AgentSucceeds, AgentFails,
         BackOff, EndWait, TryAgain, WaitCutShort, Expire
<1>8. QED
  BY <1>6, <1>7

(* A step of one review, or of the clock, leaves every other as it is.     *)
LEMMA OthersStay ==
  ASSUME RunsInOrder, NEW r \in Runs, NEW q \in Runs, q # r,
         Start(r) \/ Gate(r) \/ EndAttempt(r) \/ EndWait(r) \/ Expire(r)
  PROVE  Same(q)
<1>1. ASSUME NEW how, EndPhase(r, how)
      PROVE  UNCHANGED <<pc[q], attempt[q], expired[q], outcome[q]>>
  BY <1>1 DEF EndPhase, RunsInOrder, RunTypeOK
<1>2. ASSUME NEW how, Proceed(r, how)
      PROVE  Same(q)
  BY <1>1, <1>2 DEF Proceed, Same, RunsInOrder, RunTypeOK
<1>3. ASSUME NEW verdict, Abort(r, verdict)
      PROVE  Same(q)
  BY <1>1, <1>3 DEF Abort, Same, RunsInOrder, RunTypeOK
<1>4. ASSUME NEW e, AgentFailed(r, e), stage[r] \in Agents
      PROVE  Same(q)
  BY <1>2, <1>3, <1>4 DEF AgentFailed, Agents
<1>5. pc[r] # "gate" => stage[r] \in Agents
  BY DEF RunsInOrder, PhasesInOrder
<1>6. CASE Start(r) \/ EnterAgent(r) \/ (\E e \in Errors : BackOff(r, e)) \/ TryAgain(r) \/ Expire(r)
  BY <1>6 DEF Start, EnterAgent, BackOff, TryAgain, Expire, Same, RunsInOrder, RunTypeOK
<1>7. QED
  BY <1>2, <1>4, <1>5, <1>6
     DEF Gate, SkipDisabled, SkipRefused, EndAttempt, AgentSucceeds, AgentFails, EndWait,
         WaitCutShort

(* For any number of reviews, retries and disabled agents: every step of a *)
(* review uses up one of the steps it has left, and no other step gives it *)
(* any.  That it takes them is a matter of fairness.                       *)
THEOREM PipelineReviewsAreFinite == PipelineSpec => ReviewsAreFinite
<1> DEFINE Shorter ==
      \A r \in Runs : stage[r] # "idle" =>
        \/ StepsLeft(r)' < StepsLeft(r)
        \/ UNCHANGED <<stage[r], pc[r], attempt[r], expired[r], outcome[r], result[r]>>
<1>1. PipelineInv /\ PipelineInv' /\ [PipelineNext]_vars => [Shorter]_vars
  <2> SUFFICES ASSUME PipelineInv, PipelineInv', PipelineNext, NEW q \in Runs, stage[q] # "idle"
               PROVE  StepsLeft(q)' < StepsLeft(q) \/ Same(q)
    BY DEF Same
  <2>1. RunsInOrder /\ RunsInOrder'
    BY DEF PipelineInv
  <2>2. ASSUME NEW r \in Runs, Start(r) \/ Gate(r) \/ EndAttempt(r) \/ EndWait(r) \/ Expire(r)
        PROVE  StepsLeft(q)' < StepsLeft(q) \/ Same(q)
    <3>1. CASE q # r
      BY <2>1, <2>2, <3>1, OthersStay
    <3>2. CASE q = r
      <4>1. ~ Start(r)
        BY <3>2 DEF Start
      <4>2. QED
        BY <2>1, <2>2, <3>2, <4>1, OwnStepCounts
    <3>3. QED
      BY <3>1, <3>2
  <2>3. CASE PassTime
    BY <2>3 DEF PassTime, runVars, Same
  <2>4. QED
    BY <2>2, <2>3 DEF PipelineNext
<1>2. QED
  BY <1>1, PipelineInvariance, PTL DEF PipelineSpec, ReviewsAreFinite

(* Below its threshold a closed breaker stays behind a pipeline as well,   *)
(* with any agents disabled.                                               *)
THEOREM PipelineClosedBelowThreshold == PipelineSpec => []ClosedBelowThreshold
<1>1. PipelineInv => ClosedBelowThreshold
  BY DEF PipelineInv, SafeInv
<1>2. QED
  BY <1>1, PipelineInvariance, PTL

(* What a disabled agent leads to is for good: a half-open breaker whose   *)
(* slots are gone and that nobody is to report to is left by no step, so   *)
(* no agent of any later review runs.                                      *)
Wedged == state = "half-open" /\ inflight = {} /\ halfOpenRequests >= MaxHalfOpenRequests

THEOREM PipelineWedgedForGood == PipelineSpec => [][Wedged => Wedged']_vars
<1>1. PipelineInv /\ [PipelineNext]_vars => [Wedged => Wedged']_vars
  <2> SUFFICES ASSUME PipelineInv, PipelineNext, Wedged
               PROVE  Wedged'
    OBVIOUS
  <2>1. ~ Allow /\ \A r \in Runs : ~ Admit(r) /\ ~ Succeed(r) /\ ~ Fail(r)
    <3>1. halfOpenRequests \in Nat /\ MaxHalfOpenRequests \in Nat
      BY ThresholdAssumption DEF PipelineInv, SafeInv, TypeOK
    <3>2. ~ AllowClosed /\ ~ AllowProbe /\ ~ AllowTrial
      BY <3>1 DEF Wedged, AllowClosed, AllowProbe, AllowTrial
    <3>3. QED
      BY <3>2 DEF Wedged, Allow, Admit, Succeed, Fail, Leave
  <2>2. UNCHANGED <<state, inflight, halfOpenRequests>>
    BY <2>1 DEF PipelineNext, Start, Gate, EnterAgent, SkipDisabled, SkipRefused, EndAttempt,
                AgentSucceeds, AgentFails, ReportFailure, BackOff, EndWait, TryAgain,
                WaitCutShort, Expire, PassTime, Tick, breakerVars
  <2>3. QED
    BY <2>2 DEF Wedged
<1>2. QED
  BY <1>1, PipelineInvariance, PTL DEF PipelineSpec
=============================================================================
