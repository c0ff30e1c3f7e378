------------------------------ MODULE Pipeline ------------------------------
(***************************************************************************)
(* internal/pipeline/orchestrator.go, retry.go and adapters.go: reviews    *)
(* run through one PipelineOrchestrator, whose three agents share one      *)
(* circuit breaker.  Each of Runs is a goroutine in Execute, and when its  *)
(* review is over it may start the next.                                   *)
(*                                                                         *)
(* The runs share only the breaker, so what a run does between two steps   *)
(* that touch the breaker, an agent's answer or a clock is part of one     *)
(* action.  The errors an agent returns are told apart by the two tests    *)
(* the code makes on them: whether the retrier tries again and whether     *)
(* Execute calls them transient.  Inputs and outputs are left out but for  *)
(* whether they were there, and so are the traces and the logger.          *)
(***************************************************************************)
EXTENDS CircuitBreaker

CONSTANTS Runs, Enabled, MaxRetries

Agents == {"scout", "architect", "diplomat"}

ASSUME PipelineAssumption ==
  /\ Callers = Runs
  /\ Enabled \subseteq Agents
  /\ MaxRetries \in Nat

VARIABLES
  stage,    \* the agent executeAgent is busy with, or "idle"
  pc,       \* "gate" (before Allow), "attempt" (in agent.Execute), "wait" (backoff)
  attempt,  \* the retrier's loop variable
  expired,  \* the agent's timeout context is done
  outcome,  \* how each agent's phase of the review ended
  result    \* what Execute returned

runVars == <<stage, pc, attempt, expired, outcome, result>>
vars == <<breakerVars, runVars>>

Errors == {"timeout", "503", "unavailable", "model"}
Retryable == {"timeout", "unavailable"}   \* "connection refused" is of the latter kind
Transient == {"timeout", "503"}           \* "context deadline exceeded" is a timeout

Outcomes == {"none", "ok", "error", "refused", "disabled"}
Results == {"none", "running", "success", "partial", "transient", "permanent",
            "unformatted"}

\* NewRetrier takes a configured zero for "not configured".
Retries == IF MaxRetries = 0 THEN 3 ELSE MaxRetries

RunTypeOK ==
  /\ stage \in [Runs -> Agents \cup {"idle"}]
  /\ pc \in [Runs -> {"gate", "attempt", "wait"}]
  /\ attempt \in [Runs -> 0 .. Retries]
  /\ expired \in [Runs -> BOOLEAN]
  /\ outcome \in [Runs -> [Agents -> Outcomes]]
  /\ result \in [Runs -> Results]

PipelineTypeOK == TypeOK /\ RunTypeOK

PipelineInit ==
  /\ BreakerInit
  /\ stage = [r \in Runs |-> "idle"]
  /\ pc = [r \in Runs |-> "gate"]
  /\ attempt = [r \in Runs |-> 0]
  /\ expired = [r \in Runs |-> FALSE]
  /\ outcome = [r \in Runs |-> [a \in Agents |-> "none"]]
  /\ result = [r \in Runs |-> "none"]
-----------------------------------------------------------------------------
(* How Execute goes on once executeAgent has returned.                     *)

Following(a) == CASE a = "scout"     -> "architect"
                  [] a = "architect" -> "diplomat"
                  [] a = "diplomat"  -> "idle"

EndPhase(r, how) ==
  /\ outcome' = [outcome EXCEPT ![r][stage[r]] = how]
  /\ pc' = [pc EXCEPT ![r] = "gate"]
  /\ attempt' = [attempt EXCEPT ![r] = 0]
  /\ expired' = [expired EXCEPT ![r] = FALSE]

\* The result of a review whose diplomat did not fail: the errors collected on
\* the way can only be the scout's.
Completed(r) == IF outcome[r]["scout"] = "error" THEN "partial" ELSE "success"

Proceed(r, how) ==
  /\ EndPhase(r, how)
  /\ stage' = [stage EXCEPT ![r] = Following(stage[r])]
  /\ result' = [result EXCEPT ![r] = IF stage[r] = "diplomat" THEN Completed(r) ELSE @]

Abort(r, verdict) ==
  /\ EndPhase(r, "error")
  /\ stage' = [stage EXCEPT ![r] = "idle"]
  /\ result' = [result EXCEPT ![r] = verdict]

Slip_ArchitectFailureTolerated(r, e) ==
  IF stage[r] = "diplomat" THEN Abort(r, "unformatted") ELSE Proceed(r, "error")

\* A scout's failure is noted, an architect's or a diplomat's ends the review.
AgentFailed(r, e) ==
  CASE stage[r] = "scout"     -> Proceed(r, "error")
    [] stage[r] = "architect" -> Abort(r, IF e \in Transient THEN "transient" ELSE "permanent")
    [] stage[r] = "diplomat"  -> Abort(r, "unformatted")
-----------------------------------------------------------------------------
(* executeAgent.                                                           *)

Start(r) ==
  /\ stage[r] = "idle"
  /\ stage' = [stage EXCEPT ![r] = "scout"]
  /\ outcome' = [outcome EXCEPT ![r] = [a \in Agents |-> "none"]]
  /\ result' = [result EXCEPT ![r] = "running"]
  /\ UNCHANGED <<breakerVars, pc, attempt, expired>>

AtGate(r) == stage[r] # "idle" /\ pc[r] = "gate"

EnterAgent(r) ==
  /\ AtGate(r)
  /\ stage[r] \in Enabled
  /\ Admit(r)
  /\ pc' = [pc EXCEPT ![r] = "attempt"]
  /\ UNCHANGED <<stage, attempt, expired, outcome, result>>

Slip_SkipReturnsSlotNotTaken(r) ==
  /\ AtGate(r)
  /\ stage[r] \notin Enabled
  /\ \/ state # "half-open" /\ Allow
     \/ /\ state = "half-open" /\ halfOpenRequests > 0
        /\ halfOpenRequests' = halfOpenRequests - 1
        /\ UNCHANGED <<state, failures, successes, age>>
  /\ Proceed(r, "disabled")
  /\ UNCHANGED <<inflight, trial>>

\* Allow has been asked, and has counted the request, before the agent is
\* found disabled, and no outcome is reported for it.
SkipDisabled(r) ==
  /\ AtGate(r)
  /\ stage[r] \notin Enabled
  /\ Allow
  /\ Proceed(r, "disabled")
  /\ UNCHANGED <<inflight, trial>>

SkipRefused(r) ==
  /\ AtGate(r)
  /\ Refuses
  /\ Proceed(r, "refused")
  /\ UNCHANGED breakerVars

AgentSucceeds(r) ==
  /\ pc[r] = "attempt"
  /\ Succeed(r)
  /\ Proceed(r, "ok")

Slip_OneRetryTooMany(r, e) == attempt[r] > Retries \/ e \notin Retryable

\* WithBackoff makes no further attempt after this error.
IsFinal(r, e) == attempt[r] = Retries \/ e \notin Retryable

Slip_FailureUnreported(r) == UNCHANGED breakerVars

ReportFailure(r) == Fail(r)

AgentFails(r, e) ==
  /\ pc[r] = "attempt"
  /\ IsFinal(r, e)
  /\ ReportFailure(r)
  /\ AgentFailed(r, e)

BackOff(r, e) ==
  /\ pc[r] = "attempt"
  /\ ~ IsFinal(r, e)
  /\ pc' = [pc EXCEPT ![r] = "wait"]
  /\ UNCHANGED <<breakerVars, stage, attempt, expired, outcome, result>>

Slip_RetryUncounted(r) ==
  /\ pc[r] = "wait"
  /\ pc' = [pc EXCEPT ![r] = "attempt"]
  /\ UNCHANGED <<breakerVars, stage, attempt, expired, outcome, result>>

\* The select in WithBackoff: with both channels ready either may be taken.
TryAgain(r) ==
  /\ pc[r] = "wait"
  /\ pc' = [pc EXCEPT ![r] = "attempt"]
  /\ attempt' = [attempt EXCEPT ![r] = @ + 1]
  /\ UNCHANGED <<breakerVars, stage, expired, outcome, result>>

WaitCutShort(r) ==
  /\ pc[r] = "wait"
  /\ expired[r]
  /\ ReportFailure(r)
  /\ AgentFailed(r, "timeout")

Expire(r) ==
  /\ pc[r] \in {"attempt", "wait"}
  /\ ~ expired[r]
  /\ expired' = [expired EXCEPT ![r] = TRUE]
  /\ UNCHANGED <<breakerVars, stage, pc, attempt, outcome, result>>

PassTime == Tick /\ UNCHANGED runVars
-----------------------------------------------------------------------------
Gate(r) == EnterAgent(r) \/ SkipDisabled(r) \/ SkipRefused(r)
EndAttempt(r) == AgentSucceeds(r) \/ \E e \in Errors : AgentFails(r, e) \/ BackOff(r, e)
EndWait(r) == TryAgain(r) \/ WaitCutShort(r)

PipelineNext ==
  \/ \E r \in Runs : Start(r) \/ Gate(r) \/ EndAttempt(r) \/ EndWait(r) \/ Expire(r)
  \/ PassTime

PipelineSpec == PipelineInit /\ [][PipelineNext]_vars

\* A goroutine that can run does, timers fire, and an agent answers: adapters
\* pass the timeout context down to calls that give up with it.
RunFairness ==
  \A r \in Runs : WF_vars(Gate(r)) /\ WF_vars(EndAttempt(r)) /\ WF_vars(EndWait(r))

\* The clock moves on, and reviews keep coming.
LoadFairness == WF_vars(PassTime) /\ \A r \in Runs : WF_vars(Start(r))

FairPipelineSpec == PipelineSpec /\ RunFairness /\ LoadFairness
-----------------------------------------------------------------------------
(* Outside a call into an agent a run holds nothing of the breaker, inside *)
(* it exactly one admission: retries share it and every way out of the     *)
(* retrier reports once.                                                   *)
AdmissionsMatchCalls == inflight = {r \in Runs : pc[r] # "gate"}

(* What Execute returns follows from what its agents did: no review past a *)
(* failed architect or diplomat, none cut short by the scout, PartialOutput*)
(* exactly when an error was tolerated, and a phase that was not reached   *)
(* left no outcome.                                                        *)
ResultMatchesOutcomes ==
  \A r \in Runs :
    LET o == outcome[r] IN
    /\ result[r] \in {"success", "partial"} =>
         /\ {o["architect"], o["diplomat"]} \cap {"none", "error"} = {}
         /\ result[r] = "partial" <=> o["scout"] = "error"
    /\ result[r] \in {"transient", "permanent"} =>
         o["architect"] = "error" /\ o["diplomat"] = "none"
    /\ result[r] = "unformatted" => o["diplomat"] = "error" /\ o["architect"] # "error"
    /\ o["scout"] = "none" => o["architect"] = "none"
    /\ o["architect"] = "none" => o["diplomat"] = "none"

(* Every review that was begun ends with an answer, whatever its agents,   *)
(* the retries, the timeouts and the breaker it shares do.                 *)
ReviewsEnd == \A r \in Runs : result[r] = "running" ~> result[r] # "running"

(* A review that runs has only so many steps left: each step it takes uses *)
(* one up, the retries, the timeout and a phase cut short included, and no *)
(* step of another review or of the clock gives it any.  From its start to *)
(* its answer these are three phases, of two steps an attempt and its wait.*)
PhaseSteps == 2 * Retries + 4
StepsInPhase(r) ==
  IF pc[r] = "gate" THEN PhaseSteps
  ELSE 2 * (Retries - attempt[r]) + (IF pc[r] = "attempt" THEN 2 ELSE 1)
         + (IF expired[r] THEN 0 ELSE 1)
StepsLeft(r) ==
  CASE stage[r] = "scout"     -> 2 * PhaseSteps + StepsInPhase(r)
    [] stage[r] = "architect" -> PhaseSteps + StepsInPhase(r)
    [] stage[r] = "diplomat"  -> StepsInPhase(r)
    [] stage[r] = "idle"      -> 0
ReviewsAreFinite ==
  [][\A r \in Runs : stage[r] # "idle" =>
       \/ StepsLeft(r)' < StepsLeft(r)
       \/ UNCHANGED <<stage[r], pc[r], attempt[r], expired[r], outcome[r], result[r]>>]_vars

\* What the review handed to the platform was written from.
FinalReview(r) ==
  CASE outcome[r]["diplomat"] # "ok"  -> "none"
    [] outcome[r]["architect"] = "ok" -> "grounded"
    [] OTHER                          -> "blind"

(* No review is produced without the architect's ("cannot proceed without  *)
(* review"): not so when the breaker refuses the architect's phase and     *)
(* lets the diplomat's through.                                            *)
ReviewsAreGrounded ==
  \A r \in Runs : result[r] \in {"success", "partial"} => FinalReview(r) # "blind"
=============================================================================
