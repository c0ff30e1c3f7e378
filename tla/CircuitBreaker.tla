--------------------------- MODULE CircuitBreaker ---------------------------
(***************************************************************************)
(* internal/pipeline/circuit_breaker.go: the breaker one orchestrator puts *)
(* in front of all of its agents.  Allow, RecordSuccess and RecordFailure  *)
(* each run under the mutex, so each is one atomic step; between a call's  *)
(* Allow and its outcome any number of steps of other calls may come.      *)
(*                                                                         *)
(* Callers are the goroutines that follow the protocol of Execute: ask,    *)
(* run, report exactly one outcome.  A refused Allow changes nothing and   *)
(* has no action here.                                                     *)
(*                                                                         *)
(* Time is discrete: age is the time since lastFailureTime, stopped at     *)
(* Timeout + 1, where time.Since already exceeds Timeout.  Its first value *)
(* stands for the zero time.Time, centuries ago.                           *)
(***************************************************************************)
EXTENDS Naturals, FiniteSets

CONSTANTS Callers, FailureThreshold, SuccessThreshold, MaxHalfOpenRequests,
          Timeout

ASSUME ThresholdAssumption ==
  /\ FailureThreshold \in Nat \ {0}
  /\ SuccessThreshold \in Nat \ {0}
  /\ MaxHalfOpenRequests \in Nat
  /\ Timeout \in Nat

VARIABLES
  state,             \* "closed", "open" or "half-open"
  failures,          \* failures recorded in a row while closed
  successes,         \* successes recorded in this half-open period
  halfOpenRequests,  \* calls let through in this half-open period, less the first
  age,               \* time since the last recorded failure
  inflight,          \* callers let through that have not reported yet
  trial              \* those of them let through in this half-open period (history)

counters == <<state, failures, successes, halfOpenRequests, age>>
breakerVars == <<state, failures, successes, halfOpenRequests, age, inflight, trial>>

States == {"closed", "open", "half-open"}
Expired == Timeout + 1

TypeOK ==
  /\ state \in States
  /\ failures \in 0 .. FailureThreshold
  /\ successes \in 0 .. SuccessThreshold - 1
  /\ halfOpenRequests \in 0 .. MaxHalfOpenRequests
  /\ age \in 0 .. Expired
  /\ inflight \subseteq Callers
  /\ trial \subseteq inflight

BreakerInit ==
  /\ state = "closed"
  /\ failures = 0
  /\ successes = 0
  /\ halfOpenRequests = 0
  /\ age = Expired
  /\ inflight = {}
  /\ trial = {}
-----------------------------------------------------------------------------
(* Variants of the operations below with one slip each (the Slip_ operators *)
(* of every module): what the properties at the end have to notice.        *)

Slip_ProbeTakesSlot ==
  /\ state = "open" /\ age > Timeout
  /\ state' = "half-open"
  /\ successes' = 0
  /\ halfOpenRequests' = 1
  /\ UNCHANGED <<failures, age>>

Slip_CloseKeepsFailures ==
  \/ /\ state = "half-open" /\ successes + 1 >= SuccessThreshold
     /\ state' = "closed"
     /\ successes' = 0
     /\ UNCHANGED <<failures, halfOpenRequests, age>>
  \/ /\ state = "half-open" /\ successes + 1 < SuccessThreshold
     /\ successes' = successes + 1
     /\ UNCHANGED <<state, failures, halfOpenRequests, age>>
  \/ /\ state # "half-open"
     /\ failures' = IF state = "closed" THEN 0 ELSE failures
     /\ UNCHANGED <<state, successes, halfOpenRequests, age>>

Slip_SuccessUncounted ==
  /\ failures' = IF state = "closed" THEN 0 ELSE failures
  /\ UNCHANGED <<state, successes, halfOpenRequests, age>>
-----------------------------------------------------------------------------
(* Allow, when it answers true: one operator for each state it can be in.  *)

AllowClosed ==
  /\ state = "closed"
  /\ UNCHANGED counters

\* The request that finds the cool-down over starts the half-open period and
\* does not use up a slot of it.
AllowProbe ==
  /\ state = "open"
  /\ age > Timeout
  /\ state' = "half-open"
  /\ successes' = 0
  /\ halfOpenRequests' = 0
  /\ UNCHANGED <<failures, age>>

AllowTrial ==
  /\ state = "half-open"
  /\ halfOpenRequests < MaxHalfOpenRequests
  /\ halfOpenRequests' = halfOpenRequests + 1
  /\ UNCHANGED <<state, failures, successes, age>>

Allow == AllowClosed \/ AllowProbe \/ AllowTrial

\* Allow answers false.
Refuses ==
  \/ state = "open" /\ age <= Timeout
  \/ state = "half-open" /\ halfOpenRequests >= MaxHalfOpenRequests

Admit(c) ==
  /\ c \notin inflight
  /\ inflight' = inflight \cup {c}
  /\ \/ AllowClosed /\ UNCHANGED trial
     \/ AllowProbe /\ trial' = {c}
     \/ AllowTrial /\ trial' = trial \cup {c}
-----------------------------------------------------------------------------
RecordSuccess ==
  \/ /\ state = "closed"
     /\ failures' = 0
     /\ UNCHANGED <<state, successes, halfOpenRequests, age>>
  \/ /\ state = "half-open"
     /\ successes + 1 < SuccessThreshold
     /\ successes' = successes + 1
     /\ UNCHANGED <<state, failures, halfOpenRequests, age>>
  \/ /\ state = "half-open"
     /\ successes + 1 >= SuccessThreshold
     /\ state' = "closed"
     /\ failures' = 0
     /\ successes' = 0
     /\ UNCHANGED <<halfOpenRequests, age>>
  \/ /\ state = "open"
     /\ UNCHANGED counters

\* A failure refreshes lastFailureTime in every state, also one reported late,
\* when the breaker is already open.
RecordFailure ==
  /\ age' = 0
  /\ \/ /\ state = "closed"
        /\ failures' = failures + 1
        /\ state' = IF failures + 1 >= FailureThreshold THEN "open" ELSE "closed"
        /\ UNCHANGED <<successes, halfOpenRequests>>
     \/ /\ state = "half-open"
        /\ state' = "open"
        /\ successes' = 0
        /\ UNCHANGED <<failures, halfOpenRequests>>
     \/ /\ state = "open"
        /\ UNCHANGED <<state, failures, successes, halfOpenRequests>>

\* A reported call is over, and a half-open period ends for every call of it.
Leave(c) ==
  /\ c \in inflight
  /\ inflight' = inflight \ {c}
  /\ trial' = IF state' = "half-open" THEN trial \ {c} ELSE {}

Succeed(c) == RecordSuccess /\ Leave(c)
Fail(c) == RecordFailure /\ Leave(c)

Tick ==
  /\ age < Expired
  /\ age' = age + 1
  /\ UNCHANGED <<state, failures, successes, halfOpenRequests, inflight, trial>>
-----------------------------------------------------------------------------
BreakerNext ==
  \/ \E c \in Callers : Admit(c) \/ Succeed(c) \/ Fail(c)
  \/ Tick

BreakerSpec == BreakerInit /\ [][BreakerNext]_breakerVars

\* Time passes, a call that runs ends (every agent runs under a deadline), and
\* while the breaker would let a call through one eventually comes.
BreakerFairness ==
  /\ WF_breakerVars(Tick)
  /\ \A c \in Callers : WF_breakerVars(Succeed(c) \/ Fail(c))
  /\ WF_breakerVars(\E c \in Callers : Admit(c))

FairBreakerSpec == BreakerSpec /\ BreakerFairness
-----------------------------------------------------------------------------
(* The breaker closes and opens at its threshold: a closed breaker has     *)
(* never counted FailureThreshold failures, not even after several trips   *)
(* with outcomes of calls admitted before them.                            *)
ClosedBelowThreshold == state = "closed" => failures < FailureThreshold

(* A backend on trial sees at most MaxHalfOpenRequests + 1 calls of the    *)
(* half-open period at once: the slots and the request that opened it.     *)
TrialLoadBounded ==
  state = "half-open" => Cardinality(trial) <= MaxHalfOpenRequests + 1

(* Slots are never given back, so a half-open breaker whose slots are gone *)
(* and whose calls have all reported would refuse for ever.  It cannot get *)
(* there as long as the successes needed are at most the calls one period  *)
(* lets through.                                                           *)
NotWedged ==
  SuccessThreshold <= MaxHalfOpenRequests + 1 =>
    ~ (state = "half-open" /\ inflight = {} /\ Refuses)

(* An open breaker is eventually tried again and a trial eventually ends,  *)
(* although late failures push the cool-down back and slots run out.       *)
Recovers ==
  /\ state = "open" ~> state = "half-open"
  /\ state = "half-open" ~> state # "half-open"
=============================================================================
