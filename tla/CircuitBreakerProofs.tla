------------------------ MODULE CircuitBreakerProofs ------------------------
(* Theorems about CircuitBreaker for every set of callers, finite or not,  *)
(* and every threshold: the TLC run checks them on a small instance.       *)
EXTENDS CircuitBreaker, FiniteSetTheorems, TLAPS

(* What holds of the breaker even for a caller that asks and never reports *)
(* (an admission leaks a slot, it does not make one).                      *)
SafeInv ==
  /\ TypeOK
  /\ ClosedBelowThreshold
  /\ IsFiniteSet(inflight)
  /\ state # "half-open" => successes = 0 /\ trial = {}
  /\ Cardinality(trial) <= halfOpenRequests + 1

(* The counters tell of a half-open period how many calls it let through.  *)
(* Each is still running or, since a failure ends the period, was counted  *)
(* as a success (successes of older calls only add to that).               *)
SlotsAccounted ==
  state = "half-open" => halfOpenRequests + 1 <= successes + Cardinality(inflight)

BreakerInv == SafeInv /\ SlotsAccounted
-----------------------------------------------------------------------------
(* What adding and removing one caller does to the two counted sets.       *)
LEMMA CountCallers ==
  ASSUME NEW S, NEW T, IsFiniteSet(S), T \subseteq S, NEW c
  PROVE  /\ IsFiniteSet(T)
         /\ Cardinality(S) \in Nat
         /\ Cardinality(T) \in Nat
         /\ IsFiniteSet(S \cup {c})
         /\ c \notin S => Cardinality(S \cup {c}) = Cardinality(S) + 1
         /\ Cardinality(T \cup {c}) <= Cardinality(T) + 1
         /\ Cardinality({c}) = 1
         /\ IsFiniteSet(S \ {c})
         /\ c \in S => Cardinality(S \ {c}) = Cardinality(S) - 1
         /\ Cardinality(T \ {c}) <= Cardinality(T)
<1>1. IsFiniteSet(T)
  BY FS_Subset
<1>2. Cardinality(S) \in Nat /\ Cardinality(T) \in Nat
  BY <1>1, FS_CardinalityType
<1>3. /\ IsFiniteSet(S \cup {c})
      /\ c \notin S => Cardinality(S \cup {c}) = Cardinality(S) + 1
  BY FS_AddElement
<1>4. Cardinality(T \cup {c}) <= Cardinality(T) + 1
  <2>1. CASE c \in T
    <3>1. T \cup {c} = T
      BY <2>1
    <3>2. QED
      BY <1>2, <3>1
  <2>2. CASE c \notin T
    <3>1. Cardinality(T \cup {c}) = Cardinality(T) + 1
      BY <1>1, <2>2, FS_AddElement
    <3>2. QED
      BY <1>2, <3>1
  <2>3. QED
    BY <2>1, <2>2
<1>5. Cardinality({c}) = 1
  BY FS_Singleton
<1>6. /\ IsFiniteSet(S \ {c})
      /\ c \in S => Cardinality(S \ {c}) = Cardinality(S) - 1
  BY FS_RemoveElement
<1>7. Cardinality(T \ {c}) <= Cardinality(T)
  <2>1. CASE c \notin T
    <3>1. T \ {c} = T
      BY <2>1
    <3>2. QED
      BY <1>2, <3>1
  <2>2. CASE c \in T
    <3>1. Cardinality(T \ {c}) = Cardinality(T) - 1
      BY <1>1, <2>2, FS_RemoveElement
    <3>2. QED
      BY <1>2, <3>1
  <2>3. QED
    BY <2>1, <2>2
<1>8. QED
  BY <1>1, <1>2, <1>3, <1>4, <1>5, <1>6, <1>7

(* What a step leaves of two sets of which it takes one caller out, or puts *)
(* one in, as SafeInv counts them.                                         *)
LEMMA SafeCounts ==
  ASSUME SafeInv
  PROVE  /\ IsFiniteSet(inflight)
         /\ IsFiniteSet(trial)
         /\ Cardinality(inflight) \in Nat
         /\ Cardinality(trial) \in Nat
         /\ Cardinality({}) = 0
BY CountCallers, FS_EmptySet DEF SafeInv, TypeOK

(* The invariants hold initially.                                          *)
LEMMA BreakerInvInit == BreakerInit => BreakerInv
BY ThresholdAssumption, FS_EmptySet
   DEF BreakerInit, BreakerInv, SafeInv, TypeOK, ClosedBelowThreshold,
       SlotsAccounted, States, Expired

(* Letting one more caller in keeps them: it takes the slot it is counted in. *)
LEMMA AdmitKeepsSafe ==
  ASSUME SafeInv, NEW c \in Callers, Admit(c)
  PROVE  SafeInv'
<1> USE ThresholdAssumption DEF SafeInv, TypeOK, ClosedBelowThreshold,
        States, Expired, counters, Admit
<1>0. /\ IsFiniteSet(inflight')
      /\ Cardinality(trial) \in Nat
      /\ Cardinality(trial \cup {c}) <= Cardinality(trial) + 1
      /\ Cardinality(trial \cup {c}) \in Nat
      /\ Cardinality({c}) = 1
  <2>1. IsFiniteSet(trial \cup {c})
    BY CountCallers, FS_AddElement
  <2>2. QED
    BY <2>1, CountCallers, FS_CardinalityType
<1>1. CASE AllowClosed /\ UNCHANGED trial
  BY <1>0, <1>1 DEF AllowClosed
<1>2. CASE AllowProbe /\ trial' = {c}
  BY <1>0, <1>2 DEF AllowProbe
<1>3. CASE AllowTrial /\ trial' = trial \cup {c}
  <2>1. state' = "half-open" /\ TypeOK' /\ ClosedBelowThreshold'
    BY <1>3 DEF AllowTrial
  <2>2. Cardinality(trial') <= halfOpenRequests' + 1
    BY <1>0, <1>3 DEF AllowTrial
  <2>3. QED
    BY <1>0, <2>1, <2>2
<1>4. QED
  BY <1>1, <1>2, <1>3

LEMMA AdmitKeepsSlots ==
  ASSUME BreakerInv, NEW c \in Callers, Admit(c)
  PROVE  SlotsAccounted'
<1> USE ThresholdAssumption
    DEF BreakerInv, SafeInv, TypeOK, SlotsAccounted, States, counters, Admit
<1>1. /\ Cardinality(inflight) \in Nat
      /\ Cardinality(inflight') = Cardinality(inflight) + 1
  BY CountCallers
<1>2. CASE AllowClosed
  BY <1>2 DEF AllowClosed
<1>3. CASE AllowProbe
  BY <1>1, <1>3 DEF AllowProbe
<1>4. CASE AllowTrial
  BY <1>1, <1>4 DEF AllowTrial
<1>5. QED
  BY <1>2, <1>3, <1>4

(* Reporting an outcome keeps them: a success moves one call from those    *)
(* running to those counted, a failure ends the half-open period.          *)
LEMMA SucceedKeepsSafe ==
  ASSUME SafeInv, NEW c \in Callers, Succeed(c)
  PROVE  SafeInv'
<1> USE ThresholdAssumption DEF SafeInv, TypeOK, ClosedBelowThreshold,
        States, Expired, counters, Succeed, Leave
<1>0. /\ IsFiniteSet(inflight')
      /\ Cardinality(trial) \in Nat
      /\ Cardinality(trial \ {c}) <= Cardinality(trial)
      /\ Cardinality(trial \ {c}) \in Nat
      /\ Cardinality({}) = 0
  <2>1. IsFiniteSet(trial \ {c})
    BY CountCallers, FS_RemoveElement
  <2>2. QED
    BY <2>1, CountCallers, FS_CardinalityType, FS_EmptySet
<1>1. CASE state = "closed"
  BY <1>0, <1>1 DEF RecordSuccess
<1>2. CASE state = "open"
  BY <1>0, <1>2 DEF RecordSuccess
<1>3. CASE state = "half-open" /\ successes + 1 < SuccessThreshold
  <2>1. /\ successes' = successes + 1
        /\ UNCHANGED <<state, failures, halfOpenRequests, age>>
        /\ trial' = trial \ {c}
    BY <1>3 DEF RecordSuccess
  <2>2. TypeOK' /\ ClosedBelowThreshold'
    BY <1>3, <2>1
  <2>3. QED
    BY <1>0, <1>3, <2>1, <2>2
<1>4. CASE state = "half-open" /\ successes + 1 >= SuccessThreshold
  BY <1>0, <1>4 DEF RecordSuccess
<1>5. QED
  BY <1>1, <1>2, <1>3, <1>4

LEMMA SucceedKeepsSlots ==
  ASSUME BreakerInv, NEW c \in Callers, Succeed(c)
  PROVE  SlotsAccounted'
<1> USE ThresholdAssumption
    DEF BreakerInv, SafeInv, TypeOK, SlotsAccounted, States, counters, Succeed,
        Leave, RecordSuccess
<1>1. /\ Cardinality(inflight) \in Nat
      /\ Cardinality(inflight') = Cardinality(inflight) - 1
  BY CountCallers
<1>2. CASE state # "half-open"
  BY <1>2
<1>3. CASE state = "half-open"
  BY <1>1, <1>3
<1>4. QED
  BY <1>2, <1>3

LEMMA FailKeepsInv ==
  ASSUME SafeInv, NEW c \in Callers, Fail(c)
  PROVE  SafeInv' /\ SlotsAccounted'
<1> USE ThresholdAssumption DEF SafeInv, TypeOK, ClosedBelowThreshold,
        SlotsAccounted, States, Expired, Fail, Leave, RecordFailure
<1>0. /\ IsFiniteSet(inflight')
      /\ state' # "half-open"
      /\ Cardinality(trial') = 0
  BY CountCallers, FS_EmptySet
<1>1. CASE state = "closed"
  BY <1>0, <1>1
<1>2. CASE state = "half-open"
  BY <1>0, <1>2
<1>3. CASE state = "open"
  BY <1>0, <1>3
<1>4. QED
  BY <1>1, <1>2, <1>3

LEMMA TickKeepsInv ==
  ASSUME SafeInv, Tick
  PROVE  SafeInv' /\ (SlotsAccounted => SlotsAccounted')
BY ThresholdAssumption
   DEF Tick, SafeInv, TypeOK, ClosedBelowThreshold, SlotsAccounted, Expired

LEMMA BreakerInvStep == BreakerInv /\ [BreakerNext]_breakerVars => BreakerInv'
<1> SUFFICES ASSUME BreakerInv, [BreakerNext]_breakerVars
             PROVE  BreakerInv'
  OBVIOUS
<1> SafeInv
  BY DEF BreakerInv
<1>1. ASSUME NEW c \in Callers, Admit(c)
      PROVE  BreakerInv'
  BY <1>1, AdmitKeepsSafe, AdmitKeepsSlots DEF BreakerInv
<1>2. ASSUME NEW c \in Callers, Succeed(c)
      PROVE  BreakerInv'
  BY <1>2, SucceedKeepsSafe, SucceedKeepsSlots DEF BreakerInv
<1>3. ASSUME NEW c \in Callers, Fail(c)
      PROVE  BreakerInv'
  BY <1>3, FailKeepsInv DEF BreakerInv
<1>4. CASE Tick
  BY <1>4, TickKeepsInv DEF BreakerInv
<1>5. CASE UNCHANGED breakerVars
  BY <1>5 DEF breakerVars, BreakerInv, SafeInv, TypeOK, ClosedBelowThreshold,
              SlotsAccounted
<1>6. QED
  BY <1>1, <1>2, <1>3, <1>4, <1>5 DEF BreakerNext

LEMMA SafeIsBounded == SafeInv => TrialLoadBounded
BY SafeCounts, ThresholdAssumption DEF SafeInv, TypeOK, TrialLoadBounded

THEOREM BreakerInvariance == BreakerSpec => []BreakerInv
BY BreakerInvInit, BreakerInvStep, PTL DEF BreakerSpec
-----------------------------------------------------------------------------
(* The breaker's variables always have their types: failures stops at its  *)
(* threshold although RecordFailure only increments it, and no half-open   *)
(* period hands out more than its slots.                                   *)
THEOREM BreakerTypeOK == BreakerSpec => []TypeOK
<1>1. BreakerInv => TypeOK
  BY DEF BreakerInv, SafeInv
<1>2. QED
  BY <1>1, BreakerInvariance, PTL

(* A closed breaker is always below its failure threshold.                 *)
THEOREM BreakerClosedBelowThreshold == BreakerSpec => []ClosedBelowThreshold
<1>1. BreakerInv => ClosedBelowThreshold
  BY DEF BreakerInv, SafeInv
<1>2. QED
  BY <1>1, BreakerInvariance, PTL

(* A half-open period never has more than MaxHalfOpenRequests + 1 of its   *)
(* calls running at once.                                                  *)
THEOREM BreakerTrialLoadBounded == BreakerSpec => []TrialLoadBounded
<1>1. BreakerInv => TrialLoadBounded
  BY SafeIsBounded DEF BreakerInv
<1>2. QED
  BY <1>1, BreakerInvariance, PTL

(* With as many successes asked for as calls let through, or fewer, a      *)
(* half-open breaker with no call running still has a slot to give.        *)
THEOREM BreakerNotWedged == BreakerSpec => []NotWedged
<1>1. BreakerInv => NotWedged
  <2> SUFFICES ASSUME BreakerInv, SuccessThreshold <= MaxHalfOpenRequests + 1,
                      state = "half-open", inflight = {}, Refuses
               PROVE  FALSE
    BY DEF NotWedged
  <2>1. Cardinality(inflight) = 0
    BY FS_EmptySet
  <2>2. halfOpenRequests + 1 <= successes /\ successes < SuccessThreshold
    BY <2>1, ThresholdAssumption DEF BreakerInv, SafeInv, TypeOK, SlotsAccounted
  <2>3. halfOpenRequests >= MaxHalfOpenRequests
    BY DEF Refuses
  <2>4. QED
    BY <2>2, <2>3, ThresholdAssumption DEF BreakerInv, SafeInv, TypeOK
<1>2. QED
  BY <1>1, BreakerInvariance, PTL
=============================================================================
