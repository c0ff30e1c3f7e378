--------------------------- MODULE SlidingWindow ---------------------------
(***************************************************************************)
(* internal/provider/rate_limiter.go: SlidingWindowLimiter, the limiter of *)
(* every provider client, with the goroutines that are in its Wait.  Allow *)
(* runs under the mutex, so one round of Wait's loop is one atomic step.   *)
(*                                                                         *)
(* Time is discrete, and a time.Time is its age, stopped at Window, where  *)
(* it is out of the window.                                                *)
(***************************************************************************)
EXTENDS Naturals, Sequences

CONSTANTS Callers, MaxReqs, Window

ASSUME WindowAssumption == MaxReqs \in Nat \ {0} /\ Window \in Nat \ {0}

VARIABLES
  requests,  \* ages of the requests the limiter remembers, oldest first
  waiting,   \* callers in Wait
  late,      \* those of them whose context is done
  history    \* ages of the last MaxReqs + 1 requests let through (history)

vars == <<requests, waiting, late, history>>

Ages == 0 .. Window

TypeOK ==
  /\ requests \in Seq(Ages)
  /\ Len(requests) <= MaxReqs
  /\ waiting \subseteq Callers
  /\ late \subseteq waiting
  /\ history \in Seq(Ages)
  /\ Len(history) <= MaxReqs + 1

Init ==
  /\ requests = << >>
  /\ waiting = {}
  /\ late = {}
  /\ history = << >>
-----------------------------------------------------------------------------
Live(i) == i \in 1 .. Len(requests) /\ requests[i] < Window
IsFirstLive(i) == Live(i) /\ \A j \in 1 .. (i - 1) : ~ Live(j)

Slip_FirstLiveDropped ==
  IF \E i \in 1 .. Len(requests) : Live(i)
  THEN 1 + CHOOSE i \in 1 .. Len(requests) : IsFirstLive(i)
  ELSE 1

Slip_NothingDropped == 1

\* validIdx, which stays at the start of the slice when no request is live.
FirstKept ==
  IF \E i \in 1 .. Len(requests) : Live(i)
  THEN CHOOSE i \in 1 .. Len(requests) : IsFirstLive(i)
  ELSE 1

Pruned == SubSeq(requests, FirstKept, Len(requests))

Refusing == Len(Pruned) >= MaxReqs

\* The history keeps one request more than a window may hold.
Remember(s) == IF Len(s) > MaxReqs + 1 THEN Tail(s) ELSE s
-----------------------------------------------------------------------------
Call(c) ==
  /\ c \notin waiting
  /\ waiting' = waiting \cup {c}
  /\ UNCHANGED <<requests, late, history>>

Slip_OneOverLimit(c) ==
  /\ c \in waiting
  /\ Len(Pruned) <= MaxReqs
  /\ requests' = Append(Pruned, 0)
  /\ history' = Remember(Append(history, 0))
  /\ waiting' = waiting \ {c}
  /\ late' = late \ {c}

Grant(c) ==
  /\ c \in waiting
  /\ ~ Refusing
  /\ requests' = Append(Pruned, 0)
  /\ history' = Remember(Append(history, 0))
  /\ waiting' = waiting \ {c}
  /\ late' = late \ {c}

\* Refused, and 100 ms later it asks again.
Refuse(c) ==
  /\ c \in waiting
  /\ Refusing
  /\ requests' = Pruned
  /\ UNCHANGED <<waiting, late, history>>

Slip_ContextIgnored(c) == FALSE

\* Refused, and the context is done.
GiveUp(c) ==
  /\ c \in late
  /\ Refusing
  /\ requests' = Pruned
  /\ waiting' = waiting \ {c}
  /\ late' = late \ {c}
  /\ UNCHANGED history

Deadline(c) ==
  /\ c \in waiting \ late
  /\ late' = late \cup {c}
  /\ UNCHANGED <<requests, waiting, history>>

\* What was let through before a Reset does not count against what comes after.
Reset ==
  /\ requests' = << >>
  /\ history' = << >>
  /\ UNCHANGED <<waiting, late>>

Older(s) == [i \in 1 .. Len(s) |-> IF s[i] < Window THEN s[i] + 1 ELSE Window]

Tick ==
  /\ requests' = Older(requests)
  /\ history' = Older(history)
  /\ UNCHANGED <<waiting, late>>
-----------------------------------------------------------------------------
Next ==
  \/ \E c \in Callers : Call(c) \/ Grant(c) \/ Refuse(c) \/ GiveUp(c) \/ Deadline(c)
  \/ Reset
  \/ Tick

Spec == Init /\ [][Next]_vars

\* Time passes, whoever waits asks again, contexts have deadlines, and requests
\* keep coming.
Fairness ==
  /\ WF_vars(Tick)
  /\ \A c \in Callers :
       /\ WF_vars(Grant(c) \/ GiveUp(c))
       /\ WF_vars(Refuse(c))
       /\ WF_vars(Deadline(c))
       /\ WF_vars(Call(c))

FairSpec == Spec /\ Fairness
-----------------------------------------------------------------------------
(* The limit holds for every window, not only for those that begin with    *)
(* the first request: of MaxReqs + 1 requests in a row the first is out of *)
(* the window, however prunings and grants alternate.                      *)
RateBounded == Len(history) = MaxReqs + 1 => history[1] = Window

(* While any request is in the window, the limiter refuses only if MaxReqs *)
(* of them are: requests that left the window do not count.                *)
RefusalJustified ==
  Refusing /\ (\E i \in 1 .. Len(history) : history[i] < Window) =>
    Len(history) >= MaxReqs /\ history[Len(history) - MaxReqs + 1] < Window

(* Wait returns, let through or with its context's error.                  *)
WaitersLeave == \A c \in Callers : c \in waiting ~> c \notin waiting

(* A limiter that refuses lets through again once the window has passed    *)
(* ("Queue drains after spike"): not so when it expires as a whole before  *)
(* anyone asks.                                                            *)
WindowReopens == Refusing ~> ~ Refusing
=============================================================================
