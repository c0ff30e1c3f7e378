------------------------ MODULE SlidingWindowProofs ------------------------
(* Theorems about SlidingWindow for any number of callers, any limit and   *)
(* any window.                                                             *)
EXTENDS SlidingWindow, SequenceTheorems, WellFoundedInduction, TLAPS

(* What is remembered is ordered by age, oldest first.                     *)
Ordered(s) == \A i, j \in 1 .. Len(s) : i <= j => s[j] <= s[i]

(* What is remembered is the end of the history, and everything before it  *)
(* has left the window.                                                    *)
Aligned(s, h) ==
  /\ Len(s) <= Len(h)
  /\ \A i \in 1 .. Len(h) :
       h[i] = IF i > Len(h) - Len(s) THEN s[i - (Len(h) - Len(s))] ELSE Window

WindowInv == TypeOK /\ Ordered(requests) /\ Aligned(requests, history)
-----------------------------------------------------------------------------
LEMMA LeastElement ==
  ASSUME NEW T, T \subseteq Nat, T # {}
  PROVE  \E x \in T : \A y \in T : x <= y
<1>1. PICK x \in T : \A y \in T : ~ (<<y, x>> \in OpToRel(<, Nat))
  BY WFMin, NatLessThanWellFounded
<1>2. ASSUME NEW y \in T
      PROVE  ~ (y < x)
  <2>1. <<y, x>> \in Nat \X Nat /\ <<y, x>>[1] = y /\ <<y, x>>[2] = x
    OBVIOUS
  <2>2. y < x => <<y, x>> \in OpToRel(<, Nat)
    BY <2>1, Zenon DEF OpToRel
  <2>3. QED
    BY <1>1, <2>2, Zenon
<1>3. QED
  BY <1>2

(* Pruning drops requests out of the window only, from the front.          *)
LEMMA FirstKeptEffect ==
  ASSUME TypeOK, Ordered(requests)
  PROVE  /\ FirstKept \in 1 .. Len(requests) + 1
         /\ FirstKept = 1 \/ FirstKept <= Len(requests)
         /\ \A j \in 1 .. (FirstKept - 1) : requests[j] = Window
         /\ (\E i \in 1 .. Len(requests) : Live(i)) => Live(FirstKept)
<1> USE WindowAssumption DEF Ages
<1>0. Len(requests) \in Nat /\ \A i \in 1 .. Len(requests) : requests[i] \in 0 .. Window
  BY DEF TypeOK
<1>1. CASE \E i \in 1 .. Len(requests) : Live(i)
  <2> DEFINE L == {i \in 1 .. Len(requests) : Live(i)}
  <2>0. L \subseteq Nat /\ L # {}
    BY <1>0, <1>1
  <2> HIDE DEF L
  <2>1. PICK k \in L : \A i \in L : k <= i
    BY <2>0, LeastElement
  <2>2. k \in 1 .. Len(requests) /\ IsFirstLive(k)
    BY <1>0, <2>1 DEF L, Live, IsFirstLive
  <2>3. /\ FirstKept \in 1 .. Len(requests)
        /\ IsFirstLive(FirstKept)
    BY <1>1, <2>2 DEF FirstKept
  <2>4. \A j \in 1 .. (FirstKept - 1) : requests[j] = Window
    BY <1>0, <2>3 DEF IsFirstLive, Live
  <2>5. QED
    BY <1>0, <2>3, <2>4 DEF IsFirstLive
<1>2. CASE ~ \E i \in 1 .. Len(requests) : Live(i)
  <2>1. FirstKept = 1
    BY <1>2 DEF FirstKept
  <2>2. QED
    BY <1>0, <1>2, <2>1
<1>3. QED
  BY <1>1, <1>2

LEMMA PrunedSeq ==
  ASSUME TypeOK, Ordered(requests)
  PROVE  /\ Pruned \in Seq(Ages)
         /\ Len(Pruned) = Len(requests) - FirstKept + 1
         /\ \A i \in 1 .. Len(Pruned) : Pruned[i] = requests[i + FirstKept - 1]
<1>1. /\ requests \in Seq(Ages)
      /\ FirstKept \in 1 .. Len(requests) + 1
      /\ Len(requests) \in Nat
  BY FirstKeptEffect DEF TypeOK
<1>2. QED
  BY <1>1, SubSeqProperties DEF Pruned

LEMMA PruningKeeps ==
  ASSUME WindowInv
  PROVE  /\ Pruned \in Seq(Ages)
         /\ Len(Pruned) <= Len(requests)
         /\ Ordered(Pruned)
         /\ Aligned(Pruned, history)
<1> USE WindowAssumption DEF Ages
<1>1. /\ TypeOK /\ Ordered(requests) /\ Aligned(requests, history)
      /\ Len(requests) \in Nat /\ Len(history) \in Nat
  BY DEF WindowInv, TypeOK
<1>2. /\ FirstKept \in 1 .. Len(requests) + 1
      /\ \A j \in 1 .. (FirstKept - 1) : requests[j] = Window
  BY <1>1, FirstKeptEffect
<1>3. /\ Pruned \in Seq(Ages)
      /\ Len(Pruned) = Len(requests) - FirstKept + 1
      /\ \A i \in 1 .. Len(Pruned) : Pruned[i] = requests[i + FirstKept - 1]
  BY <1>1, PrunedSeq
<1>4. Ordered(Pruned)
  <2> SUFFICES ASSUME NEW i \in 1 .. Len(Pruned), NEW j \in 1 .. Len(Pruned), i <= j
               PROVE  Pruned[j] <= Pruned[i]
    BY DEF Ordered
  <2> HIDE DEF Pruned
  <2>1. /\ i + FirstKept - 1 \in 1 .. Len(requests)
        /\ j + FirstKept - 1 \in 1 .. Len(requests)
        /\ i + FirstKept - 1 <= j + FirstKept - 1
    BY <1>1, <1>2, <1>3
  <2>2. requests[j + FirstKept - 1] <= requests[i + FirstKept - 1]
    BY <1>1, <2>1 DEF Ordered
  <2>3. QED
    BY <1>3, <2>2
<1>5. Aligned(Pruned, history)
  <2> HIDE DEF Pruned
  <2> DEFINE a == Len(history) - Len(requests)
             b == Len(history) - Len(Pruned)
  <2>1. a \in Nat /\ b \in Nat /\ b = a + FirstKept - 1 /\ Len(Pruned) <= Len(history)
    BY <1>1, <1>2, <1>3 DEF Aligned
  <2>2. \A i \in 1 .. Len(history) : history[i] = IF i > a THEN requests[i - a] ELSE Window
    BY <1>1 DEF Aligned
  <2> HIDE DEF a, b
  <2>3. ASSUME NEW i \in 1 .. Len(history), i > b
        PROVE  history[i] = Pruned[i - b]
    <3>1. i - b \in 1 .. Len(Pruned)
      BY <1>1, <1>3, <2>1, <2>3 DEF b
    <3>2. Pruned[i - b] = requests[i - a]
      BY <1>2, <1>3, <2>1, <3>1
    <3>3. QED
      BY <2>1, <2>2, <2>3, <3>2, <1>2
  <2>4. ASSUME NEW i \in 1 .. Len(history), ~ (i > b)
        PROVE  history[i] = Window
    <3>1. CASE i > a
      <4>1. i - a \in 1 .. (FirstKept - 1)
        BY <1>2, <2>1, <2>4, <3>1
      <4>2. QED
        BY <1>2, <2>2, <3>1, <4>1
    <3>2. QED
      BY <2>2, <3>1
  <2>5. QED
    BY <2>1, <2>3, <2>4 DEF Aligned, b
<1>6. QED
  BY <1>1, <1>2, <1>3, <1>4, <1>5

(* A request is remembered at the end of both.                             *)
LEMMA GrantKeeps ==
  ASSUME NEW s \in Seq(Ages), NEW h \in Seq(Ages), Ordered(s), Aligned(s, h),
         Len(s) < MaxReqs, Len(h) <= MaxReqs + 1
  PROVE  /\ Append(s, 0) \in Seq(Ages)
         /\ Len(Append(s, 0)) <= MaxReqs
         /\ Remember(Append(h, 0)) \in Seq(Ages)
         /\ Len(Remember(Append(h, 0))) <= MaxReqs + 1
         /\ Ordered(Append(s, 0))
         /\ Aligned(Append(s, 0), Remember(Append(h, 0)))
<1> USE WindowAssumption DEF Ages
<1> DEFINE t == Append(s, 0)
           g == Append(h, 0)
<1>1. /\ Len(s) \in Nat /\ t \in Seq(Ages) /\ Len(t) = Len(s) + 1
      /\ \A i \in 1 .. Len(s) : t[i] = s[i]
      /\ t[Len(s) + 1] = 0
  OBVIOUS
<1>2. /\ Len(h) \in Nat /\ g \in Seq(Ages) /\ Len(g) = Len(h) + 1
      /\ \A i \in 1 .. Len(h) : g[i] = h[i]
      /\ g[Len(h) + 1] = 0
  OBVIOUS
<1> HIDE DEF t, g
<1>3. Ordered(t)
  <2> SUFFICES ASSUME NEW i \in 1 .. Len(t), NEW j \in 1 .. Len(t), i <= j
               PROVE  t[j] <= t[i]
    BY DEF Ordered
  <2>1. CASE j = Len(s) + 1
    BY <1>1, <2>1
  <2>2. CASE j # Len(s) + 1
    <3>1. i \in 1 .. Len(s) /\ j \in 1 .. Len(s)
      BY <1>1, <2>2
    <3>2. QED
      BY <1>1, <3>1 DEF Ordered
  <2>3. QED
    BY <2>1, <2>2
<1>4. Len(t) \in Nat /\ Len(g) \in Nat /\ Len(h) \in Nat /\ Len(g) = Len(h) + 1
  BY <1>1, <1>2
<1>5. Aligned(t, g)
  <2>1. Len(s) <= Len(h) /\ Len(g) - Len(t) = Len(h) - Len(s)
    BY <1>1, <1>2 DEF Aligned
  <2>2. ASSUME NEW i \in 1 .. Len(g)
        PROVE  g[i] = IF i > Len(g) - Len(t) THEN t[i - (Len(g) - Len(t))] ELSE Window
    <3>1. CASE i = Len(h) + 1
      <4>1. i - (Len(g) - Len(t)) = Len(s) + 1 /\ i > Len(g) - Len(t)
        BY <1>1, <1>2, <2>1, <3>1
      <4>2. QED
        BY <1>1, <1>2, <3>1, <4>1
    <3>2. CASE i # Len(h) + 1
      <4>1. i \in 1 .. Len(h)
        BY <1>2, <3>2
      <4>2. h[i] = IF i > Len(h) - Len(s) THEN s[i - (Len(h) - Len(s))] ELSE Window
        BY <4>1 DEF Aligned
      <4>3. i > Len(h) - Len(s) => i - (Len(h) - Len(s)) \in 1 .. Len(s)
        BY <1>1, <1>2, <2>1, <4>1
      <4>4. QED
        BY <1>1, <1>2, <2>1, <4>1, <4>2, <4>3
    <3>3. QED
      BY <3>1, <3>2
  <2>3. QED
    BY <1>1, <1>2, <2>1, <2>2 DEF Aligned
<1>6. /\ Remember(g) \in Seq(Ages)
      /\ Len(Remember(g)) <= MaxReqs + 1
      /\ Aligned(t, Remember(g))
  <2>1. CASE Len(g) <= MaxReqs + 1
    <3>1. Remember(g) = g
      BY <1>4, <2>1 DEF Remember
    <3>2. QED
      BY <1>2, <1>5, <2>1, <3>1
  <2>2. CASE Len(g) > MaxReqs + 1
    <3>1. Remember(g) = Tail(g)
      BY <2>2 DEF Remember
    <3>2. /\ Tail(g) \in Seq(Ages) /\ Len(Tail(g)) = Len(h)
          /\ \A i \in 1 .. Len(h) : Tail(g)[i] = g[i + 1]
      BY <1>2
    <3>3. Len(t) <= Len(h)
      BY <1>1, <1>4, <2>2
    <3>4. ASSUME NEW i \in 1 .. Len(h)
          PROVE  Tail(g)[i] = IF i > Len(h) - Len(t) THEN t[i - (Len(h) - Len(t))] ELSE Window
      <4>1. /\ i + 1 \in 1 .. Len(g)
            /\ i + 1 > Len(g) - Len(t) <=> i > Len(h) - Len(t)
            /\ (i + 1) - (Len(g) - Len(t)) = i - (Len(h) - Len(t))
        BY <1>4
      <4>2. g[i + 1] = IF i + 1 > Len(g) - Len(t)
                       THEN t[(i + 1) - (Len(g) - Len(t))] ELSE Window
        BY <1>5, <4>1 DEF Aligned
      <4>3. QED
        BY <3>2, <4>1, <4>2
    <3>5. QED
      BY <3>1, <3>2, <3>3, <3>4 DEF Aligned
  <2>3. QED
    BY <1>4, <2>1, <2>2
<1>7. t \in Seq(Ages) /\ Len(t) <= MaxReqs
  BY <1>1
<1>8. QED
  BY <1>3, <1>6, <1>7 DEF t, g

(* Time takes all of them on together.                                     *)
LEMMA OlderKeeps ==
  ASSUME NEW s \in Seq(Ages), NEW h \in Seq(Ages), Ordered(s), Aligned(s, h)
  PROVE  /\ Older(s) \in Seq(Ages) /\ Len(Older(s)) = Len(s)
         /\ Older(h) \in Seq(Ages) /\ Len(Older(h)) = Len(h)
         /\ Ordered(Older(s))
         /\ Aligned(Older(s), Older(h))
<1> USE WindowAssumption DEF Ages
<1>1. ASSUME NEW z \in Seq(Ages)
      PROVE  /\ Older(z) \in Seq(Ages) /\ Len(Older(z)) = Len(z) /\ Len(z) \in Nat
             /\ \A i \in 1 .. Len(z) :
                  /\ z[i] \in 0 .. Window
                  /\ Older(z)[i] = IF z[i] < Window THEN z[i] + 1 ELSE Window
  BY DEF Older
<1> HIDE DEF Older
<1>2. Ordered(Older(s))
  <2> SUFFICES ASSUME NEW i \in 1 .. Len(s), NEW j \in 1 .. Len(s), i <= j
               PROVE  Older(s)[j] <= Older(s)[i]
    BY <1>1 DEF Ordered
  <2>1. s[j] <= s[i]
    BY DEF Ordered
  <2>2. /\ s[i] \in 0 .. Window /\ Older(s)[i] = IF s[i] < Window THEN s[i] + 1 ELSE Window
        /\ s[j] \in 0 .. Window /\ Older(s)[j] = IF s[j] < Window THEN s[j] + 1 ELSE Window
    BY <1>1
  <2>3. QED
    BY <2>1, <2>2
<1>3. Aligned(Older(s), Older(h))
  <2>1. /\ Len(Older(s)) = Len(s) /\ Len(Older(h)) = Len(h)
        /\ Len(s) \in Nat /\ Len(h) \in Nat
    BY <1>1
  <2>2. ASSUME NEW i \in 1 .. Len(h)
        PROVE  Older(h)[i] = IF i > Len(h) - Len(s)
                             THEN Older(s)[i - (Len(h) - Len(s))] ELSE Window
    <3>1. /\ Len(s) <= Len(h)
          /\ h[i] = IF i > Len(h) - Len(s) THEN s[i - (Len(h) - Len(s))] ELSE Window
      BY DEF Aligned
    <3>2. Older(h)[i] = IF h[i] < Window THEN h[i] + 1 ELSE Window
      BY <1>1
    <3>3. CASE i > Len(h) - Len(s)
      <4>1. i - (Len(h) - Len(s)) \in 1 .. Len(s)
        BY <2>1, <3>1, <3>3
      <4>2. QED
        BY <1>1, <3>1, <3>2, <3>3, <4>1
    <3>4. CASE ~ (i > Len(h) - Len(s))
      BY <3>1, <3>2, <3>4
    <3>5. QED
      BY <3>3, <3>4
  <2>3. QED
    BY <2>1, <2>2, <1>1 DEF Aligned
<1>4. QED
  BY <1>1, <1>2, <1>3
-----------------------------------------------------------------------------
LEMMA WindowInvInit == Init => WindowInv
BY WindowAssumption DEF Init, WindowInv, TypeOK, Ordered, Aligned, Ages

LEMMA WindowInvStep == WindowInv /\ [Next]_vars => WindowInv'
<1> SUFFICES ASSUME WindowInv, [Next]_vars
             PROVE  WindowInv'
  OBVIOUS
<1>1. ASSUME NEW c \in Callers, Call(c) \/ Deadline(c)
      PROVE  WindowInv'
  BY <1>1 DEF Call, Deadline, WindowInv, TypeOK, Ordered, Aligned
<1>2. ASSUME NEW c \in Callers, Grant(c)
      PROVE  WindowInv'
  <2>1. /\ Pruned \in Seq(Ages) /\ Ordered(Pruned) /\ Aligned(Pruned, history)
        /\ Len(Pruned) < MaxReqs
    BY <1>2, PruningKeeps, WindowAssumption DEF Grant, Refusing, WindowInv, TypeOK
  <2>2. /\ requests' \in Seq(Ages) /\ Len(requests') <= MaxReqs
        /\ history' \in Seq(Ages) /\ Len(history') <= MaxReqs + 1
        /\ Ordered(requests') /\ Aligned(requests', history')
    BY <1>2, <2>1, GrantKeeps DEF Grant, WindowInv, TypeOK
  <2>3. waiting' \subseteq Callers /\ late' \subseteq waiting'
    BY <1>2 DEF Grant, WindowInv, TypeOK
  <2>4. QED
    BY <2>2, <2>3 DEF WindowInv, TypeOK, Ordered, Aligned, Ages
<1>3. ASSUME NEW c \in Callers, Refuse(c) \/ GiveUp(c)
      PROVE  WindowInv'
  <2>1. /\ requests' = Pruned /\ history' = history
        /\ Pruned \in Seq(Ages) /\ Ordered(Pruned) /\ Aligned(Pruned, history)
        /\ Len(Pruned) <= Len(requests)
    BY <1>3, PruningKeeps DEF Refuse, GiveUp
  <2>2. Len(requests) \in Nat /\ Len(Pruned) \in Nat /\ Len(Pruned) <= MaxReqs
    BY <2>1, WindowAssumption DEF WindowInv, TypeOK
  <2>3. waiting' \subseteq Callers /\ late' \subseteq waiting'
    BY <1>3 DEF Refuse, GiveUp, WindowInv, TypeOK
  <2> HIDE DEF Pruned
  <2>4. QED
    BY <2>1, <2>2, <2>3 DEF WindowInv, TypeOK, Ordered, Aligned, Ages
<1>4. CASE Reset
  BY <1>4, WindowAssumption DEF Reset, WindowInv, TypeOK, Ordered, Aligned, Ages
<1>5. CASE Tick
  <2>1. /\ requests' = Older(requests) /\ history' = Older(history)
        /\ Older(requests) \in Seq(Ages) /\ Len(Older(requests)) = Len(requests)
        /\ Older(history) \in Seq(Ages) /\ Len(Older(history)) = Len(history)
        /\ Ordered(Older(requests)) /\ Aligned(Older(requests), Older(history))
    BY <1>5, OlderKeeps DEF Tick, WindowInv, TypeOK
  <2> HIDE DEF Older
  <2>2. QED
    BY <1>5, <2>1 DEF Tick, WindowInv, TypeOK, Ordered, Aligned, Ages
<1>6. CASE UNCHANGED vars
  BY <1>6 DEF vars, WindowInv, TypeOK, Ordered, Aligned
<1>7. QED
  BY <1>1, <1>2, <1>3, <1>4, <1>5, <1>6 DEF Next

THEOREM WindowInvariance == Spec => []WindowInv
BY WindowInvInit, WindowInvStep, PTL DEF Spec
-----------------------------------------------------------------------------
(* The limiter never remembers more than MaxReqs requests.                 *)
THEOREM WindowTypeOK == Spec => []TypeOK
<1>1. WindowInv => TypeOK
  BY DEF WindowInv
<1>2. QED
  BY <1>1, WindowInvariance, PTL

(* Of MaxReqs + 1 requests let through in a row the first is out of the    *)
(* window: the limit holds in every window.                                *)
THEOREM WindowRateBounded == Spec => []RateBounded
<1>1. WindowInv => RateBounded
  <2> SUFFICES ASSUME WindowInv, Len(history) = MaxReqs + 1
               PROVE  history[1] = Window
    BY DEF RateBounded
  <2>1. Len(requests) \in Nat /\ Len(requests) <= MaxReqs
    BY DEF WindowInv, TypeOK
  <2>2. QED
    BY <2>1, WindowAssumption DEF WindowInv, Aligned
<1>2. QED
  BY <1>1, WindowInvariance, PTL

(* With a request in the window, only MaxReqs of them justify a refusal.   *)
THEOREM WindowRefusalJustified == Spec => []RefusalJustified
<1>1. WindowInv => RefusalJustified
  <2> SUFFICES ASSUME WindowInv, Refusing,
                      NEW i \in 1 .. Len(history), history[i] < Window
               PROVE  Len(history) >= MaxReqs /\ history[Len(history) - MaxReqs + 1] < Window
    BY DEF RefusalJustified
  <2> USE WindowAssumption
  <2>1. /\ TypeOK /\ Ordered(requests) /\ Aligned(requests, history)
        /\ Len(requests) \in Nat /\ Len(requests) <= MaxReqs /\ Len(history) \in Nat
    BY DEF WindowInv, TypeOK
  <2>2. FirstKept = 1 /\ Len(requests) = MaxReqs
    BY <2>1, FirstKeptEffect, PrunedSeq DEF Refusing
  <2>3. i - (Len(history) - Len(requests)) \in 1 .. Len(requests)
        /\ requests[i - (Len(history) - Len(requests))] < Window
    BY <2>1 DEF Aligned
  <2>4. Live(i - (Len(history) - Len(requests)))
    BY <2>3 DEF Live
  <2>5. requests[1] < Window
    BY <2>1, <2>2, <2>3, <2>4, FirstKeptEffect DEF Live
  <2>6. QED
    BY <2>1, <2>2, <2>5 DEF Aligned
<1>2. QED
  BY <1>1, WindowInvariance, PTL
-----------------------------------------------------------------------------
(* The window is full and has expired as a whole.                          *)
Blocked ==
  /\ Len(requests) = MaxReqs
  /\ \A i \in 1 .. Len(requests) : requests[i] = Window

LEMMA BlockedRefuses ==
  ASSUME WindowInv, Blocked
  PROVE  Refusing /\ Pruned = requests
<1> USE WindowAssumption
<1>1. requests \in Seq(Ages) /\ Len(requests) \in Nat /\ TypeOK /\ Ordered(requests)
  BY DEF WindowInv, TypeOK
<1>2. FirstKept = 1
  BY <1>1 DEF FirstKept, Live, Blocked
<1>3. /\ Pruned \in Seq(Ages)
      /\ Len(Pruned) = Len(requests)
      /\ \A i \in 1 .. Len(Pruned) : Pruned[i] = requests[i]
  BY <1>1, <1>2, PrunedSeq
<1> HIDE DEF Pruned
<1>4. Pruned = requests
  BY <1>1, <1>3, SeqEqual
<1>5. QED
  BY <1>3, <1>4 DEF Refusing, Blocked

(* A window that expires as a whole before anyone asks is never dropped:   *)
(* the limiter refuses every caller from then on, however long they wait,  *)
(* and only a Reset helps.                                                 *)
THEOREM WindowBlockedForGood ==
  Spec => [][Blocked => Refusing /\ (Blocked' \/ Reset)]_vars
<1>1. ASSUME WindowInv, Next, Blocked
      PROVE  Refusing /\ (Blocked' \/ Reset)
  <2> USE WindowAssumption
  <2>1. Refusing /\ Pruned = requests
    BY <1>1, BlockedRefuses
  <2>2. ASSUME NEW c \in Callers, Call(c) \/ Deadline(c)
        PROVE  Blocked'
    BY <1>1, <2>2 DEF Call, Deadline, Blocked
  <2>3. ASSUME NEW c \in Callers, Refuse(c) \/ GiveUp(c)
        PROVE  Blocked'
    BY <1>1, <2>1, <2>3 DEF Refuse, GiveUp, Blocked
  <2>4. ASSUME NEW c \in Callers, Grant(c)
        PROVE  FALSE
    BY <2>1, <2>4 DEF Grant
  <2>5. CASE Tick
    <3>1. requests' = Older(requests) /\ Len(requests) \in Nat
      BY <1>1, <2>5 DEF Tick, WindowInv, TypeOK
    <3>2. Len(Older(requests)) = Len(requests)
      BY <1>1, OlderKeeps DEF WindowInv, TypeOK
    <3>3. \A i \in 1 .. Len(requests) : Older(requests)[i] = Window
      BY <1>1, <3>1 DEF Older, Blocked
    <3> HIDE DEF Older
    <3>4. Blocked'
      BY <1>1, <3>1, <3>2, <3>3 DEF Blocked
    <3>5. QED
      BY <2>1, <3>4
  <2>6. QED
    BY <1>1, <2>1, <2>2, <2>3, <2>4, <2>5 DEF Next
<1>2. QED
  BY <1>1, WindowInvariance, PTL DEF Spec
=============================================================================
