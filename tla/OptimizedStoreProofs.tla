------------------------ MODULE OptimizedStoreProofs ------------------------
(* Theorems about OptimizedStore for any graph, queries, readers, writers, *)
(* limits and clock, whatever the queue and its workers do.                *)
EXTENDS OptimizedStore, IterationLemmas, TLAPS

(* An answer on its way to the cache is no older than Patience, and suits. *)
OnTheWay ==
  \A r \in Readers : reader[r].at = "fill" =>
    /\ now <= reader[r].readAt + Patience
    /\ Suits(reader[r].value, reader[r].query)

(* What is stored under a query suits it, and expires in time.             *)
Stored ==
  \A q \in DOMAIN cache :
    /\ cache[q].expiry <= cache[q].readAt + Patience + TTL
    /\ Suits(cache[q].value, q)

(* A submitter that writes a batch itself has not returned from it.        *)
WritingIsHanded == \A s \in Submitters : writing[s] # << >> => plan[s] # << >>

(* A worker that flushes has something to write.                           *)
FlushHasItems == \A k \in Kinds : Flushing(k) => buffer[k] # << >>

BatchInv == BatchTypeOK /\ WritingIsHanded /\ FlushHasItems

StoreInv ==
  /\ StoreTypeOK
  /\ WritingIsHanded
  /\ FlushHasItems
  /\ OnTheWay
  /\ Stored
  /\ StalenessBounded
  /\ AnswersTheQuestion
  /\ TierBounded

-----------------------------------------------------------------------------
LEMMA Sizes ==
  /\ Limit \in Nat /\ Patience \in Nat /\ MaxTokens \in Nat
  /\ TTL \in Nat /\ RefillEvery \in Nat /\ RefillEvery > 0
BY StoreAssumption

(* Whole intervals of two stretches of time are whole intervals of both.   *)
LEMMA WholeIntervals ==
  ASSUME NEW n \in Nat, NEW a \in Nat, NEW b \in Nat, n > 0
  PROVE  /\ a \div n \in Nat
         /\ a \div n + b \div n <= (a + b) \div n
<1>1. a \div n \in Nat /\ b \div n \in Nat /\ (a + b) \div n \in Nat
  OBVIOUS
<1> DEFINE x == a \div n
           y == b \div n
           z == (a + b) \div n
<1>2. x * n <= a /\ y * n <= b /\ a + b < (z + 1) * n
  BY Z3
<1>3. x \in Nat /\ y \in Nat /\ z \in Nat
  BY <1>1
<1> HIDE DEF x, y, z
<1>4. (x + y) * n < (z + 1) * n
  BY <1>2, <1>3, Z3
<1>5. x + y < z + 1
  BY <1>3, <1>4, Z3
<1>6. x + y <= z
  BY <1>3, <1>5
<1>7. QED
  BY <1>1, <1>6 DEF x, y, z
-----------------------------------------------------------------------------
(* What a submitter hands over, and what can be written.                   *)
LEMMA Handed ==
  /\ Ends \in [Relations -> Nodes \X Nodes]
  /\ Nodes \cap Relations = {}
  /\ Graphs \subseteq SUBSET (Nodes \cup Relations)
  /\ Plans \subseteq [Submitters -> Seq(Batch)]
BY QueueAssumption

LEMMA SourcesAreNodes ==
  ASSUME NEW x \in Relations
  PROVE  Source(x) \in Nodes /\ Target(x) \in Nodes
<1>1. Ends[x] \in Nodes \X Nodes
  BY Handed
<1>2. QED
  BY <1>1 DEF Source, Target

LEMMA BatchStart == BatchInit => BatchInv
<1> SUFFICES ASSUME BatchInit
             PROVE  BatchInv
  OBVIOUS
<1>1. plan \in [Submitters -> Seq(Batch)] /\ graph \in SUBSET (Nodes \cup Relations)
  BY Handed DEF BatchInit
<1>2. /\ \A k \in Kinds : buffer[k] = << >> /\ worker[k] = "off"
      /\ \A s \in Submitters : writing[s] = << >>
  BY DEF BatchInit
<1>3. BatchTypeOK
  <2>1. /\ queue \in [Kinds -> Seq(Seq(Nodes \cup Relations))]
        /\ buffer \in [Kinds -> Seq(Nodes \cup Relations)]
        /\ entered \in [Kinds -> Seq(Nodes \cup Relations)]
        /\ handled \in [Kinds -> Seq(Nodes \cup Relations)]
        /\ writing \in [Submitters -> Seq(Nodes \cup Relations)]
    BY EmptySeq DEF BatchInit
  <2>2. QED
    BY <1>1, <2>1 DEF BatchInit, BatchTypeOK
<1>4. WritingIsHanded /\ FlushHasItems
  BY <1>2 DEF WritingIsHanded, FlushHasItems, Flushing
<1>5. QED
  BY <1>3, <1>4 DEF BatchInv

LEMMA OfType ==
  ASSUME NEW S, NEW s \in Seq(S)
  PROVE  Of(s) \subseteq S
<1>1. \A i \in 1 .. Len(s) : s[i] \in S
  BY ElementOfSeq
<1>2. DOMAIN s = 1 .. Len(s)
  BY LenProperties
<1>3. QED
  BY <1>1, <1>2 DEF Of

LEMMA UpsertType ==
  ASSUME BatchTypeOK, NEW x \in Nodes \cup Relations, Upsert(x)
  PROVE  graph' \in SUBSET (Nodes \cup Relations)
BY DEF BatchTypeOK, Upsert

(* The items of the batch that a submitter is at.                          *)
LEMMA NextBatch ==
  ASSUME BatchTypeOK, NEW s \in Submitters, Ready(s)
  PROVE  /\ Next1(s).kind \in Kinds
         /\ Next1(s).items \in Seq(Nodes \cup Relations)
         /\ Tail(plan[s]) \in Seq(Batch)
<1>1. plan[s] \in Seq(Batch) /\ plan[s] # << >>
  BY DEF BatchTypeOK, Ready
<1>2. Head(plan[s]) \in Batch /\ Tail(plan[s]) \in Seq(Batch)
  BY <1>1
<1>3. QED
  BY <1>2 DEF Next1, Batch

LEMMA SubmitType ==
  ASSUME BatchInv, NEW s \in Submitters, Submit(s)
  PROVE  BatchTypeOK'
<1> USE DEF BatchInv
<1> DEFINE item == Nodes \cup Relations
<1>1. CASE SubmitNothing(s)
  <2>1. Tail(plan[s]) \in Seq(Batch)
    BY <1>1, NextBatch DEF SubmitNothing
  <2>2. QED
    BY <1>1, <2>1 DEF SubmitNothing, Returned, BatchTypeOK
<1>2. CASE Enqueue(s)
  <2> DEFINE b == Next1(s)
  <2>1. /\ Ready(s)
        /\ queue' = [queue EXCEPT ![b.kind] = Append(queue[b.kind], b.items)]
        /\ entered' = [entered EXCEPT ![b.kind] = entered[b.kind] \o b.items]
        /\ safe' = IF b.kind = "nodes" THEN safe
                   ELSE safe \cup {Len(entered[b.kind]) + i : i \in Attached(b.items)}
        /\ Returned(s)
        /\ UNCHANGED <<graph, buffer, worker, stopping, cancelled, writing, handled, dropped>>
    BY <1>2 DEF Enqueue
  <2>2. b.kind \in Kinds /\ b.items \in Seq(item) /\ Tail(plan[s]) \in Seq(Batch)
    BY <2>1, NextBatch
  <2> HIDE DEF b, item
  <2>3. queue \in [Kinds -> Seq(Seq(item))] /\ entered \in [Kinds -> Seq(item)]
    BY DEF BatchTypeOK, item
  <2>4. Append(queue[b.kind], b.items) \in Seq(Seq(item)) /\ entered[b.kind] \o b.items \in Seq(item)
    BY <2>2, <2>3
  <2>5. queue' \in [Kinds -> Seq(Seq(item))] /\ entered' \in [Kinds -> Seq(item)]
    BY <2>1, <2>3, <2>4
  <2>6. safe' \in SUBSET Nat
    <3>1. Attached(b.items) \subseteq Nat
      BY <2>2 DEF Attached
    <3>2. Len(entered[b.kind]) \in Nat
      BY <2>2, <2>3
    <3>3. \A i \in Attached(b.items) : Len(entered[b.kind]) + i \in Nat
      BY <3>1, <3>2
    <3>4. safe \in SUBSET Nat
      BY DEF BatchTypeOK
    <3>5. QED
      BY <2>1, <3>3, <3>4
  <2>7. plan' \in [Submitters -> Seq(Batch)]
    BY <2>1, <2>2 DEF Returned, BatchTypeOK
  <2>8. QED
    BY <2>1, <2>5, <2>6, <2>7 DEF BatchTypeOK, item
<1>3. CASE SubmitCancelled(s)
  <2>1. Tail(plan[s]) \in Seq(Batch)
    BY <1>3, NextBatch DEF SubmitCancelled
  <2>2. QED
    BY <1>3, <2>1 DEF SubmitCancelled, Returned, BatchTypeOK
<1>4. CASE WriteLarge(s)
  <2>1. Next1(s).items \in Seq(item)
    BY <1>4, NextBatch DEF WriteLarge
  <2>2. QED
    BY <1>4, <2>1 DEF WriteLarge, BatchTypeOK
<1>5. CASE WriteOwn(s) \/ WriteOwnFails(s)
  <2>1. writing[s] \in Seq(item) /\ writing[s] # << >>
    BY <1>5 DEF WriteOwn, WriteOwnFails, BatchTypeOK
  <2>2. /\ Head(writing[s]) \in item /\ Tail(writing[s]) \in Seq(item)
        /\ Of(writing[s]) \subseteq item
    BY <2>1, HeadTailProperties, OfType
  <2>3. Tail(plan[s]) \in Seq(Batch)
    <3>1. plan[s] \in Seq(Batch) /\ plan[s] # << >>
      BY <2>1 DEF BatchTypeOK, WritingIsHanded
    <3>2. QED
      BY <3>1, HeadTailProperties
  <2>4. plan' \in [Submitters -> Seq(Batch)]
    BY <1>5, <2>3 DEF WriteOwn, WriteOwnFails, Returned, BatchTypeOK
  <2>5. graph' \in SUBSET item
    BY <1>5, <2>2, UpsertType DEF WriteOwn, WriteOwnFails, BatchTypeOK
  <2>6. dropped' \in SUBSET item
    BY <1>5, <2>2 DEF WriteOwn, WriteOwnFails, BatchTypeOK
  <2>7. writing' \in [Submitters -> Seq(item)]
    <3>1. << >> \in Seq(item)
      BY EmptySeq
    <3>2. QED
      BY <1>5, <2>2, <3>1 DEF WriteOwn, WriteOwnFails, BatchTypeOK
  <2>8. UNCHANGED <<queue, buffer, worker, stopping, cancelled, entered, handled, safe>>
    BY <1>5 DEF WriteOwn, WriteOwnFails
  <2>9. QED
    BY <2>4, <2>5, <2>6, <2>7, <2>8 DEF BatchTypeOK
<1>6. QED
  BY <1>1, <1>2, <1>3, <1>4, <1>5 DEF Submit

LEMMA SubmitStep ==
  ASSUME BatchInv, NEW s \in Submitters, Submit(s)
  PROVE  BatchInv'
<1>1. BatchTypeOK'
  BY SubmitType
<1>2. WritingIsHanded'
  <2> SUFFICES ASSUME NEW t \in Submitters, writing'[t] # << >>
               PROVE  plan'[t] # << >>
    BY DEF WritingIsHanded
  <2>1. plan \in [Submitters -> Seq(Batch)] /\ writing \in [Submitters -> Seq(Nodes \cup Relations)]
    BY DEF BatchInv, BatchTypeOK
  <2>2. writing[t] # << >> => plan[t] # << >>
    BY DEF BatchInv, WritingIsHanded
  <2>3. CASE SubmitNothing(s) \/ Enqueue(s) \/ SubmitCancelled(s)
    BY <2>1, <2>2, <2>3 DEF SubmitNothing, Enqueue, SubmitCancelled, Returned, Ready
  <2>4. CASE WriteLarge(s)
    BY <2>1, <2>2, <2>4 DEF WriteLarge, Ready
  <2>5. CASE WriteOwn(s)
    BY <2>1, <2>2, <2>5 DEF WriteOwn, Returned
  <2>6. CASE WriteOwnFails(s)
    BY <2>1, <2>2, <2>6 DEF WriteOwnFails, Returned
  <2>7. QED
    BY <2>3, <2>4, <2>5, <2>6 DEF Submit
<1>3. FlushHasItems'
  <2>1. UNCHANGED <<buffer, worker>>
    BY DEF Submit, SubmitNothing, Enqueue, SubmitCancelled, WriteLarge, WriteOwn, WriteOwnFails
  <2>2. QED
    BY <2>1 DEF BatchInv, FlushHasItems, Flushing
<1>4. QED
  BY <1>1, <1>2, <1>3 DEF BatchInv

LEMMA WorkStep ==
  ASSUME BatchInv, NEW k \in Kinds, Work(k)
  PROVE  BatchInv'
<1> DEFINE item == Nodes \cup Relations
<1>1. /\ queue \in [Kinds -> Seq(Seq(item))] /\ buffer \in [Kinds -> Seq(item)]
      /\ worker \in [Kinds -> {"off", "select", "flush", "last flush", "done"}]
      /\ handled \in [Kinds -> Seq(item)] /\ dropped \in SUBSET item
      /\ graph \in SUBSET item
  BY DEF BatchInv, BatchTypeOK, item
<1>2. \A j \in Kinds : Flushing(j) => buffer[j] # << >>
  BY DEF BatchInv, FlushHasItems
<1> HIDE DEF item
<1>3. /\ queue[k] \in Seq(Seq(item)) /\ buffer[k] \in Seq(item) /\ handled[k] \in Seq(item)
      /\ worker[k] \in {"off", "select", "flush", "last flush", "done"}
  BY <1>1
<1>4. BatchSize \in Nat /\ BatchSize > 0
  BY QueueAssumption
<1>5. BatchTypeOK' /\ FlushHasItems'
  <2>1. CASE Take(k)
    <3>1. /\ queue[k] # << >>
          /\ queue' = [queue EXCEPT ![k] = Tail(queue[k])]
          /\ buffer' = [buffer EXCEPT ![k] = buffer[k] \o Head(queue[k])]
          /\ worker' = [worker EXCEPT ![k] = IF Len(buffer'[k]) >= BatchSize THEN "flush" ELSE "select"]
          /\ UNCHANGED <<graph, stopping, cancelled, plan, writing, entered, handled, dropped, safe>>
      BY <2>1 DEF Take
    <3>2. Head(queue[k]) \in Seq(item) /\ Tail(queue[k]) \in Seq(Seq(item))
      BY <1>3, <3>1, HeadTailProperties
    <3>3. buffer[k] \o Head(queue[k]) \in Seq(item)
      BY <1>3, <3>2, ConcatProperties
    <3>4. queue' \in [Kinds -> Seq(Seq(item))] /\ buffer' \in [Kinds -> Seq(item)]
      BY <1>1, <3>1, <3>2, <3>3
    <3>5. worker' \in [Kinds -> {"off", "select", "flush", "last flush", "done"}]
      BY <1>1, <3>1
    <3>6. BatchTypeOK'
      BY <3>1, <3>4, <3>5 DEF BatchInv, BatchTypeOK, item
    <3>7. ASSUME NEW j \in Kinds, Flushing(j)'
          PROVE  buffer'[j] # << >>
      <4>1. CASE j = k
        <5>1. worker'[k] \in {"flush", "last flush"}
          BY <3>7, <4>1 DEF Flushing
        <5>2. Len(buffer'[k]) >= BatchSize
          BY <1>1, <3>1, <5>1
        <5>3. Len(buffer'[k]) # 0
          BY <1>4, <3>4, <5>2
        <5>4. buffer'[k] # << >>
          BY <5>3, EmptySeq
        <5>5. QED
          BY <4>1, <5>4
      <4>2. CASE j # k
        BY <1>1, <1>2, <3>1, <3>7, <4>2 DEF Flushing
      <4>3. QED
        BY <4>1, <4>2
    <3>8. QED
      BY <3>6, <3>7 DEF FlushHasItems
  <2>2. CASE FlushOnTick(k) \/ Quit(k)
    <3>1. /\ worker' \in [Kinds -> {"off", "select", "flush", "last flush", "done"}]
          /\ \A j \in Kinds : Flushing(j)' => buffer[j] # << >>
      BY <1>1, <1>2, <2>2 DEF FlushOnTick, Quit, Flushing
    <3>2. UNCHANGED <<graph, queue, buffer, stopping, cancelled, plan, writing, entered,
                      handled, dropped, safe>>
      BY <2>2 DEF FlushOnTick, Quit
    <3>3. QED
      BY <3>1, <3>2 DEF BatchInv, BatchTypeOK, FlushHasItems
  <2>3. CASE Write(k)
    <3>1. /\ Flushing(k) /\ Upsert(Head(buffer[k]))
          /\ handled' = [handled EXCEPT ![k] = Append(handled[k], Head(buffer[k]))]
          /\ buffer' = [buffer EXCEPT ![k] = Tail(buffer[k])]
          /\ worker' = IF buffer'[k] = << >> THEN [worker EXCEPT ![k] = After(k)] ELSE worker
          /\ UNCHANGED <<queue, stopping, cancelled, plan, writing, entered, dropped, safe>>
      BY <2>3 DEF Write
    <3>2. Head(buffer[k]) \in item /\ Tail(buffer[k]) \in Seq(item)
      BY <1>3, <1>2, <3>1, HeadTailProperties
    <3>3. graph' \in SUBSET item
      BY <3>1, <3>2, UpsertType DEF BatchInv, item
    <3>4. Append(handled[k], Head(buffer[k])) \in Seq(item)
      BY <1>3, <3>2, AppendProperties
    <3>5. buffer' \in [Kinds -> Seq(item)] /\ handled' \in [Kinds -> Seq(item)]
      BY <1>1, <3>1, <3>2, <3>4
    <3>6. /\ worker' \in [Kinds -> {"off", "select", "flush", "last flush", "done"}]
          /\ buffer'[k] = << >> => worker'[k] \in {"select", "done"}
          /\ \A j \in Kinds : j # k => worker'[j] = worker[j] /\ buffer'[j] = buffer[j]
      BY <1>1, <3>1 DEF After
    <3>7. BatchTypeOK'
      BY <3>1, <3>3, <3>5, <3>6 DEF BatchInv, BatchTypeOK, item
    <3>8. FlushHasItems'
      BY <1>2, <3>6 DEF FlushHasItems, Flushing
    <3>9. QED
      BY <3>7, <3>8
  <2>4. CASE WriteFails(k)
    <3>1. /\ handled' = [handled EXCEPT ![k] = handled[k] \o buffer[k]]
          /\ dropped' = dropped \cup Of(buffer[k])
          /\ buffer' = [buffer EXCEPT ![k] = << >>]
          /\ worker' = [worker EXCEPT ![k] = After(k)]
          /\ UNCHANGED <<graph, queue, stopping, cancelled, plan, writing, entered, safe>>
      BY <2>4 DEF WriteFails
    <3>2. Of(buffer[k]) \subseteq item /\ handled[k] \o buffer[k] \in Seq(item)
      BY <1>3, OfType, ConcatProperties
    <3>3. /\ handled' \in [Kinds -> Seq(item)] /\ buffer' \in [Kinds -> Seq(item)]
          /\ dropped' \in SUBSET item
      <4>1. << >> \in Seq(item)
        BY EmptySeq
      <4>2. QED
        BY <1>1, <3>1, <3>2, <4>1
    <3>4. /\ worker' \in [Kinds -> {"off", "select", "flush", "last flush", "done"}]
          /\ worker'[k] \in {"select", "done"}
          /\ \A j \in Kinds : j # k => worker'[j] = worker[j] /\ buffer'[j] = buffer[j]
      BY <1>1, <3>1 DEF After
    <3>5. BatchTypeOK'
      BY <3>1, <3>3, <3>4 DEF BatchInv, BatchTypeOK, item
    <3>6. FlushHasItems'
      BY <1>2, <3>4 DEF FlushHasItems, Flushing
    <3>7. QED
      BY <3>5, <3>6
  <2>5. QED
    BY <2>1, <2>2, <2>3, <2>4 DEF Work
<1>6. WritingIsHanded'
  <2>1. UNCHANGED <<plan, writing>>
    BY DEF Work, Take, FlushOnTick, Quit, Write, WriteFails
  <2>2. QED
    BY <2>1 DEF BatchInv, WritingIsHanded
<1>7. QED
  BY <1>5, <1>6 DEF BatchInv

LEMMA ControlStep ==
  ASSUME BatchInv, Control
  PROVE  BatchInv'
BY DEF Control, Start, Stop, Cancel, BatchInv, BatchTypeOK, WritingIsHanded, FlushHasItems,
       Flushing
-----------------------------------------------------------------------------
(* What the base store answers suits the question, and is a set of nodes.  *)
LEMMA AnswersSuit ==
  ASSUME StoreTypeOK, NEW q \in Queries, NEW value \in Answers(q)
  PROVE  value \in SUBSET Nodes /\ Suits(value, q)
<1>1. Operation[q] \in {"GetImpactContext", "QueryContext", "FindRelatedByEmbedding",
                       "GetFileHash"}
  BY StoreAssumption
<1>2. CASE Operation[q] = "GetImpactContext"
  <2> DEFINE targets == NodesOf(About[q]) \ FileNodes
             users == Users(targets)
             others == UsersIn(Definitions(About[q]))
  <2>1. value = users \cup Users(users)
    BY <1>2 DEF Answers, Impact
  <2>2. \A some : Users(some) \subseteq UsersIn(some) /\ UsersIn(some) \subseteq Nodes
    BY SourcesAreNodes DEF Users, UsersIn
  <2>3. \A some, more : some \subseteq more => UsersIn(some) \subseteq UsersIn(more)
    BY DEF UsersIn
  <2>4. targets \subseteq Definitions(About[q])
    BY DEF NodesOf, Definitions
  <2> HIDE DEF targets
  <2>5. users \subseteq others
    BY <2>2, <2>3, <2>4
  <2>6. Users(users) \subseteq UsersIn(others)
    BY <2>2, <2>3, <2>5
  <2>7. value \subseteq others \cup UsersIn(others)
    BY <2>1, <2>5, <2>6
  <2>8. value \in SUBSET Nodes
    BY <2>2, <2>7
  <2>9. QED
    BY <1>2, <2>7, <2>8 DEF Suits
<1>3. CASE Operation[q] = "GetFileHash"
  <2>1. value = NodesOf(About[q]) \cap FileNodes
    BY <1>3 DEF Answers
  <2>2. QED
    BY <1>3, <2>1 DEF NodesOf, Suits
<1>4. CASE Operation[q] = "FindRelatedByEmbedding"
  BY <1>4 DEF Answers, Nearest, Suits
<1>5. CASE Operation[q] = "QueryContext"
  BY <1>5 DEF Answers, Suits
<1>6. QED
  BY <1>1, <1>2, <1>3, <1>4, <1>5

(* The limiter keeps its bound, whenever it is asked.                      *)
LEMMA AllowKeeps ==
  ASSUME StoreTypeOK, TierBounded, Allow, now' = now
  PROVE  /\ tokens' \in 0 .. MaxTokens
         /\ lastRefill' \in 0 .. now'
         /\ granted' \in Nat
         /\ TierBounded'
<1> DEFINE add == (now - lastRefill) \div RefillEvery
           before == lastRefill \div RefillEvery
           after == now \div RefillEvery
           have == Lesser(tokens + add, MaxTokens)
<1>1. /\ now \in Nat /\ lastRefill \in Nat /\ lastRefill <= now
      /\ tokens \in Nat /\ tokens <= MaxTokens /\ granted \in Nat
  BY Sizes DEF StoreTypeOK
<1>2. now - lastRefill \in Nat /\ lastRefill + (now - lastRefill) = now
  BY <1>1
<1>3. add \in Nat /\ before \in Nat /\ after \in Nat /\ before + add <= after
  BY <1>1, <1>2, Sizes, WholeIntervals
<1>4. granted + tokens <= MaxTokens + before
  BY DEF TierBounded
<1>5. /\ lastRefill' = IF add > 0 THEN now ELSE lastRefill
      /\ \/ have > 0 /\ tokens' = have - 1 /\ granted' = granted + 1
         \/ ~ (have > 0) /\ tokens' = have /\ granted' = granted
  BY DEF Allow
<1> DEFINE later == lastRefill' \div RefillEvery
<1>6. later = IF add > 0 THEN after ELSE before
  BY <1>5
<1> HIDE DEF add, before, after, later
<1>7. /\ have \in Nat /\ have <= MaxTokens /\ have <= tokens + add
  BY <1>1, <1>3, Sizes DEF Lesser
<1> HIDE DEF have
<1>8. /\ tokens' \in 0 .. MaxTokens /\ granted' \in Nat
      /\ granted' + tokens' = granted + have
  BY <1>1, <1>5, <1>7, Sizes
<1>9. lastRefill' \in 0 .. now'
  BY <1>1, <1>5
<1>10. granted' + tokens' <= MaxTokens + later
  <2>1. granted + have <= MaxTokens + before + add
    BY <1>1, <1>3, <1>4, <1>7, Sizes
  <2>2. CASE add > 0
    <3>1. later = after
      BY <1>6, <2>2
    <3>2. granted + have <= MaxTokens + after
      BY <1>1, <1>3, <1>7, <2>1, Sizes
    <3>3. QED
      BY <1>8, <3>1, <3>2
  <2>3. CASE add = 0
    <3>1. later = before
      BY <1>6, <2>3
    <3>2. granted + have <= MaxTokens + before
      BY <1>1, <1>3, <1>7, <2>1, <2>3, Sizes
    <3>3. QED
      BY <1>8, <3>1, <3>2
  <2>4. QED
    BY <1>3, <2>2, <2>3
<1>11. QED
  BY <1>8, <1>9, <1>10 DEF TierBounded, later
-----------------------------------------------------------------------------
LEMMA ReaderSets ==
  ASSUME StoreTypeOK, NEW r \in Readers
  PROVE  /\ reader[r].at \in {"idle", "get", "evict", "query", "fill", "refused", "failed", "served"}
         /\ reader[r].query \in Queries
         /\ reader[r].value \in SUBSET Nodes
         /\ reader[r].readAt \in Nat
         /\ reader[r].servedAt \in Nat
<1>1. reader[r] \in Reader
  BY DEF StoreTypeOK
<1>2. QED
  BY <1>1 DEF Reader

(* One reader's change leaves what is said of the others.                  *)
LEMMA OneReader ==
  ASSUME StoreInv, NEW r \in Readers, NEW next \in Reader,
         reader' = [reader EXCEPT ![r] = next], now' = now,
         next.at = "fill" => /\ now <= next.readAt + Patience
                             /\ Suits(next.value, next.query),
         next.at = "served" => /\ next.servedAt <= next.readAt + Patience + TTL
                               /\ Suits(next.value, next.query)
  PROVE  /\ reader' \in [Readers -> Reader]
         /\ OnTheWay' /\ StalenessBounded' /\ AnswersTheQuestion'
<1>1. reader \in [Readers -> Reader]
  BY DEF StoreInv, StoreTypeOK
<1>2. reader' \in [Readers -> Reader] /\ reader'[r] = next
  BY <1>1
<1>3. \A s \in Readers : s # r => reader'[s] = reader[s]
  BY <1>1
<1>4. OnTheWay'
  BY <1>2, <1>3 DEF OnTheWay, StoreInv, Suits, Definitions, UsersIn
<1>5. StalenessBounded'
  BY <1>2, <1>3 DEF StalenessBounded, StoreInv
<1>6. AnswersTheQuestion'
  BY <1>2, <1>3 DEF AnswersTheQuestion, StoreInv, Suits, Definitions, UsersIn
<1>7. QED
  BY <1>2, <1>4, <1>5, <1>6

(* What the queue and the graph need stays while only the store moves.     *)
LEMMA BatchUntouched ==
  ASSUME StoreInv, UNCHANGED queueVars, graph' \in SUBSET (Nodes \cup Relations)
  PROVE  BatchTypeOK' /\ WritingIsHanded' /\ FlushHasItems'
BY DEF StoreInv, StoreTypeOK, queueVars, BatchTypeOK, WritingIsHanded, FlushHasItems, Flushing

LEMMA GraphUntouched ==
  ASSUME StoreInv, UNCHANGED <<graph, queueVars>>
  PROVE  BatchTypeOK' /\ WritingIsHanded' /\ FlushHasItems'
BY BatchUntouched DEF StoreInv, StoreTypeOK, BatchTypeOK

LEMMA ReadStep ==
  ASSUME StoreInv, NEW r \in Readers, NEW q \in Queries, Read(r, q)
  PROVE  StoreInv'
<1> DEFINE next == [at |-> IF Limited(q) /\ granted' = granted THEN "refused" ELSE "get",
                    query |-> q, value |-> {}, readAt |-> 0, servedAt |-> 0]
<1>1. /\ left.reads > 0
      /\ left' = [left EXCEPT !.reads = left.reads - 1]
      /\ reader' = [reader EXCEPT ![r] = next]
      /\ UNCHANGED <<graph, queueVars, now, cache, deleted>>
      /\ Allow \/ UNCHANGED <<tokens, lastRefill, granted>>
  BY DEF Read
<1>2. next \in Reader /\ next.at \in {"refused", "get"}
  BY DEF Reader
<1> HIDE DEF next
<1>3. reader' \in [Readers -> Reader] /\ OnTheWay' /\ StalenessBounded' /\ AnswersTheQuestion'
  BY <1>1, <1>2, OneReader
<1>4. tokens' \in 0 .. MaxTokens /\ lastRefill' \in 0 .. now' /\ granted' \in Nat /\ TierBounded'
  <2>1. CASE Allow
    BY <1>1, <2>1, AllowKeeps DEF StoreInv
  <2>2. CASE UNCHANGED <<tokens, lastRefill, granted>>
    BY <1>1, <2>2 DEF StoreInv, StoreTypeOK, TierBounded
  <2>3. QED
    BY <1>1, <2>1, <2>2
<1>5. left' \in Bounds
  BY <1>1 DEF StoreInv, StoreTypeOK, Bounds
<1>6. BatchTypeOK' /\ WritingIsHanded' /\ FlushHasItems'
  BY <1>1, GraphUntouched
<1>7. now' \in Nat /\ DOMAIN cache' \subseteq Queries /\ cache' \in [DOMAIN cache' -> Entry]
      /\ deleted' \in SUBSET Nodes
  BY <1>1 DEF StoreInv, StoreTypeOK
<1>8. Stored'
  BY <1>1 DEF StoreInv, Stored, Suits, Definitions, UsersIn
<1>9. QED
  BY <1>3, <1>4, <1>5, <1>6, <1>7, <1>8 DEF StoreInv, StoreTypeOK

(* A step of a reader that leaves the cache with what it had, or less.     *)
LEMMA Shrinks ==
  ASSUME StoreInv, NEW gone, cache' = [q \in DOMAIN cache \ gone |-> cache[q]]
  PROVE  /\ DOMAIN cache' \subseteq Queries
         /\ cache' \in [DOMAIN cache' -> Entry]
         /\ Stored'
<1>1. DOMAIN cache' = DOMAIN cache \ gone /\ \A q \in DOMAIN cache' : cache'[q] = cache[q]
  OBVIOUS
<1>2. DOMAIN cache \subseteq Queries /\ \A q \in DOMAIN cache : cache[q] \in Entry
  BY DEF StoreInv, StoreTypeOK
<1>3. cache' \in [DOMAIN cache' -> Entry]
  BY <1>1, <1>2
<1>4. Stored'
  BY <1>1 DEF StoreInv, Stored, Suits, Definitions, UsersIn
<1>5. QED
  BY <1>1, <1>2, <1>3, <1>4

LEMMA ReaderSteps ==
  ASSUME StoreInv, NEW r \in Readers, ReaderStep(r)
  PROVE  StoreInv'
<1> DEFINE at(place) == [reader[r] EXCEPT !.at = place]
           answer(value, readAt) == [at |-> "served", query |-> reader[r].query,
                                     value |-> value, readAt |-> readAt, servedAt |-> now]
<1>1. UNCHANGED <<graph, queueVars, now, left, tokens, lastRefill, granted, deleted>>
  BY DEF ReaderStep, Get, Evict, Query, QueryFails, Fill
<1>2. /\ now \in Nat /\ left \in Bounds /\ deleted \in SUBSET Nodes /\ granted \in Nat
      /\ tokens \in 0 .. MaxTokens /\ lastRefill \in 0 .. now /\ TierBounded
      /\ DOMAIN cache \subseteq Queries /\ cache \in [DOMAIN cache -> Entry] /\ Stored
      /\ reader \in [Readers -> Reader]
  BY DEF StoreInv, StoreTypeOK
<1>3. \A place \in {"evict", "query", "failed"} :
        at(place) \in Reader /\ at(place).at = place
  BY <1>2, ReaderSets DEF Reader
<1>4. \A value \in SUBSET Nodes, readAt \in Nat :
        answer(value, readAt) \in Reader /\ answer(value, readAt).at = "served"
  BY <1>2, ReaderSets DEF Reader, StoreInv
<1>5. ASSUME reader' \in [Readers -> Reader],
             OnTheWay', StalenessBounded', AnswersTheQuestion',
             DOMAIN cache' \subseteq Queries, cache' \in [DOMAIN cache' -> Entry], Stored'
      PROVE  StoreInv'
  <2>1. BatchTypeOK' /\ WritingIsHanded' /\ FlushHasItems'
    BY <1>1, GraphUntouched
  <2>2. TierBounded'
    BY <1>1, <1>2 DEF TierBounded
  <2>3. StoreTypeOK'
    BY <1>1, <1>2, <1>5, <2>1 DEF StoreTypeOK
  <2>4. QED
    BY <1>5, <2>1, <2>2, <2>3 DEF StoreInv
<1>6. cache' = cache => /\ DOMAIN cache' \subseteq Queries
                        /\ cache' \in [DOMAIN cache' -> Entry] /\ Stored'
  BY <1>2 DEF Stored, Suits, Definitions, UsersIn
<1>7. ASSUME NEW place \in {"evict", "query", "failed"}, At(r, place)
      PROVE  /\ reader' \in [Readers -> Reader]
             /\ OnTheWay' /\ StalenessBounded' /\ AnswersTheQuestion'
  <2>1. reader' = [reader EXCEPT ![r] = at(place)]
    BY <1>7 DEF At
  <2>2. at(place) \in Reader /\ at(place).at \notin {"fill", "served"}
    BY <1>3
  <2> HIDE DEF at
  <2>3. QED
    BY <1>1, <2>1, <2>2, OneReader
<1>8. CASE Get(r)
  <2> DEFINE q == reader[r].query
  <2>1. cache' = cache
    BY <1>8 DEF Get
  <2>2. CASE At(r, "query") \/ At(r, "evict")
    BY <1>5, <1>6, <1>7, <2>1, <2>2
  <2>3. CASE /\ q \in DOMAIN cache /\ ~ Expired(q)
             /\ Serve(r, cache[q].value, cache[q].readAt)
    <3> DEFINE next == answer(cache[q].value, cache[q].readAt)
    <3>1. reader' = [reader EXCEPT ![r] = next]
      BY <2>3 DEF Serve
    <3>2. cache[q] \in Entry
      BY <1>2, <2>3
    <3>3. /\ cache[q].value \in SUBSET Nodes /\ cache[q].readAt \in Nat
          /\ cache[q].expiry \in Nat
      BY <3>2 DEF Entry
    <3>4. now <= cache[q].readAt + Patience + TTL /\ Suits(cache[q].value, q)
      BY <1>2, <2>3, <3>3, Sizes DEF Stored, Expired
    <3>5. /\ next \in Reader /\ next.at = "served" /\ next.servedAt = now
          /\ next.readAt = cache[q].readAt /\ next.value = cache[q].value /\ next.query = q
      BY <1>4, <3>3
    <3> HIDE DEF next
    <3>6. reader' \in [Readers -> Reader] /\ OnTheWay' /\ StalenessBounded' /\ AnswersTheQuestion'
      BY <1>1, <3>1, <3>4, <3>5, OneReader
    <3>7. QED
      BY <1>5, <1>6, <2>1, <3>6
  <2>4. QED
    BY <1>8, <2>2, <2>3 DEF Get
<1>9. CASE Evict(r)
  <2>1. cache' = [q \in DOMAIN cache \ {reader[r].query} |-> cache[q]] /\ At(r, "query")
    BY <1>9 DEF Evict
  <2>2. DOMAIN cache' \subseteq Queries /\ cache' \in [DOMAIN cache' -> Entry] /\ Stored'
    BY <2>1, Shrinks
  <2>3. QED
    BY <1>5, <1>7, <2>1, <2>2
<1>10. CASE Query(r)
  <2>1. PICK value \in Answers(reader[r].query) :
          reader' = [reader EXCEPT ![r] = [at |-> "fill", query |-> reader[r].query,
                       value |-> value, readAt |-> now, servedAt |-> 0]]
    BY <1>10 DEF Query
  <2>2. reader[r].query \in Queries
    BY ReaderSets DEF StoreInv
  <2>3. value \in SUBSET Nodes /\ Suits(value, reader[r].query)
    BY <2>2, AnswersSuit DEF StoreInv
  <2> DEFINE next == [at |-> "fill", query |-> reader[r].query,
                      value |-> value, readAt |-> now, servedAt |-> 0]
  <2>4. next \in Reader
    BY <1>2, <2>2, <2>3 DEF Reader
  <2>5. next.at = "fill" /\ now <= next.readAt + Patience /\ Suits(next.value, next.query)
    BY <1>2, <2>3, Sizes
  <2>6. reader' = [reader EXCEPT ![r] = next]
    BY <2>1
  <2> HIDE DEF next
  <2>7. reader' \in [Readers -> Reader] /\ OnTheWay' /\ StalenessBounded' /\ AnswersTheQuestion'
    BY <1>1, <2>4, <2>5, <2>6, OneReader
  <2>8. cache' = cache
    BY <1>10 DEF Query
  <2>9. QED
    BY <1>5, <1>6, <2>7, <2>8
<1>11. CASE QueryFails(r)
  BY <1>5, <1>6, <1>7, <1>11 DEF QueryFails
<1>12. CASE Fill(r)
  <2> DEFINE q == reader[r].query
             next == answer(reader[r].value, reader[r].readAt)
             stored == [value |-> reader[r].value, readAt |-> reader[r].readAt,
                        expiry |-> now + TTL]
  <2>1. q \in Queries /\ reader[r].value \in SUBSET Nodes /\ reader[r].readAt \in Nat
    BY ReaderSets DEF StoreInv
  <2>2. now <= reader[r].readAt + Patience /\ Suits(reader[r].value, q)
    BY <1>12 DEF Fill, StoreInv, OnTheWay
  <2>3. /\ next \in Reader /\ next.at = "served" /\ next.servedAt = now
        /\ next.readAt = reader[r].readAt /\ next.value = reader[r].value /\ next.query = q
    BY <1>4, <2>1
  <2>4. now <= reader[r].readAt + Patience + TTL
    BY <1>2, <2>1, <2>2, Sizes
  <2>5. reader' = [reader EXCEPT ![r] = next]
    BY <1>12 DEF Fill, Serve
  <2>6. /\ stored \in Entry /\ stored.value = reader[r].value
        /\ stored.expiry <= stored.readAt + Patience + TTL
    BY <1>2, <2>1, <2>2, Sizes DEF Entry
  <2>7. cache' = [p \in DOMAIN cache \cup {q} |-> IF p = q THEN stored ELSE cache[p]]
    BY <1>12 DEF Fill
  <2> HIDE DEF next, stored
  <2>8. reader' \in [Readers -> Reader] /\ OnTheWay' /\ StalenessBounded' /\ AnswersTheQuestion'
    BY <1>1, <2>2, <2>3, <2>4, <2>5, OneReader
  <2> HIDE DEF q
  <2>9. /\ DOMAIN cache' = DOMAIN cache \cup {q}
        /\ cache'[q] = stored
        /\ \A p \in DOMAIN cache \ {q} : cache'[p] = cache[p]
    BY <2>7
  <2>10. DOMAIN cache' \subseteq Queries
    BY <1>2, <2>1, <2>9
  <2>11. cache' \in [DOMAIN cache' -> Entry]
    <3>1. \A p \in DOMAIN cache \cup {q} : (IF p = q THEN stored ELSE cache[p]) \in Entry
      BY <1>2, <2>6
    <3>2. QED
      BY <2>7, <2>9, <3>1
  <2>12. Stored'
    <3>1. \A p \in DOMAIN cache' :
            /\ cache'[p].expiry <= cache'[p].readAt + Patience + TTL
            /\ Suits(cache'[p].value, p)
      BY <1>2, <2>2, <2>6, <2>9 DEF Stored, q
    <3>2. QED
      BY <3>1 DEF Stored, Suits, Definitions, UsersIn
  <2>13. QED
    BY <1>5, <2>8, <2>10, <2>11, <2>12
<1>13. QED
  BY <1>8, <1>9, <1>10, <1>11, <1>12 DEF ReaderStep
-----------------------------------------------------------------------------
(* What the queue does leaves the store's own state alone.                 *)
LEMMA QueueStep ==
  ASSUME StoreInv, Handling \/ Control, UNCHANGED storeVars
  PROVE  StoreInv'
<1>1. BatchInv
  BY DEF StoreInv, StoreTypeOK, BatchInv
<1>2. BatchInv'
  BY <1>1, SubmitStep, WorkStep, ControlStep DEF Handling
<1>3. UNCHANGED <<now, left, cache, reader, tokens, lastRefill, granted, deleted>>
  BY DEF storeVars
<1>4. StoreTypeOK'
  BY <1>2, <1>3 DEF StoreInv, StoreTypeOK, BatchInv
<1>5. OnTheWay' /\ Stored' /\ StalenessBounded' /\ AnswersTheQuestion' /\ TierBounded'
  BY <1>3 DEF StoreInv, OnTheWay, Stored, StalenessBounded, AnswersTheQuestion, TierBounded,
              Suits, Definitions, UsersIn
<1>6. QED
  BY <1>2, <1>4, <1>5 DEF StoreInv, BatchInv

(* A write, a deletion or a clearing: what is said of readers stays.       *)
LEMMA WriteStep ==
  ASSUME StoreInv, WriteOnce, graph' \in SUBSET (Nodes \cup Relations),
         UNCHANGED <<queueVars, now, reader, tokens, lastRefill, granted>>,
         cache' = cache \/ cache' = << >>, deleted' \in SUBSET Nodes
  PROVE  StoreInv'
<1>1. BatchTypeOK' /\ WritingIsHanded' /\ FlushHasItems'
  BY BatchUntouched
<1>2. left' \in Bounds
  BY DEF WriteOnce, StoreInv, StoreTypeOK, Bounds
<1>3. DOMAIN cache' \subseteq Queries /\ cache' \in [DOMAIN cache' -> Entry] /\ Stored'
  <2>1. CASE cache' = cache
    BY <2>1 DEF StoreInv, StoreTypeOK, Stored, Suits, Definitions, UsersIn
  <2>2. CASE cache' = << >>
    <3>1. cache' = [q \in DOMAIN cache \ DOMAIN cache |-> cache[q]]
      BY <2>2
    <3>2. QED
      BY <3>1, Shrinks
  <2>3. QED
    BY <2>1, <2>2
<1>4. OnTheWay' /\ StalenessBounded' /\ AnswersTheQuestion' /\ TierBounded'
  BY DEF StoreInv, OnTheWay, StalenessBounded, AnswersTheQuestion, TierBounded,
         Suits, Definitions, UsersIn
<1>5. StoreTypeOK'
  BY <1>1, <1>2, <1>3 DEF StoreInv, StoreTypeOK
<1>6. QED
  BY <1>1, <1>3, <1>4, <1>5 DEF StoreInv

LEMMA TickStep ==
  ASSUME StoreInv, Tick
  PROVE  StoreInv'
<1>1. /\ now' = now + 1 /\ now \in Nat
      /\ UNCHANGED <<graph, queueVars, left, cache, reader, tokens, lastRefill, granted, deleted>>
      /\ \A r \in Readers : reader[r].at = "fill" => now < reader[r].readAt + Patience
  BY DEF Tick, StoreInv, StoreTypeOK
<1>2. BatchTypeOK' /\ WritingIsHanded' /\ FlushHasItems'
  BY <1>1, GraphUntouched
<1>3. OnTheWay'
  <2> SUFFICES ASSUME NEW r \in Readers, reader'[r].at = "fill"
               PROVE  /\ now' <= reader'[r].readAt + Patience
                      /\ Suits(reader'[r].value, reader'[r].query)
    BY DEF OnTheWay, Suits, Definitions, UsersIn
  <2>1. reader[r].at = "fill" /\ reader[r].readAt \in Nat
    BY <1>1, ReaderSets DEF StoreInv
  <2>2. now < reader[r].readAt + Patience /\ Suits(reader[r].value, reader[r].query)
    BY <1>1, <2>1 DEF StoreInv, OnTheWay
  <2>3. QED
    BY <1>1, <2>1, <2>2, Sizes
<1>4. Stored' /\ StalenessBounded' /\ AnswersTheQuestion' /\ TierBounded'
  BY <1>1 DEF StoreInv, Stored, StalenessBounded, AnswersTheQuestion, TierBounded,
              Suits, Definitions, UsersIn
<1>5. lastRefill' \in 0 .. now'
  BY <1>1 DEF StoreInv, StoreTypeOK
<1>6. StoreTypeOK'
  BY <1>1, <1>2, <1>5 DEF StoreInv, StoreTypeOK
<1>7. QED
  BY <1>2, <1>3, <1>4, <1>6 DEF StoreInv

LEMMA StoreInit == Init => StoreInv
<1> SUFFICES ASSUME Init
             PROVE  StoreInv
  OBVIOUS
<1>1. BatchInv
  BY BatchStart DEF Init
<1>2. left \in Bounds
  <2>1. PICK mix \in Mixes : left = mix[3]
    BY DEF Init
  <2>2. mix \in Plans \X Graphs \X Bounds
    BY StoreAssumption
  <2>3. QED
    BY <2>1, <2>2
<1>3. /\ now = 0 /\ cache = << >> /\ DOMAIN cache = {}
      /\ tokens = MaxTokens /\ lastRefill = 0 /\ granted = 0 /\ deleted = {}
  BY DEF Init
<1>4. reader \in [Readers -> Reader] /\ \A r \in Readers : reader[r].at = "idle"
  <2>1. (CHOOSE q \in Queries : TRUE) \in Queries
    BY StoreAssumption
  <2>2. QED
    BY <2>1 DEF Init, Reader
<1>5. cache \in [DOMAIN cache -> Entry] /\ Stored
  BY <1>3 DEF Stored
<1>6. OnTheWay /\ StalenessBounded /\ AnswersTheQuestion
  BY <1>4 DEF OnTheWay, StalenessBounded, AnswersTheQuestion
<1>7. TierBounded
  <2>1. 0 \div RefillEvery \in Nat
    BY Sizes, WholeIntervals
  <2>2. QED
    BY <1>3, <2>1, Sizes DEF TierBounded
<1>8. StoreTypeOK
  BY <1>1, <1>2, <1>3, <1>4, <1>5, Sizes DEF StoreTypeOK, BatchInv
<1>9. QED
  BY <1>1, <1>5, <1>6, <1>7, <1>8 DEF StoreInv, BatchInv

LEMMA StoreStep == StoreInv /\ [Next]_vars => StoreInv'
<1> SUFFICES ASSUME StoreInv, [Next]_vars
             PROVE  StoreInv'
  OBVIOUS
<1>1. CASE Handling /\ UNCHANGED storeVars
  BY <1>1, QueueStep
<1>2. CASE left.owner /\ Control /\ UNCHANGED storeVars
  BY <1>2, QueueStep
<1>3. ASSUME NEW r \in Readers, ReaderStep(r)
      PROVE  StoreInv'
  BY <1>3, ReaderSteps
<1>4. ASSUME NEW r \in Readers, NEW q \in Queries, Read(r, q)
      PROVE  StoreInv'
  BY <1>4, ReadStep
<1>5. ASSUME NEW x \in Nodes \cup Relations, UpsertDirect(x)
      PROVE  StoreInv'
  <2>1. graph' \in SUBSET (Nodes \cup Relations)
    BY <1>5, UpsertType DEF UpsertDirect, StoreInv, StoreTypeOK
  <2>2. deleted' \in SUBSET Nodes
    BY <1>5 DEF UpsertDirect, StoreInv, StoreTypeOK
  <2>3. QED
    BY <1>5, <2>1, <2>2, WriteStep DEF UpsertDirect
<1>6. ASSUME NEW gone \in SUBSET Nodes, Delete(gone)
      PROVE  StoreInv'
  <2>1. graph' \in SUBSET (Nodes \cup Relations) /\ deleted' \in SUBSET Nodes
    BY <1>6 DEF Delete, StoreInv, StoreTypeOK, BatchTypeOK
  <2>2. QED
    BY <1>6, <2>1, WriteStep DEF Delete
<1>7. CASE ClearCache
  <2>1. graph' \in SUBSET (Nodes \cup Relations) /\ deleted' \in SUBSET Nodes
    BY <1>7 DEF ClearCache, StoreInv, StoreTypeOK, BatchTypeOK
  <2>2. QED
    BY <1>7, <2>1, WriteStep DEF ClearCache
<1>8. CASE Tick
  BY <1>8, TickStep
<1>9. CASE UNCHANGED vars
  <2>1. UNCHANGED <<graph, queueVars, storeVars>>
    BY <1>9 DEF vars
  <2>2. UNCHANGED <<now, left, cache, reader, tokens, lastRefill, granted, deleted>>
    BY <2>1 DEF storeVars
  <2>3. BatchTypeOK' /\ WritingIsHanded' /\ FlushHasItems'
    BY <2>1, GraphUntouched
  <2>4. QED
    BY <2>2, <2>3 DEF StoreInv, StoreTypeOK, OnTheWay, Stored, StalenessBounded,
                      AnswersTheQuestion, TierBounded, Suits, Definitions, UsersIn
<1>10. ASSUME NEW f \in Files, DeleteNodesByFile(f)
       PROVE  StoreInv'
  BY <1>6, <1>10 DEF DeleteNodesByFile, NodesOf
<1>11. CASE DeleteNodesByProject
  BY <1>6, <1>11 DEF DeleteNodesByProject
<1>12. QED
  BY <1>1, <1>2, <1>3, <1>4, <1>5, <1>7, <1>8, <1>9, <1>10, <1>11 DEF Next
-----------------------------------------------------------------------------
(* The inductive invariant.                                                *)
THEOREM StoreInvariance == Spec => []StoreInv
<1>1. Init => StoreInv
  BY StoreInit
<1>2. StoreInv /\ [Next]_vars => StoreInv'
  BY StoreStep
<1>3. QED
  BY <1>1, <1>2, PTL DEF Spec

(* The graph, the channels, the cache and the readers keep their types:    *)
(* the limiter of queries is never in debt, and never refilled ahead.      *)
THEOREM StoreTypeCorrect == Spec => []StoreTypeOK
<1>1. StoreInv => StoreTypeOK
  BY DEF StoreInv
<1>2. QED
  BY <1>1, StoreInvariance, PTL

(* No answer is served later than the time to live and the time it took to *)
(* the cache after the database gave it, for any readers and writers.      *)
THEOREM StoreStalenessBounded == Spec => []StalenessBounded
<1>1. StoreInv => StalenessBounded
  BY DEF StoreInv
<1>2. QED
  BY <1>1, StoreInvariance, PTL

(* A reader is served an answer to its own question, whoever stored it.    *)
THEOREM StoreAnswersTheQuestion == Spec => []AnswersTheQuestion
<1>1. StoreInv => AnswersTheQuestion
  BY DEF StoreInv
<1>2. QED
  BY <1>1, StoreInvariance, PTL

(* The limiter of queries lets through no more than its bucket and what    *)
(* whole intervals have refilled, for any size, interval and askers.       *)
THEOREM StoreTierBounded == Spec => []TierBounded
<1>1. StoreInv => TierBounded
  BY DEF StoreInv
<1>2. QED
  BY <1>1, StoreInvariance, PTL
-----------------------------------------------------------------------------
\* What was handled, what is held and what is in the channel, in this order.
Line(h, b, q) == h \o b \o FlattenSeq(q)

(* Taking a batch, writing an item or giving up a batch moves nothing in    *)
(* the line; a batch that enters is at its end.                            *)
LEMMA LineTake ==
  ASSUME NEW S, NEW h \in Seq(S), NEW b \in Seq(S), NEW q \in Seq(Seq(S)), q # << >>
  PROVE  Line(h, b \o Head(q), Tail(q)) = Line(h, b, q)
<1> DEFINE x == Head(q)
           r == FlattenSeq(Tail(q))
<1>1. x \in Seq(S) /\ Tail(q) \in Seq(Seq(S))
  BY HeadTailProperties
<1>2. r \in Seq(S) /\ FlattenSeq(q) = x \o r
  BY <1>1, FlattenType, FlattenTail
<1> HIDE DEF x, r
<1>3. b \o x \in Seq(S) /\ x \o r \in Seq(S)
  BY <1>1, <1>2
<1>5. Associate(h, b, x \o r) /\ Associate(b, x, r) /\ Associate(h, b \o x, r)
  BY <1>1, <1>2, <1>3, Association
<1>6. (h \o b) \o (x \o r) = (h \o (b \o x)) \o r
  BY <1>5 DEF Associate
<1>4. QED
  BY <1>2, <1>6 DEF Line, x, r

LEMMA LineWrite ==
  ASSUME NEW S, NEW h \in Seq(S), NEW b \in Seq(S), NEW q \in Seq(Seq(S)), b # << >>
  PROVE  Line(Append(h, Head(b)), Tail(b), q) = Line(h, b, q)
<1> DEFINE r == FlattenSeq(q)
<1>1. r \in Seq(S)
  BY FlattenType
<1> HIDE DEF r
<1>2. h \o b \o r = Append(h, Head(b)) \o Tail(b) \o r
  BY <1>1
<1>3. QED
  BY <1>2 DEF Line, r

LEMMA LineGiveUp ==
  ASSUME NEW S, NEW h \in Seq(S), NEW b \in Seq(S), NEW q \in Seq(Seq(S))
  PROVE  Line(h \o b, << >>, q) = Line(h, b, q)
<1>1. h \o b \in Seq(S)
  OBVIOUS
<1>2. (h \o b) \o << >> = h \o b
  BY <1>1, ConcatEmptySeq
<1>3. QED
  BY <1>2 DEF Line

EntersAtEnd(h, b, q, s) == Line(h, b, Append(q, s)) = Line(h, b, q) \o s

LEMMA LineEnter ==
  ASSUME NEW S, NEW h \in Seq(S), NEW b \in Seq(S), NEW q \in Seq(Seq(S)), NEW s \in Seq(S)
  PROVE  EntersAtEnd(h, b, q, s)
<1> DEFINE r == FlattenSeq(q)
<1>1. r \in Seq(S) /\ FlattenSeq(Append(q, s)) = r \o s
  BY FlattenType, FlattenAppend
<1> HIDE DEF r
<1>2. ((h \o b) \o r) \o s = (h \o b) \o (r \o s)
  BY <1>1
<1>3. QED
  BY <1>1, <1>2 DEF EntersAtEnd, Line, r

LEMMA SubmitOrder ==
  ASSUME BatchInv, HandledInOrder, NEW s \in Submitters, Submit(s)
  PROVE  HandledInOrder'
<1> DEFINE item == Nodes \cup Relations
<1>1. CASE Enqueue(s)
  <2> DEFINE b == Next1(s)
  <2>1. /\ Ready(s)
        /\ queue' = [queue EXCEPT ![b.kind] = Append(queue[b.kind], b.items)]
        /\ entered' = [entered EXCEPT ![b.kind] = entered[b.kind] \o b.items]
        /\ UNCHANGED <<handled, buffer>>
    BY <1>1 DEF Enqueue
  <2>2. b.kind \in Kinds /\ b.items \in Seq(item)
    BY <2>1, NextBatch DEF BatchInv
  <2>3. /\ queue \in [Kinds -> Seq(Seq(item))] /\ entered \in [Kinds -> Seq(item)]
        /\ handled \in [Kinds -> Seq(item)] /\ buffer \in [Kinds -> Seq(item)]
    BY DEF BatchInv, BatchTypeOK
  <2> HIDE DEF b, item
  <2> SUFFICES ASSUME NEW k \in Kinds
               PROVE  entered'[k] = handled[k] \o buffer[k] \o FlattenSeq(queue'[k])
    BY <2>1 DEF HandledInOrder
  <2>4. /\ entered[k] = handled[k] \o buffer[k] \o FlattenSeq(queue[k])
        /\ queue[k] \in Seq(Seq(item)) /\ handled[k] \in Seq(item) /\ buffer[k] \in Seq(item)
    BY <2>3 DEF HandledInOrder
  <2>5. CASE k = b.kind
    <3>1. queue'[k] = Append(queue[k], b.items) /\ entered'[k] = entered[k] \o b.items
      BY <2>1, <2>2, <2>3, <2>5
    <3>2. Line(handled[k], buffer[k], queue'[k]) = Line(handled[k], buffer[k], queue[k]) \o b.items
      <4>1. EntersAtEnd(handled[k], buffer[k], queue[k], b.items)
        BY <2>2, <2>4, LineEnter
      <4>2. QED
        BY <3>1, <4>1 DEF EntersAtEnd
    <3>3. QED
      BY <2>4, <3>1, <3>2 DEF Line
  <2>6. CASE k # b.kind
    BY <2>1, <2>2, <2>3, <2>4, <2>6
  <2>7. QED
    BY <2>5, <2>6
<1>2. CASE ~ Enqueue(s)
  <2>1. UNCHANGED <<queue, buffer, entered, handled>>
    BY <1>2 DEF Submit, SubmitNothing, SubmitCancelled, WriteLarge, WriteOwn, WriteOwnFails
  <2>2. QED
    BY <2>1 DEF HandledInOrder
<1>3. QED
  BY <1>1, <1>2

LEMMA WorkOrder ==
  ASSUME BatchInv, HandledInOrder, NEW w \in Kinds, Work(w)
  PROVE  HandledInOrder'
<1> DEFINE item == Nodes \cup Relations
<1>1. /\ queue \in [Kinds -> Seq(Seq(item))] /\ entered \in [Kinds -> Seq(item)]
      /\ handled \in [Kinds -> Seq(item)] /\ buffer \in [Kinds -> Seq(item)]
  BY DEF BatchInv, BatchTypeOK
<1>2. Flushing(w) => buffer[w] # << >>
  BY DEF BatchInv, FlushHasItems
<1> HIDE DEF item
<1>3. /\ entered[w] = Line(handled[w], buffer[w], queue[w])
      /\ queue[w] \in Seq(Seq(item)) /\ handled[w] \in Seq(item) /\ buffer[w] \in Seq(item)
  BY <1>1 DEF HandledInOrder, Line
<1>4. entered' = entered
  BY DEF Work, Take, FlushOnTick, Quit, Write, WriteFails
<1>5. CASE Take(w)
  <2>1. /\ queue[w] # << >>
        /\ queue' = [queue EXCEPT ![w] = Tail(queue[w])]
        /\ buffer' = [buffer EXCEPT ![w] = buffer[w] \o Head(queue[w])]
        /\ handled' = handled
    BY <1>5 DEF Take
  <2>2. entered[w] = Line(handled[w], buffer[w] \o Head(queue[w]), Tail(queue[w]))
    BY <1>3, <2>1, LineTake
  <2>3. QED
    BY <1>1, <1>4, <2>1, <2>2 DEF HandledInOrder, Line
<1>6. CASE FlushOnTick(w) \/ Quit(w)
  <2>1. UNCHANGED <<queue, buffer, handled>>
    BY <1>6 DEF FlushOnTick, Quit
  <2>2. QED
    BY <1>4, <2>1 DEF HandledInOrder
<1>7. CASE Write(w)
  <2>1. /\ Flushing(w) /\ queue' = queue
        /\ handled' = [handled EXCEPT ![w] = Append(handled[w], Head(buffer[w]))]
        /\ buffer' = [buffer EXCEPT ![w] = Tail(buffer[w])]
    BY <1>7 DEF Write
  <2>2. entered[w] = Line(Append(handled[w], Head(buffer[w])), Tail(buffer[w]), queue[w])
    BY <1>2, <1>3, <2>1, LineWrite
  <2>3. QED
    BY <1>1, <1>4, <2>1, <2>2 DEF HandledInOrder, Line
<1>8. CASE WriteFails(w)
  <2>1. /\ queue' = queue
        /\ handled' = [handled EXCEPT ![w] = handled[w] \o buffer[w]]
        /\ buffer' = [buffer EXCEPT ![w] = << >>]
    BY <1>8 DEF WriteFails
  <2>2. entered[w] = Line(handled[w] \o buffer[w], << >>, queue[w])
    BY <1>3, LineGiveUp
  <2>3. QED
    BY <1>1, <1>4, <2>1, <2>2 DEF HandledInOrder, Line
<1>9. QED
  BY <1>5, <1>6, <1>7, <1>8 DEF Work

LEMMA OrderStep == StoreInv /\ HandledInOrder /\ [Next]_vars => HandledInOrder'
<1> SUFFICES ASSUME StoreInv, HandledInOrder, [Next]_vars
             PROVE  HandledInOrder'
  OBVIOUS
<1>1. BatchInv
  BY DEF StoreInv, StoreTypeOK, BatchInv
<1>2. CASE Handling
  BY <1>1, <1>2, SubmitOrder, WorkOrder DEF Handling
<1>3. CASE ~ Handling
  <2>1. UNCHANGED <<queue, buffer, entered, handled>>
    BY <1>3 DEF Next, Control, Start, Stop, Cancel, ReaderStep, Get, Evict, Query, QueryFails,
                Fill, Read, UpsertDirect, DeleteNodesByFile, DeleteNodesByProject, Delete,
                ClearCache, Tick, vars, queueVars
  <2>2. QED
    BY <2>1 DEF HandledInOrder
<1>4. QED
  BY <1>2, <1>3

(* Nothing that entered a channel is lost, doubled or overtaken there, for *)
(* any batches and submitters, also after failed flushes and stopping.     *)
THEOREM StoreHandledInOrder == Spec => []HandledInOrder
<1>1. Init => HandledInOrder
  <2> SUFFICES ASSUME Init, NEW k \in Kinds
               PROVE  entered[k] = handled[k] \o buffer[k] \o FlattenSeq(queue[k])
    BY DEF HandledInOrder
  <2>1. queue[k] = << >> /\ entered[k] = << >> /\ handled[k] = << >> /\ buffer[k] = << >>
    BY DEF Init, BatchInit
  <2>2. << >> \o << >> \o << >> = << >>
    OBVIOUS
  <2>3. QED
    BY <2>1, <2>2, FlattenEmpty
<1>2. QED
  BY <1>1, OrderStep, StoreInvariance, PTL DEF Spec
-----------------------------------------------------------------------------
\* Writing x to g would put it there, or an end of it is among those deleted.
CanGo(x, g, gone) ==
  {Source(x), Target(x)} \subseteq g \/ {Source(x), Target(x)} \cap gone # {}

\* x is in g, was given up, or an end of it is among those deleted.
Came(x, g, lost, gone) == x \in g \/ x \in lost \/ {Source(x), Target(x)} \cap gone # {}

(* What was handed over when its nodes were there can still be written, as *)
(* nodes leave the graph by deletions only.                                *)
SafeIsWritable ==
  \A i \in safe :
    /\ i \in DOMAIN entered["relations"]
    /\ entered["relations"][i] \in Relations
    /\ CanGo(entered["relations"][i], graph, deleted)

\* No relation is worse off after the step.
NoneWorse ==
  \A x \in Relations :
    /\ CanGo(x, graph, deleted) => CanGo(x, graph', deleted')
    /\ Came(x, graph, dropped, deleted) => Came(x, graph', dropped', deleted')

LEMMA GrowthHelps ==
  ASSUME graph \subseteq graph', dropped \subseteq dropped', deleted \subseteq deleted'
  PROVE  NoneWorse
BY DEF NoneWorse, CanGo, Came

LEMMA UpsertGrows ==
  ASSUME NEW x, Upsert(x)
  PROVE  graph \subseteq graph'
BY DEF Upsert

LEMMA DeleteDetaches ==
  ASSUME StoreTypeOK, NEW gone \in SUBSET Nodes, Delete(gone)
  PROVE  NoneWorse
<1> SUFFICES ASSUME NEW x \in Relations
             PROVE  /\ CanGo(x, graph, deleted) => CanGo(x, graph', deleted')
                    /\ Came(x, graph, dropped, deleted) => Came(x, graph', dropped', deleted')
  BY DEF NoneWorse
<1>1. /\ graph' = {y \in graph \ gone : y \in Relations => {Source(y), Target(y)} \cap gone = {}}
      /\ deleted' = deleted \cup gone /\ dropped' = dropped
  BY DEF Delete, queueVars
<1>2. x \notin Nodes /\ Source(x) \in Nodes /\ Target(x) \in Nodes /\ Nodes \cap Relations = {}
  BY Handed, SourcesAreNodes
<1>3. \A n \in Nodes : n \in graph => n \in graph' \/ n \in gone
  BY <1>1, <1>2
<1>4. {Source(x), Target(x)} \cap deleted # {} => {Source(x), Target(x)} \cap deleted' # {}
  BY <1>1
<1>5. {Source(x), Target(x)} \subseteq graph => CanGo(x, graph', deleted')
  BY <1>1, <1>2, <1>3 DEF CanGo
<1>6. x \in graph => x \in graph' \/ {Source(x), Target(x)} \cap deleted' # {}
  BY <1>1, <1>2
<1>7. QED
  BY <1>1, <1>4, <1>5, <1>6 DEF CanGo, Came

(* What was handled is the beginning of what has entered.                  *)
LEMMA Beginning ==
  ASSUME NEW S, NEW h \in Seq(S), NEW b \in Seq(S), NEW q \in Seq(Seq(S)), NEW e \in Seq(S),
         e = Line(h, b, q), NEW i \in DOMAIN h
  PROVE  i \in DOMAIN e /\ e[i] = h[i]
<1> DEFINE r == FlattenSeq(q)
<1>1. r \in Seq(S) /\ e = h \o b \o r
  BY FlattenType DEF Line
<1> HIDE DEF r
<1>2. QED
  BY <1>1

LEMMA HandledFirst ==
  ASSUME BatchTypeOK, HandledInOrder, NEW k \in Kinds, NEW i \in DOMAIN handled[k]
  PROVE  i \in DOMAIN entered[k] /\ entered[k][i] = handled[k][i]
<1> DEFINE item == Nodes \cup Relations
<1>1. /\ handled[k] \in Seq(item) /\ buffer[k] \in Seq(item)
      /\ queue[k] \in Seq(Seq(item)) /\ entered[k] \in Seq(item)
  BY DEF BatchTypeOK
<1>2. entered[k] = Line(handled[k], buffer[k], queue[k])
  BY DEF HandledInOrder, Line
<1> HIDE DEF item
<1>3. QED
  BY <1>1, <1>2, Beginning

LEMMA HandledFirstNext ==
  ASSUME BatchTypeOK', HandledInOrder', NEW k \in Kinds, NEW i \in DOMAIN handled'[k]
  PROVE  i \in DOMAIN entered'[k] /\ entered'[k][i] = handled'[k][i]
<1> DEFINE item == Nodes \cup Relations
<1>1. /\ handled'[k] \in Seq(item) /\ buffer'[k] \in Seq(item)
      /\ queue'[k] \in Seq(Seq(item)) /\ entered'[k] \in Seq(item)
  BY DEF BatchTypeOK
<1>2. entered'[k] = Line(handled'[k], buffer'[k], queue'[k])
  BY DEF HandledInOrder, Line
<1> HIDE DEF item
<1>3. QED
  BY <1>1, <1>2, Beginning

(* A step that hands over nothing, worsens nothing and lets what it        *)
(* handles come if it can go.                                              *)
LEMMA StillArriving ==
  ASSUME HandledInOrder, HandledInOrder', BatchTypeOK, BatchTypeOK',
         SafeIsWritable, AttachedRelationsArrive, NoneWorse, entered' = entered, safe' = safe,
         \A i \in DOMAIN handled'["relations"] :
           \/ i \in DOMAIN handled["relations"]
           \/ CanGo(handled'["relations"][i], graph, deleted)
                => Came(handled'["relations"][i], graph', dropped', deleted')
  PROVE  SafeIsWritable' /\ AttachedRelationsArrive'
<1>0. "relations" \in Kinds
  BY DEF Kinds
<1>1. SafeIsWritable'
  BY DEF SafeIsWritable, NoneWorse
<1>2. \A i \in DOMAIN handled'["relations"] : handled'["relations"][i] = entered["relations"][i]
  BY <1>0, HandledFirstNext
<1>3. ASSUME NEW i \in safe, i \in DOMAIN handled'["relations"]
      PROVE  Came(handled'["relations"][i], graph', dropped', deleted')
  <2> DEFINE x == entered["relations"][i]
  <2>1. x \in Relations /\ CanGo(x, graph, deleted)
    BY DEF SafeIsWritable
  <2>2. handled'["relations"][i] = x
    BY <1>2, <1>3
  <2> HIDE DEF x
  <2>3. CASE i \in DOMAIN handled["relations"]
    <3>1. handled["relations"][i] = x
      BY <1>0, <2>3, HandledFirst DEF x
    <3>2. Came(x, graph, dropped, deleted)
      BY <2>3, <3>1 DEF AttachedRelationsArrive, Came
    <3>3. QED
      BY <2>1, <2>2, <3>2 DEF NoneWorse
  <2>4. CASE i \notin DOMAIN handled["relations"]
    BY <1>3, <2>1, <2>2, <2>4
  <2>5. QED
    BY <2>3, <2>4
<1>4. AttachedRelationsArrive'
  BY <1>3 DEF AttachedRelationsArrive, Came
<1>5. QED
  BY <1>1, <1>4

(* What is handed over now is looked up in the graph now.                  *)
LEMMA EnqueueArrives ==
  ASSUME BatchTypeOK, SafeIsWritable, AttachedRelationsArrive, HandledInOrder,
         NEW s \in Submitters, Enqueue(s), deleted' = deleted
  PROVE  SafeIsWritable' /\ AttachedRelationsArrive'
<1> DEFINE b == Next1(s)
           e == entered["relations"]
           item == Nodes \cup Relations
<1>1. /\ Ready(s)
      /\ entered' = [entered EXCEPT ![b.kind] = entered[b.kind] \o b.items]
      /\ safe' = IF b.kind = "nodes" THEN safe
                 ELSE safe \cup {Len(entered[b.kind]) + i : i \in Attached(b.items)}
      /\ UNCHANGED <<graph, handled, dropped>>
  BY DEF Enqueue
<1>2. b.kind \in {"nodes", "relations"} /\ b.items \in Seq(item)
  BY <1>1, NextBatch DEF Kinds
<1>3. entered \in [Kinds -> Seq(item)] /\ e \in Seq(item) /\ handled \in [Kinds -> Seq(item)]
  BY DEF BatchTypeOK, Kinds
<1>4. "relations" \in Kinds /\ "nodes" \in Kinds
  BY DEF Kinds
<1> HIDE DEF b, item
<1>5. CASE b.kind = "nodes"
  <2>1. entered'["relations"] = e /\ safe' = safe
    BY <1>1, <1>3, <1>4, <1>5
  <2>2. QED
    BY <1>1, <2>1 DEF SafeIsWritable, AttachedRelationsArrive
<1>6. CASE b.kind = "relations"
  <2>1. /\ entered'["relations"] = e \o b.items
        /\ safe' = safe \cup {Len(e) + i : i \in Attached(b.items)}
    BY <1>1, <1>3, <1>4, <1>6
  <2>2. \A i \in safe : i \in DOMAIN e /\ e[i] \in Relations /\ CanGo(e[i], graph, deleted)
    BY DEF SafeIsWritable
  <2> HIDE DEF e
  <2>3. /\ \A i \in DOMAIN e : i \in DOMAIN (e \o b.items) /\ (e \o b.items)[i] = e[i]
        /\ \A i \in DOMAIN b.items : /\ Len(e) + i \in DOMAIN (e \o b.items)
                                     /\ (e \o b.items)[Len(e) + i] = b.items[i]
        /\ \A i \in DOMAIN b.items : Len(e) + i \notin DOMAIN e
    <3> DEFINE new == b.items
    <3>1. e \in Seq(item) /\ new \in Seq(item)
      BY <1>2, <1>3
    <3> HIDE DEF new
    <3>2. /\ \A i \in DOMAIN e : i \in DOMAIN (e \o new) /\ (e \o new)[i] = e[i]
          /\ \A i \in DOMAIN new : /\ Len(e) + i \in DOMAIN (e \o new)
                                   /\ (e \o new)[Len(e) + i] = new[i]
          /\ \A i \in DOMAIN new : Len(e) + i \notin DOMAIN e
      BY <3>1
    <3>3. QED
      BY <3>2 DEF new
  <2>4. \A i \in Attached(b.items) :
          i \in DOMAIN b.items /\ b.items[i] \in Relations /\ CanGo(b.items[i], graph, deleted)
    BY DEF Attached, HasEnds, CanGo
  <2>5. \A i \in safe' : /\ i \in DOMAIN (e \o b.items)
                         /\ (e \o b.items)[i] \in Relations
                         /\ CanGo((e \o b.items)[i], graph, deleted)
    <3>1. ASSUME NEW i \in safe
          PROVE  /\ i \in DOMAIN (e \o b.items)
                 /\ (e \o b.items)[i] \in Relations
                 /\ CanGo((e \o b.items)[i], graph, deleted)
      BY <2>2, <2>3
    <3>2. ASSUME NEW i \in Attached(b.items)
          PROVE  /\ Len(e) + i \in DOMAIN (e \o b.items)
                 /\ (e \o b.items)[Len(e) + i] \in Relations
                 /\ CanGo((e \o b.items)[Len(e) + i], graph, deleted)
      BY <2>3, <2>4
    <3>3. QED
      BY <2>1, <3>1, <3>2
  <2>6. SafeIsWritable'
    BY <1>1, <2>1, <2>5 DEF SafeIsWritable
  <2>7. safe' \cap DOMAIN handled["relations"] = safe \cap DOMAIN handled["relations"]
    <3>1. DOMAIN handled["relations"] \subseteq DOMAIN e
      BY <1>4, HandledFirst DEF e
    <3>2. QED
      BY <2>1, <2>3, <2>4, <3>1
  <2>8. AttachedRelationsArrive'
    BY <1>1, <2>7 DEF AttachedRelationsArrive
  <2>9. QED
    BY <2>6, <2>8
<1>7. QED
  BY <1>2, <1>5, <1>6

(* What a worker has handled has been written if it could, or was given up.*)
LEMMA WorkArrives ==
  ASSUME BatchInv, NEW k \in Kinds, Work(k), deleted' = deleted
  PROVE  /\ NoneWorse /\ entered' = entered /\ safe' = safe
         /\ \A i \in DOMAIN handled'["relations"] :
              \/ i \in DOMAIN handled["relations"]
              \/ CanGo(handled'["relations"][i], graph, deleted)
                   => Came(handled'["relations"][i], graph', dropped', deleted')
<1> DEFINE item == Nodes \cup Relations
           h == handled[k]
           b == buffer[k]
<1>1. /\ handled \in [Kinds -> Seq(item)] /\ buffer \in [Kinds -> Seq(item)]
      /\ h \in Seq(item) /\ b \in Seq(item) /\ "relations" \in Kinds
  BY DEF BatchInv, BatchTypeOK, Kinds
<1>2. Flushing(k) => b # << >>
  BY DEF BatchInv, FlushHasItems
<1>3. entered' = entered /\ safe' = safe
  BY DEF Work, Take, FlushOnTick, Quit, Write, WriteFails
<1> HIDE DEF item
<1>4. CASE Take(k) \/ FlushOnTick(k) \/ Quit(k)
  <2>1. UNCHANGED <<graph, dropped, handled>>
    BY <1>4 DEF Take, FlushOnTick, Quit
  <2>2. QED
    BY <1>3, <2>1, GrowthHelps
<1>5. CASE Write(k)
  <2>1. /\ Flushing(k) /\ Upsert(Head(b)) /\ dropped' = dropped
        /\ handled' = [handled EXCEPT ![k] = Append(h, Head(b))]
    BY <1>5 DEF Write
  <2>2. NoneWorse
    BY <2>1, GrowthHelps, UpsertGrows
  <2>3. CASE k # "relations"
    <3>1. handled'["relations"] = handled["relations"]
      BY <1>1, <2>1, <2>3
    <3>2. QED
      BY <1>3, <2>2, <3>1
  <2>4. CASE k = "relations"
    <3>1. handled'["relations"] = Append(h, Head(b)) /\ Head(b) \in item
      BY <1>1, <1>2, <2>1, <2>4
    <3> DEFINE x == Head(b)
    <3>2. CanGo(x, graph, deleted) => Came(x, graph', dropped', deleted')
      BY <2>1 DEF Upsert, HasEnds, CanGo, Came
    <3> HIDE DEF h, x
    <3>3. \A i \in DOMAIN Append(h, x) : i \in DOMAIN h \/ Append(h, x)[i] = x
      BY <1>1, <3>1 DEF x
    <3>4. \A i \in DOMAIN handled'["relations"] :
            i \in DOMAIN handled["relations"] \/ handled'["relations"][i] = x
      BY <2>4, <3>1, <3>3 DEF h, x
    <3>5. QED
      BY <1>3, <2>2, <3>2, <3>4
  <2>5. QED
    BY <2>3, <2>4
<1>6. CASE WriteFails(k)
  <2>1. /\ graph' = graph
        /\ dropped' = dropped \cup Of(b)
        /\ handled' = [handled EXCEPT ![k] = h \o b]
    BY <1>6 DEF WriteFails
  <2>2. NoneWorse
    BY <2>1, GrowthHelps
  <2>3. CASE k # "relations"
    <3>1. handled'["relations"] = handled["relations"]
      BY <1>1, <2>1, <2>3
    <3>2. QED
      BY <1>3, <2>2, <3>1
  <2>4. CASE k = "relations"
    <3>1. handled'["relations"] = h \o b /\ h = handled["relations"]
      BY <1>1, <2>1, <2>4
    <3>2. \A i \in DOMAIN b : b[i] \in dropped'
      BY <2>1 DEF Of
    <3> HIDE DEF h, b
    <3>3. \A i \in DOMAIN (h \o b) : i \in DOMAIN h \/ \E j \in DOMAIN b : (h \o b)[i] = b[j]
      <4> SUFFICES ASSUME NEW i \in DOMAIN (h \o b), i \notin DOMAIN h
                   PROVE  i - Len(h) \in DOMAIN b /\ (h \o b)[i] = b[i - Len(h)]
        OBVIOUS
      <4>1. QED
        BY <1>1
    <3>4. \A i \in DOMAIN (h \o b) : i \in DOMAIN h \/ (h \o b)[i] \in dropped'
      BY <3>2, <3>3
    <3>5. \A i \in DOMAIN handled'["relations"] :
            i \in DOMAIN handled["relations"] \/ handled'["relations"][i] \in dropped'
      BY <3>1, <3>4
    <3>6. QED
      BY <1>3, <2>2, <3>5 DEF Came
  <2>5. QED
    BY <2>3, <2>4
<1>7. QED
  BY <1>4, <1>5, <1>6 DEF Work

LEMMA OthersArrive ==
  ASSUME StoreInv, [Next]_vars,
         ~ (UNCHANGED storeVars /\ \E s \in Submitters : Enqueue(s)),
         ~ (UNCHANGED storeVars /\ \E k \in Kinds : Work(k))
  PROVE  NoneWorse /\ entered' = entered /\ safe' = safe /\ handled' = handled
<1>1. ASSUME NEW s \in Submitters, Submit(s), UNCHANGED storeVars
      PROVE  NoneWorse /\ entered' = entered /\ safe' = safe /\ handled' = handled
  <2>1. deleted' = deleted
    BY <1>1 DEF storeVars
  <2>2. CASE SubmitNothing(s) \/ SubmitCancelled(s) \/ WriteLarge(s) \/ WriteOwnFails(s)
    BY <2>1, <2>2, GrowthHelps DEF SubmitNothing, SubmitCancelled, WriteLarge, WriteOwnFails
  <2>3. CASE WriteOwn(s)
    BY <2>1, <2>3, GrowthHelps, UpsertGrows DEF WriteOwn
  <2>4. QED
    BY <1>1, <2>2, <2>3 DEF Submit
<1>2. CASE Control /\ UNCHANGED storeVars
  BY <1>2, GrowthHelps DEF Control, Start, Stop, Cancel, storeVars
<1>3. ASSUME NEW r \in Readers, ReaderStep(r) \/ \E q \in Queries : Read(r, q)
      PROVE  NoneWorse /\ entered' = entered /\ safe' = safe /\ handled' = handled
  <2>1. UNCHANGED <<graph, queueVars, deleted>>
    BY <1>3 DEF ReaderStep, Get, Evict, Query, QueryFails, Fill, Read
  <2>2. QED
    BY <2>1, GrowthHelps DEF queueVars
<1>4. ASSUME NEW x \in Nodes \cup Relations, UpsertDirect(x)
      PROVE  NoneWorse /\ entered' = entered /\ safe' = safe /\ handled' = handled
  BY <1>4, GrowthHelps, UpsertGrows DEF UpsertDirect, queueVars
<1>5. ASSUME NEW gone \in SUBSET Nodes, Delete(gone)
      PROVE  NoneWorse /\ entered' = entered /\ safe' = safe /\ handled' = handled
  BY <1>5, DeleteDetaches DEF Delete, queueVars, StoreInv
<1>6. CASE ClearCache \/ Tick \/ UNCHANGED vars
  BY <1>6, GrowthHelps DEF ClearCache, Tick, vars, queueVars, storeVars
<1>7. ASSUME NEW f \in Files, DeleteNodesByFile(f)
      PROVE  NoneWorse /\ entered' = entered /\ safe' = safe /\ handled' = handled
  BY <1>5, <1>7 DEF DeleteNodesByFile, NodesOf
<1>8. CASE DeleteNodesByProject
  BY <1>5, <1>8 DEF DeleteNodesByProject
<1>9. QED
  BY <1>1, <1>2, <1>3, <1>4, <1>6, <1>7, <1>8 DEF Next, Handling

LEMMA ArrivalStep ==
  StoreInv /\ HandledInOrder /\ SafeIsWritable /\ AttachedRelationsArrive /\ [Next]_vars
    => SafeIsWritable' /\ AttachedRelationsArrive'
<1> SUFFICES ASSUME StoreInv, HandledInOrder, SafeIsWritable, AttachedRelationsArrive, [Next]_vars
             PROVE  SafeIsWritable' /\ AttachedRelationsArrive'
  OBVIOUS
<1>1. BatchInv /\ BatchTypeOK /\ BatchTypeOK' /\ HandledInOrder'
  BY StoreStep, OrderStep DEF StoreInv, StoreTypeOK, BatchInv
<1>2. CASE UNCHANGED storeVars /\ \E s \in Submitters : Enqueue(s)
  BY <1>1, <1>2, EnqueueArrives DEF storeVars
<1>3. CASE UNCHANGED storeVars /\ \E k \in Kinds : Work(k)
  <2>1. PICK k \in Kinds : Work(k)
    BY <1>3
  <2>2. deleted' = deleted
    BY <1>3 DEF storeVars
  <2>3. QED
    BY <1>1, <2>1, <2>2, WorkArrives, StillArriving
<1>4. CASE ~ (UNCHANGED storeVars /\ \E s \in Submitters : Enqueue(s))
             /\ ~ (UNCHANGED storeVars /\ \E k \in Kinds : Work(k))
  BY <1>1, <1>4, OthersArrive, StillArriving
<1>5. QED
  BY <1>2, <1>3, <1>4

(* Whatever graph it finds and whoever writes meanwhile, a relation handed *)
(* over when its nodes were there is in the graph once its worker is done  *)
(* with it, unless its write failed or an end was deleted.                 *)
THEOREM StoreAttachedRelationsArrive == Spec => []AttachedRelationsArrive
<1>1. Init => SafeIsWritable /\ AttachedRelationsArrive
  BY DEF Init, BatchInit, SafeIsWritable, AttachedRelationsArrive
<1>2. QED
  BY <1>1, ArrivalStep, StoreInvariance, StoreHandledInOrder, PTL DEF Spec
-----------------------------------------------------------------------------
(* What the workers have to do with is of their kind: node batches are     *)
(* handed over, wait, are taken and handled as nodes.                      *)
KindsFit ==
  /\ \A s \in Submitters : \A i \in DOMAIN plan[s] :
       plan[s][i].items \in Seq(Items(plan[s][i].kind))
  /\ queue["nodes"] \in Seq(Seq(Nodes))
  /\ buffer["nodes"] \in Seq(Nodes)
  /\ handled["nodes"] \in Seq(Nodes)

\* A node that has been handled is one of these.
Accounted == graph \cup dropped \cup deleted

LEMMA KindsFitInit == Init => KindsFit
<1> SUFFICES ASSUME Init
             PROVE  KindsFit
  OBVIOUS
<1>1. "nodes" \in Kinds /\ plan \in Plans
  BY DEF Init, BatchInit, Kinds
<1>2. \A s \in Submitters : \A i \in DOMAIN plan[s] :
        plan[s][i].items \in Seq(Items(plan[s][i].kind))
  BY <1>1, QueueAssumption
<1>3. queue["nodes"] = << >> /\ buffer["nodes"] = << >> /\ handled["nodes"] = << >>
  BY <1>1 DEF Init, BatchInit
<1>4. QED
  BY <1>2, <1>3 DEF KindsFit

(* A batch that returns leaves the batches after it as they were.          *)
LEMMA PlanFits ==
  ASSUME BatchTypeOK, KindsFit, NEW s \in Submitters, plan[s] # << >>, Returned(s)
  PROVE  \A t \in Submitters : \A i \in DOMAIN plan'[t] :
           plan'[t][i].items \in Seq(Items(plan'[t][i].kind))
<1> SUFFICES ASSUME NEW t \in Submitters, NEW i \in DOMAIN plan'[t]
             PROVE  plan'[t][i].items \in Seq(Items(plan'[t][i].kind))
  OBVIOUS
<1>1. plan \in [Submitters -> Seq(Batch)] /\ plan[s] \in Seq(Batch)
  BY DEF BatchTypeOK
<1>2. CASE t = s
  <2>1. plan'[t] = Tail(plan[s])
    BY <1>1, <1>2 DEF Returned
  <2>2. i + 1 \in DOMAIN plan[s] /\ plan'[t][i] = plan[s][i + 1]
    BY <1>1, <2>1
  <2>3. QED
    BY <2>2 DEF KindsFit
<1>3. CASE t # s
  <2>1. plan'[t] = plan[t]
    BY <1>1, <1>3 DEF Returned
  <2>2. QED
    BY <2>1 DEF KindsFit
<1>4. QED
  BY <1>2, <1>3

LEMMA SubmitFits ==
  ASSUME BatchInv, KindsFit, NEW s \in Submitters, Submit(s)
  PROVE  KindsFit'
<1>1. BatchTypeOK /\ "nodes" \in Kinds
  BY DEF BatchInv, Kinds
<1>2. plan[s] # << >>
  BY DEF Submit, SubmitNothing, Enqueue, SubmitCancelled, WriteLarge, WriteOwn, WriteOwnFails,
         Ready, BatchInv, WritingIsHanded
<1>3. \A t \in Submitters : \A i \in DOMAIN plan'[t] :
        plan'[t][i].items \in Seq(Items(plan'[t][i].kind))
  <2>1. CASE Returned(s)
    BY <1>1, <1>2, <2>1, PlanFits
  <2>2. CASE UNCHANGED plan
    BY <2>2 DEF KindsFit
  <2>3. QED
    BY <2>1, <2>2 DEF Submit, SubmitNothing, Enqueue, SubmitCancelled, WriteLarge, WriteOwn,
                      WriteOwnFails
<1>4. UNCHANGED <<buffer, handled>>
  BY DEF Submit, SubmitNothing, Enqueue, SubmitCancelled, WriteLarge, WriteOwn, WriteOwnFails
<1>5. queue'["nodes"] \in Seq(Seq(Nodes))
  <2>1. CASE Enqueue(s)
    <3> DEFINE b == Next1(s)
    <3>1. /\ queue \in [Kinds -> Seq(Seq(Nodes \cup Relations))]
          /\ queue' = [queue EXCEPT ![b.kind] = Append(queue[b.kind], b.items)]
      BY <1>1, <2>1 DEF Enqueue, BatchTypeOK
    <3>2. plan[s] \in Seq(Batch) /\ 1 \in DOMAIN plan[s] /\ b = plan[s][1]
      <4>1. plan[s] \in Seq(Batch) /\ plan[s] # << >> /\ b = Head(plan[s])
        BY <1>1, <1>2 DEF BatchTypeOK, Next1
      <4> HIDE DEF b
      <4>2. QED
        BY <4>1
    <3>3. b.items \in Seq(Items(b.kind))
      BY <3>2 DEF KindsFit
    <3> HIDE DEF b
    <3>4. CASE b.kind = "nodes"
      <4>1. queue'["nodes"] = Append(queue["nodes"], b.items) /\ b.items \in Seq(Nodes)
        BY <1>1, <3>1, <3>3, <3>4 DEF Items
      <4>2. QED
        BY <4>1 DEF KindsFit
    <3>5. CASE b.kind # "nodes"
      BY <1>1, <3>1, <3>5 DEF KindsFit
    <3>6. QED
      BY <3>4, <3>5
  <2>2. CASE ~ Enqueue(s)
    BY <2>2 DEF Submit, SubmitNothing, SubmitCancelled, WriteLarge, WriteOwn, WriteOwnFails,
                KindsFit
  <2>3. QED
    BY <2>1, <2>2
<1>6. QED
  BY <1>3, <1>4, <1>5 DEF KindsFit

LEMMA WorkFits ==
  ASSUME BatchInv, KindsFit, NEW k \in Kinds, Work(k)
  PROVE  KindsFit'
<1>1. plan' = plan
  BY DEF Work, Take, FlushOnTick, Quit, Write, WriteFails
<1>2. /\ queue \in [Kinds -> Seq(Seq(Nodes \cup Relations))] /\ "nodes" \in Kinds
      /\ buffer \in [Kinds -> Seq(Nodes \cup Relations)]
      /\ handled \in [Kinds -> Seq(Nodes \cup Relations)]
  BY DEF BatchInv, BatchTypeOK, Kinds
<1>3. /\ queue["nodes"] \in Seq(Seq(Nodes)) /\ buffer["nodes"] \in Seq(Nodes)
      /\ handled["nodes"] \in Seq(Nodes)
  BY DEF KindsFit
<1>4. Flushing(k) => buffer[k] # << >>
  BY DEF BatchInv, FlushHasItems
<1>5. /\ queue'["nodes"] \in Seq(Seq(Nodes)) /\ buffer'["nodes"] \in Seq(Nodes)
      /\ handled'["nodes"] \in Seq(Nodes)
  <2>1. CASE k # "nodes"
    BY <1>2, <1>3, <2>1 DEF Work, Take, FlushOnTick, Quit, Write, WriteFails
  <2>2. CASE k = "nodes" /\ Take(k)
    <3>1. /\ queue["nodes"] # << >> /\ queue'["nodes"] = Tail(queue["nodes"])
          /\ buffer'["nodes"] = buffer["nodes"] \o Head(queue["nodes"])
          /\ handled' = handled
      BY <1>2, <2>2 DEF Take
    <3>2. Head(queue["nodes"]) \in Seq(Nodes) /\ Tail(queue["nodes"]) \in Seq(Seq(Nodes))
      BY <1>3, <3>1, HeadTailProperties
    <3>3. QED
      BY <1>3, <3>1, <3>2
  <2>3. CASE k = "nodes" /\ (FlushOnTick(k) \/ Quit(k))
    BY <1>3, <2>3 DEF FlushOnTick, Quit
  <2>4. CASE k = "nodes" /\ Write(k)
    BY <1>2, <1>3, <1>4, <2>4 DEF Write
  <2>5. CASE k = "nodes" /\ WriteFails(k)
    BY <1>2, <1>3, <2>5 DEF WriteFails
  <2>6. QED
    BY <2>1, <2>2, <2>3, <2>4, <2>5 DEF Work
<1>6. QED
  BY <1>1, <1>5 DEF KindsFit

(* A worker accounts for each node that it handles.                        *)
LEMMA WorkIsHandled ==
  ASSUME BatchInv, KindsFit, TakenIsHandled, NEW k \in Kinds, Work(k), deleted' = deleted
  PROVE  TakenIsHandled'
<1>1. /\ "nodes" \in Kinds /\ worker \in [Kinds -> {"off", "select", "flush", "last flush", "done"}]
      /\ buffer \in [Kinds -> Seq(Nodes \cup Relations)]
      /\ handled \in [Kinds -> Seq(Nodes \cup Relations)]
  BY DEF BatchInv, BatchTypeOK, Kinds
<1>2. /\ buffer["nodes"] \in Seq(Nodes) /\ handled["nodes"] \in Seq(Nodes)
      /\ Flushing(k) => buffer[k] # << >>
  BY DEF KindsFit, BatchInv, FlushHasItems
<1>3. \A j \in Kinds : worker[j] = "done" => buffer[j] = << >>
  BY DEF TakenIsHandled
<1>4. \A j \in Kinds : worker'[j] = "done" => buffer'[j] = << >>
  <2> SUFFICES ASSUME NEW j \in Kinds, worker'[j] = "done"
               PROVE  buffer'[j] = << >>
    OBVIOUS
  <2>1. CASE j # k
    BY <1>1, <1>3, <2>1 DEF Work, Take, FlushOnTick, Quit, Write, WriteFails
  <2>2. CASE j = k
    BY <1>1, <1>3, <2>2 DEF Work, Take, FlushOnTick, Quit, Write, WriteFails, After, Flushing
  <2>3. QED
    BY <2>1, <2>2
<1>5. Of(handled["nodes"]) \subseteq Accounted
  BY DEF TakenIsHandled, Accounted
<1>6. Of(handled'["nodes"]) \subseteq Accounted'
  <2>1. CASE Take(k) \/ FlushOnTick(k) \/ Quit(k)
    <3>1. UNCHANGED <<handled, graph, dropped, deleted>>
      BY <2>1 DEF Take, FlushOnTick, Quit
    <3>2. QED
      BY <1>5, <3>1 DEF Accounted
  <2>2. CASE Write(k)
    <3>1. /\ Upsert(Head(buffer[k])) /\ UNCHANGED <<dropped, deleted>> /\ Flushing(k)
          /\ handled' = [handled EXCEPT ![k] = Append(handled[k], Head(buffer[k]))]
      BY <2>2 DEF Write
    <3>2. Accounted \subseteq Accounted'
      BY <3>1, UpsertGrows DEF Accounted
    <3>3. CASE k # "nodes"
      BY <1>1, <1>5, <3>1, <3>2, <3>3
    <3>4. CASE k = "nodes"
      <4> DEFINE n == Head(buffer["nodes"])
                 h == handled["nodes"]
      <4>1. n \in Nodes /\ handled'["nodes"] = Append(h, n)
        <5>1. buffer["nodes"] \in Seq(Nodes) /\ buffer["nodes"] # << >>
          BY <1>2, <3>1, <3>4
        <5>2. n \in Nodes
          BY <5>1, HeadTailProperties
        <5>3. QED
          BY <1>1, <3>1, <3>4, <5>2
      <4>2. n \in graph'
        BY <3>1, <3>4, <4>1, Handed DEF Upsert
      <4>3. Of(Append(h, n)) = Of(h) \cup {n}
        <5> HIDE DEF h, n
        <5>1. h \in Seq(Nodes)
          BY <1>2 DEF h
        <5>2. QED
          BY <4>1, <5>1 DEF Of
      <4>4. QED
        BY <1>5, <3>2, <4>1, <4>2, <4>3 DEF Accounted
    <3>5. QED
      BY <3>3, <3>4
  <2>3. CASE WriteFails(k)
    <3>1. /\ UNCHANGED <<graph, deleted>> /\ dropped' = dropped \cup Of(buffer[k])
          /\ handled' = [handled EXCEPT ![k] = handled[k] \o buffer[k]]
      BY <2>3 DEF WriteFails
    <3>2. Accounted \subseteq Accounted' /\ Of(buffer[k]) \subseteq Accounted'
      BY <3>1 DEF Accounted
    <3>3. CASE k # "nodes"
      BY <1>1, <1>5, <3>1, <3>2, <3>3
    <3>4. CASE k = "nodes"
      <4> DEFINE b == buffer["nodes"]
                 h == handled["nodes"]
      <4>1. handled'["nodes"] = h \o b
        BY <1>1, <3>1, <3>4
      <4>2. Of(h \o b) \subseteq Of(h) \cup Of(b)
        <5> HIDE DEF h, b
        <5>1. h \in Seq(Nodes) /\ b \in Seq(Nodes)
          BY <1>2 DEF h, b
        <5>2. QED
          BY <5>1 DEF Of
      <4>3. QED
        BY <1>5, <3>2, <3>4, <4>1, <4>2
    <3>5. QED
      BY <3>3, <3>4
  <2>4. QED
    BY <2>1, <2>2, <2>3 DEF Work
<1>7. QED
  BY <1>4, <1>6 DEF TakenIsHandled, Accounted
\* A step that is no worker's: every node accounted for stays so.
Uninvolved ==
  /\ handled' = handled /\ buffer' = buffer
  /\ worker' = worker \/ worker' = [k \in Kinds |-> "select"]
  /\ Accounted \cap Nodes \subseteq Accounted'

LEMMA UninvolvedIsHandled ==
  ASSUME BatchTypeOK, KindsFit, TakenIsHandled, Uninvolved
  PROVE  TakenIsHandled'
<1>1. Of(handled["nodes"]) \subseteq Nodes
  BY OfType DEF KindsFit
<1>2. Of(handled'["nodes"]) \subseteq Accounted'
  BY <1>1 DEF Uninvolved, TakenIsHandled, Accounted
<1>3. \A k \in Kinds : worker'[k] = "done" => buffer'[k] = << >>
  BY DEF Uninvolved, TakenIsHandled
<1>4. QED
  BY <1>2, <1>3 DEF TakenIsHandled, Accounted

LEMMA OthersAreUninvolved ==
  ASSUME StoreInv, [Next]_vars, ~ (UNCHANGED storeVars /\ \E k \in Kinds : Work(k))
  PROVE  Uninvolved
<1>1. ASSUME NEW s \in Submitters, Submit(s), UNCHANGED storeVars
      PROVE  Uninvolved
  <2>1. deleted' = deleted /\ UNCHANGED <<handled, buffer, worker>>
    BY <1>1 DEF storeVars, Submit, SubmitNothing, Enqueue, SubmitCancelled, WriteLarge, WriteOwn,
                WriteOwnFails
  <2>2. graph \subseteq graph' /\ dropped \subseteq dropped'
    BY <1>1, UpsertGrows DEF Submit, SubmitNothing, Enqueue, SubmitCancelled, WriteLarge,
                             WriteOwn, WriteOwnFails
  <2>3. QED
    BY <2>1, <2>2 DEF Uninvolved, Accounted
<1>2. CASE Control /\ UNCHANGED storeVars
  BY <1>2 DEF Control, Start, Stop, Cancel, storeVars, Uninvolved, Accounted
<1>3. ASSUME NEW r \in Readers, ReaderStep(r) \/ \E q \in Queries : Read(r, q)
      PROVE  Uninvolved
  <2>1. UNCHANGED <<graph, queueVars, deleted>>
    BY <1>3 DEF ReaderStep, Get, Evict, Query, QueryFails, Fill, Read
  <2>2. QED
    BY <2>1 DEF queueVars, Uninvolved, Accounted
<1>4. ASSUME NEW x \in Nodes \cup Relations, UpsertDirect(x)
      PROVE  Uninvolved
  BY <1>4, UpsertGrows DEF UpsertDirect, queueVars, Uninvolved, Accounted
<1>5. ASSUME NEW gone \in SUBSET Nodes, Delete(gone)
      PROVE  Uninvolved
  BY <1>5, Handed DEF Delete, queueVars, Uninvolved, Accounted
<1>6. CASE ClearCache \/ Tick \/ UNCHANGED vars
  BY <1>6 DEF ClearCache, Tick, vars, queueVars, storeVars, Uninvolved, Accounted
<1>7. ASSUME NEW f \in Files, DeleteNodesByFile(f)
      PROVE  Uninvolved
  BY <1>5, <1>7 DEF DeleteNodesByFile, NodesOf
<1>8. CASE DeleteNodesByProject
  BY <1>5, <1>8 DEF DeleteNodesByProject
<1>9. QED
  BY <1>1, <1>2, <1>3, <1>4, <1>6, <1>7, <1>8 DEF Next, Handling

LEMMA KindsFitStep == StoreInv /\ KindsFit /\ [Next]_vars => KindsFit'
<1> SUFFICES ASSUME StoreInv, KindsFit, [Next]_vars
             PROVE  KindsFit'
  OBVIOUS
<1>1. BatchInv
  BY DEF StoreInv, StoreTypeOK, BatchInv
<1>2. CASE Handling
  BY <1>1, <1>2, SubmitFits, WorkFits DEF Handling
<1>3. CASE ~ Handling
  <2>1. UNCHANGED <<plan, queue, buffer, handled>>
    BY <1>3 DEF Next, Control, Start, Stop, Cancel, ReaderStep, Get, Evict, Query, QueryFails,
                Fill, Read, UpsertDirect, DeleteNodesByFile, DeleteNodesByProject, Delete,
                ClearCache, Tick, vars, queueVars
  <2>2. QED
    BY <2>1 DEF KindsFit
<1>4. QED
  BY <1>2, <1>3

LEMMA TakenStep ==
  StoreInv /\ KindsFit /\ TakenIsHandled /\ [Next]_vars => TakenIsHandled'
<1> SUFFICES ASSUME StoreInv, KindsFit, TakenIsHandled, [Next]_vars
             PROVE  TakenIsHandled'
  OBVIOUS
<1>1. BatchInv /\ BatchTypeOK
  BY DEF StoreInv, StoreTypeOK, BatchInv
<1>2. CASE UNCHANGED storeVars /\ \E k \in Kinds : Work(k)
  <2>1. deleted' = deleted
    BY <1>2 DEF storeVars
  <2>2. QED
    BY <1>1, <1>2, <2>1, WorkIsHandled
<1>3. CASE ~ (UNCHANGED storeVars /\ \E k \in Kinds : Work(k))
  BY <1>1, <1>3, OthersAreUninvolved, UninvolvedIsHandled
<1>4. QED
  BY <1>2, <1>3

(* Stopped or cancelled at any point, a worker handles what it has taken;  *)
(* and the nodes that workers have handled are in the graph, but for those *)
(* of failed flushes and those deleted by somebody, for any batches.       *)
THEOREM StoreTakenIsHandled == Spec => []TakenIsHandled
<1>1. Init => TakenIsHandled
  BY DEF Init, BatchInit, TakenIsHandled, Of, Kinds
<1>2. QED
  BY <1>1, KindsFitInit, KindsFitStep, TakenStep, StoreInvariance, PTL DEF Spec
=============================================================================
