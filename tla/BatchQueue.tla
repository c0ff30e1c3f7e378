----------------------------- MODULE BatchQueue -----------------------------
(***************************************************************************)
(* internal/rag/store/batch_queue.go over the graph it writes: SubmitNodes *)
(* and SubmitRelations, the channel and the worker of each kind, Start and *)
(* Stop.  The two kinds run the same code and are told apart by a value.   *)
(*                                                                         *)
(* A submitter hands over one batch after the other, each when the last    *)
(* has returned.  Any write may fail.  A worker ends when stopCh is closed *)
(* or its context is done, and select takes any of its ready cases.        *)
(***************************************************************************)
EXTENDS Naturals, Sequences, SequencesExt

CONSTANTS
  Nodes, Relations, \* what can be written
  Ends,             \* the source and the target of each relation
  Graphs,           \* what the database may hold at the start
  Submitters,
  Plans,            \* what each submitter may hand over: [kind, items]
  BatchSize

Kinds == {"nodes", "relations"}
Items(k) == IF k = "nodes" THEN Nodes ELSE Relations
Batch == [kind : Kinds, items : Seq(Nodes \cup Relations)]

ASSUME QueueAssumption ==
  /\ BatchSize \in Nat \ {0}
  /\ Ends \in [Relations -> Nodes \X Nodes]
  /\ Nodes \cap Relations = {}
  /\ Graphs \subseteq SUBSET (Nodes \cup Relations)
  /\ Plans \subseteq [Submitters -> Seq(Batch)]
  /\ \A p \in Plans, s \in Submitters : \A i \in DOMAIN p[s] :
       p[s][i].items \in Seq(Items(p[s][i].kind))

VARIABLES
  graph,      \* the nodes and relations that are there
  queue,      \* the channel of each kind
  buffer,     \* what each worker has taken and not yet written
  worker,     \* "off", "select", "flush", "last flush" or "done"
  stopping,   \* Stop has closed stopCh
  cancelled,  \* the workers' context is done
  plan,       \* what each submitter still has to hand over
  writing,    \* the rest of the large batch a submitter is writing itself
  entered,    \* ghost: what has entered each channel, in this order
  handled,    \* ghost: what a worker has written or given up, in this order
  dropped,    \* ghost: items given up after a failed write
  safe        \* ghost: places in entered of relations whose nodes were written by then

queueVars == <<queue, buffer, worker, stopping, cancelled, plan, writing, entered,
               handled, dropped, safe>>

Of(s) == {s[i] : i \in DOMAIN s}
Source(x) == Ends[x][1]
Target(x) == Ends[x][2]
HasEnds(x) == {Source(x), Target(x)} \subseteq graph

BatchTypeOK ==
  /\ graph \in SUBSET (Nodes \cup Relations)
  /\ queue \in [Kinds -> Seq(Seq(Nodes \cup Relations))]
  /\ buffer \in [Kinds -> Seq(Nodes \cup Relations)]
  /\ worker \in [Kinds -> {"off", "select", "flush", "last flush", "done"}]
  /\ stopping \in BOOLEAN
  /\ cancelled \in BOOLEAN
  /\ plan \in [Submitters -> Seq(Batch)]
  /\ writing \in [Submitters -> Seq(Nodes \cup Relations)]
  /\ entered \in [Kinds -> Seq(Nodes \cup Relations)]
  /\ handled \in [Kinds -> Seq(Nodes \cup Relations)]
  /\ dropped \in SUBSET (Nodes \cup Relations)
  /\ safe \in SUBSET Nat

BatchInit ==
  /\ graph \in Graphs
  /\ queue = [k \in Kinds |-> << >>]
  /\ buffer = [k \in Kinds |-> << >>]
  /\ worker = [k \in Kinds |-> "off"]
  /\ stopping = FALSE
  /\ cancelled = FALSE
  /\ plan \in Plans
  /\ writing = [s \in Submitters |-> << >>]
  /\ entered = [k \in Kinds |-> << >>]
  /\ handled = [k \in Kinds |-> << >>]
  /\ dropped = {}
  /\ safe = {}
-----------------------------------------------------------------------------
Slip_Recreate(x) ==
  graph' = IF x \in Relations /\ ~ HasEnds(x) THEN graph
           ELSE {y \in graph : y \in Relations => x \notin {Source(y), Target(y)}} \cup {x}

\* UpsertNode, or UpsertRelation, which creates nothing while an end is missing.
Upsert(x) ==
  graph' = IF x \in Relations /\ ~ HasEnds(x) THEN graph
           ELSE graph \cup {x}

Capacity == 2 * BatchSize

Ready(s) == plan[s] # << >> /\ writing[s] = << >>
Next1(s) == Head(plan[s])
Returned(s) == plan' = [plan EXCEPT ![s] = Tail(plan[s])]

\* The places of relations among items whose ends are in the graph by now.
Attached(items) == {i \in DOMAIN items : items[i] \in Relations /\ HasEnds(items[i])}

\* Lines 51-53, 68-70: nothing to do.
SubmitNothing(s) ==
  /\ Ready(s)
  /\ Next1(s).items = << >>
  /\ Returned(s)
  /\ UNCHANGED <<graph, queue, buffer, worker, stopping, cancelled, writing, entered,
                 handled, dropped, safe>>

\* Lines 59-61, 76-78: a small batch enters the channel when there is room.
Enqueue(s) ==
  /\ Ready(s)
  /\ LET b == Next1(s) IN
       /\ Len(b.items) \in 1 .. BatchSize - 1
       /\ Len(queue[b.kind]) < Capacity
       /\ queue' = [queue EXCEPT ![b.kind] = Append(queue[b.kind], b.items)]
       /\ entered' = [entered EXCEPT ![b.kind] = entered[b.kind] \o b.items]
       /\ safe' = IF b.kind = "nodes" THEN safe
                  ELSE safe \cup {Len(entered[b.kind]) + i : i \in Attached(b.items)}
  /\ Returned(s)
  /\ UNCHANGED <<graph, buffer, worker, stopping, cancelled, writing, handled, dropped>>

\* Lines 62-63, 79-80: the submitter's context ends first.
SubmitCancelled(s) ==
  /\ Ready(s)
  /\ Len(Next1(s).items) \in 1 .. BatchSize - 1
  /\ Returned(s)
  /\ UNCHANGED <<graph, queue, buffer, worker, stopping, cancelled, writing, entered,
                 handled, dropped, safe>>

\* Lines 55-57, 72-74: a large batch is written by the submitter itself, past
\* everything that waits in the channel.
WriteLarge(s) ==
  /\ Ready(s)
  /\ LET b == Next1(s) IN
       /\ Len(b.items) >= BatchSize
       /\ writing' = [writing EXCEPT ![s] = b.items]
  /\ UNCHANGED <<graph, queue, buffer, worker, stopping, cancelled, plan, entered,
                 handled, dropped, safe>>

WriteOwn(s) ==
  /\ writing[s] # << >>
  /\ Upsert(Head(writing[s]))
  /\ writing' = [writing EXCEPT ![s] = Tail(writing[s])]
  /\ IF Tail(writing[s]) = << >> THEN Returned(s) ELSE UNCHANGED plan
  /\ UNCHANGED <<queue, buffer, worker, stopping, cancelled, entered, handled, dropped,
                 safe>>

\* The first error ends the batch and is the submitter's answer.
WriteOwnFails(s) ==
  /\ writing[s] # << >>
  /\ dropped' = dropped \cup Of(writing[s])
  /\ writing' = [writing EXCEPT ![s] = << >>]
  /\ Returned(s)
  /\ UNCHANGED <<graph, queue, buffer, worker, stopping, cancelled, entered, handled,
                 safe>>
-----------------------------------------------------------------------------
Start ==
  /\ worker = [k \in Kinds |-> "off"]
  /\ worker' = [k \in Kinds |-> "select"]
  /\ UNCHANGED <<graph, queue, buffer, stopping, cancelled, plan, writing, entered,
                 handled, dropped, safe>>

Stop ==
  /\ ~ stopping
  /\ stopping' = TRUE
  /\ UNCHANGED <<graph, queue, buffer, worker, cancelled, plan, writing, entered,
                 handled, dropped, safe>>

Cancel ==
  /\ ~ cancelled
  /\ cancelled' = TRUE
  /\ UNCHANGED <<graph, queue, buffer, worker, stopping, plan, writing, entered,
                 handled, dropped, safe>>

Slip_TakeOver(k) ==
  /\ worker[k] = "select"
  /\ queue[k] # << >>
  /\ queue' = [queue EXCEPT ![k] = Tail(queue[k])]
  /\ buffer' = [buffer EXCEPT ![k] = Head(queue[k])]
  /\ worker' = [worker EXCEPT ![k] = IF Len(buffer'[k]) >= BatchSize THEN "flush" ELSE "select"]
  /\ UNCHANGED <<graph, stopping, cancelled, plan, writing, entered, handled, dropped, safe>>

\* Lines 93-100, 131-138.
Take(k) ==
  /\ worker[k] = "select"
  /\ queue[k] # << >>
  /\ queue' = [queue EXCEPT ![k] = Tail(queue[k])]
  /\ buffer' = [buffer EXCEPT ![k] = buffer[k] \o Head(queue[k])]
  /\ worker' = [worker EXCEPT ![k] = IF Len(buffer'[k]) >= BatchSize THEN "flush" ELSE "select"]
  /\ UNCHANGED <<graph, stopping, cancelled, plan, writing, entered, handled, dropped, safe>>

Slip_TickWaitsForMore(k) ==
  /\ worker[k] = "select"
  /\ Len(buffer[k]) >= BatchSize
  /\ worker' = [worker EXCEPT ![k] = "flush"]
  /\ UNCHANGED <<graph, queue, buffer, stopping, cancelled, plan, writing, entered,
                 handled, dropped, safe>>

\* Lines 101-107, 139-145.
FlushOnTick(k) ==
  /\ worker[k] = "select"
  /\ buffer[k] # << >>
  /\ worker' = [worker EXCEPT ![k] = "flush"]
  /\ UNCHANGED <<graph, queue, buffer, stopping, cancelled, plan, writing, entered,
                 handled, dropped, safe>>

Slip_StopUnseen(k) ==
  /\ worker[k] = "select"
  /\ cancelled
  /\ worker' = [worker EXCEPT ![k] = IF buffer[k] = << >> THEN "done" ELSE "last flush"]
  /\ UNCHANGED <<graph, queue, buffer, stopping, cancelled, plan, writing, entered,
                 handled, dropped, safe>>

Slip_LeaveUnflushed(k) ==
  /\ worker[k] = "select"
  /\ stopping \/ cancelled
  /\ worker' = [worker EXCEPT ![k] = IF stopping THEN "done" ELSE "last flush"]
  /\ UNCHANGED <<graph, queue, buffer, stopping, cancelled, plan, writing, entered,
                 handled, dropped, safe>>

\* Lines 108-117, 146-155: what is still in the channel is left there.
Quit(k) ==
  /\ worker[k] = "select"
  /\ stopping \/ cancelled
  /\ worker' = [worker EXCEPT ![k] = IF buffer[k] = << >> THEN "done" ELSE "last flush"]
  /\ UNCHANGED <<graph, queue, buffer, stopping, cancelled, plan, writing, entered,
                 handled, dropped, safe>>

After(k) == IF worker[k] = "flush" THEN "select" ELSE "done"
Flushing(k) == worker[k] \in {"flush", "last flush"}

\* executeNodeBatch, executeRelationBatch: one item after the other.
Write(k) ==
  /\ Flushing(k)
  /\ ~ cancelled
  /\ Upsert(Head(buffer[k]))
  /\ handled' = [handled EXCEPT ![k] = Append(handled[k], Head(buffer[k]))]
  /\ buffer' = [buffer EXCEPT ![k] = Tail(buffer[k])]
  /\ worker' = IF buffer'[k] = << >> THEN [worker EXCEPT ![k] = After(k)] ELSE worker
  /\ UNCHANGED <<queue, stopping, cancelled, plan, writing, entered, dropped, safe>>

\* The first error ends the flush; no one is told, and the rest is forgotten.
WriteFails(k) ==
  /\ Flushing(k)
  /\ handled' = [handled EXCEPT ![k] = handled[k] \o buffer[k]]
  /\ dropped' = dropped \cup Of(buffer[k])
  /\ buffer' = [buffer EXCEPT ![k] = << >>]
  /\ worker' = [worker EXCEPT ![k] = After(k)]
  /\ UNCHANGED <<graph, queue, stopping, cancelled, plan, writing, entered, safe>>
-----------------------------------------------------------------------------
Submit(s) == SubmitNothing(s) \/ Enqueue(s) \/ SubmitCancelled(s) \/ WriteLarge(s)
               \/ WriteOwn(s) \/ WriteOwnFails(s)
Work(k) == Take(k) \/ FlushOnTick(k) \/ Quit(k) \/ Write(k) \/ WriteFails(k)

Handling == (\E s \in Submitters : Submit(s)) \/ (\E k \in Kinds : Work(k))
Control == Start \/ Stop \/ Cancel
=============================================================================
