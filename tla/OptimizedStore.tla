--------------------------- MODULE OptimizedStore ---------------------------
(***************************************************************************)
(* internal/rag/store/optimized_neo4j.go with cache.go and fallback.go:    *)
(* cached readers over the graph that BatchQueue, direct upserts and       *)
(* deletions change.  The cached queries have one shape: cache, database,  *)
(* cache.  They are told apart by their key and their answer, a set of     *)
(* nodes; two of them also ask their tier's limiter first.                 *)
(* The constructor never starts the queue's workers: only an owner may.    *)
(***************************************************************************)
EXTENDS BatchQueue, FiniteSets

CONSTANTS
  Readers, Files,
  FileOf,            \* the file of each node
  FileNodes,         \* the nodes of kind FILE, which hold a file's hash
  Queries,           \* what may be asked, which is what the keys are made of
  Operation, About,  \* the operation of each query, and the file it is about
  Limit,             \* the nearest nodes asked for, at most MaxResultLimit
  TTL,               \* CacheTTL
  Patience,          \* how long an answer may take from the database to the cache
  MaxTokens, RefillEvery, \* NewRateLimiter's
  Mixes              \* bounds of the model: what one behaviour may hold

\* How many reads and writes there are, how far the clock goes, and whether the
\* queue has an owner who starts and stops its workers.
Bounds == [reads : Nat, writes : Nat, time : Nat, owner : BOOLEAN]

ASSUME StoreAssumption ==
  /\ FileOf \in [Nodes -> Files]
  /\ FileNodes \subseteq Nodes
  /\ Queries # {}
  /\ Operation \in [Queries -> {"GetImpactContext", "QueryContext", "FindRelatedByEmbedding",
                               "GetFileHash"}]
  /\ About \in [Queries -> Files]
  /\ {Limit, Patience, MaxTokens} \subseteq Nat
  /\ {TTL, RefillEvery} \subseteq Nat \ {0}
  /\ Mixes \subseteq Plans \X Graphs \X Bounds

VARIABLES
  now,
  left,       \* what is left of the behaviour's bounds
  cache,      \* what is stored, by key, with its expiry
  reader,     \* where each reader is
  tokens, lastRefill, \* of the tier's RateLimiter
  granted,    \* ghost: queries the limiter has let through
  deleted     \* ghost: nodes that were deleted at some time

storeVars == <<now, left, cache, reader, tokens, lastRefill, granted, deleted>>
vars == <<graph, queueVars, storeVars>>

\* readAt is a ghost: when the base store gave the answer.
Entry == [value : SUBSET Nodes, readAt : Nat, expiry : Nat]
Reader == [at : {"idle", "get", "evict", "query", "fill", "refused", "failed", "served"},
           query : Queries, value : SUBSET Nodes, readAt : Nat, servedAt : Nat]

StoreTypeOK ==
  /\ BatchTypeOK
  /\ now \in Nat
  /\ left \in Bounds
  /\ DOMAIN cache \subseteq Queries
  /\ cache \in [DOMAIN cache -> Entry]
  /\ reader \in [Readers -> Reader]
  /\ tokens \in 0 .. MaxTokens
  /\ lastRefill \in 0 .. now
  /\ granted \in Nat
  /\ deleted \in SUBSET Nodes

Init ==
  /\ BatchInit
  /\ now = 0
  /\ left \in {mix[3] : mix \in {m \in Mixes : m[1] = plan /\ m[2] = graph}}
  /\ cache = << >>
  /\ reader = [r \in Readers |->
       [at |-> "idle", query |-> CHOOSE q \in Queries : TRUE, value |-> {},
        readAt |-> 0, servedAt |-> 0]]
  /\ tokens = MaxTokens
  /\ lastRefill = 0
  /\ granted = 0
  /\ deleted = {}
-----------------------------------------------------------------------------
Lesser(a, b) == IF a < b THEN a ELSE b

Slip_RefillOnEveryCall ==
  LET add == (now - lastRefill) \div RefillEvery
      have == Lesser(tokens + add + 1, MaxTokens)
  IN /\ lastRefill' = now
     /\ IF have > 0
        THEN tokens' = have - 1 /\ granted' = granted + 1
        ELSE tokens' = have /\ UNCHANGED granted

Slip_AllowBelowZero ==
  LET add == (now - lastRefill) \div RefillEvery
      have == Lesser(tokens + add, MaxTokens)
  IN /\ lastRefill' = IF add > 0 THEN now ELSE lastRefill
     /\ tokens' = have - 1
     /\ granted' = granted + 1

\* Allow refills by what has elapsed, and forgets the part of an interval left over.
Allow ==
  LET add == (now - lastRefill) \div RefillEvery
      have == Lesser(tokens + add, MaxTokens)
  IN /\ lastRefill' = IF add > 0 THEN now ELSE lastRefill
     /\ IF have > 0
        THEN tokens' = have - 1 /\ granted' = granted + 1
        ELSE tokens' = have /\ UNCHANGED granted

\* checkRateLimit comes before the cache, so that a cached answer costs a token.
Limited(q) == Operation[q] \in {"QueryContext", "FindRelatedByEmbedding"}

Read(r, q) ==
  /\ reader[r].at \in {"idle", "refused", "failed", "served"}
  /\ left.reads > 0
  /\ left' = [left EXCEPT !.reads = left.reads - 1]
  /\ IF Limited(q) THEN Allow ELSE UNCHANGED <<tokens, lastRefill, granted>>
  /\ reader' = [reader EXCEPT ![r] =
       [at |-> IF Limited(q) /\ granted' = granted THEN "refused" ELSE "get",
        query |-> q, value |-> {}, readAt |-> 0, servedAt |-> 0]]
  /\ UNCHANGED <<graph, queueVars, now, cache, deleted>>

At(r, place) == reader' = [reader EXCEPT ![r].at = place]

Serve(r, value, readAt) ==
  reader' = [reader EXCEPT ![r] = [at |-> "served", query |-> reader[r].query,
               value |-> value, readAt |-> readAt, servedAt |-> now]]

Slip_NeverExpires(q) == FALSE

Expired(q) == now > cache[q].expiry

\* Get, under the read lock: a hit, a miss, or an expired entry to be deleted.
Get(r) ==
  LET q == reader[r].query IN
  /\ reader[r].at = "get"
  /\ \/ q \notin DOMAIN cache /\ At(r, "query")
     \/ q \in DOMAIN cache /\ Expired(q) /\ At(r, "evict")
     \/ q \in DOMAIN cache /\ ~ Expired(q) /\ Serve(r, cache[q].value, cache[q].readAt)
  /\ UNCHANGED <<graph, queueVars, now, left, cache, tokens, lastRefill, granted, deleted>>

\* Lines 72-78 of cache.go, once the read lock was given up for the write lock:
\* what is deleted is what is there by now.
Evict(r) ==
  /\ reader[r].at = "evict"
  /\ cache' = [q \in DOMAIN cache \ {reader[r].query} |-> cache[q]]
  /\ At(r, "query")
  /\ UNCHANGED <<graph, queueVars, now, left, tokens, lastRefill, granted, deleted>>

\* The base store's answers.  A file without definitions has no impact to report,
\* which is an error; one without a node has an empty hash, which is an answer.
\* QueryContext is a stub; which nodes have an embedding, and which of them are
\* nearest to another, is left open.
NodesOf(f) == {n \in graph \cap Nodes : FileOf[n] = f}
Users(targets) == {Source(x) : x \in {y \in graph \cap Relations : Target(y) \in targets}}
Impact(f) == LET users == Users(NodesOf(f) \ FileNodes) IN users \cup Users(users)

Nearest == {some \in SUBSET (graph \cap Nodes) : Cardinality(some) <= Limit}

Answers(q) ==
  CASE Operation[q] = "GetImpactContext" ->
         IF NodesOf(About[q]) \subseteq FileNodes THEN {} ELSE {Impact(About[q])}
    [] Operation[q] = "QueryContext" -> {{}}
    [] Operation[q] = "GetFileHash" -> {NodesOf(About[q]) \cap FileNodes}
    [] OTHER -> Nearest

Query(r) ==
  /\ reader[r].at = "query"
  /\ \E value \in Answers(reader[r].query) :
       reader' = [reader EXCEPT ![r] = [at |-> "fill", query |-> reader[r].query,
                    value |-> value, readAt |-> now, servedAt |-> 0]]
  /\ UNCHANGED <<graph, queueVars, now, left, cache, tokens, lastRefill, granted, deleted>>

\* executeWithFallback asks the fallback for the operation's name, under which
\* neither its map nor the cache holds anything.
QueryFails(r) ==
  /\ reader[r].at = "query"
  /\ At(r, "failed")
  /\ UNCHANGED <<graph, queueVars, now, left, cache, tokens, lastRefill, granted, deleted>>

Slip_OneKeyForAll(r) ==
  /\ reader[r].at = "fill"
  /\ cache' = [q \in Queries |->
                 [value |-> reader[r].value, readAt |-> reader[r].readAt, expiry |-> now + TTL]]
  /\ Serve(r, reader[r].value, reader[r].readAt)
  /\ UNCHANGED <<graph, queueVars, now, left, tokens, lastRefill, granted, deleted>>

\* Set, whatever is stored by now, and the answer is returned.
Fill(r) ==
  /\ reader[r].at = "fill"
  /\ cache' = [q \in DOMAIN cache \cup {reader[r].query} |->
                 IF q = reader[r].query
                 THEN [value |-> reader[r].value, readAt |-> reader[r].readAt,
                       expiry |-> now + TTL]
                 ELSE cache[q]]
  /\ Serve(r, reader[r].value, reader[r].readAt)
  /\ UNCHANGED <<graph, queueVars, now, left, tokens, lastRefill, granted, deleted>>

ReaderStep(r) == Get(r) \/ Evict(r) \/ Query(r) \/ QueryFails(r) \/ Fill(r)
-----------------------------------------------------------------------------
WriteOnce == left.writes > 0 /\ left' = [left EXCEPT !.writes = left.writes - 1]

\* UpsertNode and UpsertRelation go to the base store and leave the cache alone.
UpsertDirect(x) ==
  /\ WriteOnce
  /\ Upsert(x)
  /\ UNCHANGED <<queueVars, now, cache, reader, tokens, lastRefill, granted, deleted>>

\* Deletions detach and delete, that of a file spares the file's own node.  Keys are
\* hashes, and none begins with the project prefix that DeleteByPrefix is given.
Delete(gone) ==
  /\ WriteOnce
  /\ graph' = {x \in graph \ gone : x \in Relations => {Source(x), Target(x)} \cap gone = {}}
  /\ deleted' = deleted \cup gone
  /\ UNCHANGED <<queueVars, now, cache, reader, tokens, lastRefill, granted>>

DeleteNodesByFile(f) == Delete(NodesOf(f) \ FileNodes)
DeleteNodesByProject == Delete(graph \cap Nodes)

\* ClearCache.
ClearCache ==
  /\ WriteOnce
  /\ cache' = << >>
  /\ UNCHANGED <<graph, queueVars, now, reader, tokens, lastRefill, granted, deleted>>

\* The clock; an answer of the database reaches the cache within Patience.
Tick ==
  /\ now < left.time
  /\ \A r \in Readers : reader[r].at = "fill" => now < reader[r].readAt + Patience
  /\ now' = now + 1
  /\ UNCHANGED <<graph, queueVars, left, cache, reader, tokens, lastRefill, granted, deleted>>

Next ==
  \/ Handling /\ UNCHANGED storeVars
  \/ left.owner /\ Control /\ UNCHANGED storeVars
  \/ \E r \in Readers : ReaderStep(r) \/ \E q \in Queries : Read(r, q)
  \/ \E x \in Nodes \cup Relations : UpsertDirect(x)
  \/ \E f \in Files : DeleteNodesByFile(f)
  \/ DeleteNodesByProject \/ ClearCache \/ Tick

\* Workers and submitters go on while they can, and their calls return; that a
\* submitter's context ends is not to be hoped for.
Alone(A) == A /\ UNCHANGED storeVars
Hand(s) == SubmitNothing(s) \/ Enqueue(s) \/ WriteLarge(s) \/ WriteOwn(s) \/ WriteOwnFails(s)
Fairness ==
  /\ \A k \in Kinds : WF_vars(Alone(Work(k)))
  /\ \A s \in Submitters : WF_vars(Alone(Hand(s)))

Spec == Init /\ [][Next]_vars /\ Fairness
-----------------------------------------------------------------------------
(* Whatever readers, writers, evictions and deletions do between each      *)
(* other, no answer is served that the database gave longer ago than the   *)
(* time to live and the time it took to the cache; a deletion shortens     *)
(* this by nothing, as it invalidates nothing.                             *)
StalenessBounded ==
  \A r \in Readers : reader[r].at = "served" =>
    reader[r].servedAt <= reader[r].readAt + Patience + TTL

(* A reader is given an answer to its own question, whoever filled the     *)
(* cache: the hash of its file, users of its file within two relations, no *)
(* more neighbours than it may have, or nothing from the stub.             *)
UsersIn(targets) == {Source(x) : x \in {y \in Relations : Target(y) \in targets}}
Definitions(f) == {n \in Nodes \ FileNodes : FileOf[n] = f}
Suits(value, q) ==
  CASE Operation[q] = "GetImpactContext" ->
         LET users == UsersIn(Definitions(About[q])) IN value \subseteq users \cup UsersIn(users)
    [] Operation[q] = "QueryContext" -> value = {}
    [] Operation[q] = "GetFileHash" ->
         value \subseteq {n \in FileNodes : FileOf[n] = About[q]}
    [] OTHER -> Cardinality(value) <= Limit
AnswersTheQuestion ==
  \A r \in Readers : reader[r].at = "served" => Suits(reader[r].value, reader[r].query)

(* The limiter lets through no more than its size and a token for every    *)
(* whole interval that has passed, whenever it was asked.                  *)
TierBounded == granted + tokens <= MaxTokens + lastRefill \div RefillEvery

(* Nothing that has entered a channel is lost, doubled or overtaken there: *)
(* the worker has handled it, holds it or finds it in the channel, in the  *)
(* order of entry, also after failed flushes and when it has been stopped. *)
HandledInOrder ==
  \A k \in Kinds : entered[k] = handled[k] \o buffer[k] \o FlattenSeq(queue[k])

(* A worker that is stopped or cancelled, at whatever point, first handles *)
(* all it has taken from its channel; and a node it has handled is in the  *)
(* graph, unless the very flush it was in failed or the node was deleted:  *)
(* one failure costs the batches that were flushed with it, and no more.   *)
TakenIsHandled ==
  /\ \A k \in Kinds : worker[k] = "done" => buffer[k] = << >>
  /\ Of(handled["nodes"]) \subseteq graph \cup dropped \cup deleted

(* A relation handed over when its nodes were in the graph is in the graph *)
(* once its worker has handled it, whatever the other worker, submitters   *)
(* and writers do, unless its write failed or an end was deleted.  One     *)
(* handed over while a node was still queued may be gone without an error. *)
AttachedRelationsArrive ==
  \A i \in safe \cap DOMAIN handled["relations"] :
    LET x == handled["relations"][i]
    IN x \in graph \/ x \in dropped \/ {Source(x), Target(x)} \cap deleted # {}

(* Stop returns: running workers that are told to stop come to their end,  *)
(* however much is in their channels and whatever is submitted meanwhile.  *)
Running == worker # [k \in Kinds |-> "off"]
StopReturns == stopping /\ Running ~> worker = [k \in Kinds |-> "done"]

(* With running workers that no one stops, every submitter is let in, also *)
(* at a full channel, and everything that entered is handled: a submitter  *)
(* waits for ever, and a batch stays where it is, only without workers.    *)
AllHandled ==
  /\ plan = [s \in Submitters |-> << >>]
  /\ \A k \in Kinds : queue[k] = << >> /\ buffer[k] = << >>
EverythingIsHandled == Running ~> AllHandled \/ stopping \/ cancelled
=============================================================================
