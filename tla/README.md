# A model of Wilwatikta, the code review agent

This directory is a TLA+ development of the program in `src/`: a command that
reviews a pull request with three language model agents behind a circuit
breaker, and an indexer that keeps a code graph the agents ask.  The models are
written from the Go code; where a comment or a document says something else, the
difference is a finding (see *Findings*).

## 1. Inventory

| Component | State | Operations | Works with | Hard about it | Correct when | Model |
|---|---|---|---|---|---|---|
| Circuit breaker `pipeline/circuit_breaker.go` | state, failures, successes, half-open requests, time of the last failure, under a mutex | `Allow`, `RecordSuccess`, `RecordFailure` | called by every agent phase of the orchestrator | outcomes arrive late and in any order; slots are never returned | thresholds hold, no half-open period wedges, it recovers | `CircuitBreaker` |
| Pipeline orchestrator, retrier, adapters `pipeline/{orchestrator,retry,adapters}.go` | per run: phase, retry loop, timeout context, results | `Execute`, `executeAgent`, `WithBackoff` | breaker (shared), agents | concurrent runs share the breaker, the timeout races the backoff, each phase fails differently | every admission is reported once, the result follows from the outcomes, a run ends | `Pipeline` |
| Parallel executor `pipeline/parallel.go` | results by index | `ExecuteParallel` | nothing calls it | fork and join | each slot written by one task | - |
| Review engine `engine/reviewer.go` | mode, previous review | `RunReviewWithGracefulDegradation`, `RunPipelinedReview`, `RunReview` | platform, orchestrator, agents | a failed post may have happened; fallback repeats the review | no post after a known one, success only with one, the whole review posted | `ReviewEngine`, `ReviewDelivery` |
| GitHub platform `platform/github.go` | none | `GetPullRequest`, `PostReview`, `GetLastReview`, `GetFileContent`, `validateLineInDiff` | GitHub | lost replies, errors told apart by text, hunk arithmetic | each finding posted once, comments on added lines | `ReviewEngine`, `DiffLines` |
| Local platform `platform/local.go` | none | runs git, prints | git | - | - | - |
| Agents `agents/*.go` | none | `Scout`, `Review`, `FormatReview`, `AggregateImpacts` | provider, graph | answers that do not parse | each affected node counts once | an answer or an error in `Pipeline`; `ImpactScore` |
| Rate limiters `provider/rate_limiter.go` | remembered requests; tokens and a refill goroutine | `Wait`, `Allow`, `Reset`, `Stop` | every provider client | concurrent waiters, deadlines, a window that moves | the limit in every window, refusals justified, waiters leave | `SlidingWindow`; the bucket in `ProviderManager` |
| Provider manager, budget, costs, response cache `provider/{provider_manager,token_counter,cost_tracker,cache}.go` | availability per provider, budget, cost records, cache | `SendMessageFull`, `MarkProviderAvailable` | providers, limiters | check before, charge after; what earlier requests leave behind | overdraft bounded, answers fit, cool-down kept | `ProviderManager` |
| Provider clients, templates `provider/{provider,adapter,openai,gemini,glm,qwen,openrouter,prompt_template}.go` | client handles | one call each | limiter, network | - | - | - |
| Graph cache, fallback, metrics `rag/store/{cache,fallback,metrics}.go` | entries with expiry | `Get`, `Set`, `Delete`, `DeleteByPrefix`, `Clear` | optimized store | lock released between look and delete | no answer past its time, none to another question | `OptimizedStore` |
| Optimized store `rag/store/{optimized_neo4j,config,graph}.go` | cache, limiter per tier | cached queries, writes, deletions, batches | Neo4j, cache, batch queue | invalidation by key prefix of hashed keys | staleness bounded, tier limit kept | `OptimizedStore` |
| Batch queue `rag/store/batch_queue.go` | two channels, two workers with buffers | `Submit*`, `Start`, `Stop`, flush | graph store | two workers without order, stop with items left | what is accepted is handled, in order, once; `Stop` returns | `BatchQueue` |
| Neo4j store `rag/store/neo4j.go` | the graph | upserts, prune, hash, queries | Neo4j | relations need both ends, one transaction per call | no relation dangles, callers are known | `Indexer` (writes and hash), `OptimizedStore` (queries) |
| Index manager `rag/store/index_manager.go` | none | schema statements | Neo4j | - | - | - |
| Tree-sitter parser `rag/parser/{treesitter,parser}.go` | none | one file to nodes and relations | C library | - | - | its results are the inputs of `Indexer` |
| Incremental parser `rag/parser/incremental.go` | hash cache and its file | `ParseFile`, `ParseFiles`, save, load | parser, disk | crash between edit, parse and save | changed files are parsed | - |
| Embeddings `rag/embedding/*.go` | none | network calls | - | - | - | - |
| Indexer `cmd/indexer/main.go` | walk position | `indexFile` | parser, graph, embeddings | crash or failure between transactions, overlapping runs, failures ignored | an undisturbed job leaves its file as read | `Indexer` |
| Review command `cmd/cli/main.go` | none | builds the parts, one call of the engine | everything | - | - | its call is `ReviewEngine` |
| Domain types, benchmarks, load tests, example | - | - | - | - | - | - |

How they meet: `cmd/cli` builds one engine; the engine fetches the pull request
from the platform, lets the orchestrator's three agents write the review (scout:
context from the graph; architect: the review; diplomat: its wording), and posts
it.  Agents call a provider behind its rate limiter.  If the pipelined review
fails, the engine runs the legacy review, which calls the agents one after the
other without breaker or retries.  `cmd/indexer` fills the graph the scout reads.
The contexts of both commands are `context.Background()`: the only cancellation
is by the agents' timeouts, so none other is modelled.  Neither command constructs the
provider manager, the token bucket, the optimized store with its batch queue, or the
incremental parser: they are parts of the library, used by tests, and the models
of the first three give them the callers their interfaces allow.

`PROJECT.json` lists the hazards at their lines with the properties that watch
each.

## 2. Modules

| Module | Of | State | Actions |
|---|---|---|---|
| `CircuitBreaker` | the breaker and the protocol of its callers | the struct's fields, `age` for `lastFailureTime`; `inflight`, the calls let through and not reported; `trial` (history) | `Admit`, `Succeed`, `Fail` (each a call under the mutex), `Tick` |
| `Pipeline` (extends `CircuitBreaker`) | concurrent `Execute`s of one orchestrator | per run the phase, the place in `executeAgent` and the retrier, the loop counter, the timeout, the outcomes, the result | `Start`, `EnterAgent`, `SkipDisabled`, `SkipRefused`, `AgentSucceeds`, `AgentFails`, `BackOff`, `TryAgain`, `WaitCutShort`, `Expire`, `PassTime` |
| `ReviewDelivery` | abstract: what one review owes the pull request | posts counted, answer | `Publish`, `ReportFailed` |
| `DiffLines` | `validateLineInDiff` over the lines of a patch, beside what the numbers of a diff mean | - | operators |
| `ImpactScore` | the aggregation of impact reports and the health score | - | operators |
| `ReviewEngine` (extends both) | one command-line review over the GitHub client, refines `ReviewDelivery` | mode, the fetched diff, what the diplomat was told, step, the review's findings, the posts it left, the answer | `Fetch`, `RunAgents`, `PostComments`, `PostSummary` |
| `SlidingWindow` | the limiter and the goroutines in its `Wait` | ages of the remembered requests, waiters and those past their deadline; `history` | `Call`, `Grant`, `Refuse`, `GiveUp`, `Deadline`, `Reset`, `Tick` |
| `Indexer` | indexer processes over the graph of one project | the graph (`node`, `hash`, `edges`); per process where it is in `indexFile`, what it has yet to write, its files; `settled` (history) | `Start`, `Finish`, `Unreadable`, `Skip`, `Begin`, `Prune`, `Embed`, `WriteNode`, `WriteRelation`, `Return`, `Cleanup`, `Crash` |
| `ProviderManager` | `SendMessageFull` over cache, budget, cost records and a token bucket per provider | clock, availability, cache, tokens and pending ticks, what was used and recorded, the request and how far down the fallback order it is | `Begin`, `PassOver`, `ServeCached`, `Refuse`, `Call`, `CallFails`, `CallAnswers`, `GiveUp`, `Mark`, `Tick`, `Refill` |
| `BatchQueue` | submitters, the two channels and workers, over the graph | the graph, channels, buffers, where each worker is, what each submitter has yet to hand over | `SubmitNothing`, `Enqueue`, `SubmitCancelled`, `WriteLarge`, `WriteOwn`, `WriteOwnFails`, `Take`, `FlushOnTick`, `Quit`, `Write`, `WriteFails`, `Start`, `Stop`, `Cancel` |
| `OptimizedStore` (extends `BatchQueue`) | cached readers over the same graph, the tier's limiter, direct writes and deletions | cache, where each reader is, tokens, clock | `Read`, `Get`, `Evict`, `Query`, `QueryFails`, `Fill`, `UpsertDirect`, `DeleteNodesByFile`, `DeleteNodesByProject`, `ClearCache`, `Tick` |

`MC<Module>` with its configurations instantiates a module for TLC;
`<Module>Proofs` holds its theorems, and `IterationLemmas` the inductions several of them rest on.

**Abstractions.**  Time is discrete and an instant is its age, stopped where the
code no longer tells ages apart (`Timeout + 1` in the breaker, `Window` in the
limiter).  The agents' inputs, prompts and answers are left out; an agent is an
answer or one of four errors, one for each combination of the two tests the code
makes on an error (retryable in `retry.go`, transient in `orchestrator.go`:
the two disagree on "connection refused" and on "503").  A review is a set of
findings.  A request that writes may succeed, be carried out with its reply lost,
be refused with 422, or fail without effect; `mentions` says whether every error
text contains 422, as it does for pull request 422 because go-github puts the
request URL in its errors.  A text the
indexer reads is the definitions, signatures and references the parser finds in it; each
call of the graph store is one transaction, and MERGE creates no duplicates.
A patch is its lines by kind, with the first line number of each hunk.  A prompt is known
by its text, system and user prompt put together as the cache key puts them; the key also
runs text, model and provider together without a separator, and the model takes the three to
be told apart, so two requests whose concatenations coincide are not modelled.  An answer by provider, model, text and time; tokens are small numbers and prices are left
out.  The provider manager serves one request at a time, because its availability, the budget and the
response cache are maps and fields without a lock (the cost records and the limiters have one); the clock and the refilling goroutines run on meanwhile.  In the
store a query is its cache key with its operation and file, an answer the set of nodes
it is about, a relation one of those the impact query follows, and which nodes are nearest to an embedding is left open.  Traces,
metrics, logging and wording are left out.
History variables (`trial`, `history`, `settled` with the flag `clean`, `failedAt`, `granted`,
`readAt`, `deleted`, `by` of a post, `entered`, `handled`, `dropped`, `safe`) and their helpers are read by
properties only.

**Slip_ operators** stand before the definition they vary.  Each has one plausible
mistake (a dropped reset, a slot not counted, an unreported failure); with it in
place of the real one a property named in `PROJECT.json` fails.  They are not
part of any specification.

## 3. Runs

| Run | Question | Bounds | Distinct states | Result |
|---|---|---|---|---|
| `pipeline` | does the pipeline use the breaker as it must (refinement, with fairness); thresholds, no wedge and recovery of the breaker under any order of outcomes; results, a bound on the steps of a review, ends | 2 runs, 1 retry, thresholds 2 and 2, 1 slot, cool-down 1 | 77 260 | holds |
| `pipeline_disabled` | the same load bound with phases that ask and do not run | 3 runs, architect enabled only | 83 200 (up to symmetry) | holds |
| `pipeline_blind` | is no review made without the architect's? | as `pipeline` | - | violated |
| `pipeline_wedged` | does the breaker recover with disabled agents? | 2 runs, architect enabled only | - | violated |
| `review` | whole posts, comments on added lines, each affected node counted once, nothing past a known post, the promise of `ReviewDelivery` | 3 findings, 7 diffs, 3 reports of affected nodes | 565 280 | holds |
| `review_duplicate` | is the legacy review kept from repeating a post? | as `review` | - | violated |
| `window` | the limit in every window, refusals justified, waiters leave | 3 callers, 2 requests per 3 ticks | 648 | holds |
| `window_stuck` | does a refusing limiter let through again? | 2 callers, 2 requests per 2 ticks | - | violated |
| `indexer` | are undisturbed files whole, do relations have ends, under overlapping runs, failures and crashes | 2 processes, 2 files, 2 texts (a caller and its callee), 1 failure or crash | 2 287 409 (up to symmetry) | holds |
| `indexer_callers` | with all files indexed, are all callers known? | 1 process, 2 files, no failure | - | violated |
| `providers` | is the overdraft bounded, the budget the ledger, an answer fit for its request; are buckets and cool-downs kept | 2 providers, one with a bucket of 1, 3 requests of 3 prompts with 2 texts, 2 models, clock to 3 | 771 870 | holds |
| `store` | how old and whose is an answer; the tier's limit; is what was handed over handled, in order and whole, and does `Stop` return | 2 readers, 4 queries, 2 submitters, batches of 2, channels of 4, up to 5 batches, 3 reads and 2 writes, clock to 3 | 721 050 | holds |

**Why the bounds are enough.**  The breaker's default is FailureThreshold 5,
SuccessThreshold 3, MaxHalfOpenRequests 2, Timeout 2 min.  What matters in it is
the order of the counters: SuccessThreshold = MaxHalfOpenRequests + 1, so all calls
of a half-open period have to succeed, and the configurations keep that boundary.
Two runs are what one half-open period lets through; with one retry they
reach every place of the retrier and a breaker that trips between
two phases of one run through the other.  `pipeline_disabled` has a third run, so that a call of
an earlier period can report in a later one while that is full, and
because skipped phases take slots from two others.  Three findings give a review
with comments, with summary entries and with both, one diff of two hunks adds the lines of two findings; the diffs have several hunks, context,
deletions, an empty patch and markers at the end of a hunk and within it, and either mode
may meet any of them; the reports meet nodes again with another relation or depth and in
either order.  The limiter's window of three
ticks lets two requests leave together, apart, and one while the other stays;
three callers are one more than it lets through.  In `indexer` both
texts can be any file's, so a file is rewritten, a call crosses files or loses its
callee, and the second process does any of it at any point of the first; one fault is
enough to leave each possible half of a job behind, and later jobs meet it.  In
`providers` the daily limit of 4 tokens is overdrawn, up to the monthly one of 6, two
prompts of one text meet each other's cached answers, a model is fixed for one provider and
free for the other, and three ticks take cool-down, time to live and a refill past their
ends.  In `store` (`Mixes`) one behaviour holds either the queue alone, with five batches
through one submitter or nodes and relations of two; or two readers against writes,
deletions and the clock; or the queue against deletions; or readers over a queue without workers, as the
constructor leaves it.  `Patience` is how long an answer may take from the database to
the cache; it bounds the clock and not the code, and the staleness bound names it.  The
theorems below hold for all values.

**Fairness.**  `pipeline`: a goroutine that can take its next step takes it, timers
fire, time passes, reviews keep coming; nothing is assumed about which branch of a select is
taken, whether an agent answers well, or which run gets the mutex.  That reviews keep
coming is an assumption on load, not on the code: an idle breaker stays open.  As the
refined breaker sees it: a call that was let through reports (every
agent runs under a deadline and the adapters pass its context down), and calls
keep coming.  `review`: a
sequential program goes on, and requests return.  `window`: time passes, a waiter
asks again every 100 ms, contexts have deadlines (the agents' timeouts; the
legacy review has none, and there a waiter may stay), requests keep coming.
`store`: each worker and each submitter goes on while it can, and calls of the database return, with or
without an error; a ready case of a select is taken some time (the ticker keeps
firing), not a particular one; that a submitter's context ends is not assumed.  Weak fairness on
a worker as a whole is enough, since no submitter hands over without end.  `indexer` and
`providers` state safety only.

Deadlock is not checked in the two runs of `ReviewEngine`, whose run ends, and in `providers` and
`store`, where bounded requests, writes and ticks come to an end and a submitter at a full channel
without workers waits for ever; it is checked in all others.

## 4. Properties

* `ClosedBelowThreshold`, `TrialLoadBounded`, `NotWedged`, `Recovers` (breaker).  The
  first is not a guard restated: failures are counted in one state and reset in
  two others, and calls admitted before a trip report after it.  Slots are never
  returned within a half-open period, so `NotWedged` and `Recovers` rest on the
  thresholds: with SuccessThreshold above MaxHalfOpenRequests + 1 the breaker would
  refuse for ever.  The default configuration has them equal.  They are checked of the
  breaker behind the pipeline, and `TrialLoadBounded` with disabled agents.
* `AdmissionsMatchCalls`, `ResultMatchesOutcomes`, `ReviewsAreFinite`, `ReviewsEnd`, `FairBreakerSpec`
  (pipeline).  `ReviewsAreFinite` is the part of `ReviewsEnd` that needs no fairness: every step of a
  review but the arrival of a deadline leaves it fewer steps to go (`StepsLeft`), through retries, refusals and
  timeouts alike, and no other review's step gives it more.  `FairBreakerSpec` is the refinement: with all agents enabled the pipeline
  implements the breaker's own specification with its fairness, so what is
  shown of the breaker holds behind the pipeline.  With an agent disabled
  it does not, and `TrialLoadBounded` is what is left.
* `PostsAreWhole`, `KnownPostIsLast`, `KeepsPromise` (engine).  One review writes at most
  four times, never after an acknowledged post, answers success only with one.
* `CommentsOnAddedLines` (engine) holds the lines that are commented on against the lines
  the format says a diff adds, counted independently: in the first request of each mode all findings on added
  lines are comments, and no others.  Past a "no newline" marker within
  a hunk the code is one line off; of a diff with such a line the first half still holds for the others, and the
  second is not claimed.
  `ImpactsCountOnce` speaks of what the diplomat is told, in whatever order nodes are met.
* `OverdraftBounded`, `BudgetIsLedger`, `AnswerFits`, `BucketBounded`, `CoolingIsLeftAlone`
  (providers).  A budget is not kept: it is asked for the input and charged for the answer
  too, so it is overdrawn by one answer, and by no more.  `AnswerFits` relates a cached
  answer to the request that is given it and to the record it was paid with.
* `StalenessBounded`, `AnswersTheQuestion`, `TierBounded` (store).  Deletions and upserts shorten the
  life of a cached answer by nothing; that it ends at all, however evictions and fills
  interleave, is the first property.
* `HandledInOrder`, `TakenIsHandled`, `AttachedRelationsArrive`, `StopReturns`, `EverythingIsHandled` (queue).
  `TakenIsHandled` bounds what a stop and a failed write may cost: nothing that was taken from the channel is
  left unhandled by a stop, and a node handled is lost only with its own flush.  What waits in a channel when its worker
  stops is lost, and nothing says otherwise.  `AttachedRelationsArrive` is what is left of order between the two workers: a relation arrives if its nodes had been
  written when it was handed over.  One whose node was still queued may be dropped without an error.
* `RateBounded`, `RefusalJustified`, `WaitersLeave` (limiter).  `RateBounded` speaks of the
  requests let through, not of what the limiter remembers.
* `SettledIsWhole`, `SettledReferencesAreReal`, `NoDanglingRelations` (indexer).  A file is
  settled when a job on it returned that met no failure and no other job on the same file.
  Then it is in the graph as read, whatever half-written state an earlier crash left,
  whatever runs do to other files meanwhile.  Nothing of the kind holds of a disturbed
  job: the failure is not reported, and with its hash written the file is skipped from then on.

## 5. Findings

1. `pipeline_blind`: a phase the breaker refuses is skipped without an error, so a
   skipped architect does not stop the review and the diplomat formats an empty one
   (`orchestrator.go:111`, against its comment at `:123`).
2. `pipeline_wedged`: the breaker is asked before the agent is found disabled and is
   never told an outcome, so its half-open slots can be used up by phases that do
   not run (`orchestrator.go:203`).
3. `review_duplicate`: the check against posting twice looks at a result that is nil
   with every error (`reviewer.go:194`, against its comment at `:193`).
4. `window_stuck`: a full window that expires as a whole before anyone asks is never
    dropped, and the limiter refuses for ever (`rate_limiter.go:117`).
5. `indexer_callers`: a relation to what is not indexed yet is silently not created, so
   which callers the graph knows depends on the order of the files (`neo4j.go:66`, against
   `docs/ARCHITECTURE.md:45`).

## 6. Proofs

Checked by TLAPS for every value of the constants, from the named assumptions only:
`ThresholdAssumption` (thresholds positive, the rest naturals), `PipelineAssumption`
(the breaker's callers are the runs), `WindowAssumption` (limit and window positive),
`TextsAssumption` (what a text is made of; `None` is none of the values it stands beside),
`FindingsAssumption` and `ImpactAssumption` (lines are numbers, patches are sequences of lines that begin
with a hunk header, nodes have kinds), `ProviderAssumption` and `QueueAssumption`, `StoreAssumption` (types of the
configuration; the batch size, the time to live and the refill interval are positive).
That a patch begins with a hunk header, and that a hunk whose new range starts at line 0 has no line of the
new file (git writes `+0,0` for an empty one), is what the diff format says of any patch GitHub returns (`IsDiff`);
the code does not test it, and before a header its counter stands at 0.

* **`CircuitBreakerProofs`.**  `BreakerInv` = `SafeInv` and `SlotsAccounted`.  The
  safety properties are not inductive: that no half-open breaker wedges needs the
  count of what each slot is doing.  `SlotsAccounted` says that successes counted plus calls
  in flight are at least the slots handed out plus the one of the opening request,
  as each of them is still running or has succeeded (a failure ends the period).
  A late outcome of an earlier period only adds to that side.
* **`PipelineProofs`.**  `PipelineInv` adds the order of phases in each run and that a
  run is in flight exactly inside an agent call.  `PipelineImplementsBreaker` shows step by step
  that with all agents enabled a pipeline step is a breaker step or a stutter, and
  carries `NotWedged` over; with disabled agents the invariant keeps `SafeInv` but not
  `SlotsAccounted`, which is exactly what finding 2 breaks.  So `PipelineClosedBelowThreshold` needs no
  condition on the agents, and `PipelineWedgedForGood` says how bad the finding is: a breaker
  wedged that way is left by no step.  `PipelineReviewsAreFinite` counts what is left of a review as whole
  phases of `PhaseSteps` steps and what is left of the one it is in, which needs the bound on the loop counter
  (`WithinPhase`).
* **`ReviewEngineProofs`.**  `EngineInv` bounds the posts by the step and mode reached and says
  that an acknowledged one ended the run; from it `PostsAreWhole`, `KnownPostIsLast` and the
  safety part of the refinement of `ReviewDelivery`.  `EngineTypeCorrect` includes the score's range,
  0 to 100, for any reports.  `EngineCommentsOnAddedLines` goes through a diff line by line (`WithinAHunk`): up to each line
  of a hunk the code's counter has moved by the lines of the new file before it and by the markers,
  so without a marker in front of it an added line is found under its own number
  (`AddedIsNumbered`, `AddedTakeComments`), and where no line has one no other line is found (`CommentsAreAdded`).  `EngineImpactsCountOnce` pairs the nodes with the first reports that meet them
  (`MetOnce`) and the tiers with a partition of these (`TiersShareOut`).
* **`SlidingWindowProofs`.**  `WindowInv`: what the limiter remembers is ordered by age, and it
  is the end of the history, everything before which has left the window.  Pruning
  cuts off a prefix of expired requests (`FirstKeptEffect`, which needs the order and a
  least live index), so `RateBounded` follows by counting and `RefusalJustified` from the order.
  `WindowBlockedForGood` is finding 4 for every limit and window: a full window that has expired as a whole
  refuses from then on, and only a `Reset`, which the program never calls, ends that.
* **`IndexerProofs`.**  `IInv`: a process with a job has a text to write; a clean job is the only one
  on its file (`Alone`), and what it is past is in the graph and nothing else of its
  file (`Progress`), which is what a settled file keeps (`Whole`).  Every step but the taking up, leaving and
  emptying of files is either `Quiet` or `Writes` to one file and leaves every other `Same`;
  the two lemmas on those carry the invariant for all other processes and files.
  `RelationsHaveEnds` needs no more than its own step on top of it.
* **`ProviderManagerProofs`.**  `ManagerInv` says of the request being served that its budget check
  passed and that nothing was charged since, of each cache entry that its answer is the
  one its key names, was paid for and is no older than its expiry says, and of each
  provider in its cool-down when that ends.  Overdraft, fit and cool-down follow from
  one part each; the bucket's bound counts a pending tick as already refilled.  `ManagerBudgetIsLedger` is
  that the sum over the records (`Spent`) grows by what each new one adds (`SpentOnMore`), which
  compares two recursive functions over a ledger and the longer one.
* **`OptimizedStoreProofs`.**  `StoreInv` follows an answer from the database through the reader
  (`OnTheWay`) into the cache (`Stored`) and out of it; each write of the graph leaves these alone,
  which is why deletions cannot break, nor shorten, the staleness bound.  `TierBounded` rests on the
  arithmetic of a restarted interval: whole intervals of two parts are at most those of
  the sum (`WholeIntervals`).  `StoreHandledInOrder` follows a batch through channel, buffer and graph: each step moves
  the boundary between two parts of one sequence, so it rests on concatenation being associative and on
  what flattening does to the first and the last batch of a channel.  `StoreAttachedRelationsArrive` is not inductive: it
  needs `SafeIsWritable`, that a relation handed over with its nodes written still has them as long as it
  is on its way, unless one was deleted, and the order to know which relation a worker writes.
  `StoreTakenIsHandled` needs that the two channels and buffers are kept apart by kind (`KindsFit`).
* **`IterationLemmas`.**  The library's induction theorems take an operator as parameter, which the provers here
  cannot instantiate.  `SetInduction` states induction with the set of numbers a property holds of, from the least
  element of its complement.  On it rest existence and uniqueness of a function defined by steps
  (`Iteration`, `Alike`) and of what `FlattenSeq` computes (`FlattenEmpty`, `FlattenAppend`, `FlattenTail`).

Every invariant and every action property of the passing runs is a theorem.  Only model-checked:
`Recovers`, `ReviewsEnd`, `WaitersLeave`, `StopReturns`, `EverythingIsHandled` and the liveness parts of the two
refinements, since fairness and liveness are outside TLAPS here.

## 7. Plan

Order: breaker, pipeline, engine, limiter, indexer, provider manager, optimized store with its
queue, diff lines and impact score: done.  Left:

1. `IncrementalParser`: the hash cache in memory and its file, edits, parse and save, with
   crashes between them and overlapping calls; what it answers for files it holds.
2. The parser's nodes and relations as a function of syntax, under the names `Indexer` takes as given.

## 8. Not modelled

The parallel executor and the incremental parser are called by tests only.  The local platform, the
embedding and provider clients and the index manager are single calls out of the program without state of
their own.  The tree-sitter parser is a function of one file given by query strings
of a C library.  Construction of the parts and configuration in the two commands are
straight-line code.  `calculateBackoff` is a pure function whose edges (a wait below 4 ns, an overflow) lie far
from every configured wait; in `Pipeline` a backoff is of any length.  Prompts, the parsing of answers, prices, metrics and
what only tests call of the modelled parts (`Wait`, `Reset` and `Stop` of the token bucket, `Delete` of the
caches, the fallback's store operations, `GetRemainingBudget`) are left out, and so is a second `Stop` of
the batch queue, which would panic on the closed channel; `PROJECT.json` says so part by part.  Benchmarks, load tests and the example service are not part of the program.
