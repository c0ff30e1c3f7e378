--------------------------- MODULE ProviderManager ---------------------------
(***************************************************************************)
(* internal/provider: SendMessageFull of the provider manager over its     *)
(* parts, the response cache, the budget, the cost records and a token     *)
(* bucket per provider.                                                    *)
(*                                                                         *)
(* One request is served at a time: the manager's availability, the budget *)
(* and the response cache are fields and maps without a lock.  The clock   *)
(* and the buckets' goroutines run on while a provider is answering.       *)
(* A prompt is known to the cache by its text, the system and the user     *)
(* prompt put together, so two prompts can have one text.  An answer is    *)
(* known by who gave it, with which model, to which text and when.         *)
(***************************************************************************)
EXTENDS Integers, Sequences

CONSTANTS
  Providers,      \* places in the list given to NewProviderManager
  Priority,       \* Config.Priority of each
  Limited,        \* those with a limiter
  ConfigModel,    \* Config.Model of each, or NoModel
  NoModel, Models,
  Prompts, Texts, Text, \* the text of each prompt
  Input,          \* the estimated tokens of each prompt
  Outputs,        \* the tokens an answer may have
  MaxPerRequest, MaxPerDay, MaxPerMonth, \* BudgetConfig, 0 for no limit
  Cooldown, TTL,  \* 60 seconds and an hour, in units of the clock
  MaxTokens, RefillRate, \* NewTokenBucketLimiter's
  MaxTime, MaxRequests   \* bounds of the model

ASSUME ProviderAssumption ==
  /\ Providers \subseteq Nat /\ Providers # {}
  /\ Limited \subseteq Providers
  /\ Priority \in [Providers -> Int]
  /\ ConfigModel \in [Providers -> Models \cup {NoModel}]
  /\ Text \in [Prompts -> Texts]
  /\ Input \in [Prompts -> Nat]
  /\ Outputs \subseteq Nat
  /\ {MaxPerRequest, MaxPerDay, MaxPerMonth} \subseteq Nat
  /\ {Cooldown, TTL, MaxTokens, RefillRate, MaxTime, MaxRequests} \subseteq Nat

VARIABLES
  now,            \* the clock
  available, availableAfter, \* of each provider
  cache,          \* what is stored, by key
  tokens,         \* of each bucket
  tick,           \* the buckets whose ticker has fired and that have not refilled
  used,           \* usedToday, which is usedMonth and usedRequest as well
  records,        \* the cost records
  phase,          \* "idle", "asking" or "calling"
  request,        \* the request being served, the last one when idle
  rest,           \* the providers the loop has not come to
  reply,          \* how the last request has ended, or where it stands
  answer, servedAt, \* the last answer given to a caller, and when
  begun,          \* requests begun
  failedAt,       \* ghost: the last failure of each since it was marked available, or 0
  granted         \* ghost: requests each bucket has let through

budget == <<used, records>>
bucket == <<tokens, tick, granted>>
health == <<available, availableAfter, failedAt>>
outcome == <<reply, answer, servedAt>>
vars == <<now, health, cache, bucket, budget, phase, request, rest, outcome, begun>>

Keys == Texts \X (Models \cup {NoModel}) \X Providers
Answer == [text : Texts, model : Models \cup {NoModel}, provider : Providers, at : Nat]
Record == [provider : Providers, model : Models \cup {NoModel}, text : Texts,
           at : Nat, input : Nat, output : Nat]
Entry == [answer : Answer, expiry : Nat]

TypeOK ==
  /\ now \in Nat
  /\ available \in [Providers -> BOOLEAN]
  /\ availableAfter \in [Providers -> Nat]
  /\ DOMAIN cache \subseteq Keys
  /\ cache \in [DOMAIN cache -> Entry]
  /\ tokens \in [Limited -> 0 .. MaxTokens]
  /\ tick \in SUBSET Limited
  /\ used \in Nat
  /\ records \in Seq(Record)
  /\ phase \in {"idle", "asking", "calling"}
  /\ request \in [prompt : Prompts, model : Models]
  /\ rest \in SUBSET Providers
  /\ reply \in {"none", "budget", "pending", "error", "failed", "nobody", "new", "cached"}
  /\ answer \in Answer
  /\ servedAt \in Nat
  /\ begun \in Nat
  /\ failedAt \in [Providers -> Nat]
  /\ granted \in [Limited -> Nat]
-----------------------------------------------------------------------------
\* fallbackOrder: by descending priority, and as listed where that is equal.
Before(p, q) ==
  \/ Priority[p] > Priority[q]
  \/ Priority[p] = Priority[q] /\ p < q

IsNext(p) == p \in rest /\ \A q \in rest \ {p} : Before(p, q)

Target(p) == IF ConfigModel[p] = NoModel THEN request.model ELSE ConfigModel[p]

Slip_KeyWithoutModel(p) == <<Text[request.prompt], NoModel, p>>

GenerateCacheKey(p) == <<Text[request.prompt], Target(p), p>>

Slip_NoDailyLimit(n) ==
  /\ MaxPerRequest > 0 => n <= MaxPerRequest
  /\ MaxPerMonth > 0 => used + n <= MaxPerMonth

CanProceed(n) ==
  /\ MaxPerRequest > 0 => n <= MaxPerRequest
  /\ MaxPerDay > 0 => used + n <= MaxPerDay
  /\ MaxPerMonth > 0 => used + n <= MaxPerMonth

Init ==
  /\ now = 1
  /\ available \in [Providers -> BOOLEAN]
  /\ availableAfter = [p \in Providers |-> 0]
  /\ cache = << >>
  /\ tokens = [p \in Limited |-> MaxTokens]
  /\ tick = {}
  /\ used = 0
  /\ records = << >>
  /\ phase = "idle"
  /\ request \in [prompt : Prompts, model : Models]
  /\ rest = {}
  /\ reply = "none"
  /\ answer = CHOOSE a \in [text : Texts, model : Models, provider : Providers, at : {0}] : TRUE
  /\ servedAt = 0
  /\ begun = 0
  /\ failedAt = [p \in Providers |-> 0]
  /\ granted = [p \in Limited |-> 0]
-----------------------------------------------------------------------------
\* Lines 114-123: the budget is asked for the input alone.
Begin(q, m) ==
  /\ phase = "idle"
  /\ begun < MaxRequests
  /\ begun' = begun + 1
  /\ request' = [prompt |-> q, model |-> m]
  /\ IF CanProceed(Input[q])
     THEN phase' = "asking" /\ rest' = Providers /\ reply' = "pending"
     ELSE UNCHANGED <<phase, rest>> /\ reply' = "budget"
  /\ UNCHANGED <<now, health, cache, bucket, budget, answer, servedAt>>

\* Lines 128-134.
Up(p) == available[p] \/ now > availableAfter[p]

PassOver(p) ==
  /\ phase = "asking"
  /\ IsNext(p)
  /\ ~ Up(p)
  /\ rest' = rest \ {p}
  /\ UNCHANGED <<now, health, cache, bucket, budget, phase, request, outcome, begun>>

\* Get: an entry past its time to live is deleted and not served.
Live(k) == k \in DOMAIN cache /\ ~ now > cache[k].expiry

CacheGet(k) ==
  cache' = IF Live(k) THEN cache ELSE [j \in DOMAIN cache \ {k} |-> cache[j]]

\* What is done before the cache is looked at.
Reach(p) ==
  /\ phase = "asking"
  /\ IsNext(p)
  /\ Up(p)
  /\ available' = [available EXCEPT ![p] = TRUE]
  /\ CacheGet(GenerateCacheKey(p))

ServeCached(p) ==
  /\ Reach(p)
  /\ Live(GenerateCacheKey(p))
  /\ reply' = "cached"
  /\ answer' = cache[GenerateCacheKey(p)].answer
  /\ servedAt' = now
  /\ phase' = "idle"
  /\ rest' = {}
  /\ UNCHANGED <<now, availableAfter, failedAt, bucket, budget, request, begun>>

\* Lines 154-159.
Refuse(p) ==
  /\ Reach(p)
  /\ ~ Live(GenerateCacheKey(p))
  /\ p \in Limited /\ tokens[p] = 0
  /\ reply' = "error"
  /\ rest' = rest \ {p}
  /\ UNCHANGED <<now, availableAfter, failedAt, bucket, budget, phase, request, answer,
                 servedAt, begun>>

Slip_AllowAtZero(p) ==
  IF p \in Limited
  THEN /\ tokens' = [tokens EXCEPT ![p] = IF tokens[p] = 0 THEN 0 ELSE tokens[p] - 1]
       /\ granted' = [granted EXCEPT ![p] = granted[p] + 1]
  ELSE UNCHANGED <<tokens, granted>>

Allow(p) ==
  IF p \in Limited
  THEN /\ tokens[p] > 0
       /\ tokens' = [tokens EXCEPT ![p] = tokens[p] - 1]
       /\ granted' = [granted EXCEPT ![p] = granted[p] + 1]
  ELSE UNCHANGED <<tokens, granted>>

Call(p) ==
  /\ Reach(p)
  /\ ~ Live(GenerateCacheKey(p))
  /\ Allow(p)
  /\ phase' = "calling"
  /\ UNCHANGED <<now, availableAfter, failedAt, tick, budget, request, rest, outcome, begun>>
-----------------------------------------------------------------------------
Slip_NoCooldown(p) ==
  /\ phase = "calling"
  /\ IsNext(p)
  /\ available' = [available EXCEPT ![p] = FALSE]
  /\ failedAt' = [failedAt EXCEPT ![p] = now]
  /\ phase' = "asking"
  /\ rest' = rest \ {p}
  /\ reply' = "error"
  /\ UNCHANGED <<now, availableAfter, cache, bucket, budget, request, answer, servedAt, begun>>

\* Lines 165-170: a provider's failure, or the end of the caller's context.
CallFails(p) ==
  /\ phase = "calling"
  /\ IsNext(p)
  /\ available' = [available EXCEPT ![p] = FALSE]
  /\ availableAfter' = [availableAfter EXCEPT ![p] = now + Cooldown]
  /\ failedAt' = [failedAt EXCEPT ![p] = now]
  /\ phase' = "asking"
  /\ rest' = rest \ {p}
  /\ reply' = "error"
  /\ UNCHANGED <<now, cache, bucket, budget, request, answer, servedAt, begun>>

Slip_ChargeOutputOnly(in, out) == used' = used + out

RecordUsage(in, out) == used' = used + in + out

CacheSet(k, a) ==
  cache' = [j \in DOMAIN cache \cup {k} |->
              IF j = k THEN [answer |-> a, expiry |-> now + TTL] ELSE cache[j]]

\* Lines 172-209: recorded, charged and cached under the provider's own key.
CallAnswers(p, out) ==
  /\ phase = "calling"
  /\ IsNext(p)
  /\ answer' = [text |-> Text[request.prompt], model |-> Target(p), provider |-> p, at |-> now]
  /\ records' = Append(records, [provider |-> p, model |-> Target(p),
                  text |-> Text[request.prompt], at |-> now,
                  input |-> Input[request.prompt], output |-> out])
  /\ RecordUsage(Input[request.prompt], out)
  /\ CacheSet(GenerateCacheKey(p), answer')
  /\ reply' = "new"
  /\ servedAt' = now
  /\ phase' = "idle"
  /\ rest' = {}
  /\ UNCHANGED <<now, health, bucket, request, begun>>

\* Lines 212-215.
GiveUp ==
  /\ phase = "asking"
  /\ rest = {}
  /\ phase' = "idle"
  /\ reply' = IF reply = "error" THEN "failed" ELSE "nobody"
  /\ UNCHANGED <<now, health, cache, bucket, budget, request, rest, answer, servedAt, begun>>
-----------------------------------------------------------------------------
\* MarkProviderAvailable leaves availableAfter as it is.
Mark(p, up) ==
  /\ phase = "idle"
  /\ available' = [available EXCEPT ![p] = up]
  /\ failedAt' = IF up THEN [failedAt EXCEPT ![p] = 0] ELSE failedAt
  /\ UNCHANGED <<now, availableAfter, cache, bucket, budget, phase, request, rest,
                 outcome, begun>>

\* A second, to the buckets' tickers; a tick not yet taken is not kept twice.
Tick ==
  /\ now < MaxTime
  /\ now' = now + 1
  /\ tick' = Limited
  /\ UNCHANGED <<health, cache, tokens, granted, budget, phase, request, rest, outcome,
                 begun>>

Slip_Uncapped(a, b) == a

Lesser(a, b) == IF a < b THEN a ELSE b

Refill(p) ==
  /\ p \in tick
  /\ tick' = tick \ {p}
  /\ tokens' = [tokens EXCEPT ![p] = Lesser(tokens[p] + RefillRate, MaxTokens)]
  /\ UNCHANGED <<now, health, cache, granted, budget, phase, request, rest, outcome, begun>>

Serve ==
  \/ \E p \in Providers :
       \/ PassOver(p) \/ ServeCached(p) \/ Refuse(p) \/ Call(p) \/ CallFails(p)
       \/ \E out \in Outputs : CallAnswers(p, out)
  \/ GiveUp

Next ==
  \/ \E q \in Prompts, m \in Models : Begin(q, m)
  \/ Serve
  \/ \E p \in Providers, up \in BOOLEAN : Mark(p, up)
  \/ Tick
  \/ \E p \in Limited : Refill(p)

Spec == Init /\ [][Next]_vars
-----------------------------------------------------------------------------
(* The budget looks at the input only and at what was charged before, so a *)
(* limit is overdrawn, by no more than one answer, however many requests   *)
(* there were and whichever of them failed or came from the cache.         *)
OverdraftBounded ==
  \A limit \in {MaxPerDay, MaxPerMonth} \ {0} :
    \/ used <= limit
    \/ \E out \in Outputs : used <= limit + out

(* What the budget counts is what the cost records add up to: failed calls *)
(* and cached answers are in neither.                                      *)
Spent(ledger) ==
  LET upTo[i \in 0 .. Len(ledger)] ==
        IF i = 0 THEN 0 ELSE upTo[i - 1] + ledger[i].input + ledger[i].output
  IN  upTo[Len(ledger)]
BudgetIsLedger == used = Spent(records)

(* An answer, from the cache or not, was given to this very text, by the   *)
(* provider named, with the model the request gets there, no longer than   *)
(* the time to live ago, and was paid for.                                 *)
AnswerFits ==
  reply \in {"new", "cached"} =>
    /\ answer.text = Text[request.prompt]
    /\ answer.model = Target(answer.provider)
    /\ servedAt <= answer.at + TTL
    /\ \E i \in DOMAIN records :
         /\ records[i].provider = answer.provider /\ records[i].model = answer.model
         /\ records[i].text = answer.text /\ records[i].at = answer.at

(* A provider is not called within the cool-down after its last failure,   *)
(* whatever requests came in between, unless it was marked available.      *)
CoolingIsLeftAlone ==
  [][\A p \in Providers :
       phase = "asking" /\ phase' = "calling" /\ IsNext(p) /\ failedAt[p] # 0
         => now > failedAt[p] + Cooldown]_vars

(* However refills and requests interleave, a bucket lets through no more  *)
(* than its size and what the seconds so far have brought.                 *)
BucketBounded ==
  \A p \in Limited :
    granted[p] + tokens[p] + (IF p \in tick THEN RefillRate ELSE 0)
      <= MaxTokens + RefillRate * (now - 1)
=============================================================================
