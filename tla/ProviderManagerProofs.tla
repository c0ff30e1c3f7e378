------------------------ MODULE ProviderManagerProofs ------------------------
(* Theorems about ProviderManager for any providers, prompts, limits and   *)
(* clock.                                                                  *)
EXTENDS ProviderManager, IterationLemmas, TLAPS

(* The request being served fitted into both limits when it was begun.     *)
Fits ==
  phase # "idle" =>
    \A limit \in {MaxPerDay, MaxPerMonth} \ {0} : used + Input[request.prompt] <= limit

(* A failed provider waits for the end of its own last cool-down, and is   *)
(* not taken for available before.                                         *)
Cooling ==
  \A p \in Providers : failedAt[p] # 0 =>
    /\ availableAfter[p] = failedAt[p] + Cooldown
    /\ available[p] => now > failedAt[p] + Cooldown

PaidFor(a) ==
  \E i \in DOMAIN records :
    /\ records[i].provider = a.provider /\ records[i].model = a.model
    /\ records[i].text = a.text /\ records[i].at = a.at

(* What is stored under a key is an answer to what the key says, lives an  *)
(* hour from then, and was paid for.                                       *)
Stored ==
  \A k \in DOMAIN cache :
    /\ cache[k].answer.text = k[1]
    /\ cache[k].answer.model = k[2]
    /\ cache[k].answer.provider = k[3]
    /\ cache[k].expiry = cache[k].answer.at + TTL
    /\ PaidFor(cache[k].answer)

ManagerInv ==
  /\ TypeOK
  /\ Fits
  /\ OverdraftBounded
  /\ Cooling
  /\ BucketBounded
  /\ Stored
  /\ AnswerFits

-----------------------------------------------------------------------------
LEMMA Sizes ==
  /\ MaxPerDay \in Nat /\ MaxPerMonth \in Nat /\ Cooldown \in Nat /\ TTL \in Nat
  /\ MaxTokens \in Nat /\ RefillRate \in Nat /\ Outputs \subseteq Nat
  /\ Limited \subseteq Providers /\ Input \in [Prompts -> Nat]
BY ProviderAssumption

LEMMA InitAnswer ==
  ASSUME NEW q \in Prompts, NEW m \in Models
  PROVE  (CHOOSE a \in [text : Texts, model : Models, provider : Providers, at : {0}] : TRUE)
           \in Answer
<1>1. PICK p \in Providers : TRUE
  BY ProviderAssumption
<1>2. [text |-> Text[q], model |-> m, provider |-> p, at |-> 0]
        \in [text : Texts, model : Models, provider : Providers, at : {0}]
  BY ProviderAssumption
<1>3. [text : Texts, model : Models, provider : Providers, at : {0}] \subseteq Answer
  BY DEF Answer
<1>4. QED
  BY <1>2, <1>3, Zenon

LEMMA ManagerInit == Init => ManagerInv
<1> SUFFICES ASSUME Init
             PROVE  ManagerInv
  OBVIOUS
<1>1. answer \in Answer
  <2>1. PICK q \in Prompts, m \in Models : request = [prompt |-> q, model |-> m]
    BY DEF Init
  <2>2. QED
    BY InitAnswer DEF Init
<1>2. TypeOK
  <2>1. records \in Seq(Record) /\ cache \in [DOMAIN cache -> Entry] /\ DOMAIN cache \subseteq Keys
    BY DEF Init
  <2>2. QED
    BY <1>1, <2>1, Sizes DEF Init, TypeOK
<1>3. Fits /\ OverdraftBounded /\ Cooling
  BY Sizes DEF Init, Fits, OverdraftBounded, Cooling
<1>4. BucketBounded
  <2>1. RefillRate * (1 - 1) = 0 /\ 0 + MaxTokens + 0 <= MaxTokens + 0
    BY Sizes
  <2>2. \A p \in Limited : granted[p] = 0 /\ tokens[p] = MaxTokens /\ p \notin tick
    BY DEF Init
  <2>3. now = 1
    BY DEF Init
  <2>4. QED
    BY <2>1, <2>2, <2>3 DEF BucketBounded
<1>5. Stored /\ AnswerFits
  BY DEF Init, Stored, AnswerFits
<1>6. QED
  BY <1>2, <1>3, <1>4, <1>5 DEF ManagerInv
-----------------------------------------------------------------------------
(* The order of the list is total: at most one provider is next.           *)
LEMMA OneIsNext ==
  ASSUME TypeOK, NEW p \in Providers, NEW q \in Providers, IsNext(p), IsNext(q)
  PROVE  p = q
<1> SUFFICES ASSUME p # q
             PROVE  FALSE
  OBVIOUS
<1>1. Before(p, q) /\ Before(q, p)
  BY DEF IsNext
<1>2. Priority[p] \in Int /\ Priority[q] \in Int /\ p \in Nat /\ q \in Nat
  BY ProviderAssumption
<1>3. QED
  BY <1>1, <1>2 DEF Before

LEMMA KeyType ==
  ASSUME TypeOK, NEW p \in Providers
  PROVE  /\ Target(p) \in Models \cup {NoModel}
         /\ Text[request.prompt] \in Texts
         /\ GenerateCacheKey(p) \in Keys
<1>1. request.prompt \in Prompts /\ request.model \in Models
  BY DEF TypeOK
<1>2. Target(p) \in Models \cup {NoModel} /\ Text[request.prompt] \in Texts
  BY <1>1, ProviderAssumption DEF Target
<1>3. QED
  BY <1>2 DEF GenerateCacheKey, Keys

(* Asking for a provider makes it available only past its cool-down, and   *)
(* drops at most an entry of the cache.                                    *)
LEMMA ReachKeeps ==
  ASSUME ManagerInv, NEW p \in Providers, Reach(p), UNCHANGED <<now, availableAfter, failedAt, records>>
  PROVE  /\ available' \in [Providers -> BOOLEAN]
         /\ DOMAIN cache' \subseteq Keys
         /\ cache' \in [DOMAIN cache' -> Entry]
         /\ Cooling'
         /\ Stored'
<1> USE DEF ManagerInv, TypeOK
<1>1. available' = [available EXCEPT ![p] = TRUE] /\ Up(p)
  BY DEF Reach
<1>2. available' \in [Providers -> BOOLEAN]
  BY <1>1
<1>3. Cooling'
  <2> SUFFICES ASSUME NEW q \in Providers, failedAt[q] # 0
               PROVE  /\ availableAfter[q] = failedAt[q] + Cooldown
                      /\ available'[q] => now > failedAt[q] + Cooldown
    BY DEF Cooling
  <2>1. CASE q = p
    BY <1>1, <2>1 DEF Cooling, Up
  <2>2. CASE q # p
    BY <1>1, <2>2 DEF Cooling
  <2>3. QED
    BY <2>1, <2>2
<1>4. /\ DOMAIN cache' \subseteq DOMAIN cache
      /\ \A k \in DOMAIN cache' : cache'[k] = cache[k]
      /\ cache' = [k \in DOMAIN cache' |-> cache'[k]]
  <2> DEFINE key == GenerateCacheKey(p)
  <2>1. cache = [k \in DOMAIN cache |-> cache[k]]
    OBVIOUS
  <2>2. CacheGet(key)
    BY DEF Reach
  <2> HIDE DEF key
  <2>3. \/ cache' = cache
        \/ cache' = [j \in DOMAIN cache \ {key} |-> cache[j]]
    BY <2>2 DEF CacheGet
  <2>4. CASE cache' = cache
    BY <2>1, <2>4
  <2>5. CASE cache' = [j \in DOMAIN cache \ {key} |-> cache[j]]
    <3>1. DOMAIN cache' = DOMAIN cache \ {key}
      BY <2>5
    <3>2. QED
      BY <2>5, <3>1
  <2>6. QED
    BY <2>3, <2>4, <2>5
<1>5. DOMAIN cache' \subseteq Keys /\ cache' \in [DOMAIN cache' -> Entry]
  BY <1>4
<1>6. Stored'
  <2> SUFFICES ASSUME NEW k \in DOMAIN cache'
               PROVE  /\ cache'[k].answer.text = k[1]
                      /\ cache'[k].answer.model = k[2]
                      /\ cache'[k].answer.provider = k[3]
                      /\ cache'[k].expiry = cache'[k].answer.at + TTL
                      /\ PaidFor(cache[k].answer)'
    BY DEF Stored
  <2>1. k \in DOMAIN cache /\ cache'[k] = cache[k]
    BY <1>4
  <2>2. PaidFor(cache[k].answer)
    BY <2>1 DEF Stored
  <2>3. PaidFor(cache[k].answer)'
    BY <2>1, <2>2 DEF PaidFor
  <2>4. QED
    BY <2>1, <2>3 DEF Stored
<1>7. QED
  BY <1>2, <1>3, <1>5, <1>6
-----------------------------------------------------------------------------
LEMMA BeginStep ==
  ASSUME ManagerInv, NEW q \in Prompts, NEW m \in Models, Begin(q, m)
  PROVE  ManagerInv'
<1> USE DEF ManagerInv
<1>1. /\ request' \in [prompt : Prompts, model : Models]
      /\ request'.prompt = q
      /\ phase' \in {"idle", "asking"}
      /\ phase' # "idle" => CanProceed(Input[q])
      /\ rest' \in SUBSET Providers
      /\ reply' \in {"budget", "pending"}
      /\ begun' \in Nat
  <2>1. begun \in Nat /\ rest \in SUBSET Providers
    BY DEF TypeOK
  <2>2. /\ phase = "idle" /\ begun' = begun + 1
        /\ request' = [prompt |-> q, model |-> m]
        /\ \/ CanProceed(Input[q]) /\ phase' = "asking" /\ rest' = Providers /\ reply' = "pending"
           \/ phase' = phase /\ rest' = rest /\ reply' = "budget"
    BY DEF Begin
  <2>3. request' \in [prompt : Prompts, model : Models] /\ request'.prompt = q
    BY <2>2
  <2>4. begun' \in Nat
    BY <2>1, <2>2
  <2>5. QED
    BY <2>1, <2>2, <2>3, <2>4, Zenon
<1>2. UNCHANGED <<now, available, availableAfter, failedAt, cache, tokens, tick, granted,
                  used, records, answer, servedAt>>
  BY DEF Begin, health, bucket, budget
<1>3. TypeOK'
  BY <1>1, <1>2 DEF TypeOK
<1>4. Fits'
  <2> SUFFICES ASSUME phase' # "idle", NEW limit \in {MaxPerDay, MaxPerMonth} \ {0}
               PROVE  used + Input[q] <= limit
    BY <1>1, <1>2 DEF Fits
  <2>1. CanProceed(Input[q])
    BY <1>1
  <2>2. QED
    BY <2>1, Sizes DEF CanProceed
<1>5. OverdraftBounded' /\ Cooling' /\ BucketBounded'
  BY <1>2 DEF OverdraftBounded, Cooling, BucketBounded
<1>6. Stored' /\ AnswerFits'
  BY <1>1, <1>2 DEF Stored, PaidFor, AnswerFits
<1>7. QED
  BY <1>3, <1>4, <1>5, <1>6

(* What ends at a provider without a call leaves the budget as it is.      *)
LEMMA PassOverStep ==
  ASSUME ManagerInv, NEW p \in Providers, PassOver(p)
  PROVE  ManagerInv'
<1> USE DEF ManagerInv, PassOver, health, bucket, budget, outcome
<1>1. TypeOK' /\ Fits' /\ OverdraftBounded' /\ Cooling' /\ BucketBounded'
  BY DEF TypeOK, Fits, OverdraftBounded, Cooling, BucketBounded
<1>2. Stored' /\ AnswerFits'
  BY DEF Stored, PaidFor, AnswerFits, Target
<1>3. QED
  BY <1>1, <1>2

LEMMA ServeCachedStep ==
  ASSUME ManagerInv, NEW p \in Providers, ServeCached(p)
  PROVE  ManagerInv'
<1> DEFINE k == GenerateCacheKey(p)
<1> USE DEF ManagerInv, ServeCached, bucket, budget
<1>1. /\ available' \in [Providers -> BOOLEAN]
      /\ DOMAIN cache' \subseteq Keys /\ cache' \in [DOMAIN cache' -> Entry]
      /\ Cooling' /\ Stored'
  BY ReachKeeps
<1>2. k \in DOMAIN cache /\ ~ now > cache[k].expiry /\ k \in Keys
  BY KeyType DEF Live
<1>3. cache[k] \in Entry /\ cache[k].answer \in Answer
  BY <1>2 DEF TypeOK, Entry
<1>4. TypeOK'
  BY <1>1, <1>3 DEF TypeOK
<1>5. Fits' /\ OverdraftBounded' /\ BucketBounded'
  BY DEF Fits, OverdraftBounded, BucketBounded
<1>6. AnswerFits'
  <2>1. k[1] = Text[request.prompt] /\ k[2] = Target(p) /\ k[3] = p
    BY DEF GenerateCacheKey
  <2>2. answer' = cache[k].answer /\ servedAt' = now
    OBVIOUS
  <2>3. /\ answer'.text = Text[request.prompt] /\ answer'.model = Target(p)
        /\ answer'.provider = p /\ cache[k].expiry = answer'.at + TTL
        /\ PaidFor(answer)'
    <3> HIDE DEF k
    <3>1. PaidFor(cache[k].answer)
      BY <1>2 DEF Stored
    <3>2. PaidFor(answer)'
      BY <2>2, <3>1 DEF PaidFor
    <3>3. QED
      BY <1>2, <2>1, <2>2, <3>2 DEF Stored
  <2>4. answer'.at \in Nat /\ now \in Nat
    BY <1>3, <2>2 DEF TypeOK, Answer
  <2>5. servedAt' <= answer'.at + TTL
    BY <1>2, <1>3, <2>2, <2>3, <2>4 DEF Entry
  <2>6. Target(answer.provider)' = Target(p)
    BY <2>3 DEF Target
  <2>7. QED
    BY <2>3, <2>5, <2>6 DEF AnswerFits, PaidFor
<1>7. QED
  BY <1>1, <1>4, <1>5, <1>6

LEMMA RefuseStep ==
  ASSUME ManagerInv, NEW p \in Providers, Refuse(p)
  PROVE  ManagerInv'
<1> USE DEF ManagerInv, Refuse, bucket, budget
<1>1. /\ available' \in [Providers -> BOOLEAN]
      /\ DOMAIN cache' \subseteq Keys /\ cache' \in [DOMAIN cache' -> Entry]
      /\ Cooling' /\ Stored'
  BY ReachKeeps
<1>2. TypeOK'
  BY <1>1 DEF TypeOK
<1>3. Fits' /\ OverdraftBounded' /\ BucketBounded' /\ AnswerFits'
  BY DEF Fits, OverdraftBounded, BucketBounded, AnswerFits
<1>4. QED
  BY <1>1, <1>2, <1>3

LEMMA CallStep ==
  ASSUME ManagerInv, NEW p \in Providers, Call(p)
  PROVE  ManagerInv'
<1> USE DEF ManagerInv, Call, budget, outcome
<1>1. /\ available' \in [Providers -> BOOLEAN]
      /\ DOMAIN cache' \subseteq Keys /\ cache' \in [DOMAIN cache' -> Entry]
      /\ Cooling' /\ Stored'
  BY ReachKeeps
<1>2. /\ tokens' \in [Limited -> 0 .. MaxTokens] /\ granted' \in [Limited -> Nat]
      /\ \A q \in Limited : granted'[q] + tokens'[q] = granted[q] + tokens[q]
  <2>1. CASE p \in Limited
    <3>1. /\ tokens[p] > 0
          /\ tokens' = [tokens EXCEPT ![p] = tokens[p] - 1]
          /\ granted' = [granted EXCEPT ![p] = granted[p] + 1]
      BY <2>1 DEF Allow
    <3>2. /\ tokens \in [Limited -> 0 .. MaxTokens] /\ granted \in [Limited -> Nat]
          /\ tokens[p] \in 0 .. MaxTokens /\ granted[p] \in Nat
      BY <2>1 DEF TypeOK
    <3>3. tokens[p] - 1 \in 0 .. MaxTokens /\ granted[p] + 1 \in Nat
      BY <3>1, <3>2, Sizes
    <3> HIDE DEF ManagerInv, Call
    <3>4. tokens' \in [Limited -> 0 .. MaxTokens] /\ granted' \in [Limited -> Nat]
      BY <3>1, <3>2, <3>3
    <3>5. ASSUME NEW q \in Limited
          PROVE  granted'[q] + tokens'[q] = granted[q] + tokens[q]
      <4>1. granted[q] \in Nat /\ tokens[q] \in Nat
        BY <3>2, Sizes
      <4>2. CASE q = p
        BY <2>1, <3>1, <3>2, <4>1, <4>2
      <4>3. CASE q # p
        BY <2>1, <3>1, <3>2, <4>3
      <4>4. QED
        BY <4>2, <4>3
    <3>6. QED
      BY <3>4, <3>5
  <2>2. CASE p \notin Limited
    BY <2>2 DEF Allow, TypeOK
  <2>3. QED
    BY <2>1, <2>2
<1>3. TypeOK'
  BY <1>1, <1>2 DEF TypeOK
<1>4. BucketBounded'
  <2> SUFFICES ASSUME NEW q \in Limited
               PROVE  granted'[q] + tokens'[q] + (IF q \in tick THEN RefillRate ELSE 0)
                        <= MaxTokens + RefillRate * (now - 1)
    BY Zenon DEF BucketBounded
  <2>1. granted[q] + tokens[q] + (IF q \in tick THEN RefillRate ELSE 0)
          <= MaxTokens + RefillRate * (now - 1)
    BY DEF BucketBounded
  <2>2. granted'[q] + tokens'[q] = granted[q] + tokens[q]
    BY <1>2
  <2>3. tick' = tick /\ now' = now
    OBVIOUS
  <2>4. QED
    BY <2>1, <2>2
<1>5. Fits' /\ OverdraftBounded' /\ AnswerFits'
  <2>1. phase = "asking"
    BY DEF Reach
  <2>2. QED
    BY <2>1 DEF Fits, OverdraftBounded, AnswerFits, Target
<1>6. QED
  BY <1>1, <1>3, <1>4, <1>5

(* A failure starts a cool-down of its own.                                *)
LEMMA CallFailsStep ==
  ASSUME ManagerInv, NEW p \in Providers, CallFails(p)
  PROVE  ManagerInv'
<1> USE DEF ManagerInv, CallFails, bucket, budget
<1>0. now + Cooldown \in Nat
  BY Sizes DEF TypeOK
<1>1. TypeOK'
  BY <1>0 DEF TypeOK
<1>2. Cooling'
  BY DEF Cooling, TypeOK
<1>3. Fits' /\ OverdraftBounded' /\ BucketBounded' /\ AnswerFits'
  BY DEF Fits, OverdraftBounded, BucketBounded, AnswerFits
<1>4. Stored'
  BY DEF Stored, PaidFor
<1>5. QED
  BY <1>1, <1>2, <1>3, <1>4

(* An answer is charged past a limit by itself at most, recorded, and      *)
(* stored under the key it answers.                                        *)
LEMMA CallAnswersStep ==
  ASSUME ManagerInv, NEW p \in Providers, NEW out \in Outputs, CallAnswers(p, out)
  PROVE  ManagerInv'
<1> DEFINE key == GenerateCacheKey(p)
           record == [provider |-> p, model |-> Target(p), text |-> Text[request.prompt],
                      at |-> now, input |-> Input[request.prompt], output |-> out]
<1> USE DEF ManagerInv
<1>1. /\ phase = "calling"
      /\ answer' = [text |-> Text[request.prompt], model |-> Target(p), provider |-> p, at |-> now]
      /\ records' = Append(records, record)
      /\ used' = used + Input[request.prompt] + out
      /\ cache' = [j \in DOMAIN cache \cup {key} |->
                     IF j = key THEN [answer |-> answer', expiry |-> now + TTL] ELSE cache[j]]
      /\ reply' = "new" /\ servedAt' = now /\ phase' = "idle" /\ rest' = {}
  BY DEF CallAnswers, RecordUsage, CacheSet
<1>2. UNCHANGED <<now, available, availableAfter, failedAt, tokens, tick, granted, request, begun>>
  BY DEF CallAnswers, health, bucket
<1>3. /\ Target(p) \in Models \cup {NoModel} /\ Text[request.prompt] \in Texts /\ key \in Keys
      /\ now \in Nat /\ used \in Nat /\ Input[request.prompt] \in Nat /\ out \in Nat
      /\ now + TTL \in Nat
  <2>1. request.prompt \in Prompts /\ now \in Nat /\ used \in Nat
    BY DEF TypeOK
  <2>2. Input[request.prompt] \in Nat /\ out \in Nat /\ now + TTL \in Nat
    BY <2>1, Sizes
  <2>3. Target(p) \in Models \cup {NoModel} /\ Text[request.prompt] \in Texts /\ key \in Keys
    BY KeyType
  <2>4. QED
    BY <2>1, <2>2, <2>3
<1>4. key[1] = Text[request.prompt] /\ key[2] = Target(p) /\ key[3] = p
  BY DEF GenerateCacheKey
<1>5. answer' \in Answer /\ record \in Record
  BY <1>1, <1>3 DEF Answer, Record
<1>6. /\ answer'.text = Text[request.prompt] /\ answer'.model = Target(p)
      /\ answer'.provider = p /\ answer'.at = now
      /\ record.text = Text[request.prompt] /\ record.model = Target(p)
      /\ record.provider = p /\ record.at = now
  BY <1>1
<1> HIDE DEF key, record
<1>7. /\ records' \in Seq(Record)
      /\ DOMAIN records \subseteq DOMAIN records'
      /\ \A i \in DOMAIN records : records'[i] = records[i]
      /\ Len(records) + 1 \in DOMAIN records' /\ records'[Len(records) + 1] = record
  BY <1>1, <1>5 DEF TypeOK
<1>8. /\ DOMAIN cache' = DOMAIN cache \cup {key}
      /\ cache'[key].answer = answer' /\ cache'[key].expiry = now + TTL
      /\ cache'[key] \in Entry
      /\ \A j \in DOMAIN cache : j # key => cache'[j] = cache[j]
  BY <1>1, <1>3, <1>5 DEF Entry
<1>9. cache' \in [DOMAIN cache' -> Entry] /\ DOMAIN cache' \subseteq Keys
  <2>1. \A j \in DOMAIN cache' : cache'[j] \in Entry
    BY <1>8 DEF TypeOK
  <2>2. cache' = [j \in DOMAIN cache' |-> cache'[j]]
    BY <1>1
  <2>3. QED
    BY <1>3, <1>8, <2>1, <2>2 DEF TypeOK
<1>10. TypeOK'
  <2>1. used' \in Nat
    BY <1>1, <1>3
  <2>2. QED
    BY <1>1, <1>2, <1>3, <1>5, <1>7, <1>9, <2>1 DEF TypeOK
<1>11. Fits' /\ Cooling' /\ BucketBounded'
  BY <1>1, <1>2 DEF Fits, Cooling, BucketBounded
<1>12. OverdraftBounded'
  <2> SUFFICES ASSUME NEW limit \in {MaxPerDay, MaxPerMonth} \ {0}
               PROVE  used' <= limit + out
    BY DEF OverdraftBounded
  <2>1. used + Input[request.prompt] <= limit /\ limit \in Nat
    BY <1>1, Sizes DEF Fits
  <2>2. QED
    BY <1>1, <1>3, <2>1
<1>13. ASSUME NEW a, PaidFor(a)
       PROVE  \E i \in DOMAIN records' :
                /\ records'[i].provider = a.provider /\ records'[i].model = a.model
                /\ records'[i].text = a.text /\ records'[i].at = a.at
  BY <1>7, <1>13 DEF PaidFor
<1>14. \E i \in DOMAIN records' :
         /\ records'[i].provider = answer'.provider /\ records'[i].model = answer'.model
         /\ records'[i].text = answer'.text /\ records'[i].at = answer'.at
  BY <1>6, <1>7
<1>15. Stored'
  <2> SUFFICES ASSUME NEW k \in DOMAIN cache'
               PROVE  /\ cache'[k].answer.text = k[1]
                      /\ cache'[k].answer.model = k[2]
                      /\ cache'[k].answer.provider = k[3]
                      /\ cache'[k].expiry = cache'[k].answer.at + TTL
                      /\ PaidFor(cache[k].answer)'
    BY DEF Stored
  <2>1. CASE k = key
    BY <1>4, <1>6, <1>8, <1>14, <2>1 DEF PaidFor
  <2>2. CASE k # key
    <3>1. k \in DOMAIN cache /\ cache'[k] = cache[k]
      BY <1>8, <2>2
    <3>2. PaidFor(cache[k].answer)
      BY <3>1 DEF Stored
    <3>3. PaidFor(cache[k].answer)'
      BY <1>13, <3>1, <3>2 DEF PaidFor
    <3>4. QED
      BY <3>1, <3>3 DEF Stored
  <2>3. QED
    BY <2>1, <2>2
<1>16. AnswerFits'
  <2>1. Target(answer.provider)' = Target(p)
    BY <1>2, <1>6 DEF Target
  <2>2. servedAt' <= answer'.at + TTL
    BY <1>1, <1>3, <1>6, Sizes
  <2>3. QED
    BY <1>2, <1>6, <1>14, <2>1, <2>2 DEF AnswerFits
<1>17. QED
  BY <1>10, <1>11, <1>12, <1>15, <1>16

LEMMA GiveUpStep == ManagerInv /\ GiveUp => ManagerInv'
<1> SUFFICES ASSUME ManagerInv, GiveUp
             PROVE  ManagerInv'
  OBVIOUS
<1> USE DEF ManagerInv, GiveUp, health, bucket, budget
<1>1. TypeOK' /\ Fits' /\ OverdraftBounded' /\ Cooling' /\ BucketBounded'
  BY DEF TypeOK, Fits, OverdraftBounded, Cooling, BucketBounded
<1>2. Stored' /\ AnswerFits'
  BY DEF Stored, PaidFor, AnswerFits
<1>3. QED
  BY <1>1, <1>2

(* Marking a provider available forgets its failure, marking it unavailable*)
(* leaves its cool-down alone.                                             *)
LEMMA MarkStep ==
  ASSUME ManagerInv, NEW p \in Providers, NEW up \in BOOLEAN, Mark(p, up)
  PROVE  ManagerInv'
<1> USE DEF ManagerInv, Mark, bucket, budget, outcome
<1>1. TypeOK'
  BY DEF TypeOK
<1>2. Cooling'
  BY DEF Cooling, TypeOK
<1>3. Fits' /\ OverdraftBounded' /\ BucketBounded'
  BY DEF Fits, OverdraftBounded, BucketBounded
<1>4. Stored' /\ AnswerFits'
  BY DEF Stored, PaidFor, AnswerFits, Target
<1>5. QED
  BY <1>1, <1>2, <1>3, <1>4

LEMMA TickStep == ManagerInv /\ Tick => ManagerInv'
<1> SUFFICES ASSUME ManagerInv, Tick
             PROVE  ManagerInv'
  OBVIOUS
<1> USE DEF ManagerInv, Tick, health, budget, outcome
<1>1. now' = now + 1 /\ now \in Nat /\ tick' = Limited
  BY DEF TypeOK
<1>2. TypeOK'
  BY <1>1 DEF TypeOK
<1>3. Fits' /\ OverdraftBounded'
  BY DEF Fits, OverdraftBounded
<1>4. Cooling'
  BY <1>1, Sizes DEF Cooling, TypeOK
<1>5. BucketBounded'
  <2> SUFFICES ASSUME NEW p \in Limited
               PROVE  granted[p] + tokens[p] + RefillRate <= MaxTokens + RefillRate * (now' - 1)
    BY <1>1 DEF BucketBounded
  <2>1. granted[p] + tokens[p] + (IF p \in tick THEN RefillRate ELSE 0)
          <= MaxTokens + RefillRate * (now - 1)
    BY DEF BucketBounded
  <2>2. RefillRate * (now' - 1) = RefillRate * (now - 1) + RefillRate
    BY <1>1, Sizes
  <2>3. /\ granted[p] \in Nat /\ RefillRate \in Nat /\ MaxTokens \in Nat
        /\ RefillRate * (now - 1) \in Int
    BY <1>1, Sizes DEF TypeOK
  <2>4. tokens[p] \in Nat
    BY Sizes DEF TypeOK
  <2> HIDE DEF ManagerInv, Tick
  <2>5. QED
    BY <2>1, <2>2, <2>3, <2>4
<1>6. Stored' /\ AnswerFits'
  BY DEF Stored, PaidFor, AnswerFits, Target
<1>7. QED
  BY <1>2, <1>3, <1>4, <1>5, <1>6

LEMMA RefillStep ==
  ASSUME ManagerInv, NEW p \in Limited, Refill(p)
  PROVE  ManagerInv'
<1> USE DEF ManagerInv, Refill, health, budget, outcome
<1>1. /\ tokens \in [Limited -> 0 .. MaxTokens] /\ granted \in [Limited -> Nat]
      /\ MaxTokens \in Nat /\ RefillRate \in Nat
  BY Sizes DEF TypeOK
<1>2. PICK have \in 0 .. MaxTokens :
        /\ tokens' = [tokens EXCEPT ![p] = have]
        /\ have <= tokens[p] + RefillRate
  <2>1. tokens[p] \in 0 .. MaxTokens
    BY <1>1
  <2>2. Lesser(tokens[p] + RefillRate, MaxTokens) \in 0 .. MaxTokens
    BY <1>1, <2>1 DEF Lesser
  <2>3. Lesser(tokens[p] + RefillRate, MaxTokens) <= tokens[p] + RefillRate
    BY <1>1, <2>1 DEF Lesser
  <2>4. QED
    BY <2>2, <2>3
<1>3. TypeOK'
  BY <1>1, <1>2 DEF TypeOK
<1>4. BucketBounded'
  <2> SUFFICES ASSUME NEW q \in Limited
               PROVE  granted[q] + tokens'[q] + (IF q \in tick' THEN RefillRate ELSE 0)
                        <= MaxTokens + RefillRate * (now - 1)
    BY Zenon DEF BucketBounded
  <2>1. granted[q] + tokens[q] + (IF q \in tick THEN RefillRate ELSE 0)
          <= MaxTokens + RefillRate * (now - 1)
    BY DEF BucketBounded
  <2>2. now \in Nat /\ RefillRate * (now - 1) \in Int
    BY <1>1 DEF TypeOK
  <2>3. granted[q] \in Nat /\ tokens[q] \in Nat
    BY <1>1
  <2>4. CASE q = p
    BY <1>1, <1>2, <2>1, <2>2, <2>3, <2>4
  <2>5. CASE q # p
    BY <1>1, <1>2, <2>1, <2>2, <2>3, <2>5
  <2>6. QED
    BY <2>4, <2>5
<1>5. Fits' /\ OverdraftBounded' /\ Cooling'
  BY DEF Fits, OverdraftBounded, Cooling
<1>6. Stored' /\ AnswerFits'
  BY DEF Stored, PaidFor, AnswerFits, Target
<1>7. QED
  BY <1>3, <1>4, <1>5, <1>6
-----------------------------------------------------------------------------
LEMMA ManagerStep == ManagerInv /\ [Next]_vars => ManagerInv'
<1> SUFFICES ASSUME ManagerInv, [Next]_vars
             PROVE  ManagerInv'
  OBVIOUS
<1>1. CASE \E q \in Prompts, m \in Models : Begin(q, m)
  BY <1>1, BeginStep
<1>2. CASE Serve
  BY <1>2, PassOverStep, ServeCachedStep, RefuseStep, CallStep, CallFailsStep,
     CallAnswersStep, GiveUpStep DEF Serve
<1>3. CASE \E p \in Providers, up \in BOOLEAN : Mark(p, up)
  BY <1>3, MarkStep
<1>4. CASE Tick
  BY <1>4, TickStep
<1>5. CASE \E p \in Limited : Refill(p)
  BY <1>5, RefillStep
<1>6. CASE UNCHANGED vars
  <2>1. UNCHANGED <<now, available, availableAfter, failedAt, cache, tokens, tick, granted,
                    used, records, phase, request, rest, reply, answer, servedAt, begun>>
    BY <1>6 DEF vars, health, bucket, budget, outcome
  <2>2. TypeOK' /\ Fits' /\ OverdraftBounded' /\ Cooling' /\ BucketBounded'
    BY <2>1 DEF ManagerInv, TypeOK, Fits, OverdraftBounded, Cooling, BucketBounded
  <2>3. Stored' /\ AnswerFits'
    BY <2>1 DEF ManagerInv, Stored, PaidFor, AnswerFits, Target
  <2>4. QED
    BY <2>2, <2>3 DEF ManagerInv
<1>7. QED
  BY <1>1, <1>2, <1>3, <1>4, <1>5, <1>6 DEF Next

THEOREM ManagerInvariance == Spec => []ManagerInv
BY ManagerInit, ManagerStep, PTL DEF Spec

(* Every variable keeps its type; no bucket exceeds its size.              *)
THEOREM ManagerTypeCorrect == Spec => []TypeOK
<1>1. ManagerInv => TypeOK
  BY DEF ManagerInv
<1>2. QED
  BY <1>1, ManagerInvariance, PTL

(* A limit of the budget is overdrawn by at most one answer.               *)
THEOREM ManagerOverdraftBounded == Spec => []OverdraftBounded
<1>1. ManagerInv => OverdraftBounded
  BY DEF ManagerInv
<1>2. QED
  BY <1>1, ManagerInvariance, PTL

(* Callers get answers to their own question, fresh enough and paid for.   *)
THEOREM ManagerAnswerFits == Spec => []AnswerFits
<1>1. ManagerInv => AnswerFits
  BY DEF ManagerInv
<1>2. QED
  BY <1>1, ManagerInvariance, PTL

(* A bucket lets through its size and what time has brought, no more.      *)
THEOREM ManagerBucketBounded == Spec => []BucketBounded
<1>1. ManagerInv => BucketBounded
  BY DEF ManagerInv
<1>2. QED
  BY <1>1, ManagerInvariance, PTL

(* A failed provider is left alone for the whole of its cool-down.         *)
THEOREM ManagerCoolingIsLeftAlone == Spec => CoolingIsLeftAlone
<1> DEFINE Calls == \A p \in Providers :
             phase = "asking" /\ phase' = "calling" /\ IsNext(p) /\ failedAt[p] # 0
               => now > failedAt[p] + Cooldown
<1>1. ManagerInv /\ [Next]_vars => [Calls]_vars
  <2> SUFFICES ASSUME ManagerInv, Next, phase = "asking", phase' = "calling",
                      NEW p \in Providers, IsNext(p), failedAt[p] # 0
               PROVE  now > failedAt[p] + Cooldown
    OBVIOUS
  <2>1. PICK q \in Providers : Call(q)
    <3>1. CASE \E q \in Prompts, m \in Models : Begin(q, m)
      BY <3>1 DEF Begin
    <3>2. CASE Serve
      BY <3>2 DEF Serve, PassOver, ServeCached, Refuse, CallFails, CallAnswers, GiveUp, Reach
    <3>3. CASE (\E q \in Providers, up \in BOOLEAN : Mark(q, up)) \/ Tick \/ (\E q \in Limited : Refill(q))
      BY <3>3 DEF Mark, Tick, Refill
    <3>4. QED
      BY <3>1, <3>2, <3>3 DEF Next
  <2>2. q = p
    BY <2>1, OneIsNext DEF ManagerInv, Call, Reach
  <2>3. Up(p)
    BY <2>1, <2>2 DEF Call, Reach
  <2>4. QED
    BY <2>3 DEF ManagerInv, Cooling, Up
<1>2. QED
  BY <1>1, ManagerInvariance, PTL DEF Spec, CoolingIsLeftAlone
-----------------------------------------------------------------------------
\* f is the function by which Spent is defined.
Accounts(f, ledger) ==
  f = [i \in 0 .. Len(ledger) |->
         IF i = 0 THEN 0 ELSE f[i - 1] + ledger[i].input + ledger[i].output]

(* There is such a function, whose values are numbers.                     *)
LEMMA Accounting ==
  ASSUME NEW ledger \in Seq(Record)
  PROVE  \E f : Accounts(f, ledger) /\ f[0] = 0 /\ Spent(ledger) = f[Len(ledger)]
<1> DEFINE n == Len(ledger)
           V == Nat
           G == [p \in (1 .. n) \X V |-> p[2] + ledger[p[1]].input + ledger[p[1]].output]
           Def(f) == [i \in 0 .. n |->
                        IF i = 0 THEN 0 ELSE f[i - 1] + ledger[i].input + ledger[i].output]
           f == CHOOSE f : f = Def(f)
<1>1. n \in Nat /\ \A i \in 1 .. n : ledger[i].input \in Nat /\ ledger[i].output \in Nat
  <2>1. n \in Nat /\ \A i \in 1 .. n : ledger[i] \in Record
    BY ElementOfSeq
  <2>2. \A r \in Record : r.input \in Nat /\ r.output \in Nat
    BY DEF Record
  <2>3. QED
    BY <2>1, <2>2
<1>2. G \in Steps(V, n) /\ 0 \in V
  BY <1>1 DEF Steps
<1>3. PICK h \in [0 .. n -> V] : Iterates(h, 0, G, n)
  <2> HIDE DEF n, V, G
  <2>1. QED
    BY <1>1, <1>2, Iteration
<1>4. h = Def(h)
  <2>1. h = [i \in 0 .. n |-> h[i]]
    OBVIOUS
  <2>2. ASSUME NEW i \in 0 .. n
        PROVE  h[i] = IF i = 0 THEN 0 ELSE h[i - 1] + ledger[i].input + ledger[i].output
    <3>1. CASE i = 0
      BY <1>3, <3>1 DEF Iterates
    <3>2. CASE i # 0
      <4>1. i \in 1 .. n /\ i - 1 \in 0 .. n
        BY <1>1, <3>2
      <4>2. <<i, h[i - 1]>> \in (1 .. n) \X V
        BY <1>3, <4>1
      <4>3. h[i] = G[<<i, h[i - 1]>>]
        BY <1>3, <4>1 DEF Iterates
      <4>4. QED
        BY <3>2, <4>2, <4>3
    <3>3. QED
      BY <3>1, <3>2
  <2>3. QED
    BY <2>1, <2>2
<1>5. f = Def(f)
  <2> HIDE DEF Def
  <2>1. QED
    BY <1>4
<1>6. Spent(ledger) = f[n]
  BY DEF Spent
<1>7. f[0] = 0
  <2> HIDE DEF f
  <2>1. 0 \in 0 .. n
    BY <1>1
  <2>2. QED
    BY <1>5, <2>1
<1>8. QED
  <2> HIDE DEF f
  <2>1. QED
    BY <1>5, <1>6, <1>7 DEF Accounts

(* An empty ledger comes to nothing.                                       *)
LEMMA SpentNothing == Spent(<< >>) = 0
<1>1. << >> \in Seq(Record) /\ Len(<< >>) = 0
  OBVIOUS
<1>2. PICK f : f[0] = 0 /\ Spent(<< >>) = f[Len(<< >>)]
  BY <1>1, Accounting
<1>3. QED
  BY <1>1, <1>2

(* A record adds what it says, and nothing it was added to is counted anew.*)
LEMMA SpentOnMore ==
  ASSUME NEW ledger \in Seq(Record), NEW record \in Record
  PROVE  Spent(Append(ledger, record)) = Spent(ledger) + record.input + record.output
<1> DEFINE n == Len(ledger)
           longer == Append(ledger, record)
<1>1. /\ n \in Nat /\ longer \in Seq(Record) /\ Len(longer) = n + 1
      /\ \A i \in 1 .. n : longer[i] = ledger[i]
      /\ longer[n + 1] = record
  OBVIOUS
<1> HIDE DEF longer
<1>2. PICK f : /\ f = [i \in 0 .. n |->
                         IF i = 0 THEN 0 ELSE f[i - 1] + ledger[i].input + ledger[i].output]
               /\ f[0] = 0 /\ Spent(ledger) = f[n]
  BY Accounting DEF Accounts
<1>3. PICK g : /\ g = [i \in 0 .. n + 1 |->
                         IF i = 0 THEN 0 ELSE g[i - 1] + longer[i].input + longer[i].output]
               /\ g[0] = 0 /\ Spent(longer) = g[n + 1]
  <2>1. PICK g : Accounts(g, longer) /\ g[0] = 0 /\ Spent(longer) = g[Len(longer)]
    BY <1>1, Accounting
  <2>2. QED
    BY <1>1, <2>1 DEF Accounts
<1> HIDE DEF n
<1>4. StepAlike(f, g, n)
  <2> SUFFICES ASSUME NEW i \in 1 .. n, f[i - 1] = g[i - 1]
               PROVE  f[i] = g[i]
    BY DEF StepAlike
  <2>1. i \in 0 .. n /\ i \in 0 .. n + 1 /\ i # 0
    BY <1>1
  <2>2. f[i] = f[i - 1] + ledger[i].input + ledger[i].output
    BY <1>2, <2>1
  <2>3. g[i] = g[i - 1] + longer[i].input + longer[i].output
    BY <1>3, <2>1
  <2>4. QED
    BY <1>1, <2>2, <2>3
<1>5. f[n] = g[n]
  <2>1. n \in Nat /\ f[0] = g[0]
    BY <1>1, <1>2, <1>3
  <2>2. \A i \in 0 .. n : f[i] = g[i]
    BY <1>4, <2>1, Alike
  <2>3. QED
    BY <2>1, <2>2
<1>6. g[n + 1] = g[n] + record.input + record.output
  <2>1. n + 1 \in 0 .. n + 1 /\ n + 1 # 0 /\ (n + 1) - 1 = n
    BY <1>1
  <2>2. g[n + 1] = g[(n + 1) - 1] + longer[n + 1].input + longer[n + 1].output
    BY <1>3, <2>1
  <2>3. QED
    BY <1>1, <2>1, <2>2
<1>7. QED
  BY <1>2, <1>3, <1>5, <1>6 DEF longer

(* Only an answer is charged, and it is charged what it is recorded with.  *)
LEMMA LedgerStep == TypeOK /\ BudgetIsLedger /\ [Next]_vars => BudgetIsLedger'
<1> SUFFICES ASSUME TypeOK, BudgetIsLedger, [Next]_vars
             PROVE  BudgetIsLedger'
  OBVIOUS
<1>1. CASE UNCHANGED budget
  BY <1>1 DEF budget, BudgetIsLedger
<1>2. ASSUME NEW p \in Providers, NEW out \in Outputs, CallAnswers(p, out)
      PROVE  BudgetIsLedger'
  <2> DEFINE record == [provider |-> p, model |-> Target(p), text |-> Text[request.prompt],
                        at |-> now, input |-> Input[request.prompt], output |-> out]
  <2>1. records' = Append(records, record) /\ used' = used + Input[request.prompt] + out
    BY <1>2 DEF CallAnswers, RecordUsage
  <2>2. record \in Record /\ record.input = Input[request.prompt] /\ record.output = out
    <3>1. request.prompt \in Prompts /\ now \in Nat
      BY DEF TypeOK
    <3>2. Input[request.prompt] \in Nat /\ out \in Nat
      BY <3>1, Sizes
    <3>3. Target(p) \in Models \cup {NoModel} /\ Text[request.prompt] \in Texts
      BY KeyType
    <3>4. QED
      BY <3>1, <3>2, <3>3 DEF Record
  <2>3. records \in Seq(Record)
    BY DEF TypeOK
  <2> HIDE DEF record
  <2>4. Spent(Append(records, record)) = Spent(records) + record.input + record.output
    BY <2>2, <2>3, SpentOnMore
  <2>5. QED
    BY <2>1, <2>2, <2>4 DEF BudgetIsLedger
<1>3. CASE \E q \in Prompts, m \in Models : Begin(q, m)
  BY <1>1, <1>3 DEF Begin
<1>4. CASE Serve
  BY <1>1, <1>2, <1>4 DEF Serve, PassOver, ServeCached, Refuse, Call, CallFails, GiveUp
<1>5. CASE \E p \in Providers, up \in BOOLEAN : Mark(p, up)
  BY <1>1, <1>5 DEF Mark
<1>6. CASE Tick \/ \E p \in Limited : Refill(p)
  BY <1>1, <1>6 DEF Tick, Refill
<1>7. CASE UNCHANGED vars
  BY <1>1, <1>7 DEF vars
<1>8. QED
  BY <1>3, <1>4, <1>5, <1>6, <1>7 DEF Next

(* What the budget counts is at all times the sum of the input and the     *)
(* output of the cost records, however long the ledger: failed calls,      *)
(* refusals and cached answers are in neither.                             *)
THEOREM ManagerBudgetIsLedger == Spec => []BudgetIsLedger
<1>1. Init => BudgetIsLedger
  BY SpentNothing DEF Init, BudgetIsLedger
<1>2. QED
  BY <1>1, LedgerStep, ManagerTypeCorrect, PTL DEF Spec
=============================================================================
