------------------------- MODULE ReviewEngineProofs -------------------------
(* Theorems about ReviewEngine for any findings, diffs and reports, and    *)
(* the safety part of its refinement of ReviewDelivery.                    *)
EXTENDS ReviewEngine, IterationLemmas, TLAPS

\* Requests of PostReview that may have been carried out so far.
Quota ==
  IF mode = "pipelined"
  THEN CASE step = "repost" -> 1 [] step = "over" -> 2 [] OTHER -> 0
  ELSE CASE step = "repost" -> 3 [] step = "over" -> 4 [] OTHER -> 2

(* While the run goes on no reply has told it of a review.                 *)
AcksEndTheRun ==
  /\ answer = "pending" <=> step # "over"
  /\ \A i \in 1 .. Len(posts) :
       posts[i].acked => i = Len(posts) /\ answer \in {"success", "partial"}
  /\ answer \in {"success", "partial"} => posts # << >> /\ posts[Len(posts)].acked

EngineInv == TypeOK /\ Len(posts) <= Quota /\ AcksEndTheRun /\ PostsAreWhole
-----------------------------------------------------------------------------
(* The score of any sequence of affected nodes lies between 0 and 100.     *)
LEMMA BriefingType ==
  ASSUME NEW affected \in Gathered
  PROVE  Briefing(affected) \in Brief
<1> DEFINE aggregated == AggregateImpacts(affected)
<1>1. affected \in Seq(Affected)
  <2>1. CASE affected = << >>
    BY <2>1
  <2>2. CASE affected \in Impacts
    BY <2>2, FindingsAssumption
  <2>3. QED
    BY <2>1, <2>2 DEF Gathered
<1>2. IsFiniteSet(DOMAIN affected) /\ DOMAIN affected \subseteq Nat
  <2>1. Len(affected) \in Nat /\ DOMAIN affected = 1 .. Len(affected)
    BY <1>1
  <2>2. IsFiniteSet(1 .. Len(affected))
    BY <2>1, FS_Interval
  <2>3. QED
    BY <2>1, <2>2
<1>3. ASSUME NEW t \in Tiers
      PROVE  aggregated[t] \in SUBSET Nat /\ Cardinality(aggregated[t]) \in Nat
  <2>1. aggregated[t] \subseteq DOMAIN affected
    BY DEF AggregateImpacts, FirstMet
  <2>2. QED
    BY <1>2, <2>1, FS_Subset, FS_CardinalityType
<1>4. aggregated \in [Tiers -> SUBSET Nat]
  BY <1>3 DEF AggregateImpacts
<1>5. CalculateHealthScore(aggregated) \in 0 .. 100
  <2> DEFINE b == Cardinality(aggregated["BREAKING"])
             l == Cardinality(aggregated["LOGIC"])
             f == Cardinality(aggregated["LEAF"])
  <2>1. b \in Nat /\ l \in Nat /\ f \in Nat
    BY <1>3 DEF Tiers
  <2>2. CalculateHealthScore(aggregated)
          = IF 100 - 10 * b - 5 * l - 2 * f < 0 THEN 0 ELSE 100 - 10 * b - 5 * l - 2 * f
    BY DEF CalculateHealthScore
  <2> HIDE DEF b, l, f
  <2>3. QED
    BY <2>1, <2>2
<1>6. QED
  BY <1>4, <1>5 DEF Briefing, Brief, Gathered

LEMMA EngineInvInit == Init => EngineInv
<1>1. Briefing(<< >>) \in Brief
  BY BriefingType DEF Gathered
<1>2. QED
  BY <1>1 DEF Init, EngineInv, TypeOK, Quota, AcksEndTheRun, PostsAreWhole

(* One request adds at most one review, acknowledged only if it is the     *)
(* reply that ends the run.                                                *)
LEMMA CreateReviewEffect ==
  ASSUME posts \in Seq(Post), review \in SUBSET Findings,
         patch \in Patches \cup {<< >>}, step \in {"post", "repost"},
         NEW inline \in SUBSET Findings, NEW body \in SUBSET Findings,
         NEW reply \in Replies, CreateReview(inline, body, reply)
  PROVE  /\ posts' \in Seq(Post)
         /\ \/ posts' = posts /\ reply # "ok"
            \/ /\ Len(posts') = Len(posts) + 1
               /\ \A i \in 1 .. Len(posts) : posts'[i] = posts[i]
               /\ posts'[Len(posts) + 1].of = review
               /\ posts'[Len(posts) + 1].inline = inline
               /\ posts'[Len(posts) + 1].body = body
               /\ posts'[Len(posts) + 1].acked <=> reply = "ok"
               /\ posts' # << >>
<1> DEFINE post == [of |-> review, inline |-> inline, body |-> body,
                    patch |-> patch, by |-> step, acked |-> reply = "ok"]
<1>1. post \in Post
  BY DEF Post
<1>2. /\ post.of = review /\ post.inline = inline /\ post.body = body
      /\ post.acked <=> reply = "ok"
  OBVIOUS
<1>3. CASE reply \notin {"ok", "lost"}
  BY <1>3 DEF CreateReview
<1>4. CASE reply \in {"ok", "lost"}
  <2>1. posts' = Append(posts, post)
    BY <1>4 DEF CreateReview
  <2> HIDE DEF post
  <2>2. /\ posts' \in Seq(Post)
        /\ Len(posts') = Len(posts) + 1
        /\ \A i \in 1 .. Len(posts) : posts'[i] = posts[i]
        /\ posts'[Len(posts) + 1] = post
        /\ posts' # << >>
    BY <1>1, <2>1
  <2>3. QED
    BY <1>2, <2>2
<1>5. QED
  BY <1>3, <1>4

(* Either PostReview request: what it writes is whole, and the run ends    *)
(* with the acknowledgement or goes on as after any failure.               *)
LEMMA RequestKeeps ==
  ASSUME EngineInv, step \in {"post", "repost"},
         NEW inline \in SUBSET Findings, NEW body \in SUBSET Findings,
         inline \cup body = review, inline \cap body = {},
         NEW reply \in Replies, CreateReview(inline, body, reply),
         \/ reply = "ok" /\ Done
         \/ reply # "ok" /\ (Failed \/ (step = "post" /\ GoOn("repost") /\ UNCHANGED review)),
         UNCHANGED <<patch, brief, mentions>>
  PROVE  EngineInv'
<1>1. /\ posts' \in Seq(Post)
      /\ \/ posts' = posts /\ reply # "ok"
         \/ /\ Len(posts') = Len(posts) + 1
            /\ \A i \in 1 .. Len(posts) : posts'[i] = posts[i]
            /\ posts'[Len(posts) + 1].of = review
            /\ posts'[Len(posts) + 1].inline = inline
            /\ posts'[Len(posts) + 1].body = body
            /\ posts'[Len(posts) + 1].acked <=> reply = "ok"
            /\ posts' # << >>
  BY CreateReviewEffect DEF EngineInv, TypeOK
<1>2. Len(posts) \in Nat /\ Len(posts') \in Nat
  BY <1>1 DEF EngineInv, TypeOK
<1>3. TypeOK'
  BY <1>1 DEF EngineInv, TypeOK, Done, Failed, PipelineFailed, LegacyFailed, GoOn
<1>4. (Len(posts) <= Quota)'
  BY <1>1, <1>2 DEF EngineInv, Quota, TypeOK, Done, Failed, PipelineFailed, LegacyFailed, GoOn
<1>5. PostsAreWhole'
  BY <1>1, <1>2 DEF EngineInv, PostsAreWhole
<1>6. AcksEndTheRun'
  <2>1. answer = "pending" /\ \A i \in 1 .. Len(posts) : ~ posts[i].acked
    BY DEF EngineInv, AcksEndTheRun
  <2>2. CASE reply = "ok" /\ Done
    BY <1>1, <1>2, <2>1, <2>2 DEF EngineInv, TypeOK, AcksEndTheRun, Done
  <2>3. CASE reply # "ok"
    BY <1>1, <1>2, <2>1, <2>3
       DEF EngineInv, TypeOK, AcksEndTheRun, Failed, PipelineFailed, LegacyFailed, GoOn
  <2>4. QED
    BY <2>2, <2>3
<1>7. QED
  BY <1>3, <1>4, <1>5, <1>6 DEF EngineInv

LEMMA EngineInvStep == EngineInv /\ [Next]_vars => EngineInv'
<1> SUFFICES ASSUME EngineInv, [Next]_vars
             PROVE  EngineInv'
  OBVIOUS
<1>1. CASE Fetch \/ RunAgents
  <2>1. brief' \in Brief
    BY <1>1, BriefingType DEF Fetch, RunAgents, EngineInv, TypeOK
  <2>2. QED
    BY <1>1, <2>1 DEF Fetch, RunAgents, EngineInv, TypeOK, Quota, AcksEndTheRun,
                      PostsAreWhole, Failed, PipelineFailed, LegacyFailed, GoOn
<1>2. CASE PostComments
  <2>1. PICK reply \in Replies :
          /\ CreateReview(Commentable(review), review \ Commentable(review), reply)
          /\ \/ reply = "ok" /\ Done
             \/ Looks422(reply) /\ GoOn("repost") /\ UNCHANGED review
             \/ reply # "ok" /\ ~ Looks422(reply) /\ Failed
    BY <1>2 DEF PostComments
  <2>2. Looks422(reply) => reply # "ok"
    BY DEF Looks422
  <2>3. /\ step = "post" /\ UNCHANGED <<patch, brief, mentions>>
        /\ Commentable(review) \in SUBSET Findings
        /\ review \ Commentable(review) \in SUBSET Findings
        /\ Commentable(review) \cup (review \ Commentable(review)) = review
        /\ Commentable(review) \cap (review \ Commentable(review)) = {}
    BY <1>2 DEF PostComments, EngineInv, TypeOK, Commentable
  <2>4. QED
    BY <2>1, <2>2, <2>3, RequestKeeps
<1>3. CASE PostSummary
  <2>1. PICK reply \in Replies :
          CreateReview({}, review, reply) /\ IF reply = "ok" THEN Done ELSE Failed
    BY <1>3 DEF PostSummary
  <2>2. /\ step = "repost" /\ UNCHANGED <<patch, brief, mentions>>
        /\ {} \in SUBSET Findings /\ review \in SUBSET Findings
    BY <1>3 DEF PostSummary, EngineInv, TypeOK
  <2>3. QED
    BY <2>1, <2>2, RequestKeeps
<1>4. CASE UNCHANGED vars
  BY <1>4 DEF vars, EngineInv, TypeOK, Quota, AcksEndTheRun, PostsAreWhole
<1>5. QED
  BY <1>1, <1>2, <1>3, <1>4 DEF Next

THEOREM EngineInvariance == Spec => []EngineInv
BY EngineInvInit, EngineInvStep, PTL DEF Spec

(* Every variable keeps its type; the score stays between 0 and 100.       *)
THEOREM EngineTypeCorrect == Spec => []TypeOK
<1>1. EngineInv => TypeOK
  BY DEF EngineInv
<1>2. QED
  BY <1>1, EngineInvariance, PTL
-----------------------------------------------------------------------------
(* Every review put on the pull request has each of its findings once.     *)
THEOREM EnginePostsAreWhole == Spec => []PostsAreWhole
<1>1. EngineInv => PostsAreWhole
  BY DEF EngineInv
<1>2. QED
  BY <1>1, EngineInvariance, PTL

(* Nothing is written past an acknowledged review, and success is answered *)
(* exactly for one.                                                        *)
THEOREM EngineKnownPostIsLast == Spec => []KnownPostIsLast
<1>1. EngineInv => KnownPostIsLast
  <2> SUFFICES ASSUME EngineInv
               PROVE  KnownPostIsLast
    OBVIOUS
  <2>1. posts # << >> => Len(posts) \in 1 .. Len(posts)
    BY DEF EngineInv, TypeOK
  <2>2. QED
    BY <2>1 DEF EngineInv, AcksEndTheRun, KnownPostIsLast
<1>2. QED
  BY <1>1, EngineInvariance, PTL

LEMMA EngineStepIsDeliveryStep ==
  ASSUME EngineInv, EngineInv', [Next]_vars
  PROVE  [Delivery!Publish \/ Delivery!ReportFailed]_(Delivery!delivery)
<1> USE DEF Delivery!delivery, Delivery!Publish, Delivery!ReportFailed
<1>1. CASE Fetch \/ RunAgents
  BY <1>1 DEF Fetch, RunAgents, Failed, PipelineFailed, LegacyFailed, GoOn,
              EngineInv, AcksEndTheRun
<1>2. ASSUME NEW inline \in SUBSET Findings, NEW body \in SUBSET Findings,
             NEW reply \in Replies, CreateReview(inline, body, reply),
             step \in {"post", "repost"}
      PROVE  [Delivery!Publish \/ Delivery!ReportFailed]_(Delivery!delivery)
  <2>1. answer = "pending" /\ Len(posts) \in Nat /\ Len(posts') \in Nat
    BY <1>2 DEF EngineInv, AcksEndTheRun, TypeOK
  <2>2. CASE posts' = posts
    <3>1. answer' \notin {"success", "partial"}
      BY <2>1, <2>2 DEF EngineInv, AcksEndTheRun, TypeOK
    <3>2. QED
      BY <2>1, <2>2, <3>1 DEF EngineInv, TypeOK
  <2>3. CASE Len(posts') = Len(posts) + 1
    <3>1. Len(posts') <= 4
      BY <2>1 DEF EngineInv, TypeOK, Quota
    <3>2. QED
      BY <2>1, <2>3, <3>1 DEF EngineInv, TypeOK
  <2>4. QED
    BY <1>2, <2>2, <2>3, CreateReviewEffect DEF EngineInv, TypeOK
<1>3. CASE PostComments \/ PostSummary
  <2>1. step \in {"post", "repost"}
    BY <1>3 DEF PostComments, PostSummary
  <2>2. /\ Commentable(review) \in SUBSET Findings
        /\ review \ Commentable(review) \in SUBSET Findings
        /\ {} \in SUBSET Findings /\ review \in SUBSET Findings
    BY DEF EngineInv, TypeOK, Commentable
  <2>3. CASE PostComments
    BY <2>1, <2>2, <2>3, <1>2 DEF PostComments
  <2>4. CASE PostSummary
    BY <2>1, <2>2, <2>4, <1>2 DEF PostSummary
  <2>5. QED
    BY <1>3, <2>3, <2>4
<1>4. CASE UNCHANGED vars
  BY <1>4 DEF vars
<1>5. QED
  BY <1>1, <1>3, <1>4 DEF Next

(* A run implements what ReviewDelivery promises about safety: at most four *)
(* reviews, success only with one, and nothing after the answer.            *)
THEOREM EngineImplementsDelivery == Spec => Delivery!DeliverySpec
<1>1. Init => Delivery!DeliveryInit
  BY DEF Init, Delivery!DeliveryInit
<1>2. EngineInv /\ EngineInv' /\ [Next]_vars =>
        [Delivery!Publish \/ Delivery!ReportFailed]_(Delivery!delivery)
  BY EngineStepIsDeliveryStep
<1>3. QED
  BY <1>1, <1>2, EngineInvariance, PTL DEF Spec, Delivery!DeliverySpec
-----------------------------------------------------------------------------
\* The nodes that a sequence of reports is about.
NodesOf(s) == {s[i].node : i \in DOMAIN s}

(* A sequence of reports is finite, and so is what is picked from it.      *)
LEMMA Reports ==
  ASSUME NEW s \in Seq(Affected)
  PROVE  /\ DOMAIN s = 1 .. Len(s) /\ Len(s) \in Nat
         /\ IsFiniteSet(DOMAIN s) /\ IsFiniteSet(FirstMet(s))
<1>1. DOMAIN s = 1 .. Len(s) /\ Len(s) \in Nat
  OBVIOUS
<1>2. IsFiniteSet(DOMAIN s)
  BY <1>1, FS_Interval
<1>3. FirstMet(s) \in SUBSET DOMAIN s
  BY DEF FirstMet
<1>4. QED
  BY <1>1, <1>2, <1>3, FS_Subset

(* Every node is met first somewhere, and nowhere else.                    *)
LEMMA MetOnce ==
  ASSUME NEW s \in Seq(Affected)
  PROVE  /\ {s[i].node : i \in FirstMet(s)} = NodesOf(s)
         /\ Cardinality(FirstMet(s)) = Cardinality(NodesOf(s))
<1> DEFINE at == [i \in FirstMet(s) |-> s[i].node]
<1>1. FirstMet(s) \subseteq DOMAIN s /\ DOMAIN s \subseteq Nat
  BY Reports DEF FirstMet
<1>2. ASSUME NEW i \in DOMAIN s
      PROVE  \E j \in FirstMet(s) : s[j].node = s[i].node
  <2> DEFINE T == {j \in DOMAIN s : s[j].node = s[i].node}
  <2>1. T \in SUBSET Nat /\ T # {}
    BY <1>1
  <2>2. PICK j \in T : \A k \in T : j <= k
    <3> HIDE DEF T
    <3>1. QED
      BY <2>1, LeastNumber
  <2>3. ASSUME NEW k \in 1 .. j - 1
        PROVE  s[k].node # s[j].node
    <3>1. k \in DOMAIN s /\ ~ (j <= k)
      BY <2>2, Reports
    <3>2. QED
      BY <2>2, <3>1
  <2>4. QED
    BY <2>2, <2>3 DEF FirstMet
<1>3. {s[i].node : i \in FirstMet(s)} = NodesOf(s)
  BY <1>1, <1>2 DEF NodesOf
<1>4. ASSUME NEW i \in FirstMet(s), NEW j \in FirstMet(s), s[i].node = s[j].node
      PROVE  i = j
  <2>1. i \in Nat /\ j \in Nat /\ i >= 1 /\ j >= 1
    BY <1>1, Reports
  <2>2. i \notin 1 .. j - 1 /\ j \notin 1 .. i - 1
    BY <1>4 DEF FirstMet
  <2>3. QED
    BY <2>1, <2>2
<1>5. at \in Surjection(FirstMet(s), NodesOf(s)) /\ at \in Injection(FirstMet(s), NodesOf(s))
  <2>1. at \in [FirstMet(s) -> NodesOf(s)]
    BY <1>1 DEF NodesOf
  <2>2. \A n \in NodesOf(s) : \E i \in FirstMet(s) : at[i] = n
    BY <1>3
  <2>3. \A i, j \in FirstMet(s) : at[i] = at[j] => i = j
    BY <1>4
  <2>4. QED
    BY <2>1, <2>2, <2>3 DEF Surjection, Injection, IsInjective
<1>6. QED
  <2> HIDE DEF at
  <2>1. QED
    BY <1>3, <1>5, Reports, FS_Surjection

(* The tiers share out the places where nodes are met first.               *)
LEMMA TiersShareOut ==
  ASSUME NEW s \in Seq(Affected)
  PROVE  LET tiers == AggregateImpacts(s) IN
         /\ UNION {tiers[t] : t \in Tiers} = FirstMet(s)
         /\ \A t \in Tiers : IsFiniteSet(tiers[t]) /\ Cardinality(tiers[t]) \in Nat
         /\ Cardinality(tiers["BREAKING"]) + Cardinality(tiers["LOGIC"])
              + Cardinality(tiers["LEAF"]) = Cardinality(FirstMet(s))
<1> DEFINE tiers == AggregateImpacts(s)
           B == tiers["BREAKING"]
           L == tiers["LOGIC"]
           F == tiers["LEAF"]
<1>1. \A t \in Tiers : tiers[t] = {i \in FirstMet(s) : Tier(s[i]) = t}
  BY DEF AggregateImpacts
<1>2. \A i \in FirstMet(s) : Tier(s[i]) \in Tiers
  BY DEF Tier, Tiers
<1>3. UNION {tiers[t] : t \in Tiers} = FirstMet(s)
  <2> HIDE DEF tiers
  <2>1. QED
    BY <1>1, <1>2
<1>4. ASSUME NEW t \in Tiers
      PROVE  IsFiniteSet(tiers[t]) /\ Cardinality(tiers[t]) \in Nat
  <2>1. tiers[t] \in SUBSET FirstMet(s)
    BY <1>1
  <2> HIDE DEF tiers
  <2>2. QED
    BY <2>1, Reports, FS_Subset, FS_CardinalityType
<1>5. /\ B \cap L = {} /\ (B \cup L) \cap F = {}
      /\ (B \cup L) \cup F = FirstMet(s)
  <2>1. /\ B = {i \in FirstMet(s) : Tier(s[i]) = "BREAKING"}
        /\ L = {i \in FirstMet(s) : Tier(s[i]) = "LOGIC"}
        /\ F = {i \in FirstMet(s) : Tier(s[i]) = "LEAF"}
    BY <1>1 DEF Tiers
  <2> HIDE DEF B, L, F
  <2>2. QED
    BY <1>2, <2>1 DEF Tiers
<1>6. /\ IsFiniteSet(B) /\ IsFiniteSet(L) /\ IsFiniteSet(F)
      /\ Cardinality(B) \in Nat /\ Cardinality(L) \in Nat /\ Cardinality(F) \in Nat
  BY <1>4 DEF Tiers
<1>7. Cardinality(B) + Cardinality(L) + Cardinality(F) = Cardinality(FirstMet(s))
  <2> HIDE DEF B, L, F, tiers
  <2>1. Cardinality({}) = 0
    BY FS_EmptySet
  <2>2. /\ IsFiniteSet(B \cup L)
        /\ Cardinality(B \cup L) = Cardinality(B) + Cardinality(L) - Cardinality(B \cap L)
    BY <1>6, FS_Union
  <2>3. Cardinality((B \cup L) \cup F)
          = Cardinality(B \cup L) + Cardinality(F) - Cardinality((B \cup L) \cap F)
    BY <1>6, <2>2, FS_Union
  <2>4. /\ Cardinality(B \cap L) = 0 /\ Cardinality((B \cup L) \cap F) = 0
        /\ Cardinality((B \cup L) \cup F) = Cardinality(FirstMet(s))
    BY <1>5, <2>1
  <2>5. QED
    BY <1>6, <2>2, <2>3, <2>4
<1>8. QED
  BY <1>3, <1>4, <1>7

(* What the diplomat is told of any reports: each node once, and a score   *)
(* between 10 and 2 points a node below 100, or 0.                         *)
CountsOnce(b) ==
  LET nodes == NodesOf(b.affected)
      told == UNION {b.tiers[t] : t \in Tiers}
      n == Cardinality(nodes)
  IN /\ Cardinality(told) = n
     /\ {b.affected[i].node : i \in told} = nodes
     /\ b.score \in {s \in 0 .. 100 : s >= 100 - 10 * n /\ (s = 0 \/ s <= 100 - 2 * n)}

LEMMA BriefingCountsOnce ==
  ASSUME NEW s \in Seq(Affected)
  PROVE  CountsOnce(Briefing(s))
<1> DEFINE tiers == AggregateImpacts(s)
           n == Cardinality(NodesOf(s))
           b == Cardinality(tiers["BREAKING"])
           l == Cardinality(tiers["LOGIC"])
           f == Cardinality(tiers["LEAF"])
           score == CalculateHealthScore(tiers)
<1>1. UNION {tiers[t] : t \in Tiers} = FirstMet(s)
  BY TiersShareOut
<1>2. Cardinality(FirstMet(s)) = n /\ {s[i].node : i \in FirstMet(s)} = NodesOf(s)
  BY MetOnce
<1>3. b \in Nat /\ l \in Nat /\ f \in Nat /\ b + l + f = n
  BY <1>2, TiersShareOut DEF Tiers
<1>4. score = IF 100 - 10 * b - 5 * l - 2 * f < 0 THEN 0 ELSE 100 - 10 * b - 5 * l - 2 * f
  BY DEF CalculateHealthScore
<1>5. Briefing(s).affected = s /\ Briefing(s).tiers = tiers /\ Briefing(s).score = score
  BY DEF Briefing
<1> HIDE DEF tiers, n, b, l, f, score
<1>6. score \in 0 .. 100 /\ score >= 100 - 10 * n /\ (score = 0 \/ score <= 100 - 2 * n)
  BY <1>3, <1>4
<1>7. QED
  BY <1>1, <1>2, <1>5, <1>6 DEF CountsOnce, n

\* What the brief tells was worked out from what it names.
BriefIsBriefing ==
  brief.affected \in Seq(Affected) /\ brief = Briefing(brief.affected)

LEMMA BriefStep == BriefIsBriefing /\ [Next]_vars => BriefIsBriefing'
<1> SUFFICES ASSUME BriefIsBriefing, [Next]_vars
             PROVE  BriefIsBriefing'
  OBVIOUS
<1>1. ASSUME NEW affected \in Gathered, brief' = Briefing(affected)
      PROVE  BriefIsBriefing'
  <2>1. affected \in Seq(Affected)
    <3>1. CASE affected = << >>
      BY <3>1
    <3>2. CASE affected \in Impacts
      BY <3>2, FindingsAssumption
    <3>3. QED
      BY <3>1, <3>2 DEF Gathered
  <2>2. brief'.affected = affected
    BY <1>1 DEF Briefing
  <2>3. QED
    BY <1>1, <2>1, <2>2 DEF BriefIsBriefing
<1>2. CASE UNCHANGED brief
  BY <1>2 DEF BriefIsBriefing
<1>3. QED
  BY <1>1, <1>2 DEF Next, vars, Fetch, RunAgents, PostComments, PostSummary

(* Whatever the scout finds, each affected node weighs on the score once,  *)
(* in whatever order and however often the reports come to it.             *)
THEOREM EngineImpactsCountOnce == Spec => []ImpactsCountOnce
<1>1. Init => BriefIsBriefing
  <2> SUFFICES ASSUME Init
               PROVE  BriefIsBriefing
    OBVIOUS
  <2>1. << >> \in Seq(Affected) /\ Briefing(<< >>).affected = << >>
    BY DEF Briefing
  <2>2. QED
    BY <2>1 DEF Init, BriefIsBriefing
<1>2. BriefIsBriefing => ImpactsCountOnce
  <2> SUFFICES ASSUME BriefIsBriefing
               PROVE  ImpactsCountOnce
    OBVIOUS
  <2>1. CountsOnce(brief)
    BY BriefingCountsOnce DEF BriefIsBriefing
  <2>2. QED
    BY <2>1 DEF CountsOnce, NodesOf, ImpactsCountOnce
<1>3. QED
  BY <1>1, <1>2, BriefStep, PTL DEF Spec
-----------------------------------------------------------------------------
\* What validateLineInDiff counts line by line.
CountsLines(c, p) ==
  /\ c \in [0 .. Len(p) -> Nat]
  /\ \A i \in 1 .. Len(p) :
       c[i] = IF p[i].kind = "hunk" THEN p[i].start
              ELSE IF c[i - 1] = 0 \/ p[i].kind = "-" THEN c[i - 1]
              ELSE c[i - 1] + 1

(* What the lines of a patch are.                                          *)
LEMMA Lines ==
  ASSUME NEW p \in Seq(PatchLine)
  PROVE  /\ DOMAIN p = 1 .. Len(p) /\ Len(p) \in Nat
         /\ \A i \in 1 .. Len(p) : p[i].kind \in LineKinds /\ p[i].start \in Nat
<1>1. DOMAIN p = 1 .. Len(p) /\ Len(p) \in Nat
  OBVIOUS
<1>2. \A i \in 1 .. Len(p) : p[i] \in PatchLine
  BY ElementOfSeq
<1>3. \A x \in PatchLine : x.kind \in LineKinds /\ x.start \in Nat
  BY DEF PatchLine
<1>4. QED
  BY <1>1, <1>2, <1>3

(* currentLine has a value after every line of every patch.                *)
LEMMA Counting ==
  ASSUME NEW p \in Seq(PatchLine)
  PROVE  CountsLines(CurrentLine(p), p)
<1> DEFINE n == Len(p)
           V == Nat
           Next1(i, v) == IF p[i].kind = "hunk" THEN p[i].start
                          ELSE IF v = 0 \/ p[i].kind = "-" THEN v ELSE v + 1
           G == [x \in (1 .. n) \X V |-> Next1(x[1], x[2])]
           Def(f) == [i \in 0 .. n |->
                        IF i = 0 THEN 0
                        ELSE IF p[i].kind = "hunk" THEN p[i].start
                        ELSE IF f[i - 1] = 0 \/ p[i].kind = "-" THEN f[i - 1]
                        ELSE f[i - 1] + 1]
           f == CHOOSE f : f = Def(f)
<1>1. n \in Nat /\ \A i \in 1 .. n, v \in V : Next1(i, v) \in V
  BY Lines
<1>2. G \in Steps(V, n) /\ 0 \in V
  BY <1>1 DEF Steps
<1>3. PICK h \in [0 .. n -> V] : Iterates(h, 0, G, n)
  <2> HIDE DEF n, V, G
  <2>1. QED
    BY <1>1, <1>2, Iteration
<1>4. h = Def(h)
  <2>1. h = [i \in 0 .. n |-> h[i]]
    OBVIOUS
  <2>2. ASSUME NEW i \in 0 .. n
        PROVE  h[i] = IF i = 0 THEN 0 ELSE Next1(i, h[i - 1])
    <3>1. CASE i = 0
      BY <1>3, <3>1 DEF Iterates
    <3>2. CASE i # 0
      <4>1. i \in 1 .. n /\ i - 1 \in 0 .. n
        BY <1>1, <3>2
      <4>2. <<i, h[i - 1]>> \in (1 .. n) \X V
        BY <1>3, <4>1
      <4>3. h[i] = G[<<i, h[i - 1]>>]
        BY <1>3, <4>1 DEF Iterates
      <4> HIDE DEF Next1
      <4>4. QED
        BY <3>2, <4>2, <4>3
    <3>3. QED
      BY <3>1, <3>2
  <2>3. QED
    BY <2>1, <2>2
<1>5. f = Def(f)
  <2> HIDE DEF Def
  <2>1. QED
    BY <1>4
<1>6. CurrentLine(p) = f
  BY DEF CurrentLine
<1> HIDE DEF f
<1>7. f[0] = 0 /\ \A i \in 1 .. n : f[i] = Next1(i, f[i - 1])
  <2>1. 0 \in 0 .. n /\ \A i \in 1 .. n : i \in 0 .. n /\ i # 0
    BY <1>1
  <2>2. QED
    BY <1>5, <2>1
<1>8. StepAlike(f, h, n) /\ f[0] = h[0]
  <2>1. h[0] = 0 /\ \A i \in 1 .. n : h[i] = Next1(i, h[i - 1])
    <3>1. 0 \in 0 .. n /\ \A i \in 1 .. n : i \in 0 .. n /\ i # 0
      BY <1>1
    <3>2. QED
      BY <1>4, <3>1
  <2> HIDE DEF Next1
  <2>2. QED
    BY <1>7, <2>1 DEF StepAlike
<1>9. \A i \in 0 .. n : f[i] = h[i]
  <2> HIDE DEF n, V, G, Def
  <2>1. QED
    BY <1>1, <1>8, Alike
<1>10. f \in [0 .. n -> Nat]
  <2>1. f = [i \in 0 .. n |-> f[i]]
    BY <1>5
  <2> HIDE DEF Def
  <2>2. QED
    BY <1>3, <1>9, <2>1
<1>11. QED
  BY <1>6, <1>7, <1>10 DEF CountsLines

(* Every line of a diff is in a hunk, whose header is the last one so far. *)
LEMMA InAHunk ==
  ASSUME NEW p \in Seq(PatchLine), IsDiff(p), NEW i \in DOMAIN p
  PROVE  /\ HeaderOf(p, i) \in 1 .. i
         /\ p[HeaderOf(p, i)].kind = "hunk"
         /\ \A j \in HeaderOf(p, i) + 1 .. i : p[j].kind # "hunk"
<1> DEFINE T == {m \in Nat : m < i /\ p[i - m].kind = "hunk"}
<1>1. i \in Nat /\ i >= 1 /\ p # << >>
  BY Lines
<1>2. i - 1 \in T
  <2>1. i - (i - 1) = 1 /\ i - 1 \in Nat /\ i - 1 < i
    BY <1>1
  <2>2. QED
    BY <1>1, <2>1 DEF IsDiff
<1>3. PICK m \in T : \A k \in T : m <= k
  <2>1. T \in SUBSET Nat /\ T # {}
    BY <1>2
  <2> HIDE DEF T
  <2>2. QED
    BY <2>1, LeastNumber
<1>4. i - m \in 1 .. i /\ p[i - m].kind = "hunk"
  BY <1>1, <1>3
<1>5. ASSUME NEW j \in (i - m) + 1 .. i
      PROVE  p[j].kind # "hunk"
  <2>1. i - j \in Nat /\ i - j < i /\ ~ (m <= i - j) /\ i - (i - j) = j
    BY <1>1, <1>3
  <2>2. QED
    BY <1>3, <2>1
<1>6. \E h \in 1 .. i : p[h].kind = "hunk" /\ \A j \in h + 1 .. i : p[j].kind # "hunk"
  BY <1>4, <1>5
<1>7. QED
  BY <1>6 DEF HeaderOf

\* The lines of the hunk at h that count, up to line i.
Counted(p, h, i) == {k \in h + 1 .. i : p[k].kind # "-"}

(* Within a hunk that starts past 0, currentLine is that start and one for *)
(* each line that is not deleted.                                          *)
LEMMA WithinAHunk ==
  ASSUME NEW p \in Seq(PatchLine), NEW h \in 1 .. Len(p), NEW i \in h .. Len(p),
         p[h].kind = "hunk", p[h].start > 0,
         \A j \in h + 1 .. i : p[j].kind # "hunk"
  PROVE  CurrentLine(p)[i] = p[h].start + Cardinality(Counted(p, h, i))
<1> DEFINE c == CurrentLine(p)
           Right(j) == /\ IsFiniteSet(Counted(p, h, j))
                       /\ c[j] = p[h].start + Cardinality(Counted(p, h, j))
           S == {m \in Nat : h + m <= i => Right(h + m)}
<1>1. /\ h \in Nat /\ i \in Nat /\ Len(p) \in Nat /\ p[h].start \in Nat /\ h >= 1
      /\ h <= i /\ i <= Len(p)
  BY Lines
<1>2. \A j \in 1 .. Len(p) :
        c[j] = IF p[j].kind = "hunk" THEN p[j].start
               ELSE IF c[j - 1] = 0 \/ p[j].kind = "-" THEN c[j - 1] ELSE c[j - 1] + 1
  BY Counting DEF CountsLines
<1> HIDE DEF c
<1>3. 0 \in S
  <2>1. h + 0 = h /\ Counted(p, h, h) = {}
    BY <1>1 DEF Counted
  <2>2. c[h] = p[h].start
    BY <1>1, <1>2
  <2>3. Right(h)
    BY <1>1, <2>1, <2>2, FS_EmptySet
  <2> HIDE DEF Right
  <2>4. QED
    BY <2>1, <2>3
<1>4. ASSUME NEW m \in S
      PROVE  m + 1 \in S
  <2> SUFFICES ASSUME h + (m + 1) <= i
               PROVE  Right(h + (m + 1))
    OBVIOUS
  <2> DEFINE j == h + m
             C == Counted(p, h, j)
  <2>1. m \in Nat /\ j \in Nat /\ j + 1 = h + (m + 1) /\ j + 1 \in h + 1 .. i
    BY <1>1
  <2>2. IsFiniteSet(C) /\ c[j] = p[h].start + Cardinality(C) /\ Cardinality(C) \in Nat
    <3>1. Right(j)
      BY <1>1, <2>1
    <3>2. QED
      BY <3>1, FS_CardinalityType
  <2>3. c[j + 1] = IF p[j + 1].kind = "-" THEN c[j] ELSE c[j] + 1
    <3>1. (j + 1) - 1 = j /\ p[j + 1].kind # "hunk"
      BY <2>1
    <3>2. j + 1 \in 1 .. Len(p)
      <4> HIDE DEF j
      <4>1. QED
        BY <1>1, <2>1
    <3>3. c[j] # 0
      BY <1>1, <2>2
    <3>4. QED
      BY <1>2, <3>1, <3>2, <3>3
  <2>4. Counted(p, h, j + 1) = IF p[j + 1].kind = "-" THEN C ELSE C \cup {j + 1}
    BY <1>1, <2>1 DEF Counted
  <2>5. j + 1 \notin C
    BY <1>1, <2>1 DEF Counted
  <2> HIDE DEF C, j
  <2>6. IsFiniteSet(C \cup {j + 1}) /\ Cardinality(C \cup {j + 1}) = Cardinality(C) + 1
    BY <2>2, <2>5, FS_AddElement
  <2>7. Right(j + 1)
    <3> DEFINE D == Counted(p, h, j + 1)
    <3>1. IsFiniteSet(D)
      BY <2>2, <2>4, <2>6
    <3>2. Cardinality(D) = Cardinality(C) + IF p[j + 1].kind = "-" THEN 0 ELSE 1
      BY <2>2, <2>4, <2>6
    <3>3. c[j + 1] = p[h].start + Cardinality(D)
      <4> HIDE DEF D
      <4>1. p[h].start \in Nat
        BY <1>1
      <4>2. CASE p[j + 1].kind = "-"
        <5>1. c[j + 1] = c[j] /\ Cardinality(D) = Cardinality(C)
          BY <2>2, <2>3, <3>2, <4>2
        <5>2. QED
          BY <2>2, <5>1
      <4>3. CASE p[j + 1].kind # "-"
        <5>1. c[j + 1] = c[j] + 1 /\ Cardinality(D) = Cardinality(C) + 1
          BY <2>3, <3>2, <4>3
        <5>2. \A a, b \in Nat : (a + b) + 1 = a + (b + 1)
          OBVIOUS
        <5>3. QED
          BY <2>2, <4>1, <5>1, <5>2, Zenon
      <4>4. QED
        BY <4>2, <4>3
    <3>4. QED
      BY <3>1, <3>3
  <2>8. QED
    BY <2>1, <2>7
<1>5. S = Nat
  <2> HIDE DEF S
  <2>1. S \subseteq Nat
    BY DEF S
  <2>2. QED
    BY <1>3, <1>4, <2>1, SetInduction
<1>6. i - h \in S /\ h + (i - h) = i
  <2> HIDE DEF S
  <2>1. QED
    BY <1>1, <1>5
<1>7. Right(i)
  <2>1. i <= i
    BY <1>1
  <2> HIDE DEF Right
  <2>2. QED
    BY <1>6, <2>1
<1>8. QED
  BY <1>7 DEF c

\* No marker comes before line i in its hunk.
Undisplaced(p, i) == LinesBefore(p, i, {"no newline"}) = 0

(* An added line with no marker before it in its hunk is taken for the line*)
(* of the new file that it is.                                             *)
LEMMA AddedIsNumbered ==
  ASSUME NEW p \in Seq(PatchLine), IsDiff(p), NEW i \in DOMAIN p, p[i].kind = "+",
         Undisplaced(p, i)
  PROVE  CurrentLine(p)[i - 1] = NewLine(p, i) /\ NewLine(p, i) \in Nat \ {0}
<1> DEFINE h == HeaderOf(p, i)
<1>1. h \in 1 .. i /\ p[h].kind = "hunk" /\ \A j \in h + 1 .. i : p[j].kind # "hunk"
  BY InAHunk
<1>2. p[h].start > 0
  BY DEF IsDiff
<1> HIDE DEF h
<1>3. h # i
  BY <1>1
<1>4. /\ i \in Nat /\ h \in Nat /\ Len(p) \in Nat /\ 1 <= h /\ h <= i - 1 /\ i <= Len(p)
      /\ h + 1 \in Int /\ i - 1 \in Int /\ h \in 1 .. Len(p) /\ i - 1 \in h .. Len(p)
  <2>1. ASSUME NEW n \in Nat, NEW k \in 1 .. n, NEW g \in 1 .. k, g # k
        PROVE  /\ k \in Nat /\ g \in Nat /\ 1 <= g /\ g <= k - 1 /\ k <= n
               /\ g + 1 \in Int /\ k - 1 \in Int /\ g \in 1 .. n /\ k - 1 \in g .. n
    BY <2>1
  <2>2. i \in 1 .. Len(p) /\ Len(p) \in Nat
    BY Lines
  <2>3. h \in 1 .. i
    BY <1>1
  <2>4. QED
    BY <1>3, <2>1, <2>2, <2>3
<1>5. p[h].start \in Nat /\ IsFiniteSet(h + 1 .. i - 1)
  BY <1>4, Lines, FS_Interval
<1>6. \A j \in h + 1 .. i - 1 : p[j].kind \in LineKinds /\ p[j].kind # "hunk"
  <2>1. ASSUME NEW j \in h + 1 .. i - 1
        PROVE  j \in 1 .. Len(p) /\ j \in h + 1 .. i
    <3>1. j \in Int /\ h + 1 <= j /\ j <= i - 1
      BY <1>4
    <3>2. QED
      BY <1>4, <3>1
  <2>2. QED
    BY <1>1, <2>1, Lines
<1>7. \A j \in h + 1 .. i - 1 : p[j].kind # "no newline"
  <2> DEFINE M == {j \in h + 1 .. i - 1 : p[j].kind \in {"no newline"}}
  <2>1. Cardinality(M) = 0
    BY DEF Undisplaced, LinesBefore, h
  <2>2. IsFiniteSet(M)
    <3>1. M \in SUBSET (h + 1 .. i - 1)
      OBVIOUS
    <3> HIDE DEF M
    <3>2. QED
      BY <1>5, <3>1, FS_Subset
  <2>3. M = {}
    <3> HIDE DEF M
    <3>1. QED
      BY <2>1, <2>2, FS_EmptySet
  <2>4. QED
    BY <2>3
<1>8. Counted(p, h, i - 1) = {j \in h + 1 .. i - 1 : p[j].kind \in {"+", " "}}
  BY <1>6, <1>7 DEF Counted, LineKinds
<1>9. CurrentLine(p)[i - 1] = p[h].start + Cardinality(Counted(p, h, i - 1))
  <2>1. \A j \in h + 1 .. i - 1 : p[j].kind # "hunk"
    BY <1>6
  <2>2. QED
    BY <1>1, <1>2, <1>4, <2>1, WithinAHunk
<1>10. NewLine(p, i) = p[h].start + Cardinality(Counted(p, h, i - 1))
  BY <1>8 DEF NewLine, LinesBefore, h
<1>11. Cardinality(Counted(p, h, i - 1)) \in Nat
  <2>1. Counted(p, h, i - 1) \in SUBSET (h + 1 .. i - 1)
    BY DEF Counted
  <2>2. QED
    BY <1>5, <2>1, FS_Subset, FS_CardinalityType
<1>12. p[h].start + Cardinality(Counted(p, h, i - 1)) \in Nat \ {0}
  BY <1>2, <1>5, <1>11
<1>13. QED
  BY <1>9, <1>10, <1>12

(* Whatever markers there are elsewhere, an added line that none precedes  *)
(* takes a comment, and is not numbered 0.                                 *)
LEMMA AddedTakeComments ==
  ASSUME NEW p \in Seq(PatchLine), IsDiff(p), NEW line \in AddedLines(p)
  PROVE  line # 0 /\ ValidateLineInDiff(p, line)
<1>1. PICK i \in DOMAIN p : p[i].kind = "+" /\ Undisplaced(p, i) /\ line = NewLine(p, i)
  BY DEF AddedLines, IsAdded, Undisplaced
<1>2. CurrentLine(p)[i - 1] = line /\ line \in Nat \ {0}
  BY <1>1, AddedIsNumbered
<1>3. QED
  BY <1>1, <1>2 DEF ValidateLineInDiff

(* Unless a marker displaces one, no other line takes a comment.           *)
LEMMA CommentsAreAdded ==
  ASSUME NEW p \in Seq(PatchLine), IsDiff(p), DisplacedLines(p) = {}, NEW line
  PROVE  ValidateLineInDiff(p, line) => line \in AddedLines(p)
<1>1. ASSUME NEW i \in DOMAIN p, p[i].kind = "+"
      PROVE  /\ LinesBefore(p, i, {"no newline"}) = 0
             /\ CurrentLine(p)[i - 1] = NewLine(p, i) /\ NewLine(p, i) # 0
  <2>1. LinesBefore(p, i, {"no newline"}) \in Nat
    <3> DEFINE M == {j \in HeaderOf(p, i) + 1 .. i - 1 : p[j].kind \in {"no newline"}}
    <3>1. HeaderOf(p, i) \in Nat /\ i \in Nat
      BY InAHunk, Lines
    <3>2. IsFiniteSet(HeaderOf(p, i) + 1 .. i - 1)
      BY <3>1, FS_Interval
    <3>3. M \in SUBSET (HeaderOf(p, i) + 1 .. i - 1)
      OBVIOUS
    <3>4. Cardinality(M) \in Nat
      <4> HIDE DEF M
      <4>1. QED
        BY <3>2, <3>3, FS_Subset, FS_CardinalityType
    <3>5. QED
      BY <3>4 DEF LinesBefore
  <2>2. ~ LinesBefore(p, i, {"no newline"}) > 0
    BY <1>1 DEF DisplacedLines, IsAdded
  <2>3. LinesBefore(p, i, {"no newline"}) = 0
    <3> DEFINE k == LinesBefore(p, i, {"no newline"})
    <3>1. k \in Nat /\ ~ k > 0
      BY <2>1, <2>2
    <3> HIDE DEF k
    <3>2. k = 0
      BY <3>1
    <3>3. QED
      BY <3>2 DEF k
  <2>4. CurrentLine(p)[i - 1] = NewLine(p, i) /\ NewLine(p, i) \in Nat \ {0}
    BY <1>1, <2>3, AddedIsNumbered DEF Undisplaced
  <2>5. QED
    BY <2>3, <2>4
<1>2. line \in AddedLines(p) <=> \E i \in DOMAIN p : p[i].kind = "+" /\ line = NewLine(p, i)
  BY <1>1 DEF AddedLines, IsAdded
<1>3. QED
  BY <1>1, <1>2 DEF ValidateLineInDiff

(* The first request has the comments that the diff of its mode takes, the *)
(* second none.                                                            *)
LEMMA CommentsStep == EngineInv /\ CommentsOnAddedLines /\ [Next]_vars => CommentsOnAddedLines'
<1> SUFFICES ASSUME EngineInv, CommentsOnAddedLines, [Next]_vars
             PROVE  CommentsOnAddedLines'
  OBVIOUS
<1> DEFINE Due(post) == {f \in post.of : Line[f] \in AddedLines(post.patch)}
           Fits(post) ==
             IF post.by = "repost" THEN post.inline = {}
             ELSE /\ Due(post) \subseteq post.inline
                  /\ DisplacedLines(post.patch) = {} => post.inline = Due(post)
           NewPost(inline, body, reply) ==
             [of |-> review, inline |-> inline, body |-> body,
              patch |-> patch, by |-> step, acked |-> reply = "ok"]
<1>1. TypeOK /\ \A i \in 1 .. Len(posts) : Fits(posts[i])
  BY DEF EngineInv, CommentsOnAddedLines
<1>2. CASE UNCHANGED posts
  BY <1>2 DEF CommentsOnAddedLines
<1>3. ASSUME NEW inline \in SUBSET Findings, NEW body \in SUBSET Findings, NEW reply \in Replies,
             CreateReview(inline, body, reply), step \in {"post", "repost"},
             inline = IF step = "repost" THEN {} ELSE Commentable(review)
      PROVE  CommentsOnAddedLines'
  <2> DEFINE post == NewPost(inline, body, reply)
  <2>1. /\ posts \in Seq(Post) /\ post \in Post
        /\ patch \in Seq(PatchLine) /\ IsDiff(patch)
        /\ review \in SUBSET Findings
    <3>1. << >> \in Seq(PatchLine) /\ IsDiff(<< >>)
      BY DEF IsDiff
    <3>2. QED
      BY <1>1, <1>3, <3>1, FindingsAssumption DEF TypeOK, Post
  <2>2. Fits(post)
    <3> DEFINE due == {f \in review : Line[f] \in AddedLines(patch)}
    <3> SUFFICES ASSUME step # "repost"
                 PROVE  due \subseteq inline /\ (DisplacedLines(patch) = {} => inline = due)
      BY <1>3
    <3>1. inline = {f \in review : Line[f] > 0 /\ ValidateLineInDiff(patch, Line[f])}
      BY <1>3 DEF Commentable
    <3>2. \A f \in review : Line[f] \in Nat
      BY <2>1, FindingsAssumption
    <3>3. due \subseteq inline
      BY <2>1, <3>1, <3>2, AddedTakeComments
    <3>4. DisplacedLines(patch) = {} => inline \subseteq due
      BY <2>1, <3>1, CommentsAreAdded
    <3>5. QED
      BY <3>3, <3>4
  <2>3. posts' = posts \/ posts' = Append(posts, post)
    BY <1>3 DEF CreateReview
  <2> HIDE DEF post, Fits
  <2>4. \A i \in 1 .. Len(posts') : Fits(posts'[i])
    <3>1. CASE posts' = posts
      BY <1>1, <3>1
    <3>2. CASE posts' = Append(posts, post)
      <4>1. /\ Len(posts') = Len(posts) + 1 /\ Len(posts) \in Nat
            /\ \A i \in 1 .. Len(posts) : posts'[i] = posts[i]
            /\ posts'[Len(posts) + 1] = post
        BY <2>1, <3>2
      <4>2. QED
        BY <1>1, <2>2, <4>1
    <3>3. QED
      BY <2>3, <3>1, <3>2
  <2>5. QED
    BY <2>4 DEF Fits, CommentsOnAddedLines
<1>4. review \in SUBSET Findings
  BY <1>1 DEF TypeOK
<1>5. CASE PostComments
  <2>1. PICK reply \in Replies :
          CreateReview(Commentable(review), review \ Commentable(review), reply)
    BY <1>5 DEF PostComments
  <2>2. Commentable(review) \in SUBSET Findings /\ review \ Commentable(review) \in SUBSET Findings
    BY <1>4 DEF Commentable
  <2>3. step = "post"
    BY <1>5 DEF PostComments
  <2>4. QED
    BY <1>3, <2>1, <2>2, <2>3
<1>6. CASE PostSummary
  <2>1. PICK reply \in Replies : CreateReview({}, review, reply)
    BY <1>6 DEF PostSummary
  <2>2. step = "repost"
    BY <1>6 DEF PostSummary
  <2>3. QED
    BY <1>3, <1>4, <2>1, <2>2
<1>7. CASE Fetch \/ RunAgents \/ UNCHANGED vars
  BY <1>2, <1>7 DEF Fetch, RunAgents, vars
<1>8. QED
  BY <1>5, <1>6, <1>7 DEF Next

(* For any findings and diffs: in each mode's first request every finding  *)
(* about an added line is a comment, and no other finding is if no marker  *)
(* displaces a line; the request after a refusal has no comments.          *)
THEOREM EngineCommentsOnAddedLines == Spec => []CommentsOnAddedLines
<1>1. Init => CommentsOnAddedLines
  BY DEF Init, CommentsOnAddedLines
<1>2. QED
  BY <1>1, CommentsStep, EngineInvariance, PTL DEF Spec
=============================================================================
