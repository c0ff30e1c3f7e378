---------------------------- MODULE ReviewEngine ----------------------------
(***************************************************************************)
(* internal/engine/reviewer.go over internal/platform/github.go: one run   *)
(* of RunReviewWithGracefulDegradation, as cmd/cli starts it, from the     *)
(* first request to the platform to the answer.                            *)
(*                                                                         *)
(* The pipelined and the legacy review go through the same phases and are  *)
(* told apart by mode.  What Pipeline models of the agents appears here as *)
(* its answer: a review, no review, or an error.  A review is a set of     *)
(* findings, each about a line of the file that the pull request changes,  *)
(* or about none of its lines (0).                                         *)
(*                                                                         *)
(* CreateReview is a request over a network: it may be carried out and its *)
(* reply lost, refused with status 422, or fail before it has any effect.  *)
(***************************************************************************)
EXTENDS DiffLines, ImpactScore

CONSTANTS
  Findings, Line, \* the line of each finding
  Patches,        \* what the file's diff may be when it is fetched
  Impacts         \* what the scout may find affected

ASSUME FindingsAssumption ==
  /\ Line \in [Findings -> Nat]
  /\ Patches \subseteq Seq(PatchLine) /\ \A p \in Patches : IsDiff(p)
  /\ Impacts \subseteq Seq(Affected)

VARIABLES
  mode,       \* "pipelined" or "legacy"
  patch,      \* the file's diff as this mode has fetched it
  brief,      \* what the diplomat was told: affected nodes, their tiers, the score
  step,       \* "fetch", "agents", "post", "repost" or "over"
  review,     \* the findings of the review about to be posted
  mentions,   \* every error text has 422 in it: go-github puts the URL there
  posts,      \* the reviews on the pull request that this run has written
  answer      \* what the run has returned

vars == <<mode, patch, brief, step, review, mentions, posts, answer>>

Replies == {"ok", "lost", "422", "failed"}
Post == [of : SUBSET Findings, inline : SUBSET Findings, body : SUBSET Findings,
         patch : Patches \cup {<< >>}, by : {"post", "repost"}, acked : BOOLEAN]
Brief == [affected : Impacts \cup {<< >>}, tiers : [Tiers -> SUBSET Nat], score : 0 .. 100]

TypeOK ==
  /\ mode \in {"pipelined", "legacy"}
  /\ patch \in Patches \cup {<< >>}
  /\ brief \in Brief
  /\ step \in {"fetch", "agents", "post", "repost", "over"}
  /\ review \in SUBSET Findings
  /\ mentions \in BOOLEAN
  /\ posts \in Seq(Post)
  /\ answer \in {"pending", "success", "partial", "failure"}

\* FormatReview is given the tiers and the score of what the scout has handed on.
Briefing(affected) ==
  [affected |-> affected, tiers |-> AggregateImpacts(affected),
   score |-> CalculateHealthScore(AggregateImpacts(affected))]

Init ==
  /\ mode = "pipelined"
  /\ patch = << >>
  /\ brief = Briefing(<< >>)
  /\ step = "fetch"
  /\ review = {}
  /\ mentions \in BOOLEAN
  /\ posts = << >>
  /\ answer = "pending"
-----------------------------------------------------------------------------
\* RunPipelinedReview returns a nil result with every error, so the look at the
\* result's partial output never keeps the legacy review from being run.
PipelineFailed ==
  /\ mode = "pipelined"
  /\ mode' = "legacy"
  /\ step' = "fetch"
  /\ review' = {}
  /\ UNCHANGED answer

LegacyFailed ==
  /\ mode = "legacy"
  /\ step' = "over"
  /\ answer' = "failure"
  /\ UNCHANGED <<mode, review>>

Failed == PipelineFailed \/ LegacyFailed

\* A pipelined run hands on the pipeline's result, a legacy one is partial.
Done ==
  /\ step' = "over"
  /\ answer' = IF mode = "pipelined" THEN "success" ELSE "partial"
  /\ UNCHANGED <<mode, review>>

GoOn(to) == step' = to /\ UNCHANGED <<mode, answer>>

\* GetPullRequest, of a pull request that may have been pushed to since the last
\* mode; GetLastReview's failure is only a warning.
Fetch ==
  /\ step = "fetch"
  /\ \/ GoOn("agents") /\ patch' \in Patches /\ UNCHANGED review
     \/ Failed /\ UNCHANGED patch
  /\ UNCHANGED <<brief, mentions, posts>>

\* What the scout hands on: nothing when the graph knows nothing, and in the
\* pipelined mode also when the scout has failed.
Gathered == {<< >>} \cup Impacts

\* The orchestrator's Execute, or the three calls of RunReview: only the former
\* can succeed without a review, which is an error as well.
RunAgents ==
  /\ step = "agents"
  /\ \/ \E fs \in SUBSET Findings, affected \in Gathered :
          review' = fs /\ brief' = Briefing(affected) /\ GoOn("post")
     \/ Failed /\ UNCHANGED brief
  /\ UNCHANGED <<patch, mentions, posts>>
-----------------------------------------------------------------------------
(* PostReview: comments on the lines that take one, the other findings in  *)
(* the summary; after status 422 once more with all in the summary.        *)

CreateReview(inline, body, reply) ==
  posts' = IF reply \in {"ok", "lost"}
           THEN Append(posts, [of |-> review, inline |-> inline, body |-> body,
                               patch |-> patch, by |-> step, acked |-> reply = "ok"])
           ELSE posts

\* The findings that become comments.
Commentable(fs) == {f \in fs : Line[f] > 0 /\ ValidateLineInDiff(patch, Line[f])}

Looks422(reply) == reply = "422" \/ (mentions /\ reply # "ok")

PostComments ==
  /\ step = "post"
  /\ \E reply \in Replies :
       /\ CreateReview(Commentable(review), review \ Commentable(review), reply)
       /\ \/ reply = "ok" /\ Done
          \/ Looks422(reply) /\ GoOn("repost") /\ UNCHANGED review
          \/ reply # "ok" /\ ~ Looks422(reply) /\ Failed
  /\ UNCHANGED <<patch, brief, mentions>>

Slip_RepostOnlyRest ==
  /\ step = "repost"
  /\ \E reply \in Replies :
       /\ CreateReview({}, review \ Commentable(review), reply)
       /\ IF reply = "ok" THEN Done ELSE Failed
  /\ UNCHANGED <<patch, brief, mentions>>

Slip_RepostErrorDropped ==
  /\ step = "repost"
  /\ \E reply \in Replies : CreateReview({}, review, reply) /\ Done
  /\ UNCHANGED <<patch, brief, mentions>>

Slip_RepostAfterReply ==
  /\ step = "repost"
  /\ \E reply \in Replies : CreateReview({}, review, reply) /\ Failed
  /\ UNCHANGED <<patch, brief, mentions>>

PostSummary ==
  /\ step = "repost"
  /\ \E reply \in Replies :
       /\ CreateReview({}, review, reply)
       /\ IF reply = "ok" THEN Done ELSE Failed
  /\ UNCHANGED <<patch, brief, mentions>>
-----------------------------------------------------------------------------
Next == Fetch \/ RunAgents \/ PostComments \/ PostSummary

\* A sequential program: it goes on while it can, and its requests return.
Spec == Init /\ [][Next]_vars /\ WF_vars(Next)

\* Two requests of each PostReview, one PostReview of each mode.
Delivery == INSTANCE ReviewDelivery WITH
  Limit <- 4,
  count <- Len(posts),
  answer <- IF answer = "partial" THEN "success" ELSE answer
-----------------------------------------------------------------------------
(* The run keeps the promise of ReviewDelivery through both reviews, both  *)
(* requests of each and every way a request can end.                       *)
KeepsPromise == Delivery!FairDeliverySpec

(* Whatever was put on the pull request is a whole review: each finding is *)
(* in it once, as a comment or in the summary, also after a request that   *)
(* was refused for its comments.                                           *)
PostsAreWhole ==
  \A i \in 1 .. Len(posts) :
    /\ posts[i].inline \cup posts[i].body = posts[i].of
    /\ posts[i].inline \cap posts[i].body = {}

(* In the first request of each mode every finding about a line that the   *)
(* diff adds is a comment, through several hunks, deletions and context,   *)
(* for the diff that this very mode has fetched, and no other finding is.  *)
(* Only past a marker within a hunk is a line taken for another: such a    *)
(* diff may have further comments.  What is posted after a refusal has none*)
(* at all.                                                                 *)
CommentsOnAddedLines ==
  \A i \in 1 .. Len(posts) :
    LET p == posts[i].patch
        due == {f \in posts[i].of : Line[f] \in AddedLines(p)}
    IN IF posts[i].by = "repost" THEN posts[i].inline = {}
       ELSE /\ due \subseteq posts[i].inline
            /\ DisplacedLines(p) = {} => posts[i].inline = due

(* Each affected node weighs on the score once, through one of its         *)
(* reports, in whatever order and however often it is met.                 *)
ImpactsCountOnce ==
  LET nodes == {brief.affected[i].node : i \in DOMAIN brief.affected}
      told == UNION {brief.tiers[t] : t \in Tiers}
      n == Cardinality(nodes)
  IN /\ Cardinality(told) = n
     /\ {brief.affected[i].node : i \in told} = nodes
     /\ brief.score \in {s \in 0 .. 100 : s >= 100 - 10 * n /\ (s = 0 \/ s <= 100 - 2 * n)}

(* The run never writes past a review it knows of, and reports success     *)
(* when and only when it knows of one: extra reviews come from lost replies*)
(* alone.                                                                  *)
KnownPostIsLast ==
  /\ \A i \in 1 .. Len(posts) : posts[i].acked => i = Len(posts)
  /\ answer \in {"success", "partial"} <=>
       posts # << >> /\ posts[Len(posts)].acked

(* "To prevent duplicate posting", the legacy review is not to be started  *)
(* for "purely a posting failure": it is, since the check that should see  *)
(* to that is never true, and the pull request gets a second review.       *)
NoFallbackAfterPosting == mode = "legacy" /\ step = "fetch" => posts = << >>
=============================================================================
