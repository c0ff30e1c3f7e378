-------------------------- MODULE MCOptimizedStore --------------------------
(* A file with its node and a definition, which a definition of another    *)
(* file uses; small batches of one item and a channel of four of them.     *)
EXTENDS OptimizedStore, TLC
CONSTANTS n1, n2, h1, e21, e12, s1, s2, r1, r2, fa, fb, qi, qc, qn, qh
FileOfNode == n1 :> fa @@ h1 :> fa @@ n2 :> fb
EndsOf == e21 :> <<n2, n1>> @@ e12 :> <<n1, n2>>
OperationOf == qi :> "GetImpactContext" @@ qn :> "FindRelatedByEmbedding"
                 @@ qh :> "GetFileHash" @@ qc :> "QueryContext"
AboutOf == qc :> fa @@ qi :> fa @@ qn :> fa @@ qh :> fa
N(items) == [kind |-> "nodes", items |-> items]
R(items) == [kind |-> "relations", items |-> items]
Whole == {n1, n2, h1, e21}
\* Five small batches of one submitter; nodes and relations of two.
PlanSet ==
  { s1 :> << N(<<n1>>), N(<<n2>>), N(<<h1>>), N(<<n1>>), N(<<n2>>) >> @@ s2 :> << >>,
    s1 :> << N(<<h1, n1>>), R(<<e12>>) >> @@ s2 :> << N(<<n2>>), R(<<e21>>), N(<<n1>>) >>,
    s1 :> << N(<<n1>>), R(<<e12, e21>>) >> @@ s2 :> << N(<<n2>>), N(<<h1>>) >>,
    s1 :> << N(<< >>), R(<<e12>>), N(<<n1, n2>>), R(<<e12>>) >> @@ s2 :> << >> }
\* The queue alone; readers, writers and the clock; the queue against writers and
\* deletions; the store without workers.
MixSet ==
  { << plan0, {}, [reads |-> 0, writes |-> 0, time |-> 0, owner |-> TRUE] >> : plan0 \in PlanSet }
  \cup
  { << [s \in Submitters |-> << >>], Whole,
       [reads |-> 2, writes |-> 1, time |-> 3, owner |-> FALSE] >>,
    << [s \in Submitters |-> << >>], {n1, n2, h1},
       [reads |-> 3, writes |-> 0, time |-> 3, owner |-> FALSE] >>,
    << s1 :> << R(<<e21>>) >> @@ s2 :> << N(<<n1>>) >>, {n1, n2},
       [reads |-> 0, writes |-> 2, time |-> 0, owner |-> TRUE] >>,
    << s1 :> << N(<<h1>>) >> @@ s2 :> << N(<<n1, n2>>), R(<<e21>>) >>, {},
       [reads |-> 2, writes |-> 0, time |-> 1, owner |-> FALSE] >> }
EveryPlan == {mix[1] : mix \in MixSet}
EveryGraph == {mix[2] : mix \in MixSet}
=============================================================================
