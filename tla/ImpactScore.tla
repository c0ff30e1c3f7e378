----------------------------- MODULE ImpactScore -----------------------------
(***************************************************************************)
(* internal/agents/aggregator.go: what the diplomat is told of the nodes   *)
(* that a pull request affects.  The reports of the changed files are one  *)
(* sequence of affected nodes here, in the order in which the two loops of *)
(* AggregateImpacts come to them.                                          *)
(***************************************************************************)
EXTENDS Integers, Sequences, FiniteSets

CONSTANTS CodeNodes, Kind

Tiers == {"BREAKING", "LOGIC", "LEAF"}
Affected == [node : CodeNodes, relation : {"CALLS", "IMPLEMENTS", "USES"}, depth : 1 .. 2]

ASSUME ImpactAssumption ==
  Kind \in [CodeNodes -> {"FUNCTION", "METHOD", "STRUCT", "INTERFACE", "VARIABLE"}]

Tier(a) ==
  IF Kind[a.node] \in {"INTERFACE", "STRUCT"} /\ a.relation \in {"IMPLEMENTS", "USES"}
  THEN "BREAKING"
  ELSE IF Kind[a.node] \in {"FUNCTION", "METHOD"} /\ a.relation = "CALLS" /\ a.depth = 1
  THEN "LOGIC"
  ELSE "LEAF"

Slip_SeenByRelation(s) ==
  {i \in DOMAIN s : \A j \in 1 .. i - 1 : s[j] # s[i]}

\* A node counts where it is met first, whatever is said of it later.
FirstMet(s) == {i \in DOMAIN s : \A j \in 1 .. i - 1 : s[j].node # s[i].node}

AggregateImpacts(s) ==
  [t \in Tiers |-> {i \in FirstMet(s) : Tier(s[i]) = t}]

Slip_LeavesAdd(aggregated) ==
  100 - 10 * Cardinality(aggregated["BREAKING"])
      - 5 * Cardinality(aggregated["LOGIC"])
      + 2 * Cardinality(aggregated["LEAF"])

\* 10, 5 and 2 points a node, down to 0.
CalculateHealthScore(aggregated) ==
  LET score == 100 - 10 * Cardinality(aggregated["BREAKING"])
                   - 5 * Cardinality(aggregated["LOGIC"])
                   - 2 * Cardinality(aggregated["LEAF"])
  IN IF score < 0 THEN 0 ELSE score
=============================================================================
