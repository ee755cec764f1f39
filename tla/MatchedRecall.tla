---------------------------- MODULE MatchedRecall ----------------------------
(***************************************************************************)
(* How H2 compares false positives (h2-federated-aml/src): each method at  *)
(* the threshold where it reaches the recall of the pooled model           *)
(* (matched_recall.py), and the criterion over the scarcity levels, with   *)
(* the Holm adjustment of protocol_v2.py.  Scores are whole numbers.       *)
(***************************************************************************)
EXTENDS Statistics

CONSTANTS
    Half,              \* the score 0.5, the default threshold
    MinReduction,      \* percent
    Alpha,
    MinFailures        \* levels the criterion has to fail at

ASSUME MatchedAssumption == {Half, MinReduction, Alpha, MinFailures} \subseteq Nat

------------------------------------------------------------------------------
(* One seed, one level: nodes are a sequence of [y, score].                  *)

Positives(nodes) == {i \in DOMAIN nodes : nodes[i].y = 1}

Flagged(nodes, t) == {i \in DOMAIN nodes : nodes[i].score >= t}

TruePositives(nodes, t)  == Cardinality(Flagged(nodes, t) \cap Positives(nodes))
FalsePositives(nodes, t) == Cardinality(Flagged(nodes, t) \ Positives(nodes))

\* The score of the c-th best positive node, c being what the recall c / |Positives| asks for.
threshold_for_recall(nodes, c) ==
    LET wanted == IF c < 1 THEN 1 ELSE c
        scores == {nodes[i].score : i \in Positives(nodes)}
    IN CHOOSE t \in scores :
          /\ TruePositives(nodes, t) >= wanted
          /\ \A u \in scores : u > t => TruePositives(nodes, u) < wanted

operating_point(nodes, t) ==
    [threshold |-> t, tp |-> TruePositives(nodes, t), fp |-> FalsePositives(nodes, t)]

\* The recall to reach is that of the pooled model on the validation nodes; a seed where that is
\* zero cannot be evaluated.
per_seed(centralVal, val, test) ==
    LET target == TruePositives(centralVal, Half)
    IN IF target = 0 THEN [evaluable |-> FALSE]
       ELSE [evaluable |-> TRUE,
             matched |-> operating_point(test, threshold_for_recall(val, target)),
             default |-> operating_point(test, Half)]

------------------------------------------------------------------------------
(* All seeds: a level is [n, c, f, equal, p], its evaluable seeds, the false *)
(* positives of the pooled and of the federated model over them, whether     *)
(* these agree seed by seed, and the p-value of the paired test.             *)

\* _paired: too few pairs give no p-value, which counts as 1; no difference in any pair gives 1.
PValue(level) == IF level.n < 2 \/ level.equal THEN One ELSE level.p

\* A reduction of nothing is not a number, and meets no criterion.
criterion_met(levels, i) ==
    LET adjusted == holm([j \in DOMAIN levels |-> PValue(levels[j])])
    IN /\ levels[i].c > 0
       /\ 100 * (levels[i].c - levels[i].f) >= MinReduction * levels[i].c
       /\ adjusted[i] < Alpha

\* A level counts as a failure only if every seed was evaluable there.
Failures(levels, seeds) == {i \in DOMAIN levels : levels[i].n = seeds /\ ~ criterion_met(levels, i)}

finding_b_supported(levels, seeds) == Cardinality(Failures(levels, seeds)) >= MinFailures

------------------------------------------------------------------------------
(* Properties of one input.                                                  *)

Thresholds(nodes) == {nodes[i].score : i \in DOMAIN nodes} \cup {nodes[i].score + 1 : i \in DOMAIN nodes}

\* The threshold reaches the wanted recall and no larger one does, ties included; matched with
\* itself the pooled model keeps its recall and loses false positives at most.
MatchedFairly(centralVal, val) ==
    LET target == TruePositives(centralVal, Half)
        t      == threshold_for_recall(val, target)
        own    == threshold_for_recall(centralVal, target)
    IN target > 0 =>
        /\ TruePositives(val, t) >= target
        /\ \A u \in Thresholds(val) : u > t => TruePositives(val, u) < target
        /\ TruePositives(centralVal, own) = target
        /\ FalsePositives(centralVal, own) <= FalsePositives(centralVal, Half)
        /\ per_seed(centralVal, val, val).matched.tp >= target

\* The finding does not hang on one level: were the test at a level less significant, it would
\* stand, and a level where a seed is missing never supports it.
FindingIsMonotone(levels, seeds) ==
    /\ finding_b_supported(levels, seeds) =>
          \A i \in DOMAIN levels :
             finding_b_supported([levels EXCEPT ![i].p = One], seeds)
    /\ Cardinality({i \in DOMAIN levels : levels[i].n = seeds}) < MinFailures => ~ finding_b_supported(levels, seeds)
==============================================================================
