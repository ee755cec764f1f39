------------------------------ MODULE MCLiability ------------------------------
(***************************************************************************)
(* H3 on small instances.  scope says what a behaviour is about: a paired  *)
(* trial with its reports, a run with learning agents, or one input of the *)
(* statistics; the comparison of false positives of H2, which adjusts its  *)
(* p-values in the same way, is among them.                                *)
(***************************************************************************)
EXTENDS LiabilityReports, MatchedRecall

CONSTANTS WindowLength, LearningSteps

ASSUME LearningAssumption == {WindowLength, LearningSteps} \subseteq Nat \ {0}

VARIABLES scope, sample, regime, lstep, lturn, learner, counts

learning == <<regime, lstep, lturn, learner, counts>>
mcVars   == <<vars, scope, sample, learning>>

L == INSTANCE LearningAgents WITH step <- lstep, turn <- lturn, nSteps <- LearningSteps

Groups  == UNION {[1 .. n -> 0 .. 2] : n \in 1 .. 3}
Counts  == {z \in (0 .. 6) \X (0 .. 6) \X (0 .. 6) \X (0 .. 6) : z[1] <= z[2] /\ z[3] <= z[4]}

\* H2, one seed: the labels of three nodes, the scores of the pooled and of another model; or the
\* levels of all seeds: reductions of nothing, to nothing, exactly at the bar and none, by pairs that
\* agree or that only sum up to the same.
Scores  == [1 .. 3 -> {0, 1, Half, 3}]
Seeds   == {[kind |-> "seed", central |-> [i \in 1 .. 3 |-> [y |-> ys[i], score |-> c[i]]],
                              val     |-> [i \in 1 .. 3 |-> [y |-> ys[i], score |-> m[i]]]] :
              ys \in {<<1, 1, 0>>, <<1, 0, 0>>, <<1, 1, 1>>}, c \in Scores, m \in Scores}
LevelAt == {l \in [n : {1, 2}, c : {0, 5}, f : {0, 4, 5}, equal : BOOLEAN, p : {0, 1, One}] :
              l.equal => l.c = l.f}
Levels  == [1 .. 3 -> LevelAt]

Samples ==
    [kind : {"groups"}, treatment : Groups, control : Groups]
        \cup [kind : {"pvalues"}, ps : [1 .. 3 -> 0 .. One]]
        \cup [kind : {"counts"}, counts : Counts]
        \cup Seeds \cup [kind : {"levels"}, levels : Levels]

NoSample == [kind |-> "none"]

MCInit ==
    /\ Init /\ L!Init
    /\ scope \in {"trial", "learning", "statistics"}
    /\ scope # "trial" => \A b \in Bonds : bond <= b
    /\ scope # "learning" => regime = "control"
    /\ sample \in IF scope = "statistics" THEN Samples ELSE {NoSample}

MCNext ==
    \/ scope = "trial" /\ Next /\ UNCHANGED <<scope, sample, learning>>
    \/ scope = "learning" /\ L!Next /\ UNCHANGED <<vars, scope, sample>>

MCSpec == MCInit /\ [][MCNext]_mcVars

\* Rational or learning, every detected violation is paid for (durable.py, learning.py).
EverybodyPays == PaidInFull /\ L!LearnersPayInFull

\* Every small input of the statistics is one sample; every rotation of the pool is drawn once.
StatisticsAgree ==
    CASE sample.kind = "groups" ->
           /\ RanksCountPairs(sample.treatment, sample.control)
           /\ Len(sample.treatment \o sample.control) <= 4 =>
                PermutationIsSound(sample.treatment, sample.control,
                                   LET n == Len(sample.treatment \o sample.control)
                                   IN [k \in 1 .. n |-> [i \in 1 .. n |-> 1 + ((i + k) % n)]])
      [] sample.kind = "pvalues" -> HolmStepsDown(sample.ps)
      [] sample.kind = "counts" ->
           VerdictIsMonotone(sample.counts[1], sample.counts[2], sample.counts[3], sample.counts[4])
      [] sample.kind = "seed" -> MatchedFairly(sample.central, sample.val)
      [] sample.kind = "levels" -> FindingIsMonotone(sample.levels, 2)
      [] OTHER -> TRUE

\* What the trials conclude follows from what happened in them (run_durable.py, experiment.py,
\* agent_level.py, stats.py), and false positives are compared fairly (matched_recall.py).
ReportsAreSound == ReportsFollow /\ StatisticsAgree
==============================================================================
