--------------------------- MODULE LiabilityReports ---------------------------
(***************************************************************************)
(* What H3 concludes from a trial: the pre-registered tests of             *)
(* run_durable.py, the verdict of experiment.py, and the identity-reset    *)
(* probe of sybil.py.  A rate is the number of violations: every agent of  *)
(* a trial acts the same number of times, in every window.                 *)
(***************************************************************************)
EXTENDS LiabilityTrial, Statistics

Finished == step > nSteps

\* agent_rates, over all steps and over the late window.
Rates(r) == [k \in 1 .. nAgents |-> world[r][k - 1].violations]
Late(r)  == [k \in 1 .. nAgents |-> world[r][k - 1].late]

\* Variants of the operations, each with one slip; only the mutation runs use them.
comparisonsSwapped ==
    <<  <<Late("maintained"), Late("flat")>>,
        <<Rates("escalating_id"), Rates("escalating_operator")>>  >>

\* The comparisons of run_durable.main, primary and secondary, as <<treatment, control>>.
Comparisons ==
    <<  <<Late("maintained"), Late("flat")>>,
        <<Rates("escalating_operator"), Rates("escalating_id")>>,
        <<Rates("flat"), Rates("control")>>,
        <<Late("flat"), Late("control")>>,
        <<Late("maintained"), Late("control")>>,
        <<Rates("escalating_operator"), Rates("maintained")>>  >>

------------------------------------------------------------------------------
(* experiment.py and agent_level.py                                          *)

\* per_agent_rates of the rows of one group, as numbers of violations.
per_agent_rates(count) == [k \in 1 .. nAgents |-> count[k - 1]]

Violations(count) == Total(per_agent_rates(count))

\* run_comparison, over all actions as if they were independent.
run_comparison ==
    LET actions == nAgents * nSteps
        t == Violations(treated)
        c == Violations(baseline)
    IN [lower    |-> RateLower(t, actions, c, actions),
        verdict  |-> Supported(t, actions, c, actions),
        feasible |-> treatment_violation_feasible]

\* agent_level.analyze of the same rows: one rate per agent, and the agents that violate at most
\* every other time.
analyze ==
    LET bar(count) == Cardinality({k \in 1 .. nAgents : 2 * per_agent_rates(count)[k] <= nSteps})
    IN [direction |-> Direction(per_agent_rates(treated), per_agent_rates(baseline)),
        majorityBarTreatment |-> bar(treated), majorityBarControl |-> bar(baseline)]

------------------------------------------------------------------------------
(* sybil.py: a penalized operator starts again under a new identity.         *)

\* run_sybil_identity_reset on a registry that knows neither name.
probe(registry, original, fresh) ==
    LET joined   == register_and_post_stake(registry, original, stakeAmount)
        punished == report_violation(joined, original)
        again    == register_and_post_stake(punished, fresh, stakeAmount)
    IN [registry |-> again,
        bypassed |-> /\ again[fresh].history = <<>>
                     /\ again[fresh].stakeRemaining = stakeAmount
                     /\ Len(again[original].history) >= 1]

------------------------------------------------------------------------------
(* Properties.                                                               *)

\* The reports only ever point the pre-registered way: the groups are paired although the tests
\* take them for independent, so no comparison of a trial can have a positive z, whatever the
\* agents were offered, and where the actions "support" H3 the
\* agents, compared one by one, point the same way.
ReportsFollow ==
    /\ \A k \in DOMAIN Comparisons : Direction(Comparisons[k][1], Comparisons[k][2]) <= 0
    /\ Finished => analyze.direction <= 0 /\ analyze.majorityBarTreatment >= analyze.majorityBarControl
    /\ Finished /\ run_comparison.verdict => run_comparison.lower /\ analyze.direction = -1
==============================================================================
