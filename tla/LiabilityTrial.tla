---------------------------- MODULE LiabilityTrial ----------------------------
(***************************************************************************)
(* The paired trial of H3: durable.py runs five liability regimes, and     *)
(* simulation.py and treatment.py the two groups of the confirmatory       *)
(* experiment, each on its own but all on the same seeds.  The same offers *)
(* and the same detection draws reach every one of them, so here they run  *)
(* in step: one action is one offer to one agent in all worlds.            *)
(***************************************************************************)
EXTENDS LiabilityRules

CONSTANTS
    Bonds,      \* the registration bonds tried (run_durable.py)
    LateFrom    \* LATE: the first step of the late window, which ends with the run

ASSUME BondsAssumption == Bonds \subseteq Nat

VARIABLES
    bond,
    step, turn,   \* iter_agent_opportunities: who is offered next
    world,        \* per regime and agent: durable._Agent and what its rows add up to
    baseline,     \* per agent: violations in run_unstaked_baseline
    accounts,     \* the registry of run_staked_treatment
    treated       \* per agent: violations in run_staked_treatment

vars == <<bond, step, turn, world, baseline, accounts, treated>>

Agent == [stake : Nat, kIdentity : Nat, kOperator : Nat, identities : Nat,
          toppedUp : Nat, slashed : Nat, violations : Nat, late : Nat]

Init ==
    /\ bond \in Bonds
    /\ step = 1 /\ turn = 0
    /\ world = [r \in Regimes |-> [i \in Agents |->
                  [stake |-> IF r = "control" THEN 0 ELSE stakeAmount, kIdentity |-> 0,
                   kOperator |-> 0, identities |-> 1, toppedUp |-> 0, slashed |-> 0, violations |-> 0, late |-> 0]]]
    /\ baseline = [i \in Agents |-> 0]
    /\ accounts = [i \in Agents |-> [stakeRemaining |-> stakeAmount, history |-> <<>>]]
    /\ treated = [i \in Agents |-> 0]

------------------------------------------------------------------------------
(* One offer in one regime.                                                  *)

Expects(r, a, k, o) == ExecutePayoff(o, regime_expected_slash(r, a.stake, k))

BestPayoff(r, a, k, o) == Larger(Expects(r, a, k, o), RefusePayoff(o))

\* The history an identity starts with after a reset.
FreshHistory(r, a) == IF r = "escalating_operator" THEN a.kOperator ELSE 0

\* Variants of the operations, each with one slip; only the mutation runs use them.
ResetsForNothing(r, a, o) ==
    /\ r \in Escalating /\ Offends(o)
    /\ BestPayoff(r, a, FreshHistory(r, a), o) - PDen * bond >= BestPayoff(r, a, History(r, a), o)

Resets(r, a, o) ==
    /\ r \in Escalating /\ Offends(o)
    /\ BestPayoff(r, a, FreshHistory(r, a), o) - PDen * bond > BestPayoff(r, a, History(r, a), o)

Settled(r, a, o) ==
    IF Resets(r, a, o) THEN [a EXCEPT !.kIdentity = 0, !.identities = @ + 1] ELSE a

Prepared(r, a, o) == ToppedUp(r, Settled(r, a, o))

Commits(r, a, o) == Offends(o) /\ Better(Expects(r, a, History(r, a), o), RefusePayoff(o))

Cost(r, a) == Smaller(slash_for(r, History(r, a)), a.stake)

PunishedOnIdentity(r, a) ==
    [a EXCEPT !.stake = @ - Cost(r, a), !.slashed = @ + Cost(r, a), !.kIdentity = @ + 1]

Punished(r, a) ==
    [a EXCEPT !.stake = @ - Cost(r, a), !.slashed = @ + Cost(r, a),
              !.kIdentity = @ + 1, !.kOperator = @ + 1]

\* The body of run_regime's loop.
Acted(r, a, o, detection) ==
    LET b == Prepared(r, a, o)
        c == [b EXCEPT !.violations = @ + 1, !.late = @ + (IF step >= LateFrom THEN 1 ELSE 0)]
    IN IF ~ Commits(r, b, o) THEN b
       ELSE IF detection = "detected" /\ r # "control" THEN Punished(r, c) ELSE c

------------------------------------------------------------------------------
(* One offer in the two groups of the confirmatory experiment.               *)

Count(violates) == IF violates THEN 1 ELSE 0

\* An unstaked agent expects no slash.
run_unstaked_baseline(o) ==
    baseline' = [baseline EXCEPT ![turn] = @ + Count(Offends(o) /\ choose_action(o, FALSE, 0) = "execute")]

\* A staked agent is reported to the registry when its violation is detected.
run_staked_treatment(o, detection) ==
    LET committed == Offends(o) /\ choose_action(o, TRUE, accounts[turn].stakeRemaining) = "execute"
    IN /\ treated' = [treated EXCEPT ![turn] = @ + Count(committed)]
       /\ accounts' = IF committed /\ detection = "detected" THEN report_violation(accounts, turn) ELSE accounts

run_regimes(o, detection) ==
    world' = [r \in Regimes |-> [world[r] EXCEPT ![turn] = Acted(r, @, o, detection)]]

\* treatment_violation_feasible: some offer beats the expected slash of a full stake.
treatment_violation_feasible ==
    PDen * violationMax - PNum * Smaller(slashAmount, stakeAmount) > PDen * compliantMin

------------------------------------------------------------------------------

\* Detection is drawn for every action; with probability 0 or 1 only one outcome is drawn.
Detections == {"detected", "missed"}

Drawable == {d \in Detections : IF d = "detected" THEN PNum > 0 ELSE PNum < PDen}

Offer(o, detection) ==
    /\ step <= nSteps /\ turn < nAgents
    /\ UNCHANGED bond
    /\ run_regimes(o, detection) /\ run_unstaked_baseline(o) /\ run_staked_treatment(o, detection)
    /\ turn' = (turn + 1) % nAgents
    /\ step' = IF turn' = 0 THEN step + 1 ELSE step

Next == \E o \in Opportunity, detection \in Drawable : Offer(o, detection)

Spec == Init /\ [][Next]_vars

------------------------------------------------------------------------------
(* Properties.                                                               *)

TypeOK ==
    /\ bond \in Bonds /\ step \in Nat /\ turn \in Nat
    /\ world \in [Regimes -> [Agents -> Agent]]
    /\ baseline \in [Agents -> Nat] /\ treated \in [Agents -> Nat]
    /\ accounts \in [Agents -> Account]

Deters(r, q, i) ==
    world[r][i].violations <= world[q][i].violations /\ world[r][i].late <= world[q][i].late

\* Each liability step deters at least as much as the one before, agent by agent and not only
\* on average: on the same offers and draws an agent never violates more often under an operator
\* history than under an identity history, never more under that than with a maintained stake,
\* and so on down to no stake at all, over the run and in the late window, although the worlds
\* drift apart (run_regime).
DeterrenceOrder ==
    \A i \in Agents :
        /\ Deters("escalating_operator", "escalating_id", i)
        /\ Deters("escalating_id", "maintained", i)
        /\ Deters("maintained", "flat", i)
        /\ Deters("flat", "control", i)

\* "maintained regimes always cover the slash": every detected violation of an agent whose stake
\* is maintained is paid for in full, also after resets, and no stake is made or lost.
PaidInFull ==
    \A r \in Regimes \ {"control"}, i \in Agents : PaidFor(r, world[r][i])

\* An operator history ends a career: the detected violations of one operator are bounded by
\* what a violation can gain, whatever it is offered; and an identity history does not only if
\* a fresh identity costs less than break_even_bond.
CareersEnd ==
    \A i \in Agents :
        /\ PNum * slashAmount * world["escalating_operator"][i].kOperator
              <= Larger(PDen * (violationMax - compliantMin), 0)
        /\ world["escalating_operator"][i].identities = 1
        /\ PDen * bond >= BreakEven => world["escalating_id"][i].identities = 1

\* The pre-registered comparison is the same experiment: "flat" is the confirmatory treatment
\* (durable.py docstring) with its registry, and "control" is the unstaked baseline.
SameExperiment ==
    \A i \in Agents :
        /\ world["control"][i].violations = baseline[i]
        /\ world["flat"][i].violations = treated[i]
        /\ world["flat"][i].stake = accounts[i].stakeRemaining
        /\ world["flat"][i].kOperator = Len(accounts[i].history)
==============================================================================
