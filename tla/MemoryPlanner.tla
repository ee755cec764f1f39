---------------------------- MODULE MemoryPlanner ----------------------------
(***************************************************************************)
(* h1-zkopml-v2/memory_planner.py: a node measures the memory one proof of *)
(* each shape of step takes, and for every budget chooses how the model is *)
(* cut into dispute steps; each plan is then measured again at another     *)
(* place of the model.                                                     *)
(***************************************************************************)
EXTENDS PrefixTree, Sequences, FiniteSetsExt

CONSTANTS
    KS, GS,            \* parts of the projection, residual blocks of a step
    BUDGETS_MB,        \* the budgets, in the order they are planned
    nb,                \* residual blocks of the model, at least two
    Peaks              \* what a measured proof may peak at

ASSUME PlannerAssumption ==
    /\ KS \subseteq Nat \ {0} /\ GS \subseteq Nat \ {0} /\ IsFiniteSet(KS \cup GS)
    /\ BUDGETS_MB \in Seq(Nat) /\ nb \in Nat \ {0, 1} /\ Peaks \subseteq Nat

VARIABLES
    prof,              \* memory_profile.json
    plans,             \* memory_plans.json, one per budget
    measured           \* main's done: the peak elsewhere, by decomposition

planVars == <<prof, plans, measured>>

------------------------------------------------------------------------------
(* dispute_steps: the units are the projection, the blocks and the head.     *)

\* The step that runs unit u; the projection is split into its first steps.
dispute_steps(parts, units) ==
    [s \in 0 .. parts + units - 2 |->
        IF s < parts THEN {-1} ELSE IF s = parts THEN 0 .. parts - 1 ELSE {s - 1}]

------------------------------------------------------------------------------
(* plan                                                                      *)

\* At most (1 - MARGIN) of the budget, MARGIN being a tenth.
Fits(mb, budget) == 10 * mb <= 9 * budget

PartsFit(p, budget) == Fits(prof.proj[p], budget) /\ Fits(prof.join[p], budget)
GroupFits(g, budget) == Fits(prof.group[g], budget)

CeilDiv(a, b) == (a + b - 1) \div b

\* The parts, the join (block 1), blocks 2 .. nb in groups of g, the head.
StepCount(p, g) == p + 1 + CeilDiv(nb - 1, g) + 1

\* Variants of the operations, each with one slip; only the mutation runs use them.
ProjPartsByProjection(budget) == Min({p \in KS : Fits(prof.proj[p], budget)})

ProjParts(budget) == Min({p \in KS : PartsFit(p, budget)})
BlocksPerStep(budget) == Max({g \in GS : GroupFits(g, budget)})

Split(budget) ==
    LET p == ProjParts(budget)
        g == BlocksPerStep(budget)
    IN [kind |-> "split", proj_parts |-> p, blocks_per_step |-> g, steps |-> StepCount(p, g),
        bisection_rounds |-> CeilLog2(StepCount(p, g)),
        predicted_peak |-> Max({prof.proj[p], prof.join[p], prof.group[g]})]

PlanFor(budget) ==
    IF Fits(prof.whole, budget) THEN [kind |-> "whole", steps |-> 1, bisection_rounds |-> 0]
    ELSE IF {p \in KS : PartsFit(p, budget)} = {} \/ {g \in GS : GroupFits(g, budget)} = {}
      THEN [kind |-> "infeasible"]
    ELSE Split(budget)

PlanInit ==
    /\ prof \in [proj : [KS -> Peaks], join : [KS -> Peaks], group : [GS -> Peaks], whole : Peaks]
    /\ plans = <<>> /\ measured = <<>>

plan ==
    /\ Len(plans) < Len(BUDGETS_MB)
    /\ plans' = Append(plans, PlanFor(BUDGETS_MB[Len(plans) + 1]))
    /\ UNCHANGED <<prof, measured>>

------------------------------------------------------------------------------
(* validate                                                                  *)

Cut(p) == <<p.proj_parts, p.blocks_per_step>>

Planned == Len(plans) = Len(BUDGETS_MB)

\* The last part and the last full group are measured, the join is not measured again.
validate(i, lastPart, lastGroup) ==
    /\ Planned /\ plans[i].kind = "split" /\ Cut(plans[i]) \notin DOMAIN measured
    /\ measured' = [c \in DOMAIN measured \cup {Cut(plans[i])} |->
                      IF c \in DOMAIN measured THEN measured[c]
                      ELSE Max({lastPart, lastGroup, prof.join[c[1]]})]
    /\ UNCHANGED <<prof, plans>>

within_budget(i) == measured[Cut(plans[i])] <= BUDGETS_MB[i]

validated ==
    /\ Planned /\ \A i \in DOMAIN plans : plans[i].kind = "split" => Cut(plans[i]) \in DOMAIN measured
    /\ UNCHANGED planVars

PlanNext ==
    \/ plan
    \/ \E i \in DOMAIN plans, lastPart, lastGroup \in Peaks : validate(i, lastPart, lastGroup)
    \/ validated

PlanSpec == PlanInit /\ [][PlanNext]_planVars

------------------------------------------------------------------------------
(* Properties.                                                               *)

\* How many steps a cut makes, counted: each unit is in one step, a group starts every g blocks.
CountedSteps(p, g) == p + 1 + Cardinality({(b - 2) \div g : b \in 2 .. nb}) + 1

\* Among the decompositions whose measured steps fit the budget the plan is one of the fewest
\* steps, found without trying them all; it is infeasible only when nothing fits; a larger budget never gets more steps, and a cut shared by
\* two budgets, measured once, is within both if its peak elsewhere is at most a ninth above the
\* profile.  A group of one block is a step of dispute_steps.
PlansFit ==
    /\ \A i \in DOMAIN plans :
          LET p == plans[i]
              B == BUDGETS_MB[i]
              fitting == {c \in KS \X GS : PartsFit(c[1], B) /\ GroupFits(c[2], B)}
          IN /\ p.kind = "whole" <=> Fits(prof.whole, B)
             /\ p.kind = "infeasible" => fitting = {}
             /\ p.kind = "split" =>
                   /\ Cut(p) \in fitting /\ Fits(p.predicted_peak, B)
                   /\ p.steps = CountedSteps(p.proj_parts, p.blocks_per_step)
                   /\ \A c \in fitting : CountedSteps(c[1], c[2]) >= p.steps
                   /\ p.blocks_per_step = 1 => DOMAIN dispute_steps(p.proj_parts, nb + 2) = 0 .. p.steps - 1
    /\ \A i, j \in DOMAIN plans :
          BUDGETS_MB[i] <= BUDGETS_MB[j] /\ plans[i].kind # "infeasible" =>
             plans[j].kind # "infeasible" /\ plans[j].steps <= plans[i].steps
    /\ \A i \in DOMAIN plans :
          plans[i].kind = "split" /\ Cut(plans[i]) \in DOMAIN measured
             /\ 9 * measured[Cut(plans[i])] <= 10 * plans[i].predicted_peak => within_budget(i)

\* The rounds of the longest bisection among n steps.
Longest(n) ==
    LET w[d \in 0 .. n] == IF d <= 1 THEN 0 ELSE 1 + Max({w[d \div 2], w[d - d \div 2]}) IN w[n]

\* The rounds a plan announces, ceil(log2), are those of the longest bisection among its steps.
RoundsAreLongest ==
    \A i \in DOMAIN plans : plans[i].kind = "split" => plans[i].bisection_rounds = Longest(plans[i].steps)

\* What a plan promises: memory, as few steps as fit, and the rounds of a dispute.
PlansAreSound == PlansFit /\ RoundsAreLongest
==============================================================================
