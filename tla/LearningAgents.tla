---------------------------- MODULE LearningAgents ----------------------------
(***************************************************************************)
(* H3 with agents that learn (learning.py): one regime, one bond.  What an *)
(* agent has learnt only decides which action it takes, and it explores,   *)
(* so that at every step it may take any of them: the table of values is   *)
(* the choice of the action.                                               *)
(***************************************************************************)
EXTENDS LiabilityRules

CONSTANT WindowLength   \* WINDOW: actions are counted per so many steps, at least one

VARIABLES
    regime, step, turn,
    learner,            \* per agent: LearningAgent without the table
    counts              \* per agent and window: actions and violations

vars == <<regime, step, turn, learner, counts>>

Learner == [stake : Int, kIdentity : Nat, kOperator : Nat, resets : Nat, toppedUp : Nat, slashed : Nat]

Windows == 0 .. (nSteps + WindowLength - 1) \div WindowLength - 1

Init ==
    /\ regime \in Regimes
    /\ step = 1 /\ turn = 0
    /\ learner = [i \in Agents |-> [stake |-> IF regime = "control" THEN 0 ELSE stakeAmount, kIdentity |-> 0,
                                    kOperator |-> 0, resets |-> 0, toppedUp |-> 0, slashed |-> 0]]
    /\ counts = [i \in Agents |-> [w \in Windows |-> [actions |-> 0, violations |-> 0]]]

Choices == {"refuse", "execute"} \cup (IF regime = "escalating_id" THEN {"reset_execute"} ELSE {})

Reset(a) == [a EXCEPT !.kIdentity = 0, !.resets = @ + 1]

Charge(a) == LET s == slash_for(regime, History(regime, a))
             IN IF regime = "flat" THEN Smaller(s, a.stake) ELSE s

Charged(a) ==
    [a EXCEPT !.stake = @ - Charge(a), !.slashed = @ + Charge(a), !.kIdentity = @ + 1, !.kOperator = @ + 1]

\* The body of run_learning_regime's loop: topped up for the history before a reset.
Act(violates, detected, choice) ==
    LET a    == ToppedUp(regime, learner[turn])
        b    == IF choice = "reset_execute" THEN Reset(a) ELSE a
        paid == choice # "refuse" /\ violates /\ detected /\ regime # "control"
    IN /\ step <= nSteps /\ turn < nAgents
       /\ learner' = [learner EXCEPT ![turn] = IF paid THEN Charged(b) ELSE b]
       /\ counts' = [counts EXCEPT ![turn][(step - 1) \div WindowLength] =
                        [actions |-> @.actions + 1,
                         violations |-> @.violations + (IF choice # "refuse" /\ violates THEN 1 ELSE 0)]]
       /\ turn' = (turn + 1) % nAgents
       /\ step' = IF turn' = 0 THEN step + 1 ELSE step
       /\ UNCHANGED regime

Next == \E violates, detected \in BOOLEAN, choice \in Choices :
            (detected => PNum > 0) /\ (~ detected => PNum < PDen) /\ Act(violates, detected, choice)

\* Whatever agents learn to do, resets included, each detected violation of a maintained stake is
\* paid in full, a stake is never driven below zero, and every window holds its actions.
LearnersPayInFull ==
    \A i \in Agents :
        /\ learner[i].stake >= 0
        /\ regime # "control" => PaidFor(regime, learner[i])
        /\ \A w \in Windows : /\ counts[i][w].violations <= counts[i][w].actions
                              /\ counts[i][w].actions <= WindowLength
==============================================================================
