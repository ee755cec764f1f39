---------------------------- MODULE LiabilityRules ----------------------------
(***************************************************************************)
(* The rules every H3 simulation shares (h3-abt/src/h3_abt): what breaks   *)
(* the policy, what an agent expects from executing an offer, what a       *)
(* violation costs it under each liability regime, and the in-simulation   *)
(* registry of agent-bound tokens.                                         *)
(*                                                                         *)
(* Payoffs and stakes are integers, and the detection probability is       *)
(* PNum / PDen: expectations are compared after multiplying by PDen.       *)
(***************************************************************************)
EXTENDS Integers, Sequences, FiniteSets

CONSTANTS
    stakeAmount, slashAmount,
    maxCompliantAmount, Destinations, sanctioned,   \* the policy
    PNum, PDen,                     \* detection_probability
    tieBreakExecutes,               \* tie_break is EXECUTE
    compliantMin, compliantMax, violationMin, violationMax,
    overLimitExtra, nSteps, nAgents

\* parse_config: what a configuration is refused without.
ValidConfig ==
    /\ {stakeAmount, slashAmount, maxCompliantAmount, overLimitExtra, nAgents} \subseteq Nat
    /\ PDen \in Nat \ {0} /\ PNum \in 0 .. PDen
    /\ nSteps \in Nat \ {0}
    /\ {compliantMin, compliantMax, violationMin, violationMax} \subseteq Int
    /\ compliantMin <= compliantMax /\ violationMin <= violationMax
    /\ tieBreakExecutes \in BOOLEAN
    /\ sanctioned \subseteq Destinations /\ sanctioned # Destinations

ASSUME ConfigAssumption == ValidConfig

Agents == 0 .. nAgents - 1

------------------------------------------------------------------------------
(* Offers and the policy.                                                    *)

Transfer == [amount : 0 .. maxCompliantAmount + overLimitExtra + 1, destination : Destinations]

\* sample_opportunity: any payoffs of the configured ranges, with any transfer; an amount over
\* the limit exceeds it by at least the smallest step.
Opportunity == [transfer : Transfer, compliant : compliantMin .. compliantMax,
                violation : violationMin .. violationMax]

is_violation(t) == t.amount > maxCompliantAmount \/ t.destination \in sanctioned

Offends(o) == is_violation(o.transfer)

Smaller(m, n) == IF m < n THEN m ELSE n
Larger(m, n)  == IF m > n THEN m ELSE n

\* What executing the offer is worth, in PDen-ths, when a violation is expected to cost es.
ExecutePayoff(o, es) == IF Offends(o) THEN PDen * o.violation - es ELSE PDen * o.compliant
RefusePayoff(o)      == PDen * o.compliant

Better(execute, refuse) == IF execute = refuse THEN tieBreakExecutes ELSE execute > refuse

------------------------------------------------------------------------------
(* protocol.py: the decision of the confirmatory experiment.                 *)

\* expected_slash of an agent that is staked or not.
expected_slash(isStaked, stakeRemaining) ==
    IF isStaked /\ stakeRemaining > 0 THEN PNum * Smaller(slashAmount, stakeRemaining) ELSE 0

expected_payoff_execute(o, isStaked, stakeRemaining) ==
    ExecutePayoff(o, expected_slash(isStaked, stakeRemaining))

choose_action(o, isStaked, stakeRemaining) ==
    IF Better(expected_payoff_execute(o, isStaked, stakeRemaining), RefusePayoff(o))
      THEN "execute" ELSE "refuse"

------------------------------------------------------------------------------
(* durable.py: the regimes.                                                  *)

Regimes    == {"control", "flat", "maintained", "escalating_id", "escalating_operator"}
Escalating == {"escalating_id", "escalating_operator"}
Maintained == {"maintained"} \cup Escalating

\* Variants of the operations, each with one slip; only the mutation runs use them.
slashOfTheFirst(r, k) == slashAmount

slash_for(r, k) == IF r \in Escalating THEN slashAmount * (1 + k) ELSE slashAmount

requirement(r, k) == Larger(stakeAmount, slash_for(r, k))

expectedSlashOfTheBroke(r, held, k) ==
    CASE r = "control" -> 0
      [] r = "flat"    -> PNum * slashAmount
      [] OTHER         -> PNum * slash_for(r, k)

regime_expected_slash(r, held, k) ==
    CASE r = "control" -> 0
      [] r = "flat"    -> PNum * Smaller(slashAmount, Larger(held, 0))
      [] OTHER         -> PNum * slash_for(r, k)

\* An agent's books in regime r: nothing is made or lost, and every detected violation has been
\* paid for in full, up to the stake where nobody tops it up.
PaidFor(r, a) ==
    /\ a.stake + a.slashed = stakeAmount + a.toppedUp
    /\ r = "maintained" => a.slashed = slashAmount * a.kOperator
    /\ r = "escalating_operator" => 2 * a.slashed = slashAmount * a.kOperator * (a.kOperator + 1)
    /\ r = "escalating_id" => a.slashed >= slashAmount * a.kOperator
    /\ r = "flat" => a.slashed = Smaller(stakeAmount, slashAmount * a.kOperator)

History(r, a) == IF r = "escalating_operator" THEN a.kOperator ELSE a.kIdentity

ToppedUpToStake(r, a) ==
    LET need == Larger(a.stake, IF r \in Maintained THEN stakeAmount ELSE 0)
    IN [a EXCEPT !.stake = need, !.toppedUp = @ + (need - a.stake)]

\* A maintained stake is brought up to what the next slash requires.
ToppedUp(r, a) ==
    LET need == Larger(a.stake, IF r \in Maintained THEN requirement(r, History(r, a)) ELSE 0)
    IN [a EXCEPT !.stake = need, !.toppedUp = @ + (need - a.stake)]

\* break_even_bond, in PDen-ths.
BreakEven == PDen * (violationMax - compliantMin) - PNum * slashAmount

------------------------------------------------------------------------------
(* abt.py: the registry, as a function from the registered ids to accounts.  *)

Account == [stakeRemaining : Nat, history : Seq(Nat)]

register(accounts, id) ==
    [i \in DOMAIN accounts \cup {id} |->
        IF i = id THEN [stakeRemaining |-> 0, history |-> <<>>] ELSE accounts[i]]

post_stake(accounts, id, amount) == [accounts EXCEPT ![id].stakeRemaining = @ + amount]

register_and_post_stake(accounts, id, amount) == post_stake(register(accounts, id), id, amount)

Slashed(accounts, id) == Smaller(slashAmount, accounts[id].stakeRemaining)

\* report_violation of a transfer that breaks the policy (any other one is refused).
report_violation(accounts, id) ==
    [accounts EXCEPT ![id] = [stakeRemaining |-> @.stakeRemaining - Slashed(accounts, id),
                              history |-> Append(@.history, Slashed(accounts, id))]]
==============================================================================
