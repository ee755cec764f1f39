-------------------------- MODULE LiabilityRegistry --------------------------
(***************************************************************************)
(* The liability registry of autonomous agents, h3-abt/contracts/          *)
(* LiabilityRegistry.sol.  Operators with a credential register agents and *)
(* keep a stake; a proven violation of any of their agents takes a slash   *)
(* that grows with the violations of the operator.  Every external         *)
(* function is one action; a call that reverts is a step not enabled.      *)
(***************************************************************************)
EXTENDS Integers, FiniteSets, Functions

CONSTANTS
    Operators, AgentIds,
    NoOperator,       \* the zero address
    baseSlash, minStake, registrationBond, withdrawDelay,
    Amounts, MaxStake, MaxTime   \* bounds: amounts passed to calls, stake per operator, time

ASSUME RegistryAssumption ==
    /\ IsFiniteSet(Operators) /\ NoOperator \notin Operators
    /\ {baseSlash, minStake, registrationBond, withdrawDelay, MaxStake, MaxTime} \subseteq Nat
    /\ Amounts \subseteq Nat

VARIABLES
    now,              \* block.timestamp
    operators,        \* per operator: credentialed, violations, stake, pendingWithdrawal, ...
    agents,           \* per agent id: the operator it is bound to
    treasuryBalance,
    ether             \* what the registry contract holds

registryVars == <<now, operators, agents, treasuryBalance, ether>>

Operator == [credentialed : BOOLEAN, violations : Nat, stake : Nat, pendingWithdrawal : Nat,
             withdrawNotBefore : Nat]

RegistryInit ==
    /\ now = 0
    /\ operators = [o \in Operators |-> [credentialed |-> FALSE, violations |-> 0, stake |-> 0,
                                         pendingWithdrawal |-> 0, withdrawNotBefore |-> 0]]
    /\ agents = [a \in AgentIds |-> NoOperator]
    /\ treasuryBalance = 0
    /\ ether = 0

------------------------------------------------------------------------------
(* Views.                                                                    *)

Lesser(m, n)  == IF m < n THEN m ELSE n
Greater(m, n) == IF m > n THEN m ELSE n

nextSlash(o)     == baseSlash * (1 + operators[o].violations)
requiredStake(o) == Greater(nextSlash(o), minStake)
Slashable(o)     == operators[o].stake + operators[o].pendingWithdrawal

\* Variants of the operations, each with one slip; only the mutation runs use them.
isCoveredByPending(a) ==
    /\ agents[a] # NoOperator
    /\ operators[agents[a]].credentialed
    /\ Slashable(agents[a]) >= requiredStake(agents[a])

isCovered(a) ==
    /\ agents[a] # NoOperator
    /\ operators[agents[a]].credentialed
    /\ operators[agents[a]].stake >= requiredStake(agents[a])

------------------------------------------------------------------------------
(* The regulator, the operators, the treasury.                               *)

issueCredential(o) ==
    /\ operators' = [operators EXCEPT ![o].credentialed = TRUE]
    /\ UNCHANGED <<now, agents, treasuryBalance, ether>>

revokeCredential(o) ==
    /\ operators' = [operators EXCEPT ![o].credentialed = FALSE]
    /\ UNCHANGED <<now, agents, treasuryBalance, ether>>

registerAgentAfresh(o, a) ==
    /\ operators[o].credentialed
    /\ agents[a] = NoOperator
    /\ agents' = [agents EXCEPT ![a] = o]
    /\ operators' = [operators EXCEPT ![o].violations = 0]
    /\ treasuryBalance' = treasuryBalance + registrationBond
    /\ ether' = ether + registrationBond
    /\ UNCHANGED now

registerAgent(o, a) ==
    /\ operators[o].credentialed
    /\ agents[a] = NoOperator
    /\ agents' = [agents EXCEPT ![a] = o]
    /\ treasuryBalance' = treasuryBalance + registrationBond
    /\ ether' = ether + registrationBond
    /\ UNCHANGED <<now, operators>>

topUp(o, v) ==
    /\ Slashable(o) + v <= MaxStake
    /\ operators' = [operators EXCEPT ![o].stake = @ + v]
    /\ ether' = ether + v
    /\ UNCHANGED <<now, agents, treasuryBalance>>

requestWithdraw(o, v) ==
    /\ v <= operators[o].stake
    /\ operators' = [operators EXCEPT ![o].stake = @ - v, ![o].pendingWithdrawal = @ + v,
                                      ![o].withdrawNotBefore = now + withdrawDelay]
    /\ UNCHANGED <<now, agents, treasuryBalance, ether>>

withdraw(o) ==
    /\ operators[o].pendingWithdrawal > 0
    /\ now >= operators[o].withdrawNotBefore
    /\ ether' = ether - operators[o].pendingWithdrawal
    /\ operators' = [operators EXCEPT ![o].pendingWithdrawal = 0]
    /\ UNCHANGED <<now, agents, treasuryBalance>>

payTreasury ==
    /\ ether' = ether - treasuryBalance
    /\ treasuryBalance' = 0
    /\ UNCHANGED <<now, operators, agents>>

FromPendingNone(o) == 0

\* slash, called by the slasher (the settlement contract) for a proven violation.
FromStake(o)   == Lesser(nextSlash(o), operators[o].stake)
FromPending(o) == Lesser(nextSlash(o) - FromStake(o), operators[o].pendingWithdrawal)

slash(a) ==
    LET o == agents[a] IN
    /\ o # NoOperator
    /\ operators' = [operators EXCEPT ![o].stake = @ - FromStake(o),
                                      ![o].pendingWithdrawal = @ - FromPending(o),
                                      ![o].violations = @ + 1]
    /\ treasuryBalance' = treasuryBalance + FromStake(o) + FromPending(o)
    /\ UNCHANGED <<now, agents, ether>>

Tick ==
    /\ now < MaxTime
    /\ now' = now + 1
    /\ UNCHANGED <<operators, agents, treasuryBalance, ether>>

\* Everything that happens to the registry except the slasher's calls.
RegistryStep ==
    \/ \E o \in Operators :
          \/ issueCredential(o) \/ revokeCredential(o) \/ withdraw(o)
          \/ \E a \in AgentIds : registerAgent(o, a)
          \/ \E v \in Amounts : topUp(o, v) \/ requestWithdraw(o, v)
    \/ payTreasury
    \/ Tick

RegistrySpec == RegistryInit /\ [][RegistryStep \/ \E a \in AgentIds : slash(a)]_registryVars

------------------------------------------------------------------------------
(* Properties.                                                               *)

RegistryTypeOK ==
    /\ now \in Nat /\ treasuryBalance \in Nat /\ ether \in Int
    /\ operators \in [Operators -> Operator]
    /\ agents \in [AgentIds -> Operators \cup {NoOperator}]

\* The registry holds exactly the stakes, the pending withdrawals and the treasury's money:
\* a partial slash, a second withdrawal request or a payout never creates or loses ether.
RegistrySolvent ==
    ether = treasuryBalance + SumFunction([o \in Operators |-> Slashable(o)])
==============================================================================
