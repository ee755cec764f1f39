------------------------ MODULE SettlementGate_proofs ------------------------
(***************************************************************************)
(* Theorems about settlement, for any number of validators, operators,     *)
(* agents and requests, with fewer byzantine validators than the quorum.   *)
(*                                                                         *)
(* The argument: a quorum holds the signature of a validator that checked. *)
(* What it checked is a fact about the bundle, which never changes, and    *)
(* about the violations its chain node had seen, which are never more than *)
(* the registry's.  So both survive until the request settles, however     *)
(* late that is.  The books are sums over wallets and operators, of which a *)
(* step changes one or two terms (LedgerInv, StakesInv); and what was      *)
(* staked when the policy was read stays within reach of a slash for as    *)
(* long as a withdrawal takes (CoverInv).                                  *)
(***************************************************************************)
EXTENDS SettlementGate, FiniteSetTheorems, SumLemmas, TLAPS

------------------------------------------------------------------------------
(* Escalation.                                                               *)

LEMMA ConstantTypes ==
    /\ baseSlash \in Nat /\ minStake \in Nat /\ registrationBond \in Nat
    /\ withdrawDelay \in Nat /\ Amounts \subseteq Nat
BY RegistryAssumption

\* The slash of an operator grows with its violations (nextSlash).
LEMMA SlashGrows ==
    ASSUME NEW b \in Nat, NEW j \in Nat, NEW k \in Nat, j <= k
    PROVE  b * (1 + j) \in Nat /\ b * (1 + j) <= b * (1 + k)
<1>1. b * (1 + k) = b * (1 + j) + b * (k - j)
  OBVIOUS
<1>2. k - j \in Nat
  OBVIOUS
<1>3. b * (k - j) \in Nat /\ b * (1 + j) \in Nat
  BY <1>2
<1> QED
  BY <1>1, <1>3

\* A slash that is off by one is no step of the escalation.
LEMMA StaleIsNoStep ==
    ASSUME NEW b \in Nat, b >= 2, NEW j \in Nat, NEW k \in Nat
    PROVE  b * (1 + j) + 1 # b * (1 + k)
<1> SUFFICES ASSUME b * (1 + j) + 1 = b * (1 + k)
             PROVE  FALSE
  OBVIOUS
<1>1. CASE k <= j
  <2>1. b * (1 + k) <= b * (1 + j) /\ b * (1 + j) \in Nat
    BY <1>1, SlashGrows
  <2>2. b * (1 + k) \in Nat
    OBVIOUS
  <2> QED
    BY <2>1, <2>2
<1>2. CASE ~ (k <= j)
  <2>1. j + 1 <= k /\ j + 1 \in Nat
    BY <1>2
  <2>2. b * (1 + (j + 1)) <= b * (1 + k)
    BY <2>1, SlashGrows
  <2>3. b * (1 + (j + 1)) = b * (1 + j) + b
    OBVIOUS
  <2>4. b * (1 + j) \in Nat /\ b * (1 + k) \in Nat
    OBVIOUS
  <2> QED
    BY <2>2, <2>3, <2>4
<1> QED
  BY <1>1, <1>2

------------------------------------------------------------------------------
(* The registry.                                                             *)

LEMMA SlashAmounts ==
    ASSUME RegistryTypeOK, NEW o \in Operators
    PROVE  /\ nextSlash(o) \in Nat
           /\ FromStake(o) \in Nat /\ FromStake(o) <= operators[o].stake
           /\ FromPending(o) \in Nat /\ FromPending(o) <= operators[o].pendingWithdrawal
<1>1. /\ operators[o].violations \in Nat /\ operators[o].stake \in Nat
      /\ operators[o].pendingWithdrawal \in Nat
  BY DEF RegistryTypeOK, Operator
<1>2. nextSlash(o) \in Nat
  <2>1. 0 \in Nat /\ 0 <= operators[o].violations
    BY <1>1
  <2> QED
    BY <1>1, ConstantTypes, SlashGrows DEF nextSlash
<1>3. FromStake(o) \in Nat /\ FromStake(o) <= operators[o].stake /\ FromStake(o) <= nextSlash(o)
  BY <1>1, <1>2 DEF FromStake, Lesser
<1>4. FromPending(o) \in Nat /\ FromPending(o) <= operators[o].pendingWithdrawal
  BY <1>1, <1>2, <1>3 DEF FromPending, Lesser
<1> QED
  BY <1>2, <1>3, <1>4

\* What a call does to the registry that the gate relies on: agents stay with their operator
\* and violations are never taken back.
RegistryGrows ==
    /\ \A o \in Operators : operators'[o].violations >= operators[o].violations
    /\ \A a \in AgentIds : agents[a] # NoOperator => agents'[a] = agents[a]

LEMMA WriteOperator ==
    ASSUME RegistryTypeOK, NEW o \in Operators, NEW r \in Operator,
           operators' = [operators EXCEPT ![o] = r], r.violations >= operators[o].violations
    PROVE  /\ operators' \in [Operators -> Operator]
           /\ \A p \in Operators : operators'[p].violations >= operators[p].violations
<1>1. operators' \in [Operators -> Operator]
  BY DEF RegistryTypeOK
<1>2. ASSUME NEW p \in Operators
      PROVE  operators'[p].violations >= operators[p].violations
  <2>1. operators[p].violations \in Nat
    BY DEF RegistryTypeOK, Operator
  <2>2. CASE p = o
    BY <2>2 DEF RegistryTypeOK
  <2>3. CASE p # o
    BY <2>1, <2>3 DEF RegistryTypeOK
  <2> QED
    BY <2>2, <2>3
<1> QED
  BY <1>1, <1>2

LEMMA RegistryStepTypes ==
    ASSUME RegistryTypeOK, RegistryStep
    PROVE  RegistryTypeOK' /\ RegistryGrows
<1> USE DEF RegistryGrows
<1>1. \A o \in Operators : operators[o] \in Operator
  BY DEF RegistryTypeOK
<1>2. ASSUME NEW o \in Operators, NEW cred \in BOOLEAN,
             operators' = [operators EXCEPT ![o].credentialed = cred],
             UNCHANGED <<now, agents, treasuryBalance, ether>>
      PROVE  RegistryTypeOK' /\ RegistryGrows
  <2> DEFINE r == [operators[o] EXCEPT !.credentialed = cred]
  <2>1. r \in Operator /\ r.violations = operators[o].violations /\ r.violations \in Nat
    BY <1>1 DEF Operator
  <2>2. operators' = [operators EXCEPT ![o] = r]
    BY <1>2
  <2> HIDE DEF r
  <2>3. r.violations >= operators[o].violations
    BY <2>1
  <2> QED
    BY <1>2, <2>1, <2>2, <2>3, WriteOperator DEF RegistryTypeOK
<1>3. ASSUME NEW o \in Operators, withdraw(o)
      PROVE  RegistryTypeOK' /\ RegistryGrows
  <2> DEFINE r == [operators[o] EXCEPT !.pendingWithdrawal = 0]
  <2>1. r \in Operator /\ r.violations = operators[o].violations /\ r.violations \in Nat
    BY <1>1 DEF Operator
  <2>2. operators' = [operators EXCEPT ![o] = r]
    BY <1>3 DEF withdraw
  <2>3. ether' \in Int
    BY <1>1, <1>3 DEF withdraw, RegistryTypeOK, Operator
  <2> HIDE DEF r
  <2>4. r.violations >= operators[o].violations
    BY <2>1
  <2> QED
    BY <1>3, <2>1, <2>2, <2>3, <2>4, WriteOperator DEF RegistryTypeOK, withdraw
<1>4. ASSUME NEW o \in Operators, NEW a \in AgentIds, registerAgent(o, a)
      PROVE  RegistryTypeOK' /\ RegistryGrows
  <2>1. /\ operators' = operators /\ now' = now /\ agents[a] = NoOperator
        /\ agents' = [agents EXCEPT ![a] = o]
        /\ treasuryBalance' = treasuryBalance + registrationBond /\ ether' = ether + registrationBond
    BY <1>4 DEF registerAgent
  <2>2. \A p \in Operators : operators[p].violations \in Nat
    BY <1>1 DEF Operator
  <2>3. agents' \in [AgentIds -> Operators \cup {NoOperator}]
    BY <2>1 DEF RegistryTypeOK
  <2>4. treasuryBalance' \in Nat /\ ether' \in Int
    BY <2>1, ConstantTypes DEF RegistryTypeOK
  <2>5. \A b \in AgentIds : agents[b] # NoOperator => agents'[b] = agents[b]
    BY <2>1 DEF RegistryTypeOK
  <2> QED
    BY <2>1, <2>2, <2>3, <2>4, <2>5 DEF RegistryTypeOK
<1>5. ASSUME NEW o \in Operators, NEW v \in Amounts, topUp(o, v)
      PROVE  RegistryTypeOK' /\ RegistryGrows
  <2> DEFINE r == [operators[o] EXCEPT !.stake = @ + v]
  <2>1. r \in Operator /\ r.violations = operators[o].violations /\ r.violations \in Nat
    BY <1>1, ConstantTypes DEF Operator
  <2>2. operators' = [operators EXCEPT ![o] = r]
    BY <1>5 DEF topUp
  <2>3. ether' \in Int
    BY <1>5, ConstantTypes DEF topUp, RegistryTypeOK
  <2> HIDE DEF r
  <2>4. r.violations >= operators[o].violations
    BY <2>1
  <2> QED
    BY <1>5, <2>1, <2>2, <2>3, <2>4, WriteOperator DEF RegistryTypeOK, topUp
<1>6. ASSUME NEW o \in Operators, NEW v \in Amounts, requestWithdraw(o, v)
      PROVE  RegistryTypeOK' /\ RegistryGrows
  <2> DEFINE r == [operators[o] EXCEPT !.stake = @ - v, !.pendingWithdrawal = @ + v,
                                       !.withdrawNotBefore = now + withdrawDelay]
  <2>1. v \in Nat /\ v <= operators[o].stake /\ now + withdrawDelay \in Nat
    BY <1>6, ConstantTypes DEF requestWithdraw, RegistryTypeOK
  <2>2. r \in Operator /\ r.violations = operators[o].violations /\ r.violations \in Nat
    <3>1. /\ operators[o].stake - v \in Nat /\ operators[o].pendingWithdrawal + v \in Nat
          /\ operators[o].violations \in Nat
      BY <1>1, <2>1 DEF Operator
    <3> QED
      BY <1>1, <2>1, <3>1 DEF Operator
  <2>3. operators' = [operators EXCEPT ![o] = r]
    BY <1>6 DEF requestWithdraw
  <2> HIDE DEF r
  <2>4. r.violations >= operators[o].violations
    BY <2>2
  <2> QED
    BY <1>6, <2>2, <2>3, <2>4, WriteOperator DEF RegistryTypeOK, requestWithdraw
<1>7. CASE payTreasury
  <2>1. \A p \in Operators : operators[p].violations \in Nat
    BY <1>1 DEF Operator
  <2> QED
    BY <1>7, <2>1 DEF payTreasury, RegistryTypeOK
<1>8. CASE Tick
  <2>1. \A p \in Operators : operators[p].violations \in Nat
    BY <1>1 DEF Operator
  <2> QED
    BY <1>8, <2>1 DEF Tick, RegistryTypeOK
<1> QED
  BY <1>2, <1>3, <1>4, <1>5, <1>6, <1>7, <1>8 DEF RegistryStep, issueCredential, revokeCredential

LEMMA SlashTypes ==
    ASSUME RegistryTypeOK, NEW a \in AgentIds, slash(a)
    PROVE  /\ RegistryTypeOK' /\ RegistryGrows
           /\ agents' = agents
           /\ \A o \in Operators : operators'[o].violations =
                 operators[o].violations + (IF o = agents[a] THEN 1 ELSE 0)
<1> DEFINE o == agents[a]
           r == [operators[o] EXCEPT !.stake = @ - FromStake(o),
                                     !.pendingWithdrawal = @ - FromPending(o),
                                     !.violations = @ + 1]
<1>1. o \in Operators
  BY DEF slash, RegistryTypeOK
<1>2. /\ FromStake(o) \in Nat /\ FromStake(o) <= operators[o].stake
      /\ FromPending(o) \in Nat /\ FromPending(o) <= operators[o].pendingWithdrawal
  BY <1>1, SlashAmounts
<1>3. operators[o] \in Operator /\ \A p \in Operators : operators[p].violations \in Nat
  BY <1>1 DEF RegistryTypeOK, Operator
<1>4. r \in Operator /\ r.violations = operators[o].violations + 1
  <2>1. /\ operators[o].stake - FromStake(o) \in Nat
        /\ operators[o].pendingWithdrawal - FromPending(o) \in Nat
        /\ operators[o].violations + 1 \in Nat
    BY <1>2, <1>3 DEF Operator
  <2> QED
    BY <1>3, <2>1 DEF Operator
<1>5. /\ operators' = [operators EXCEPT ![o] = r]
      /\ treasuryBalance' = treasuryBalance + FromStake(o) + FromPending(o)
      /\ UNCHANGED <<now, agents, ether>>
  BY DEF slash
<1> HIDE DEF r
<1>6. r.violations >= operators[o].violations
  BY <1>1, <1>3, <1>4
<1>7. RegistryTypeOK' /\ RegistryGrows
  <2>1. /\ operators' \in [Operators -> Operator]
        /\ \A p \in Operators : operators'[p].violations >= operators[p].violations
    BY <1>1, <1>4, <1>5, <1>6, WriteOperator
  <2>2. treasuryBalance' \in Nat
    BY <1>2, <1>5 DEF RegistryTypeOK
  <2> QED
    BY <1>5, <2>1, <2>2 DEF RegistryTypeOK, RegistryGrows
<1>8. ASSUME NEW p \in Operators
      PROVE  operators'[p].violations = operators[p].violations + (IF p = o THEN 1 ELSE 0)
  <2>1. CASE p = o
    BY <1>4, <1>5, <2>1 DEF RegistryTypeOK
  <2>2. CASE p # o
    BY <1>3, <1>5, <2>2 DEF RegistryTypeOK
  <2> QED
    BY <2>1, <2>2
<1> QED
  BY <1>5, <1>7, <1>8

------------------------------------------------------------------------------
(* The invariant of settlement.                                              *)

\* What an honest signature says of a bundle, the operator having k violations by now.
Sound(b, k) ==
    /\ b.statement.model = "deployed"
    /\ b.opening = b.statement.committed
    /\ b.opening = b.request.amount
    /\ b.statement.decision = b.request.decision
    /\ b.proof = b.statement
    /\ \E j \in Nat : j <= k /\ b.statement.slash = baseSlash * (1 + j)

NodesBehind == \A v \in Validators, o \in Operators : nodeViolations[v][o] <= operators[o].violations

PostedInv ==
    \A i \in Nonces :
        /\ bundles[i] # NoBundle => agents[bundles[i].request.agentId] \in Operators
        /\ signatures[i] # {} => bundles[i] # NoBundle

FaultInv ==
    \A i \in Nonces : bundles[i] # NoBundle /\ bundles[i].fault # "none" =>
        \A k \in Nat : ~ Sound(bundles[i], k)

SignedInv ==
    \A i \in Nonces, v \in Validators : v \in signatures[i] /\ v \notin Byzantine =>
        Sound(bundles[i], operators[OperatorOf(i)].violations)

OutcomeInv == \A i \in Nonces : Settled(i) => QuorumReached(i)

GInv == GateTypeOK /\ NodesBehind /\ PostedInv /\ FaultInv /\ SignedInv /\ OutcomeInv

\* A quorum has a signer that checks.
LEMMA QuorumHasChecker ==
    ASSUME GateTypeOK, NEW i \in Nonces, QuorumReached(i)
    PROVE  \E v \in signatures[i] : v \in Validators /\ v \notin Byzantine
<1>1. signatures[i] \subseteq Validators
  BY DEF GateTypeOK
<1>2. IsFiniteSet(Byzantine) /\ Cardinality(Byzantine) \in Nat
  BY QuorumAssumption, FS_Subset, FS_CardinalityType
<1>3. CASE signatures[i] \subseteq Byzantine
  <2>1. Cardinality(signatures[i]) <= Cardinality(Byzantine) /\ IsFiniteSet(signatures[i])
    BY <1>2, <1>3, FS_Subset
  <2>2. Cardinality(signatures[i]) \in Nat
    BY <2>1, FS_CardinalityType
  <2> QED
    BY <1>2, <2>1, <2>2, QuorumAssumption DEF QuorumReached
<1> QED
  BY <1>1, <1>3

LEMMA QuorumIsSound ==
    ASSUME GInv, NEW i \in Nonces, QuorumReached(i)
    PROVE  /\ bundles[i] # NoBundle /\ bundles[i] \in Bundle /\ OperatorOf(i) \in Operators
           /\ operators[OperatorOf(i)].violations \in Nat
           /\ Sound(bundles[i], operators[OperatorOf(i)].violations)
<1>1. PICK v \in signatures[i] : v \in Validators /\ v \notin Byzantine
  BY QuorumHasChecker DEF GInv
<1>2. bundles[i] # NoBundle /\ OperatorOf(i) \in Operators
  BY <1>1 DEF GInv, PostedInv, OperatorOf
<1> QED
  BY <1>1, <1>2 DEF GInv, SignedInv, GateTypeOK, RegistryTypeOK, Operator

\* The registry may do what it likes: signatures stay sound and nodes stay behind.
LEMMA GrowthPreserves ==
    ASSUME GInv, RegistryTypeOK', RegistryGrows, UNCHANGED <<bundles, signatures, nodeViolations>>
    PROVE  NodesBehind' /\ PostedInv' /\ FaultInv' /\ SignedInv'
<1>1. \A o \in Operators : /\ operators[o].violations \in Nat /\ operators'[o].violations \in Nat
                           /\ operators'[o].violations >= operators[o].violations
  BY DEF GInv, GateTypeOK, RegistryTypeOK, RegistryGrows, Operator
<1>2. ASSUME NEW i \in Nonces, bundles[i] # NoBundle
      PROVE  /\ agents'[bundles[i].request.agentId] = agents[bundles[i].request.agentId]
             /\ agents[bundles[i].request.agentId] \in Operators
  <2>1. bundles[i].request.agentId \in AgentIds
    BY <1>2 DEF GInv, GateTypeOK, Bundle, Request
  <2>2. agents[bundles[i].request.agentId] \in Operators
    BY <1>2 DEF GInv, PostedInv
  <2> QED
    BY <2>1, <2>2, RegistryAssumption DEF RegistryGrows
<1>3. NodesBehind'
  <2> SUFFICES ASSUME NEW v \in Validators, NEW o \in Operators
               PROVE  nodeViolations[v][o] <= operators'[o].violations
    BY DEF NodesBehind
  <2>1. nodeViolations[v][o] \in Nat /\ nodeViolations[v][o] <= operators[o].violations
    BY DEF GInv, NodesBehind, GateTypeOK
  <2> QED
    BY <1>1, <2>1
<1>4. PostedInv'
  BY <1>2 DEF GInv, PostedInv
<1>5. FaultInv'
  BY DEF GInv, FaultInv
<1>6. SignedInv'
  <2> SUFFICES ASSUME NEW i \in Nonces, NEW v \in Validators, v \in signatures[i], v \notin Byzantine
               PROVE  Sound(bundles[i], operators'[agents'[bundles[i].request.agentId]].violations)
    BY DEF SignedInv, OperatorOf
  <2> DEFINE o == agents[bundles[i].request.agentId]
  <2>1. bundles[i] # NoBundle
    BY DEF GInv, PostedInv
  <2>2. o \in Operators /\ agents'[bundles[i].request.agentId] = o
    BY <1>2, <2>1
  <2>3. Sound(bundles[i], operators[o].violations)
    BY DEF GInv, SignedInv, OperatorOf
  <2>4. Sound(bundles[i], operators'[o].violations)
    <3> HIDE DEF o
    <3>1. PICK j \in Nat : j <= operators[o].violations /\ bundles[i].statement.slash = baseSlash * (1 + j)
      BY <2>3 DEF Sound
    <3>2. j <= operators'[o].violations
      BY <1>1, <2>2, <3>1
    <3> QED
      BY <2>3, <3>1, <3>2 DEF Sound
  <2> QED
    BY <2>2, <2>4
<1> QED
  BY <1>3, <1>4, <1>5, <1>6

LEMMA LedgerPreserves ==
    ASSUME GInv, UNCHANGED <<registryVars, outcome, bundles, signatures, nodeViolations>>,
           (balanceOf \in [Wallets -> Int])', (minted \in [Wallets -> Nat])',
           (mandate \in [Wallets -> SUBSET AgentIds])'
    PROVE  GInv'
<1>1. GateTypeOK'
  BY DEF GInv, GateTypeOK, RegistryTypeOK, registryVars
<1> QED
  BY <1>1 DEF GInv, NodesBehind, PostedInv, FaultInv, SignedInv, OutcomeInv, registryVars,
              OperatorOf, Settled, QuorumReached

LEMMA MintPreserves ==
    ASSUME GInv, NEW w \in Wallets, NEW v \in Transfers, mint(w, v)
    PROVE  GInv'
<1>1. v \in Nat
  BY QuorumAssumption
<1>2. balanceOf[w] + v \in Int /\ minted[w] + v \in Nat
  BY <1>1 DEF GInv, GateTypeOK
<1>3. balanceOf' \in [Wallets -> Int] /\ minted' \in [Wallets -> Nat] /\ mandate' = mandate
  BY <1>2 DEF mint, GInv, GateTypeOK
<1> QED
  BY <1>3, LedgerPreserves DEF mint, GInv, GateTypeOK

LEMMA MandatePreserves ==
    ASSUME GInv, NEW w \in Wallets, NEW a \in AgentIds, NEW allowed \in BOOLEAN,
           setMandate(w, a, allowed)
    PROVE  GInv'
<1>1. mandate' \in [Wallets -> SUBSET AgentIds]
  BY DEF setMandate, GInv, GateTypeOK
<1> QED
  BY <1>1, LedgerPreserves DEF setMandate, GInv, GateTypeOK

LEMMA RuleDecides == RuleDecisions \subseteq Decisions
<1>1. \A e, f \in BOOLEAN : [exec |-> e, viol |-> f] \in Decisions
  BY DEF Decisions
<1>2. /\ [exec |-> TRUE, viol |-> FALSE] \in Decisions /\ [exec |-> TRUE, viol |-> TRUE] \in Decisions
      /\ [exec |-> FALSE, viol |-> TRUE] \in Decisions
  BY <1>1, Zenon
<1> QED
  BY <1>2, Zenon DEF RuleDecisions

LEMMA FlippedDecision ==
    ASSUME NEW d \in Decisions
    PROVE  FlipViol(d) \in Decisions /\ FlipViol(d) # d
<1>1. PICK e \in BOOLEAN, f \in BOOLEAN : d = [exec |-> e, viol |-> f]
  BY DEF Decisions
<1>2. FlipViol(d) = [exec |-> e, viol |-> ~ f]
  BY <1>1 DEF FlipViol
<1>3. (~ f) \in BOOLEAN /\ (~ f) # f
  OBVIOUS
<1>4. [exec |-> e, viol |-> ~ f] \in Decisions
  BY <1>3 DEF Decisions
<1>5. FlipViol(d).viol = ~ f /\ d.viol = f
  BY <1>1, <1>2
<1> QED
  BY <1>2, <1>3, <1>4, <1>5

\* A prepared bundle is well typed, and one with a fault passes no check, at any time.
LEMMA PreparedBundle ==
    ASSUME GateTypeOK, NEW a \in AgentIds, agents[a] # NoOperator, NEW from \in Wallets,
           NEW to \in Wallets, NEW amount \in Transfers, NEW decision \in RuleDecisions,
           NEW fault \in Faults \cup {"none"}
    PROVE  LET b == Prepare(a, from, to, amount, decision, fault)
           IN /\ b \in Bundle /\ b.request.agentId = a
              /\ fault # "none" => \A k \in Nat : ~ Sound(b, k)
              /\ b.fault = fault
<1> DEFINE b  == Prepare(a, from, to, amount, decision, fault)
           ns == nextSlash(agents[a])
           k0 == operators[agents[a]].violations
           sl == ns + (IF fault = "stale_slash" THEN 1 ELSE 0)
           shown  == IF fault = "flip_viol" THEN FlipViol(decision) ELSE decision
           stated == IF fault = "amount_swap" THEN amount + 1 ELSE amount
           m      == IF fault = "wrong_model" THEN "other" ELSE "deployed"
           proven == [model |-> "deployed", slash |-> sl, decision |-> decision, committed |-> amount]
           stmt   == [model |-> m, slash |-> sl, decision |-> shown, committed |-> amount]
<1>1. agents[a] \in Operators /\ k0 \in Nat
  BY DEF GateTypeOK, RegistryTypeOK, Operator
<1>2. ns \in Nat /\ ns = baseSlash * (1 + k0)
  BY <1>1, SlashAmounts DEF GateTypeOK, nextSlash
<1>3. amount \in Nat /\ stated \in Nat /\ now \in Nat /\ sl \in Nat
  BY <1>2, QuorumAssumption DEF GateTypeOK, RegistryTypeOK
<1>4. decision \in Decisions /\ shown \in Decisions /\ (fault = "flip_viol" => shown # decision)
  <2>1. decision \in Decisions
    BY RuleDecides
  <2> QED
    BY <2>1, FlippedDecision
<1>5. isCovered(a) \in BOOLEAN
  BY DEF isCovered
<1>6. m \in {"deployed", "other"} /\ (fault = "wrong_model" => m = "other")
  OBVIOUS
<1> HIDE DEF sl, shown, stated, m, ns, k0
<1>7. proven \in Statement /\ stmt \in Statement
  BY <1>3, <1>4, <1>6 DEF Statement
<1>8. b = [request    |-> [agentId |-> a, from |-> from, to |-> to, amount |-> stated, decision |-> shown],
           statement  |-> stmt, opening |-> stated,
           proof      |-> IF fault = "corrupt_proof" THEN NoProof ELSE proven,
           fault      |-> fault, policyTime |-> now, covered |-> isCovered(a)]
  BY DEF Prepare, sl, shown, stated, m, ns
<1> HIDE DEF proven, stmt
<1>9. [agentId |-> a, from |-> from, to |-> to, amount |-> stated, decision |-> shown] \in Request
  BY <1>3, <1>4 DEF Request
<1>10. b \in Bundle
  BY <1>3, <1>5, <1>7, <1>8, <1>9 DEF Bundle
<1>11. ASSUME fault # "none", NEW k \in Nat, Sound(b, k)
       PROVE  FALSE
  <2>1. fault \in {"flip_viol", "amount_swap", "stale_slash", "corrupt_proof", "wrong_model"}
    BY <1>11, FaultAssumption
  <2>2. /\ stmt.model = "deployed" /\ stated = stmt.committed
        /\ (IF fault = "corrupt_proof" THEN NoProof ELSE proven) = stmt
        /\ \E j \in Nat : stmt.slash = baseSlash * (1 + j)
    BY <1>8, <1>11 DEF Sound
  <2>3. stmt.committed = amount /\ stmt.decision = shown /\ stmt.slash = sl
    BY DEF stmt
  <2>4. CASE fault = "flip_viol"
    BY <1>4, <2>2, <2>3, <2>4 DEF proven
  <2>5. CASE fault = "amount_swap"
    BY <1>3, <2>2, <2>3, <2>5 DEF stated
  <2>6. CASE fault = "stale_slash"
    <3>1. baseSlash \in Nat /\ baseSlash >= 2
      BY <1>11, <2>6, FaultAssumption, ConstantTypes
    <3>2. PICK j \in Nat : sl = baseSlash * (1 + j)
      BY <2>2, <2>3
    <3>3. sl = baseSlash * (1 + k0) + 1
      BY <1>2, <2>6 DEF sl
    <3>4. baseSlash * (1 + k0) + 1 # baseSlash * (1 + j)
      BY <1>1, <3>1, StaleIsNoStep
    <3> QED
      BY <3>2, <3>3, <3>4
  <2>7. CASE fault = "corrupt_proof"
    BY <1>7, <2>2, <2>7, FaultAssumption
  <2>8. CASE fault = "wrong_model"
    BY <1>6, <2>2, <2>8 DEF stmt
  <2> QED
    BY <2>1, <2>4, <2>5, <2>6, <2>7, <2>8
<1>12. b.fault = fault /\ b.request.agentId = a
  BY <1>8
<1> HIDE DEF b
<1> QED
  BY <1>10, <1>11, <1>12 DEF b

LEMMA PostPreserves ==
    ASSUME GInv, NEW i \in Nonces, NEW a \in AgentIds, NEW from \in Wallets, NEW to \in Wallets,
           NEW amount \in Transfers, NEW decision \in RuleDecisions, NEW fault \in Faults \cup {"none"},
           post(i, a, from, to, amount, decision, fault)
    PROVE  GInv'
<1> DEFINE b == Prepare(a, from, to, amount, decision, fault)
<1>1. /\ bundles[i] = NoBundle /\ agents[a] # NoOperator
      /\ bundles' = [bundles EXCEPT ![i] = b]
      /\ UNCHANGED <<registryVars, ledger, signatures, nodeViolations>>
  BY DEF post
<1>2. /\ b \in Bundle /\ b.request.agentId = a /\ b.fault = fault
      /\ fault # "none" => \A k \in Nat : ~ Sound(b, k)
  BY <1>1, PreparedBundle DEF GInv
<1> HIDE DEF b
<1>3. bundles'[i] = b /\ \A j \in Nonces : j # i => bundles'[j] = bundles[j]
  BY <1>1 DEF GInv, GateTypeOK
<1>4. signatures[i] = {} /\ signatures' = signatures /\ agents' = agents /\ operators' = operators
  BY <1>1 DEF GInv, PostedInv, registryVars
<1>5. GateTypeOK'
  BY <1>1, <1>2 DEF GInv, GateTypeOK, RegistryTypeOK, registryVars, ledger
<1>6. NodesBehind' /\ OutcomeInv'
  BY <1>1, <1>4 DEF GInv, NodesBehind, OutcomeInv, Settled, QuorumReached, ledger
<1>7. PostedInv'
  <2> SUFFICES ASSUME NEW j \in Nonces
               PROVE  /\ bundles'[j] # NoBundle => agents[bundles'[j].request.agentId] \in Operators
                      /\ signatures[j] # {} => bundles'[j] # NoBundle
    BY <1>4 DEF PostedInv
  <2>1. CASE j = i
    BY <1>1, <1>2, <1>3, <1>4, <2>1 DEF GInv, GateTypeOK, RegistryTypeOK
  <2>2. CASE j # i
    BY <1>3, <2>2 DEF GInv, PostedInv
  <2> QED
    BY <2>1, <2>2
<1>8. FaultInv'
  <2> SUFFICES ASSUME NEW j \in Nonces, bundles'[j] # NoBundle, bundles'[j].fault # "none",
                      NEW k \in Nat, Sound(bundles'[j], k)
               PROVE  FALSE
    BY DEF FaultInv, Sound
  <2>1. CASE j = i
    BY <1>2, <1>3, <2>1
  <2>2. CASE j # i
    BY <1>3, <2>2 DEF GInv, FaultInv
  <2> QED
    BY <2>1, <2>2
<1>9. SignedInv'
  <2> SUFFICES ASSUME NEW j \in Nonces, NEW v \in Validators, v \in signatures[j], v \notin Byzantine
               PROVE  Sound(bundles'[j], operators[agents[bundles'[j].request.agentId]].violations)
    BY <1>4 DEF SignedInv, OperatorOf, Sound
  <2>1. j # i /\ bundles'[j] = bundles[j]
    BY <1>3, <1>4
  <2> QED
    BY <2>1 DEF GInv, SignedInv, OperatorOf
<1> QED
  BY <1>5, <1>6, <1>7, <1>8, <1>9 DEF GInv

LEMMA ImportPreserves ==
    ASSUME GInv, NEW v \in Validators, importBlocks(v)
    PROVE  GInv'
<1> DEFINE row == [o \in Operators |-> operators[o].violations]
<1>1. /\ nodeViolations' = [nodeViolations EXCEPT ![v] = row]
      /\ UNCHANGED <<registryVars, ledger, bundles, signatures>>
  BY DEF importBlocks
<1>2. \A o \in Operators : row[o] = operators[o].violations /\ operators[o].violations \in Nat
  BY DEF GInv, GateTypeOK, RegistryTypeOK, Operator
<1>3. row \in [Operators -> Nat]
  BY <1>2
<1> HIDE DEF row
<1>4. GateTypeOK'
  BY <1>1, <1>3 DEF GInv, GateTypeOK, RegistryTypeOK, registryVars, ledger
<1>5. NodesBehind'
  <2> SUFFICES ASSUME NEW w \in Validators, NEW o \in Operators
               PROVE  nodeViolations'[w][o] <= operators[o].violations
    BY <1>1 DEF NodesBehind, registryVars
  <2>1. CASE w = v
    <3>1. nodeViolations'[w] = row
      BY <1>1, <2>1 DEF GInv, GateTypeOK
    <3> QED
      BY <1>2, <3>1
  <2>2. CASE w # v
    <3>1. nodeViolations'[w] = nodeViolations[w]
      BY <1>1, <2>2 DEF GInv, GateTypeOK
    <3> QED
      BY <3>1 DEF GInv, NodesBehind
  <2> QED
    BY <2>1, <2>2
<1> QED
  BY <1>1, <1>4, <1>5 DEF GInv, PostedInv, FaultInv, SignedInv, OutcomeInv, registryVars, ledger,
                          OperatorOf, Settled, QuorumReached

\* What an honest validator checks against its own chain node stays true of the registry.
LEMMA CheckIsSound ==
    ASSUME GInv, NEW v \in Validators, NEW i \in Nonces, bundles[i] # NoBundle, check(v, bundles[i])
    PROVE  Sound(bundles[i], operators[OperatorOf(i)].violations)
<1> DEFINE j == nodeViolations[v][OperatorOf(i)]
<1>1. OperatorOf(i) \in Operators
  BY DEF GInv, PostedInv, OperatorOf
<1>2. j \in Nat /\ j <= operators[OperatorOf(i)].violations
  BY <1>1 DEF GInv, GateTypeOK, NodesBehind
<1>3. bundles[i].statement.slash = baseSlash * (1 + j)
  BY DEF check, OperatorOf
<1> HIDE DEF j
<1> QED
  BY <1>2, <1>3 DEF check, Sound

LEMMA AttestPreserves ==
    ASSUME GInv, NEW v \in Validators, NEW i \in Nonces, attest(v, i)
    PROVE  GInv'
<1>1. /\ bundles[i] # NoBundle /\ (v \in Byzantine \/ check(v, bundles[i]))
      /\ signatures' = [signatures EXCEPT ![i] = @ \cup {v}]
      /\ UNCHANGED <<registryVars, ledger, bundles, nodeViolations>>
  BY DEF attest
<1>2. /\ signatures'[i] = signatures[i] \cup {v}
      /\ \A j \in Nonces : j # i => signatures'[j] = signatures[j]
  BY <1>1 DEF GInv, GateTypeOK
<1>3. GateTypeOK'
  BY <1>1 DEF GInv, GateTypeOK, RegistryTypeOK, registryVars, ledger
<1>4. NodesBehind' /\ FaultInv'
  BY <1>1 DEF GInv, NodesBehind, FaultInv, registryVars
<1>5. PostedInv'
  <2> SUFFICES ASSUME NEW j \in Nonces
               PROVE  /\ bundles[j] # NoBundle => agents[bundles[j].request.agentId] \in Operators
                      /\ signatures'[j] # {} => bundles[j] # NoBundle
    BY <1>1 DEF PostedInv, registryVars
  <2> QED
    BY <1>1, <1>2 DEF GInv, PostedInv
<1>6. SignedInv'
  <2> SUFFICES ASSUME NEW j \in Nonces, NEW w \in Validators, w \in signatures'[j], w \notin Byzantine
               PROVE  Sound(bundles[j], operators[OperatorOf(j)].violations)
    BY <1>1 DEF SignedInv, OperatorOf, Sound, registryVars
  <2>1. CASE j = i /\ w = v
    BY <1>1, <2>1, CheckIsSound
  <2>2. CASE ~ (j = i /\ w = v)
    BY <1>2, <2>2 DEF GInv, SignedInv
  <2> QED
    BY <2>1, <2>2
<1>7. OutcomeInv'
  <2> SUFFICES ASSUME NEW j \in Nonces, Settled(j)
               PROVE  Cardinality(signatures'[j]) >= threshold
    BY <1>1 DEF OutcomeInv, Settled, QuorumReached, ledger
  <2>1. signatures[j] \subseteq signatures'[j] /\ signatures'[j] \subseteq Validators
    BY <1>2, <1>3 DEF GateTypeOK
  <2>2. IsFiniteSet(signatures'[j]) /\ IsFiniteSet(signatures[j])
    BY <2>1, FS_Subset, QuorumAssumption
  <2>3. /\ Cardinality(signatures[j]) <= Cardinality(signatures'[j])
        /\ Cardinality(signatures[j]) \in Nat /\ Cardinality(signatures'[j]) \in Nat
    BY <2>1, <2>2, FS_Subset, FS_CardinalityType
  <2>4. Cardinality(signatures[j]) >= threshold
    BY DEF GInv, OutcomeInv, QuorumReached
  <2> QED
    BY <2>3, <2>4, QuorumAssumption
<1> QED
  BY <1>3, <1>4, <1>5, <1>6, <1>7 DEF GInv

LEMMA SettlePreserves ==
    ASSUME GInv, NEW i \in Nonces, settle(i)
    PROVE  GInv'
<1> DEFINE r == bundles[i].request
<1>1. /\ bundles[i] # NoBundle /\ QuorumReached(i)
      /\ UNCHANGED <<mandate, minted, bundles, signatures, nodeViolations>>
  BY DEF settle
<1>2. r \in Request /\ bundles[i] \in Bundle
  BY <1>1 DEF GInv, GateTypeOK, Bundle
<1>3. /\ r.agentId \in AgentIds /\ r.from \in Wallets /\ r.to \in Wallets /\ r.amount \in Nat
  BY <1>2 DEF Request
<1>4. PICK out \in Outcomes : outcome' = [outcome EXCEPT ![i] = out]
  BY DEF settle, Outcomes
<1>5. RegistryTypeOK' /\ RegistryGrows
  <2>1. CASE slash(r.agentId)
    BY <1>3, <2>1, SlashTypes DEF GInv, GateTypeOK
  <2>2. CASE UNCHANGED registryVars
    BY <2>2 DEF GInv, GateTypeOK, RegistryTypeOK, RegistryGrows, registryVars, Operator
  <2> QED
    BY <2>1, <2>2 DEF settle
<1>6. balanceOf' \in [Wallets -> Int]
  <2>1. CASE balanceOf' = Transfer(r)
    <3> DEFINE f == [balanceOf EXCEPT ![r.from] = @ - r.amount]
    <3>1. balanceOf \in [Wallets -> Int] /\ balanceOf[r.from] - r.amount \in Int
      BY <1>3 DEF GInv, GateTypeOK
    <3>2. f \in [Wallets -> Int]
      BY <1>3, <3>1
    <3> HIDE DEF f
    <3>3. f[r.to] + r.amount \in Int
      BY <1>3, <3>2
    <3>4. balanceOf' = [f EXCEPT ![r.to] = @ + r.amount]
      BY <2>1 DEF Transfer, f
    <3> QED
      BY <3>2, <3>3, <3>4
  <2>2. CASE UNCHANGED balanceOf
    BY <2>2 DEF GInv, GateTypeOK
  <2> QED
    BY <2>1, <2>2 DEF settle
<1>7. GateTypeOK'
  BY <1>1, <1>4, <1>5, <1>6 DEF GInv, GateTypeOK
<1>8. NodesBehind' /\ PostedInv' /\ FaultInv' /\ SignedInv'
  BY <1>1, <1>5, GrowthPreserves
<1>9. OutcomeInv'
  <2> SUFFICES ASSUME NEW j \in Nonces, outcome'[j] # "None"
               PROVE  QuorumReached(j)
    BY <1>1 DEF OutcomeInv, Settled, QuorumReached
  <2> QED
    BY <1>1, <1>4 DEF GInv, GateTypeOK, OutcomeInv, Settled
<1> QED
  BY <1>7, <1>8, <1>9 DEF GInv

LEMMA RegistryPreserves ==
    ASSUME GInv, RegistryStep, UNCHANGED gateVars
    PROVE  GInv'
<1>1. RegistryTypeOK' /\ RegistryGrows
  BY RegistryStepTypes DEF GInv, GateTypeOK
<1>2. GateTypeOK' /\ OutcomeInv'
  BY <1>1 DEF GInv, GateTypeOK, OutcomeInv, Settled, QuorumReached, gateVars
<1> QED
  BY <1>1, <1>2, GrowthPreserves DEF GInv, gateVars

LEMMA InitHolds == GateInit => GInv
<1> SUFFICES ASSUME GateInit
             PROVE  GInv
  OBVIOUS
<1>1. RegistryTypeOK
  BY DEF GateInit, RegistryInit, RegistryTypeOK, Operator
<1>2. GateTypeOK
  BY <1>1 DEF GateInit, GateTypeOK, Outcomes
<1>3. NodesBehind
  BY DEF GateInit, RegistryInit, NodesBehind
<1> QED
  BY <1>2, <1>3 DEF GateInit, GInv, PostedInv, FaultInv, SignedInv, OutcomeInv, Settled

LEMMA StepPreserves == GInv /\ [GateNext]_<<registryVars, gateVars>> => GInv'
<1> SUFFICES ASSUME GInv, [GateNext]_<<registryVars, gateVars>>
             PROVE  GInv'
  OBVIOUS
<1>1. ASSUME NEW w \in Wallets, NEW v \in Transfers, mint(w, v)
      PROVE  GInv'
  BY <1>1, MintPreserves
<1>2. ASSUME NEW w \in Wallets, NEW a \in AgentIds, NEW allowed \in BOOLEAN, setMandate(w, a, allowed)
      PROVE  GInv'
  BY <1>2, MandatePreserves
<1>3. CASE UNCHANGED <<registryVars, gateVars>>
  BY <1>3 DEF GInv, GateTypeOK, RegistryTypeOK, NodesBehind, PostedInv, FaultInv, SignedInv, OutcomeInv,
              registryVars, gateVars, OperatorOf, Settled, QuorumReached
<1>4. CASE RegistryStep /\ UNCHANGED gateVars
  BY <1>4, RegistryPreserves
<1> QED
  BY <1>1, <1>2, <1>3, <1>4, PostPreserves, ImportPreserves, AttestPreserves, SettlePreserves
     DEF GateNext, GateStep

LEMMA Invariance == GateSpec => []GInv
BY InitHolds, StepPreserves, PTL DEF GateSpec

------------------------------------------------------------------------------
(* The theorems.                                                             *)

\* Every reachable state is well typed: whatever is slashed, withdrawn or settled, no stake,
\* pending withdrawal or treasury balance goes below zero (slash, requestWithdraw, settle).
THEOREM GateTypeCorrect == GateSpec => []GateTypeOK
<1>1. GInv => GateTypeOK
  BY DEF GInv
<1> QED
  BY <1>1, Invariance, PTL

LEMMA SettledIsSound ==
    ASSUME GInv, NEW i \in Nonces, Settled(i)
    PROVE  /\ bundles[i] \in Bundle /\ OperatorOf(i) \in Operators
           /\ operators[OperatorOf(i)].violations \in Nat
           /\ Sound(bundles[i], operators[OperatorOf(i)].violations)
<1>1. QuorumReached(i)
  BY DEF GInv, OutcomeInv
<1> QED
  BY <1>1, QuorumIsSound

\* No fault the driver injects ever gathers a quorum (check, attest, settle): a changed
\* decision, a changed amount, a slash of no escalation step, a broken proof, another model.
THEOREM FaultsAreRefused == GateSpec => []FaultsRefused
<1>1. ASSUME GInv
      PROVE  FaultsRefused
  <2> SUFFICES ASSUME NEW i \in Nonces, bundles[i] # NoBundle, bundles[i].fault # "none",
                      QuorumReached(i) \/ Settled(i)
               PROVE  FALSE
    BY DEF FaultsRefused
  <2>1. QuorumReached(i)
    BY <1>1 DEF GInv, OutcomeInv
  <2> QED
    BY <1>1, <2>1, QuorumIsSound DEF GInv, FaultInv
<1> QED
  BY <1>1, Invariance, PTL

\* A settled request carries the decision and the amount of a proof that verifies.
THEOREM ProvenIsSettled == GateSpec => []SettledIsProven
<1>1. ASSUME GInv
      PROVE  SettledIsProven
  <2> SUFFICES ASSUME NEW i \in Nonces, Settled(i)
               PROVE  /\ bundles[i].proof = bundles[i].statement
                      /\ bundles[i].request.decision = bundles[i].proof.decision
                      /\ bundles[i].request.amount = bundles[i].proof.committed
    BY DEF SettledIsProven
  <2> QED
    BY <1>1, SettledIsSound DEF Sound
<1> QED
  BY <1>1, Invariance, PTL

\* The slash behind a settled decision is a step of its operator's escalation, however many
\* requests of the operator are in flight and however far the validators' nodes lag.
THEOREM SlashWasReal == GateSpec => []SlashWasInForce
<1>1. ASSUME GInv
      PROVE  SlashWasInForce
  <2> SUFFICES ASSUME NEW i \in Nonces, Settled(i)
               PROVE  \E k \in 0 .. operators[OperatorOf(i)].violations :
                          bundles[i].statement.slash = baseSlash * (1 + k)
    BY DEF SlashWasInForce
  <2>1. /\ operators[OperatorOf(i)].violations \in Nat
        /\ Sound(bundles[i], operators[OperatorOf(i)].violations)
    BY <1>1, SettledIsSound
  <2> QED
    BY <2>1 DEF Sound
<1> QED
  BY <1>1, Invariance, PTL

\* An executed transfer is covered by the slash it was proven under: coverage is read when it
\* settles, and the slash has only grown since (settle, isCovered, nextSlash).
THEOREM ExecutionIsDeterred == GateSpec => ExecutedIsDeterred
<1> DEFINE Deterred == \A i \in Nonces : outcome[i] # "Executed" /\ outcome'[i] = "Executed" =>
                           operators[OperatorOf(i)].stake >= bundles[i].statement.slash
<1>1. ASSUME GInv, GateNext, outcome' # outcome
      PROVE  Deterred
  <2>1. PICK n \in Nonces : settle(n)
    BY <1>1 DEF GateNext, GateStep, mint, setMandate, post, importBlocks, attest, ledger, gateVars
  <2> SUFFICES ASSUME NEW i \in Nonces, outcome[i] # "Executed", outcome'[i] = "Executed"
               PROVE  operators[OperatorOf(i)].stake >= bundles[i].statement.slash
    OBVIOUS
  <2>2. i = n /\ isCovered(bundles[i].request.agentId)
    BY <1>1, <2>1 DEF settle, GInv, GateTypeOK
  <2>3. /\ OperatorOf(i) \in Operators /\ operators[OperatorOf(i)].violations \in Nat
        /\ Sound(bundles[i], operators[OperatorOf(i)].violations)
    BY <1>1, <2>1, <2>2, QuorumIsSound DEF settle
  <2>4. operators[OperatorOf(i)].stake >= requiredStake(OperatorOf(i))
    BY <2>2 DEF isCovered, OperatorOf
  <2> DEFINE k == operators[OperatorOf(i)].violations
             s == operators[OperatorOf(i)].stake
  <2>5. k \in Nat /\ s \in Nat
    BY <1>1, <2>3 DEF GInv, GateTypeOK, RegistryTypeOK, Operator
  <2>6. PICK j \in Nat : j <= k /\ bundles[i].statement.slash = baseSlash * (1 + j)
    BY <2>3 DEF Sound
  <2>7. s >= Greater(baseSlash * (1 + k), minStake)
    BY <2>4 DEF requiredStake, nextSlash
  <2> HIDE DEF k, s
  <2>8. baseSlash * (1 + k) \in Nat /\ baseSlash * (1 + j) \in Nat /\ baseSlash * (1 + j) <= baseSlash * (1 + k)
    BY <2>5, <2>6, ConstantTypes, SlashGrows
  <2>9. s >= baseSlash * (1 + k)
    BY <2>5, <2>7, <2>8, ConstantTypes DEF Greater
  <2>10. s >= baseSlash * (1 + j)
    BY <2>5, <2>8, <2>9
  <2> QED
    BY <2>6, <2>10 DEF s
<1>2. GInv /\ [GateNext]_<<registryVars, gateVars>> => [Deterred]_outcome
  BY <1>1 DEF gateVars
<1>3. []GInv /\ [][GateNext]_<<registryVars, gateVars>> => [][Deterred]_outcome
  BY <1>2, PTL
<1> QED
  BY <1>3, Invariance DEF GateSpec, ExecutedIsDeterred

------------------------------------------------------------------------------
(* The history of an operator.                                               *)

LEMMA RegistryKeepsViolations ==
    ASSUME RegistryTypeOK, RegistryStep, NEW p \in Operators
    PROVE  operators'[p].violations = operators[p].violations
<1>1. operators \in [Operators -> Operator] /\ operators[p] \in Operator
  BY DEF RegistryTypeOK
<1>2. ASSUME NEW o \in Operators, NEW v \in Amounts, topUp(o, v) \/ requestWithdraw(o, v)
      PROVE  operators'[p].violations = operators[p].violations
  <2>1. CASE p = o
    BY <1>1, <1>2, <2>1 DEF topUp, requestWithdraw, Operator
  <2>2. CASE p # o
    BY <1>1, <1>2, <2>2 DEF topUp, requestWithdraw
  <2> QED
    BY <2>1, <2>2
<1>3. ASSUME NEW o \in Operators, issueCredential(o) \/ revokeCredential(o) \/ withdraw(o)
      PROVE  operators'[p].violations = operators[p].violations
  <2>1. CASE p = o
    BY <1>1, <1>3, <2>1 DEF issueCredential, revokeCredential, withdraw, Operator
  <2>2. CASE p # o
    BY <1>1, <1>3, <2>2 DEF issueCredential, revokeCredential, withdraw
  <2> QED
    BY <2>1, <2>2
<1> QED
  BY <1>2, <1>3 DEF RegistryStep, registerAgent, payTreasury, Tick

BlockedOf(o) == {i \in Nonces : outcome[i] = "Blocked" /\ OperatorOf(i) = o}

LEMMA BlockedIsPosted ==
    ASSUME GInv, NEW i \in Nonces, outcome[i] = "Blocked"
    PROVE  bundles[i] # NoBundle /\ OperatorOf(i) \in Operators /\ bundles[i].request.agentId \in AgentIds
<1>1. Settled(i)
  BY DEF Settled
<1>2. bundles[i] \in Bundle /\ OperatorOf(i) \in Operators
  BY <1>1, SettledIsSound
<1> QED
  BY <1>2, FaultAssumption DEF Bundle, Request

\* The history changes only with the outcome: everything else leaves both alone.
LEMMA HistoryKept ==
    ASSUME GInv, HistoryMatchesOutcomes, UNCHANGED outcome,
           \A o \in Operators : operators'[o].violations = operators[o].violations,
           \A a \in AgentIds : agents[a] # NoOperator => agents'[a] = agents[a],
           \A i \in Nonces : bundles[i] # NoBundle => bundles'[i] = bundles[i]
    PROVE  HistoryMatchesOutcomes'
<1>1. ASSUME NEW i \in Nonces, outcome[i] = "Blocked"
      PROVE  OperatorOf(i)' = OperatorOf(i)
  <2>1. /\ bundles[i] # NoBundle /\ OperatorOf(i) \in Operators
        /\ bundles[i].request.agentId \in AgentIds
    BY <1>1, BlockedIsPosted
  <2> QED
    BY <2>1, RegistryAssumption DEF OperatorOf
<1> SUFFICES ASSUME NEW o \in Operators
             PROVE  operators'[o].violations = Cardinality(BlockedOf(o)')
  BY DEF HistoryMatchesOutcomes, BlockedOf
<1>2. BlockedOf(o)' = BlockedOf(o)
  BY <1>1 DEF BlockedOf
<1> QED
  BY <1>2 DEF HistoryMatchesOutcomes, BlockedOf

LEMMA HistorySettled ==
    ASSUME GInv, HistoryMatchesOutcomes, NEW n \in Nonces, settle(n)
    PROVE  HistoryMatchesOutcomes'
<1>1. /\ outcome[n] = "None" /\ bundles' = bundles /\ bundles[n] # NoBundle /\ QuorumReached(n)
      /\ outcome \in [Nonces -> Outcomes]
  BY DEF settle, GInv, GateTypeOK
<1>2. OperatorOf(n) \in Operators /\ bundles[n].request.agentId \in AgentIds
  BY <1>1, QuorumIsSound DEF Bundle, Request
<1> SUFFICES ASSUME NEW p \in Operators
             PROVE  operators'[p].violations = Cardinality(BlockedOf(p)')
  BY DEF HistoryMatchesOutcomes, BlockedOf
<1>3. operators[p].violations = Cardinality(BlockedOf(p)) /\ operators[p].violations \in Nat
  BY DEF HistoryMatchesOutcomes, BlockedOf, GInv, GateTypeOK, RegistryTypeOK, Operator
<1>4. n \notin BlockedOf(p) /\ IsFiniteSet(BlockedOf(p))
  BY <1>1, QuorumAssumption, FS_Subset DEF BlockedOf
<1>5. CASE slash(bundles[n].request.agentId) /\ outcome' = [outcome EXCEPT ![n] = "Blocked"]
  <2>1. /\ agents' = agents
        /\ operators'[p].violations = operators[p].violations + (IF p = OperatorOf(n) THEN 1 ELSE 0)
    BY <1>2, <1>5, SlashTypes DEF GInv, GateTypeOK, OperatorOf
  <2>2. \A i \in Nonces : OperatorOf(i)' = OperatorOf(i)
    BY <1>1, <2>1 DEF OperatorOf
  <2>3. CASE p = OperatorOf(n)
    <3>1. BlockedOf(p)' = BlockedOf(p) \cup {n}
      BY <1>1, <1>5, <2>2, <2>3 DEF BlockedOf
    <3>2. Cardinality(BlockedOf(p) \cup {n}) = Cardinality(BlockedOf(p)) + 1
      BY <1>4, FS_AddElement
    <3> QED
      BY <1>3, <2>1, <2>3, <3>1, <3>2
  <2>4. CASE p # OperatorOf(n)
    <3>1. BlockedOf(p)' = BlockedOf(p)
      BY <1>1, <1>5, <2>2, <2>4 DEF BlockedOf
    <3> QED
      BY <1>3, <2>1, <2>4, <3>1
  <2> QED
    BY <2>3, <2>4
<1>6. CASE /\ UNCHANGED registryVars
           /\ \E out \in {"NotCovered", "Executed", "AgentRefused"} : outcome' = [outcome EXCEPT ![n] = out]
  <2>1. agents' = agents /\ operators' = operators
    BY <1>6 DEF registryVars
  <2>2. \A i \in Nonces : OperatorOf(i)' = OperatorOf(i) /\ (outcome'[i] = "Blocked" <=> outcome[i] = "Blocked")
    BY <1>1, <1>6, <2>1 DEF OperatorOf
  <2>3. BlockedOf(p)' = BlockedOf(p)
    BY <2>2 DEF BlockedOf
  <2> QED
    BY <1>3, <2>1, <2>3
<1> QED
  BY <1>5, <1>6 DEF settle

LEMMA HistoryStep ==
    ASSUME GInv, HistoryMatchesOutcomes, [GateNext]_<<registryVars, gateVars>>
    PROVE  HistoryMatchesOutcomes'
<1>1. CASE RegistryStep /\ UNCHANGED gateVars
  <2>1. \A o \in Operators : operators'[o].violations = operators[o].violations
    BY <1>1, RegistryKeepsViolations DEF GInv, GateTypeOK
  <2>2. RegistryGrows
    BY <1>1, RegistryStepTypes DEF GInv, GateTypeOK
  <2> QED
    BY <1>1, <2>1, <2>2, HistoryKept DEF RegistryGrows, gateVars
<1>2. CASE UNCHANGED <<registryVars, outcome, bundles>>
  BY <1>2, HistoryKept DEF registryVars
<1>3. ASSUME NEW n \in Nonces, NEW a \in AgentIds, NEW from \in Wallets, NEW to \in Wallets,
             NEW amount \in Transfers, NEW decision \in RuleDecisions, NEW fault \in Faults \cup {"none"},
             post(n, a, from, to, amount, decision, fault)
      PROVE  HistoryMatchesOutcomes'
  <2>1. \A i \in Nonces : bundles[i] # NoBundle => bundles'[i] = bundles[i]
    BY <1>3 DEF post, GInv, GateTypeOK
  <2> QED
    BY <1>3, <2>1, HistoryKept DEF post, registryVars, ledger
<1>4. ASSUME NEW n \in Nonces, settle(n)
      PROVE  HistoryMatchesOutcomes'
  BY <1>4, HistorySettled
<1> QED
  BY <1>1, <1>2, <1>3, <1>4 DEF GateNext, GateStep, mint, setMandate, importBlocks, attest, ledger, gateVars

\* The violations held against an operator are exactly its blocked requests: no new agent id,
\* no revoked credential and no replayed quorum changes the count (registerAgent, slash, settle).
THEOREM HistoryIsExact == GateSpec => []HistoryMatchesOutcomes
<1>1. ASSUME GateInit
      PROVE  HistoryMatchesOutcomes
  <2> SUFFICES ASSUME NEW o \in Operators
               PROVE  operators[o].violations = Cardinality(BlockedOf(o))
    BY DEF HistoryMatchesOutcomes, BlockedOf
  <2>1. BlockedOf(o) = {} /\ operators[o].violations = 0
    BY <1>1 DEF GateInit, RegistryInit, BlockedOf
  <2> QED
    BY <2>1, FS_EmptySet
<1>2. GInv /\ HistoryMatchesOutcomes /\ [GateNext]_<<registryVars, gateVars>> => HistoryMatchesOutcomes'
  BY HistoryStep
<1> QED
  BY <1>1, <1>2, Invariance, PTL DEF GateSpec

------------------------------------------------------------------------------
(* The books of the ledger.                                                  *)

\* What the executed requests have brought a wallet and what they have cost it.
Received(w) == [i \in Nonces |-> IF outcome[i] = "Executed" /\ bundles[i].request.to = w
                                   THEN bundles[i].request.amount ELSE 0]
Spent(w)    == [i \in Nonces |-> IF outcome[i] = "Executed" /\ bundles[i].request.from = w
                                   THEN bundles[i].request.amount ELSE 0]

AmountsAreNat == \A w \in Wallets, i \in Nonces : Received(w)[i] \in Nat /\ Spent(w)[i] \in Nat

LedgerInv ==
    \A w \in Wallets :
        /\ balanceOf[w] >= 0
        /\ balanceOf[w] = minted[w] + SumFunctionOnSet(Received(w), Nonces) - SumFunctionOnSet(Spent(w), Nonces)

LEMMA ExecutedIsPosted ==
    ASSUME GInv, NEW i \in Nonces, outcome[i] = "Executed"
    PROVE  bundles[i] # NoBundle /\ bundles[i] \in Bundle /\ bundles[i].request.amount \in Nat
<1>1. bundles[i] \in Bundle
  BY SettledIsSound DEF Settled
<1> QED
  BY <1>1, FaultAssumption DEF Bundle, Request

LEMMA MovedAmounts == GInv => AmountsAreNat
BY ExecutedIsPosted DEF AmountsAreNat, Received, Spent

LEMMA LedgerNumbers ==
    ASSUME GInv, NEW w \in Wallets
    PROVE  /\ balanceOf[w] \in Int /\ minted[w] \in Nat
           /\ SumFunctionOnSet(Received(w), Nonces) \in Int
           /\ SumFunctionOnSet(Spent(w), Nonces) \in Int
<1>1. IsFiniteSet(Nonces)
  BY QuorumAssumption
<1>2. \A i \in Nonces : Received(w)[i] \in Int /\ Spent(w)[i] \in Int
  BY MovedAmounts DEF AmountsAreNat
<1>3. balanceOf[w] \in Int /\ minted[w] \in Nat
  BY DEF GInv, GateTypeOK
<1> HIDE DEF Received, Spent
<1> QED
  BY <1>1, <1>2, <1>3, SumInt

\* Steps that execute nothing and move nothing.
LEMMA LedgerKept ==
    ASSUME GInv, LedgerInv, UNCHANGED <<balanceOf, minted>>,
           \A i \in Nonces : outcome'[i] = "Executed" <=> outcome[i] = "Executed",
           \A i \in Nonces : bundles[i] # NoBundle => bundles'[i] = bundles[i]
    PROVE  LedgerInv'
<1>1. \A i \in Nonces : outcome[i] = "Executed" => bundles'[i] = bundles[i]
  BY ExecutedIsPosted
<1>2. ASSUME NEW w \in Wallets
      PROVE  Received(w)' = Received(w) /\ Spent(w)' = Spent(w)
  BY <1>1 DEF Received, Spent
<1> QED
  BY <1>2 DEF LedgerInv

LEMMA LedgerMinted ==
    ASSUME GInv, LedgerInv, NEW w \in Wallets, NEW v \in Transfers, mint(w, v)
    PROVE  LedgerInv'
<1> SUFFICES ASSUME NEW u \in Wallets
             PROVE  /\ balanceOf'[u] >= 0
                    /\ balanceOf'[u] = minted'[u] + SumFunctionOnSet(Received(u)', Nonces)
                                                  - SumFunctionOnSet(Spent(u)', Nonces)
  BY DEF LedgerInv
<1>1. Received(u)' = Received(u) /\ Spent(u)' = Spent(u)
  BY DEF mint, Received, Spent
<1> DEFINE got  == SumFunctionOnSet(Received(u), Nonces)
           gave == SumFunctionOnSet(Spent(u), Nonces)
           new  == IF u = w THEN v ELSE 0
<1>2. new \in Nat
  BY QuorumAssumption
<1>3. balanceOf[u] \in Int /\ minted[u] \in Nat /\ got \in Int /\ gave \in Int
  BY LedgerNumbers
<1>4. balanceOf'[u] = balanceOf[u] + new /\ minted'[u] = minted[u] + new
  BY <1>3 DEF mint, GInv, GateTypeOK
<1>5. balanceOf[u] >= 0 /\ balanceOf[u] = minted[u] + got - gave
  BY DEF LedgerInv
<1> HIDE DEF got, gave, new
<1>6. balanceOf'[u] >= 0 /\ balanceOf'[u] = minted'[u] + got - gave
  BY <1>2, <1>3, <1>4, <1>5
<1> QED
  BY <1>1, <1>6 DEF got, gave

LEMMA LedgerSettled ==
    ASSUME GInv, GInv', LedgerInv, NEW n \in Nonces, settle(n)
    PROVE  LedgerInv'
<1>1. /\ outcome[n] = "None" /\ bundles' = bundles /\ bundles[n] # NoBundle /\ minted' = minted
      /\ outcome \in [Nonces -> Outcomes] /\ bundles[n] \in Bundle
  BY DEF settle, GInv, GateTypeOK
<1>2. CASE UNCHANGED balanceOf /\ \E out : out # "Executed" /\ outcome' = [outcome EXCEPT ![n] = out]
  <2>1. \A i \in Nonces : outcome'[i] = "Executed" <=> outcome[i] = "Executed"
    BY <1>1, <1>2
  <2> QED
    BY <1>1, <1>2, <2>1, LedgerKept
<1>3. ASSUME balanceOf[bundles[n].request.from] >= bundles[n].request.amount,
             balanceOf' = Transfer(bundles[n].request), outcome' = [outcome EXCEPT ![n] = "Executed"]
      PROVE  LedgerInv'
  <2> DEFINE r == bundles[n].request
  <2>1. r.from \in Wallets /\ r.to \in Wallets /\ r.amount \in Nat
    BY <1>1 DEF Bundle, Request
  <2> SUFFICES ASSUME NEW w \in Wallets
               PROVE  /\ balanceOf'[w] >= 0
                      /\ balanceOf'[w] = minted'[w] + SumFunctionOnSet(Received(w)', Nonces)
                                                    - SumFunctionOnSet(Spent(w)', Nonces)
    BY DEF LedgerInv
  <2> DEFINE got  == SumFunctionOnSet(Received(w), Nonces)
             gave == SumFunctionOnSet(Spent(w), Nonces)
             in   == IF r.to = w THEN r.amount ELSE 0
             out  == IF r.from = w THEN r.amount ELSE 0
  <2>2. in \in Nat /\ out \in Nat
    BY <2>1
  <2>3. /\ Received(w)[n] = 0 /\ Spent(w)[n] = 0
        /\ Received(w)'[n] = in /\ Spent(w)'[n] = out
        /\ \A i \in Nonces \ {n} : Received(w)[i] = Received(w)'[i] /\ Spent(w)[i] = Spent(w)'[i]
    BY <1>1, <1>3 DEF Received, Spent
  <2>4. \A i \in Nonces : Received(w)[i] \in Int /\ Spent(w)[i] \in Int
    BY MovedAmounts DEF AmountsAreNat
  <2>5. balanceOf[w] \in Int /\ minted[w] \in Nat /\ got \in Int /\ gave \in Int
    BY LedgerNumbers
  <2>6. balanceOf[w] >= 0 /\ balanceOf[w] = minted[w] + got - gave
    BY DEF LedgerInv
  <2>7. balanceOf'[w] = balanceOf[w] - out + in
    <3> DEFINE f == [balanceOf EXCEPT ![r.from] = @ - r.amount]
    <3>1. f \in [Wallets -> Int] /\ f[w] = balanceOf[w] - out
      BY <2>1, <2>5 DEF GInv, GateTypeOK
    <3>2. balanceOf' = [f EXCEPT ![r.to] = @ + r.amount]
      BY <1>3 DEF Transfer
    <3> HIDE DEF f
    <3>3. balanceOf'[w] = f[w] + in
      BY <2>1, <3>1, <3>2
    <3> QED
      BY <3>1, <3>3
  <2>8. balanceOf[w] >= out
    BY <1>3, <2>6
  <2> HIDE DEF in, out
  <2>9. IsFiniteSet(Nonces)
    BY QuorumAssumption
  <2>10. SumFunctionOnSet(Received(w)', Nonces) = got + in - 0
    <3> DEFINE f == Received(w)
               g == Received(w)'
    <3>1. /\ \A i \in Nonces : f[i] \in Int
          /\ \A i \in Nonces \ {n} : f[i] = g[i]
          /\ g[n] = in /\ f[n] = 0
      BY <2>3, <2>4
    <3> HIDE DEF f, g
    <3>2. SumFunctionOnSet(g, Nonces) = SumFunctionOnSet(f, Nonces) + g[n] - f[n]
      BY <2>2, <2>9, <3>1, SumUpdate
    <3> QED
      BY <3>1, <3>2 DEF f, g
  <2>11. SumFunctionOnSet(Spent(w)', Nonces) = gave + out - 0
    <3> DEFINE f == Spent(w)
               g == Spent(w)'
    <3>1. /\ \A i \in Nonces : f[i] \in Int
          /\ \A i \in Nonces \ {n} : f[i] = g[i]
          /\ g[n] = out /\ f[n] = 0
      BY <2>3, <2>4
    <3> HIDE DEF f, g
    <3>2. SumFunctionOnSet(g, Nonces) = SumFunctionOnSet(f, Nonces) + g[n] - f[n]
      BY <2>2, <2>9, <3>1, SumUpdate
    <3> QED
      BY <3>1, <3>2 DEF f, g
  <2> DEFINE got2  == SumFunctionOnSet(Received(w)', Nonces)
             gave2 == SumFunctionOnSet(Spent(w)', Nonces)
  <2> SUFFICES balanceOf'[w] >= 0 /\ balanceOf'[w] = minted'[w] + got2 - gave2
    OBVIOUS
  <2>12. got2 = got + in - 0 /\ gave2 = gave + out - 0
    BY <2>10, <2>11
  <2> HIDE DEF got, gave, got2, gave2
  <2> QED
    BY <1>1, <2>2, <2>5, <2>6, <2>7, <2>8, <2>12
<1> QED
  BY <1>2, <1>3 DEF settle

------------------------------------------------------------------------------
(* The books of the registry.                                                *)

Held == [o \in Operators |-> Slashable(o)]

StakesInv == ether = treasuryBalance + SumFunctionOnSet(Held, Operators)

LEMMA HeldNumbers ==
    ASSUME RegistryTypeOK
    PROVE  /\ \A o \in Operators : Held[o] \in Int
           /\ SumFunctionOnSet(Held, Operators) \in Int
           /\ ether \in Int /\ treasuryBalance \in Nat
<1>1. \A o \in Operators : Held[o] \in Int
  BY DEF Held, Slashable, RegistryTypeOK, Operator
<1> HIDE DEF Held
<1>2. SumFunctionOnSet(Held, Operators) \in Int
  BY <1>1, RegistryAssumption, SumInt
<1> QED
  BY <1>1, <1>2 DEF RegistryTypeOK

\* One operator's account is written.
LEMMA HeldWritten ==
    ASSUME RegistryTypeOK, NEW o \in Operators, NEW r \in Operator, operators' = [operators EXCEPT ![o] = r]
    PROVE  SumFunctionOnSet(Held', Operators) =
             SumFunctionOnSet(Held, Operators) + (r.stake + r.pendingWithdrawal) - Slashable(o)
<1> DEFINE f == Held
           g == Held'
<1>1. operators \in [Operators -> Operator]
  BY DEF RegistryTypeOK
<1>2. g[o] = r.stake + r.pendingWithdrawal /\ f[o] = Slashable(o)
  BY <1>1 DEF Held, Slashable
<1>3. \A p \in Operators \ {o} : f[p] = g[p]
  BY <1>1 DEF Held, Slashable
<1>4. \A p \in Operators : f[p] \in Int
  BY HeldNumbers
<1>5. g[o] \in Int
  BY <1>2 DEF Operator
<1> HIDE DEF f, g
<1>6. SumFunctionOnSet(g, Operators) = SumFunctionOnSet(f, Operators) + g[o] - f[o]
  BY <1>3, <1>4, <1>5, RegistryAssumption, SumUpdate
<1> QED
  BY <1>2, <1>6 DEF f, g

\* What a call writes is covered by the ether it brings or takes.
Covered(o, r) ==
    ether' = ether + (treasuryBalance' - treasuryBalance) + (r.stake + r.pendingWithdrawal) - Slashable(o)

LEMMA StakesWritten ==
    ASSUME RegistryTypeOK, RegistryTypeOK', StakesInv, NEW o \in Operators, NEW r \in Operator,
           operators' = [operators EXCEPT ![o] = r], Covered(o, r)
    PROVE  StakesInv'
<1> DEFINE before == SumFunctionOnSet(Held, Operators)
           after  == SumFunctionOnSet(Held', Operators)
           now2   == r.stake + r.pendingWithdrawal
           then   == Slashable(o)
<1>1. after = before + now2 - then
  BY HeldWritten
<1>2. /\ before \in Int /\ ether \in Int /\ treasuryBalance \in Nat
      /\ ether' \in Int /\ treasuryBalance' \in Nat
  BY HeldNumbers DEF RegistryTypeOK
<1>3. now2 \in Int /\ then \in Int
  BY DEF Operator, Slashable, RegistryTypeOK
<1>4. ether = treasuryBalance + before /\ ether' = ether + (treasuryBalance' - treasuryBalance) + now2 - then
  BY DEF StakesInv, Covered
<1> HIDE DEF before, after, now2, then
<1>5. after \in Int
  BY <1>1, <1>2, <1>3
<1>6. treasuryBalance \in Int /\ treasuryBalance' \in Int
  BY <1>2
<1>7. ether' = treasuryBalance' + after
  BY <1>1, <1>2, <1>3, <1>4, <1>5, <1>6
<1> QED
  BY <1>7 DEF StakesInv, after

LEMMA StakesStep ==
    ASSUME RegistryTypeOK, RegistryTypeOK', StakesInv, RegistryStep
    PROVE  StakesInv'
<1>1. \A o \in Operators : /\ operators[o] \in Operator
                           /\ operators[o].stake \in Nat /\ operators[o].pendingWithdrawal \in Nat
                           /\ Slashable(o) = operators[o].stake + operators[o].pendingWithdrawal
  BY DEF RegistryTypeOK, Operator, Slashable
<1>2. /\ ether \in Int /\ treasuryBalance \in Nat /\ SumFunctionOnSet(Held, Operators) \in Int
      /\ ether = treasuryBalance + SumFunctionOnSet(Held, Operators)
  BY HeldNumbers DEF StakesInv
<1>3. ASSUME NEW o \in Operators, NEW cred \in BOOLEAN,
             operators' = [operators EXCEPT ![o].credentialed = cred], UNCHANGED <<treasuryBalance, ether>>
      PROVE  StakesInv'
  <2> DEFINE r == [operators[o] EXCEPT !.credentialed = cred]
  <2>1. r \in Operator /\ r.stake = operators[o].stake /\ r.pendingWithdrawal = operators[o].pendingWithdrawal
    BY <1>1 DEF Operator
  <2>2. operators' = [operators EXCEPT ![o] = r]
    BY <1>3
  <2> HIDE DEF r
  <2>3. Covered(o, r)
    BY <1>1, <1>2, <1>3, <2>1 DEF Covered
  <2> QED
    BY <2>1, <2>2, <2>3, StakesWritten
<1>4. ASSUME NEW o \in Operators, withdraw(o)
      PROVE  StakesInv'
  <2> DEFINE r == [operators[o] EXCEPT !.pendingWithdrawal = 0]
  <2>1. r \in Operator /\ r.stake = operators[o].stake /\ r.pendingWithdrawal = 0
    BY <1>1 DEF Operator
  <2>2. /\ operators' = [operators EXCEPT ![o] = r] /\ treasuryBalance' = treasuryBalance
        /\ ether' = ether - operators[o].pendingWithdrawal
    BY <1>4 DEF withdraw
  <2> HIDE DEF r
  <2>3. Covered(o, r)
    BY <1>1, <1>2, <2>1, <2>2 DEF Covered
  <2> QED
    BY <2>1, <2>2, <2>3, StakesWritten
<1>5. ASSUME NEW o \in Operators, NEW v \in Amounts, topUp(o, v)
      PROVE  StakesInv'
  <2> DEFINE r == [operators[o] EXCEPT !.stake = @ + v]
  <2>0. v \in Nat
    BY ConstantTypes
  <2>1. /\ r \in Operator /\ r.stake = operators[o].stake + v
        /\ r.pendingWithdrawal = operators[o].pendingWithdrawal
    BY <1>1, <2>0 DEF Operator
  <2>2. /\ operators' = [operators EXCEPT ![o] = r] /\ treasuryBalance' = treasuryBalance
        /\ ether' = ether + v
    BY <1>5 DEF topUp
  <2> HIDE DEF r
  <2>3. Covered(o, r)
    BY <1>1, <1>2, <2>0, <2>1, <2>2 DEF Covered
  <2> QED
    BY <2>1, <2>2, <2>3, StakesWritten
<1>6. ASSUME NEW o \in Operators, NEW v \in Amounts, requestWithdraw(o, v)
      PROVE  StakesInv'
  <2> DEFINE r == [operators[o] EXCEPT !.stake = @ - v, !.pendingWithdrawal = @ + v,
                                       !.withdrawNotBefore = now + withdrawDelay]
  <2>0. v \in Nat /\ v <= operators[o].stake /\ now + withdrawDelay \in Nat
    BY <1>6, ConstantTypes DEF requestWithdraw, RegistryTypeOK
  <2>1. /\ r \in Operator /\ r.stake = operators[o].stake - v
        /\ r.pendingWithdrawal = operators[o].pendingWithdrawal + v
    <3>1. operators[o].stake - v \in Nat /\ operators[o].pendingWithdrawal + v \in Nat
      BY <1>1, <2>0
    <3> QED
      BY <1>1, <2>0, <3>1 DEF Operator
  <2>2. /\ operators' = [operators EXCEPT ![o] = r] /\ treasuryBalance' = treasuryBalance
        /\ ether' = ether
    BY <1>6 DEF requestWithdraw
  <2> HIDE DEF r
  <2>3. Covered(o, r)
    BY <1>1, <1>2, <2>0, <2>1, <2>2 DEF Covered
  <2> QED
    BY <2>1, <2>2, <2>3, StakesWritten
<1>7. ASSUME UNCHANGED operators, NEW v \in Int, treasuryBalance' = treasuryBalance + v, ether' = ether + v
      PROVE  StakesInv'
  <2>1. Held' = Held
    BY <1>7 DEF Held, Slashable
  <2> HIDE DEF Held
  <2> QED
    BY <1>2, <1>7, <2>1 DEF StakesInv
<1>8. ASSUME NEW o \in Operators, NEW a \in AgentIds, registerAgent(o, a)
      PROVE  StakesInv'
  BY <1>7, <1>8, ConstantTypes DEF registerAgent
<1>9. CASE payTreasury
  <2>1. /\ operators' = operators /\ -treasuryBalance \in Int
        /\ treasuryBalance' = treasuryBalance + (-treasuryBalance) /\ ether' = ether + (-treasuryBalance)
    BY <1>2, <1>9 DEF payTreasury
  <2> QED
    BY <1>7, <2>1
<1>10. CASE Tick
  <2>1. 0 \in Int /\ treasuryBalance' = treasuryBalance + 0 /\ ether' = ether + 0 /\ operators' = operators
    BY <1>2, <1>10 DEF Tick
  <2> QED
    BY <1>7, <2>1
<1> QED
  BY <1>3, <1>4, <1>5, <1>6, <1>8, <1>9, <1>10 DEF RegistryStep, issueCredential, revokeCredential

LEMMA StakesSlashed ==
    ASSUME RegistryTypeOK, RegistryTypeOK', StakesInv, NEW a \in AgentIds, slash(a)
    PROVE  StakesInv'
<1> DEFINE o == agents[a]
           r == [operators[o] EXCEPT !.stake = @ - FromStake(o),
                                     !.pendingWithdrawal = @ - FromPending(o),
                                     !.violations = @ + 1]
           s == FromStake(o)
           p == FromPending(o)
<1>1. o \in Operators
  BY DEF slash, RegistryTypeOK
<1>2. /\ s \in Nat /\ s <= operators[o].stake
      /\ p \in Nat /\ p <= operators[o].pendingWithdrawal
  BY <1>1, SlashAmounts
<1>3. /\ operators[o] \in Operator
      /\ operators[o].stake \in Nat /\ operators[o].pendingWithdrawal \in Nat
      /\ Slashable(o) = operators[o].stake + operators[o].pendingWithdrawal
  BY <1>1 DEF RegistryTypeOK, Operator, Slashable
<1>4. /\ r \in Operator /\ r.stake = operators[o].stake - s
      /\ r.pendingWithdrawal = operators[o].pendingWithdrawal - p
  <2>1. /\ operators[o].stake - s \in Nat
        /\ operators[o].pendingWithdrawal - p \in Nat
        /\ operators[o].violations + 1 \in Nat
    BY <1>2, <1>3 DEF Operator
  <2> QED
    BY <1>3, <2>1 DEF Operator
<1>5. /\ operators' = [operators EXCEPT ![o] = r]
      /\ treasuryBalance' = treasuryBalance + s + p /\ ether' = ether
  BY DEF slash
<1>6. ether \in Int /\ treasuryBalance \in Nat
  BY HeldNumbers
<1> HIDE DEF r, s, p, o
<1>7. Covered(o, r)
  BY <1>2, <1>3, <1>4, <1>5, <1>6 DEF Covered
<1> QED
  BY <1>1, <1>4, <1>5, <1>7, StakesWritten

LEMMA BooksStep ==
    ASSUME GInv, GInv', LedgerInv, StakesInv, [GateNext]_<<registryVars, gateVars>>
    PROVE  LedgerInv' /\ StakesInv'
<1>0. RegistryTypeOK /\ RegistryTypeOK'
  BY DEF GInv, GateTypeOK
<1>1. UNCHANGED registryVars => StakesInv'
  BY DEF registryVars, StakesInv, Held, Slashable
<1>2. UNCHANGED <<ledger, bundles>> => LedgerInv'
  BY LedgerKept DEF ledger
<1>3. CASE RegistryStep /\ UNCHANGED gateVars
  BY <1>0, <1>2, <1>3, StakesStep DEF gateVars, ledger
<1>4. CASE UNCHANGED <<registryVars, gateVars>>
  BY <1>1, <1>2, <1>4 DEF gateVars, ledger
<1>5. ASSUME NEW n \in Nonces, NEW a \in AgentIds, NEW from \in Wallets, NEW to \in Wallets,
             NEW amount \in Transfers, NEW decision \in RuleDecisions, NEW fault \in Faults \cup {"none"},
             post(n, a, from, to, amount, decision, fault)
      PROVE  LedgerInv' /\ StakesInv'
  <2>1. \A i \in Nonces : bundles[i] # NoBundle => bundles'[i] = bundles[i]
    BY <1>5 DEF post, GInv, GateTypeOK
  <2> QED
    BY <1>1, <1>5, <2>1, LedgerKept DEF post, ledger
<1>6. ASSUME NEW n \in Nonces, settle(n)
      PROVE  LedgerInv' /\ StakesInv'
  <2>1. bundles[n].request.agentId \in AgentIds
    BY <1>6 DEF settle, GInv, GateTypeOK, Bundle, Request
  <2> QED
    BY <1>0, <1>1, <1>6, <2>1, LedgerSettled, StakesSlashed DEF settle
<1>7. ASSUME NEW w \in Wallets, NEW v \in Transfers, mint(w, v)
      PROVE  LedgerInv' /\ StakesInv'
  BY <1>1, <1>7, LedgerMinted DEF mint
<1>8. ASSUME NEW w \in Wallets, NEW a \in AgentIds, NEW allowed \in BOOLEAN, setMandate(w, a, allowed)
      PROVE  LedgerInv' /\ StakesInv'
  BY <1>1, <1>8, LedgerKept DEF setMandate
<1>9. ASSUME NEW v \in Validators, importBlocks(v) \/ \E i \in Nonces : attest(v, i)
      PROVE  LedgerInv' /\ StakesInv'
  BY <1>1, <1>2, <1>9 DEF importBlocks, attest
<1> QED
  BY <1>3, <1>4, <1>5, <1>6, <1>7, <1>8, <1>9 DEF GateNext, GateStep

LEMMA BooksBegin == GateInit => LedgerInv /\ StakesInv
<1> SUFFICES ASSUME GateInit PROVE LedgerInv /\ StakesInv
  OBVIOUS
<1>1. ASSUME NEW w \in Wallets
      PROVE  SumFunctionOnSet(Received(w), Nonces) = 0 /\ SumFunctionOnSet(Spent(w), Nonces) = 0
  <2>1. \A i \in Nonces : Received(w)[i] = 0 /\ Spent(w)[i] = 0
    BY DEF GateInit, Received, Spent
  <2> HIDE DEF Received, Spent
  <2> QED
    BY <2>1, QuorumAssumption, SumZero
<1>2. SumFunctionOnSet(Held, Operators) = 0
  <2>1. \A o \in Operators : Held[o] = 0
    BY DEF GateInit, RegistryInit, Held, Slashable
  <2> QED
    BY <2>1, RegistryAssumption, SumZero
<1> QED
  BY <1>1, <1>2 DEF GateInit, RegistryInit, LedgerInv, StakesInv

LEMMA BooksInvariance == GateSpec => [](GInv /\ LedgerInv /\ StakesInv)
BY BooksBegin, BooksStep, Invariance, PTL DEF GateSpec

\* The sums over all requests are those over the executed ones.
LEMMA MovedIsSum ==
    ASSUME GInv, NEW w \in Wallets, NEW f, NEW P \in SUBSET Nonces,
           \A i \in P : f[i] \in Nat /\ f[i] = bundles[i].request.amount,
           \A i \in Nonces \ P : f[i] = 0
    PROVE  SumFunction([i \in P |-> bundles[i].request.amount]) = SumFunctionOnSet(f, Nonces)
<1> DEFINE g == [i \in P |-> bundles[i].request.amount]
<1>1. DOMAIN g = P /\ \A i \in P : g[i] \in Int /\ f[i] = g[i]
  OBVIOUS
<1> HIDE DEF g
<1>2. SumFunctionOnSet(g, P) = SumFunctionOnSet(f, Nonces)
  BY <1>1, QuorumAssumption, SumPart
<1> QED
  BY <1>1, <1>2 DEF SumFunction, g

\* No money appears or vanishes on either side of the gate, for any number of operators, wallets
\* and overlapping requests: every executed request moves its amount once, from a wallet that has
\* it, and what slash takes from stakes and pending withdrawals the treasury gets.
THEOREM BooksHold == GateSpec => []BooksBalance
<1>1. ASSUME GInv, LedgerInv
      PROVE  LedgerMatchesOutcomes
  <2> SUFFICES ASSUME NEW w \in Wallets
               PROVE  LET Moved(S) == SumFunction([i \in S |-> bundles[i].request.amount])
                          executed == {i \in Nonces : outcome[i] = "Executed"}
                      IN /\ balanceOf[w] >= 0
                         /\ balanceOf[w] = minted[w] + Moved({i \in executed : bundles[i].request.to = w})
                                                     - Moved({i \in executed : bundles[i].request.from = w})
    BY DEF LedgerMatchesOutcomes
  <2> DEFINE In  == {i \in {j \in Nonces : outcome[j] = "Executed"} : bundles[i].request.to = w}
             Out == {i \in {j \in Nonces : outcome[j] = "Executed"} : bundles[i].request.from = w}
  <2>1. SumFunction([i \in In |-> bundles[i].request.amount]) = SumFunctionOnSet(Received(w), Nonces)
    <3>1. /\ In \in SUBSET Nonces
          /\ \A i \in In : Received(w)[i] \in Nat /\ Received(w)[i] = bundles[i].request.amount
          /\ \A i \in Nonces \ In : Received(w)[i] = 0
      BY <1>1, ExecutedIsPosted DEF Received
    <3> HIDE DEF In, Received
    <3> QED
      BY <1>1, <3>1, MovedIsSum
  <2>2. SumFunction([i \in Out |-> bundles[i].request.amount]) = SumFunctionOnSet(Spent(w), Nonces)
    <3>1. /\ Out \in SUBSET Nonces
          /\ \A i \in Out : Spent(w)[i] \in Nat /\ Spent(w)[i] = bundles[i].request.amount
          /\ \A i \in Nonces \ Out : Spent(w)[i] = 0
      BY <1>1, ExecutedIsPosted DEF Spent
    <3> HIDE DEF Out, Spent
    <3> QED
      BY <1>1, <3>1, MovedIsSum
  <2> QED
    BY <1>1, <2>1, <2>2 DEF LedgerInv
<1>2. StakesInv => RegistrySolvent
  BY DEF StakesInv, RegistrySolvent, Held, SumFunction
<1>3. GInv /\ LedgerInv /\ StakesInv => BooksBalance
  BY <1>1, <1>2 DEF BooksBalance
<1> QED
  BY <1>3, BooksInvariance, PTL

------------------------------------------------------------------------------
(* The stake behind a request in time.                                       *)

\* What pays the next slash of o is staked, or on its way out and not out before t.
Enough(o, t) ==
    \/ operators[o].stake >= nextSlash(o)
    \/ Slashable(o) >= nextSlash(o) /\ operators[o].withdrawNotBefore >= t

\* A bundle was prepared under a step of the escalation that had been reached, or off by one.
PreparedUnder(b, k) ==
    \/ b.statement.slash = baseSlash * (1 + k)
    \/ baseSlash >= 2 /\ b.statement.slash = baseSlash * (1 + k) + 1

PolicyWasRead(i) ==
    /\ bundles[i].policyTime <= now
    /\ \E k \in Nat : k <= operators[OperatorOf(i)].violations /\ PreparedUnder(bundles[i], k)

StillPaid(i) ==
    /\ bundles[i].covered /\ StillNext(i)
    /\ now < bundles[i].policyTime + withdrawDelay
    => Enough(OperatorOf(i), bundles[i].policyTime + withdrawDelay)

CoverInv == \A i \in Nonces : bundles[i] # NoBundle => PolicyWasRead(i) /\ StillPaid(i)

\* While an operator is not slashed, what was enough stays enough.
Keeps(o) ==
    \A t \in Nat :
        /\ operators'[o].violations = operators[o].violations
        /\ now' < t /\ t <= now + withdrawDelay /\ Enough(o, t)
        => Enough(o, t)'

LEMMA KeepsSame ==
    ASSUME NEW o \in Operators, operators'[o].stake = operators[o].stake,
           operators'[o].pendingWithdrawal = operators[o].pendingWithdrawal,
           operators'[o].withdrawNotBefore = operators[o].withdrawNotBefore
    PROVE  Keeps(o)
BY DEF Keeps, Enough, nextSlash, Slashable

LEMMA KeepsWithdraw ==
    ASSUME RegistryTypeOK, NEW o \in Operators, withdraw(o)
    PROVE  Keeps(o)
<1>1. /\ operators[o] \in Operator /\ now \in Nat /\ now' = now
      /\ now >= operators[o].withdrawNotBefore
      /\ operators'[o] = [operators[o] EXCEPT !.pendingWithdrawal = 0]
  BY DEF withdraw, RegistryTypeOK
<1>2. operators'[o].stake = operators[o].stake /\ operators[o].withdrawNotBefore \in Nat
  BY <1>1 DEF Operator
<1> SUFFICES ASSUME NEW t \in Nat, operators'[o].violations = operators[o].violations,
                    now' < t, Enough(o, t)
             PROVE  Enough(o, t)'
  BY DEF Keeps
<1>3. ~ (operators[o].withdrawNotBefore >= t)
  BY <1>1, <1>2
<1> QED
  BY <1>2, <1>3 DEF Enough, nextSlash

LEMMA KeepsTopUp ==
    ASSUME RegistryTypeOK, NEW o \in Operators, NEW v \in Amounts, topUp(o, v)
    PROVE  Keeps(o)
<1>1. /\ operators[o] \in Operator /\ operators'[o] = [operators[o] EXCEPT !.stake = @ + v]
  BY DEF topUp, RegistryTypeOK
<1>2. /\ operators[o].stake \in Nat /\ operators[o].pendingWithdrawal \in Nat /\ v \in Nat
      /\ operators'[o].stake = operators[o].stake + v
      /\ operators'[o].pendingWithdrawal = operators[o].pendingWithdrawal
      /\ operators'[o].withdrawNotBefore = operators[o].withdrawNotBefore
  BY <1>1, ConstantTypes DEF Operator
<1>3. nextSlash(o) \in Nat
  BY SlashAmounts
<1> SUFFICES ASSUME NEW t \in Nat, operators'[o].violations = operators[o].violations, Enough(o, t)
             PROVE  Enough(o, t)'
  BY DEF Keeps
<1>4. nextSlash(o)' = nextSlash(o)
  BY DEF nextSlash
<1> HIDE DEF nextSlash
<1> QED
  BY <1>2, <1>3, <1>4 DEF Enough, Slashable

LEMMA KeepsRequest ==
    ASSUME RegistryTypeOK, NEW o \in Operators, NEW v \in Amounts, requestWithdraw(o, v)
    PROVE  Keeps(o)
<1>1. /\ operators[o] \in Operator /\ v <= operators[o].stake
      /\ operators'[o] = [operators[o] EXCEPT !.stake = @ - v, !.pendingWithdrawal = @ + v,
                                              !.withdrawNotBefore = now + withdrawDelay]
  BY DEF requestWithdraw, RegistryTypeOK
<1>2. /\ operators[o].stake \in Nat /\ operators[o].pendingWithdrawal \in Nat /\ v \in Nat
      /\ operators'[o].stake = operators[o].stake - v
      /\ operators'[o].pendingWithdrawal = operators[o].pendingWithdrawal + v
      /\ operators'[o].withdrawNotBefore = now + withdrawDelay
  BY <1>1, ConstantTypes DEF Operator
<1>3. nextSlash(o) \in Nat
  BY SlashAmounts
<1> SUFFICES ASSUME NEW t \in Nat, operators'[o].violations = operators[o].violations,
                    t <= now + withdrawDelay, Enough(o, t)
             PROVE  Enough(o, t)'
  BY DEF Keeps
<1>4. nextSlash(o)' = nextSlash(o)
  BY DEF nextSlash
<1>5. now + withdrawDelay >= t
  BY ConstantTypes DEF RegistryTypeOK
<1>6. Slashable(o)' = Slashable(o)
  BY <1>2 DEF Slashable
<1>7. Slashable(o) >= nextSlash(o)
  BY <1>2, <1>3 DEF Enough, Slashable
<1> QED
  BY <1>2, <1>4, <1>5, <1>6, <1>7 DEF Enough

LEMMA RegistryKeeps ==
    ASSUME RegistryTypeOK, RegistryStep, NEW o \in Operators
    PROVE  Keeps(o) /\ now' >= now
<1>0. operators \in [Operators -> Operator] /\ operators[o] \in Operator /\ now \in Nat
  BY DEF RegistryTypeOK
<1>1. ASSUME NEW p \in Operators,
             \/ issueCredential(p) \/ revokeCredential(p) \/ withdraw(p)
             \/ \E v \in Amounts : topUp(p, v) \/ requestWithdraw(p, v)
      PROVE  Keeps(o) /\ now' >= now
  <2>0. now' = now
    BY <1>1 DEF issueCredential, revokeCredential, withdraw, topUp, requestWithdraw
  <2>1. now' >= now
    BY <1>0, <2>0
  <2>2. CASE o = p
    <3>1. issueCredential(p) \/ revokeCredential(p) => Keeps(o)
      BY <1>0, <2>2, KeepsSame DEF issueCredential, revokeCredential, Operator
    <3> QED
      BY <1>1, <2>1, <2>2, <3>1, KeepsWithdraw, KeepsTopUp, KeepsRequest
  <2>3. CASE o # p
    <3>1. operators'[o] = operators[o]
      BY <1>0, <1>1, <2>3 DEF issueCredential, revokeCredential, withdraw, topUp, requestWithdraw
    <3> QED
      BY <2>1, <3>1, KeepsSame
  <2> QED
    BY <2>2, <2>3
<1>2. CASE UNCHANGED operators /\ now' >= now
  BY <1>2, KeepsSame
<1>3. ASSUME NEW p \in Operators, NEW a \in AgentIds, registerAgent(p, a)
      PROVE  UNCHANGED operators /\ now' >= now
  BY <1>0, <1>3 DEF registerAgent
<1>4. payTreasury \/ Tick => UNCHANGED operators /\ now' >= now
  BY <1>0 DEF payTreasury, Tick
<1> QED
  BY <1>1, <1>2, <1>3, <1>4 DEF RegistryStep

\* Either i's operator has not been slashed since, or a slash costs nothing.
LEMMA NoSlashSince ==
    ASSUME NEW b, NEW j \in Nat, NEW k \in Nat, j <= k, NEW n \in Nat, k <= n, PreparedUnder(b, j),
           b.statement.slash = baseSlash * (1 + n)
    PROVE  k = n \/ baseSlash = 0
<1> SUFFICES ASSUME baseSlash # 0 PROVE k = n
  OBVIOUS
<1>1. baseSlash \in Nat
  BY ConstantTypes
<1>2. CASE b.statement.slash = baseSlash * (1 + j)
  <2>1. CASE j + 1 <= n
    <3>1. baseSlash * (1 + (j + 1)) <= baseSlash * (1 + n)
      BY <1>1, <2>1, SlashGrows
    <3>2. baseSlash * (1 + (j + 1)) = baseSlash * (1 + j) + baseSlash
      BY <1>1
    <3>3. baseSlash * (1 + j) \in Nat /\ baseSlash * (1 + n) \in Nat
      BY <1>1
    <3>4. baseSlash * (1 + j) = baseSlash * (1 + n)
      BY <1>2
    <3> QED
      BY <1>1, <3>1, <3>2, <3>3, <3>4
  <2> QED
    BY <2>1
<1>3. CASE baseSlash >= 2 /\ b.statement.slash = baseSlash * (1 + j) + 1
  BY <1>1, <1>3, StaleIsNoStep
<1> QED
  BY <1>2, <1>3 DEF PreparedUnder

\* A step that posts nothing keeps what is known of the bundles posted before.
LEMMA CoverKept ==
    ASSUME GInv, GInv', now' >= now, RegistryGrows, \A o \in Operators : Keeps(o),
           NEW i \in Nonces, bundles[i] # NoBundle, bundles'[i] = bundles[i],
           PolicyWasRead(i), StillPaid(i)
    PROVE  PolicyWasRead(i)' /\ StillPaid(i)'
<1> SUFFICES ASSUME NEW b, b = bundles[i], NEW o, o = OperatorOf(i),
                    NEW t, t = b.policyTime + withdrawDelay
             PROVE  PolicyWasRead(i)' /\ StillPaid(i)'
  OBVIOUS
<1>1. /\ b \in Bundle /\ b.policyTime \in Nat /\ o \in Operators
      /\ operators[o].violations \in Nat /\ operators'[o].violations \in Nat
      /\ operators'[o].violations >= operators[o].violations
      /\ now \in Nat /\ now' \in Nat
  BY DEF GInv, GateTypeOK, RegistryTypeOK, Operator, PostedInv, OperatorOf, Bundle, RegistryGrows
<1>2. OperatorOf(i)' = o /\ bundles'[i] = b
  BY <1>1, RegistryAssumption DEF OperatorOf, RegistryGrows, Bundle, Request
<1>3. b.policyTime <= now
  BY DEF PolicyWasRead
<1>4. PICK j \in Nat : j <= operators[o].violations /\ PreparedUnder(b, j)
  BY DEF PolicyWasRead
<1>5. ASSUME b.covered, b.statement.slash = nextSlash(o)', now' < t
      PROVE  Enough(o, t)'
  <2>1. b.statement.slash = baseSlash * (1 + operators'[o].violations)
    BY <1>5 DEF nextSlash
  <2>2. CASE operators'[o].violations = operators[o].violations
    <3>1. b.statement.slash = nextSlash(o) /\ now < t
      BY <1>1, <1>5, <2>1, <2>2, ConstantTypes DEF nextSlash
    <3>2. Enough(o, t)
      BY <1>2, <1>5, <3>1 DEF StillPaid, StillNext
    <3>3. t \in Nat /\ t <= now + withdrawDelay
      BY <1>1, <1>3, ConstantTypes
    <3>4. Keeps(o)
      BY <1>1
    <3>5. PICK u \in Nat : u = t
      BY <3>3
    <3>6. Enough(o, u) /\ now' < u /\ u <= now + withdrawDelay
      BY <1>5, <3>2, <3>3, <3>5
    <3>7. Enough(o, u)'
      BY <2>2, <3>4, <3>6 DEF Keeps
    <3> QED
      BY <1>2, <3>5, <3>7 DEF Enough
  <2>3. CASE operators'[o].violations # operators[o].violations
    <3>1. baseSlash = 0
      BY <1>1, <1>4, <2>1, <2>3, NoSlashSince
    <3>2. nextSlash(o)' = 0 /\ operators'[o].stake \in Nat
      BY <1>1, <3>1 DEF nextSlash, GInv, GateTypeOK, RegistryTypeOK, Operator
    <3> QED
      BY <3>2 DEF Enough
  <2> QED
    BY <2>2, <2>3
<1>6. j <= operators'[o].violations /\ b.policyTime <= now'
  BY <1>1, <1>3, <1>4
<1> QED
  BY <1>2, <1>4, <1>5, <1>6 DEF PolicyWasRead, StillPaid, StillNext, PreparedUnder, Enough

LEMMA CoverPosted ==
    ASSUME GInv, GInv', CoverInv, NEW n \in Nonces, NEW a \in AgentIds, NEW from \in Wallets,
           NEW to \in Wallets, NEW amount \in Transfers, NEW decision \in RuleDecisions,
           NEW fault \in Faults \cup {"none"}, post(n, a, from, to, amount, decision, fault)
    PROVE  PolicyWasRead(n)' /\ StillPaid(n)'
<1> SUFFICES ASSUME NEW o, o = agents[a], NEW k, k = operators[o].violations,
                    NEW b, b = Prepare(a, from, to, amount, decision, fault)
             PROVE  PolicyWasRead(n)' /\ StillPaid(n)'
  OBVIOUS
<1>1. /\ agents[a] # NoOperator /\ bundles' = [bundles EXCEPT ![n] = b]
      /\ UNCHANGED <<now, operators, agents>>
  BY DEF post, registryVars
<1>2. bundles'[n] = b /\ now \in Nat
  BY <1>1 DEF GInv, GateTypeOK, RegistryTypeOK
<1>3. b.request.agentId = a /\ o \in Operators /\ k \in Nat
  BY <1>1, PreparedBundle DEF GInv, GateTypeOK, RegistryTypeOK, Operator
<1>4. /\ b.policyTime = now /\ b.covered = isCovered(a)
      /\ b.statement.slash = nextSlash(o) + (IF fault = "stale_slash" THEN 1 ELSE 0)
  BY DEF Prepare
<1>5. OperatorOf(n)' = o
  BY <1>1, <1>2, <1>3 DEF OperatorOf
<1>6. PreparedUnder(b, k)
  <2>1. fault = "stale_slash" => baseSlash >= 2
    BY FaultAssumption
  <2>2. nextSlash(o) = baseSlash * (1 + k) /\ baseSlash * (1 + k) \in Nat
    BY <1>3, ConstantTypes DEF nextSlash
  <2> QED
    BY <1>4, <2>1, <2>2 DEF PreparedUnder
<1>7. PolicyWasRead(n)'
  BY <1>1, <1>2, <1>3, <1>4, <1>5, <1>6 DEF PolicyWasRead, PreparedUnder
<1>8. ASSUME b.covered
      PROVE  operators[o].stake >= nextSlash(o)
  <2>1. operators[o].stake >= requiredStake(o)
    BY <1>4, <1>8 DEF isCovered
  <2>2. operators[o].stake \in Nat /\ nextSlash(o) \in Nat /\ minStake \in Nat
    BY <1>3, SlashAmounts, ConstantTypes DEF GInv, GateTypeOK, RegistryTypeOK, Operator
  <2> HIDE DEF nextSlash
  <2> QED
    BY <2>1, <2>2 DEF requiredStake, Greater
<1>9. StillPaid(n)'
  BY <1>1, <1>2, <1>5, <1>8 DEF StillPaid, Enough, nextSlash
<1> QED
  BY <1>7, <1>9

LEMMA CoverStep ==
    ASSUME GInv, GInv', CoverInv, [GateNext]_<<registryVars, gateVars>>
    PROVE  CoverInv'
<1>1. now \in Nat /\ RegistryTypeOK
  BY DEF GInv, GateTypeOK, RegistryTypeOK
<1>2. ASSUME now' >= now, RegistryGrows, \A o \in Operators : Keeps(o),
             NEW i \in Nonces, bundles[i] # NoBundle, bundles'[i] = bundles[i]
      PROVE  PolicyWasRead(i)' /\ StillPaid(i)'
  BY <1>2, CoverKept DEF CoverInv
<1>3. UNCHANGED registryVars => now' >= now /\ RegistryGrows /\ \A o \in Operators : Keeps(o)
  <2>1. UNCHANGED registryVars => operators' = operators /\ agents' = agents /\ now' = now
    BY DEF registryVars
  <2>2. \A o \in Operators : operators[o].violations \in Nat
    BY <1>1 DEF RegistryTypeOK, Operator
  <2> QED
    BY <1>1, <2>1, <2>2, KeepsSame DEF RegistryGrows
<1>4. CASE RegistryStep /\ UNCHANGED gateVars
  <2>1. bundles' = bundles
    BY <1>4 DEF gateVars
  <2>2. RegistryGrows /\ \A o \in Operators : Keeps(o)
    BY <1>1, <1>4, RegistryKeeps, RegistryStepTypes
  <2>3. now' >= now
    <3>1. Tick \/ payTreasury => now' >= now
      BY <1>1 DEF Tick, payTreasury
    <3>2. ~ Tick => now' = now
      BY <1>4 DEF RegistryStep, issueCredential, revokeCredential, withdraw, registerAgent, topUp,
                  requestWithdraw, payTreasury
    <3> QED
      BY <1>1, <3>1, <3>2
  <2> QED
    BY <1>2, <2>1, <2>2, <2>3 DEF CoverInv
<1>5. CASE UNCHANGED <<registryVars, bundles>>
  BY <1>2, <1>3, <1>5 DEF CoverInv
<1>6. ASSUME NEW n \in Nonces, NEW a \in AgentIds, NEW from \in Wallets, NEW to \in Wallets,
             NEW amount \in Transfers, NEW decision \in RuleDecisions, NEW fault \in Faults \cup {"none"},
             post(n, a, from, to, amount, decision, fault)
      PROVE  CoverInv'
  <2>1. UNCHANGED registryVars /\ \A i \in Nonces : i # n => bundles'[i] = bundles[i]
    BY <1>6 DEF post, GInv, GateTypeOK
  <2>2. PolicyWasRead(n)' /\ StillPaid(n)'
    BY <1>6, CoverPosted
  <2> SUFFICES ASSUME NEW i \in Nonces, bundles'[i] # NoBundle
               PROVE  PolicyWasRead(i)' /\ StillPaid(i)'
    BY DEF CoverInv
  <2>3. CASE i = n
    BY <2>2, <2>3
  <2>4. CASE i # n
    BY <1>2, <1>3, <2>1, <2>4
  <2> QED
    BY <2>3, <2>4
<1>7. ASSUME NEW a \in AgentIds, slash(a), UNCHANGED bundles
      PROVE  CoverInv'
  <2>1. /\ RegistryGrows
        /\ \A o \in Operators : operators'[o].violations =
              operators[o].violations + (IF o = agents[a] THEN 1 ELSE 0)
    BY <1>1, <1>7, SlashTypes
  <2>2. now' >= now
    BY <1>1, <1>7 DEF slash
  <2>3. ASSUME NEW o \in Operators
        PROVE  Keeps(o)
    <3>1. CASE o = agents[a]
      <4>1. operators[o].violations \in Nat /\ operators'[o].violations = operators[o].violations + 1
        BY <1>1, <2>1, <3>1 DEF RegistryTypeOK, Operator
      <4> QED
        BY <4>1 DEF Keeps
    <3>2. CASE o # agents[a]
      <4>1. operators'[o] = operators[o]
        BY <1>1, <1>7, <3>2 DEF slash, RegistryTypeOK
      <4> QED
        BY <4>1, KeepsSame
    <3> QED
      BY <3>1, <3>2
  <2> QED
    BY <1>2, <1>7, <2>1, <2>2, <2>3 DEF CoverInv
<1>8. ASSUME NEW n \in Nonces, settle(n)
      PROVE  CoverInv'
  <2>1. bundles[n].request.agentId \in AgentIds
    BY <1>8 DEF settle, GInv, GateTypeOK, Bundle, Request
  <2> QED
    BY <1>5, <1>7, <1>8, <2>1 DEF settle
<1> QED
  BY <1>4, <1>5, <1>6, <1>8
     DEF GateNext, GateStep, mint, setMandate, importBlocks, attest, ledger, gateVars

LEMMA CoverInvariance == GateSpec => [](GInv /\ CoverInv)
<1>1. GateInit => CoverInv
  BY DEF GateInit, CoverInv
<1>2. GInv /\ GInv' /\ CoverInv /\ [GateNext]_<<registryVars, gateVars>> => CoverInv'
  BY CoverStep
<1> QED
  BY <1>1, <1>2, Invariance, PTL DEF GateSpec

\* Where the stake is enough, slash collects the whole of it.
LEMMA EnoughIsCollected ==
    ASSUME RegistryTypeOK, NEW o \in Operators, NEW t, Enough(o, t)
    PROVE  FromStake(o) + FromPending(o) = nextSlash(o)
<1>1. operators[o].stake \in Nat /\ operators[o].pendingWithdrawal \in Nat /\ nextSlash(o) \in Nat
  BY SlashAmounts DEF RegistryTypeOK, Operator
<1>2. operators[o].stake + operators[o].pendingWithdrawal >= nextSlash(o)
  BY <1>1 DEF Enough, Slashable
<1> HIDE DEF nextSlash
<1> QED
  BY <1>1, <1>2 DEF FromStake, FromPending, Lesser

\* A violation that settles before the withdrawal delay has run since its policy was read, by an
\* operator covered then and not slashed since, brings the treasury the whole slash: whatever is
\* withdrawn meanwhile is still pending (requestWithdraw, withdraw, slash, settle).
THEOREM InTimePaysSlash == GateSpec => BlockedInTimePaysSlash
<1> DEFINE Pays == \A i \in Nonces :
                     /\ outcome[i] # "Blocked" /\ outcome'[i] = "Blocked"
                     /\ bundles[i].covered /\ StillNext(i)
                     /\ now < bundles[i].policyTime + withdrawDelay
                     => treasuryBalance' - treasuryBalance = nextSlash(OperatorOf(i))
<1>1. ASSUME GInv, CoverInv, GateNext, outcome' # outcome
      PROVE  Pays
  <2>1. PICK n \in Nonces : settle(n)
    BY <1>1 DEF GateNext, GateStep, mint, setMandate, post, importBlocks, attest, ledger, gateVars
  <2> SUFFICES ASSUME NEW i \in Nonces, outcome[i] # "Blocked", outcome'[i] = "Blocked",
                      bundles[i].covered, StillNext(i), now < bundles[i].policyTime + withdrawDelay,
                      NEW o, o = OperatorOf(i)
               PROVE  treasuryBalance' - treasuryBalance = nextSlash(o)
    OBVIOUS
  <2>2. i = n /\ slash(bundles[i].request.agentId) /\ bundles[i] # NoBundle
    BY <1>1, <2>1 DEF settle, GInv, GateTypeOK
  <2>3. o \in Operators /\ RegistryTypeOK
    BY <1>1, <2>2 DEF GInv, PostedInv, OperatorOf, GateTypeOK
  <2>4. Enough(o, bundles[i].policyTime + withdrawDelay)
    BY <1>1, <2>2 DEF CoverInv, StillPaid
  <2>5. FromStake(o) + FromPending(o) = nextSlash(o)
    BY <2>3, <2>4, EnoughIsCollected
  <2>6. treasuryBalance' = treasuryBalance + FromStake(o) + FromPending(o)
    BY <2>2 DEF slash, OperatorOf
  <2>7. treasuryBalance \in Nat /\ FromStake(o) \in Nat /\ FromPending(o) \in Nat
    BY <2>3, SlashAmounts DEF RegistryTypeOK
  <2> QED
    BY <2>5, <2>6, <2>7
<1>2. GInv /\ CoverInv /\ [GateNext]_<<registryVars, gateVars>> => [Pays]_outcome
  BY <1>1 DEF gateVars
<1>3. [](GInv /\ CoverInv) /\ [][GateNext]_<<registryVars, gateVars>> => [][Pays]_outcome
  BY <1>2, PTL
<1> QED
  BY <1>3, CoverInvariance DEF GateSpec, BlockedInTimePaysSlash
==============================================================================
