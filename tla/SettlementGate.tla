---------------------------- MODULE SettlementGate ----------------------------
(***************************************************************************)
(* CBDC settlement: the gate contract (integration/contracts/              *)
(* SettlementGate.sol) on top of the LiabilityRegistry it slashes, the     *)
(* validator services (integration/pipeline/validator_node.py), each       *)
(* reading the registry from a chain node of its own, and the operator's   *)
(* driver (integration/pipeline/run_pipeline.py) with its injected faults. *)
(*                                                                         *)
(* A request is attested off chain and settled by whoever submits enough   *)
(* signatures, at any later time; requests of one operator overlap.  A     *)
(* signature binds the whole request, so requests are told apart by their  *)
(* nonce.  A proof is the statement it proves, or NoProof for bytes that   *)
(* prove nothing.                                                          *)
(***************************************************************************)
EXTENDS LiabilityRegistry

CONSTANTS
    Validators,
    Byzantine,        \* the validators that sign everything without checking
    threshold,
    Wallets, Transfers,   \* the amounts of transfers and mints
    Nonces, NoBundle, NoProof,
    Faults,           \* the faults the driver injects
    MaxSupply         \* bound on what the central bank mints

ASSUME QuorumAssumption ==
    /\ IsFiniteSet(Validators) /\ Byzantine \subseteq Validators
    /\ threshold \in Nat
    /\ 2 * threshold > Cardinality(Validators) /\ threshold <= Cardinality(Validators)
    /\ Cardinality(Byzantine) < threshold
    /\ Transfers \subseteq Nat /\ MaxSupply \in Nat /\ IsFiniteSet(Nonces)

VARIABLES
    balanceOf, mandate,   \* the CBDC ledger and the wallets' mandates
    minted,               \* what the central bank has given each wallet
    outcome,              \* per request
    bundles,              \* per request: what the driver posts to the validators
    signatures,           \* per request: the validators that have signed it
    nodeViolations        \* per validator: k of each operator as its chain node has it

gateVars == <<balanceOf, mandate, minted, outcome, bundles, signatures, nodeViolations>>
ledger   == <<balanceOf, mandate, minted, outcome>>

Outcomes  == {"None", "Executed", "AgentRefused", "Blocked", "NotCovered"}
Decisions == [exec : BOOLEAN, viol : BOOLEAN]
Request   == [agentId : AgentIds, from : Wallets, to : Wallets, amount : Nat, decision : Decisions]
Statement == [model : {"deployed", "other"}, slash : Nat, decision : Decisions, committed : Nat]
Bundle    == [request : Request, statement : Statement, opening : Nat,
              proof : Statement \cup {NoProof}, fault : Faults \cup {"none"}, policyTime : Nat, covered : BOOLEAN]

\* The faults of run_pipeline.py; a slash that is off by one is not another step's slash.
ASSUME FaultAssumption ==
    /\ Faults \subseteq {"flip_viol", "amount_swap", "stale_slash", "corrupt_proof", "wrong_model"}
    /\ "stale_slash" \in Faults => baseSlash >= 2
    /\ NoProof \notin Statement /\ NoBundle \notin Bundle

GateInit ==
    /\ RegistryInit
    /\ balanceOf = [w \in Wallets |-> 0]
    /\ mandate = [w \in Wallets |-> {}]
    /\ minted = [w \in Wallets |-> 0]
    /\ outcome = [i \in Nonces |-> "None"]
    /\ bundles = [i \in Nonces |-> NoBundle]
    /\ signatures = [i \in Nonces |-> {}]
    /\ nodeViolations = [v \in Validators |-> [o \in Operators |-> 0]]

------------------------------------------------------------------------------
(* The central bank and the wallets.                                         *)

mint(w, v) ==
    /\ minted[w] + v <= MaxSupply
    /\ balanceOf' = [balanceOf EXCEPT ![w] = @ + v]
    /\ minted' = [minted EXCEPT ![w] = @ + v]
    /\ UNCHANGED <<registryVars, mandate, outcome, bundles, signatures, nodeViolations>>

setMandate(w, a, allowed) ==
    /\ mandate' = [mandate EXCEPT ![w] = IF allowed THEN @ \cup {a} ELSE @ \ {a}]
    /\ UNCHANGED <<registryVars, balanceOf, minted, outcome, bundles, signatures, nodeViolations>>

------------------------------------------------------------------------------
(* The driver.                                                               *)

\* What the proven rule decides: a compliant transfer is always executed.
RuleDecisions == {[exec |-> TRUE, viol |-> FALSE], [exec |-> TRUE, viol |-> TRUE],
                  [exec |-> FALSE, viol |-> TRUE]}

FlipViol(d) == [d EXCEPT !.viol = ~ @]

\* The bundle of an honest proof made under the operator's next slash, with one fault.
Prepare(a, from, to, amount, decision, fault) ==
    LET used   == nextSlash(agents[a]) + (IF fault = "stale_slash" THEN 1 ELSE 0)
        shown  == IF fault = "flip_viol" THEN FlipViol(decision) ELSE decision
        stated == IF fault = "amount_swap" THEN amount + 1 ELSE amount
        model  == IF fault = "wrong_model" THEN "other" ELSE "deployed"
        proven == [model |-> "deployed", slash |-> used, decision |-> decision, committed |-> amount]
    IN [request    |-> [agentId |-> a, from |-> from, to |-> to, amount |-> stated, decision |-> shown],
        statement  |-> [model |-> model, slash |-> used, decision |-> shown, committed |-> amount],
        opening    |-> stated,
        proof      |-> IF fault = "corrupt_proof" THEN NoProof ELSE proven,
        fault      |-> fault,
        policyTime |-> now,
        covered    |-> isCovered(a)]

\* run_pipeline.py first tops the stake up when it no longer covers the next slash: that is the
\* registry's topUp, a step of its own here, and several requests may be under way at once.
post(i, a, from, to, amount, decision, fault) ==
    /\ bundles[i] = NoBundle
    /\ agents[a] # NoOperator
    /\ bundles' = [bundles EXCEPT ![i] = Prepare(a, from, to, amount, decision, fault)]
    /\ UNCHANGED <<registryVars, ledger, signatures, nodeViolations>>

------------------------------------------------------------------------------
(* The validators.                                                           *)

\* A validator's chain node imports the blocks it has missed.
importBlocks(v) ==
    /\ nodeViolations' = [nodeViolations EXCEPT ![v] = [o \in Operators |-> operators[o].violations]]
    /\ UNCHANGED <<registryVars, ledger, bundles, signatures>>

\* Variants of the operations, each with one slip; only the mutation runs use them.
checkWithoutCommitment(v, b) ==
    /\ b.statement.model = "deployed"
    /\ b.opening = b.request.amount
    /\ b.statement.decision = b.request.decision
    /\ b.statement.slash = baseSlash * (1 + nodeViolations[v][agents[b.request.agentId]])
    /\ b.proof = b.statement

checkWithoutProof(v, b) ==
    /\ b.statement.model = "deployed"
    /\ b.opening = b.statement.committed
    /\ b.opening = b.request.amount
    /\ b.statement.decision = b.request.decision
    /\ b.statement.slash = baseSlash * (1 + nodeViolations[v][agents[b.request.agentId]])

checkWithoutSlash(v, b) ==
    /\ b.statement.model = "deployed"
    /\ b.opening = b.statement.committed
    /\ b.opening = b.request.amount
    /\ b.statement.decision = b.request.decision
    /\ b.proof = b.statement

\* The comparisons of hashes, of the variant and of the policy's fixed part (limit, sanctioned
\* id) stand in the statement's model and decision; a hash opens to what was committed only.
check(v, b) ==
    /\ b.statement.model = "deployed"
    /\ b.opening = b.statement.committed
    /\ b.opening = b.request.amount
    /\ b.statement.decision = b.request.decision
    /\ b.statement.slash = baseSlash * (1 + nodeViolations[v][agents[b.request.agentId]])
    /\ b.proof = b.statement

\* wait_for_block gives up after its timeout, so a node that lags behind answers too.
attest(v, i) ==
    /\ bundles[i] # NoBundle
    /\ v \in Byzantine \/ check(v, bundles[i])
    /\ signatures' = [signatures EXCEPT ![i] = @ \cup {v}]
    /\ UNCHANGED <<registryVars, ledger, bundles, nodeViolations>>

------------------------------------------------------------------------------
(* Settlement.                                                               *)

QuorumReached(i) == Cardinality(signatures[i]) >= threshold

TransferFromCopies(r) ==
    [balanceOf EXCEPT ![r.from] = balanceOf[r.from] - r.amount, ![r.to] = balanceOf[r.to] + r.amount]

Transfer(r) == [[balanceOf EXCEPT ![r.from] = @ - r.amount] EXCEPT ![r.to] = @ + r.amount]

settle(i) ==
    LET r == bundles[i].request
        d == r.decision
        Close(out) == outcome' = [outcome EXCEPT ![i] = out]
    IN /\ bundles[i] # NoBundle
       /\ outcome[i] = "None"
       /\ QuorumReached(i)
       /\ r.agentId \in mandate[r.from]
       /\ \/ /\ d.viol /\ d.exec
             /\ slash(r.agentId)
             /\ Close("Blocked") /\ UNCHANGED balanceOf
          \/ /\ ~ d.viol /\ ~ isCovered(r.agentId)
             /\ Close("NotCovered") /\ UNCHANGED <<registryVars, balanceOf>>
          \/ /\ ~ d.viol /\ isCovered(r.agentId) /\ d.exec
             /\ balanceOf[r.from] >= r.amount
             /\ balanceOf' = Transfer(r)
             /\ Close("Executed") /\ UNCHANGED registryVars
          \/ /\ ~ d.exec /\ (d.viol \/ isCovered(r.agentId))
             /\ Close("AgentRefused") /\ UNCHANGED <<registryVars, balanceOf>>
       /\ UNCHANGED <<mandate, minted, bundles, signatures, nodeViolations>>

GateStep ==
    \/ \E w \in Wallets : \/ \E v \in Transfers : mint(w, v)
                          \/ \E a \in AgentIds, allowed \in BOOLEAN : setMandate(w, a, allowed)
    \/ \E i \in Nonces :
          \/ \E a \in AgentIds, from, to \in Wallets, amount \in Transfers,
                decision \in RuleDecisions, fault \in Faults \cup {"none"} :
                   post(i, a, from, to, amount, decision, fault)
          \/ settle(i)
          \/ \E v \in Validators : attest(v, i)
    \/ \E v \in Validators : importBlocks(v)

GateNext == GateStep \/ (RegistryStep /\ UNCHANGED gateVars)

GateSpec == GateInit /\ [][GateNext]_<<registryVars, gateVars>>

------------------------------------------------------------------------------
(* Properties.                                                               *)

GateTypeOK ==
    /\ RegistryTypeOK
    /\ balanceOf \in [Wallets -> Int] /\ minted \in [Wallets -> Nat]
    /\ mandate \in [Wallets -> SUBSET AgentIds]
    /\ outcome \in [Nonces -> Outcomes]
    /\ bundles \in [Nonces -> Bundle \cup {NoBundle}]
    /\ signatures \in [Nonces -> SUBSET Validators]
    /\ nodeViolations \in [Validators -> [Operators -> Nat]]

Settled(i)    == outcome[i] # "None"
OperatorOf(i) == agents[bundles[i].request.agentId]

\* "A faulty request must not reach quorum and must not change the ledger": no injected
\* fault gathers a quorum, however far validators lag and whatever byzantine ones sign.
FaultsRefused ==
    \A i \in Nonces : bundles[i] # NoBundle /\ bundles[i].fault # "none" =>
        ~ QuorumReached(i) /\ ~ Settled(i)

\* What settles is what was proven: a settled request carries the decision of a proof that
\* verifies, made on exactly the amount that moves (check, settle, the quorum rule).
SettledIsProven ==
    \A i \in Nonces : Settled(i) =>
        LET b == bundles[i]
        IN /\ b.proof = b.statement
           /\ b.request.decision = b.proof.decision
           /\ b.request.amount = b.proof.committed

\* Every settled decision was made under a slash the operator really faced at some time: an
\* escalation step of its history, never one that has not happened.
SlashWasInForce ==
    \A i \in Nonces : Settled(i) =>
        \E k \in 0 .. operators[OperatorOf(i)].violations :
            bundles[i].statement.slash = baseSlash * (1 + k)

\* The ledger is what the central bank minted plus what the executed requests moved, each
\* of them once, however often and in whatever order signed requests are submitted.
LedgerMatchesOutcomes ==
    \A w \in Wallets :
        LET Moved(S) == SumFunction([i \in S |-> bundles[i].request.amount])
            executed == {i \in Nonces : outcome[i] = "Executed"}
        IN /\ balanceOf[w] >= 0
           /\ balanceOf[w] = minted[w] + Moved({i \in executed : bundles[i].request.to = w})
                                       - Moved({i \in executed : bundles[i].request.from = w})

\* No money appears or vanishes on either side of the gate: what slash takes reaches the
\* treasury, what settle moves is what was executed.
BooksBalance == LedgerMatchesOutcomes /\ RegistrySolvent

\* The violations held against an operator are its blocked requests, under whichever agent
\* id they were made: a new id starts with the history of its operator.
HistoryMatchesOutcomes ==
    \A o \in Operators :
        operators[o].violations = Cardinality({i \in Nonces : outcome[i] = "Blocked" /\ OperatorOf(i) = o})

\* When a transfer is executed the operator's stake covers the slash the decision was proven
\* under, although proof, attestation and settlement are far apart.
ExecutedIsDeterred ==
    [][\A i \in Nonces :
          outcome[i] # "Executed" /\ outcome'[i] = "Executed" =>
              operators[OperatorOf(i)].stake >= bundles[i].statement.slash]_outcome

\* No violation of i's operator settled since the policy of i was read: the slash it was
\* proven under is still the next one.
StillNext(i) == bundles[i].statement.slash = nextSlash(OperatorOf(i))

\* "Blocked; operator slashed s(1+k), k increases" (integration/README.md): a blocked request
\* whose operator was covered when it was proven brings the treasury the whole slash, whatever
\* became of the stake since (settle looks at isCovered only when there is no violation).
BlockedPaysSlash ==
    [][\A i \in Nonces :
          outcome[i] # "Blocked" /\ outcome'[i] = "Blocked" /\ bundles[i].covered =>
              treasuryBalance' - treasuryBalance = nextSlash(OperatorOf(i))]_outcome

\* An attempted violation that is settled before the withdrawal delay has run since it was
\* proven, by an operator that was covered then and was not slashed since, pays the whole
\* slash: the stake may be on its way out but has not left (requestWithdraw, withdraw, slash).
BlockedInTimePaysSlash ==
    [][\A i \in Nonces :
          /\ outcome[i] # "Blocked" /\ outcome'[i] = "Blocked"
          /\ bundles[i].covered /\ StillNext(i)
          /\ now < bundles[i].policyTime + withdrawDelay
          => treasuryBalance' - treasuryBalance = nextSlash(OperatorOf(i))]_outcome
==============================================================================
