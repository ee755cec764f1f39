# Verification of the CBDC prototype

TLA+ modules, TLC configurations and TLAPS proofs for the programs of this repository: the
dispute contract of verifiable inference and the programs around it (H1), federated training (H2),
the liability registry and the experiments behind it (H3), and the integration: the settlement gate
with its validators, driver and audits, the offline payments, the admission of operators by their
hardware, and the attested enclaves.

## 1. Inventory

| Part | Where | State | Operations | Interacts with |
|---|---|---|---|---|
| Dispute contract | `h1-zkopml-v2/contracts/OptimisticInferenceV2.sol` | collateral, pending withdrawals, credits, claim digests, `openDisputes`/`rejected`, disputes | `depositBond`, `requestWithdraw`, `withdraw`, `claimCredit`, `commit`, `challenge`, `openFinal`, `reveal`, `respond`, `resolve`, `timeout`, view `isAccepted` | step verifiers (a call in `resolve`), asserters, challengers, the block clock |
| Dispute parties | `h1-zkopml-v2/onchain_dispute.py`, `chain.py`, `dispute.py`, `steps.py`, `verify_dispute_record.py` | the traces of both sides, the record of the dispute | `commit_trace`, `play`, `prefix_chain`, `merkle_*`, `first_disagreement`, replay | the contract, by transactions |
| Memory planner | `h1-zkopml-v2/memory_planner.py` | measured peaks, plans, validations | measure, plan, validate | the step list of `onnx_builder.py` |
| Liability registry | `h3-abt/contracts/LiabilityRegistry.sol` | operators (credential, violations, stake, withdrawal), agents, treasury | `issueCredential`, `revokeCredential`, `registerAgent`, `topUp`, `requestWithdraw`, `withdraw`, `slash`, `payTreasury` | the gate, which is its slasher |
| Settlement gate | `integration/contracts/SettlementGate.sol` | balances, mandates, outcome per request | `mint`, `setMandate`, `settle` | registry (`slash`, `isCovered`), validators' signatures |
| Validator service | `integration/pipeline/validator_node.py` | its decision log; reads the chain through its own node | `check`, `attest` | driver (HTTP), node |
| Driver | `integration/pipeline/run_pipeline.py` | the run, the request under way, the partial and the final record | top up, read the policy, prove, post, settle, wait, write | all of the above |
| Audits | `integration/pipeline/audit_chain.py`, `check_my_validator.py`, `evidence/independent_validator/*.py` | none | match records, logs and chain | records, logs, chain |
| Offline payments | `integration/embodiments/offline_sim.py` | payer total, secure-element counter, payee queues, ledger | `pay`, `receive`, `confirm`, `sync` | admission (device keys) |
| TEE attestation | `integration/embodiments/tee_sim.py`, `enclave.py` | PCR, enclaves, quotes, registered attesters | launch, quote, register, sign, count | admission (enrolled attestation keys), validators |
| Admission | `integration/hw_identity/admission.py`, `tpm.py` | operators, enrolled keys, pending challenges, nonces; per TPM a key and a counter | `begin_enrolment`, `activate_credential`, `finish_enrolment`, `issue_nonce`, `attest_registration`, `admit_agent` | registry (`issueCredential`) |
| H3 experiments | `h3-abt/src/h3_abt`, `h3-abt/run_durable.py` | agents, stakes, histories, identities; learners' values | offers, decisions, slashes, resets; tests and verdicts | none |
| H2 federated AML | `h2-federated-aml/src` | owners of nodes, model, boundary embeddings, best round | partition, local training, averaging, privacy, selection, matched comparison | none |
| H4 STARK | `h4-pqc-stark` | execution traces | prove, verify | driver and validators, as a program |

What is hard in it: parties that stall, lie or collude against deadlines (H1); values read from a
chain, used in a slow proof and settled much later, while other requests of the same operator move
on (gate, registry, driver); nodes that lag; faulty validators; money that is locked, pending,
slashed and withdrawn in every order; a driver that stops, or gives up waiting, and records and audits
that must still tell what happened; payments that reach the ledger out of order (offline); two enrolments
of one device at once (admission); a verifier that is replaced between measurement and run (enclaves);
regimes that are compared on the same draws while their worlds drift apart (H3). `PROJECT.json` lists
each of these hazards at the line where it bites, with the property that watches it.

What makes the parts correct: an honest party never loses a dispute, a wrong result is never accepted,
an accepted one never withdrawn, every dispute ends, the contract's locks add up; no faulty request is
settled, a settled one is exactly what was proven, the ledger is what was minted and moved, violations
follow the operator, and a slash or a covered stake is real; a record is true of what happened, and an
audit that finds nothing has nothing to find; a device settles no more than its allowance; a piece of
hardware has one operator, one history and one credential, with which only its own keys speak; a counted
signature comes from the approved verifier; more liability never means more violations, and a report
never points the other way than the trial; a plan fits the memory it was made for; training learns from
what it may and no more.

## 2. Modules

| Module | Models | Uses |
|---|---|---|
| `OptimisticClaim` | abstract: what the dispute contract promises of one claim | |
| `OptimisticInferenceV2` | the contract, the clock, honest and arbitrary parties | refines `OptimisticClaim` |
| `MCDispute`, `MCDisputeGame` | TLC instances: a model graph of the shape of `test/GameHarness.sol`, traces | `OptimisticInferenceV2` |
| `SumLemmas` | lemmas: sums over finite sets, for the proofs | |
| `OptimisticInferenceV2_proofs` | proofs: types, honest parties, bisection, acceptance, the money, the refinement | `OptimisticInferenceV2`, `SumLemmas` |
| `PrefixTree` | the Merkle tree of `chain.py` | |
| `OnchainPlay` | the scripted disputes, call by call, and their records | `OptimisticInferenceV2`, `PrefixTree` |
| `MemoryPlanner` | plans and their validation | |
| `FederatedRounds` | H2: partition, scarcity, rounds, selection | |
| `MatchedRecall` | H2: the comparison of false positives | |
| `MCOffChain` | TLC instance | `OnchainPlay`, `MemoryPlanner`, `FederatedRounds` |
| `OffChain_proofs` | proofs: the plans and their rounds, the Merkle tree, both bisections, the scripts as executions of the contract, the training | `OptimisticInferenceV2_proofs`, `OnchainPlay`, `MemoryPlanner`, `FederatedRounds` |
| `LiabilityRegistry` | the registry contract | |
| `SettlementGate` | gate, validators, nodes, preparation of requests, composed with the registry | `LiabilityRegistry` |
| `MCSettlement` | TLC instances | `SettlementGate` |
| `SettlementGate_proofs` | proofs: types, faults, slashes, history, the books of gate and registry | `SettlementGate`, `SumLemmas` |
| `PipelineDriver` | the driver's runs on a chain that mines late | |
| `RunAudits` | the audits of these runs | `PipelineDriver` |
| `MCDriver` | TLC instance | `RunAudits` |
| `RunAudits_proofs` | proofs: records, outcomes, audits, evidence | `RunAudits`, `SumLemmas` |
| `OfflinePayments` | payer devices with secure elements, payees, the ledger's synchronisation | |
| `MCOffline` | TLC instances | `OfflinePayments` |
| `OfflinePayments_proofs` | proofs: types, allowance, what settles, flags, the honest device | `OfflinePayments`, `SumLemmas` |
| `Admission` | the operators' TPMs, their enrolment, admission of agents, credentials on chain | |
| `Attestation` | enclaves, their launch on admitted machines, attesters | `Admission` |
| `MCAdmission` | TLC instance | `Attestation` |
| `Admission_proofs` | proofs: types, safety and step properties of admission and attestation | `Attestation` |
| `LiabilityRules` | H3: configuration, decision rule, slashes, registry of `abt.py` | |
| `LiabilityTrial` | H3: the five regimes and the two groups on the same offers and draws | `LiabilityRules` |
| `LearningAgents` | H3: agents that choose by learned values | `LiabilityRules` |
| `Statistics` | H3: ranks, permutations, Holm's correction, the two-proportion verdict | |
| `LiabilityReports` | H3: what is concluded from a trial | `LiabilityTrial`, `Statistics` |
| `MCLiability` | TLC instance, with the comparisons of H2 | `LiabilityReports`, `LearningAgents`, `MatchedRecall` |
| `LiabilityTrial_proofs` | proofs: types, deterrence, bounded careers, agreement of the experiments, payment, the reports and tests | `MCLiability`, `SumLemmas` |

### The dispute contract

Each external function is an action of the same name; a transaction that reverts is a step that is
not enabled, so every `require` and early revert is a conjunct. Time is `block.timestamp`, moved by
`Tick`. `claims[id]` holds the fields that `claimDigest` binds; since the caller must resupply them
exactly, `_checkClaim` becomes "the claim exists". `disputes[id][c]` is the dispute of challenger `c`.

Hashes are free: `keccak(P || leaf)` is `Append(P, leaf)`, so a prefix hash is the sequence that was
hashed into it, and a word that is no hash contains `Junk`. A Merkle root is the trace it commits
to, and an opening is an entry of it. What an asserter may commit is therefore ANY assignment of a
leaf and a prefix to each step, including prefixes that do not chain. A step proof is sound: the
output it proves is `StepOut` of its inputs; the inputs are what the submitter likes, as far as
`_checkInputs` accepts them. `OpensTo` says which openings exist for a free hash.

Accounts in `Honest` follow `onchain_dispute.py`: they commit the honest trace, challenge only wrong
claims, and answer `respond` by comparing the opened prefix with their own. `Punctual` and `Watched`
state what the protocol needs of them in time: they do not let their own deadline run out, and they
challenge a wrong claim before its window closes. They are conditions on `Tick`, so they bind honest
accounts only; everybody else may do or omit anything.

### Registry, gate, validators and driver

The registry's functions are actions again. `slash` is not one by itself in the composition: the gate
is the slasher, so it happens inside `settle`. `FromStake` and `FromPending` are the two partial
subtractions of `slash`.

A request is a nonce with a `Bundle`: the request as it will be submitted, the statement the
validators are shown, the opening of the amount commitment, and what the proof really proves (or
`NoProof`). `Prepare` builds it as `run_pipeline.py` does, from the operator's next slash at that
moment, with at most one of the driver's own injected faults. A validator signs when `check` holds
with the violations its OWN node has imported; `importBlocks` lets the node catch up at any time, so
it lags arbitrarily, which is what `wait_for_block` allows after its timeout. A byzantine validator
signs everything (`--byzantine`). `settle` may be called by anybody once enough have signed, at any
time and again and again.

### Offline payments

`pay` and `confirm` are separate calls, and so they are separate actions of an honest app: it refuses beyond the
allowance, proves, lets the secure element certify, and declares a total that counts the payments confirmed so
far; `confirm` waits until the payee has taken the payment, but nothing keeps the app from paying again before.
`hasty` remembers the devices that did so while a payment that passes was open. A manipulated app uses
`payAsLiked`: any declared total, with a proof of its own making or any it has seen. Nothing in a bundle ties a proof
or its commitment to a device; only the attestation is a device's own (`Proof`, `Draws`).
`recreateCounter` deletes and defines the counter, which a TPM resumes above its old value.
`receive` is a payee that is shown any bundle ever made, as it is or with payee and amount changed
(`Carried`). The secure element's signature cannot be forged, so the field `att`, what it signed, never
changes. `Valid` is `check_bundle` without the two checks that only a payee makes; the snapshot, its
signatures and the certified key are the constants `allowance` and `expires`.

`sync` collects and checks the queues of the payees that reconnect and empties them, also of what it
refuses; `settle` is the body of its loop, in the order of the counters, and nothing else happens until
the loop is through. `together` remembers whether all payees have always reconnected in one call, as in `main`.

### Admission

A TPM stands for its endorsement key, hence for `k(O)`. An attestation key is the TPM it is loaded in, a
number (`provision` replaces it) and whether it was made there; `Imported` is a key with its private part
elsewhere, as in `run_demo.py`. `begin_enrolment` takes the certificate of one TPM with a key of any other,
on any account, since all of this is public, and overwrites the account's earlier challenge.
`activate_credential` gives up the secret only in the TPM the challenge was encrypted to, with the very key
it was bound to. `finish_enrolment` uses the challenge up with a right or a wrong secret; the credential's
transaction may fail (`mined`), which leaves everything before it done. `admit_agent` may get any
attestation a TPM ever made, in any order, or one from `Forged`, signed by a key that is in no TPM.
`admitted` is a history: what was booked as attested, in order.

### Attestation

A verifier build stands for its hash, a genuine enclave's key is its number. `launch` of `tee_sim.py` is
four steps: `measure` (PCR 16 is reset and extended with what is on disk), `start` (a process with the program
that is on disk by then), `identify` (a genuine program copies the verifier, hashes its copy and its own file, and the
launcher compares, `answered`) and `quote`. `replaceOnDisk` may exchange program and verifier between any two of
them, and `provision` the TPM's attestation key. A program is `enclave.py` with its imports, of which
`measurement` covers only the file itself: "replaced" is another file, "unmeasured" the same file with another
`fixtures.py`. Neither is bound to the truth: with `pretend` it reports any measurement and names any key.
`misled` remembers the keys that were named so over a measurement of the genuine program. `tamper` changes an
enclave's private copy. `rehash` and `decide` are the two halves of "attest": the copy is hashed, and then the
copy that is there by that time is run in a process of its own. An approved build decides rightly; what is not
approved, a program that is not genuine and a key on the host may sign anything. `register` gets any quote ever
made, for any key, and `ForgedQuotes`, signed by an attestation key outside its TPM. That the launcher's own
machine extends PCR 16 with what `launch` measures, and nothing else, is taken as given, as the program says itself
(`enclave.py`, `res["limits"]` of `tee_sim.py`).

### Driver and audits

`PipelineDriver` is the loop of `run_pipeline.py` statement by statement where something can come between:
`cover` and `awaitTopUp`, `prove`, `collect`, `settle`, `awaitSettlement` or `timeOut`, `writeRow`,
`writeRecord`, `unlinkPartial`. The transactions of the operator's account wait in `mempool` and are mined in
order (`mine`), as late as they like. `collect` picks any set of validators that answered, as far as the
request lets honest ones sign; one of them, `me`, writes a decision log and may have decided without being
heard. `crash` ends a run anywhere, and an exception nobody catches does the same; `startRun` begins the next
one, in the same directory or another, on the chain and the stake as they are. `unattended` remembers that the
driver once left a transaction waiting. What the quorum and the slash mean is in `SettlementGate`; here a
falsified request simply gets no honest signature.

`RunAudits` translates the four audits as operators over chain, records and logs, in all states where nothing
runs any more; the summary a finished run writes of its rows is an operator of `PipelineDriver`.

### The liability experiments

Payoffs are whole numbers and the detection probability is `PNum / PDen`; expected payoffs are kept multiplied
by `PDen`, so that nothing is rounded. What a generator would draw is left open: an offer is any member of
`Opportunity` and a violation is detected or missed wherever the probability admits it. `LiabilityTrial` makes
ONE offer and ONE draw in all five regimes of `durable.py` and in both groups of `experiment.py` at once,
because the code runs each of them with the same seeds; the regimes then drift apart by themselves.
`LearningAgents` leaves the choice of the action open, which is what exploration does at every step.
`Statistics` has the tests without their distributions: the sign of the Mann-Whitney z, the permutation
count, Holm's steps, and the verdict at the 5% level, in whole numbers. Sorting is the place at which each index
comes (`Place`), so a run of ties is ranked by its first and its last place. `LiabilityReports` applies the tests.

### The programs around dispute and training

`OnchainPlay` makes the calls of `play` one by one against `OptimisticInferenceV2`, for every scenario (who
cheats, at which step, with a malformed chain, with the weights of another step), and has `dispute.py`'s
bisection and record, and the replay of `verify_dispute_record.py` beside it; `gas_game_v2.py` plays one of
these scripts once more to measure it. Steps may undo a difference, so leaves can
agree again after the first wrong one. `PrefixTree` is the padded Merkle tree over the committed words. The loops that
the proofs are about are recursive functions of the round (`bisection`, `Pow2`) or of the level (`merkle_levels`).

`MemoryPlanner` takes any measured peaks, searches as the program does, and validates with any peaks found
elsewhere in the model. `FederatedRounds` reduces a model to the labels it has learnt from, the institutions
whose unprotected update it contains, and the round it is of; a validation score is any member of a small set.
`MatchedRecall` works on scores and labels of a few nodes, and on levels of scarcity summed over seeds.

## 3. Runs

| Run | Configuration | Shows |
|---|---|---|
| DisputeGame | 1 claim, 4 steps (a join, then a chain), binary leaves; one dispute about every combination of true, chained and junk entries, or, about constant traces, an accomplice's dispute beside it | an honest asserter or challenger wins; the bisection halves and finds the wrong step; acceptance is right; every claim is decided; the abstract claim is implemented |
| DisputeMoney | 2 claims of one asserter, deposits of 1 or 2 up to 2, withdrawals, 4 points of time | locks add up and are covered; the first dispute finds the bond |
| DisputeSharedBond | as DisputeMoney | violated: "the loser's bond goes to the winner" (finding 1) |
| SettleQuorum | 4 validators of which one is byzantine, all five faults, 2 requests, 2 agent ids | no fault settles, what settles was proven, slashes are real, violations follow the operator |
| SettleMoney | 2 wallets and 2 requests whose mandates change; or one wallet and stakes that move between proof and settlement | ledger, stakes and treasury balance; execution is deterred; a violation settled in time pays |
| SettleUnpaid | stakes that move | violated: "operator slashed s(1+k)" (finding 2) |
| Offline | an honest and a manipulated device, proofs of either, and payees that reconnect together; or the manipulated one alone, 3 payments, payees reconnecting as they like | the allowance bounds what settles; nothing counts twice; only attested payments settle; an overspend is flagged, except behind a proof that settled in another payment; an honest device that is not disturbed pays out and is not flagged |
| OfflineLateSync | an honest device, payees that reconnect one by one | violated: "overspending ... is detected ... and the device is flagged" (finding 3) |
| Admission | 2 TPMs, 2 accounts, 2 keys and 3 counter values per TPM, 2 challenges, 2 nonces; or 2 machines of which one at most is enrolled, launched once each or one of them twice, 2 builds of which one is approved, 3 programs | only resident keys are enrolled; admissions follow the counter and are attested; no enrolment resets a history; credentials need new hardware; a counted signature is a genuine enclave's with the approved build, and on a deserved request, but for keys that misled and copies exchanged between re-hash and run |
| Liability | trials of 2 agents and 3 steps with any offers, three bonds; learning agents for 3 steps; all groups of up to 3 rates, all triples of p-values on a grid, all counts up to 6; comparisons over 3 nodes or levels | more liability, fewer violations; every slash is paid; careers end; the experiments agree; reports follow from the trials, and the comparisons of H2 are fair |
| Driver | 2 runs of 2 requests into one directory or two, 3 validators of which one is byzantine, thresholds 2 and 3 | records are true; outcomes are the expected ones; the audits tell true records from others; a run ends |
| OffChain | disputes about 7 steps, two scenarios in one contract; plans for 3 budgets; training of 2 institutions over 6 nodes and 3 rounds | both bisections stop at the first wrong step and the honest side wins, in as many rounds as the planner announces; plans are cheapest and fit; training learns from what it may |

Some runs put several questions into one instance; a state constraint then says what a behaviour is about
(`InScope`, `OneKindOfMoney`, `FewPayments`, `OneConcern`), and each part is explored in full. `OnlyLaunches`, the
part of `OneConcern` about attestation, and `FewOdd` also bound how much is out of the ordinary. Launches: one
at a time, after one enrolment at most, one quote, one signature, and at any moment at most one of a replaced TPM
key, an exchanged file, a changed private copy and a key that misled. The driver: of the four requests of both
runs at most one is falsified, violating, refused by somebody or not recorded as executed.

Why the bounds are enough. Four steps give two rounds of bisection, both answers in each, a disputed
first, middle and last step, and a step with two inputs; seven give three rounds of unequal halves and a tree
that is padded; the proofs cover every number of steps. Two claims are the least that share a deposit, and
deposits of 1 and 2 against a bond of 2 give partly backed disputes. Time runs past window, turn and withdrawal
delay. Two requests are the least that can be in flight together; two agent ids are the least that can share an
operator. Two payees are the least that can be paid from one allowance. Two challenges are the least that
overlap, on one account or on two, and that enrol one TPM twice; two nonces the least that come out of order;
two enclaves are what it takes for one to be launched as approved and another one not, and to mix up their
quotes. Three steps give an agent two slashes, the second escalated, and a reset; a third violation would
be worth it if slashes did not escalate, and exceeds what `CareersEnd` allows; bonds of 0, 1 and 3 are below and
exactly at the break-even bond; three rates a group make ties within and between groups. Two runs are the least that can
be taken for each other, and one odd request is enough to make them differ. Three rounds let a best round be
followed by an equal one; two institutions are what a foreign embedding needs. `Max...` constants bound what
the code does not: time, deposits, minting, challenges, enclaves, scenarios and the number of claims and runs.

Deadlock is checked in the dispute, settlement and OffChain runs, where some step is always enabled (a program
of OffChain that is through with its work stutters). In the others the bounds end every behaviour (counters,
nonces, steps of a trial, runs of the driver), and nothing must happen next in the real system, so it is not
checked there.

Finding 1: `commit` locks nothing, so one deposit can back several claims, and the winner of the
second dispute may get no bond. The first dispute is always backed (`FirstDisputeIsBacked`).

Finding 2: `settle` does not look at the cover of a violating request, and `slash` takes only what is
left. Two violations of one covered operator, proven at once, bring one slash. What does hold is
`BlockedInTimePaysSlash`: settled within the withdrawal delay and with no slash in between, the
whole slash is paid, also out of a withdrawal under way.

Finding 3: `sync` orders only what the payees of one call hand in. If the payee of the later payment
reconnects first, the declared total does not follow, the payment is refused for good (its queue has
been emptied) and an honest device is flagged for an overspend. If all reconnect together this cannot
happen to a device that concludes each payment before the next, unless somebody else has settled one of its proofs
first (`HonestPaidOut`). More than the allowance never settles, in whatever order.

Observed without a run of its own:

* Offline payments. The ledger refuses a payment whose commitment it knows before it looks at the total, and
  without a flag (`offline_sim.py:175-177`). A device that pays twice with one proof, or with a proof that another
  device settles, may have more accepted than its allowance and not be flagged. What holds of the sentence of
  finding 3 is `OverspendDetected`: an overspend among payments none of whose proofs has settled elsewhere is
  flagged, in whatever order payees reconnect.
* Admission. The module's docstring says that "a second account for the same TPM is refused"
  (`admission.py:11`). `begin_enrolment` does refuse it, but when two accounts begin before either finishes,
  the second `finish_enrolment` answers `ok` as well, with the TPM's operator id: it changes no account and
  yields no credential (`HistoryKept`, `CredentialNeedsNewHardware`), it only adds a key. And if the
  transaction that issues a credential fails once, no later enrolment of that TPM issues one.
* Driver. A settlement the driver gives up waiting for is recorded as `Reverted` and may still be executed:
  `RecordSurvives` and `OutcomesExpected` hold except for what `unattended` marks, and the audit reports such a
  run. `audit_chain.py` opens `transactions.csv` of every directory, so one interrupted run ends the audit of
  all of them (`AuditCompletes`).
* Planner. The head step is not among the steps it measures, and a last group that is smaller than the others
  is taken to be like them.

## 4. Fairness

Two specifications have fairness. `FairSpec` of the dispute contract has weak fairness of three kinds. `Tick`:
blocks are produced. `timeout`: anybody may call it and it pays one of the two parties, who is on hand.
`HonestMove`: accounts in `Honest` run `play`, which makes the next call as soon as it is due. Nothing
is assumed of the others. With `MaxTime` large enough for every deadline of the run, `ClaimDecided` follows.

`Spec` of the driver has weak fairness of the driver's own next step, whichever it is: the program does not
halt between statements, the calls to validators have a timeout, and so have both waits for a receipt, one of
which ends as a row and the other as an exception. Neither `mine` nor any validator is fair. `RunEnds` is
checked under the constraint `FewOdd`: a behaviour that leaves it is cut, those that stay within it are fair
behaviours of the system.

## 5. Proofs

Assumptions: those named in the modules (`TimingAssumption`, `BondAssumption`, `ModelAssumption`,
`TraceAssumption`, `TrueLeafAssumption`, `RegistryAssumption`, `QuorumAssumption`, `FaultAssumption`,
`OfflineAssumption`, `AdmissionAssumption`, `NoneAssumption`, `BuildsAssumption`, `ConfigAssumption`
and others), which TLC evaluates in the runs. They are what the constructors require, plus: the steps form an
acyclic graph, the honest trace is the run of the model, fewer byzantine validators than the
threshold, and a slash unit of at least 2, so that an off-by-one slash is not a multiple of it.

* Dispute contract (`IInv`). Type correctness needs the range of every open dispute to be a subrange
  of the steps (`lo1 <= hi`). Honest asserters: an open dispute over the true trace holds true
  prefixes on both sides, so `Advance` never finds a broken chain, and a resolving proof has true
  inputs. Here is the heart: `OpensTo` pins each input to the entry of the agreed prefix. Honest
  challengers: the agreed prefix is the true one and the disputed one is not; when the range closes
  the disputed leaf differs from the true leaf, and any accepted proof outputs the true one.
* Acceptance (`AInv`). The counter is a cardinality, so an honest challenger's open dispute blocks
  acceptance, and its end rejects the claim; `Watched` gives the challenge before the window closes.
* Money (`MInv`, `BInv`). What is locked of a deposit is the sum of the bonds of that account's open
  disputes, and the balance is what is owed to the parties plus a challenger's bond for each open dispute:
  sums over finite sets that a step changes in one place (`SumUpdate`). `BackedInv` says that the
  bond of a claim whose window is open is deposited, or on its way out and not out before the window closes.
  It needs the withdrawal delay to be LONGER than the challenge window, which is a hypothesis of
  `FirstDisputeBacked`. The constructor also allows both to be equal (`OptimisticInferenceV2.sol:126`);
  then a withdrawal and a first challenge may fall due in the same second and the challenge finds nothing,
  as TLC shows within the bounds of DisputeMoney. The deployments in the tests use two days (`test/GameHarness.sol:81`).
* Refinement (`RInv`). Each step of the contract is a step of `OptimisticClaim` or leaves status and
  posting alone, for every claim.
* Sums (`SumLemmas`). The library's fold is a recursive function chosen by CHOOSE, and its induction
  theorems take an operator. Both are got round: a family of subsets of a finite set that is not empty has
  a smallest member, so a fact that fails somewhere fails at a set all of whose subsets obey it
  (`SmallestSubset`). That gives existence and uniqueness of the partial sums, hence adding, removing and
  changing one element, monotonicity, and equality along a bijection.
* Gate (`GInv`). `SignedInv` says that a non-byzantine signature implies the check under some count
  of violations not above the operator's present one (`NodesBehind`); a faulty bundle passes under
  none (`FaultInv`); a quorum contains a validator that checked. `PostedInv` bounds the slash a
  bundle was made with, and `OutcomeInv` turns the count of blocked requests into a cardinality that
  grows by one with each slash.
* Books of gate and registry (`LedgerInv`, `StakesInv`, `CoverInv`). Minted is what the wallets hold, also when
  a transfer is to oneself; what was paid in and not withdrawn is the treasury plus what each operator has at
  stake or pending. `CoverInv` is what a slash may rely on: as long as the operator was not slashed since its
  policy was read, the next slash is staked, or pending and not withdrawable before the delay has
  passed. Together with the statement's slash being the next one it gives `BlockedInTimePaysSlash`.
* Offline payments (`IInv` of its own). `MadeInv` says that a secure element binds what the bundle
  says, so `ShownIsMade`: whatever is changed on the way, only the bundle as it was made passes.
  Hence queues and batches hold bundles as made (`QueueInv`, `BatchInv`), and `RememberInv` ties the
  ledger's sets and total to what it has settled, which makes the next payment that follows the total
  come on top of all earlier ones. `LastInv` does the same for a payee's last counter. What becomes of an
  accepted payment is a second invariant, `FateInv`: while the snapshot is valid it waits, is settled or its
  device is flagged (`HandledInv`), so that once all have synchronised a device that is not flagged has settled
  everything but payments whose proof settled in another one, and its total is within the allowance. An honest
  device draws a new proof for each payment (`OriginInv`), so only a manipulated one can settle it elsewhere. While
  it concludes each payment before the next, at most one of its payments is both open and still valid, and what
  its app counts is what its payees took (`HonestInv`); payees that reconnect together settle this in order
  (`TogetherInv`).

* Admission (`IInv` of its own). `ChallengeInv` says that a challenge is for a key made in some TPM and
  that its secret is out only if that TPM is the challenged one; so `finish_enrolment` enrols resident
  keys only, and with these a forged attestation is signed by nobody (`AcceptedIsGenuine`).
  `HistoryInv` ties the registry's last counter and open nonces to all admissions before. The two step
  properties follow from `BoundKeeps`: `setdefault` leaves an operator that is there alone.

* Attestation (`AttestationInv`). A measurement that names the genuine program is `Truthful` about a key: the key
  misled, or it is that of an enclave on that machine with the measured build, since the launcher compares what a
  genuine enclave reports. A quote of a resident key passes this on; forged ones are signed with keys that
  `KeysAreResident` keeps out of the registry. So an attester that did not mislead is an enclave of an enrolled
  machine with an approved build, and stays one whatever is replaced later. `CheckInv` says that what is being
  checked was hashed as the build that was launched; so unless the copy was exchanged since (`slipped`), the
  approved build decided.

* Liability trial (`IInv` of its own). Deterrence is proved agent by agent along a run: an agent that fears
  no less in the heavier regime refuses whatever it would refuse in the lighter one (`FearDeters`), and the
  order of fears (`FearOrder`) needs `HistoryBehind`, that an identity's history never gets ahead of the
  operator's, through resets and top-ups. Careers are bounded because a violation that is still worth it has
  an expected slash below its gain, and slashes grow with each detection (`CareerStep`). `SameExperiment`
  ties "flat" to the registry's treatment and "control" to the baseline, step by step.

* Payment (`EverybodyIsPaid`, over `MCSpec`, where the trial and the learners take turns). `AllBooks`: an account
  whose stake is maintained is topped up to at least the next slash before each decision, so every detection
  is paid in full: stake and slashes add up to what was put in, and the slashes to the sum of the escalation.

* Driver and audits (`RunAudits_proofs`). `PlaceInv` ties the request to the place in the loop; `PoolInv` and
  `SentInv` say that a request has at most one settlement, mined or waiting, and only once the driver came
  to it; `RecordInv` that a partial record holds the rows of the requests so far and a final one all of
  them; `TruthInv` that each row is what the chain did or may still do. `CoverInv` is about the operator:
  unless a transaction was left behind, the one the driver waits for is the only one under way, so the
  stake check still holds when the settlement is mined. `LogInv` ties the decision log of an honest
  validator to the signatures on the chain. The audits are then facts about these records, by counting:
  a record that is whole matches as many transactions as it has rows.

* Planner (`PlanInv`). A plan is what `PlanFor` makes of the profile, which stays. The two choices are a least and
  a greatest member of a set (`CutIs`), these sets grow with the budget (`FittingGrows`), and the number of
  steps, a quotient, falls with longer groups and grows with more parts (`StepCountMonotone`); the count of
  the groups themselves is the cardinality of an interval.

* Training (`FedInv`). The model, the selected model and every embedding at hand have learnt from labels in
  the training mask only, and with privacy on from no unprotected update (`Models`); the updates of a round
  are those of the first institutions, all trained from the same global model (`RoundInv`), which is what
  makes the average one of protected, kept labels. Some institution owns a training node, so there is always
  something to weigh by (`MergeCounts`). A foreign end of an edge is a boundary node of its own institution
  (`BoundaryIs`), so after a round nobody lacks an embedding. `ScoresInv` keeps one score per round, of which
  the selected one is the first of the highest; `AloneInv` says the same of each institution on its own.

The finite sets of the proofs (`Operators`, `Validators`, `Nodes`) and the driver's constants are assumptions of
their modules. Training sets that are not empty are what scikit-learn's split guarantees.

* Recursive functions (`NatSets`, `Iterates`, `TableExists`). A set of naturals that contains each number with all
  smaller ones below it is `Nat`; so a function that computes each value from the smaller ones exists, which is what
  makes `LET f[n] == ... f[n - 1] ...` equal to what it says. `CeilLog2` is the least exponent whose power reaches
  `n` (`CeilLog2Is`), and the longest bisection of `d` steps takes at most `e` rounds iff `d <= 2^e`
  (`LongestIsCeilLog2`).

* Merkle tree (`EveryTraceBinds`). `TreeOf` says what a level is made of; climbing from a node along the path of a
  position gives the root (`PathLeadsUp`), and since nodes are free, what climbs to the root passes the ancestors
  of the position on the way (`RootBinds`), so index, leaf, prefix and path are those that were committed. Padding
  repeats the last node, which carries its own index.

* Scripts (`PlayInv`). The traces of the two sides agree before the step of the scenario and never again, because a
  prefix contains the output that was tampered with (`SidesPart`); so every bisection that keeps agreement on the
  left and disagreement on the right ends there (`FirstDisagreement`), the uneven halves within `CeilLog2` rounds.
  `GameAt` ties a dispute on the chain to the interval of the off-chain bisection after as many rounds; each call of
  `play` and of `gas_game_v2.py` is a step of the contract (`ScriptPlaysContract`), keeps that tie or ends it as
  `Decided` says, and leaves decided disputes alone (`RecordPreserves`). The contract's own invariant is used
  throughout. With it the record, the off-chain verdict (`OffChainRight`) and the replay agree
  (`PlaysAreDecidedRight`). That what a script commits is among the traces of the contract's model, and that a
  tampered output is another leaf, are `ScriptAssumption` and `LeafAssumption`.

* Reports (`ReportsHold`, over `MCSpec`). The deterrence order makes the two lists of each comparison paired, one
  nowhere above the other; what the treatment then wins of all pairs is at most what the control wins against
  itself, which is half, and less where the lists differ (`PairedCounts`). The tests are proved for all inputs, not
  only for those of the run. `RanksAreRight`: the places of a run of ties are an interval, so a rank is what an
  index wins against the pool, and wins within a group cancel; `n^3` less the squares of the ties is zero only for
  one single run. `HolmIsRight`: a level is passed by the running maximum iff by each product before it, and the
  first of several ties has the step-down factor. `VerdictIsRight`: with `X` the distance of the rates,
  `X * X * (S - 1) * (F + 1) <= (X + d) * (X + d) * S * F`, because `X <= d * F`. `FindingIsRight` rests on
  `HolmGrows`.

Only model-checked: the liveness properties (`ClaimDecided`, `RunEnds`), which need ENABLED.

## 6. Not modelled, and the plan

Not modelled, and why:

* cryptography: hashes, signatures and proofs are free and sound; the H4 constraint systems are polynomial
  identities over large fields, which TLC cannot enumerate. What the system uses of them is the decision they
  prove, and that is modelled;
* floating-point: gradients, noise and the privacy accountant of H2, the distributions behind p-values and
  confidence intervals of H3. The order, the sign and the thresholds they feed are modelled;
* H1's training, quantisation and proving, which call ezkl, ONNX and scikit-learn and keep no state;
* version 1 of the dispute contract and its gas scripts (`gas.py`, `gas_game.py`), which it is kept for: it has no game;
* gas, HTTP, key files, plots, the report generator and the benchmarks, which measure and print.

What could follow: the driver composed with the whole of `SettlementGate` rather than with its operator's side.
