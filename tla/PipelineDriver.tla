---------------------------- MODULE PipelineDriver ----------------------------
(***************************************************************************)
(* The operator's driver (integration/pipeline/run_pipeline.py), run after *)
(* run, with everything that may come between its steps: transactions that *)
(* are mined late, waits that time out, validators that do not answer, a   *)
(* driver that stops.  It writes a record of each run to a directory;      *)
(* RunAudits is about what can be concluded from these records.            *)
(*                                                                         *)
(* The chain is the operator's side of SettlementGate: transactions of one *)
(* account are mined in the order they were sent.  A transaction is called *)
(* for what the driver did: run, index, decision, amount.                  *)
(***************************************************************************)
EXTENDS Integers, Sequences, FiniteSets, SequencesExt

CONSTANTS
    Validators, Byzantine, me,   \* me: an honest validator that keeps a decision log
    Thresholds,                  \* the thresholds deploy.py may set
    Dirs,                        \* --out
    n,                           \* --n, also the run's length in the records
    MaxRuns,
    baseSlash, minStake,
    Faults,                      \* what is falsified in a request
    Nowhere, NoRecord

ASSUME DriverAssumption ==
    /\ Byzantine \subseteq Validators /\ me \in Validators \ Byzantine
    /\ \A h \in Thresholds : h \in Nat /\ Cardinality(Byzantine) < h /\ h <= Cardinality(Validators)
    /\ IsFiniteSet(Validators) /\ n \in Nat \ {0} /\ MaxRuns \in Nat
    /\ baseSlash \in Nat \ {0} /\ minStake \in Nat
    /\ "none" \notin Faults /\ Nowhere \notin Dirs

VARIABLES
    threshold,
    stake, k,        \* the operator's stake and violations in the registry
    ledger, mempool, \* the operator's transactions, mined and waiting
    driver,          \* run_pipeline.main: where it is and what it holds
    records,         \* per directory: transactions.partial.csv and transactions.csv
    log,             \* me's decisions.jsonl
    unattended       \* the driver once gave up on a transaction that was still waiting

vars == <<threshold, stake, k, ledger, mempool, driver, records, log, unattended>>

\* What the proven rule decides (model.rs): a compliant offer is executed; a violating one is
\* executed, and then gets blocked, or refused.
Decisions == {"execute", "violate", "refuse"}
Outcomes  == {"Executed", "AgentRefused", "Blocked", "NotCovered"}

\* The amounts differ from index to index and not from run to run: runs share their seed.
amount(i) == i + 1

RowOutcomes == Outcomes \cup {"NotSubmitted", "Reverted"}

\* What main holds of the request it is at.
Item == [fault : Faults \cup {"none"}, decision : Decisions, slash : Nat,
         signers : SUBSET Validators, valid : SUBSET Validators, outcome : RowOutcomes]

Settlement == [kind : {"settle"}, run : 0 .. MaxRuns, i : 0 .. n - 1, decision : Decisions,
               amount : Nat, signers : SUBSET Validators, strangers : BOOLEAN,
               outcome : Outcomes \cup {"None"}]
TopUp == [kind : {"topUp"}, run : 0 .. MaxRuns, i : 0 .. n - 1, value : Nat]

\* What a line of a record keeps.
RecordRow == [i : 0 .. n - 1, fault : Faults \cup {"none"}, decision : Decisions,
              amount : Nat, outcome : RowOutcomes]

NoItem == [fault |-> "none", decision |-> "execute", slash |-> 0,
           signers |-> {}, valid |-> {}, outcome |-> "NotSubmitted"]

NoRecords == [run |-> 0, partial |-> <<>>, finalRun |-> 0, final |-> NoRecord]

\* deploy.py: the operator is staked and credentialed, the wallets are funded and mandate it.
Init ==
    /\ threshold \in Thresholds
    /\ stake = minStake /\ k = 0
    /\ ledger = <<>> /\ mempool = <<>>
    /\ driver = [run |-> 0, dir |-> Nowhere, at |-> "done", i |-> 0, rows |-> <<>>, item |-> NoItem]
    /\ records = [d \in Dirs |-> NoRecords]
    /\ log = {}
    /\ unattended = FALSE

------------------------------------------------------------------------------
(* The chain.                                                                *)

Smaller(a, b) == IF a < b THEN a ELSE b
Larger(a, b)  == IF a > b THEN a ELSE b

slashAfter(violations) == baseSlash * (1 + violations)
requiredStake == Larger(minStake, slashAfter(k))
isCovered == stake >= requiredStake

\* The violations of the operator as of block b: one block per transaction.
ViolationsAt(b) == Cardinality({j \in 1 .. b : ledger[j].kind = "settle" /\ ledger[j].outcome = "Blocked"})

\* SettlementGate.settle.
OutcomeOf(tx) ==
    CASE tx.decision = "violate" -> "Blocked"
      [] tx.decision = "refuse"  -> "AgentRefused"
      [] OTHER -> IF isCovered THEN "Executed" ELSE "NotCovered"

\* The oldest transaction of the account is mined.
mine ==
    /\ mempool # <<>>
    /\ mempool' = Tail(mempool)
    /\ LET tx == Head(mempool)
           blocked == tx.kind = "settle" /\ tx.decision = "violate"
       IN /\ ledger' = Append(ledger, IF tx.kind = "settle" THEN [tx EXCEPT !.outcome = OutcomeOf(tx)] ELSE tx)
          /\ k' = IF blocked THEN k + 1 ELSE k
          /\ stake' = CASE tx.kind = "topUp" -> stake + tx.value
                        [] blocked -> stake - Smaller(stake, slashAfter(k))
                        [] OTHER -> stake
    /\ UNCHANGED <<threshold, driver, records, log, unattended>>

------------------------------------------------------------------------------
(* One transaction of the run.                                               *)

chain == <<threshold, stake, k, ledger>>

Go(at) == driver' = [driver EXCEPT !.at = at]

TopUpTx(value) == [kind |-> "topUp", run |-> driver.run, i |-> driver.i, value |-> value]

\* Variants of the operations, each with one slip; only the mutation runs use them.
MissingToMinimum == minStake - stake

\* What the stake is short of.
Missing == requiredStake - stake

\* Stake maintenance.  A wait that times out raises, here and nobody catches it.
cover ==
    /\ driver.at = "cover"
    /\ \/ isCovered /\ Go("prove") /\ UNCHANGED mempool
       \/ ~ isCovered /\ Go("topUp") /\ mempool' = Append(mempool, TopUpTx(Missing))
    /\ UNCHANGED <<chain, records, log, unattended>>

awaitTopUp ==
    /\ driver.at = "topUp"
    /\ ~ \E j \in DOMAIN mempool : mempool[j].kind = "topUp" /\ mempool[j].run = driver.run
    /\ Go("prove")
    /\ UNCHANGED <<chain, mempool, records, log, unattended>>

\* The slash is read, then the request is proven and perhaps falsified.
prove(decision, fault) ==
    /\ driver.at = "prove"
    /\ driver' = [driver EXCEPT !.at = "attest", !.item.slash = slashAfter(k),
                                !.item.decision = decision, !.item.fault = fault]
    /\ UNCHANGED <<chain, mempool, records, log, unattended>>

\* An honest validator may sign what is not falsified and matches the slash at a block of its
\* node, which may lag: the wait for the driver's block ends after ten seconds.
MaySign(item) ==
    item.fault = "none" /\ \E b \in 0 .. Len(ledger) : item.slash = slashAfter(ViolationsAt(b))

MayRefuse(item) ==
    item.fault # "none" \/ \E b \in 0 .. Len(ledger) : item.slash # slashAfter(ViolationsAt(b))

LoggedIfAnswered(signs) == IF signs THEN {} ELSE {[run |-> driver.run, i |-> driver.i, signed |-> FALSE]}

\* A validator logs its decision before it answers.
Logged(signs) == {[run |-> driver.run, i |-> driver.i, signed |-> signs]}

\* The answers that come back in time: signatures, which of a byzantine validator may be worth
\* nothing.  me may also have signed or refused without its answer getting through, or be away.
collect(signers, invalid) ==
    /\ driver.at = "attest"
    /\ MaySign(driver.item) \/ signers \subseteq Byzantine
    /\ \/ me \in signers /\ log' = log \cup Logged(TRUE)
       \/ me \notin signers /\ MaySign(driver.item) /\ log' = log \cup Logged(TRUE)
       \/ me \notin signers /\ MayRefuse(driver.item) /\ log' = log \cup Logged(FALSE)
       \/ me \notin signers /\ UNCHANGED log
    /\ driver' = [driver EXCEPT !.at = "settle", !.item.signers = signers, !.item.valid = signers \ invalid]
    /\ UNCHANGED <<chain, mempool, records, unattended>>

SettleTx(item) == [kind |-> "settle", run |-> driver.run, i |-> driver.i, decision |-> item.decision,
                   amount |-> amount(driver.i), signers |-> item.valid,
                   strangers |-> item.signers # item.valid, outcome |-> "None"]

Decide(outcome) == driver' = [driver EXCEPT !.at = "row", !.item.outcome = outcome]

\* With enough signatures the settlement is tried and sent; a trial that fails, whatever the
\* reason, counts as a refusal of the gate.  Without, the attempt is only a trial.
settle ==
    /\ driver.at = "settle"
    /\ \/ /\ Cardinality(driver.item.signers) < threshold
          /\ Decide("NotSubmitted") /\ UNCHANGED mempool
       \/ /\ Cardinality(driver.item.signers) >= threshold
          /\ Decide("Reverted") /\ UNCHANGED mempool
       \/ /\ Cardinality(driver.item.valid) >= threshold
          /\ mempool' = Append(mempool, SettleTx(driver.item)) /\ Go("wait")
    /\ UNCHANGED <<chain, records, log, unattended>>

MinedAs(tx, outcome) ==
    \E j \in DOMAIN ledger : ledger[j] = [tx EXCEPT !.outcome = outcome]

awaitSettlement ==
    /\ driver.at = "wait"
    /\ \E outcome \in Outcomes : MinedAs(SettleTx(driver.item), outcome) /\ Decide(outcome)
    /\ UNCHANGED <<chain, mempool, records, log, unattended>>

\* A wait that ends only with the transaction.
timeOutOnceMined ==
    /\ driver.at = "wait"
    /\ \E outcome \in Outcomes : MinedAs(SettleTx(driver.item), outcome)
    /\ Decide("Reverted")
    /\ unattended' = TRUE
    /\ UNCHANGED <<chain, mempool, records, log>>

\* wait_for_transaction_receipt gives up or fails; the exception counts as a refusal.
timeOut ==
    /\ driver.at = "wait"
    /\ Decide("Reverted")
    /\ unattended' = TRUE
    /\ UNCHANGED <<chain, mempool, records, log>>

Row == [i |-> driver.i, fault |-> driver.item.fault, decision |-> driver.item.decision,
        amount |-> amount(driver.i), outcome |-> driver.item.outcome]

RecordedAtTheEnd(row) == records

\* The row is appended to the partial record at once.
Recorded(row) == [records EXCEPT ![driver.dir].partial = Append(@, row)]

writeRow ==
    /\ driver.at = "row"
    /\ records' = Recorded(Row)
    /\ driver' = [driver EXCEPT !.at = IF driver.i + 1 < n THEN "cover" ELSE "finish",
                                !.i = @ + 1, !.rows = Append(@, Row), !.item = NoItem]
    /\ UNCHANGED <<chain, mempool, log, unattended>>

writeRecord ==
    /\ driver.at = "finish"
    /\ records' = [records EXCEPT ![driver.dir].final = driver.rows, ![driver.dir].finalRun = driver.run]
    /\ Go("unlink")
    /\ UNCHANGED <<chain, mempool, log, unattended>>

unlinkPartial ==
    /\ driver.at = "unlink"
    /\ records' = [records EXCEPT ![driver.dir].partial = <<>>, ![driver.dir].run = 0]
    /\ driver' = [driver EXCEPT !.at = "done", !.i = 0, !.rows = <<>>]
    /\ UNCHANGED <<chain, mempool, log, unattended>>

------------------------------------------------------------------------------
(* Runs.                                                                     *)

Over == driver.at \in {"done", "crashed"}

\* A run has nonces of its own, from its start time; an earlier partial record in its directory
\* is removed.
startRun(d) ==
    /\ Over /\ driver.run < MaxRuns
    /\ driver' = [run |-> driver.run + 1, dir |-> d, at |-> "cover", i |-> 0, rows |-> <<>>, item |-> NoItem]
    /\ records' = [records EXCEPT ![d].partial = <<>>, ![d].run = driver.run + 1]
    /\ UNCHANGED <<chain, mempool, log, unattended>>

\* The driver stops, or an exception nobody catches ends it (the top-up's wait, the prover).
crash ==
    /\ ~ Over
    /\ driver' = [driver EXCEPT !.at = "crashed", !.rows = <<>>, !.item = NoItem]
    /\ unattended' = (unattended \/ mempool # <<>>)
    /\ UNCHANGED <<chain, mempool, records, log>>

DriverStep ==
    \/ cover \/ awaitTopUp
    \/ \E decision \in Decisions, fault \in Faults \cup {"none"} : prove(decision, fault)
    \/ \E signers \in SUBSET Validators : \E invalid \in SUBSET (signers \cap Byzantine) : collect(signers, invalid)
    \/ settle \/ awaitSettlement \/ timeOut \/ writeRow \/ writeRecord \/ unlinkPartial

\* The wait for the top-up ends with an exception.
topUpTimesOut == driver.at = "topUp" /\ crash

Next == mine \/ DriverStep \/ crash \/ \E d \in Dirs : startRun(d)

\* The driver's steps are not put off for ever: every wait has a timeout.  Nothing is assumed of
\* the chain and the validators.
Spec == Init /\ [][Next]_vars /\ WF_vars(DriverStep \/ topUpTimesOut)

------------------------------------------------------------------------------
(* Properties.                                                               *)

TypeOK ==
    /\ threshold \in Thresholds /\ stake \in Nat /\ k \in Nat /\ unattended \in BOOLEAN
    /\ ledger \in Seq(Settlement \cup TopUp) /\ mempool \in Seq(Settlement \cup TopUp)
    /\ driver \in [run : 0 .. MaxRuns, dir : Dirs \cup {Nowhere}, i : 0 .. n, rows : Seq(RecordRow), item : Item,
                   at : {"cover", "topUp", "prove", "attest", "settle", "wait", "row", "finish", "unlink",
                         "done", "crashed"}]
    /\ records \in [Dirs -> [run : 0 .. MaxRuns, partial : Seq(RecordRow),
                             finalRun : 0 .. MaxRuns, final : Seq(RecordRow) \cup {NoRecord}]]
    /\ log \subseteq [run : 0 .. MaxRuns, i : 0 .. n - 1, signed : BOOLEAN]

SettleTxs == {ledger[j] : j \in DOMAIN ledger} \cup {mempool[j] : j \in DOMAIN mempool}

OfRequest(run, i) == {tx \in SettleTxs : tx.kind = "settle" /\ tx.run = run /\ tx.i = i}

\* What a record says of a request is what the chain did with it, except for a settlement the
\* driver gave up waiting for; nothing falsified is ever sent.
RowIsTrue(run, row) ==
    LET txs == OfRequest(run, row.i) IN
    /\ row.outcome \in Outcomes => {tx.outcome : tx \in txs} = {row.outcome}
    /\ row.outcome = "NotSubmitted" \/ row.fault # "none" => txs = {}
    /\ row.outcome = "Reverted" /\ txs # {} => unattended

\* "survives an interrupted run": whenever the driver stops, the record it leaves is true and
\* complete but for the one request it was at, until a run with the same directory removes it.
RecordSurvives ==
    \A d \in Dirs :
        /\ \A row \in ToSet(records[d].partial) : RowIsTrue(records[d].run, row)
        /\ records[d].final # NoRecord =>
              \A row \in ToSet(records[d].final) : RowIsTrue(records[d].finalRun, row)
        /\ records[d].run # 0 =>
              \A tx \in SettleTxs : tx.kind = "settle" /\ tx.run = records[d].run => tx.i <= Len(records[d].partial)

\* summarize, want: "stake maintenance keeps every agent covered".
want(decision) ==
    CASE decision = "execute" -> "Executed" [] decision = "violate" -> "Blocked" [] decision = "refuse" -> "AgentRefused"

\* summarize, of a record: what settled of the honest requests, and as want has it; and what moved
\* the ledger of those that were falsified.
summarize(rs) ==
    LET honestRows == {row \in ToSet(rs) : row.fault = "none"}
        settled    == {row \in honestRows : row.outcome \in Outcomes}
    IN [settled        |-> settled,
        expected       |-> {row \in settled : row.outcome = want(row.decision)},
        ledger_changed |-> {row \in ToSet(rs) \ honestRows : row.outcome \in {"Executed", "Blocked"}}]

\* Unless a transaction was left unattended, whatever settles has the outcome the decision asks
\* for, through any escalation.  So the summary of a run counts every honest settled request as an
\* expected one, and it never has to report that something falsified moved the ledger.
OutcomesExpected ==
    /\ ~ unattended =>
          \A j \in DOMAIN ledger : ledger[j].kind = "settle" => ledger[j].outcome = want(ledger[j].decision)
    /\ \A d \in Dirs :
          records[d].final # NoRecord =>
              /\ summarize(records[d].final).ledger_changed = {}
              /\ ~ unattended =>
                    summarize(records[d].final).expected = summarize(records[d].final).settled

\* A run ends, whatever validators and chain do: each answer and each receipt is waited for only
\* so long.
RunEnds == ~ Over ~> Over
==============================================================================
