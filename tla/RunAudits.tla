------------------------------ MODULE RunAudits ------------------------------
(***************************************************************************)
(* What is concluded from the records of the runs afterwards: the audit of *)
(* every run against the chain (integration/pipeline/audit_chain.py), the  *)
(* check an independent validator makes of its own decisions               *)
(* (check_my_validator.py), and the check of one run from both sides'      *)
(* records (evidence/independent_validator/ledger_check.py,                *)
(* cross_check.py).  They are made when nothing runs any more.             *)
(***************************************************************************)
EXTENDS PipelineDriver

CONSTANT auditQuorum     \* the signatures audit_chain asks for, whatever the gate's threshold

Quiet == Over /\ mempool = <<>>

Settlements == {j \in DOMAIN ledger : ledger[j].kind = "settle"}

\* Transactions are told apart by the run's start and the index in their nonce.
Group(run) == {j \in Settlements : ledger[j].run = run}
by_start   == {ledger[j].run : j \in Settlements}
Indices(S) == {ledger[j].i : j \in S}

Complete(d) == records[d].final # NoRecord
Used(d)     == Complete(d) \/ records[d].run # 0

rows(d) == ToSet(records[d].final)
settled_rows(d) == {row \in rows(d) : row.outcome # "NotSubmitted"}
honest(d) == {row \in rows(d) : row.fault = "none"}
IndicesOf(R) == {row.i : row \in R}

\* Variants with one slip; only the mutation runs use them.
candsIncluding(d) == {run \in by_start : IndicesOf(settled_rows(d)) \subseteq Indices(Group(run))}

------------------------------------------------------------------------------
(* audit_chain.                                                              *)

\* A run's start is not in its record: it is the group with exactly its settled indices.
cands(d) == {run \in by_start : Indices(Group(run)) = IndicesOf(settled_rows(d))}

SameAs(row, tx) == tx.amount = row.amount /\ tx.decision = row.decision /\ tx.outcome = row.outcome

WellSigned(tx) == Cardinality(tx.signers) >= auditQuorum /\ ~ tx.strangers

\* No error and no mismatch is reported for the run.
Clean(d) ==
    \E run \in by_start :
        /\ cands(d) = {run}
        /\ \A row \in settled_rows(d), j \in Group(run) :
               ledger[j].i = row.i => SameAs(row, ledger[j]) /\ WellSigned(ledger[j])

\* It opens transactions.csv in every directory, and there is something to write.
AuditCompletes == Settlements # {} /\ \A d \in Dirs : Used(d) => Complete(d)

------------------------------------------------------------------------------
(* The checks of an independent validator and of its evidence.               *)

MyEntry(tx, signs) == [run |-> tx.run, i |-> tx.i, signed |-> signs]
WithMe == {j \in Settlements : me \in ledger[j].signers}

check1 == \A j \in WithMe : MyEntry(ledger[j], TRUE) \in log
check2 == \A j \in WithMe : MyEntry(ledger[j], FALSE) \notin log
check3 == threshold = Cardinality(Validators) => WithMe = Settlements

Executed(j) == ledger[j].outcome = "Executed"

\* The customers pay the merchant and nobody else.
merchantBalance == SumFunction([j \in {j \in Settlements : Executed(j)} |-> ledger[j].amount])
executedSum(d)  == SumFunction([row \in {row \in rows(d) : row.outcome = "Executed"} |-> row.amount])

\* The reviewer's log begins with the run that is checked.
reviewedRun == CHOOSE run \in {entry.run : entry \in log} : \A entry \in log : run <= entry.run

ledger_check(d) ==
    /\ \A j \in Group(reviewedRun) :
          \E row \in honest(d) : row.i = ledger[j].i /\ SameAs(row, ledger[j])
    /\ \A j \in Group(reviewedRun) : ledger[j].signers = Validators /\ ~ ledger[j].strangers
    /\ \A i, j \in Group(reviewedRun) : ledger[i].i = ledger[j].i => i = j
    /\ Indices(Group(reviewedRun)) = IndicesOf(settled_rows(d))
    /\ merchantBalance = executedSum(d)

signedByMe == {entry.i : entry \in {e \in log : e.signed}}

cross_check(d) == IndicesOf(settled_rows(d)) = signedByMe /\ settled_rows(d) = honest(d)

------------------------------------------------------------------------------
(* Properties.                                                               *)

\* A run the audit finds nothing wrong with has been matched with its own transactions, although
\* neither names the other, and these are the record's settled requests, none of them falsified.
CleanMeansTrue(d) ==
    Clean(d) =>
        /\ cands(d) = {records[d].finalRun}
        /\ \A j \in Group(records[d].finalRun) :
              \E row \in honest(d) : row.i = ledger[j].i /\ row.outcome = ledger[j].outcome

\* A run whose record is whole and that is told apart by its indices is not reported.
TrueMeansClean(d) ==
    /\ settled_rows(d) # {} /\ \A row \in rows(d) : row.outcome # "Reverted"
    /\ \A j \in Group(records[d].finalRun) : WellSigned(ledger[j])
    /\ \A run \in by_start \ {records[d].finalRun} : Indices(Group(run)) # IndicesOf(settled_rows(d))
    => Clean(d)

\* The audit tells true records from others, whatever happened during the runs: "every honest
\* request the CSV reports as settled has exactly one successful settle transaction", "there are
\* no settle transactions the CSV does not account for" (audit_chain.py).
AuditsAreSound ==
    Quiet /\ AuditCompletes => \A d \in {e \in Dirs : Complete(e)} : CleanMeansTrue(d) /\ TrueMeansClean(d)

\* An honest validator's own checks never fail, whatever the operator and the others do; and when
\* both sides' records pass, every honest request of the run settled, once and with its signature,
\* and no other run moved money on this ledger.
EvidenceIsSound ==
    /\ check1 /\ check2 /\ check3
    /\ \A d \in {e \in Dirs : Complete(e)} :
          Quiet /\ log # {} /\ ledger_check(d) /\ cross_check(d) =>
              /\ \A row \in honest(d) :
                    Cardinality({j \in Group(reviewedRun) : ledger[j].i = row.i /\ j \in WithMe}) = 1
              /\ \A j \in Settlements : Executed(j) => ledger[j].run = reviewedRun
==============================================================================
