------------------------------- MODULE MCDriver -------------------------------
(***************************************************************************)
(* TLC instances of PipelineDriver and RunAudits.                          *)
(***************************************************************************)
EXTENDS RunAudits

CONSTANT MaxOdd

Requests == (1 .. MaxRuns) \X (0 .. n - 1)

\* A request in which something did not go as usual, as far as it has left a trace.
Odd(r) ==
    LET of(x) == x.run = r[1] /\ x.i = r[2]
        txs == {tx \in SettleTxs : tx.kind = "settle" /\ of(tx)}
        recorded == {d \in Dirs : records[d].run = r[1]}
    IN \/ \E tx \in txs : tx.decision # "execute" \/ tx.signers # Validators
       \/ \E entry \in log : of(entry) /\ ~ entry.signed
       \/ \E entry \in log : of(entry) /\ txs = {} /\ ~ (of(driver) /\ driver.at \in {"settle"})
       \/ \E d \in recorded : \E row \in ToSet(records[d].partial) : row.i = r[2] /\ row.outcome # "Executed"
       \/ of(driver) /\ driver.at \in {"attest", "settle", "wait", "row"}
             /\ (driver.item.fault # "none" \/ driver.item.decision # "execute")

\* At most MaxOdd of the requests, of both runs together; directories are interchangeable.
FewOdd ==
    /\ driver.run = 1 => driver.dir = CHOOSE d \in Dirs : TRUE
    /\ Cardinality({r \in Requests : Odd(r)}) <= MaxOdd
==============================================================================
