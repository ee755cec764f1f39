--------------------------- MODULE RunAudits_proofs ---------------------------
(***************************************************************************)
(* Proofs about PipelineDriver and RunAudits: whatever the chain, the      *)
(* validators and the moments at which the driver stops, the records of    *)
(* the runs are true, and so are the conclusions drawn from them.          *)
(***************************************************************************)
EXTENDS RunAudits, FiniteSetTheorems, SumLemmas

------------------------------------------------------------------------------
(* Types, and where the driver is.                                           *)

Working == driver.at \in {"cover", "topUp", "prove", "attest", "settle", "wait", "row"}

\* Between the first request and the last; the run is over when both records are as they stay.
PlaceInv ==
    /\ Working => driver.i < n
    /\ driver.at \in {"finish", "unlink"} => driver.i = n
    /\ driver.at # "done" => driver.run # 0 /\ driver.dir \in Dirs
    /\ driver.at = "done" => driver.i = 0

TypeInv == TypeOK /\ PlaceInv

LEMMA Assumed ==
    /\ Byzantine \subseteq Validators /\ me \in Validators /\ me \notin Byzantine
    /\ IsFiniteSet(Validators) /\ n \in Nat /\ n # 0 /\ MaxRuns \in Nat
    /\ baseSlash \in Nat /\ minStake \in Nat /\ Nowhere \notin Dirs /\ "none" \notin Faults
  BY DriverAssumption

\* What the next violation costs is a natural number.
LEMMA SlashIsNat == ASSUME NEW v \in Nat PROVE slashAfter(v) \in Nat
  BY Assumed DEF slashAfter

LEMMA RequiredIsNat == ASSUME k \in Nat PROVE requiredStake \in Nat
  BY Assumed, SlashIsNat DEF requiredStake, Larger

LEMMA TypeInit == Init => TypeInv
<1> SUFFICES ASSUME Init PROVE TypeInv
  OBVIOUS
<1>1. NoItem \in Item
  BY DEF NoItem, Item, Decisions, Outcomes, RowOutcomes
<1>2. NoRecords \in [run : 0 .. MaxRuns, partial : Seq(RecordRow), finalRun : 0 .. MaxRuns, final : Seq(RecordRow) \cup {NoRecord}]
  BY Assumed DEF NoRecords
<1>3. <<>> \in Seq(RecordRow) /\ <<>> \in Seq(Settlement \cup TopUp) /\ threshold \in Thresholds
  BY DEF Init
<1>4. 0 \in 0 .. MaxRuns /\ 0 \in 0 .. n /\ minStake \in Nat
  BY Assumed
<1>5. driver \in [run : 0 .. MaxRuns, dir : Dirs \cup {Nowhere}, i : 0 .. n, rows : Seq(RecordRow), item : Item,
                  at : {"cover", "topUp", "prove", "attest", "settle", "wait", "row", "finish", "unlink",
                        "done", "crashed"}]
  BY <1>1, <1>3, <1>4 DEF Init
<1>6. TypeOK
  BY <1>2, <1>3, <1>4, <1>5 DEF Init, TypeOK
<1>7. PlaceInv
  BY DEF Init, PlaceInv, Working
<1> QED
  BY <1>6, <1>7 DEF TypeInv

\* The driver, the records and the log each on their own: most steps change only one of them.
DriverOK ==
    driver \in [run : 0 .. MaxRuns, dir : Dirs \cup {Nowhere}, i : 0 .. n, rows : Seq(RecordRow), item : Item,
                at : {"cover", "topUp", "prove", "attest", "settle", "wait", "row", "finish", "unlink",
                      "done", "crashed"}]
RecordsOK ==
    records \in [Dirs -> [run : 0 .. MaxRuns, partial : Seq(RecordRow),
                          finalRun : 0 .. MaxRuns, final : Seq(RecordRow) \cup {NoRecord}]]

\* A transaction the driver sends is a transaction.
LEMMA SettleTxType == ASSUME TypeInv, driver.at = "settle" PROVE SettleTx(driver.item) \in Settlement
<1>1. driver.item \in Item /\ driver.i \in 0 .. n - 1 /\ driver.run \in 0 .. MaxRuns
  BY Assumed DEF TypeInv, TypeOK, PlaceInv, Working
<1> QED
  BY <1>1 DEF SettleTx, Settlement, Item, amount

LEMMA RowType == ASSUME TypeInv, driver.at = "row" PROVE Row \in RecordRow
<1>1. driver.item \in Item /\ driver.i \in 0 .. n - 1
  BY Assumed DEF TypeInv, TypeOK, PlaceInv, Working
<1> QED
  BY <1>1 DEF Row, RecordRow, Item, amount

\* What is mined is a transaction with an outcome.
LEMMA MinedType ==
    ASSUME NEW tx \in Settlement PROVE [tx EXCEPT !.outcome = OutcomeOf(tx)] \in Settlement /\ OutcomeOf(tx) \in Outcomes
<1>1. OutcomeOf(tx) \in Outcomes
  BY DEF OutcomeOf, Outcomes
<1> QED
  BY <1>1 DEF Settlement

LEMMA TypeStep == TypeInv /\ [Next]_vars => TypeInv'
<1> SUFFICES ASSUME TypeInv, [Next]_vars PROVE TypeInv'
  OBVIOUS
<1> USE Assumed
<1>a. TypeOK /\ DriverOK /\ RecordsOK /\ PlaceInv
  BY DEF TypeInv, TypeOK, DriverOK, RecordsOK
<1>b. driver.item \in Item /\ driver.i \in 0 .. n /\ driver.run \in 0 .. MaxRuns
  BY <1>a DEF DriverOK
<1>c. ASSUME DriverOK', RecordsOK', PlaceInv', UNCHANGED <<threshold, stake, k, ledger>>,
             UNCHANGED mempool \/ \E t \in Settlement \cup TopUp : mempool' = Append(mempool, t),
             unattended' \in BOOLEAN, UNCHANGED log
      PROVE  TypeInv'
  <2>1. mempool' \in Seq(Settlement \cup TopUp)
    <3>1. mempool \in Seq(Settlement \cup TopUp)
      BY <1>a DEF TypeOK
    <3>2. mempool' = mempool \/ \E t \in Settlement \cup TopUp : mempool' = Append(mempool, t)
      BY <1>c
    <3> QED
      BY <3>1, <3>2
  <2> QED
    BY <1>a, <1>c, <2>1 DEF TypeInv, TypeOK, DriverOK, RecordsOK
<1>d. <<>> \in Seq(RecordRow) /\ 0 \in 0 .. n /\ 0 \in 0 .. MaxRuns
  OBVIOUS
<1>1. CASE mine
  <2> DEFINE tx == Head(mempool)
  <2>1. mempool # <<>> /\ mempool \in Seq(Settlement \cup TopUp) /\ mempool' = Tail(mempool)
    BY <1>1, <1>a DEF mine, TypeOK
  <2>2. tx \in Settlement \cup TopUp /\ mempool' \in Seq(Settlement \cup TopUp)
    BY <2>1
  <2>3. ledger' = Append(ledger, IF tx.kind = "settle" THEN [tx EXCEPT !.outcome = OutcomeOf(tx)] ELSE tx)
    BY <1>1 DEF mine
  <2>4. (IF tx.kind = "settle" THEN [tx EXCEPT !.outcome = OutcomeOf(tx)] ELSE tx) \in Settlement \cup TopUp
    <3>1. CASE tx.kind = "settle"
      <4>1. tx \in Settlement
        BY <2>2, <3>1 DEF TopUp
      <4> QED
        BY <3>1, <4>1, MinedType
    <3> QED
      BY <2>2, <3>1
  <2>5. ledger' \in Seq(Settlement \cup TopUp)
    BY <2>3, <2>4, <1>a DEF TypeOK
  <2>6. k \in Nat /\ stake \in Nat /\ slashAfter(k) \in Nat
    BY <1>a, SlashIsNat DEF TypeOK
  <2>7. k' \in Nat
    BY <1>1, <2>6 DEF mine
  <2>8. tx.kind = "topUp" => tx.value \in Nat
    BY <2>2 DEF Settlement, TopUp
  <2>9. stake - Smaller(stake, slashAfter(k)) \in Nat
    BY <2>6 DEF Smaller
  <2>10. stake' = CASE tx.kind = "topUp" -> stake + tx.value
                    [] tx.kind = "settle" /\ tx.decision = "violate" -> stake - Smaller(stake, slashAfter(k))
                    [] OTHER -> stake
    BY <1>1 DEF mine
  <2>11. stake' \in Nat
    <3>1. CASE tx.kind = "topUp"
      BY <2>6, <2>8, <2>10, <3>1
    <3>2. CASE tx.kind # "topUp" /\ tx.kind = "settle" /\ tx.decision = "violate"
      BY <2>9, <2>10, <3>2
    <3>3. CASE tx.kind # "topUp" /\ ~ (tx.kind = "settle" /\ tx.decision = "violate")
      BY <2>6, <2>10, <3>3
    <3> QED
      BY <3>1, <3>2, <3>3
  <2>12. UNCHANGED <<threshold, driver, records, log, unattended>>
    BY <1>1 DEF mine
  <2> QED
    BY <1>a, <2>2, <2>5, <2>7, <2>11, <2>12 DEF TypeInv, TypeOK, PlaceInv, Working
<1>2. CASE cover
  <2>1. driver' = [driver EXCEPT !.at = "prove"] \/ driver' = [driver EXCEPT !.at = "topUp"]
    BY <1>2 DEF cover, Go
  <2>2. DriverOK' /\ PlaceInv' /\ RecordsOK'
    BY <1>2, <1>a, <2>1 DEF cover, DriverOK, PlaceInv, Working, RecordsOK
  <2>3. UNCHANGED mempool \/ (~ isCovered /\ mempool' = Append(mempool, TopUpTx(Missing)))
    BY <1>2 DEF cover
  <2>4. ASSUME ~ isCovered PROVE TopUpTx(Missing) \in TopUp
    <3>1. stake \in Nat /\ requiredStake \in Nat /\ stake < requiredStake
      BY <2>4, <1>a, RequiredIsNat DEF isCovered, TypeOK
    <3>2. Missing \in Nat
      BY <3>1 DEF Missing
    <3>3. driver.i \in 0 .. n - 1
      BY <1>2, <1>a, <1>b DEF cover, PlaceInv, Working
    <3> QED
      BY <1>b, <3>2, <3>3 DEF TopUpTx, TopUp
  <2> QED
    BY <1>c, <1>a, <2>2, <2>3, <2>4, <1>2 DEF cover, chain, TypeOK
<1>3. CASE awaitTopUp
  BY <1>3, <1>a, <1>c DEF awaitTopUp, Go, chain, DriverOK, PlaceInv, Working, RecordsOK, TypeOK
<1>4. ASSUME NEW decision \in Decisions, NEW fault \in Faults \cup {"none"}, prove(decision, fault)
      PROVE  TypeInv'
  <2>1. slashAfter(k) \in Nat
    BY <1>a, SlashIsNat DEF TypeOK
  <2>2. [driver.item EXCEPT !.slash = slashAfter(k), !.decision = decision, !.fault = fault] \in Item
    BY <1>b, <2>1 DEF Item
  <2>3. DriverOK'
    BY <1>4, <1>a, <2>2 DEF prove, DriverOK
  <2>4. PlaceInv' /\ RecordsOK'
    BY <1>4, <1>a DEF prove, DriverOK, PlaceInv, Working, RecordsOK
  <2> QED
    BY <1>4, <1>a, <1>c, <2>3, <2>4 DEF prove, chain, TypeOK
<1>5. ASSUME NEW signers \in SUBSET Validators, NEW invalid \in SUBSET (signers \cap Byzantine), collect(signers, invalid)
      PROVE  TypeInv'
  <2>1. [driver.item EXCEPT !.signers = signers, !.valid = signers \ invalid] \in Item
    BY <1>b DEF Item
  <2>2. DriverOK'
    BY <1>5, <1>a, <2>1 DEF collect, DriverOK
  <2>3. PlaceInv' /\ RecordsOK'
    BY <1>5, <1>a DEF collect, DriverOK, PlaceInv, Working, RecordsOK
  <2>4. driver.i \in 0 .. n - 1
    BY <1>5, <1>a, <1>b DEF collect, PlaceInv, Working
  <2>5. log' \subseteq [run : 0 .. MaxRuns, i : 0 .. n - 1, signed : BOOLEAN]
    <3> DEFINE E(b) == [run |-> driver.run, i |-> driver.i, signed |-> b]
    <3>1. log' = log \/ log' = log \cup {E(TRUE)} \/ log' = log \cup {E(FALSE)}
      BY <1>5 DEF collect, Logged
    <3>2. \A b \in BOOLEAN : E(b) \in [run : 0 .. MaxRuns, i : 0 .. n - 1, signed : BOOLEAN]
      BY <1>b, <2>4
    <3>3. log \subseteq [run : 0 .. MaxRuns, i : 0 .. n - 1, signed : BOOLEAN]
      BY <1>a DEF TypeOK
    <3> HIDE DEF E
    <3> QED
      BY <3>1, <3>2, <3>3
  <2> QED
    BY <1>5, <1>a, <2>2, <2>3, <2>5 DEF collect, chain, TypeOK, TypeInv, DriverOK, RecordsOK
<1>6. ASSUME NEW outcome \in RowOutcomes, Decide(outcome), driver.at \in {"settle", "wait"}
      PROVE  DriverOK' /\ PlaceInv'
  <2>1. [driver.item EXCEPT !.outcome = outcome] \in Item
    BY <1>b DEF Item
  <2>2. DriverOK'
    BY <1>6, <1>a, <2>1 DEF Decide, DriverOK
  <2> QED
    BY <1>6, <1>a, <2>2 DEF Decide, DriverOK, PlaceInv, Working
<1>7. CASE settle
  <2>1. ASSUME NEW outcome \in RowOutcomes, Decide(outcome), UNCHANGED mempool PROVE TypeInv'
    BY <1>6, <1>7, <1>a, <1>c, <2>1 DEF settle, chain, RecordsOK, TypeOK
  <2>2. CASE mempool' = Append(mempool, SettleTx(driver.item)) /\ Go("wait")
    <3>1. DriverOK' /\ PlaceInv' /\ RecordsOK'
      BY <1>7, <1>a, <2>2 DEF settle, Go, DriverOK, PlaceInv, Working, RecordsOK
    <3>2. SettleTx(driver.item) \in Settlement
      BY <1>7, SettleTxType DEF settle
    <3> QED
      BY <1>7, <1>a, <1>c, <2>2, <3>1, <3>2 DEF settle, chain, TypeOK
  <2>3. "NotSubmitted" \in RowOutcomes /\ "Reverted" \in RowOutcomes
    BY DEF RowOutcomes
  <2> QED
    BY <1>7, <2>1, <2>2, <2>3 DEF settle
<1>8. CASE awaitSettlement
  <2>1. PICK outcome \in Outcomes : Decide(outcome)
    BY <1>8 DEF awaitSettlement
  <2>2. outcome \in RowOutcomes
    BY DEF RowOutcomes
  <2> QED
    BY <1>6, <1>8, <1>a, <1>c, <2>1, <2>2 DEF awaitSettlement, chain, RecordsOK, TypeOK
<1>9. CASE timeOut
  BY <1>6, <1>9, <1>a, <1>c DEF timeOut, chain, RowOutcomes, RecordsOK, TypeOK
<1>10. CASE writeRow
  <2>1. Row \in RecordRow /\ NoItem \in Item /\ driver.i \in 0 .. n - 1 /\ driver.dir \in Dirs
    BY <1>10, <1>a, <1>b, RowType DEF writeRow, NoItem, Item, Decisions, Outcomes, RowOutcomes, PlaceInv, Working, TypeInv
  <2>2. Append(driver.rows, Row) \in Seq(RecordRow)
    BY <1>a, <2>1 DEF DriverOK
  <2>3. driver' = [driver EXCEPT !.at = IF driver.i + 1 < n THEN "cover" ELSE "finish",
                                 !.i = driver.i + 1, !.rows = Append(driver.rows, Row), !.item = NoItem]
    BY <1>10 DEF writeRow
  <2>4. DriverOK'
    <3>1. driver.i + 1 \in 0 .. n
      BY <2>1
    <3> QED
      BY <1>a, <2>1, <2>2, <2>3, <3>1 DEF DriverOK
  <2>5. PlaceInv'
    BY <1>a, <2>1, <2>3, <1>10 DEF writeRow, DriverOK, PlaceInv, Working
  <2>6. Append(records[driver.dir].partial, Row) \in Seq(RecordRow)
    BY <1>a, <2>1 DEF RecordsOK
  <2>7. RecordsOK'
    BY <1>10, <1>a, <2>1, <2>6 DEF writeRow, Recorded, RecordsOK
  <2> QED
    BY <1>10, <1>a, <1>c, <2>4, <2>5, <2>7 DEF writeRow, chain, TypeOK
<1>11. CASE writeRecord
  <2>1. DriverOK' /\ PlaceInv'
    BY <1>11, <1>a DEF writeRecord, Go, DriverOK, PlaceInv, Working
  <2>2. RecordsOK'
    <3>1. driver.rows \in Seq(RecordRow) \cup {NoRecord} /\ driver.run \in 0 .. MaxRuns
      BY <1>a DEF DriverOK
    <3>2. records' = [records EXCEPT ![driver.dir].final = driver.rows, ![driver.dir].finalRun = driver.run]
      BY <1>11 DEF writeRecord
    <3> QED
      BY <1>a, <3>1, <3>2 DEF RecordsOK
  <2> QED
    BY <1>11, <1>a, <1>c, <2>1, <2>2 DEF writeRecord, chain, TypeOK
<1>12. CASE unlinkPartial
  <2>1. DriverOK' /\ PlaceInv'
    BY <1>12, <1>a, <1>d DEF unlinkPartial, DriverOK, PlaceInv, Working
  <2>2. RecordsOK'
    BY <1>12, <1>a, <1>d DEF unlinkPartial, RecordsOK
  <2> QED
    BY <1>12, <1>a, <1>c, <2>1, <2>2 DEF unlinkPartial, chain, TypeOK
<1>13. CASE crash
  <2>1. NoItem \in Item
    BY DEF NoItem, Item, Decisions, Outcomes, RowOutcomes
  <2>2. DriverOK' /\ PlaceInv'
    BY <1>13, <1>a, <1>d, <2>1 DEF crash, Over, DriverOK, PlaceInv, Working
  <2> QED
    BY <1>13, <1>a, <1>c, <2>2 DEF crash, chain, TypeOK, RecordsOK
<1>14. ASSUME NEW d \in Dirs, startRun(d) PROVE TypeInv'
  <2>1. NoItem \in Item /\ driver.run + 1 \in 0 .. MaxRuns /\ driver.run + 1 # 0
    BY <1>14, <1>b DEF NoItem, Item, Decisions, Outcomes, RowOutcomes, startRun
  <2>2. DriverOK' /\ PlaceInv'
    BY <1>14, <1>a, <2>1 DEF startRun, DriverOK, PlaceInv, Working
  <2>3. RecordsOK'
    BY <1>14, <1>a, <1>d, <2>1 DEF startRun, RecordsOK
  <2> QED
    BY <1>14, <1>a, <1>c, <2>2, <2>3 DEF startRun, chain, TypeOK
<1>15. CASE UNCHANGED vars
  BY <1>15 DEF vars, TypeInv, TypeOK, PlaceInv, Working
<1> QED
  BY <1>1, <1>2, <1>3, <1>4, <1>5, <1>7, <1>8, <1>9, <1>10, <1>11, <1>12, <1>13, <1>14, <1>15 DEF Next, DriverStep

\* The driver and what it writes are well typed, and the driver is never past the last request.
THEOREM TypeCorrect == Spec => []TypeOK
<1>1. TypeInv => TypeOK
  BY DEF TypeInv
<1> QED
  BY TypeInit, TypeStep, <1>1, PTL DEF Spec

------------------------------------------------------------------------------
(* What was sent: at most one settlement of a request, and it stays.         *)

Sent == {tx \in SettleTxs : tx.kind = "settle"}

Same(t, u) == t.kind = "settle" /\ u.kind = "settle" /\ t.run = u.run /\ t.i = u.i

\* A settlement has an outcome once it is mined; no request has two of them, mined or waiting.
PoolInv ==
    /\ \A j \in DOMAIN mempool : mempool[j].kind = "settle" => mempool[j].outcome = "None"
    /\ \A j \in DOMAIN ledger : ledger[j].kind = "settle" => ledger[j].outcome \in Outcomes
    /\ \A i, j \in DOMAIN ledger : Same(ledger[i], ledger[j]) => i = j
    /\ \A i, j \in DOMAIN mempool : Same(mempool[i], mempool[j]) => i = j
    /\ \A i \in DOMAIN ledger, j \in DOMAIN mempool : ~ Same(ledger[i], mempool[j])

\* The driver came to the settlement of this request.
Reached(run, i) ==
    /\ run \in 1 .. driver.run
    /\ run = driver.run /\ driver.at # "done" =>
          i < driver.i \/ (driver.at \in {"wait", "row", "crashed"} /\ i = driver.i)

SentInv ==
    \A tx \in Sent : Reached(tx.run, tx.i) /\ tx.amount = amount(tx.i) /\ Cardinality(tx.signers) >= threshold

LEMMA PoolTypes ==
    ASSUME TypeInv
    PROVE  /\ ledger \in Seq(Settlement \cup TopUp) /\ mempool \in Seq(Settlement \cup TopUp)
           /\ SettleTxs \subseteq Settlement \cup TopUp /\ Sent \subseteq Settlement
           /\ \A tx \in Settlement \cup TopUp : tx.kind = "settle" <=> tx \in Settlement
<1>1. ledger \in Seq(Settlement \cup TopUp) /\ mempool \in Seq(Settlement \cup TopUp)
  BY DEF TypeInv, TypeOK
<1>2. SettleTxs \subseteq Settlement \cup TopUp
  BY <1>1 DEF SettleTxs
<1>3. \A tx \in Settlement \cup TopUp : tx.kind = "settle" <=> tx \in Settlement
  BY DEF Settlement, TopUp
<1> QED
  BY <1>1, <1>2, <1>3 DEF Sent

\* Of all steps, one mines, one sends a settlement, and no other changes what was sent.
Sends ==
    /\ settle /\ Cardinality(driver.item.valid) >= threshold /\ Go("wait")
    /\ mempool' = Append(mempool, SettleTx(driver.item))

LEMMA Steps ==
    ASSUME TypeInv, [Next]_vars
    PROVE  \/ mine
           \/ Sends /\ UNCHANGED <<threshold, ledger>>
           \/ UNCHANGED <<threshold, ledger, mempool>>
           \/ cover /\ ~ isCovered /\ UNCHANGED <<threshold, ledger>> /\ mempool' = Append(mempool, TopUpTx(Missing))
<1>1. CASE mine
  BY <1>1
<1>2. CASE cover
  BY <1>2 DEF cover, chain
<1>3. CASE awaitTopUp
  BY <1>3 DEF awaitTopUp, chain
<1>4. ASSUME NEW decision \in Decisions, NEW fault \in Faults \cup {"none"}, prove(decision, fault)
      PROVE  UNCHANGED <<threshold, ledger, mempool>>
  BY <1>4 DEF prove, chain
<1>5. ASSUME NEW signers \in SUBSET Validators, NEW invalid \in SUBSET (signers \cap Byzantine), collect(signers, invalid)
      PROVE  UNCHANGED <<threshold, ledger, mempool>>
  BY <1>5 DEF collect, chain
<1>6. CASE settle
  BY <1>6 DEF settle, chain, Sends
<1>7. CASE awaitSettlement \/ timeOut \/ writeRow \/ writeRecord \/ unlinkPartial
  BY <1>7 DEF awaitSettlement, timeOut, writeRow, writeRecord, unlinkPartial, chain
<1>8. CASE crash \/ \E d \in Dirs : startRun(d)
  BY <1>8 DEF crash, startRun, chain
<1>9. CASE UNCHANGED vars
  BY <1>9 DEF vars
<1> QED
  BY <1>1, <1>2, <1>3, <1>4, <1>5, <1>6, <1>7, <1>8, <1>9 DEF Next, DriverStep

\* What one account sends is mined in order: the settlement at the head gets its outcome.
MinedTx(tx) == IF tx.kind = "settle" THEN [tx EXCEPT !.outcome = OutcomeOf(tx)] ELSE tx

LEMMA MineMoves ==
    ASSUME TypeInv, mine
    PROVE  /\ mempool # <<>> /\ 1 \in DOMAIN mempool /\ Head(mempool) = mempool[1]
           /\ DOMAIN ledger' = DOMAIN ledger \cup {Len(ledger) + 1} /\ Len(ledger) + 1 \notin DOMAIN ledger
           /\ \A j \in DOMAIN ledger : ledger'[j] = ledger[j]
           /\ ledger'[Len(ledger) + 1] = MinedTx(mempool[1])
           /\ \A j \in DOMAIN mempool' : j + 1 \in DOMAIN mempool /\ mempool'[j] = mempool[j + 1]
           /\ \A j \in DOMAIN mempool : j = 1 \/ (j - 1 \in DOMAIN mempool' /\ mempool'[j - 1] = mempool[j])
<1>1. ledger \in Seq(Settlement \cup TopUp) /\ mempool \in Seq(Settlement \cup TopUp)
  BY PoolTypes
<1>2. mempool # <<>> /\ mempool' = Tail(mempool) /\ ledger' = Append(ledger, MinedTx(Head(mempool)))
  BY DEF mine, MinedTx
<1>3. Head(mempool) = mempool[1] /\ 1 \in DOMAIN mempool
  BY <1>1, <1>2
<1> DEFINE e == MinedTx(mempool[1])
<1>4. ledger' = Append(ledger, e)
  BY <1>2, <1>3
<1> HIDE DEF e
<1>5. DOMAIN ledger' = DOMAIN ledger \cup {Len(ledger) + 1} /\ Len(ledger) + 1 \notin DOMAIN ledger
  BY <1>1, <1>4
<1>6. /\ \A j \in DOMAIN ledger : ledger'[j] = ledger[j]
      /\ ledger'[Len(ledger) + 1] = e
  BY <1>1, <1>4
<1>7. \A j \in DOMAIN mempool' : j + 1 \in DOMAIN mempool /\ mempool'[j] = mempool[j + 1]
  BY <1>1, <1>2
<1>8. \A j \in DOMAIN mempool : j = 1 \/ (j - 1 \in DOMAIN mempool' /\ mempool'[j - 1] = mempool[j])
  BY <1>1, <1>2
<1> QED
  BY <1>2, <1>3, <1>5, <1>6, <1>7, <1>8 DEF e

\* The settlement that is mined keeps its run, index, decision, amount and signers.
LEMMA MinedKeeps ==
    ASSUME NEW tx \in Settlement \cup TopUp
    PROVE  /\ MinedTx(tx) \in Settlement \cup TopUp /\ MinedTx(tx).kind = tx.kind
           /\ tx.kind = "settle" =>
                 /\ MinedTx(tx).run = tx.run /\ MinedTx(tx).i = tx.i /\ MinedTx(tx).decision = tx.decision
                 /\ MinedTx(tx).amount = tx.amount /\ MinedTx(tx).signers = tx.signers
                 /\ MinedTx(tx).outcome = OutcomeOf(tx) /\ OutcomeOf(tx) \in Outcomes
<1>1. CASE tx.kind = "settle"
  <2>1. tx \in Settlement
    BY <1>1 DEF TopUp
  <2> QED
    BY <1>1, <2>1, MinedType DEF MinedTx, Settlement
<1> QED
  BY <1>1 DEF MinedTx

\* What was sent stays sent, the mined settlement with its outcome.
LEMMA SentMined ==
    ASSUME TypeInv, PoolInv, mine
    PROVE  Sent' = IF mempool[1].kind = "settle" THEN (Sent \ {mempool[1]}) \cup {MinedTx(mempool[1])} ELSE Sent
<1> DEFINE h == mempool[1]
<1>1. h \in Settlement \cup TopUp
  BY MineMoves, PoolTypes
<1>2. SettleTxs' = {ledger'[j] : j \in DOMAIN ledger'} \cup {mempool'[j] : j \in DOMAIN mempool'}
  BY DEF SettleTxs
<1>3. {ledger'[j] : j \in DOMAIN ledger'} = {ledger[j] : j \in DOMAIN ledger} \cup {MinedTx(h)}
  BY MineMoves
<1>4. {mempool[j] : j \in DOMAIN mempool} = {mempool'[j] : j \in DOMAIN mempool'} \cup {h}
  BY MineMoves, PoolTypes
<1>5. MinedTx(h).kind = h.kind
  BY <1>1, MinedKeeps
<1>6. CASE h.kind = "settle"
  <2>1. \A j \in DOMAIN mempool' : mempool'[j] # h
    <3> SUFFICES ASSUME NEW j \in DOMAIN mempool', mempool'[j] = h PROVE FALSE
      OBVIOUS
    <3>1. j + 1 \in DOMAIN mempool /\ mempool[j + 1] = h /\ 1 \in DOMAIN mempool
      BY MineMoves
    <3>2. j + 1 = 1
      BY <3>1, <1>6 DEF PoolInv, Same
    <3>3. j \in DOMAIN mempool' /\ j \in Nat \ {0}
      BY PoolTypes DEF mine
    <3> QED
      BY <3>2, <3>3
  <2>2. \A j \in DOMAIN ledger : ledger[j] # h
    <3>1. 1 \in DOMAIN mempool
      BY MineMoves
    <3> QED
      BY <3>1, <1>6 DEF PoolInv, Same
  <2> QED
    BY <1>2, <1>3, <1>4, <1>5, <1>6, <2>1, <2>2 DEF Sent, SettleTxs
<1>7. CASE h.kind # "settle"
  BY <1>2, <1>3, <1>4, <1>5, <1>7 DEF Sent, SettleTxs
<1> QED
  BY <1>6, <1>7

\* A transaction appended to the mempool is one more that was sent.
LEMMA Appended ==
    ASSUME TypeInv, NEW t \in Settlement \cup TopUp, ledger' = ledger, mempool' = Append(mempool, t)
    PROVE  /\ SettleTxs' = SettleTxs \cup {t}
           /\ DOMAIN mempool' = DOMAIN mempool \cup {Len(mempool) + 1} /\ Len(mempool) + 1 \notin DOMAIN mempool
           /\ \A j \in DOMAIN mempool : mempool'[j] = mempool[j]
           /\ mempool'[Len(mempool) + 1] = t
<1>1. mempool \in Seq(Settlement \cup TopUp)
  BY PoolTypes
<1>2. DOMAIN mempool' = DOMAIN mempool \cup {Len(mempool) + 1} /\ Len(mempool) + 1 \notin DOMAIN mempool
  BY <1>1
<1>3. (\A j \in DOMAIN mempool : mempool'[j] = mempool[j]) /\ mempool'[Len(mempool) + 1] = t
  BY <1>1
<1>4. {mempool'[j] : j \in DOMAIN mempool'} = {mempool[j] : j \in DOMAIN mempool} \cup {t}
  BY <1>2, <1>3
<1> QED
  BY <1>2, <1>3, <1>4 DEF SettleTxs

\* The request the driver is at was not sent before.
LEMMA SentAppended ==
    ASSUME TypeInv, Sends, ledger' = ledger
    PROVE  SettleTx(driver.item) \in Settlement /\ Sent' = Sent \cup {SettleTx(driver.item)}
<1>1. SettleTx(driver.item) \in Settlement /\ mempool' = Append(mempool, SettleTx(driver.item))
  BY SettleTxType DEF Sends, settle
<1> DEFINE t == SettleTx(driver.item)
<1> HIDE DEF t
<1>2. t \in Settlement /\ mempool' = Append(mempool, t) /\ t.kind = "settle"
  BY <1>1 DEF t, Settlement
<1>3. SettleTxs' = SettleTxs \cup {t}
  BY <1>2, Appended
<1>4. Sent' = {tx \in SettleTxs' : tx.kind = "settle"}
  BY DEF Sent
<1>5. Sent' = Sent \cup {t}
  BY <1>2, <1>3, <1>4 DEF Sent
<1> QED
  BY <1>1, <1>5 DEF t

LEMMA TopUpSent ==
    ASSUME TypeInv, ledger' = ledger, mempool' = Append(mempool, TopUpTx(Missing)), cover, ~ isCovered
    PROVE  TopUpTx(Missing) \in TopUp /\ Sent' = Sent
<1>1. stake \in Nat /\ requiredStake \in Nat /\ stake < requiredStake
  BY RequiredIsNat DEF isCovered, TypeInv, TypeOK
<1>2. Missing \in Nat
  BY <1>1 DEF Missing
<1>3. driver.i \in 0 .. n - 1 /\ driver.run \in 0 .. MaxRuns
  BY Assumed DEF cover, PlaceInv, Working, TypeInv, TypeOK
<1>4. TopUpTx(Missing) \in TopUp /\ TopUpTx(Missing).kind = "topUp"
  BY <1>2, <1>3 DEF TopUpTx, TopUp
<1>5. SettleTxs' = SettleTxs \cup {TopUpTx(Missing)}
  BY <1>4, Appended
<1>6. Sent' = {tx \in SettleTxs' : tx.kind = "settle"}
  BY DEF Sent
<1> QED
  BY <1>4, <1>5, <1>6 DEF Sent

\* How a step changes what was sent.
LEMMA SentSteps ==
    ASSUME TypeInv, PoolInv, [Next]_vars
    PROVE  \/ /\ mine /\ mempool[1].kind = "settle" /\ mempool[1] \in Sent /\ mempool[1].outcome = "None"
              /\ Sent' = (Sent \ {mempool[1]}) \cup {MinedTx(mempool[1])}
           \/ Sends /\ SettleTx(driver.item) \in Settlement /\ Sent' = Sent \cup {SettleTx(driver.item)}
           \/ Sent' = Sent
<1>1. CASE mine
  <2>1. 1 \in DOMAIN mempool
    BY <1>1, MineMoves
  <2>2. mempool[1].kind = "settle" => mempool[1] \in Sent /\ mempool[1].outcome = "None"
    BY <2>1 DEF Sent, SettleTxs, PoolInv
  <2> QED
    BY <1>1, <2>2, SentMined
<1>2. CASE Sends /\ UNCHANGED <<threshold, ledger>>
  BY <1>2, SentAppended
<1>3. CASE UNCHANGED <<threshold, ledger, mempool>>
  BY <1>3 DEF Sent, SettleTxs
<1>4. CASE cover /\ ~ isCovered /\ UNCHANGED <<threshold, ledger>> /\ mempool' = Append(mempool, TopUpTx(Missing))
  BY <1>4, TopUpSent
<1> QED
  BY <1>1, <1>2, <1>3, <1>4, Steps

\* The driver's way through a run.
Moves ==
    \/ driver' = driver
    \/ /\ driver'.run = driver.run /\ driver'.i = driver.i
       /\ driver'.at # "done" /\ driver.at # "done"
       /\ driver.at \in {"wait", "row", "crashed"} => driver'.at \in {"row", "crashed"}
       /\ driver.at \in {"settle", "wait", "row", "crashed"} => driver'.at \in {"wait", "row", "crashed"}
    \/ driver'.run = driver.run /\ driver'.i = driver.i + 1 /\ driver.at = "row" /\ driver'.at \in {"cover", "finish"}
    \/ driver'.run = driver.run /\ driver'.at = "done" /\ driver.at = "unlink"
    \/ driver'.run = driver.run + 1 /\ driver'.at = "cover" /\ driver'.i = 0 /\ Over

LEMMA DriverMoves == ASSUME TypeInv, [Next]_vars PROVE Moves
<1>a. DriverOK
  BY DEF TypeInv, TypeOK, DriverOK
<1>1. CASE mine
  BY <1>1 DEF mine, Moves
<1>2. CASE cover \/ awaitTopUp
  BY <1>2, <1>a DEF cover, awaitTopUp, Go, Moves, DriverOK
<1>3. ASSUME NEW decision \in Decisions, NEW fault \in Faults \cup {"none"}, prove(decision, fault)
      PROVE  Moves
  BY <1>3, <1>a DEF prove, Moves, DriverOK
<1>4. ASSUME NEW signers \in SUBSET Validators, NEW invalid \in SUBSET (signers \cap Byzantine), collect(signers, invalid)
      PROVE  Moves
  BY <1>4, <1>a DEF collect, Moves, DriverOK
<1>5. CASE settle
  BY <1>5, <1>a DEF settle, Go, Decide, Moves, DriverOK
<1>6. CASE awaitSettlement \/ timeOut
  BY <1>6, <1>a DEF awaitSettlement, timeOut, Decide, Moves, DriverOK
<1>7. CASE writeRow
  <2>1. driver'.run = driver.run /\ driver'.i = driver.i + 1 /\ driver.at = "row" /\ driver'.at \in {"cover", "finish"}
    BY <1>7, <1>a DEF writeRow, DriverOK
  <2> QED
    BY <2>1 DEF Moves
<1>8. CASE writeRecord
  BY <1>8, <1>a DEF writeRecord, Go, Moves, DriverOK
<1>9. CASE unlinkPartial
  BY <1>9, <1>a DEF unlinkPartial, Moves, DriverOK
<1>10. CASE crash
  BY <1>10, <1>a DEF crash, Over, Moves, DriverOK
<1>11. ASSUME NEW d \in Dirs, startRun(d) PROVE Moves
  BY <1>11, <1>a DEF startRun, Moves, DriverOK
<1>12. CASE UNCHANGED vars
  BY <1>12 DEF vars, Moves
<1> QED
  BY <1>1, <1>2, <1>3, <1>4, <1>5, <1>6, <1>7, <1>8, <1>9, <1>10, <1>11, <1>12 DEF Next, DriverStep

\* The driver does not come back to a request.
LEMMA ReachedKept ==
    ASSUME TypeInv, [Next]_vars, NEW run \in Int, NEW i \in Int, Reached(run, i)
    PROVE  Reached(run, i)'
<1>1. driver.run \in Nat /\ driver.i \in Nat /\ (driver.at = "done" => driver.i = 0)
  BY Assumed DEF TypeInv, TypeOK, PlaceInv
<1>2. Moves
  BY DriverMoves
<1> QED
  BY <1>1, <1>2 DEF Moves, Reached, Over

LEMMA SentInit == Init => PoolInv /\ SentInv
  BY DEF Init, PoolInv, SentInv, Sent, SettleTxs

LEMMA SentStep == TypeInv /\ PoolInv /\ SentInv /\ [Next]_vars => SentInv'
<1> SUFFICES ASSUME TypeInv, PoolInv, SentInv, [Next]_vars, NEW tx \in Sent'
             PROVE  Reached(tx.run, tx.i)' /\ tx.amount = amount(tx.i) /\ Cardinality(tx.signers) >= threshold'
  BY DEF SentInv, amount
<1>1. threshold' = threshold
  BY Steps DEF mine
<1>2. Sent \subseteq Settlement
  BY PoolTypes
<1>3. ASSUME NEW t \in Sent
      PROVE  /\ Reached(t.run, t.i)' /\ t.amount = amount(t.i) /\ Cardinality(t.signers) >= threshold'
  <2>1. t.run \in Int /\ t.i \in Int
    BY <1>2, Assumed DEF Settlement
  <2>2. Reached(t.run, t.i) /\ t.amount = amount(t.i) /\ Cardinality(t.signers) >= threshold
    BY DEF SentInv
  <2> QED
    BY <1>1, <2>1, <2>2, ReachedKept
<1>4. CASE tx \in Sent
  BY <1>3, <1>4
<1>5. CASE mine /\ mempool[1] \in Sent /\ tx = MinedTx(mempool[1])
  <2>1. tx.run = mempool[1].run /\ tx.i = mempool[1].i /\ tx.amount = mempool[1].amount /\ tx.signers = mempool[1].signers
    BY <1>2, <1>5, MinedKeeps, PoolTypes DEF Sent
  <2>2. PICK t \in Sent : t = mempool[1]
    BY <1>5
  <2> QED
    BY <1>3, <2>1, <2>2
<1>6. CASE Sends /\ tx = SettleTx(driver.item)
  <2>1. tx.run = driver.run /\ tx.i = driver.i /\ tx.amount = amount(driver.i) /\ tx.signers = driver.item.valid
    BY <1>6 DEF SettleTx
  <2>2. driver'.run = driver.run /\ driver'.i = driver.i /\ driver'.at = "wait"
    BY <1>6 DEF Sends, Go, TypeInv, TypeOK
  <2>3. driver.run \in 1 .. driver.run
    BY <1>6, Assumed DEF Sends, settle, TypeInv, TypeOK, PlaceInv
  <2>4. Reached(tx.run, tx.i)'
    BY <2>1, <2>2, <2>3 DEF Reached
  <2> QED
    BY <1>1, <1>6, <2>1, <2>4 DEF Sends
<1> QED
  BY <1>4, <1>5, <1>6, SentSteps

LEMMA PoolStep == TypeInv /\ PoolInv /\ SentInv /\ [Next]_vars => PoolInv'
<1> SUFFICES ASSUME TypeInv, PoolInv, SentInv, [Next]_vars PROVE PoolInv'
  OBVIOUS
<1>1. CASE mine
  <2>1. mempool[1] \in Settlement \cup TopUp /\ 1 \in DOMAIN mempool
    BY <1>1, PoolTypes, MineMoves
  <2> DEFINE h == mempool[1]
             e == MinedTx(h)
  <2>2. /\ e.kind = h.kind
        /\ h.kind = "settle" => e.run = h.run /\ e.i = h.i /\ e.outcome \in Outcomes
    BY <2>1, MinedKeeps
  <2>3. /\ DOMAIN ledger' = DOMAIN ledger \cup {Len(ledger) + 1} /\ Len(ledger) + 1 \notin DOMAIN ledger
        /\ \A j \in DOMAIN ledger : ledger'[j] = ledger[j]
        /\ ledger'[Len(ledger) + 1] = e
        /\ \A j \in DOMAIN mempool' : j + 1 \in DOMAIN mempool /\ mempool'[j] = mempool[j + 1] /\ j + 1 # 1
    <3>1. \A j \in DOMAIN mempool' : j + 1 # 1
      BY <1>1, PoolTypes DEF mine
    <3> QED
      BY <1>1, <3>1, MineMoves
  <2> HIDE DEF h, e
  <2>4. \A t : Same(e, t) => Same(h, t)
    BY <2>2 DEF Same
  <2>5. \A t : Same(t, e) => Same(t, h)
    BY <2>2 DEF Same
  <2>6. \A j \in DOMAIN mempool' : mempool'[j].kind = "settle" => mempool'[j].outcome = "None"
    BY <2>3 DEF PoolInv
  <2>7. \A j \in DOMAIN ledger' : ledger'[j].kind = "settle" => ledger'[j].outcome \in Outcomes
    BY <2>2, <2>3 DEF PoolInv
  <2>8. \A i, j \in DOMAIN ledger' : Same(ledger'[i], ledger'[j]) => i = j
    <3>1. \A j \in DOMAIN ledger : ~ Same(ledger[j], h)
      BY <2>1 DEF PoolInv, h
    <3>2. \A j \in DOMAIN ledger : ~ Same(h, ledger[j])
      BY <3>1 DEF Same
    <3> QED
      BY <2>3, <2>4, <2>5, <3>1, <3>2 DEF PoolInv
  <2>9. \A i, j \in DOMAIN mempool' : Same(mempool'[i], mempool'[j]) => i = j
    <3> SUFFICES ASSUME NEW i \in DOMAIN mempool', NEW j \in DOMAIN mempool', Same(mempool'[i], mempool'[j]) PROVE i = j
      OBVIOUS
    <3>1. i + 1 = j + 1
      BY <2>3 DEF PoolInv
    <3>2. i \in Int /\ j \in Int
      BY <1>1, PoolTypes DEF mine
    <3> QED
      BY <3>1, <3>2
  <2>10. \A i \in DOMAIN ledger', j \in DOMAIN mempool' : ~ Same(ledger'[i], mempool'[j])
    <3> SUFFICES ASSUME NEW i \in DOMAIN ledger', NEW j \in DOMAIN mempool', Same(ledger'[i], mempool'[j]) PROVE FALSE
      OBVIOUS
    <3>1. i \notin DOMAIN ledger
      BY <2>3 DEF PoolInv
    <3>2. Same(h, mempool[j + 1]) /\ j + 1 \in DOMAIN mempool /\ j + 1 # 1
      BY <2>3, <2>4, <3>1
    <3> QED
      BY <2>1, <3>2 DEF PoolInv, h
  <2> QED
    BY <2>6, <2>7, <2>8, <2>9, <2>10 DEF PoolInv
<1>2. ASSUME NEW t \in Settlement \cup TopUp, UNCHANGED ledger, mempool' = Append(mempool, t),
             t.kind = "settle" => t.outcome = "None" /\ \A u \in SettleTxs : ~ Same(u, t)
      PROVE  PoolInv'
  <2>1. /\ DOMAIN mempool' = DOMAIN mempool \cup {Len(mempool) + 1}
        /\ \A j \in DOMAIN mempool : mempool'[j] = mempool[j]
        /\ mempool'[Len(mempool) + 1] = t
    BY <1>2, Appended
  <2>2. (\A j \in DOMAIN mempool : ~ Same(mempool[j], t)) /\ \A j \in DOMAIN ledger : ~ Same(ledger[j], t)
    BY <1>2 DEF SettleTxs, Same
  <2>3. \A j \in DOMAIN mempool : ~ Same(t, mempool[j])
    BY <2>2 DEF Same
  <2> QED
    BY <1>2, <2>1, <2>2, <2>3 DEF PoolInv
<1>3. CASE Sends /\ UNCHANGED ledger
  <2> DEFINE t == SettleTx(driver.item)
  <2>1. t \in Settlement /\ mempool' = Append(mempool, t) /\ t.outcome = "None" /\ t.run = driver.run /\ t.i = driver.i
    BY <1>3, SettleTxType DEF Sends, settle, SettleTx
  <2>2. driver.at = "settle" /\ driver.i \in Int
    BY <1>3 DEF Sends, settle, TypeInv, TypeOK
  <2>3. \A u \in SettleTxs : ~ Same(u, t)
    <3> SUFFICES ASSUME NEW u \in SettleTxs, Same(u, t) PROVE FALSE
      OBVIOUS
    <3>1. u \in Sent /\ u.run = driver.run /\ u.i = driver.i
      BY <2>1 DEF Same, Sent
    <3>2. Reached(driver.run, driver.i)
      BY <3>1 DEF SentInv
    <3> QED
      BY <2>2, <3>2 DEF Reached
  <2> QED
    BY <1>2, <1>3, <2>1, <2>3
<1>4. CASE cover /\ ~ isCovered /\ UNCHANGED ledger /\ mempool' = Append(mempool, TopUpTx(Missing))
  <2>1. TopUpTx(Missing) \in TopUp
    BY <1>4, TopUpSent
  <2>2. TopUpTx(Missing).kind # "settle"
    BY DEF TopUpTx
  <2> QED
    BY <1>2, <1>4, <2>1, <2>2
<1>5. CASE UNCHANGED <<ledger, mempool>>
  BY <1>5 DEF PoolInv
<1> QED
  BY <1>1, <1>3, <1>4, <1>5, Steps

\* At most one settlement of a request is ever sent, by runs that are past the request.
SentOnce == TypeInv /\ PoolInv /\ SentInv

LEMMA OneOfRequest ==
    ASSUME PoolInv, NEW t \in Sent, NEW u \in Sent, t.run = u.run, t.i = u.i
    PROVE  t = u
<1>1. Same(t, u) /\ Same(u, t)
  BY DEF Same, Sent
<1> QED
  BY <1>1 DEF PoolInv, Sent, SettleTxs

------------------------------------------------------------------------------
(* The records.                                                              *)

\* The rows of a record are those of the requests from the first on, each once.
InOrder(rs) == \A j \in DOMAIN rs : rs[j].i = j - 1 /\ rs[j].amount = amount(j - 1)

\* What a directory holds, given where the driver is: a partial record belongs to one run only,
\* and a record of all requests is there only after the last of them.
DirInv(r, d) ==
    /\ r.run <= driver.run /\ r.finalRun <= driver.run
    /\ r.run = 0 => r.partial = <<>>
    /\ r.run # 0 /\ r.run = driver.run => d = driver.dir /\ driver.at # "done"
    /\ InOrder(r.partial)
    /\ r.final # NoRecord =>
          /\ r.finalRun # 0 /\ Len(r.final) = n /\ InOrder(r.final)
          /\ r.finalRun = driver.run => driver.at \in {"unlink", "done", "crashed"}

\* The directory the driver writes to.
OwnInv ==
    /\ driver.at # "done" => /\ records[driver.dir].run = driver.run
                             /\ Len(records[driver.dir].partial) = driver.i
    /\ ~ Over => driver.rows = records[driver.dir].partial

RecordInv == (\A d \in Dirs : DirInv(records[d], d)) /\ OwnInv

LEMMA RecordInit == Init => RecordInv
  BY DEF Init, RecordInv, DirInv, OwnInv, Over, NoRecords, InOrder

LEMMA RecordTypes ==
    ASSUME TypeInv, NEW d \in Dirs
    PROVE  /\ records[d].run \in 0 .. MaxRuns /\ records[d].finalRun \in 0 .. MaxRuns
           /\ records[d].partial \in Seq(RecordRow)
           /\ records[d].final # NoRecord => records[d].final \in Seq(RecordRow)
  BY DEF TypeInv, TypeOK

\* Steps that do not write keep the records in order as long as the driver moves on.
LEMMA RecordKept ==
    ASSUME TypeInv, RecordInv, records' = records, driver'.run = driver.run, driver'.i = driver.i,
           driver'.dir = driver.dir, driver.at # "done", driver'.at # "done",
           driver.at \in {"unlink", "crashed"} => driver'.at = "crashed",
           driver'.at = "crashed" \/ (driver'.rows = driver.rows /\ ~ Over)
    PROVE  RecordInv'
<1>1. OwnInv'
  BY DEF RecordInv, OwnInv, Over
<1>2. ASSUME NEW d \in Dirs PROVE DirInv(records[d], d)'
  <2>1. DirInv(records[d], d)
    BY DEF RecordInv
  <2> QED
    BY <2>1 DEF DirInv, InOrder, amount
<1> QED
  BY <1>1, <1>2 DEF RecordInv

LEMMA RecordStep == TypeInv /\ RecordInv /\ [Next]_vars => RecordInv'
<1> SUFFICES ASSUME TypeInv, RecordInv, [Next]_vars PROVE RecordInv'
  OBVIOUS
<1> USE Assumed
<1>a. DriverOK /\ RecordsOK /\ PlaceInv
  BY DEF TypeInv, TypeOK, DriverOK, RecordsOK
<1>1. CASE mine
  BY <1>1 DEF mine, RecordInv, DirInv, OwnInv, Over, InOrder, amount
<1>2. CASE cover \/ awaitTopUp
  BY <1>2, <1>a, RecordKept DEF cover, awaitTopUp, Go, DriverOK, Over
<1>3. ASSUME NEW decision \in Decisions, NEW fault \in Faults \cup {"none"}, prove(decision, fault)
      PROVE  RecordInv'
  BY <1>3, <1>a, RecordKept DEF prove, DriverOK, Over
<1>4. ASSUME NEW signers \in SUBSET Validators, NEW invalid \in SUBSET (signers \cap Byzantine), collect(signers, invalid)
      PROVE  RecordInv'
  BY <1>4, <1>a, RecordKept DEF collect, DriverOK, Over
<1>5. CASE settle
  BY <1>5, <1>a, RecordKept DEF settle, Go, Decide, DriverOK, Over
<1>6. CASE awaitSettlement \/ timeOut
  BY <1>6, <1>a, RecordKept DEF awaitSettlement, timeOut, Decide, DriverOK, Over
<1>7. CASE crash
  BY <1>7, <1>a, RecordKept DEF crash, DriverOK, Over
<1>8. CASE writeRow
  <2> DEFINE D == driver.dir
             row == Row
             added == Append(records[D].partial, row)
  <2>1. D \in Dirs /\ driver.i \in 0 .. n - 1 /\ row.i = driver.i /\ row.amount = amount(driver.i) /\ driver.at = "row"
    BY <1>8, <1>a DEF writeRow, PlaceInv, Working, DriverOK, Row
  <2>2. row \in RecordRow
    BY <1>8, RowType DEF writeRow
  <2>3. /\ driver'.run = driver.run /\ driver'.dir = driver.dir /\ driver'.i = driver.i + 1
        /\ driver'.at \in {"cover", "finish"} /\ driver'.rows = Append(driver.rows, row)
    BY <1>8, <1>a DEF writeRow, DriverOK
  <2>4. records[D].partial \in Seq(RecordRow) /\ Len(records[D].partial) = driver.i /\ records[D].run = driver.run
        /\ driver.rows = records[D].partial
    BY <2>1, RecordTypes DEF RecordInv, OwnInv, Over
  <2>5. records' = [records EXCEPT ![D].partial = added]
    BY <1>8 DEF writeRow, Recorded
  <2> HIDE DEF row, D
  <2>6. added \in Seq(RecordRow) /\ Len(added) = driver.i + 1
    BY <2>2, <2>4
  <2>7. InOrder(added)
    <3>1. InOrder(records[D].partial)
      BY <2>1 DEF RecordInv, DirInv
    <3>2. \A j \in DOMAIN added : j \in DOMAIN records[D].partial \/ j = driver.i + 1
      BY <2>2, <2>4
    <3>3. \A j \in DOMAIN records[D].partial : added[j] = records[D].partial[j]
      BY <2>2, <2>4
    <3>4. added[driver.i + 1] = row /\ driver.i + 1 - 1 = driver.i
      BY <2>1, <2>2, <2>4
    <3> QED
      BY <2>1, <3>1, <3>2, <3>3, <3>4 DEF InOrder
  <2> HIDE DEF added
  <2>8. /\ \A d \in Dirs : d # D => records'[d] = records[d]
        /\ records'[D].run = driver.run /\ records'[D].partial = added
        /\ records'[D].final = records[D].final /\ records'[D].finalRun = records[D].finalRun
    BY <1>a, <2>1, <2>4, <2>5 DEF RecordsOK
  <2>9. OwnInv'
    BY <2>3, <2>4, <2>6, <2>8 DEF OwnInv, Over, D, added
  <2>10. ASSUME NEW d \in Dirs PROVE DirInv(records[d], d)'
    <3>1. DirInv(records[d], d)
      BY DEF RecordInv
    <3>2. CASE d = D
      <4>1. driver.run \in 0 .. MaxRuns /\ driver.run # 0 /\ D = driver.dir
        BY <1>a, <2>1 DEF PlaceInv, DriverOK, D
      <4> QED
        BY <2>1, <2>3, <2>7, <2>8, <3>1, <3>2, <4>1 DEF DirInv, InOrder, amount
    <3>3. CASE d # D
      <4>1. records'[d] = records[d]
        BY <2>8, <3>3
      <4> QED
        BY <2>1, <2>3, <3>1, <4>1 DEF DirInv, InOrder, amount
    <3> QED
      BY <3>2, <3>3
  <2> QED
    BY <2>9, <2>10 DEF RecordInv
<1>9. CASE writeRecord
  <2> DEFINE D == driver.dir
  <2>1. D \in Dirs /\ driver.i = n /\ driver.at = "finish" /\ driver.run # 0 /\ driver.run \in 0 .. MaxRuns
    BY <1>9, <1>a DEF writeRecord, PlaceInv, DriverOK
  <2>2. /\ driver'.run = driver.run /\ driver'.dir = driver.dir /\ driver'.i = driver.i
        /\ driver'.at = "unlink" /\ driver'.rows = driver.rows
    BY <1>9, <1>a DEF writeRecord, Go, DriverOK
  <2>3. records[D].run = driver.run /\ driver.rows = records[D].partial /\ Len(driver.rows) = n
    BY <2>1 DEF RecordInv, OwnInv, Over
  <2>4. InOrder(driver.rows) /\ DirInv(records[D], D)
    BY <2>1, <2>3 DEF RecordInv, DirInv
  <2>5. /\ \A d \in Dirs : d # D => records'[d] = records[d]
        /\ records'[D].run = records[D].run /\ records'[D].partial = records[D].partial
        /\ records'[D].final = driver.rows /\ records'[D].finalRun = driver.run
    BY <1>9, <1>a, <2>1 DEF writeRecord, RecordsOK
  <2>6. OwnInv'
    BY <2>1, <2>2, <2>3, <2>5 DEF OwnInv, Over, RecordInv
  <2>7. ASSUME NEW d \in Dirs PROVE DirInv(records[d], d)'
    <3>1. DirInv(records[d], d)
      BY DEF RecordInv
    <3>2. CASE d = D
      BY <2>1, <2>2, <2>3, <2>4, <2>5, <3>2 DEF DirInv, InOrder, amount
    <3>3. CASE d # D
      <4>1. records'[d] = records[d]
        BY <2>5, <3>3
      <4> QED
        BY <2>1, <2>2, <3>1, <4>1 DEF DirInv, InOrder, amount
    <3> QED
      BY <3>2, <3>3
  <2> QED
    BY <2>6, <2>7 DEF RecordInv
<1>10. CASE unlinkPartial
  <2> DEFINE D == driver.dir
  <2>1. D \in Dirs /\ driver.at = "unlink" /\ driver.run # 0 /\ driver.run \in 0 .. MaxRuns
    BY <1>10, <1>a DEF unlinkPartial, PlaceInv, DriverOK
  <2>2. driver'.run = driver.run /\ driver'.at = "done"
    BY <1>10, <1>a DEF unlinkPartial, DriverOK
  <2>3. /\ \A d \in Dirs : d # D => records'[d] = records[d]
        /\ records'[D].run = 0 /\ records'[D].partial = <<>>
        /\ records'[D].final = records[D].final /\ records'[D].finalRun = records[D].finalRun
    BY <1>10, <1>a, <2>1 DEF unlinkPartial, RecordsOK
  <2>4. OwnInv'
    BY <2>2 DEF OwnInv, Over
  <2>5. ASSUME NEW d \in Dirs PROVE DirInv(records[d], d)'
    <3>1. DirInv(records[d], d)
      BY DEF RecordInv
    <3>2. CASE d = D
      BY <2>1, <2>2, <2>3, <3>1, <3>2 DEF DirInv, InOrder, amount
    <3>3. CASE d # D
      <4>1. records'[d] = records[d]
        BY <2>3, <3>3
      <4> QED
        BY <2>1, <2>2, <3>1, <3>3, <4>1 DEF DirInv, InOrder, amount
    <3> QED
      BY <3>2, <3>3
  <2> QED
    BY <2>4, <2>5 DEF RecordInv
<1>11. ASSUME NEW D \in Dirs, startRun(D) PROVE RecordInv'
  <2>1. driver.run \in 0 .. MaxRuns /\ driver'.run = driver.run + 1 /\ driver'.dir = D
        /\ driver'.at = "cover" /\ driver'.i = 0 /\ driver'.rows = <<>>
    BY <1>11, <1>a DEF startRun, DriverOK
  <2>2. /\ \A d \in Dirs : d # D => records'[d] = records[d]
        /\ records'[D].run = driver.run + 1 /\ records'[D].partial = <<>>
        /\ records'[D].final = records[D].final /\ records'[D].finalRun = records[D].finalRun
    BY <1>11, <1>a DEF startRun, RecordsOK
  <2>3. OwnInv'
    BY <2>1, <2>2 DEF OwnInv, Over
  <2>4. ASSUME NEW d \in Dirs PROVE DirInv(records[d], d)'
    <3>1. DirInv(records[d], d) /\ records[d].run \in Nat /\ records[d].finalRun \in Nat
      BY RecordTypes DEF RecordInv
    <3>2. CASE d = D
      BY <2>1, <2>2, <3>1, <3>2 DEF DirInv, InOrder, amount
    <3>3. CASE d # D
      <4>1. records'[d] = records[d]
        BY <2>2, <3>3
      <4> QED
        BY <2>1, <3>1, <4>1 DEF DirInv, InOrder, amount
    <3> QED
      BY <3>2, <3>3
  <2> QED
    BY <2>3, <2>4 DEF RecordInv
<1>12. CASE UNCHANGED vars
  BY <1>12 DEF vars, RecordInv, DirInv, OwnInv, Over, InOrder, amount
<1> QED
  BY <1>1, <1>2, <1>3, <1>4, <1>5, <1>6, <1>7, <1>8, <1>9, <1>10, <1>11, <1>12 DEF Next, DriverStep

------------------------------------------------------------------------------
(* What the records say.                                                     *)

\* A row is true, and it names the decision the request was settled with.
Told(run, row) ==
    /\ RowIsTrue(run, row)
    /\ \A tx \in OfRequest(run, row.i) : tx.decision = row.decision

\* The rows written so far, those of whole records, and that no settlement is missing but perhaps
\* that of the request the driver was at.
PartialTold ==
    \A d \in Dirs, run \in Nat, row \in RecordRow :
        records[d].run = run /\ row \in ToSet(records[d].partial) => Told(run, row)
FinalTold ==
    \A d \in Dirs, run \in Nat, row \in RecordRow :
        records[d].final # NoRecord /\ records[d].finalRun = run /\ row \in ToSet(records[d].final) => Told(run, row)
NoneMissing ==
    \A d \in Dirs : records[d].run # 0 =>
        \A tx \in Sent : tx.run = records[d].run => tx.i <= Len(records[d].partial)

\* What is known of the request the driver is at, before its row is written.
ItemInv ==
    /\ driver.at = "settle" => /\ driver.item.valid \subseteq driver.item.signers
                               /\ driver.item.signers \subseteq Byzantine \/ driver.item.fault = "none"
    /\ driver.at = "wait" =>
          /\ driver.item.fault = "none"
          /\ \A tx \in Sent : tx.run = driver.run /\ tx.i = driver.i => tx.decision = driver.item.decision
    /\ driver.at = "row" => \A run \in Nat, row \in RecordRow : run = driver.run /\ row = Row => Told(run, row)

TruthInv == PartialTold /\ FinalTold /\ NoneMissing /\ ItemInv

DriverInv == TypeInv /\ PoolInv /\ SentInv /\ RecordInv

LEMMA OfRequestSent == ASSUME NEW run, NEW i PROVE OfRequest(run, i) = {tx \in Sent : tx.run = run /\ tx.i = i}
  BY DEF OfRequest, Sent

LEMMA TruthInit == Init => TruthInv
<1> SUFFICES ASSUME Init PROVE TruthInv
  OBVIOUS
<1>1. \A d \in Dirs : records[d].partial = <<>> /\ records[d].final = NoRecord /\ records[d].run = 0
  BY DEF Init, NoRecords
<1>2. driver.at = "done"
  BY DEF Init
<1> QED
  BY <1>1, <1>2 DEF TruthInv, PartialTold, FinalTold, NoneMissing, ItemInv, ToSet

LEMMA StaysUnattended == [Next]_vars /\ unattended => unattended'
  BY DEF Next, DriverStep, mine, cover, awaitTopUp, prove, collect, settle, awaitSettlement, timeOut, writeRow, writeRecord,
         unlinkPartial, crash, startRun, vars

\* A row stays true: a settlement of its request that waits is mined, and none is added.
LEMMA ToldKept ==
    ASSUME DriverInv, [Next]_vars, NEW run \in Nat, NEW row \in RecordRow, Told(run, row),
           Sends => run # driver.run \/ row.i # driver.i
    PROVE  Told(run, row)'
<1> DEFINE O  == {tx \in Sent : tx.run = run /\ tx.i = row.i}
           O2 == {tx \in Sent' : tx.run = run /\ tx.i = row.i}
<1>1. O = OfRequest(run, row.i) /\ O2 = OfRequest(run, row.i)'
  BY OfRequestSent DEF OfRequest, Sent
<1>2. unattended => unattended'
  BY StaysUnattended
<1>3. /\ row.outcome \in Outcomes => {tx.outcome : tx \in O} = {row.outcome}
      /\ row.outcome = "NotSubmitted" \/ row.fault # "none" => O = {}
      /\ row.outcome = "Reverted" /\ O # {} => unattended
      /\ \A tx \in O : tx.decision = row.decision
  BY <1>1 DEF Told, RowIsTrue
<1>4. SUFFICES /\ row.outcome \in Outcomes => {tx.outcome : tx \in O2} = {row.outcome}
               /\ row.outcome = "NotSubmitted" \/ row.fault # "none" => O2 = {}
               /\ row.outcome = "Reverted" /\ O2 # {} => unattended'
               /\ \A tx \in O2 : tx.decision = row.decision
  BY <1>1 DEF Told, RowIsTrue
<1>5. CASE O2 = O
  <2> HIDE DEF O, O2
  <2> QED
    BY <1>2, <1>3, <1>5
<1>6. CASE Sent' = Sent
  BY <1>5, <1>6
<1>7. CASE Sends /\ Sent' = Sent \cup {SettleTx(driver.item)}
  <2>1. SettleTx(driver.item).run = driver.run /\ SettleTx(driver.item).i = driver.i
    BY DEF SettleTx
  <2> QED
    BY <1>5, <1>7, <2>1
<1>8. CASE /\ mine /\ mempool[1].kind = "settle" /\ mempool[1] \in Sent /\ mempool[1].outcome = "None"
           /\ Sent' = (Sent \ {mempool[1]}) \cup {MinedTx(mempool[1])}
  <2> DEFINE h == mempool[1]
             e == MinedTx(h)
  <2>1. e.run = h.run /\ e.i = h.i /\ e.decision = h.decision
    BY <1>8, PoolTypes, MinedKeeps DEF DriverInv, Sent
  <2>2. h \in Sent /\ h.outcome = "None" /\ Sent' = (Sent \ {h}) \cup {e}
    BY <1>8
  <2> HIDE DEF h, e
  <2>3. CASE h.run = run /\ h.i = row.i
    <3>1. \A tx \in O : tx = h
      BY <2>2, <2>3, OneOfRequest DEF DriverInv
    <3>2. h \in O /\ O2 = {e}
      BY <2>1, <2>2, <2>3, <3>1
    <3> HIDE DEF O, O2
    <3>3. row.outcome \notin Outcomes
      <4> SUFFICES ASSUME row.outcome \in Outcomes PROVE FALSE
        OBVIOUS
      <4>1. h.outcome = row.outcome
        BY <1>3, <3>2
      <4> QED
        BY <2>2, <4>1 DEF Outcomes
    <3> QED
      BY <1>2, <1>3, <2>1, <3>2, <3>3
  <2>4. CASE ~ (h.run = run /\ h.i = row.i)
    BY <1>5, <2>1, <2>2, <2>4
  <2> QED
    BY <2>3, <2>4
<1> QED
  BY <1>6, <1>7, <1>8, SentSteps DEF DriverInv

\* The writes of a record change nothing else.
Writes == writeRow \/ writeRecord \/ unlinkPartial \/ \E d \in Dirs : startRun(d)

LEMMA RecordSteps ==
    ASSUME [Next]_vars
    PROVE  /\ UNCHANGED records \/ Writes
           /\ Writes => ~ Sends /\ UNCHANGED <<ledger, mempool, unattended, log>>
<1>1. Writes => ~ Sends /\ UNCHANGED <<ledger, mempool, unattended, log>>
  BY DEF Writes, writeRow, writeRecord, unlinkPartial, startRun, Sends, settle, chain, Over
<1>2. UNCHANGED records \/ Writes
  BY DEF Next, DriverStep, mine, cover, awaitTopUp, prove, collect, settle, awaitSettlement, timeOut, crash, vars, Writes
<1> QED
  BY <1>1, <1>2

\* Of the run's own rows, none is of the request the driver sends; nor is any row of a whole record.
LEMMA RowsAreBefore ==
    ASSUME DriverInv, Sends, NEW d \in Dirs, NEW row
    PROVE  /\ records[d].run = driver.run /\ row \in ToSet(records[d].partial) => row.i # driver.i
           /\ records[d].final # NoRecord => records[d].finalRun # driver.run
<1>1. driver.at = "settle" /\ driver.run # 0 /\ driver.i \in Nat
  BY Assumed DEF Sends, settle, DriverInv, TypeInv, TypeOK, PlaceInv
<1>2. DirInv(records[d], d) /\ OwnInv
  BY DEF DriverInv, RecordInv
<1>3. ASSUME records[d].run = driver.run, row \in ToSet(records[d].partial)
      PROVE  row.i # driver.i
  <2>1. Len(records[d].partial) = driver.i /\ InOrder(records[d].partial)
    BY <1>1, <1>2, <1>3 DEF DirInv, OwnInv
  <2>2. records[d].partial \in Seq(RecordRow)
    BY RecordTypes DEF DriverInv
  <2>3. PICK j \in DOMAIN records[d].partial : row = records[d].partial[j]
    BY <1>3 DEF ToSet
  <2>4. j \in 1 .. driver.i /\ row.i = j - 1
    BY <2>1, <2>2, <2>3 DEF InOrder
  <2> QED
    BY <1>1, <2>4
<1>4. records[d].final # NoRecord => records[d].finalRun # driver.run
  BY <1>1, <1>2 DEF DirInv
<1> QED
  BY <1>3, <1>4

LEMMA SameSent == ASSUME UNCHANGED <<ledger, mempool>> PROVE Sent' = Sent
  BY DEF Sent, SettleTxs

\* The row that is written tells of the request the driver was at.
LEMMA RowAdded ==
    ASSUME DriverInv, TruthInv, writeRow, NEW row, row \in ToSet(records'[driver.dir].partial)
    PROVE  row = Row \/ row \in ToSet(records[driver.dir].partial)
<1>1. driver.dir \in Dirs /\ RecordsOK
  BY DEF writeRow, DriverInv, TypeInv, TypeOK, PlaceInv, RecordsOK
<1>2. records'[driver.dir].partial = Append(records[driver.dir].partial, Row)
  BY <1>1 DEF writeRow, Recorded, RecordsOK
<1>3. records[driver.dir].partial \in Seq(RecordRow) /\ Row \in RecordRow
  BY <1>1, RecordTypes, RowType DEF DriverInv, writeRow
<1> DEFINE old == records[driver.dir].partial
           x == Row
<1> HIDE DEF old, x
<1>4. old \in Seq(RecordRow) /\ x \in RecordRow /\ row \in ToSet(Append(old, x))
  BY <1>2, <1>3 DEF old, x
<1>5. row = x \/ row \in ToSet(old)
  BY <1>4 DEF ToSet
<1> QED
  BY <1>5 DEF old, x

LEMMA PartialStep == DriverInv /\ TruthInv /\ [Next]_vars => PartialTold'
<1> SUFFICES ASSUME DriverInv, TruthInv, [Next]_vars,
                    NEW d \in Dirs, NEW run \in Nat, NEW row \in RecordRow,
                    records'[d].run = run, row \in ToSet(records'[d].partial)
             PROVE  Told(run, row)'
  BY DEF PartialTold
<1>a. RecordsOK /\ DriverOK /\ PlaceInv
  BY DEF DriverInv, TypeInv, TypeOK, DriverOK, RecordsOK
<1>1. ASSUME records[d].run = run, row \in ToSet(records[d].partial)
      PROVE  Told(run, row)'
  <2>1. Told(run, row)
    BY <1>1 DEF TruthInv, PartialTold
  <2>2. Sends => run # driver.run \/ row.i # driver.i
    BY <1>1, RowsAreBefore
  <2> QED
    BY <2>1, <2>2, ToldKept
<1>2. CASE records' = records
  BY <1>1, <1>2
<1>3. CASE writeRow
  <2>1. driver.dir \in Dirs /\ records[driver.dir].run = driver.run /\ driver.at = "row"
    BY <1>3, <1>a DEF writeRow, PlaceInv, Working, DriverInv, RecordInv, OwnInv
  <2>2. records'[d].run = records[d].run /\ (d # driver.dir => records'[d] = records[d])
    BY <1>3, <1>a, <2>1 DEF writeRow, Recorded, RecordsOK
  <2>3. CASE d = driver.dir /\ row = Row
    <3>1. Told(run, row)
      BY <2>1, <2>2, <2>3 DEF TruthInv, ItemInv
    <3>2. ~ Sends
      BY <1>3, RecordSteps DEF Writes
    <3> QED
      BY <3>1, <3>2, ToldKept
  <2>4. CASE row \in ToSet(records[d].partial)
    BY <1>1, <2>2, <2>4
  <2> QED
    BY <1>3, <2>2, <2>3, <2>4, RowAdded
<1>4. CASE writeRecord
  <2>1. records'[d].run = records[d].run /\ records'[d].partial = records[d].partial
    BY <1>4, <1>a DEF writeRecord, RecordsOK, PlaceInv
  <2> QED
    BY <1>1, <2>1
<1>5. CASE unlinkPartial
  <2>1. CASE d = driver.dir
    <3>1. records'[d].partial = <<>>
      BY <1>5, <1>a, <2>1 DEF unlinkPartial, RecordsOK
    <3> QED
      BY <3>1 DEF ToSet
  <2>2. CASE d # driver.dir
    <3>1. records'[d] = records[d]
      BY <1>5, <1>a, <2>2 DEF unlinkPartial, RecordsOK
    <3> QED
      BY <1>1, <3>1
  <2> QED
    BY <2>1, <2>2
<1>6. ASSUME NEW D \in Dirs, startRun(D) PROVE Told(run, row)'
  <2>1. CASE d = D
    <3>1. records'[d].partial = <<>>
      BY <1>6, <1>a, <2>1 DEF startRun, RecordsOK
    <3> QED
      BY <3>1 DEF ToSet
  <2>2. CASE d # D
    <3>1. records'[d] = records[d]
      BY <1>6, <1>a, <2>2 DEF startRun, RecordsOK
    <3> QED
      BY <1>1, <3>1
  <2> QED
    BY <2>1, <2>2
<1> QED
  BY <1>2, <1>3, <1>4, <1>5, <1>6, RecordSteps DEF Writes

LEMMA FinalStep == DriverInv /\ TruthInv /\ [Next]_vars => FinalTold'
<1> SUFFICES ASSUME DriverInv, TruthInv, [Next]_vars,
                    NEW d \in Dirs, NEW run \in Nat, NEW row \in RecordRow,
                    records'[d].final # NoRecord, records'[d].finalRun = run, row \in ToSet(records'[d].final)
             PROVE  Told(run, row)'
  BY DEF FinalTold
<1>a. RecordsOK /\ DriverOK /\ PlaceInv
  BY DEF DriverInv, TypeInv, TypeOK, DriverOK, RecordsOK
<1>1. CASE records'[d].final = records[d].final /\ records'[d].finalRun = records[d].finalRun
  <2>1. Told(run, row)
    BY <1>1 DEF TruthInv, FinalTold
  <2>2. Sends => run # driver.run
    BY <1>1, RowsAreBefore
  <2> QED
    BY <2>1, <2>2, ToldKept
<1>2. CASE records' = records
  BY <1>1, <1>2
<1>3. CASE writeRow
  BY <1>1, <1>3, <1>a DEF writeRow, Recorded, RecordsOK
<1>4. CASE writeRecord
  <2>1. CASE d = driver.dir
    <3>1. records'[d].final = driver.rows /\ records'[d].finalRun = driver.run
      BY <1>4, <1>a, <2>1 DEF writeRecord, RecordsOK
    <3>2. driver.rows = records[d].partial /\ records[d].run = driver.run
      BY <1>4, <2>1 DEF writeRecord, Over, DriverInv, RecordInv, OwnInv
    <3>3. Told(run, row)
      BY <3>1, <3>2 DEF TruthInv, PartialTold
    <3>4. ~ Sends
      BY <1>4, RecordSteps DEF Writes
    <3> QED
      BY <3>3, <3>4, ToldKept
  <2>2. CASE d # driver.dir
    <3>1. records'[d] = records[d]
      BY <1>4, <1>a, <2>2 DEF writeRecord, RecordsOK
    <3> QED
      BY <1>1, <3>1
  <2> QED
    BY <2>1, <2>2
<1>5. CASE unlinkPartial
  BY <1>1, <1>5, <1>a DEF unlinkPartial, RecordsOK
<1>6. ASSUME NEW D \in Dirs, startRun(D) PROVE Told(run, row)'
  <2>1. records'[d].final = records[d].final /\ records'[d].finalRun = records[d].finalRun
    BY <1>6, <1>a DEF startRun, RecordsOK
  <2> QED
    BY <1>1, <2>1
<1> QED
  BY <1>2, <1>3, <1>4, <1>5, <1>6, RecordSteps DEF Writes

LEMMA NoneMissingStep == DriverInv /\ TruthInv /\ [Next]_vars => NoneMissing'
<1> SUFFICES ASSUME DriverInv, TruthInv, [Next]_vars,
                    NEW d \in Dirs, records'[d].run # 0, NEW tx \in Sent', tx.run = records'[d].run
             PROVE  tx.i <= Len(records'[d].partial)
  BY DEF NoneMissing
<1>a. RecordsOK /\ DriverOK /\ PlaceInv /\ TypeInv /\ OwnInv
  BY DEF DriverInv, TypeInv, TypeOK, DriverOK, RecordsOK, RecordInv
<1>1. ASSUME records[d].run # 0, NEW t \in Sent, t.run = records[d].run
      PROVE  t.i <= Len(records[d].partial)
  BY <1>1 DEF TruthInv, NoneMissing
<1>2. CASE UNCHANGED records
  <2>1. CASE tx \in Sent
    BY <1>1, <1>2, <2>1
  <2>2. CASE Sends /\ tx = SettleTx(driver.item)
    <3>1. tx.run = driver.run /\ tx.i = driver.i /\ driver.at = "settle" /\ driver.i \in Nat
      BY <2>2, <1>a, Assumed DEF SettleTx, Sends, settle, DriverOK
    <3>2. d = driver.dir
      BY <1>2, <3>1 DEF DriverInv, RecordInv, DirInv
    <3>3. Len(records[d].partial) = driver.i
      BY <1>a, <3>1, <3>2 DEF OwnInv
    <3> QED
      BY <1>2, <3>1, <3>3
  <2>3. CASE mempool[1] \in Sent /\ tx = MinedTx(mempool[1])
    <3>1. mempool[1] \in Settlement \cup TopUp /\ mempool[1].kind = "settle"
      BY <2>3, <1>a, PoolTypes DEF Sent
    <3>2. tx.run = mempool[1].run /\ tx.i = mempool[1].i
      BY <2>3, <3>1, MinedKeeps
    <3> QED
      BY <1>1, <1>2, <2>3, <3>2
  <2> QED
    BY <2>1, <2>2, <2>3, SentSteps DEF DriverInv
<1>3. CASE Writes
  <2>1. tx \in Sent
    BY <1>3, RecordSteps, SameSent
  <2>2. CASE writeRow
    <3>1. records'[d].run = records[d].run /\ driver.dir \in Dirs
      BY <2>2, <1>a DEF writeRow, Recorded, RecordsOK, PlaceInv
    <3>2. CASE d = driver.dir
      <4>1. records'[d].partial = Append(records[d].partial, Row)
        BY <2>2, <1>a, <3>1, <3>2 DEF writeRow, Recorded, RecordsOK
      <4>2. records[d].partial \in Seq(RecordRow) /\ Row \in RecordRow
        BY <2>2, <1>a, RowType, RecordTypes DEF writeRow
      <4>3. Len(records'[d].partial) = Len(records[d].partial) + 1 /\ Len(records[d].partial) \in Nat
        BY <4>1, <4>2
      <4>4. tx.i \in Nat /\ tx.i <= Len(records[d].partial)
        BY <1>1, <2>1, <3>1, <1>a, PoolTypes, Assumed DEF Settlement
      <4> QED
        BY <4>3, <4>4
    <3>3. CASE d # driver.dir
      <4>1. records'[d] = records[d]
        BY <2>2, <1>a, <3>3 DEF writeRow, Recorded, RecordsOK
      <4> QED
        BY <1>1, <2>1, <4>1
    <3> QED
      BY <3>2, <3>3
  <2>3. CASE writeRecord
    <3>1. records'[d].run = records[d].run /\ records'[d].partial = records[d].partial
      BY <2>3, <1>a DEF writeRecord, RecordsOK, PlaceInv
    <3> QED
      BY <1>1, <2>1, <3>1
  <2>4. CASE unlinkPartial
    <3>1. d # driver.dir
      BY <2>4, <1>a DEF unlinkPartial, RecordsOK
    <3>2. records'[d] = records[d]
      BY <2>4, <1>a, <3>1 DEF unlinkPartial, RecordsOK
    <3> QED
      BY <1>1, <2>1, <3>2
  <2>5. ASSUME NEW D \in Dirs, startRun(D) PROVE tx.i <= Len(records'[d].partial)
    <3>1. CASE d = D
      <4>1. tx.run = driver.run + 1
        BY <2>5, <1>a, <3>1 DEF startRun, RecordsOK
      <4>2. tx.run \in 1 .. driver.run /\ driver.run \in Nat
        BY <2>1, <1>a DEF DriverInv, SentInv, Reached, DriverOK
      <4> QED
        BY <4>1, <4>2
    <3>2. CASE d # D
      <4>1. records'[d] = records[d]
        BY <2>5, <1>a, <3>2 DEF startRun, RecordsOK
      <4> QED
        BY <1>1, <2>1, <4>1
    <3> QED
      BY <3>1, <3>2
  <2> QED
    BY <1>3, <2>2, <2>3, <2>4, <2>5 DEF Writes
<1> QED
  BY <1>2, <1>3, RecordSteps

\* The request the driver is at keeps what is known of it while the driver waits.
LEMMA ItemKept ==
    ASSUME DriverInv, TruthInv, [Next]_vars, driver' = driver, ~ Sends
    PROVE  ItemInv'
<1>1. driver.at = "settle" => driver.item.valid \subseteq driver.item.signers
                             /\ (driver.item.signers \subseteq Byzantine \/ driver.item.fault = "none")
  BY DEF TruthInv, ItemInv
<1>2. ASSUME driver.at = "wait", NEW tx \in Sent', tx.run = driver.run, tx.i = driver.i
      PROVE  tx.decision = driver.item.decision
  <2>1. \A t \in Sent : t.run = driver.run /\ t.i = driver.i => t.decision = driver.item.decision
    BY <1>2 DEF TruthInv, ItemInv
  <2>2. CASE mempool[1] \in Sent /\ tx = MinedTx(mempool[1])
    <3>1. tx.run = mempool[1].run /\ tx.i = mempool[1].i /\ tx.decision = mempool[1].decision
      BY <2>2, PoolTypes, MinedKeeps DEF Sent, DriverInv
    <3> QED
      BY <1>2, <2>1, <2>2, <3>1
  <2> QED
    BY <1>2, <2>1, <2>2, SentSteps DEF DriverInv
<1>3. ASSUME driver.at = "row", NEW run \in Nat, NEW row \in RecordRow, run = driver.run, row = Row
      PROVE  Told(run, row)'
  <2>1. Told(run, row)
    BY <1>3 DEF TruthInv, ItemInv
  <2> QED
    BY <2>1, ToldKept
<1>4. driver.at = "wait" => driver.item.fault = "none"
  BY DEF TruthInv, ItemInv
<1>5. Row' = Row
  BY DEF Row, amount
<1> QED
  BY <1>1, <1>2, <1>3, <1>4, <1>5 DEF ItemInv

LEMMA ItemStep == DriverInv /\ TruthInv /\ [Next]_vars => ItemInv'
<1> SUFFICES ASSUME DriverInv, TruthInv, [Next]_vars PROVE ItemInv'
  OBVIOUS
<1>a. DriverOK /\ PlaceInv /\ TypeInv
  BY DEF DriverInv, TypeInv, TypeOK, DriverOK
<1>1. ASSUME driver'.at \notin {"settle", "wait", "row"} PROVE ItemInv'
  BY <1>1 DEF ItemInv
<1>2. CASE mine
  BY <1>2, ItemKept DEF mine, Sends, settle, chain
<1>3. CASE cover \/ awaitTopUp
  BY <1>1, <1>3, <1>a DEF cover, awaitTopUp, Go, DriverOK
<1>4. ASSUME NEW decision \in Decisions, NEW fault \in Faults \cup {"none"}, prove(decision, fault)
      PROVE  ItemInv'
  BY <1>1, <1>4, <1>a DEF prove, DriverOK
<1>5. ASSUME NEW signers \in SUBSET Validators, NEW invalid \in SUBSET (signers \cap Byzantine), collect(signers, invalid)
      PROVE  ItemInv'
  <2>1. driver' = [driver EXCEPT !.at = "settle", !.item.signers = signers, !.item.valid = signers \ invalid]
    BY <1>5 DEF collect
  <2>2. driver.item \in Item
    BY <1>a DEF DriverOK
  <2>3. driver'.at = "settle" /\ driver'.item.signers = signers /\ driver'.item.valid = signers \ invalid
        /\ driver'.item.fault = driver.item.fault
    BY <1>a, <2>1, <2>2 DEF DriverOK, Item
  <2>4. driver.item.fault = "none" \/ signers \subseteq Byzantine
    BY <1>5 DEF collect, MaySign
  <2> QED
    BY <2>3, <2>4 DEF ItemInv
<1>6. ASSUME NEW outcome \in RowOutcomes, Decide(outcome), driver.at \in {"settle", "wait"},
             ~ Sends, UNCHANGED <<ledger, mempool>>,
             LET txs == {tx \in Sent : tx.run = driver.run /\ tx.i = driver.i} IN
                /\ outcome \in Outcomes => {tx.outcome : tx \in txs} = {outcome}
                /\ outcome = "NotSubmitted" \/ driver.item.fault # "none" => txs = {}
                /\ outcome = "Reverted" /\ txs # {} => unattended'
                /\ \A tx \in txs : tx.decision = driver.item.decision
      PROVE  ItemInv'
  <2>1. driver.item \in Item
    BY <1>a DEF DriverOK
  <2>2. driver' = [driver EXCEPT !.at = "row", !.item.outcome = outcome]
    BY <1>6 DEF Decide
  <2>3. /\ driver'.at = "row" /\ driver'.run = driver.run /\ driver'.i = driver.i
        /\ driver'.item.outcome = outcome /\ driver'.item.fault = driver.item.fault
        /\ driver'.item.decision = driver.item.decision
    BY <1>a, <2>1, <2>2 DEF DriverOK, Item
  <2>4. ASSUME NEW run \in Nat, NEW row \in RecordRow, run = driver.run, row = Row' PROVE Told(run, row)'
    <3>1. row.i = driver.i /\ row.fault = driver.item.fault /\ row.decision = driver.item.decision /\ row.outcome = outcome
      BY <2>3, <2>4 DEF Row
    <3>2. OfRequest(run, row.i)' = {tx \in Sent : tx.run = driver.run /\ tx.i = driver.i}
      <4>1. OfRequest(run, row.i)' = OfRequest(run, row.i)
        BY <1>6 DEF OfRequest, SettleTxs
      <4> QED
        BY <2>4, <3>1, <4>1, OfRequestSent
    <3> QED
      BY <1>6, <3>1, <3>2 DEF Told, RowIsTrue
  <2> QED
    BY <2>3, <2>4 DEF ItemInv
<1>7. CASE settle
  <2>1. driver.at = "settle" /\ driver.i \in Int
    BY <1>7, <1>a DEF settle, DriverOK
  <2>2. {tx \in Sent : tx.run = driver.run /\ tx.i = driver.i} = {}
    BY <2>1 DEF DriverInv, SentInv, Reached
  <2>3. CASE Sends
    <3>1. driver'.at = "wait" /\ driver'.run = driver.run /\ driver'.i = driver.i /\ driver'.item = driver.item
      BY <2>3, <1>a DEF Sends, Go, DriverOK
    <3>2. driver.item.valid \subseteq driver.item.signers /\ driver.item.signers \subseteq Validators
      BY <2>1, <1>a DEF TruthInv, ItemInv, DriverOK, Item
    <3>3. ~ driver.item.signers \subseteq Byzantine
      <4> SUFFICES ASSUME driver.item.signers \subseteq Byzantine PROVE FALSE
        OBVIOUS
      <4>1. threshold \in Nat /\ Cardinality(Byzantine) < threshold
        BY <1>a, DriverAssumption DEF TypeInv, TypeOK
      <4>2. IsFiniteSet(Byzantine) /\ driver.item.valid \subseteq Byzantine
        BY <3>2, Assumed, FS_Subset
      <4>3. Cardinality(driver.item.valid) <= Cardinality(Byzantine) /\ Cardinality(driver.item.valid) \in Nat
            /\ Cardinality(Byzantine) \in Nat
        BY <4>2, FS_Subset, FS_CardinalityType
      <4>4. Cardinality(driver.item.valid) >= threshold
        BY <2>3 DEF Sends
      <4> QED
        BY <4>1, <4>3, <4>4
    <3>4. driver.item.fault = "none"
      BY <2>1, <3>3 DEF TruthInv, ItemInv
    <3>5. ledger' = ledger
      BY <1>7 DEF settle, chain
    <3>6. Sent' = Sent \cup {SettleTx(driver.item)} /\ SettleTx(driver.item).decision = driver.item.decision
      BY <2>3, <3>5, <1>a, SentAppended DEF SettleTx
    <3> QED
      BY <2>2, <3>1, <3>4, <3>6 DEF ItemInv
  <2>4. ASSUME NEW outcome \in {"NotSubmitted", "Reverted"}, Decide(outcome), UNCHANGED mempool
        PROVE  ItemInv'
    <3>1. ledger' = ledger /\ outcome \in RowOutcomes /\ outcome \notin Outcomes
      BY <1>7 DEF settle, chain, RowOutcomes, Outcomes
    <3>2. ~ Sends
      <4>1. driver'.at = "row"
        BY <2>4, <1>a DEF Decide, DriverOK
      <4>2. Sends => driver'.at = "wait"
        BY <1>a DEF Sends, Go, DriverOK
      <4> QED
        BY <4>1, <4>2
    <3> QED
      BY <1>6, <2>1, <2>2, <2>4, <3>1, <3>2
  <2> QED
    BY <1>7, <2>3, <2>4 DEF settle, Sends
<1>8. CASE awaitSettlement
  <2>1. PICK outcome \in Outcomes : MinedAs(SettleTx(driver.item), outcome) /\ Decide(outcome)
    BY <1>8 DEF awaitSettlement
  <2>2. driver.at = "wait" /\ UNCHANGED <<ledger, mempool>> /\ ~ Sends
    BY <1>8 DEF awaitSettlement, chain, Sends, settle
  <2>3. PICK j \in DOMAIN ledger : ledger[j] = [SettleTx(driver.item) EXCEPT !.outcome = outcome]
    BY <2>1 DEF MinedAs
  <2>4. ledger[j].kind = "settle" /\ ledger[j].run = driver.run /\ ledger[j].i = driver.i /\ ledger[j].outcome = outcome
    BY <2>3 DEF SettleTx
  <2>5. ledger[j] \in Sent
    BY <2>4 DEF Sent, SettleTxs
  <2> DEFINE u == ledger[j]
             txs == {tx \in Sent : tx.run = driver.run /\ tx.i = driver.i}
  <2>6. u \in txs /\ u.outcome = outcome /\ \A tx \in txs : tx = u
    BY <2>4, <2>5, OneOfRequest DEF DriverInv
  <2>7. driver.item.fault = "none" /\ \A tx \in txs : tx.decision = driver.item.decision
    BY <2>2 DEF TruthInv, ItemInv
  <2>8. outcome \in RowOutcomes /\ outcome # "NotSubmitted" /\ outcome # "Reverted"
    BY DEF Outcomes, RowOutcomes
  <2> HIDE DEF u, txs
  <2>9. {tx.outcome : tx \in txs} = {outcome}
    BY <2>6
  <2> QED
    BY <1>6, <2>1, <2>2, <2>7, <2>8, <2>9 DEF txs
<1>9. CASE timeOut
  <2>1. driver.at = "wait" /\ UNCHANGED <<ledger, mempool>> /\ ~ Sends /\ Decide("Reverted") /\ unattended'
    BY <1>9 DEF timeOut, chain, Sends, settle
  <2>2. driver.item.fault = "none"
        /\ \A tx \in Sent : tx.run = driver.run /\ tx.i = driver.i => tx.decision = driver.item.decision
    BY <2>1 DEF TruthInv, ItemInv
  <2>3. "Reverted" \in RowOutcomes /\ "Reverted" \notin Outcomes
    BY DEF Outcomes, RowOutcomes
  <2> QED
    BY <1>6, <2>1, <2>2, <2>3
<1>10. CASE writeRow
  BY <1>1, <1>10, DriverMoves, <1>a DEF writeRow, DriverOK
<1>11. CASE writeRecord
  BY <1>1, <1>11, <1>a DEF writeRecord, Go, DriverOK
<1>12. CASE unlinkPartial
  BY <1>1, <1>12, <1>a DEF unlinkPartial, DriverOK
<1>13. CASE crash
  BY <1>1, <1>13, <1>a DEF crash, DriverOK
<1>14. ASSUME NEW d \in Dirs, startRun(d) PROVE ItemInv'
  BY <1>1, <1>14 DEF startRun
<1>15. CASE UNCHANGED vars
  <2>1. ~ Sends
    <3>1. Sends => driver'.at = "wait" /\ driver.at = "settle"
      BY <1>a DEF Sends, Go, DriverOK, settle
    <3> QED
      BY <1>15, <3>1 DEF vars
  <2> QED
    BY <1>15, <2>1, ItemKept DEF vars
<1> QED
  BY <1>2, <1>3, <1>4, <1>5, <1>7, <1>8, <1>9, <1>10, <1>11, <1>12, <1>13, <1>14, <1>15 DEF Next, DriverStep

LEMMA DriverIsTrue == Spec => [](DriverInv /\ TruthInv)
<1>1. Init => DriverInv /\ TruthInv
  BY TypeInit, SentInit, RecordInit, TruthInit DEF DriverInv
<1>2. DriverInv /\ TruthInv /\ [Next]_vars => (DriverInv /\ TruthInv)'
  BY TypeStep, PoolStep, SentStep, RecordStep, PartialStep, FinalStep, NoneMissingStep, ItemStep DEF DriverInv, TruthInv
<1> QED
  BY <1>1, <1>2, PTL DEF Spec

\* However the driver stops, the record it leaves is true, and of what was sent at most the request
\* it was at is missing from it (the partial record "survives an interrupted run").
THEOREM RecordIsTrue == Spec => []RecordSurvives
<1>1. ASSUME DriverInv, TruthInv PROVE RecordSurvives
  <2> SUFFICES ASSUME NEW d \in Dirs
               PROVE  /\ \A row \in ToSet(records[d].partial) : RowIsTrue(records[d].run, row)
                      /\ records[d].final # NoRecord =>
                            \A row \in ToSet(records[d].final) : RowIsTrue(records[d].finalRun, row)
                      /\ records[d].run # 0 =>
                            \A tx \in SettleTxs : tx.kind = "settle" /\ tx.run = records[d].run =>
                                tx.i <= Len(records[d].partial)
    BY DEF RecordSurvives
  <2>1. /\ records[d].run \in Nat /\ records[d].finalRun \in Nat
        /\ records[d].partial \in Seq(RecordRow)
        /\ records[d].final # NoRecord => records[d].final \in Seq(RecordRow)
    BY <1>1, RecordTypes, Assumed DEF DriverInv
  <2>2. /\ ToSet(records[d].partial) \subseteq RecordRow
        /\ records[d].final # NoRecord => ToSet(records[d].final) \subseteq RecordRow
    BY <2>1 DEF ToSet
  <2> QED
    BY <1>1, <2>1, <2>2 DEF TruthInv, PartialTold, FinalTold, NoneMissing, Told, Sent
<1> QED
  BY <1>1, DriverIsTrue, PTL

------------------------------------------------------------------------------
(* Stake maintenance.                                                        *)

\* A transaction that tops the stake up to what the next violation costs.
TopsUp(t) == t.kind = "topUp" /\ t.run = driver.run /\ stake + t.value = requiredStake

\* What is settled has the outcome its decision asks for.
LedgerExpected ==
    ~ unattended =>
        \A j \in DOMAIN ledger : ledger[j].kind = "settle" => ledger[j].outcome = want(ledger[j].decision)

\* Unless one was left behind, at most the transaction the driver waits for is under way, and
\* from the stake check to the settlement the operator stays covered.
CoverInv ==
    ~ unattended =>
        /\ driver.at \notin {"topUp", "wait"} => mempool = <<>>
        /\ driver.at \in {"prove", "attest", "settle"} => isCovered
        /\ driver.at = "topUp" => (mempool = <<>> /\ isCovered) \/ (Len(mempool) = 1 /\ TopsUp(mempool[1]))
        /\ driver.at = "wait" =>
              mempool = <<>> \/ (Len(mempool) = 1 /\ isCovered /\ mempool[1].kind = "settle"
                                /\ mempool[1].run = driver.run /\ mempool[1].i = driver.i)
        /\ LedgerExpected

LEMMA CoverInit == Init => CoverInv
<1> SUFFICES ASSUME Init PROVE CoverInv
  OBVIOUS
<1>1. ledger = <<>> /\ mempool = <<>> /\ driver.at = "done"
  BY DEF Init
<1> QED
  BY <1>1 DEF CoverInv, LedgerExpected

LEMMA CoverStep == DriverInv /\ CoverInv /\ [Next]_vars => CoverInv'
<1> SUFFICES ASSUME DriverInv, CoverInv, [Next]_vars, ~ unattended' PROVE CoverInv'
  BY DEF CoverInv
<1>a. DriverOK /\ TypeInv /\ mempool \in Seq(Settlement \cup TopUp)
  BY PoolTypes DEF DriverInv, TypeInv, TypeOK, DriverOK
<1>b. ~ unattended
  BY StaysUnattended
<1>c. stake \in Nat /\ requiredStake \in Nat /\ k \in Nat
  BY <1>a, RequiredIsNat DEF TypeInv, TypeOK
<1>d. LedgerExpected
  BY <1>b DEF CoverInv
<1>e. ASSUME UNCHANGED ledger PROVE LedgerExpected'
  BY <1>b, <1>d, <1>e DEF LedgerExpected, want
<1>f. ASSUME UNCHANGED <<stake, k>> PROVE isCovered' = isCovered /\ requiredStake' = requiredStake
  BY <1>f DEF isCovered, requiredStake, slashAfter, Larger
<1>1. CASE mine
  <2>1. mempool # <<>> /\ mempool' = Tail(mempool) /\ driver' = driver
    BY <1>1 DEF mine
  <2>2. driver.at \in {"topUp", "wait"} /\ Len(mempool) = 1
    BY <2>1, <1>b DEF CoverInv
  <2>3. mempool' = <<>> /\ Head(mempool) = mempool[1]
    BY <1>a, <2>1, <2>2
  <2>4. CASE driver.at = "topUp"
    <3>1. TopsUp(mempool[1])
      BY <1>b, <2>1, <2>4 DEF CoverInv
    <3>2. k' = k /\ stake' = stake + mempool[1].value
      BY <1>1, <2>3, <3>1 DEF mine, TopsUp
    <3>3. requiredStake' = requiredStake
      BY <3>2 DEF requiredStake, slashAfter, Larger
    <3>4. isCovered'
      BY <1>c, <3>1, <3>2, <3>3 DEF isCovered, TopsUp
    <3>5. LedgerExpected'
      <4>1. ledger' = Append(ledger, mempool[1])
        BY <1>1, <2>3, <3>1 DEF mine, TopsUp
      <4>2. DOMAIN ledger' = DOMAIN ledger \cup {Len(ledger) + 1} /\ Len(ledger) + 1 \notin DOMAIN ledger
            /\ (\A j \in DOMAIN ledger : ledger'[j] = ledger[j]) /\ ledger'[Len(ledger) + 1] = MinedTx(mempool[1])
        BY <1>1, <1>a, MineMoves
      <4>3. MinedTx(mempool[1]).kind # "settle"
        BY <3>1 DEF MinedTx, TopsUp
      <4> QED
        BY <1>b, <1>d, <4>2, <4>3 DEF LedgerExpected, want
    <3> QED
      BY <2>1, <2>3, <2>4, <3>4, <3>5 DEF CoverInv
  <2>5. CASE driver.at = "wait"
    <3>1. isCovered /\ mempool[1].kind = "settle"
      BY <1>b, <2>1, <2>5 DEF CoverInv
    <3>2. mempool[1] \in Settlement
      BY <1>a, <3>1, <2>2, PoolTypes
    <3> DEFINE h == mempool[1]
               e == MinedTx(h)
    <3>3. e.decision = h.decision /\ e.outcome = OutcomeOf(h) /\ h.decision \in Decisions
      BY <3>1, <3>2, MinedKeeps DEF Settlement
    <3>4. e.outcome = want(e.decision)
      BY <3>1, <3>3 DEF OutcomeOf, want, Decisions
    <3>5. DOMAIN ledger' = DOMAIN ledger \cup {Len(ledger) + 1} /\ Len(ledger) + 1 \notin DOMAIN ledger
          /\ (\A j \in DOMAIN ledger : ledger'[j] = ledger[j]) /\ ledger'[Len(ledger) + 1] = e
      BY <1>1, <1>a, MineMoves
    <3> HIDE DEF e, h
    <3>6. LedgerExpected'
      BY <1>b, <1>d, <3>4, <3>5 DEF LedgerExpected, want
    <3> QED
      BY <2>1, <2>3, <2>5, <3>6 DEF CoverInv
  <2> QED
    BY <2>2, <2>4, <2>5
<1>2. CASE cover
  <2>1. mempool = <<>> /\ UNCHANGED <<stake, k, ledger>>
    BY <1>2, <1>b DEF cover, CoverInv, chain
  <2>2. CASE isCovered /\ Go("prove") /\ UNCHANGED mempool
    <3>1. driver'.at = "prove"
      BY <2>2, <1>a DEF Go, DriverOK
    <3> QED
      BY <2>1, <2>2, <3>1, <1>e, <1>f DEF CoverInv
  <2>3. CASE ~ isCovered /\ Go("topUp") /\ mempool' = Append(mempool, TopUpTx(Missing))
    <3>1. driver'.at = "topUp" /\ driver'.run = driver.run
      BY <2>3, <1>a DEF Go, DriverOK
    <3>2. Len(mempool') = 1 /\ mempool'[1] = TopUpTx(Missing)
      BY <2>1, <2>3
    <3>3. TopUpTx(Missing).kind = "topUp" /\ TopUpTx(Missing).run = driver.run
          /\ TopUpTx(Missing).value = requiredStake - stake
      BY DEF TopUpTx, Missing
    <3>4. TopsUp(mempool[1])'
      BY <2>1, <1>c, <1>f, <3>1, <3>2, <3>3 DEF TopsUp
    <3> QED
      BY <2>1, <3>1, <3>2, <3>4, <1>e DEF CoverInv
  <2> QED
    BY <1>2, <2>2, <2>3 DEF cover
<1>3. CASE awaitTopUp
  <2>1. driver.at = "topUp" /\ driver'.at = "prove" /\ UNCHANGED <<mempool, stake, k, ledger>>
    BY <1>3, <1>a DEF awaitTopUp, Go, chain, DriverOK
  <2>2. mempool = <<>> /\ isCovered
    <3>1. Len(mempool) = 1 => 1 \in DOMAIN mempool
      BY <1>a
    <3> QED
      BY <1>3, <1>b, <2>1, <3>1 DEF CoverInv, awaitTopUp, TopsUp
  <2> QED
    BY <2>1, <2>2, <1>e, <1>f DEF CoverInv
<1>4. ASSUME driver.at \in {"prove", "attest"}, driver'.at \in {"attest", "settle"},
             UNCHANGED <<mempool, stake, k, ledger>>
      PROVE  CoverInv'
  BY <1>4, <1>b, <1>e, <1>f DEF CoverInv
<1>5. ASSUME NEW decision \in Decisions, NEW fault \in Faults \cup {"none"}, prove(decision, fault)
      PROVE  CoverInv'
  BY <1>4, <1>5, <1>a DEF prove, chain, DriverOK
<1>6. ASSUME NEW signers \in SUBSET Validators, NEW invalid \in SUBSET (signers \cap Byzantine), collect(signers, invalid)
      PROVE  CoverInv'
  BY <1>4, <1>6, <1>a DEF collect, chain, DriverOK
<1>7. ASSUME mempool = <<>>, UNCHANGED <<mempool, ledger>>, driver'.at \in {"row", "cover", "finish", "unlink", "done", "crashed"}
      PROVE  CoverInv'
  BY <1>7, <1>e DEF CoverInv
<1>8. CASE settle
  <2>1. driver.at = "settle" /\ mempool = <<>> /\ isCovered /\ UNCHANGED <<stake, k, ledger>>
    BY <1>8, <1>b DEF settle, CoverInv, chain
  <2>2. ASSUME NEW outcome, Decide(outcome), UNCHANGED mempool PROVE CoverInv'
    BY <1>7, <2>1, <2>2, <1>a DEF Decide, DriverOK
  <2>3. CASE mempool' = Append(mempool, SettleTx(driver.item)) /\ Go("wait")
    <3>1. driver'.at = "wait" /\ driver'.run = driver.run /\ driver'.i = driver.i
      BY <2>3, <1>a DEF Go, DriverOK
    <3>2. Len(mempool') = 1 /\ mempool'[1] = SettleTx(driver.item)
      BY <2>1, <2>3
    <3>3. mempool'[1].kind = "settle" /\ mempool'[1].run = driver.run /\ mempool'[1].i = driver.i
      BY <3>2 DEF SettleTx
    <3> QED
      BY <2>1, <3>1, <3>2, <3>3, <1>e, <1>f DEF CoverInv
  <2> QED
    BY <1>8, <2>2, <2>3 DEF settle
<1>9. CASE awaitSettlement
  <2>1. driver.at = "wait" /\ UNCHANGED <<mempool, ledger>> /\ driver'.at = "row"
    BY <1>9, <1>a DEF awaitSettlement, chain, Decide, DriverOK
  <2>2. PICK outcome \in Outcomes : MinedAs(SettleTx(driver.item), outcome)
    BY <1>9 DEF awaitSettlement
  <2>3. PICK j \in DOMAIN ledger : ledger[j] = [SettleTx(driver.item) EXCEPT !.outcome = outcome]
    BY <2>2 DEF MinedAs
  <2>4. ledger[j].kind = "settle" /\ ledger[j].run = driver.run /\ ledger[j].i = driver.i
    BY <2>3 DEF SettleTx
  <2>5. mempool = <<>>
    <3> SUFFICES ASSUME mempool # <<>> PROVE FALSE
      OBVIOUS
    <3>1. Len(mempool) = 1 /\ mempool[1].kind = "settle" /\ mempool[1].run = driver.run /\ mempool[1].i = driver.i
      BY <1>b, <2>1 DEF CoverInv
    <3>2. 1 \in DOMAIN mempool /\ Same(ledger[j], mempool[1])
      BY <1>a, <2>4, <3>1 DEF Same
    <3> QED
      BY <3>2 DEF DriverInv, PoolInv
  <2> QED
    BY <1>7, <2>1, <2>5
<1>10. CASE timeOut
  BY <1>10 DEF timeOut
<1>11. CASE writeRow
  <2>1. driver'.at \in {"cover", "finish"} /\ mempool = <<>> /\ UNCHANGED <<mempool, ledger>>
    BY <1>11, <1>a, <1>b DEF writeRow, CoverInv, DriverOK, chain
  <2> QED
    BY <1>7, <2>1
<1>12. CASE writeRecord \/ unlinkPartial
  BY <1>7, <1>12, <1>a, <1>b DEF writeRecord, unlinkPartial, Go, CoverInv, DriverOK, chain
<1>13. CASE crash
  BY <1>7, <1>13, <1>a, <1>b DEF crash, DriverOK, chain
<1>14. ASSUME NEW d \in Dirs, startRun(d) PROVE CoverInv'
  BY <1>7, <1>14, <1>b DEF startRun, Over, CoverInv, chain
<1>15. CASE UNCHANGED vars
  <2>1. UNCHANGED <<mempool, ledger, driver, stake, k, unattended>>
    BY <1>15 DEF vars
  <2>2. TopsUp(mempool[1])' = TopsUp(mempool[1])
    BY <2>1, <1>f DEF TopsUp
  <2> QED
    BY <2>1, <2>2, <1>b, <1>e, <1>f DEF CoverInv
<1> QED
  BY <1>1, <1>2, <1>3, <1>5, <1>6, <1>8, <1>9, <1>10, <1>11, <1>12, <1>13, <1>14, <1>15 DEF Next, DriverStep

\* A row that tells of a settlement tells of one that is on the ledger.
LEMMA RowOnLedger ==
    ASSUME DriverInv, TruthInv, NEW d \in Dirs, records[d].final # NoRecord,
           NEW row \in ToSet(records[d].final), row.outcome \in Outcomes
    PROVE  /\ row.fault = "none"
           /\ \E j \in DOMAIN ledger : /\ ledger[j].kind = "settle" /\ ledger[j].outcome = row.outcome
                                      /\ ledger[j].decision = row.decision
<1>1. records[d].final \in Seq(RecordRow) /\ records[d].finalRun \in Nat
  BY RecordTypes, Assumed DEF DriverInv
<1>2. row \in RecordRow
  BY <1>1 DEF ToSet
<1>3. Told(records[d].finalRun, row)
  BY <1>1, <1>2 DEF TruthInv, FinalTold
<1>4. PICK tx \in OfRequest(records[d].finalRun, row.i) : TRUE
  BY <1>3 DEF Told, RowIsTrue
<1>5. tx.outcome = row.outcome /\ tx.decision = row.decision /\ row.fault = "none"
  BY <1>3, <1>4 DEF Told, RowIsTrue
<1>6. tx \in SettleTxs /\ tx.kind = "settle"
  BY <1>4 DEF OfRequest
<1>7. \A j \in DOMAIN mempool : mempool[j] # tx
  BY <1>5, <1>6 DEF DriverInv, PoolInv, Outcomes
<1>8. \E j \in DOMAIN ledger : ledger[j] = tx
  BY <1>6, <1>7 DEF SettleTxs
<1> QED
  BY <1>5, <1>6, <1>8

\* So the summary of a run counts what happened.
LEMMA SummaryExpected ==
    ASSUME DriverInv, TruthInv, LedgerExpected, NEW d \in Dirs, records[d].final # NoRecord
    PROVE  /\ summarize(records[d].final).ledger_changed = {}
           /\ ~ unattended => summarize(records[d].final).expected = summarize(records[d].final).settled
<1> DEFINE S == ToSet(records[d].final)
<1>1. \A row \in S : row.outcome \in Outcomes => row.fault = "none"
  BY RowOnLedger
<1>2. ASSUME ~ unattended PROVE \A row \in S : row.outcome \in Outcomes => row.outcome = want(row.decision)
  <2> SUFFICES ASSUME NEW row \in S, row.outcome \in Outcomes PROVE row.outcome = want(row.decision)
    OBVIOUS
  <2>1. PICK j \in DOMAIN ledger : /\ ledger[j].kind = "settle" /\ ledger[j].outcome = row.outcome
                                   /\ ledger[j].decision = row.decision
    BY RowOnLedger
  <2> QED
    BY <1>2, <2>1 DEF LedgerExpected
<1> HIDE DEF S
<1>3. summarize(records[d].final) =
        [settled |-> {row \in {r \in S : r.fault = "none"} : row.outcome \in Outcomes},
         expected |-> {row \in {r \in {q \in S : q.fault = "none"} : r.outcome \in Outcomes} : row.outcome = want(row.decision)},
         ledger_changed |-> {row \in S \ {r \in S : r.fault = "none"} : row.outcome \in {"Executed", "Blocked"}}]
  BY DEF summarize, S
<1> QED
  BY <1>1, <1>2, <1>3 DEF Outcomes

\* Unless a transaction was left unattended, whatever is settled has the outcome its decision asks
\* for: the stake check before a request covers it, through any escalation of the slash.  And the
\* summary of any finished run counts its settled requests right, and none that was falsified.
THEOREM SettledAsExpected == Spec => []OutcomesExpected
<1>1. Init => CoverInv
  BY CoverInit
<1>2. DriverInv /\ CoverInv /\ [Next]_vars => CoverInv'
  BY CoverStep
<1>3. CoverInv => LedgerExpected
  BY DEF CoverInv, LedgerExpected
<1>4. DriverInv /\ TruthInv /\ LedgerExpected => OutcomesExpected
  BY SummaryExpected DEF LedgerExpected, OutcomesExpected
<1> QED
  BY <1>1, <1>2, <1>3, <1>4, DriverIsTrue, PTL DEF Spec

------------------------------------------------------------------------------
(* The audit of the runs against the chain.                                  *)

\* When nothing waits, the settlements on the ledger are those that were sent.
LEMMA QuietLedger ==
    ASSUME DriverInv, Quiet
    PROVE  /\ \A j \in Settlements : ledger[j] \in Sent /\ ledger[j] \in Settlement /\ ledger[j].outcome \in Outcomes
           /\ \A tx \in Sent : \E j \in Settlements : ledger[j] = tx
<1>1. \A j \in DOMAIN mempool : FALSE
  BY DEF Quiet
<1>2. \A tx \in Sent : \E j \in Settlements : ledger[j] = tx
  BY <1>1 DEF Sent, SettleTxs, Settlements
<1>3. \A j \in Settlements : ledger[j] \in Sent /\ ledger[j].outcome \in Outcomes
  BY DEF Sent, SettleTxs, Settlements, DriverInv, PoolInv
<1> QED
  BY <1>2, <1>3, PoolTypes DEF DriverInv

\* A settled transaction of a recorded run has its row, and the row tells of it.
LEMMA RowOfTx ==
    ASSUME DriverInv, TruthInv, Quiet, NEW d \in Dirs, Complete(d), NEW j \in Group(records[d].finalRun)
    PROVE  \E row \in honest(d) :
              /\ row.i = ledger[j].i /\ row.outcome # "NotSubmitted"
              /\ row.outcome \in Outcomes => SameAs(row, ledger[j])
<1>1. /\ records[d].final \in Seq(RecordRow) /\ Len(records[d].final) = n /\ InOrder(records[d].final)
      /\ records[d].finalRun \in Nat
  BY RecordTypes, Assumed DEF Complete, DriverInv, RecordInv, DirInv
<1>2. ledger[j] \in Sent /\ ledger[j] \in Settlement /\ ledger[j].run = records[d].finalRun
  BY QuietLedger DEF Group
<1>3. ledger[j].i \in 0 .. n - 1 /\ ledger[j].amount = amount(ledger[j].i)
  BY <1>2 DEF Settlement, DriverInv, SentInv
<1> DEFINE p == ledger[j].i + 1
           row == records[d].final[p]
<1>4. p \in DOMAIN records[d].final /\ p - 1 = ledger[j].i
  BY <1>1, <1>3, Assumed
<1> HIDE DEF p
<1>5. row \in ToSet(records[d].final) /\ row \in RecordRow /\ row.i = ledger[j].i /\ row.amount = ledger[j].amount
  <2>1. row \in ToSet(records[d].final)
    BY <1>4 DEF ToSet
  <2>2. row \in RecordRow
    BY <1>1, <1>4
  <2>3. row.i = p - 1 /\ row.amount = amount(p - 1)
    BY <1>1, <1>4 DEF InOrder
  <2> HIDE DEF row
  <2> QED
    BY <1>3, <1>4, <2>1, <2>2, <2>3
<1>6. Told(records[d].finalRun, row)
  BY <1>1, <1>5 DEF TruthInv, FinalTold, Complete
<1> HIDE DEF row
<1>7. ledger[j] \in OfRequest(records[d].finalRun, row.i)
  BY <1>2, <1>5, OfRequestSent
<1>8. row.fault = "none" /\ row.outcome # "NotSubmitted"
      /\ (row.outcome \in Outcomes => ledger[j].outcome = row.outcome) /\ ledger[j].decision = row.decision
  BY <1>6, <1>7 DEF Told, RowIsTrue
<1> QED
  BY <1>5, <1>8 DEF honest, rows, SameAs

\* A row that claims an outcome of the gate has its transaction.
LEMMA TxOfRow ==
    ASSUME DriverInv, TruthInv, Quiet, NEW d \in Dirs, Complete(d), NEW row \in rows(d), row.outcome \in Outcomes
    PROVE  \E j \in Group(records[d].finalRun) : ledger[j].i = row.i
<1>1. records[d].final \in Seq(RecordRow) /\ records[d].finalRun \in Nat
  BY RecordTypes, Assumed DEF Complete, DriverInv
<1>2. row \in RecordRow
  BY <1>1 DEF rows, ToSet
<1>3. Told(records[d].finalRun, row)
  BY <1>1, <1>2 DEF TruthInv, FinalTold, Complete, rows
<1>4. PICK tx \in OfRequest(records[d].finalRun, row.i) : TRUE
  BY <1>3 DEF Told, RowIsTrue
<1>5. tx \in Sent /\ tx.run = records[d].finalRun /\ tx.i = row.i
  BY <1>4, OfRequestSent
<1>6. PICK j \in Settlements : ledger[j] = tx
  BY <1>5, QuietLedger
<1> QED
  BY <1>5, <1>6 DEF Group

\* The rows of a record are told apart by their index.
LEMMA RowsApart ==
    ASSUME DriverInv, NEW d \in Dirs, Complete(d), NEW row \in rows(d), NEW other \in rows(d), row.i = other.i
    PROVE  row = other
<1>1. records[d].final \in Seq(RecordRow) /\ InOrder(records[d].final)
  BY RecordTypes DEF Complete, DriverInv, RecordInv, DirInv
<1>2. PICK a \in DOMAIN records[d].final : row = records[d].final[a]
  BY DEF rows, ToSet
<1>3. PICK b \in DOMAIN records[d].final : other = records[d].final[b]
  BY DEF rows, ToSet
<1>4. a \in Int /\ b \in Int /\ row.i = a - 1 /\ other.i = b - 1
  BY <1>1, <1>2, <1>3 DEF InOrder
<1> QED
  BY <1>2, <1>3, <1>4

\* If no wait was given up, the settled rows are those with a transaction.
LEMMA OwnGroup ==
    ASSUME DriverInv, TruthInv, Quiet, NEW d \in Dirs, Complete(d), \A row \in rows(d) : row.outcome # "Reverted"
    PROVE  Indices(Group(records[d].finalRun)) = IndicesOf(settled_rows(d))
<1>1. \A row \in settled_rows(d) : row \in rows(d) /\ row.outcome \in Outcomes
  <2>1. records[d].final \in Seq(RecordRow)
    BY RecordTypes DEF Complete, DriverInv
  <2>2. rows(d) \subseteq RecordRow
    BY <2>1 DEF rows, ToSet
  <2> QED
    BY <2>2 DEF settled_rows, RecordRow, RowOutcomes
<1>2. IndicesOf(settled_rows(d)) \subseteq Indices(Group(records[d].finalRun))
  BY <1>1, TxOfRow DEF Indices, IndicesOf
<1>3. Indices(Group(records[d].finalRun)) \subseteq IndicesOf(settled_rows(d))
  BY RowOfTx DEF Indices, IndicesOf, honest, settled_rows
<1> QED
  BY <1>2, <1>3

LEMMA CleanIsTrue ==
    ASSUME DriverInv, TruthInv, Quiet, NEW d \in Dirs, Complete(d)
    PROVE  CleanMeansTrue(d)
<1> SUFFICES ASSUME Clean(d)
             PROVE  /\ cands(d) = {records[d].finalRun}
                    /\ \A j \in Group(records[d].finalRun) :
                          \E row \in honest(d) : row.i = ledger[j].i /\ row.outcome = ledger[j].outcome
  BY DEF CleanMeansTrue
<1>1. PICK run \in by_start :
          /\ cands(d) = {run}
          /\ \A row \in settled_rows(d), j \in Group(run) :
                 ledger[j].i = row.i => SameAs(row, ledger[j]) /\ WellSigned(ledger[j])
  BY DEF Clean
<1>2. Indices(Group(run)) = IndicesOf(settled_rows(d))
  BY <1>1 DEF cands
<1>3. \A row \in settled_rows(d) : row.outcome \in Outcomes
  <2> SUFFICES ASSUME NEW row \in settled_rows(d) PROVE row.outcome \in Outcomes
    OBVIOUS
  <2>1. PICK j \in Group(run) : ledger[j].i = row.i
    BY <1>2 DEF Indices, IndicesOf
  <2>2. ledger[j].outcome = row.outcome
    BY <1>1, <2>1 DEF SameAs
  <2> QED
    BY <2>1, <2>2, QuietLedger DEF Group
<1>4. \A row \in rows(d) : row.outcome # "Reverted"
  BY <1>3 DEF settled_rows, Outcomes
<1>5. Indices(Group(records[d].finalRun)) = IndicesOf(settled_rows(d))
  BY <1>4, OwnGroup
<1>6. Group(records[d].finalRun) # {}
  <2>1. Group(run) # {}
    BY <1>1 DEF by_start, Group
  <2> QED
    BY <2>1, <1>2, <1>5 DEF Indices
<1>7. records[d].finalRun \in by_start
  BY <1>6 DEF by_start, Group
<1>8. cands(d) = {records[d].finalRun}
  BY <1>1, <1>5, <1>7 DEF cands
<1>9. ASSUME NEW j \in Group(records[d].finalRun)
      PROVE  \E row \in honest(d) : row.i = ledger[j].i /\ row.outcome = ledger[j].outcome
  <2>1. PICK row \in honest(d) : /\ row.i = ledger[j].i /\ row.outcome # "NotSubmitted"
                                 /\ row.outcome \in Outcomes => SameAs(row, ledger[j])
    BY RowOfTx
  <2>2. row \in settled_rows(d)
    BY <2>1 DEF honest, settled_rows
  <2> QED
    BY <1>3, <2>1, <2>2 DEF SameAs
<1> QED
  BY <1>8, <1>9

LEMMA TrueIsClean ==
    ASSUME DriverInv, TruthInv, Quiet, NEW d \in Dirs, Complete(d)
    PROVE  TrueMeansClean(d)
<1> DEFINE run == records[d].finalRun
<1> SUFFICES ASSUME settled_rows(d) # {}, \A row \in rows(d) : row.outcome # "Reverted",
                    \A j \in Group(run) : WellSigned(ledger[j]),
                    \A r \in by_start \ {run} : Indices(Group(r)) # IndicesOf(settled_rows(d))
             PROVE  Clean(d)
  BY DEF TrueMeansClean
<1>1. Indices(Group(run)) = IndicesOf(settled_rows(d))
  BY OwnGroup
<1>2. Group(run) # {}
  BY <1>1 DEF Indices, IndicesOf
<1>3. run \in by_start
  BY <1>2 DEF by_start, Group
<1>4. cands(d) = {run}
  BY <1>1, <1>3 DEF cands
<1>5. ASSUME NEW row \in settled_rows(d), NEW j \in Group(run), ledger[j].i = row.i
      PROVE  SameAs(row, ledger[j])
  <2>1. PICK other \in honest(d) : /\ other.i = ledger[j].i /\ other.outcome # "NotSubmitted"
                                   /\ other.outcome \in Outcomes => SameAs(other, ledger[j])
    BY RowOfTx
  <2>2. row \in rows(d) /\ other \in rows(d) /\ row = other
    BY <1>5, <2>1, RowsApart DEF settled_rows, honest
  <2>3. records[d].final \in Seq(RecordRow)
    BY RecordTypes DEF Complete, DriverInv
  <2>4. row.outcome \in Outcomes
    <3>1. row \in RecordRow
      BY <2>2, <2>3 DEF rows, ToSet
    <3>2. row.outcome \in RowOutcomes /\ row.outcome # "NotSubmitted" /\ row.outcome # "Reverted"
      BY <2>1, <2>2, <3>1 DEF RecordRow
    <3> QED
      BY <3>2 DEF RowOutcomes
  <2> QED
    BY <2>1, <2>2, <2>4
<1> HIDE DEF run
<1> QED
  BY <1>3, <1>4, <1>5 DEF Clean

\* The audit of the chain, made when nothing runs any more, finds nothing wrong with a run only if
\* it has matched it with its own transactions and these are its settled, honest requests; and it
\* reports no run whose record is whole and told apart by its indices.
THEOREM AuditsHold == Spec => []AuditsAreSound
<1>1. DriverInv /\ TruthInv => AuditsAreSound
  BY CleanIsTrue, TrueIsClean DEF AuditsAreSound
<1> QED
  BY <1>1, DriverIsTrue, PTL

------------------------------------------------------------------------------
(* The decision log.                                                         *)

\* me was asked about this request, in this run or an earlier one.
Answered(run, i) ==
    /\ run \in 1 .. driver.run
    /\ run = driver.run /\ driver.at # "done" =>
          i < driver.i \/ (driver.at \in {"settle", "wait", "row", "crashed"} /\ i = driver.i)

\* me answers a request once, and what carries its signature it has logged as signed.
LogInv ==
    /\ \A e \in log : Answered(e.run, e.i)
    /\ \A e, f \in log : e.run = f.run /\ e.i = f.i => e = f
    /\ \A tx \in Sent : me \in tx.signers => MyEntry(tx, TRUE) \in log
    /\ driver.at = "settle" /\ me \in driver.item.valid => [run |-> driver.run, i |-> driver.i, signed |-> TRUE] \in log

LEMMA LogInit == Init => LogInv
  BY DEF Init, LogInv, Sent, SettleTxs

LEMMA AnsweredKept ==
    ASSUME TypeInv, [Next]_vars, NEW run \in Int, NEW i \in Int, Answered(run, i)
    PROVE  Answered(run, i)'
<1>1. driver.run \in Nat /\ driver.i \in Nat /\ (driver.at = "done" => driver.i = 0)
  BY Assumed DEF TypeInv, TypeOK, PlaceInv
<1>2. Moves
  BY DriverMoves
<1> QED
  BY <1>1, <1>2 DEF Moves, Answered, Over

\* Only the answers change the log.
LEMMA LogSteps ==
    ASSUME [Next]_vars
    PROVE  \/ UNCHANGED log
           \/ \E signers \in SUBSET Validators : \E invalid \in SUBSET (signers \cap Byzantine) : collect(signers, invalid)
  BY DEF Next, DriverStep, mine, cover, awaitTopUp, prove, settle, awaitSettlement, timeOut, writeRow, writeRecord,
         unlinkPartial, crash, startRun, vars

LEMMA LogStep == DriverInv /\ LogInv /\ [Next]_vars => LogInv'
<1> SUFFICES ASSUME DriverInv, LogInv, [Next]_vars PROVE LogInv'
  OBVIOUS
<1>a. TypeInv /\ DriverOK /\ Sent \subseteq Settlement /\ log \subseteq [run : 0 .. MaxRuns, i : 0 .. n - 1, signed : BOOLEAN]
  BY PoolTypes DEF DriverInv, TypeInv, TypeOK, DriverOK
<1>1. \A e \in log : Answered(e.run, e.i)'
  <2> SUFFICES ASSUME NEW e \in log PROVE Answered(e.run, e.i)'
    OBVIOUS
  <2>1. e.run \in Int /\ e.i \in Int
    BY <1>a, Assumed
  <2> QED
    BY <1>a, <2>1, AnsweredKept DEF LogInv
<1>2. log \subseteq log'
  BY LogSteps DEF collect
<1>3. \A tx \in Sent' : me \in tx.signers => MyEntry(tx, TRUE) \in log
  <2> SUFFICES ASSUME NEW tx \in Sent', me \in tx.signers PROVE MyEntry(tx, TRUE) \in log
    OBVIOUS
  <2>1. CASE tx \in Sent
    BY <2>1 DEF LogInv
  <2>2. CASE mempool[1] \in Sent /\ tx = MinedTx(mempool[1])
    <3>1. mempool[1] \in Settlement \cup TopUp /\ mempool[1].kind = "settle"
      BY <2>2, <1>a DEF Sent
    <3>2. tx.run = mempool[1].run /\ tx.i = mempool[1].i /\ tx.signers = mempool[1].signers
      BY <2>2, <3>1, MinedKeeps
    <3>3. MyEntry(mempool[1], TRUE) \in log
      BY <2>2, <3>2 DEF LogInv
    <3> QED
      BY <3>2, <3>3 DEF MyEntry
  <2>3. CASE Sends /\ tx = SettleTx(driver.item)
    <3>1. tx.run = driver.run /\ tx.i = driver.i /\ tx.signers = driver.item.valid /\ driver.at = "settle"
      BY <2>3 DEF SettleTx, Sends, settle
    <3> QED
      BY <3>1 DEF LogInv, MyEntry
  <2> QED
    BY <2>1, <2>2, <2>3, SentSteps DEF DriverInv
<1>4. CASE UNCHANGED log
  <2>1. \A e, f \in log' : e.run = f.run /\ e.i = f.i => e = f
    BY <1>4 DEF LogInv
  <2>2. CASE driver'.at = "settle" /\ driver.at = "settle" /\ driver' = driver
    BY <1>1, <1>3, <1>4, <2>1, <2>2 DEF LogInv
  <2>3. CASE driver'.at # "settle"
    BY <1>1, <1>3, <1>4, <2>1, <2>3 DEF LogInv
  <2>4. ASSUME NEW signers, NEW invalid, collect(signers, invalid)
        PROVE  LogInv'
    <3>1. driver.at = "attest" /\ driver.item \in Item
      BY <2>4, <1>a DEF collect, DriverOK
    <3>2. driver' = [driver EXCEPT !.at = "settle", !.item.signers = signers, !.item.valid = signers \ invalid]
      BY <2>4 DEF collect
    <3>3. driver'.run = driver.run /\ driver'.i = driver.i /\ driver'.item.valid = signers \ invalid
      BY <3>1, <3>2, <1>a DEF DriverOK, Item
    <3>4. me \in signers => [run |-> driver.run, i |-> driver.i, signed |-> TRUE] \in log'
      BY <2>4 DEF collect, Logged
    <3> QED
      BY <1>1, <1>3, <1>4, <2>1, <3>3, <3>4 DEF LogInv
  <2>5. \/ driver' = driver \/ driver'.at # "settle"
        \/ \E signers \in SUBSET Validators : \E invalid \in SUBSET (signers \cap Byzantine) : collect(signers, invalid)
    <3>1. driver \in [run : 0 .. MaxRuns, dir : Dirs \cup {Nowhere}, i : 0 .. n, rows : Seq(RecordRow), item : Item,
                      at : {"cover", "topUp", "prove", "attest", "settle", "wait", "row", "finish", "unlink",
                            "done", "crashed"}]
      BY <1>a DEF DriverOK
    <3>2. \A at : Go(at) => driver'.at = at
      BY <3>1 DEF Go
    <3>3. \A outcome : Decide(outcome) => driver'.at = "row"
      BY <3>1 DEF Decide
    <3>4. mine => driver' = driver
      BY DEF mine
    <3>5. cover \/ awaitTopUp \/ settle \/ awaitSettlement \/ timeOut \/ writeRecord => driver'.at # "settle"
      BY <3>2, <3>3 DEF cover, awaitTopUp, settle, awaitSettlement, timeOut, writeRecord
    <3>6. \A decision, fault : prove(decision, fault) => driver'.at # "settle"
      BY <3>1 DEF prove
    <3>7. writeRow => driver'.at # "settle"
      BY <3>1 DEF writeRow
    <3>8. unlinkPartial \/ crash => driver'.at # "settle"
      BY <3>1 DEF unlinkPartial, crash
    <3>9. \A d \in Dirs : startRun(d) => driver'.at # "settle"
      BY DEF startRun
    <3> QED
      BY <3>4, <3>5, <3>6, <3>7, <3>8, <3>9 DEF Next, DriverStep, vars
  <2> QED
    BY <2>2, <2>3, <2>4, <2>5
<1>5. ASSUME NEW signers \in SUBSET Validators, NEW invalid \in SUBSET (signers \cap Byzantine), collect(signers, invalid)
      PROVE  LogInv'
  <2> DEFINE E(b) == [run |-> driver.run, i |-> driver.i, signed |-> b]
  <2>1. driver.at = "attest" /\ driver.item \in Item /\ driver.run \in 1 .. driver.run /\ driver.i \in Int
    BY <1>5, <1>a, Assumed DEF collect, DriverOK, TypeInv, PlaceInv
  <2>2. driver' = [driver EXCEPT !.at = "settle", !.item.signers = signers, !.item.valid = signers \ invalid]
    BY <1>5 DEF collect
  <2>3. driver'.run = driver.run /\ driver'.i = driver.i /\ driver'.at = "settle" /\ driver'.item.valid = signers \ invalid
    BY <2>1, <2>2, <1>a DEF DriverOK, Item
  <2>4. log' = log \/ \E b \in BOOLEAN : log' = log \cup {E(b)}
    BY <1>5 DEF collect, Logged
  <2>5. me \in signers => E(TRUE) \in log'
    BY <1>5 DEF collect, Logged
  <2>6. \A e \in log : ~ (e.run = driver.run /\ e.i = driver.i)
    BY <2>1 DEF LogInv, Answered
  <2>7. \A b : E(b).run = driver.run /\ E(b).i = driver.i
    OBVIOUS
  <2>8. Answered(driver.run, driver.i)'
    BY <2>1, <2>3 DEF Answered
  <2> HIDE DEF E
  <2>9. \A e, f \in log' : e.run = f.run /\ e.i = f.i => e = f
    BY <2>4, <2>6, <2>7 DEF LogInv
  <2>10. \A e \in log' : Answered(e.run, e.i)'
    <3> SUFFICES ASSUME NEW e \in log' PROVE Answered(e.run, e.i)'
      OBVIOUS
    <3>1. CASE e \in log
      BY <1>1, <3>1
    <3>2. CASE e.run = driver.run /\ e.i = driver.i
      BY <2>1, <2>3, <3>2 DEF Answered
    <3> QED
      BY <2>4, <2>7, <3>1, <3>2
  <2> QED
    BY <1>2, <1>3, <2>3, <2>5, <2>9, <2>10 DEF LogInv, E
<1> QED
  BY <1>4, <1>5, LogSteps

------------------------------------------------------------------------------
(* The evidence of an independent validator.                                 *)

LEMMA LedgerSent ==
    ASSUME DriverInv, NEW j \in Settlements
    PROVE  ledger[j] \in Sent /\ ledger[j] \in Settlement
<1>1. ledger[j] \in Sent
  BY DEF Sent, SettleTxs, Settlements
<1> QED
  BY <1>1, PoolTypes DEF DriverInv

LEMMA MyChecksPass == ASSUME DriverInv, LogInv PROVE check1 /\ check2 /\ check3
<1>1. ASSUME NEW j \in WithMe PROVE MyEntry(ledger[j], TRUE) \in log /\ MyEntry(ledger[j], FALSE) \notin log
  <2>1. ledger[j] \in Sent /\ me \in ledger[j].signers
    BY LedgerSent DEF WithMe
  <2>2. MyEntry(ledger[j], TRUE) \in log
    BY <2>1 DEF LogInv
  <2>3. MyEntry(ledger[j], TRUE).run = MyEntry(ledger[j], FALSE).run /\ MyEntry(ledger[j], TRUE).i = MyEntry(ledger[j], FALSE).i
        /\ MyEntry(ledger[j], TRUE).signed /\ ~ MyEntry(ledger[j], FALSE).signed
    BY DEF MyEntry
  <2> DEFINE yes == MyEntry(ledger[j], TRUE)
             no  == MyEntry(ledger[j], FALSE)
  <2> HIDE DEF yes, no
  <2>4. yes \in log /\ yes.run = no.run /\ yes.i = no.i /\ yes # no
    BY <2>2, <2>3 DEF yes, no
  <2>5. no \notin log
    BY <2>4 DEF LogInv
  <2> QED
    BY <2>2, <2>5 DEF no
<1>2. check3
  <2> SUFFICES ASSUME threshold = Cardinality(Validators), NEW j \in Settlements PROVE j \in WithMe
    BY DEF check3, WithMe
  <2>1. ledger[j] \in Sent /\ ledger[j] \in Settlement
    BY LedgerSent
  <2>2. Cardinality(ledger[j].signers) >= Cardinality(Validators)
    BY <2>1 DEF DriverInv, SentInv
  <2>3. ledger[j].signers \in SUBSET Validators
    BY <2>1 DEF Settlement
  <2>4. ledger[j].signers = Validators
    BY <2>2, <2>3, Assumed, FS_Subset, FS_CardinalityType
  <2> QED
    BY <2>4, Assumed DEF WithMe
<1> QED
  BY <1>1, <1>2 DEF check1, check2

\* The amounts of the run's own executed settlements add up to those of the record's executed rows.
LEMMA OwnSum ==
    ASSUME DriverInv, NEW d \in Dirs, Complete(d), ledger_check(d)
    PROVE  LET X == {j \in Settlements : Executed(j)}
               f == [j \in X |-> ledger[j].amount]
           IN  SumFunctionOnSet(f, {j \in Group(reviewedRun) : Executed(j)}) = executedSum(d)
<1> DEFINE run == reviewedRun
           X == {j \in Settlements : Executed(j)}
           f == [j \in X |-> ledger[j].amount]
           G == {j \in Group(run) : Executed(j)}
           T == {row \in rows(d) : row.outcome = "Executed"}
           g == [row \in T |-> row.amount]
           Of(j, row) == row.i = ledger[j].i /\ SameAs(row, ledger[j])
           b == [j \in G |-> CHOOSE row \in honest(d) : Of(j, row)]
<1>1. /\ \A j \in Group(run) : \E row \in honest(d) : Of(j, row)
      /\ \A i, j \in Group(run) : ledger[i].i = ledger[j].i => i = j
      /\ Indices(Group(run)) = IndicesOf(settled_rows(d))
  BY DEF ledger_check
<1> HIDE DEF run
<1>2. \A j \in G : b[j] \in honest(d) /\ Of(j, b[j])
  BY <1>1
<1>3. \A j \in G : b[j] \in T /\ b[j].i = ledger[j].i /\ b[j].amount = ledger[j].amount
  BY <1>2 DEF honest, Executed, SameAs
<1>4. \A row \in T : \E j \in G : b[j] = row
  <2> SUFFICES ASSUME NEW row \in T PROVE \E j \in G : b[j] = row
    OBVIOUS
  <2>1. row \in settled_rows(d)
    BY DEF settled_rows
  <2>2. PICK j \in Group(run) : ledger[j].i = row.i
    BY <1>1, <2>1 DEF Indices, IndicesOf
  <2>3. PICK other \in honest(d) : Of(j, other)
    BY <1>1
  <2>4. other = row
    BY <2>2, <2>3, RowsApart DEF honest
  <2>5. j \in G
    BY <2>3, <2>4 DEF SameAs, Executed
  <2>6. b[j] \in rows(d) /\ b[j].i = row.i
    BY <1>3, <2>2, <2>5
  <2> QED
    BY <2>5, <2>6, RowsApart
<1>5. b \in Bijection(G, T)
  <2>1. b \in [G -> T]
    BY <1>3
  <2>2. \A i, j \in G : b[i] = b[j] => i = j
    BY <1>1, <1>3
  <2> HIDE DEF b, G, T
  <2> QED
    BY <1>4, <2>1, <2>2 DEF Bijection, Injection, IsInjective, Surjection
<1>6. G \in SUBSET X /\ IsFiniteSet(X)
  <2>1. X \in SUBSET (1 .. Len(ledger))
    <3>1. ledger \in Seq(Settlement \cup TopUp)
      BY PoolTypes DEF DriverInv
    <3> QED
      BY <3>1 DEF Settlements
  <2>2. Len(ledger) \in Nat
    BY PoolTypes DEF DriverInv
  <2>3. IsFiniteSet(1 .. Len(ledger))
    BY <2>2, FS_Interval
  <2> QED
    BY <2>1, <2>3, FS_Subset DEF Group
<1>7. \A j \in G : f[j] \in Int /\ g[b[j]] = f[j]
  <2>1. \A j \in X : ledger[j].amount \in Nat
    BY LedgerSent DEF Settlement
  <2> QED
    BY <1>3, <1>6, <2>1
<1>8. IsFiniteSet(G)
  BY <1>6, FS_Subset
<1>9. executedSum(d) = SumFunctionOnSet(g, T)
  BY DEF executedSum, SumFunction
<1> HIDE DEF b, f, g, G, T
<1>10. SumFunctionOnSet(f, G) = SumFunctionOnSet(g, T)
  BY <1>5, <1>7, <1>8, SumMatched
<1> QED
  BY <1>9, <1>10 DEF f, G, X, run

\* When both sides' records pass, every executed settlement is of the reviewed run: its amounts
\* already add up to the merchant's balance, and every other would add to it.
LEMMA OnlyReviewedExecuted ==
    ASSUME DriverInv, NEW d \in Dirs, Complete(d), ledger_check(d), NEW j \in Settlements, Executed(j)
    PROVE  ledger[j].run = reviewedRun
<1> DEFINE X == {i \in Settlements : Executed(i)}
           f == [i \in X |-> ledger[i].amount]
           G == {i \in Group(reviewedRun) : Executed(i)}
<1>1. SumFunctionOnSet(f, G) = executedSum(d)
  BY OwnSum
<1>2. merchantBalance = SumFunctionOnSet(f, X)
  BY DEF merchantBalance, SumFunction
<1>3. merchantBalance = executedSum(d)
  BY DEF ledger_check
<1>4. G \in SUBSET X /\ IsFiniteSet(X)
  <2>1. X \in SUBSET (1 .. Len(ledger))
    <3>1. ledger \in Seq(Settlement \cup TopUp)
      BY PoolTypes DEF DriverInv
    <3> QED
      BY <3>1 DEF Settlements
  <2>2. Len(ledger) \in Nat
    BY PoolTypes DEF DriverInv
  <2>3. IsFiniteSet(1 .. Len(ledger))
    BY <2>2, FS_Interval
  <2> QED
    BY <2>1, <2>3, FS_Subset DEF Group
<1>5. \A i \in X : f[i] \in Nat \ {0}
  <2> SUFFICES ASSUME NEW i \in X PROVE ledger[i].amount \in Nat \ {0}
    OBVIOUS
  <2>1. ledger[i] \in Sent /\ ledger[i] \in Settlement
    BY LedgerSent
  <2>2. ledger[i].amount = ledger[i].i + 1 /\ ledger[i].i \in Nat
    BY <2>1, Assumed DEF DriverInv, SentInv, amount, Settlement
  <2> QED
    BY <2>2
<1> HIDE DEF f, G, X
<1>6. G = X
  BY <1>1, <1>2, <1>3, <1>4, <1>5, SumWhole
<1> QED
  BY <1>6 DEF G, X, Group

LEMMA ChecksTellTrue ==
    ASSUME DriverInv, NEW d \in Dirs, Complete(d), ledger_check(d), cross_check(d), NEW row \in honest(d)
    PROVE  Cardinality({j \in Group(reviewedRun) : ledger[j].i = row.i /\ j \in WithMe}) = 1
<1>1. row \in settled_rows(d)
  BY DEF cross_check
<1>a. Indices(Group(reviewedRun)) = IndicesOf(settled_rows(d))
  BY DEF ledger_check
<1>2. PICK j \in Group(reviewedRun) : ledger[j].i = row.i
  BY <1>1, <1>a DEF Indices, IndicesOf
<1>3. j \in WithMe
  BY <1>2, Assumed DEF ledger_check, WithMe, Group
<1>4. {i \in Group(reviewedRun) : ledger[i].i = row.i /\ i \in WithMe} = {j}
  BY <1>2, <1>3 DEF ledger_check
<1> QED
  BY <1>4, FS_Singleton

\* An honest validator's checks of its own decisions never fail, whatever the others do, and when
\* both sides' records pass, every honest request of the run settled once, with its signature, and
\* no other run moved money: the signatures, the indices and the sums fit no other history.
THEOREM EvidenceHolds == Spec => []EvidenceIsSound
<1>1. ASSUME DriverInv, LogInv PROVE EvidenceIsSound
  BY <1>1, MyChecksPass, OnlyReviewedExecuted, ChecksTellTrue DEF EvidenceIsSound
<1>2. Init => LogInv
  BY LogInit
<1>3. DriverInv /\ LogInv /\ [Next]_vars => LogInv'
  BY LogStep
<1> QED
  BY <1>1, <1>2, <1>3, DriverIsTrue, PTL DEF Spec
==============================================================================
