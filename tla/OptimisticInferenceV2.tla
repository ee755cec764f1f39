------------------------ MODULE OptimisticInferenceV2 ------------------------
(***************************************************************************)
(* The zk-OPML dispute contract, h1-zkopml-v2/contracts/                   *)
(* OptimisticInferenceV2.sol, with the two kinds of parties that play it   *)
(* (h1-zkopml-v2/onchain_dispute.py).                                      *)
(*                                                                         *)
(* An asserter commits the trace of a model inference; during a window any *)
(* challenger may open a dispute, which bisects the trace down to one step *)
(* whose proof decides it.  Every external function is one action; a       *)
(* transaction that reverts is a step that is not enabled.                 *)
(*                                                                         *)
(* Hashes are free.  keccak(P || leaf) is Append(P, leaf), so that a       *)
(* running prefix hash is the sequence of what was hashed into it, the     *)
(* all-zero word is the empty sequence, and a word that is nobody's hash   *)
(* contains the element Junk.  A Merkle root is the trace it commits to.   *)
(***************************************************************************)
EXTENDS Integers, Sequences, FiniteSets, FiniteSetsExt

CONSTANTS
    Parties,          \* the accounts that call the contract
    Asserters,        \* the accounts among them that deposit and commit
    Honest,           \* those that follow onchain_dispute.py and watch the claims
    NSteps,           \* number of steps of the model
    StepInputs,       \* per step: -1 for the transaction, j >= 0 for step j
    StepOut(_, _),    \* what step k outputs on its inputs: the sound step proofs
    TrueLeaf,         \* per transaction, the leaves of the honest trace
    Leaf,             \* the values a leaf can take
    TxInput,          \* the transactions (their input hashes)
    Junk,             \* a 32-byte word that is not a hash of anything known
    Zero,             \* the all-zero word in a leaf field
    NoClaim,          \* a claim slot that has not been written
    Traces,           \* the traces, well formed or not, an asserter may commit
    asserterBond, challengerBond, challengeWindow, turnTimeout, withdrawDelay,
    Amounts, MaxClaims, MaxCommitTime, MaxTime, MaxDeposit   \* bounds of the model

Steps    == 0 .. NSteps - 1
ClaimIds == 0 .. MaxClaims - 1
Last     == NSteps - 1
Prefix   == Seq(Leaf \cup {Junk})
Opening  == [leaf : Leaf, prefix : Prefix]

\* What the constructor requires, and that TrueLeaf is the run of the model.
ASSUME TimingAssumption ==
    /\ challengeWindow \in Nat \ {0} /\ turnTimeout \in Nat \ {0}
    /\ withdrawDelay \in Nat /\ withdrawDelay >= challengeWindow
    /\ {MaxClaims, MaxCommitTime, MaxTime, MaxDeposit} \subseteq Nat /\ Amounts \subseteq Nat

ASSUME BondAssumption == asserterBond \in Nat /\ challengerBond \in Nat

ASSUME ModelAssumption ==
    /\ NSteps \in Nat /\ NSteps >= 2
    /\ StepInputs \in [Steps -> SUBSET (-1 .. NSteps - 1)]
    /\ \A k \in Steps : StepInputs[k] # {} /\ \A j \in StepInputs[k] : j < k

ASSUME TraceAssumption ==
    /\ IsFiniteSet(Parties) /\ Asserters \subseteq Parties /\ Honest \subseteq Parties
    /\ Traces \subseteq [Steps -> Opening]
    /\ Junk \notin Leaf

ASSUME TrueLeafAssumption ==
    /\ TrueLeaf \in [TxInput -> [Steps -> Leaf]]
    /\ \A x \in TxInput : \A k \in Steps :
          TrueLeaf[x][k] = StepOut(k, [j \in StepInputs[k] |-> IF j = -1 THEN x ELSE TrueLeaf[x][j]])

\* chain.py prefix_chain over the honest leaves, up to and including step i.
TruePrefix(x, i) == [m \in 1 .. i + 1 |-> TrueLeaf[x][m - 1]]

\* onchain_dispute.py commit_trace of the honest run.
TrueTrace(x) == [i \in Steps |-> [leaf |-> TrueLeaf[x][i], prefix |-> TruePrefix(x, i)]]

VARIABLES
    now,                \* block.timestamp
    balance,            \* the ether the contract holds
    collateral,         \* per asserter: deposit, locked
    pendingWithdrawal,  \* per asserter: amount, notBefore
    credit,             \* per party: winnings not yet claimed
    nClaims, claims,    \* the commitments (claimDigest binds all their fields)
    claimState,         \* per claim: openDisputes, rejected
    disputes            \* per claim and challenger

vars == <<now, balance, collateral, pendingWithdrawal, credit, nClaims, claims, claimState, disputes>>
money == <<balance, collateral, pendingWithdrawal, credit>>
book  == <<nClaims, claims>>

Claim == [root : [Steps -> Opening], outputDigest : Leaf, inputHash : TxInput,
          asserter : Parties, committedAt : Nat]

OpenPhases == {"AwaitOpening", "AwaitReveal", "AwaitResponse", "AwaitProof"}

Dispute == [phase : OpenPhases \cup {"None", "AsserterWon", "ChallengerWon"},
            deadline : Nat, lo1 : 0 .. NSteps - 1, hi : 0 .. NSteps - 1, lockedBond : Nat,
            curLeaf : Leaf \cup {Zero}, curPrefix : Prefix, loPrefix : Prefix,
            hiLeaf : Leaf \cup {Zero}, hiPrefix : Prefix]

NoDispute == [phase |-> "None", deadline |-> 0, lo1 |-> 0, hi |-> 0, lockedBond |-> 0,
              curLeaf |-> Zero, curPrefix |-> <<>>, loPrefix |-> <<>>,
              hiLeaf |-> Zero, hiPrefix |-> <<>>]

Init ==
    /\ now = 0
    /\ balance = 0
    /\ collateral = [a \in Parties |-> [deposit |-> 0, locked |-> 0]]
    /\ pendingWithdrawal = [a \in Parties |-> [amount |-> 0, notBefore |-> 0]]
    /\ credit = [a \in Parties |-> 0]
    /\ nClaims = 0
    /\ claims = [id \in ClaimIds |-> NoClaim]
    /\ claimState = [id \in ClaimIds |-> [openDisputes |-> 0, rejected |-> FALSE]]
    /\ disputes = [id \in ClaimIds |-> [c \in Parties |-> NoDispute]]

------------------------------------------------------------------------------
(* Collateral.                                                               *)

freeDeposit(a) == collateral[a].deposit - collateral[a].locked

Lesser(m, n) == IF m < n THEN m ELSE n

depositBond(a, v) ==
    /\ collateral[a].deposit + pendingWithdrawal[a].amount + v <= MaxDeposit
    /\ collateral' = [collateral EXCEPT ![a].deposit = @ + v]
    /\ balance' = balance + v
    /\ UNCHANGED <<now, pendingWithdrawal, credit, book, claimState, disputes>>

requestWithdraw(a, v) ==
    /\ v <= freeDeposit(a)
    /\ collateral' = [collateral EXCEPT ![a].deposit = @ - v]
    /\ pendingWithdrawal' = [pendingWithdrawal EXCEPT
                                ![a] = [amount |-> @.amount + v, notBefore |-> now + withdrawDelay]]
    /\ UNCHANGED <<now, balance, credit, book, claimState, disputes>>

withdraw(a) ==
    /\ pendingWithdrawal[a].amount > 0
    /\ now >= pendingWithdrawal[a].notBefore
    /\ balance' = balance - pendingWithdrawal[a].amount
    /\ pendingWithdrawal' = [pendingWithdrawal EXCEPT ![a] = [amount |-> 0, notBefore |-> 0]]
    /\ UNCHANGED <<now, collateral, credit, book, claimState, disputes>>

claimCredit(a) ==
    /\ balance' = balance - credit[a]
    /\ credit' = [credit EXCEPT ![a] = 0]
    /\ UNCHANGED <<now, collateral, pendingWithdrawal, book, claimState, disputes>>

------------------------------------------------------------------------------
(* Claims.                                                                   *)

\* The claimed output is not what the model computes on the claimed input.
Wrong(id) == claims[id].outputDigest # TrueLeaf[claims[id].inputHash][Last]

commit(a, trace, out, x) ==
    /\ nClaims < MaxClaims /\ now <= MaxCommitTime
    /\ freeDeposit(a) >= asserterBond
    /\ a \in Honest => trace = TrueTrace(x) /\ out = TrueLeaf[x][Last]
    /\ claims' = [claims EXCEPT ![nClaims] =
                    [root |-> trace, outputDigest |-> out, inputHash |-> x, asserter |-> a, committedAt |-> now]]
    /\ nClaims' = nClaims + 1
    /\ UNCHANGED <<now, money, claimState, disputes>>

Committed(id) == id < nClaims

\* Variants of the operations, each with one slip; only the mutation runs use them.
isAcceptedEarly(id) ==
    /\ Committed(id)
    /\ now >= claims[id].committedAt + challengeWindow
    /\ claimState[id].openDisputes = 0
    /\ ~ claimState[id].rejected

isAcceptedDuringDisputes(id) ==
    /\ Committed(id)
    /\ now > claims[id].committedAt + challengeWindow
    /\ ~ claimState[id].rejected

isAccepted(id) ==
    /\ Committed(id)
    /\ now > claims[id].committedAt + challengeWindow
    /\ claimState[id].openDisputes = 0
    /\ ~ claimState[id].rejected

------------------------------------------------------------------------------
(* The dispute game.                                                         *)

PulledBackNothing(a) == 0
\* _lockBond: what is pulled back from the pending withdrawal, and what is locked.
PulledBack(a) == IF freeDeposit(a) < asserterBond
                   THEN Lesser(asserterBond - freeDeposit(a), pendingWithdrawal[a].amount)
                   ELSE 0
LockAmount(a) == Lesser(freeDeposit(a) + PulledBack(a), asserterBond)

challenge(c, id) ==
    LET a == claims[id].asserter IN
    /\ Committed(id)
    /\ now <= claims[id].committedAt + challengeWindow
    /\ c # a
    /\ disputes[id][c].phase = "None"
    /\ c \in Honest => Wrong(id)
    /\ balance' = balance + challengerBond
    /\ collateral' = [collateral EXCEPT ![a] = [deposit |-> @.deposit + PulledBack(a),
                                                locked |-> @.locked + LockAmount(a)]]
    /\ pendingWithdrawal' = [pendingWithdrawal EXCEPT ![a].amount = @ - PulledBack(a)]
    /\ disputes' = [disputes EXCEPT ![id][c] = [@ EXCEPT !.phase = "AwaitOpening", !.hi = Last,
                        !.lockedBond = LockAmount(a), !.deadline = now + turnTimeout]]
    /\ claimState' = [claimState EXCEPT ![id].openDisputes = @ + 1]
    /\ UNCHANGED <<now, credit, book>>

FinishLeavesCount(id, c, d, asserterWins) ==
    LET a == claims[id].asserter IN
    /\ disputes' = [disputes EXCEPT ![id][c] =
                      [d EXCEPT !.phase = IF asserterWins THEN "AsserterWon" ELSE "ChallengerWon"]]
    /\ collateral' = [collateral EXCEPT ![a] =
                        [deposit |-> IF asserterWins THEN @.deposit ELSE @.deposit - d.lockedBond,
                         locked |-> @.locked - d.lockedBond]]
    /\ credit' = IF asserterWins
                   THEN [credit EXCEPT ![a] = @ + challengerBond]
                   ELSE [credit EXCEPT ![c] = @ + challengerBond + d.lockedBond]
    /\ claimState' = [claimState EXCEPT ![id].rejected = @ \/ ~ asserterWins]

\* _finish: the loser's stake in the dispute becomes the winner's credit.
Finish(id, c, d, asserterWins) ==
    LET a == claims[id].asserter IN
    /\ disputes' = [disputes EXCEPT ![id][c] =
                      [d EXCEPT !.phase = IF asserterWins THEN "AsserterWon" ELSE "ChallengerWon"]]
    /\ collateral' = [collateral EXCEPT ![a] =
                        [deposit |-> IF asserterWins THEN @.deposit ELSE @.deposit - d.lockedBond,
                         locked |-> @.locked - d.lockedBond]]
    /\ credit' = IF asserterWins
                   THEN [credit EXCEPT ![a] = @ + challengerBond]
                   ELSE [credit EXCEPT ![c] = @ + challengerBond + d.lockedBond]
    /\ claimState' = [claimState EXCEPT ![id] =
                        [openDisputes |-> @.openDisputes - 1, rejected |-> @.rejected \/ ~ asserterWins]]

\* The dispute goes on as d, its next turn ending turnTimeout from now.
NextTurn(id, c, d, phase) ==
    /\ disputes' = [disputes EXCEPT ![id][c] =
                      [d EXCEPT !.phase = phase, !.deadline = now + turnTimeout]]
    /\ UNCHANGED <<collateral, credit, claimState>>

AgreedPrefix(d) == IF d.lo1 = 0 THEN <<>> ELSE d.loPrefix

AdvanceUnchecked(id, c, d) == NextTurn(id, c, d, IF d.hi # d.lo1 THEN "AwaitReveal" ELSE "AwaitProof")

Advance(id, c, d) ==
    IF d.hi # d.lo1 THEN NextTurn(id, c, d, "AwaitReveal")
    ELSE IF d.hiPrefix = Append(AgreedPrefix(d), d.hiLeaf) THEN NextTurn(id, c, d, "AwaitProof")
    ELSE Finish(id, c, d, FALSE)

Mid(d) == IF d.hi = d.lo1 THEN d.hi ELSE (d.lo1 + d.hi - 1) \div 2

\* _turn, except for who is calling: the callers are parameters of the actions.
Turn(id, c, phase) == disputes[id][c].phase = phase /\ now <= disputes[id][c].deadline

openFinal(id, c) ==
    LET cl   == claims[id]
        head == cl.root[Last]
        prev == cl.root[Last - 1]
        d    == [disputes[id][c] EXCEPT !.hiLeaf = head.leaf, !.hiPrefix = head.prefix]
    IN /\ Turn(id, c, "AwaitOpening")
       /\ IF head.leaf # cl.outputDigest \/ head.prefix # Append(prev.prefix, head.leaf)
            THEN Finish(id, c, d, FALSE)
            ELSE Advance(id, c, d)
       /\ UNCHANGED <<now, balance, pendingWithdrawal, book>>

reveal(id, c) ==
    LET op == claims[id].root[Mid(disputes[id][c])] IN
    /\ Turn(id, c, "AwaitReveal")
    /\ NextTurn(id, c, [disputes[id][c] EXCEPT !.curLeaf = op.leaf, !.curPrefix = op.prefix], "AwaitResponse")
    /\ UNCHANGED <<now, balance, pendingWithdrawal, book>>

respondKeepsMid(id, c, agree) ==
    LET d   == disputes[id][c]
        mid == Mid(d)
    IN /\ Turn(id, c, "AwaitResponse")
       /\ c \in Honest => agree = (d.curPrefix = TruePrefix(claims[id].inputHash, mid))
       /\ Advance(id, c, IF agree
                           THEN [d EXCEPT !.lo1 = mid, !.loPrefix = d.curPrefix]
                           ELSE [d EXCEPT !.hi = mid, !.hiLeaf = d.curLeaf, !.hiPrefix = d.curPrefix])
       /\ UNCHANGED <<now, balance, pendingWithdrawal, book>>

respond(id, c, agree) ==
    LET d   == disputes[id][c]
        mid == Mid(d)
    IN /\ Turn(id, c, "AwaitResponse")
       /\ c \in Honest => agree = (d.curPrefix = TruePrefix(claims[id].inputHash, mid))
       /\ Advance(id, c, IF agree
                           THEN [d EXCEPT !.lo1 = mid + 1, !.loPrefix = d.curPrefix]
                           ELSE [d EXCEPT !.hi = mid, !.hiLeaf = d.curLeaf, !.hiPrefix = d.curPrefix])
       /\ UNCHANGED <<now, balance, pendingWithdrawal, book>>

\* _checkOpening: leaf, followed by the leaves up to step k - 1, hashes forward from some
\* start prefix to the agreed one.  Hashes being free, the last k - j elements of the
\* agreed prefix are those leaves, and what is before them is the start prefix.
OpensTo(agreed, k, j, leaf) ==
    LET start == Len(agreed) - (k - j) IN
    /\ start >= 0
    /\ j = 0 => start = 0
    /\ \A m \in start + 1 .. Len(agreed) : agreed[m] \in Leaf
    /\ agreed[start + 1] = leaf

InputsOnlyFromTransaction(d, x, ins) == \A j \in StepInputs[d.hi] : j = -1 => ins[j] = x

\* _checkInputs: ins are the input instances of a proof of step k.
InputsChecked(d, x, ins) ==
    \A j \in StepInputs[d.hi] :
        IF j = -1 THEN ins[j] = x ELSE OpensTo(AgreedPrefix(d), d.hi, j, ins[j])

\* Anyone resolves, with a proof of the disputed step on inputs that pass the checks.
resolve(id, c, ins) ==
    LET d == disputes[id][c] IN
    /\ Turn(id, c, "AwaitProof")
    /\ InputsChecked(d, claims[id].inputHash, ins)
    /\ Finish(id, c, d, StepOut(d.hi, ins) = d.hiLeaf)
    /\ UNCHANGED <<now, balance, pendingWithdrawal, book>>

timeoutPaysChallenger(id, c) ==
    LET d == disputes[id][c] IN
    /\ d.phase \in OpenPhases
    /\ now > d.deadline
    /\ Finish(id, c, d, FALSE)
    /\ UNCHANGED <<now, balance, pendingWithdrawal, book>>

timeoutWithoutProof(id, c) ==
    LET d == disputes[id][c] IN
    /\ d.phase \in OpenPhases \ {"AwaitProof"}
    /\ now > d.deadline
    /\ Finish(id, c, d, d.phase = "AwaitResponse")
    /\ UNCHANGED <<now, balance, pendingWithdrawal, book>>

timeout(id, c) ==
    LET d == disputes[id][c] IN
    /\ d.phase \in OpenPhases
    /\ now > d.deadline
    /\ Finish(id, c, d, d.phase = "AwaitResponse")
    /\ UNCHANGED <<now, balance, pendingWithdrawal, book>>

------------------------------------------------------------------------------
(* Time.  Honest parties keep their deadlines: an open turn of theirs does   *)
(* not run out, and they challenge a wrong claim before its window closes.   *)
(* The turn is the challenger's only while a response is awaited; the burden *)
(* of the opening, the reveals and the proof is the asserter's.              *)

OnTurn(id, c) == IF disputes[id][c].phase = "AwaitResponse" THEN c ELSE claims[id].asserter

Punctual ==
    \A id \in ClaimIds, c \in Parties :
        disputes[id][c].phase \in OpenPhases /\ now = disputes[id][c].deadline => OnTurn(id, c) \notin Honest

Watched ==
    \A id \in ClaimIds :
        Committed(id) /\ now = claims[id].committedAt + challengeWindow /\ Wrong(id) =>
            \A h \in Honest : disputes[id][h].phase # "None"

Tick ==
    /\ now < MaxTime
    /\ Punctual /\ Watched
    /\ now' = now + 1
    /\ UNCHANGED <<money, book, claimState, disputes>>

Play(id, c) ==
    \/ openFinal(id, c)
    \/ reveal(id, c)
    \/ \E agree \in BOOLEAN : respond(id, c, agree)
    \/ \E ins \in [StepInputs[disputes[id][c].hi] -> Leaf \cup TxInput] : resolve(id, c, ins)

Next ==
    \/ \E a \in Asserters, v \in Amounts : depositBond(a, v) \/ requestWithdraw(a, v)
    \/ \E a \in Asserters : withdraw(a)
    \/ \E a \in Parties : claimCredit(a)
    \/ \E a \in Asserters, x \in TxInput, out \in Leaf :
          \E trace \in Traces \cup {TrueTrace(x)} : commit(a, trace, out, x)
    \/ \E id \in ClaimIds, c \in Parties : challenge(c, id) \/ Play(id, c) \/ timeout(id, c)
    \/ Tick

Spec == Init /\ [][Next]_vars

\* Blocks keep coming; anyone may call timeout, and the party it pays does; honest parties
\* make the moves that are theirs (of an open game, a wrong claim or an owed proof).
HonestMove(id, c) ==
    \/ c \in Honest /\ challenge(c, id)
    \/ Committed(id) /\ OnTurn(id, c) \in Honest /\ Play(id, c)

Fairness ==
    /\ WF_vars(Tick)
    /\ \A id \in ClaimIds, c \in Parties : WF_vars(timeout(id, c)) /\ WF_vars(HonestMove(id, c))

FairSpec == Spec /\ Fairness

------------------------------------------------------------------------------
(* Properties.                                                               *)

TypeOK ==
    /\ now \in Nat /\ balance \in Int
    /\ collateral \in [Parties -> [deposit : Int, locked : Int]]
    /\ pendingWithdrawal \in [Parties -> [amount : Int, notBefore : Nat]]
    /\ credit \in [Parties -> Int]
    /\ nClaims \in 0 .. MaxClaims
    /\ claims \in [ClaimIds -> Claim \cup {NoClaim}]
    /\ claimState \in [ClaimIds -> [openDisputes : Int, rejected : BOOLEAN]]
    /\ disputes \in [ClaimIds -> [Parties -> Dispute]]

Open(id, c) == disputes[id][c].phase \in OpenPhases

\* An honest asserter never loses a dispute, whatever its challengers answer and
\* whoever submits the proof: openFinal, respond, resolve and timeout together.
HonestAsserterNeverSlashed ==
    \A id \in ClaimIds, c \in Parties :
        disputes[id][c].phase = "ChallengerWon" => claims[id].asserter \notin Honest

\* An honest challenger of a wrong claim never loses its dispute, whatever trace was
\* committed: wrong leaves, broken prefix chains, honest prefixes over wrong leaves.
HonestChallengerNeverLoses ==
    \A id \in ClaimIds, c \in Parties : disputes[id][c].phase = "AsserterWon" => c \notin Honest

\* With one honest watcher isAccepted never returns true for a wrong output, also when
\* colluding challengers lose disputes on purpose.
AcceptedIsCorrect ==
    \A id \in ClaimIds : Honest # {} /\ isAccepted(id) => ~ Wrong(id)

\* The bisection of an honest challenger stops at the step where the asserter's trace
\* first leaves the honest one: what is before is agreed and true, its leaf is not.
LocatesWrongStep ==
    \A id \in ClaimIds, c \in Honest :
        LET d == disputes[id][c]
            x == claims[id].inputHash
        IN d.phase = "AwaitProof" => /\ AgreedPrefix(d) = TruePrefix(x, d.hi - 1)
                                     /\ d.hiLeaf # TrueLeaf[x][d.hi]

\* Every answer halves the steps that may still be the disputed one (respond, _mid), so a
\* dispute takes at most ceil(log2 nSteps) rounds.
BisectionHalves ==
    [][\A id \in ClaimIds, c \in Parties :
          LET d == disputes[id][c]
              e == disputes'[id][c]
          IN d.phase # "None" /\ <<d.lo1, d.hi>> # <<e.lo1, e.hi>>
                => e.hi - e.lo1 + 1 \in 1 .. (d.hi - d.lo1 + 2) \div 2]_vars

\* The counter isAccepted reads is the number of disputes that are open.
OpenDisputesCounted ==
    \A id \in ClaimIds : claimState[id].openDisputes = Cardinality({c \in Parties : Open(id, c)})

\* The contract holds exactly what it owes: deposits, pending withdrawals, credits and the
\* challenger bonds of the open disputes.
Solvent ==
    /\ \A a \in Parties : collateral[a].locked >= 0 /\ pendingWithdrawal[a].amount >= 0 /\ credit[a] >= 0
    /\ balance = SumFunction([a \in Parties |-> collateral[a].deposit + pendingWithdrawal[a].amount + credit[a]])
                   + challengerBond * Cardinality({p \in ClaimIds \X Parties : Open(p[1], p[2])})

\* What _finish takes out of an asserter's locked collateral is there: the locks of the
\* open disputes add up to locked, the deposit covers it, and the counter isAccepted reads is
\* the number of open disputes (else _finish would revert on a checked subtraction and the
\* dispute could never end); and the contract is solvent.
LocksAddUp ==
    /\ \A a \in Parties :
          LET open == {p \in ClaimIds \X Parties : Open(p[1], p[2]) /\ claims[p[1]].asserter = a}
          IN /\ collateral[a].locked = SumFunction([p \in open |-> disputes[p[1]][p[2]].lockedBond])
             /\ collateral[a].locked <= collateral[a].deposit
    /\ OpenDisputesCounted
    /\ Solvent

\* Once isAccepted returns true it does for ever: no later challenge, answer, proof or
\* timeout takes a relied-on result back.
AcceptanceIsFinal ==
    [][\A id \in ClaimIds : isAccepted(id) => isAccepted(id)']_vars

\* The first dispute against an asserter finds a whole bond to lock, although commit locks
\* nothing and the deposit may be on its way out (requestWithdraw, withdraw, _lockBond).
FirstDisputeIsBacked ==
    [][\A id \in ClaimIds, c \in Parties :
          /\ disputes[id][c].phase = "None" /\ disputes'[id][c].phase # "None"
          /\ \A i \in ClaimIds, p \in Parties :
                disputes[i][p].phase # "None" => claims[i].asserter # claims[id].asserter
          => disputes'[id][c].lockedBond = asserterBond]_vars

\* "The loser's bond goes to the winner" (contract header): whoever wins a dispute against
\* an asserter finds asserterBond locked in it.
LoserPaysBond ==
    \A id \in ClaimIds, c \in Parties :
        disputes[id][c].phase = "ChallengerWon" => disputes[id][c].lockedBond = asserterBond

\* Each claim, seen through isAccepted and rejected, behaves as OptimisticClaim says.
Status(id) ==
    IF ~ Committed(id) THEN "unposted"
    ELSE IF isAccepted(id) THEN "accepted"
    ELSE IF claimState[id].rejected THEN "rejected" ELSE "undecided"

Posted(id) == IF Committed(id)
                THEN [by |-> claims[id].asserter, input |-> claims[id].inputHash,
                      output |-> claims[id].outputDigest]
                ELSE NoClaim

TrueOutput(x) == TrueLeaf[x][Last]

Abstract(id) == INSTANCE OptimisticClaim WITH
    Inputs <- TxInput, Outputs <- Leaf, Model <- TrueOutput, Unposted <- NoClaim,
    status <- Status(id), claim <- Posted(id)

\* (Abstract(id)!Spec for every id, written as one action for TLC.)
ImplementsClaim ==
    /\ \A id \in ClaimIds : Abstract(id)!Init
    /\ [][\A id \in ClaimIds : Abstract(id)!Next \/ UNCHANGED <<Status(id), Posted(id)>>]_vars

\* Every claim is decided, accepted by isAccepted or rejected, by the clock if nothing else;
\* and every dispute about it ends: each turn has a deadline and somebody whom timeout pays.
ClaimDecided ==
    \A id \in ClaimIds :
        /\ Abstract(id)!Decided
        /\ \A c \in Parties : Open(id, c) ~> ~ Open(id, c)
==============================================================================
