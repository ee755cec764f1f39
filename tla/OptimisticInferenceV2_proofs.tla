--------------------- MODULE OptimisticInferenceV2_proofs ---------------------
(***************************************************************************)
(* Theorems about the dispute contract, for every model, every committed   *)
(* trace and every number of parties, claims and steps.                    *)
(*                                                                         *)
(* The argument: the inductive invariant IInv follows each dispute.  What  *)
(* is agreed is always the honest trace up to lo1 if one side is honest;   *)
(* what is disputed at hi is the honest opening if the asserter is honest, *)
(* and is not the honest prefix if the challenger is.  A proof of step hi  *)
(* on inputs opened against an honest agreed prefix gives the honest leaf, *)
(* so that the last step of the game decides for the honest side.          *)
(*                                                                         *)
(* The second part is about what the contract owes its parties: isAccepted,*)
(* the money behind the disputes and, claim by claim, OptimisticClaim.     *)
(***************************************************************************)
EXTENDS OptimisticInferenceV2, SumLemmas, SequenceTheorems, TLAPS

------------------------------------------------------------------------------
(* Prefix chains.                                                            *)

\* The honest chain up to step i is a sequence of i + 1 leaves (prefix_chain).
LEMMA TruePrefixIs ==
    ASSUME NEW x \in TxInput, NEW i \in -1 .. Last
    PROVE  /\ TruePrefix(x, i) \in Seq(Leaf)
           /\ TruePrefix(x, i) \in Prefix
           /\ Len(TruePrefix(x, i)) = i + 1
           /\ \A m \in 1 .. i + 1 : TruePrefix(x, i)[m] = TrueLeaf[x][m - 1]
<1> DEFINE T == TruePrefix(x, i)
<1>1. \A m \in 1 .. i + 1 : m - 1 \in Steps
  BY ModelAssumption DEF Steps, Last
<1>2. TrueLeaf[x] \in [Steps -> Leaf]
  BY TrueLeafAssumption
<1>3. T \in [1 .. i + 1 -> Leaf]
  BY <1>1, <1>2 DEF TruePrefix
<1>4. i + 1 \in Nat
  BY ModelAssumption DEF Last
<1>5. T \in Seq(Leaf)
  BY <1>3, <1>4
<1>6. Len(T) = i + 1
  BY <1>3, <1>4, <1>5
<1>7. T \in Prefix
  BY <1>3, <1>4 DEF Prefix
<1> QED
  BY <1>5, <1>6, <1>7 DEF TruePrefix

\* Before the first step nothing is hashed.
LEMMA TruePrefixEmpty ==
    ASSUME NEW x \in TxInput
    PROVE  TruePrefix(x, -1) = <<>>
<1>1. -1 \in -1 .. Last
  BY ModelAssumption DEF Last
<1>2. TruePrefix(x, -1) \in Seq(Leaf) /\ Len(TruePrefix(x, -1)) = 0
  BY <1>1, TruePrefixIs
<1> QED
  BY <1>2, EmptySeq

\* A chain that ends in the honest prefix was extended from the honest prefix before it by
\* the honest leaf, and the other way round.
LEMMA TruePrefixStep ==
    ASSUME NEW x \in TxInput, NEW i \in Steps
    PROVE  /\ TruePrefix(x, i) = Append(TruePrefix(x, i - 1), TrueLeaf[x][i])
           /\ \A s \in Prefix : \A e : Append(s, e) = TruePrefix(x, i) => e = TrueLeaf[x][i]
<1> DEFINE T == TruePrefix(x, i)  S == TruePrefix(x, i - 1)  e0 == TrueLeaf[x][i]
<1>1. i \in -1 .. Last /\ i - 1 \in -1 .. Last /\ i \in Nat
  BY ModelAssumption DEF Last, Steps
<1>2. e0 \in Leaf
  BY TrueLeafAssumption
<1>3. /\ T \in Seq(Leaf) /\ Len(T) = i + 1 /\ T[i + 1] = e0
      /\ \A m \in 1 .. i + 1 : T[m] = TrueLeaf[x][m - 1]
  BY <1>1, TruePrefixIs
<1>4. /\ S \in Seq(Leaf) /\ Len(S) = i
      /\ \A m \in 1 .. i : S[m] = TrueLeaf[x][m - 1]
  <2>1. i - 1 + 1 = i
    BY <1>1
  <2> QED
    BY <1>1, <2>1, TruePrefixIs
<1>5. T = Append(S, e0)
  <2>1. Append(S, e0) \in Seq(Leaf) /\ Len(Append(S, e0)) = i + 1
    BY <1>2, <1>4
  <2>2. \A m \in 1 .. i + 1 : Append(S, e0)[m] = T[m]
    BY <1>1, <1>2, <1>3, <1>4
  <2> QED
    BY <1>3, <2>1, <2>2, SeqEqual
<1>6. ASSUME NEW s \in Prefix, NEW e, Append(s, e) = T
      PROVE  e = e0
  <2>1. Len(Append(s, e)) = Len(s) + 1 /\ Append(s, e)[Len(s) + 1] = e
    BY <1>6 DEF Prefix
  <2> QED
    BY <1>3, <1>6, <2>1
<1> QED
  BY <1>5, <1>6

------------------------------------------------------------------------------
(* The invariant of one dispute d of challenger c against the claim cl, at   *)
(* time t.                                                                   *)

AgreedTrue(d, x) == AgreedPrefix(d) = TruePrefix(x, d.lo1 - 1)

\* The asserter's side of the disputed range is honest.
TrueSide(d, x) ==
    AgreedTrue(d, x) /\ d.hiLeaf = TrueLeaf[x][d.hi] /\ d.hiPrefix = TruePrefix(x, d.hi)

\* The honest trace is left somewhere in the disputed range.
WrongSide(d, x) == AgreedTrue(d, x) /\ d.hiPrefix # TruePrefix(x, d.hi)

Sides(d, cl, c) ==
    /\ cl.asserter \in Honest => TrueSide(d, cl.inputHash)
    /\ c \in Honest => WrongSide(d, cl.inputHash)

Good(d, cl, c, t) ==
    /\ d.phase = "AwaitOpening" => d.lo1 = 0 /\ d.hi = Last
    /\ d.phase \in {"AwaitReveal", "AwaitResponse"} => d.lo1 < d.hi /\ Sides(d, cl, c)
    /\ d.phase = "AwaitResponse" /\ cl.asserter \in Honest =>
          d.curLeaf = TrueLeaf[cl.inputHash][Mid(d)] /\ d.curPrefix = TruePrefix(cl.inputHash, Mid(d))
    /\ d.phase = "AwaitProof" =>
          d.lo1 = d.hi /\ Sides(d, cl, c) /\ d.hiPrefix = Append(AgreedPrefix(d), d.hiLeaf)
    /\ cl.asserter \in Honest =>
          d.phase # "ChallengerWon" /\ (d.phase \in OpenPhases \ {"AwaitResponse"} => t <= d.deadline)
    /\ c \in Honest =>
          /\ cl.outputDigest # TrueLeaf[cl.inputHash][Last]
          /\ d.phase # "AsserterWon" /\ (d.phase = "AwaitResponse" => t <= d.deadline)

\* A claim in the book: it is one, and an honest asserter's is the honest trace.
GoodClaim(cl) ==
    /\ cl \in Claim
    /\ cl.asserter \in Honest => /\ cl.root = TrueTrace(cl.inputHash)
                                 /\ cl.outputDigest = TrueLeaf[cl.inputHash][Last]

BookInv   == \A id \in ClaimIds : id < nClaims => GoodClaim(claims[id])
NoneInv   == \A id \in ClaimIds, c \in Parties :
                 disputes[id][c].phase = "None" => disputes[id][c] = NoDispute
OpenedInv == \A id \in ClaimIds, c \in Parties : disputes[id][c].phase # "None" =>
                 id < nClaims /\ Good(disputes[id][c], claims[id], c, now)

\* What is locked is deposited, and no withdrawal is negative: the locks are natural numbers.
FreeInv    == \A a \in Parties : freeDeposit(a) >= 0
PendingInv == \A a \in Parties : pendingWithdrawal[a].amount >= 0

\* The part of the state that _finish pays and counts in.
PaidInv ==
    /\ collateral \in [Parties -> [deposit : Int, locked : Int]]
    /\ credit \in [Parties -> Int]
    /\ claimState \in [ClaimIds -> [openDisputes : Int, rejected : BOOLEAN]]
    /\ FreeInv

IInv == TypeOK /\ BookInv /\ NoneInv /\ OpenedInv /\ FreeInv /\ PendingInv

\* Facts on steps that need no more than NSteps >= 2.
LEMMA StepFacts ==
    /\ 0 \in Steps /\ Last \in Steps /\ Last - 1 \in Steps /\ Last # 0
    /\ \A k \in Steps : k \in Nat /\ k <= Last /\ k \in 0 .. NSteps - 1
    /\ Steps \subseteq Int
BY ModelAssumption DEF Steps, Last

LEMMA TimeFacts == challengeWindow \in Nat /\ turnTimeout \in Nat /\ withdrawDelay \in Nat
BY TimingAssumption

\* The agreed prefix of a dispute at lo1 = 0 is the honest one (_advance).
LEMMA AgreedAtStart ==
    ASSUME NEW x \in TxInput, NEW d \in Dispute, d.lo1 = 0
    PROVE  AgreedTrue(d, x)
<1>1. d.lo1 - 1 = -1
  OBVIOUS
<1> QED
  BY <1>1, TruePrefixEmpty DEF AgreedTrue, AgreedPrefix

\* A proof of the disputed step on inputs opened against the honest agreed prefix outputs
\* the honest leaf, whoever submits it (_checkInputs, _checkOpening, resolve).
LEMMA ProofOnTrueInputs ==
    ASSUME NEW x \in TxInput, NEW d \in Dispute, AgreedTrue(d, x), d.lo1 = d.hi,
           NEW ins \in [StepInputs[d.hi] -> Leaf \cup TxInput], InputsChecked(d, x, ins)
    PROVE  StepOut(d.hi, ins) = TrueLeaf[x][d.hi]
<1> DEFINE k == d.hi  A == AgreedPrefix(d)
<1>1. k \in Steps /\ k \in Nat
  BY StepFacts DEF Dispute, Steps
<1>2. A = TruePrefix(x, k - 1)
  BY DEF AgreedTrue
<1>3. k - 1 \in -1 .. Last /\ k - 1 + 1 = k
  BY <1>1, StepFacts
<1>4. Len(A) = k /\ \A m \in 1 .. k : A[m] = TrueLeaf[x][m - 1]
  <2>1. /\ Len(TruePrefix(x, k - 1)) = (k - 1) + 1
        /\ \A m \in 1 .. (k - 1) + 1 : TruePrefix(x, k - 1)[m] = TrueLeaf[x][m - 1]
    BY <1>3, TruePrefixIs
  <2> HIDE DEF k, A
  <2> QED
    BY <1>2, <1>3, <2>1
<1>5. StepInputs[k] \subseteq -1 .. NSteps - 1 /\ \A j \in StepInputs[k] : j < k
  BY <1>1, ModelAssumption
<1>6. ASSUME NEW j \in StepInputs[k]
      PROVE  ins[j] = IF j = -1 THEN x ELSE TrueLeaf[x][j]
  <2>1. CASE j = -1
    BY <2>1 DEF InputsChecked
  <2>2. CASE j # -1
    <3>1. j \in Nat /\ j < k
      BY <1>5, <2>2, ModelAssumption
    <3>2. OpensTo(A, k, j, ins[j])
      BY <2>2 DEF InputsChecked
    <3>3. A[Len(A) - (k - j) + 1] = ins[j]
      BY <3>2 DEF OpensTo
    <3>4. Len(A) - (k - j) + 1 = j + 1 /\ j + 1 \in 1 .. k /\ j + 1 - 1 = j
      BY <1>1, <1>4, <3>1
    <3>5. A[j + 1] = TrueLeaf[x][j + 1 - 1]
      BY <1>1, <1>4, <3>1, <3>4
    <3>6. A[j + 1] = ins[j]
      BY <3>3, <3>4
    <3> HIDE DEF A
    <3> QED
      BY <2>2, <3>4, <3>5, <3>6
  <2> QED
    BY <2>1, <2>2
<1>7. ins = [j \in StepInputs[k] |-> IF j = -1 THEN x ELSE TrueLeaf[x][j]]
  BY <1>6
<1> QED
  BY <1>1, <1>7, TrueLeafAssumption

------------------------------------------------------------------------------
(* What one move does to the disputes.                                       *)

\* Writing one dispute leaves the others alone.
LEMMA PutDispute ==
    ASSUME disputes \in [ClaimIds -> [Parties -> Dispute]],
           NEW id \in ClaimIds, NEW c \in Parties, NEW e \in Dispute,
           disputes' = [disputes EXCEPT ![id][c] = e]
    PROVE  /\ disputes' \in [ClaimIds -> [Parties -> Dispute]]
           /\ disputes'[id][c] = e
           /\ \A i \in ClaimIds, p \in Parties :
                 i # id \/ p # c => disputes'[i][p] = disputes[i][p]
OBVIOUS

\* A move that leaves its dispute in a good state preserves the invariant of all of them.
LEMMA MovePreserves ==
    ASSUME TypeOK, BookInv, NoneInv, OpenedInv,
           NEW id \in ClaimIds, NEW c \in Parties, NEW e \in Dispute,
           disputes' = [disputes EXCEPT ![id][c] = e], UNCHANGED <<now, nClaims, claims>>,
           id < nClaims, e.phase # "None", Good(e, claims[id], c, now)
    PROVE  BookInv' /\ NoneInv' /\ OpenedInv'
<1>1. disputes \in [ClaimIds -> [Parties -> Dispute]]
  BY DEF TypeOK
<1>2. /\ disputes'[id][c] = e
      /\ \A i \in ClaimIds, p \in Parties :
            i # id \/ p # c => disputes'[i][p] = disputes[i][p]
  BY <1>1, PutDispute
<1>3. BookInv'
  BY DEF BookInv
<1>4. NoneInv'
  BY <1>2 DEF NoneInv
<1>5. OpenedInv'
  <2> SUFFICES ASSUME NEW i \in ClaimIds, NEW p \in Parties, disputes'[i][p].phase # "None"
               PROVE  i < nClaims /\ Good(disputes'[i][p], claims[i], p, now)
    BY DEF OpenedInv
  <2>1. CASE i = id /\ p = c
    BY <1>2, <2>1
  <2>2. CASE i # id \/ p # c
    BY <1>2, <2>2 DEF OpenedInv
  <2> QED
    BY <2>1, <2>2
<1> QED
  BY <1>3, <1>4, <1>5

\* _finish pays money and counts; what it writes is well typed.
LEMMA FinishTypes ==
    ASSUME TypeOK, FreeInv,
           NEW id \in ClaimIds, NEW c \in Parties, NEW d \in Dispute, NEW b \in BOOLEAN,
           claims[id] \in Claim, Finish(id, c, d, b)
    PROVE  PaidInv'
<1> DEFINE a == claims[id].asserter
<1>1. a \in Parties
  BY DEF Claim
<1>2. d.lockedBond \in Nat /\ challengerBond \in Int
  BY BondAssumption DEF Dispute
<1>3. collateral' \in [Parties -> [deposit : Int, locked : Int]] /\ FreeInv'
  <2>1. collateral' = [collateral EXCEPT ![a] =
                          [deposit |-> IF b THEN @.deposit ELSE @.deposit - d.lockedBond,
                           locked |-> @.locked - d.lockedBond]]
    BY DEF Finish
  <2>2. collateral[a].deposit \in Int /\ collateral[a].locked \in Int
    BY <1>1 DEF TypeOK
  <2>3. collateral' \in [Parties -> [deposit : Int, locked : Int]]
    BY <1>1, <1>2, <2>1, <2>2 DEF TypeOK
  <2>4. ASSUME NEW p \in Parties
        PROVE  collateral'[p].deposit - collateral'[p].locked >= 0
    <3>1. collateral[p].deposit \in Int /\ collateral[p].locked \in Int /\ collateral[p].deposit - collateral[p].locked >= 0
      BY DEF TypeOK, FreeInv, freeDeposit
    <3>2. CASE p = a
      <4>1. /\ collateral'[p].deposit = IF b THEN collateral[p].deposit ELSE collateral[p].deposit - d.lockedBond
            /\ collateral'[p].locked = collateral[p].locked - d.lockedBond
        BY <1>1, <2>1, <3>2 DEF TypeOK
      <4> QED
        BY <1>2, <3>1, <4>1
    <3>3. CASE p # a
      <4>1. collateral'[p] = collateral[p]
        BY <2>1, <3>3 DEF TypeOK
      <4> QED
        BY <3>1, <4>1
    <3> QED
      BY <3>2, <3>3
  <2> QED
    BY <2>3, <2>4 DEF FreeInv, freeDeposit
<1>4. credit' \in [Parties -> Int]
  <2>1. credit[a] \in Int /\ credit[c] \in Int
    BY <1>1 DEF TypeOK
  <2> QED
    BY <1>1, <1>2, <2>1 DEF Finish, TypeOK
<1>5. claimState' \in [ClaimIds -> [openDisputes : Int, rejected : BOOLEAN]]
  BY DEF Finish, TypeOK
<1> QED
  BY <1>3, <1>4, <1>5 DEF PaidInv

\* A dispute may finish for the asserter if the challenger is not honest, and the other way.
LEMMA FinishIsGood ==
    ASSUME NEW id \in ClaimIds, NEW c \in Parties, NEW d \in Dispute, NEW b \in BOOLEAN,
           claims[id].asserter \in Honest => b,
           c \in Honest => ~ b /\ Wrong(id),
           Finish(id, c, d, b)
    PROVE  \E e \in Dispute : /\ e.phase \in {"AsserterWon", "ChallengerWon"}
                              /\ Good(e, claims[id], c, now)
                              /\ disputes' = [disputes EXCEPT ![id][c] = e]
<1> DEFINE e == [d EXCEPT !.phase = IF b THEN "AsserterWon" ELSE "ChallengerWon"]
<1>1. e \in Dispute /\ e.phase = IF b THEN "AsserterWon" ELSE "ChallengerWon"
  BY DEF Dispute
<1>2. Good(e, claims[id], c, now)
  BY <1>1 DEF Good, OpenPhases, Wrong
<1> QED
  BY <1>1, <1>2 DEF Finish

\* _advance, from a range that is not empty and whose sides are as they should be.
LEMMA AdvanceIsGood ==
    ASSUME TypeOK, FreeInv, NEW id \in ClaimIds, NEW c \in Parties, NEW d \in Dispute,
           claims[id] \in Claim, d.lo1 <= d.hi, Sides(d, claims[id], c), c \in Honest => Wrong(id),
           Advance(id, c, d)
    PROVE  /\ \E e \in Dispute : /\ e.phase # "None"
                                 /\ Good(e, claims[id], c, now)
                                 /\ disputes' = [disputes EXCEPT ![id][c] = e]
           /\ PaidInv'
<1> DEFINE cl == claims[id]
           turn(phase) == [d EXCEPT !.phase = phase, !.deadline = now + turnTimeout]
<1>1. now + turnTimeout \in Nat /\ now <= now + turnTimeout
  BY TimeFacts DEF TypeOK
<1>2. /\ d.lo1 \in 0 .. NSteps - 1 /\ d.hi \in 0 .. NSteps - 1 /\ d.hi \in Steps
      /\ cl.inputHash \in TxInput
  BY DEF Dispute, Claim, Steps
<1>3. CASE d.hi # d.lo1
  <2> DEFINE e == turn("AwaitReveal")
  <2>1. /\ e \in Dispute /\ e.phase = "AwaitReveal" /\ e.deadline = now + turnTimeout
        /\ e.lo1 = d.lo1 /\ e.hi = d.hi /\ e.hiLeaf = d.hiLeaf /\ e.hiPrefix = d.hiPrefix
        /\ e.loPrefix = d.loPrefix
    BY <1>1 DEF Dispute, OpenPhases
  <2>2. Sides(e, cl, c)
    BY <2>1 DEF Sides, TrueSide, WrongSide, AgreedTrue, AgreedPrefix
  <2>3. e.lo1 < e.hi
    BY <1>2, <1>3, <2>1
  <2>4. Good(e, cl, c, now)
    BY <1>1, <2>1, <2>2, <2>3 DEF Good, OpenPhases, Wrong
  <2>5. NextTurn(id, c, d, "AwaitReveal")
    BY <1>3 DEF Advance
  <2> QED
    BY <2>1, <2>4, <2>5 DEF NextTurn, TypeOK, PaidInv, FreeInv, freeDeposit
<1>4. CASE d.hi = d.lo1 /\ d.hiPrefix = Append(AgreedPrefix(d), d.hiLeaf)
  <2> DEFINE e == turn("AwaitProof")
  <2>1. /\ e \in Dispute /\ e.phase = "AwaitProof" /\ e.deadline = now + turnTimeout
        /\ e.lo1 = d.lo1 /\ e.hi = d.hi /\ e.hiLeaf = d.hiLeaf /\ e.hiPrefix = d.hiPrefix
        /\ e.loPrefix = d.loPrefix
    BY <1>1 DEF Dispute, OpenPhases
  <2>2. Sides(e, cl, c) /\ AgreedPrefix(e) = AgreedPrefix(d)
    BY <2>1 DEF Sides, TrueSide, WrongSide, AgreedTrue, AgreedPrefix
  <2>3. Good(e, cl, c, now)
    BY <1>1, <1>4, <2>1, <2>2 DEF Good, OpenPhases, Wrong
  <2>4. NextTurn(id, c, d, "AwaitProof")
    BY <1>4 DEF Advance
  <2> QED
    BY <2>1, <2>3, <2>4 DEF NextTurn, TypeOK, PaidInv, FreeInv, freeDeposit
<1>5. CASE d.hi = d.lo1 /\ d.hiPrefix # Append(AgreedPrefix(d), d.hiLeaf)
  <2>1. Finish(id, c, d, FALSE)
    BY <1>5 DEF Advance
  <2>2. cl.asserter \notin Honest
    <3> SUFFICES ASSUME cl.asserter \in Honest PROVE FALSE
      OBVIOUS
    <3>1. TrueSide(d, cl.inputHash)
      BY DEF Sides
    <3>2. TruePrefix(cl.inputHash, d.hi) =
            Append(TruePrefix(cl.inputHash, d.hi - 1), TrueLeaf[cl.inputHash][d.hi])
      BY <1>2, TruePrefixStep
    <3> QED
      BY <1>5, <3>1, <3>2 DEF TrueSide, AgreedTrue
  <2>3. \E e \in Dispute : /\ e.phase \in {"AsserterWon", "ChallengerWon"}
                           /\ Good(e, cl, c, now)
                           /\ disputes' = [disputes EXCEPT ![id][c] = e]
    BY <2>1, <2>2, FinishIsGood
  <2> QED
    BY <2>1, <2>3, FinishTypes
<1> QED
  BY <1>3, <1>4, <1>5

------------------------------------------------------------------------------
(* The moves of the game preserve the invariant.                             *)

\* What IInv says of a dispute that is open.
LEMMA OpenFacts ==
    ASSUME IInv, NEW id \in ClaimIds, NEW c \in Parties, disputes[id][c].phase # "None"
    PROVE  /\ id < nClaims /\ GoodClaim(claims[id]) /\ claims[id] \in Claim
           /\ disputes[id][c] \in Dispute
           /\ Good(disputes[id][c], claims[id], c, now)
           /\ c \in Honest => Wrong(id)
<1>1. id < nClaims /\ Good(disputes[id][c], claims[id], c, now)
  BY DEF IInv, OpenedInv
<1>2. GoodClaim(claims[id])
  BY <1>1 DEF IInv, BookInv
<1>3. disputes[id][c] \in Dispute
  BY DEF IInv, TypeOK
<1> QED
  BY <1>1, <1>2, <1>3 DEF GoodClaim, Good, Wrong

\* The step _mid picks lies in the disputed range and before its end.
LEMMA MidInRange ==
    ASSUME NEW d \in Dispute, d.lo1 < d.hi
    PROVE  /\ Mid(d) \in Steps /\ Mid(d) \in Nat /\ Mid(d) + 1 \in Steps
           /\ d.lo1 \in Nat /\ d.hi \in Nat /\ d.lo1 <= Mid(d) /\ Mid(d) < d.hi
           /\ Mid(d) = (d.lo1 + d.hi - 1) \div 2
<1>1. d.lo1 \in Nat /\ d.hi \in Nat /\ d.hi <= NSteps - 1 /\ NSteps \in Nat
  BY ModelAssumption DEF Dispute
<1>2. Mid(d) = (d.lo1 + d.hi - 1) \div 2
  BY <1>1 DEF Mid
<1>3. Mid(d) \in Nat /\ d.lo1 <= Mid(d) /\ Mid(d) < d.hi
  BY <1>1, <1>2
<1> QED
  BY <1>1, <1>2, <1>3 DEF Steps

LEMMA OpenFinalPreserves ==
    ASSUME IInv, NEW id \in ClaimIds, NEW c \in Parties, openFinal(id, c)
    PROVE  IInv'
<1> DEFINE cl   == claims[id]
           x    == cl.inputHash
           head == cl.root[Last]
           prev == cl.root[Last - 1]
           d    == [disputes[id][c] EXCEPT !.hiLeaf = head.leaf, !.hiPrefix = head.prefix]
<1>1. /\ disputes[id][c].phase = "AwaitOpening"
      /\ IF head.leaf # cl.outputDigest \/ head.prefix # Append(prev.prefix, head.leaf)
           THEN Finish(id, c, d, FALSE)
           ELSE Advance(id, c, d)
      /\ UNCHANGED <<now, balance, pendingWithdrawal, nClaims, claims>>
  BY DEF openFinal, Turn, book
<1>2. /\ id < nClaims /\ GoodClaim(cl) /\ cl \in Claim /\ disputes[id][c] \in Dispute
      /\ Good(disputes[id][c], cl, c, now) /\ (c \in Honest => Wrong(id))
  BY <1>1, OpenFacts
<1>3. /\ cl.root \in [Steps -> Opening] /\ x \in TxInput
      /\ head \in Opening /\ prev \in Opening
  BY <1>2, StepFacts DEF Claim
<1>4. d \in Dispute /\ d.lo1 = 0 /\ d.hi = Last /\ d.hiLeaf = head.leaf /\ d.hiPrefix = head.prefix
  BY <1>1, <1>2, <1>3 DEF Dispute, Opening, Good
<1>5. cl.asserter \in Honest =>
        /\ head.leaf = TrueLeaf[x][Last] /\ head.prefix = TruePrefix(x, Last)
        /\ prev.prefix = TruePrefix(x, Last - 1)
        /\ head.leaf = cl.outputDigest
  BY <1>2, StepFacts DEF GoodClaim, TrueTrace
<1>6. /\ TruePrefix(x, Last) = Append(TruePrefix(x, Last - 1), TrueLeaf[x][Last])
      /\ \A s \in Prefix : \A e : Append(s, e) = TruePrefix(x, Last) => e = TrueLeaf[x][Last]
  BY <1>3, StepFacts, TruePrefixStep
<1>7. AgreedTrue(d, x)
  BY <1>3, <1>4, AgreedAtStart
<1>8. /\ \E e \in Dispute : /\ e.phase # "None" /\ Good(e, cl, c, now)
                            /\ disputes' = [disputes EXCEPT ![id][c] = e]
      /\ PaidInv'
  <2>1. CASE head.leaf # cl.outputDigest \/ head.prefix # Append(prev.prefix, head.leaf)
    <3>1. Finish(id, c, d, FALSE)
      BY <1>1, <2>1
    <3>2. cl.asserter \notin Honest
      BY <1>5, <1>6, <2>1
    <3>3. \E e \in Dispute : /\ e.phase \in {"AsserterWon", "ChallengerWon"}
                             /\ Good(e, cl, c, now)
                             /\ disputes' = [disputes EXCEPT ![id][c] = e]
      BY <1>2, <1>4, <3>1, <3>2, FinishIsGood
    <3> QED
      BY <1>2, <1>4, <3>1, <3>3, FinishTypes DEF IInv
  <2>2. CASE ~ (head.leaf # cl.outputDigest \/ head.prefix # Append(prev.prefix, head.leaf))
    <3>1. Advance(id, c, d)
      BY <1>1, <2>2
    <3>2. c \in Honest => d.hiPrefix # TruePrefix(x, Last)
      BY <1>2, <1>3, <1>4, <1>6, <2>2 DEF Wrong, Opening
    <3>3. Sides(d, cl, c)
      BY <1>4, <1>5, <1>7, <3>2 DEF Sides, TrueSide, WrongSide
    <3>4. d.lo1 <= d.hi
      BY <1>4, StepFacts
    <3>5. TypeOK /\ FreeInv /\ cl \in Claim /\ d \in Dispute /\ (c \in Honest => Wrong(id))
      BY <1>2, <1>4 DEF IInv
    <3> HIDE DEF d
    <3> QED
      BY <3>1, <3>3, <3>4, <3>5, AdvanceIsGood
  <2> QED
    BY <2>1, <2>2
<1>9. PICK e \in Dispute : /\ e.phase # "None" /\ Good(e, cl, c, now)
                           /\ disputes' = [disputes EXCEPT ![id][c] = e]
  BY <1>8
<1>10. BookInv' /\ NoneInv' /\ OpenedInv'
  BY <1>1, <1>2, <1>9, MovePreserves DEF IInv
<1>11. disputes' \in [ClaimIds -> [Parties -> Dispute]]
  BY <1>9, PutDispute DEF IInv, TypeOK
<1>12. TypeOK' /\ FreeInv' /\ PendingInv'
  BY <1>1, <1>8, <1>11 DEF IInv, TypeOK, PaidInv, FreeInv, PendingInv, freeDeposit
<1> QED
  BY <1>10, <1>12 DEF IInv

LEMMA RevealPreserves ==
    ASSUME IInv, NEW id \in ClaimIds, NEW c \in Parties, reveal(id, c)
    PROVE  IInv'
<1> DEFINE cl == claims[id]
           x  == cl.inputHash
           d  == disputes[id][c]
           op == cl.root[Mid(d)]
           f  == [d EXCEPT !.curLeaf = op.leaf, !.curPrefix = op.prefix]
           e  == [f EXCEPT !.phase = "AwaitResponse", !.deadline = now + turnTimeout]
<1>1. /\ d.phase = "AwaitReveal"
      /\ NextTurn(id, c, f, "AwaitResponse")
      /\ UNCHANGED <<now, balance, pendingWithdrawal, nClaims, claims>>
  BY DEF reveal, Turn, book
<1>2. /\ id < nClaims /\ GoodClaim(cl) /\ cl \in Claim /\ d \in Dispute
      /\ Good(d, cl, c, now) /\ (c \in Honest => Wrong(id))
  BY <1>1, OpenFacts
<1>3. d.lo1 < d.hi /\ Sides(d, cl, c)
  BY <1>1, <1>2 DEF Good
<1>4. Mid(d) \in Steps
  BY <1>2, <1>3, MidInRange
<1>5. cl.root \in [Steps -> Opening] /\ op \in Opening
  BY <1>2, <1>4 DEF Claim
<1>6. now + turnTimeout \in Nat /\ now <= now + turnTimeout
  BY TimeFacts DEF IInv, TypeOK
<1>7. /\ e \in Dispute /\ e.phase = "AwaitResponse" /\ e.deadline = now + turnTimeout
      /\ e.lo1 = d.lo1 /\ e.hi = d.hi /\ e.hiLeaf = d.hiLeaf /\ e.hiPrefix = d.hiPrefix
      /\ e.loPrefix = d.loPrefix /\ e.curLeaf = op.leaf /\ e.curPrefix = op.prefix
  BY <1>2, <1>5, <1>6 DEF Dispute, OpenPhases, Opening
<1>8. /\ disputes' = [disputes EXCEPT ![id][c] = e]
      /\ UNCHANGED <<collateral, credit, claimState>>
  BY <1>1 DEF NextTurn
<1> HIDE DEF e
<1>9. Mid(e) = Mid(d)
  BY <1>7 DEF Mid
<1>10. Sides(e, cl, c)
  BY <1>3, <1>7 DEF Sides, TrueSide, WrongSide, AgreedTrue, AgreedPrefix
<1>11. cl.asserter \in Honest => op.leaf = TrueLeaf[x][Mid(d)] /\ op.prefix = TruePrefix(x, Mid(d))
  BY <1>2, <1>4 DEF GoodClaim, TrueTrace
<1>12. Good(e, cl, c, now)
  BY <1>2, <1>3, <1>6, <1>7, <1>9, <1>10, <1>11 DEF Good, OpenPhases, Wrong
<1>13. BookInv' /\ NoneInv' /\ OpenedInv'
  BY <1>1, <1>2, <1>7, <1>8, <1>12, MovePreserves DEF IInv
<1>14. TypeOK' /\ FreeInv' /\ PendingInv'
  BY <1>1, <1>7, <1>8, PutDispute DEF IInv, TypeOK, PaidInv, FreeInv, PendingInv, freeDeposit
<1> QED
  BY <1>13, <1>14 DEF IInv

LEMMA RespondPreserves ==
    ASSUME IInv, NEW id \in ClaimIds, NEW c \in Parties, NEW agree \in BOOLEAN,
           respond(id, c, agree)
    PROVE  IInv'
<1> DEFINE cl  == claims[id]
           x   == cl.inputHash
           d   == disputes[id][c]
           mid == Mid(d)
           f   == IF agree
                    THEN [d EXCEPT !.lo1 = mid + 1, !.loPrefix = d.curPrefix]
                    ELSE [d EXCEPT !.hi = mid, !.hiLeaf = d.curLeaf, !.hiPrefix = d.curPrefix]
<1>1. /\ d.phase = "AwaitResponse"
      /\ c \in Honest => agree = (d.curPrefix = TruePrefix(x, mid))
      /\ Advance(id, c, f)
      /\ UNCHANGED <<now, balance, pendingWithdrawal, nClaims, claims>>
  BY DEF respond, Turn, book
<1>2. /\ id < nClaims /\ GoodClaim(cl) /\ cl \in Claim /\ d \in Dispute
      /\ Good(d, cl, c, now) /\ (c \in Honest => Wrong(id))
  BY <1>1, OpenFacts
<1>3. /\ d.lo1 < d.hi /\ Sides(d, cl, c)
      /\ cl.asserter \in Honest =>
           d.curLeaf = TrueLeaf[x][mid] /\ d.curPrefix = TruePrefix(x, mid)
  BY <1>1, <1>2 DEF Good
<1>4. mid \in 0 .. NSteps - 1 /\ mid \in Nat /\ d.lo1 <= mid /\ mid < d.hi /\ mid + 1 \in 0 .. NSteps - 1
  BY <1>2, <1>3, MidInRange DEF Steps
<1>5. f \in Dispute /\ f.lo1 <= f.hi /\ Sides(f, cl, c)
  <2>1. CASE agree
    <3>1. f = [d EXCEPT !.lo1 = mid + 1, !.loPrefix = d.curPrefix]
      BY <2>1
    <3>2. /\ f \in Dispute /\ f.lo1 = mid + 1 /\ f.loPrefix = d.curPrefix
          /\ f.hi = d.hi /\ f.hiLeaf = d.hiLeaf /\ f.hiPrefix = d.hiPrefix
      BY <1>2, <1>4, <3>1 DEF Dispute
    <3>3. f.lo1 # 0 /\ f.lo1 - 1 = mid /\ f.lo1 <= f.hi
      BY <1>2, <1>4, <3>2 DEF Dispute
    <3>4. cl.asserter \in Honest \/ c \in Honest => AgreedTrue(f, x)
      BY <1>1, <1>3, <2>1, <3>2, <3>3 DEF AgreedTrue, AgreedPrefix
    <3>5. Sides(f, cl, c)
      BY <1>3, <3>2, <3>4 DEF Sides, TrueSide, WrongSide
    <3> QED
      BY <3>2, <3>3, <3>5
  <2>2. CASE ~ agree
    <3>1. f = [d EXCEPT !.hi = mid, !.hiLeaf = d.curLeaf, !.hiPrefix = d.curPrefix]
      BY <2>2
    <3>2. /\ f \in Dispute /\ f.hi = mid /\ f.hiLeaf = d.curLeaf /\ f.hiPrefix = d.curPrefix
          /\ f.lo1 = d.lo1 /\ f.loPrefix = d.loPrefix
      BY <1>2, <1>4, <3>1 DEF Dispute
    <3>3. AgreedTrue(d, x) => AgreedTrue(f, x)
      BY <3>2 DEF AgreedTrue, AgreedPrefix
    <3>4. Sides(f, cl, c)
      BY <1>1, <1>3, <2>2, <3>2, <3>3 DEF Sides, TrueSide, WrongSide
    <3> QED
      BY <1>4, <3>2, <3>4
  <2> QED
    BY <2>1, <2>2
<1> HIDE DEF f
<1>6. /\ \E e \in Dispute : /\ e.phase # "None" /\ Good(e, cl, c, now)
                            /\ disputes' = [disputes EXCEPT ![id][c] = e]
      /\ PaidInv'
  BY <1>1, <1>2, <1>5, AdvanceIsGood DEF IInv
<1>7. PICK e \in Dispute : /\ e.phase # "None" /\ Good(e, cl, c, now)
                           /\ disputes' = [disputes EXCEPT ![id][c] = e]
  BY <1>6
<1>8. BookInv' /\ NoneInv' /\ OpenedInv'
  BY <1>1, <1>2, <1>7, MovePreserves DEF IInv
<1>9. TypeOK' /\ FreeInv' /\ PendingInv'
  BY <1>1, <1>6, <1>7, PutDispute DEF IInv, TypeOK, PaidInv, FreeInv, PendingInv, freeDeposit
<1> QED
  BY <1>8, <1>9 DEF IInv

\* A finished dispute: the part that resolve and timeout share.
LEMMA FinishPreserves ==
    ASSUME IInv, NEW id \in ClaimIds, NEW c \in Parties, NEW b \in BOOLEAN,
           disputes[id][c].phase # "None",
           claims[id].asserter \in Honest => b, c \in Honest => ~ b,
           Finish(id, c, disputes[id][c], b),
           UNCHANGED <<now, balance, pendingWithdrawal, nClaims, claims>>
    PROVE  IInv'
<1> DEFINE d == disputes[id][c]
<1>1. id < nClaims /\ claims[id] \in Claim /\ d \in Dispute /\ (c \in Honest => Wrong(id))
  BY OpenFacts
<1>2. \E e \in Dispute : /\ e.phase \in {"AsserterWon", "ChallengerWon"}
                         /\ Good(e, claims[id], c, now)
                         /\ disputes' = [disputes EXCEPT ![id][c] = e]
  BY <1>1, FinishIsGood
<1>3. PICK e \in Dispute : /\ e.phase \in {"AsserterWon", "ChallengerWon"}
                           /\ Good(e, claims[id], c, now)
                           /\ disputes' = [disputes EXCEPT ![id][c] = e]
  BY <1>2
<1>4. PaidInv'
  BY <1>1, FinishTypes DEF IInv
<1>5. BookInv' /\ NoneInv' /\ OpenedInv'
  BY <1>1, <1>3, MovePreserves DEF IInv
<1>6. TypeOK' /\ FreeInv' /\ PendingInv'
  BY <1>3, <1>4, PutDispute DEF IInv, TypeOK, PaidInv, FreeInv, PendingInv, freeDeposit
<1> QED
  BY <1>5, <1>6 DEF IInv

LEMMA ResolvePreserves ==
    ASSUME IInv, NEW id \in ClaimIds, NEW c \in Parties,
           NEW ins \in [StepInputs[disputes[id][c].hi] -> Leaf \cup TxInput], resolve(id, c, ins)
    PROVE  IInv'
<1> DEFINE cl == claims[id]
           x  == cl.inputHash
           d  == disputes[id][c]
           b  == StepOut(d.hi, ins) = d.hiLeaf
<1>1. /\ d.phase = "AwaitProof" /\ InputsChecked(d, x, ins) /\ Finish(id, c, d, b)
      /\ UNCHANGED <<now, balance, pendingWithdrawal, nClaims, claims>>
  BY DEF resolve, Turn, book
<1>2. /\ cl \in Claim /\ d \in Dispute /\ x \in TxInput
      /\ d.lo1 = d.hi /\ Sides(d, cl, c) /\ d.hiPrefix = Append(AgreedPrefix(d), d.hiLeaf)
  BY <1>1, OpenFacts DEF Good, Claim
<1>3. AgreedTrue(d, x) => StepOut(d.hi, ins) = TrueLeaf[x][d.hi]
  BY <1>1, <1>2, ProofOnTrueInputs
<1>4. cl.asserter \in Honest => b
  BY <1>2, <1>3 DEF Sides, TrueSide
<1>5. c \in Honest => ~ b
  <2>1. d.hi \in Steps
    BY <1>2 DEF Dispute, Steps
  <2>2. TruePrefix(x, d.hi) = Append(TruePrefix(x, d.hi - 1), TrueLeaf[x][d.hi])
    BY <1>2, <2>1, TruePrefixStep
  <2> QED
    BY <1>2, <1>3, <2>2 DEF Sides, WrongSide, AgreedTrue
<1> QED
  BY <1>1, <1>4, <1>5, FinishPreserves

LEMMA TimeoutPreserves ==
    ASSUME IInv, NEW id \in ClaimIds, NEW c \in Parties, timeout(id, c)
    PROVE  IInv'
<1> DEFINE d == disputes[id][c]
           b == d.phase = "AwaitResponse"
<1>1. /\ d.phase \in OpenPhases /\ now > d.deadline /\ Finish(id, c, d, b)
      /\ UNCHANGED <<now, balance, pendingWithdrawal, nClaims, claims>>
  BY DEF timeout, book
<1>2. d.phase # "None"
  BY <1>1 DEF OpenPhases
<1>3. Good(d, claims[id], c, now) /\ d \in Dispute
  BY <1>2, OpenFacts
<1>4. now \in Nat /\ d.deadline \in Nat /\ ~ (now <= d.deadline)
  BY <1>1, <1>3 DEF IInv, TypeOK, Dispute
<1>5. claims[id].asserter \in Honest => b
  BY <1>1, <1>3, <1>4 DEF Good
<1>6. c \in Honest => ~ b
  BY <1>3, <1>4 DEF Good
<1> QED
  BY <1>1, <1>2, <1>5, <1>6, FinishPreserves

LEMMA ChallengePreserves ==
    ASSUME IInv, NEW id \in ClaimIds, NEW c \in Parties, challenge(c, id)
    PROVE  IInv'
<1> DEFINE a == claims[id].asserter
           e == [disputes[id][c] EXCEPT !.phase = "AwaitOpening", !.hi = Last,
                                        !.lockedBond = LockAmount(a), !.deadline = now + turnTimeout]
<1>1. /\ id < nClaims /\ disputes[id][c].phase = "None" /\ (c \in Honest => Wrong(id))
      /\ balance' = balance + challengerBond
      /\ collateral' = [collateral EXCEPT ![a] = [deposit |-> @.deposit + PulledBack(a),
                                                  locked |-> @.locked + LockAmount(a)]]
      /\ pendingWithdrawal' = [pendingWithdrawal EXCEPT ![a].amount = @ - PulledBack(a)]
      /\ disputes' = [disputes EXCEPT ![id][c] = e]
      /\ claimState' = [claimState EXCEPT ![id].openDisputes = @ + 1]
      /\ UNCHANGED <<now, credit, nClaims, claims>>
  BY DEF challenge, Committed, book
<1>2. GoodClaim(claims[id]) /\ claims[id] \in Claim /\ a \in Parties
  BY <1>1 DEF IInv, BookInv, GoodClaim, Claim
<1>3. now + turnTimeout \in Nat /\ now <= now + turnTimeout
  BY TimeFacts DEF IInv, TypeOK
<1>4. /\ PulledBack(a) \in Nat /\ LockAmount(a) \in Nat
      /\ PulledBack(a) <= pendingWithdrawal[a].amount
      /\ LockAmount(a) <= freeDeposit(a) + PulledBack(a)
  <2>1. freeDeposit(a) \in Int /\ freeDeposit(a) >= 0
    BY <1>2 DEF IInv, TypeOK, FreeInv, freeDeposit
  <2>2. pendingWithdrawal[a].amount \in Int /\ pendingWithdrawal[a].amount >= 0
    BY <1>2 DEF IInv, TypeOK, PendingInv
  <2> QED
    BY <2>1, <2>2, BondAssumption DEF PulledBack, LockAmount, Lesser
<1>5. e \in Dispute /\ e.phase = "AwaitOpening" /\ e.deadline = now + turnTimeout
      /\ e.lo1 = 0 /\ e.hi = Last
  <2>1. disputes[id][c] = NoDispute /\ disputes[id][c] \in Dispute
    BY <1>1 DEF IInv, NoneInv, TypeOK
  <2>2. Last \in 0 .. NSteps - 1
    BY StepFacts
  <2>3. disputes[id][c].lo1 = 0
    BY <2>1 DEF NoDispute
  <2>4. e \in Dispute
    BY <1>3, <1>4, <2>1, <2>2 DEF Dispute, OpenPhases
  <2> QED
    BY <2>1, <2>3, <2>4 DEF Dispute
<1>6. Good(e, claims[id], c, now)
  BY <1>1, <1>3, <1>5 DEF Good, OpenPhases, Wrong
<1>7. BookInv' /\ NoneInv' /\ OpenedInv'
  BY <1>1, <1>5, <1>6, MovePreserves DEF IInv
<1>8. disputes' \in [ClaimIds -> [Parties -> Dispute]]
  BY <1>1, <1>5, PutDispute DEF IInv, TypeOK
<1>9. /\ collateral[a].deposit \in Int /\ collateral[a].locked \in Int
      /\ pendingWithdrawal[a].amount \in Int
  BY <1>2 DEF IInv, TypeOK
<1>10. collateral' \in [Parties -> [deposit : Int, locked : Int]]
  BY <1>1, <1>2, <1>4, <1>9 DEF IInv, TypeOK
<1>11. pendingWithdrawal' \in [Parties -> [amount : Int, notBefore : Nat]]
  <2> DEFINE w == [pendingWithdrawal[a] EXCEPT !.amount = @ - PulledBack(a)]
  <2>1. w \in [amount : Int, notBefore : Nat]
    <3>1. pendingWithdrawal[a] \in [amount : Int, notBefore : Nat]
      BY <1>2 DEF IInv, TypeOK
    <3> QED
      BY <1>4, <3>1
  <2>2. pendingWithdrawal' = [pendingWithdrawal EXCEPT ![a] = w]
    BY <1>1
  <2> QED
    BY <2>1, <2>2 DEF IInv, TypeOK
<1>12. FreeInv' /\ PendingInv'
  <2> SUFFICES ASSUME NEW p \in Parties
               PROVE  /\ collateral'[p].deposit - collateral'[p].locked >= 0
                      /\ pendingWithdrawal'[p].amount >= 0
    BY DEF FreeInv, PendingInv, freeDeposit
  <2>1. CASE p = a
    <3>1. /\ collateral'[p].deposit = collateral[a].deposit + PulledBack(a)
          /\ collateral'[p].locked = collateral[a].locked + LockAmount(a)
          /\ pendingWithdrawal'[p].amount = pendingWithdrawal[a].amount - PulledBack(a)
      BY <1>1, <1>2, <2>1 DEF IInv, TypeOK
    <3> QED
      BY <1>4, <1>9, <3>1 DEF freeDeposit
  <2>2. CASE p # a
    <3>1. collateral'[p] = collateral[p] /\ pendingWithdrawal'[p] = pendingWithdrawal[p]
      BY <1>1, <2>2 DEF IInv, TypeOK
    <3> QED
      BY <3>1 DEF IInv, FreeInv, PendingInv, freeDeposit
  <2> QED
    BY <2>1, <2>2
<1>13. balance' \in Int
  BY <1>1, BondAssumption DEF IInv, TypeOK
<1>14. claimState' \in [ClaimIds -> [openDisputes : Int, rejected : BOOLEAN]]
  <2> DEFINE w == [claimState[id] EXCEPT !.openDisputes = @ + 1]
  <2>1. w \in [openDisputes : Int, rejected : BOOLEAN]
    <3>1. claimState[id] \in [openDisputes : Int, rejected : BOOLEAN]
      BY DEF IInv, TypeOK
    <3> QED
      BY <3>1
  <2>2. claimState' = [claimState EXCEPT ![id] = w]
    BY <1>1
  <2> QED
    BY <2>1, <2>2 DEF IInv, TypeOK
<1>15. TypeOK'
  BY <1>1, <1>8, <1>10, <1>11, <1>13, <1>14 DEF IInv, TypeOK
<1> QED
  BY <1>7, <1>12, <1>15 DEF IInv

------------------------------------------------------------------------------
(* The other actions preserve the invariant.                                 *)

\* What moves money only leaves the claims and the disputes as they are.
LEMMA MoneyMoves ==
    ASSUME BookInv, NoneInv, OpenedInv, UNCHANGED <<now, nClaims, claims, disputes>>
    PROVE  BookInv' /\ NoneInv' /\ OpenedInv'
BY DEF BookInv, NoneInv, OpenedInv

LEMMA CollateralPreserves ==
    ASSUME IInv, NEW a \in Parties, NEW v \in Amounts,
           depositBond(a, v) \/ requestWithdraw(a, v)
    PROVE  IInv'
<1>1. v \in Nat
  BY TimingAssumption
<1>2. UNCHANGED <<now, credit, nClaims, claims, claimState, disputes>>
  BY DEF depositBond, requestWithdraw, book
<1>3. BookInv' /\ NoneInv' /\ OpenedInv'
  BY <1>2, MoneyMoves DEF IInv
<1>4. /\ collateral[a].deposit \in Int /\ collateral[a].locked \in Int
      /\ freeDeposit(a) = collateral[a].deposit - collateral[a].locked
      /\ pendingWithdrawal[a].amount \in Int /\ pendingWithdrawal[a].amount >= 0
      /\ now + withdrawDelay \in Nat
      /\ freeDeposit(a) >= 0
  BY TimeFacts DEF IInv, TypeOK, freeDeposit, PendingInv, FreeInv
<1>5. \E d1 \in Int, w1 \in [amount : Int, notBefore : Nat] :
         /\ collateral' = [collateral EXCEPT ![a] = [@ EXCEPT !.deposit = d1]]
         /\ pendingWithdrawal' = [pendingWithdrawal EXCEPT ![a] = w1]
         /\ d1 - collateral[a].locked >= 0 /\ w1.amount >= 0
         /\ balance' \in Int
  <2>1. CASE depositBond(a, v)
    <3> DEFINE d0 == collateral[a].deposit + v
               w  == pendingWithdrawal[a]
    <3>1. /\ collateral' = [collateral EXCEPT ![a] = [@ EXCEPT !.deposit = d0]]
          /\ balance' \in Int
      BY <1>1, <2>1 DEF depositBond, IInv, TypeOK
    <3>2. pendingWithdrawal' = [pendingWithdrawal EXCEPT ![a] = w]
      BY <2>1 DEF depositBond, IInv, TypeOK
    <3>3. d0 \in Int /\ d0 - collateral[a].locked >= 0
      BY <1>1, <1>4
    <3>4. w \in [amount : Int, notBefore : Nat] /\ w.amount >= 0
      BY <1>4 DEF IInv, TypeOK
    <3> HIDE DEF d0, w
    <3> QED
      BY <3>1, <3>2, <3>3, <3>4
  <2>2. CASE requestWithdraw(a, v)
    <3> DEFINE w == [amount |-> pendingWithdrawal[a].amount + v, notBefore |-> now + withdrawDelay]
    <3>1. /\ collateral' = [collateral EXCEPT ![a] = [@ EXCEPT !.deposit = collateral[a].deposit - v]]
          /\ balance' \in Int
      BY <1>1, <2>2 DEF requestWithdraw, IInv, TypeOK
    <3>2. pendingWithdrawal' = [pendingWithdrawal EXCEPT ![a] = w]
      BY <2>2 DEF requestWithdraw
    <3>3. collateral[a].deposit - v \in Int /\ collateral[a].deposit - v - collateral[a].locked >= 0
      BY <1>1, <1>4, <2>2 DEF requestWithdraw
    <3>4. w \in [amount : Int, notBefore : Nat] /\ w.amount >= 0
      BY <1>1, <1>4
    <3> QED
      BY <3>1, <3>2, <3>3, <3>4
  <2> QED
    BY <2>1, <2>2
<1>6. PICK d1 \in Int, w1 \in [amount : Int, notBefore : Nat] :
         /\ collateral' = [collateral EXCEPT ![a] = [@ EXCEPT !.deposit = d1]]
         /\ pendingWithdrawal' = [pendingWithdrawal EXCEPT ![a] = w1]
         /\ d1 - collateral[a].locked >= 0 /\ w1.amount >= 0
         /\ balance' \in Int
  BY <1>5
<1>7. /\ collateral' \in [Parties -> [deposit : Int, locked : Int]]
      /\ collateral'[a].deposit = d1 /\ collateral'[a].locked = collateral[a].locked
      /\ \A p \in Parties : p # a => collateral'[p] = collateral[p]
  BY <1>6 DEF IInv, TypeOK
<1>8. /\ pendingWithdrawal' \in [Parties -> [amount : Int, notBefore : Nat]]
      /\ pendingWithdrawal'[a] = w1
      /\ \A p \in Parties : p # a => pendingWithdrawal'[p] = pendingWithdrawal[p]
  BY <1>6 DEF IInv, TypeOK
<1>9. FreeInv' /\ PendingInv'
  BY <1>6, <1>7, <1>8 DEF IInv, FreeInv, PendingInv, freeDeposit
<1>10. TypeOK'
  BY <1>2, <1>6, <1>7, <1>8 DEF IInv, TypeOK
<1> QED
  BY <1>3, <1>9, <1>10 DEF IInv

LEMMA PayoutPreserves ==
    ASSUME IInv, NEW a \in Parties, withdraw(a) \/ claimCredit(a)
    PROVE  IInv'
<1>1. UNCHANGED <<now, collateral, nClaims, claims, claimState, disputes>>
  BY DEF withdraw, claimCredit, book
<1>2. BookInv' /\ NoneInv' /\ OpenedInv'
  BY <1>1, MoneyMoves DEF IInv
<1>3. FreeInv'
  BY <1>1 DEF IInv, FreeInv, freeDeposit
<1>4. /\ balance' \in Int /\ credit' \in [Parties -> Int]
      /\ pendingWithdrawal' \in [Parties -> [amount : Int, notBefore : Nat]] /\ PendingInv'
  <2>1. CASE withdraw(a)
    <3> DEFINE w == [amount |-> 0, notBefore |-> 0]
    <3>1. /\ balance' = balance - pendingWithdrawal[a].amount /\ credit' = credit
          /\ pendingWithdrawal' = [pendingWithdrawal EXCEPT ![a] = w]
      BY <2>1 DEF withdraw
    <3>2. w \in [amount : Int, notBefore : Nat] /\ w.amount >= 0
      OBVIOUS
    <3> QED
      BY <3>1, <3>2 DEF IInv, TypeOK, PendingInv
  <2>2. CASE claimCredit(a)
    BY <2>2 DEF claimCredit, IInv, TypeOK, PendingInv
  <2> QED
    BY <2>1, <2>2
<1>5. TypeOK'
  BY <1>1, <1>4 DEF IInv, TypeOK
<1> QED
  BY <1>2, <1>3, <1>4, <1>5 DEF IInv

LEMMA CommitPreserves ==
    ASSUME IInv, NEW a \in Asserters, NEW x \in TxInput, NEW out \in Leaf,
           NEW trace \in Traces \cup {TrueTrace(x)}, commit(a, trace, out, x)
    PROVE  IInv'
<1> DEFINE cl == [root |-> trace, outputDigest |-> out, inputHash |-> x, asserter |-> a,
                  committedAt |-> now]
<1>1. /\ nClaims < MaxClaims
      /\ a \in Honest => trace = TrueTrace(x) /\ out = TrueLeaf[x][Last]
      /\ claims' = [claims EXCEPT ![nClaims] = cl] /\ nClaims' = nClaims + 1
      /\ UNCHANGED <<now, balance, collateral, pendingWithdrawal, credit, claimState, disputes>>
  BY DEF commit, money
<1>2. nClaims \in ClaimIds /\ nClaims \in Nat /\ nClaims' \in 0 .. MaxClaims
  BY <1>1, TimingAssumption DEF IInv, TypeOK, ClaimIds
<1>3. TrueTrace(x) \in [Steps -> Opening]
  <2> SUFFICES ASSUME NEW i \in Steps
               PROVE  [leaf |-> TrueLeaf[x][i], prefix |-> TruePrefix(x, i)] \in Opening
    BY DEF TrueTrace
  <2>1. TrueLeaf[x][i] \in Leaf
    BY TrueLeafAssumption
  <2>2. i \in -1 .. Last
    BY StepFacts, ModelAssumption DEF Last, Steps
  <2>3. TruePrefix(x, i) \in Prefix
    BY <2>2, TruePrefixIs
  <2> QED
    BY <2>1, <2>3 DEF Opening
<1>4. trace \in [Steps -> Opening] /\ a \in Parties
  BY <1>3, TraceAssumption
<1>5. cl \in Claim /\ GoodClaim(cl)
  BY <1>1, <1>4 DEF Claim, GoodClaim, IInv, TypeOK
<1> HIDE DEF cl
<1>6. /\ claims' \in [ClaimIds -> Claim \cup {NoClaim}]
      /\ claims'[nClaims] = cl
      /\ \A id \in ClaimIds : id # nClaims => claims'[id] = claims[id]
  BY <1>1, <1>2, <1>5 DEF IInv, TypeOK
<1>7. BookInv'
  <2> SUFFICES ASSUME NEW id \in ClaimIds, id < nClaims + 1
               PROVE  GoodClaim(claims'[id])
    BY <1>1 DEF BookInv
  <2>1. id = nClaims \/ id < nClaims
    BY <1>2 DEF ClaimIds
  <2> QED
    BY <1>2, <1>5, <1>6, <2>1 DEF IInv, BookInv, ClaimIds
<1>8. NoneInv'
  BY <1>1 DEF IInv, NoneInv
<1>9. OpenedInv'
  <2> SUFFICES ASSUME NEW id \in ClaimIds, NEW c \in Parties, disputes[id][c].phase # "None"
               PROVE  id < nClaims' /\ Good(disputes[id][c], claims'[id], c, now)
    BY <1>1 DEF OpenedInv
  <2>1. id < nClaims /\ Good(disputes[id][c], claims[id], c, now)
    BY DEF IInv, OpenedInv
  <2>2. id # nClaims /\ id < nClaims'
    BY <1>1, <1>2, <2>1 DEF ClaimIds
  <2> QED
    BY <1>6, <2>1, <2>2
<1>10. TypeOK' /\ FreeInv' /\ PendingInv'
  BY <1>1, <1>2, <1>6 DEF IInv, TypeOK, FreeInv, PendingInv, freeDeposit
<1> QED
  BY <1>7, <1>8, <1>9, <1>10 DEF IInv

LEMMA TickPreserves ==
    ASSUME IInv, Tick
    PROVE  IInv'
<1>1. /\ Punctual /\ now' = now + 1
      /\ UNCHANGED <<balance, collateral, pendingWithdrawal, credit, nClaims, claims, claimState, disputes>>
  BY DEF Tick, money, book
<1>2. now \in Nat
  BY DEF IInv, TypeOK
<1>3. OpenedInv'
  <2> SUFFICES ASSUME NEW id \in ClaimIds, NEW c \in Parties, disputes[id][c].phase # "None"
               PROVE  id < nClaims /\ Good(disputes[id][c], claims[id], c, now + 1)
    BY <1>1 DEF OpenedInv
  <2> DEFINE d == disputes[id][c]
  <2>1. id < nClaims /\ Good(d, claims[id], c, now) /\ d \in Dispute
    BY DEF IInv, OpenedInv, TypeOK
  <2>2. d.deadline \in Nat
    BY <2>1 DEF Dispute
  <2>3. d.phase \in OpenPhases /\ now = d.deadline =>
          (IF d.phase = "AwaitResponse" THEN c ELSE claims[id].asserter) \notin Honest
    BY <1>1 DEF Punctual, OnTurn
  <2>4. claims[id].asserter \in Honest /\ d.phase \in OpenPhases \ {"AwaitResponse"} => now + 1 <= d.deadline
    <3> SUFFICES ASSUME claims[id].asserter \in Honest, d.phase \in OpenPhases \ {"AwaitResponse"}
                 PROVE  now + 1 <= d.deadline
      OBVIOUS
    <3>1. now <= d.deadline
      BY <2>1 DEF Good
    <3>2. now # d.deadline
      BY <2>3
    <3> QED
      BY <1>2, <2>2, <3>1, <3>2
  <2>5. c \in Honest /\ d.phase = "AwaitResponse" => now + 1 <= d.deadline
    <3> SUFFICES ASSUME c \in Honest, d.phase = "AwaitResponse"
                 PROVE  now + 1 <= d.deadline
      OBVIOUS
    <3>1. now <= d.deadline
      BY <2>1 DEF Good
    <3>2. now # d.deadline
      BY <2>3 DEF OpenPhases
    <3> QED
      BY <1>2, <2>2, <3>1, <3>2
  <2> QED
    BY <2>1, <2>4, <2>5 DEF Good
<1>4. BookInv' /\ NoneInv' /\ FreeInv' /\ PendingInv'
  BY <1>1 DEF IInv, BookInv, NoneInv, FreeInv, PendingInv, freeDeposit
<1>5. TypeOK'
  BY <1>1, <1>2 DEF IInv, TypeOK
<1> QED
  BY <1>3, <1>4, <1>5 DEF IInv

------------------------------------------------------------------------------
(* The invariant.                                                            *)

LEMMA InitEstablishes == Init => IInv
<1> SUFFICES ASSUME Init PROVE IInv
  OBVIOUS
<1>1. NoDispute \in Dispute /\ NoDispute.phase = "None"
  <2>1. <<>> \in Prefix
    BY DEF Prefix
  <2>2. 0 \in 0 .. NSteps - 1
    BY ModelAssumption
  <2> QED
    BY <2>1, <2>2 DEF NoDispute, Dispute, OpenPhases
<1>2. disputes \in [ClaimIds -> [Parties -> Dispute]]
  BY <1>1 DEF Init
<1>3. 0 \in 0 .. MaxClaims
  BY TimingAssumption
<1>4. TypeOK
  BY <1>2, <1>3 DEF Init, TypeOK
<1>5. BookInv /\ NoneInv /\ OpenedInv
  BY <1>1 DEF Init, BookInv, NoneInv, OpenedInv, ClaimIds
<1>6. FreeInv /\ PendingInv
  BY DEF Init, FreeInv, PendingInv, freeDeposit
<1> QED
  BY <1>4, <1>5, <1>6 DEF IInv

LEMMA NextPreserves ==
    ASSUME IInv, [Next]_vars
    PROVE  IInv'
<1>1. CASE \E a \in Asserters, v \in Amounts : depositBond(a, v) \/ requestWithdraw(a, v)
  BY <1>1, TraceAssumption, CollateralPreserves
<1>2. CASE \E a \in Asserters : withdraw(a)
  BY <1>2, TraceAssumption, PayoutPreserves
<1>3. CASE \E a \in Parties : claimCredit(a)
  BY <1>3, PayoutPreserves
<1>4. CASE \E a \in Asserters, x \in TxInput, out \in Leaf :
              \E trace \in Traces \cup {TrueTrace(x)} : commit(a, trace, out, x)
  BY <1>4, CommitPreserves
<1>5. CASE \E id \in ClaimIds, c \in Parties : challenge(c, id)
  BY <1>5, ChallengePreserves
<1>6. CASE \E id \in ClaimIds, c \in Parties : Play(id, c)
  BY <1>6, OpenFinalPreserves, RevealPreserves, RespondPreserves, ResolvePreserves DEF Play
<1>7. CASE \E id \in ClaimIds, c \in Parties : timeout(id, c)
  BY <1>7, TimeoutPreserves
<1>8. CASE Tick
  BY <1>8, TickPreserves
<1>9. CASE UNCHANGED vars
  BY <1>9 DEF vars, IInv, TypeOK, BookInv, NoneInv, OpenedInv, FreeInv, PendingInv, freeDeposit
<1> QED
  BY <1>1, <1>2, <1>3, <1>4, <1>5, <1>6, <1>7, <1>8, <1>9 DEF Next

LEMMA Invariance == Spec => []IInv
<1>1. IInv /\ [Next]_vars => IInv'
  BY NextPreserves
<1> QED
  BY InitEstablishes, <1>1, PTL DEF Spec

\* Every variable keeps its type: clocks and deadlines stay natural numbers, disputes keep
\* their indices within the model's steps and their locks non-negative.
THEOREM TypeCorrect == Spec => []TypeOK
<1>1. IInv => TypeOK
  BY DEF IInv
<1> QED
  BY <1>1, Invariance, PTL

\* An asserter that follows the protocol never loses a dispute, for any model and any
\* behaviour of its challengers (openFinal, respond, resolve, timeout).
THEOREM HonestAsserterSafe == Spec => []HonestAsserterNeverSlashed
<1>1. IInv => HonestAsserterNeverSlashed
  BY DEF IInv, OpenedInv, Good, HonestAsserterNeverSlashed
<1> QED
  BY <1>1, Invariance, PTL

\* A challenger of a wrong claim that follows the protocol never loses its dispute, for any
\* committed trace, well formed or not.
THEOREM HonestChallengerSafe == Spec => []HonestChallengerNeverLoses
<1>1. IInv => HonestChallengerNeverLoses
  BY DEF IInv, OpenedInv, Good, HonestChallengerNeverLoses
<1> QED
  BY <1>1, Invariance, PTL

\* When the proof of a step is awaited in a dispute of an honest challenger, the step is one
\* where the committed leaf is wrong on inputs both sides agree on.
THEOREM WrongStepLocated == Spec => []LocatesWrongStep
<1>1. IInv => LocatesWrongStep
  <2> SUFFICES ASSUME IInv, NEW id \in ClaimIds, NEW c \in Honest,
                      disputes[id][c].phase = "AwaitProof"
               PROVE  LET d == disputes[id][c]
                          x == claims[id].inputHash
                      IN /\ AgreedPrefix(d) = TruePrefix(x, d.hi - 1)
                         /\ d.hiLeaf # TrueLeaf[x][d.hi]
    BY DEF LocatesWrongStep
  <2> DEFINE d == disputes[id][c]
             x == claims[id].inputHash
  <2>1. c \in Parties
    BY TraceAssumption
  <2>2. /\ d \in Dispute /\ x \in TxInput /\ d.lo1 = d.hi
        /\ WrongSide(d, x) /\ d.hiPrefix = Append(AgreedPrefix(d), d.hiLeaf)
    BY <2>1, OpenFacts DEF Good, Sides, Claim
  <2>3. d.hi \in Steps
    BY <2>2 DEF Dispute, Steps
  <2>4. TruePrefix(x, d.hi) = Append(TruePrefix(x, d.hi - 1), TrueLeaf[x][d.hi])
    BY <2>2, <2>3, TruePrefixStep
  <2> QED
    BY <2>2, <2>4 DEF WrongSide, AgreedTrue
<1> QED
  BY <1>1, Invariance, PTL

------------------------------------------------------------------------------
(* The bisection.                                                            *)

SameRange(d, e) == e.lo1 = d.lo1 /\ e.hi = d.hi
Halved(d, e)    == e.hi - e.lo1 + 1 \in 1 .. (d.hi - d.lo1 + 2) \div 2

\* Whatever a move decides, it writes the range it was given.
LEMMA MoveWritesRange ==
    ASSUME TypeOK, NEW id \in ClaimIds, NEW c \in Parties, NEW d \in Dispute, NEW b, NEW phase,
           Finish(id, c, d, b) \/ NextTurn(id, c, d, phase)
    PROVE  /\ SameRange(d, disputes'[id][c])
           /\ \A i \in ClaimIds, p \in Parties :
                 i # id \/ p # c => disputes'[i][p] = disputes[i][p]
<1>1. CASE Finish(id, c, d, b)
  <2> DEFINE e == [d EXCEPT !.phase = IF b THEN "AsserterWon" ELSE "ChallengerWon"]
  <2>1. SameRange(d, e)
    BY DEF SameRange, Dispute
  <2>2. disputes' = [disputes EXCEPT ![id][c] = e]
    BY <1>1 DEF Finish
  <2> HIDE DEF e
  <2> QED
    BY <2>1, <2>2 DEF TypeOK
<1>2. CASE NextTurn(id, c, d, phase)
  <2> DEFINE e == [d EXCEPT !.phase = phase, !.deadline = now + turnTimeout]
  <2>1. SameRange(d, e)
    BY DEF SameRange, Dispute
  <2>2. disputes' = [disputes EXCEPT ![id][c] = e]
    BY <1>2 DEF NextTurn
  <2> HIDE DEF e
  <2> QED
    BY <2>1, <2>2 DEF TypeOK
<1> QED
  BY <1>1, <1>2

LEMMA AdvanceWritesRange ==
    ASSUME TypeOK, NEW id \in ClaimIds, NEW c \in Parties, NEW d \in Dispute, Advance(id, c, d)
    PROVE  /\ SameRange(d, disputes'[id][c])
           /\ \A i \in ClaimIds, p \in Parties :
                 i # id \/ p # c => disputes'[i][p] = disputes[i][p]
<1>1. \/ NextTurn(id, c, d, "AwaitReveal") \/ NextTurn(id, c, d, "AwaitProof")
      \/ Finish(id, c, d, FALSE)
  BY DEF Advance
<1> QED
  BY <1>1, MoveWritesRange

LEMMA RangeStep ==
    ASSUME IInv, [Next]_vars, NEW i \in ClaimIds, NEW p \in Parties, disputes[i][p].phase # "None"
    PROVE  \/ SameRange(disputes[i][p], disputes'[i][p])
           \/ Halved(disputes[i][p], disputes'[i][p])
<1>1. CASE disputes' = disputes
  BY <1>1 DEF SameRange
<1>2. ASSUME NEW id \in ClaimIds, NEW c \in Parties, challenge(c, id)
      PROVE  SameRange(disputes[i][p], disputes'[i][p])
  <2>1. disputes[id][c].phase = "None"
    BY <1>2 DEF challenge
  <2>2. i # id \/ p # c
    BY <2>1
  <2>3. disputes'[i][p] = disputes[i][p]
    BY <1>2, <2>2 DEF challenge, IInv, TypeOK
  <2> QED
    BY <2>3 DEF SameRange
<1>3. ASSUME NEW id \in ClaimIds, NEW c \in Parties, openFinal(id, c)
      PROVE  SameRange(disputes[i][p], disputes'[i][p])
  <2> DEFINE head == claims[id].root[Last]
             d    == [disputes[id][c] EXCEPT !.hiLeaf = head.leaf, !.hiPrefix = head.prefix]
  <2>1. disputes[id][c].phase = "AwaitOpening" /\ (Finish(id, c, d, FALSE) \/ Advance(id, c, d))
    BY <1>3 DEF openFinal, Turn
  <2>2. disputes[id][c] \in Dispute /\ claims[id] \in Claim
    BY <2>1, OpenFacts
  <2>3. head \in Opening
    BY <2>2, StepFacts DEF Claim
  <2>4. d \in Dispute /\ SameRange(disputes[id][c], d)
    BY <2>2, <2>3 DEF Dispute, Opening, SameRange
  <2> HIDE DEF d
  <2>5. /\ SameRange(d, disputes'[id][c])
        /\ i # id \/ p # c => disputes'[i][p] = disputes[i][p]
    BY <2>1, <2>4, MoveWritesRange, AdvanceWritesRange DEF IInv
  <2> QED
    BY <2>4, <2>5 DEF SameRange
<1>4. ASSUME NEW id \in ClaimIds, NEW c \in Parties, reveal(id, c)
      PROVE  SameRange(disputes[i][p], disputes'[i][p])
  <2> DEFINE op == claims[id].root[Mid(disputes[id][c])]
             d  == [disputes[id][c] EXCEPT !.curLeaf = op.leaf, !.curPrefix = op.prefix]
  <2>1. disputes[id][c].phase = "AwaitReveal" /\ NextTurn(id, c, d, "AwaitResponse")
    BY <1>4 DEF reveal, Turn
  <2>2. /\ disputes[id][c] \in Dispute /\ claims[id] \in Claim
        /\ disputes[id][c].lo1 < disputes[id][c].hi
    BY <2>1, OpenFacts DEF Good
  <2>3. op \in Opening
    BY <2>2, MidInRange DEF Claim
  <2>4. d \in Dispute /\ SameRange(disputes[id][c], d)
    BY <2>2, <2>3 DEF Dispute, Opening, SameRange
  <2> HIDE DEF d
  <2>5. /\ SameRange(d, disputes'[id][c])
        /\ i # id \/ p # c => disputes'[i][p] = disputes[i][p]
    BY <2>1, <2>4, MoveWritesRange DEF IInv
  <2> QED
    BY <2>4, <2>5 DEF SameRange
<1>5. ASSUME NEW id \in ClaimIds, NEW c \in Parties, NEW agree \in BOOLEAN, respond(id, c, agree)
      PROVE  \/ SameRange(disputes[i][p], disputes'[i][p])
             \/ Halved(disputes[i][p], disputes'[i][p])
  <2> DEFINE d   == disputes[id][c]
             mid == Mid(d)
             f   == IF agree
                      THEN [d EXCEPT !.lo1 = mid + 1, !.loPrefix = d.curPrefix]
                      ELSE [d EXCEPT !.hi = mid, !.hiLeaf = d.curLeaf, !.hiPrefix = d.curPrefix]
  <2>1. d.phase = "AwaitResponse" /\ Advance(id, c, f)
    BY <1>5 DEF respond, Turn
  <2>2. d \in Dispute /\ d.lo1 < d.hi
    BY <2>1, OpenFacts DEF Good
  <2>3. /\ d.lo1 \in Nat /\ d.hi \in Nat /\ mid \in Nat
        /\ d.lo1 <= mid /\ mid < d.hi /\ mid = (d.lo1 + d.hi - 1) \div 2
    BY <2>2, MidInRange
  <2>4. mid \in 0 .. NSteps - 1 /\ mid + 1 \in 0 .. NSteps - 1
    BY <2>2, MidInRange DEF Steps
  <2>5. f \in Dispute /\ f.lo1 = (IF agree THEN mid + 1 ELSE d.lo1) /\ f.hi = (IF agree THEN d.hi ELSE mid)
    <3> HIDE DEF mid
    <3>1. CASE agree
      BY <2>2, <2>4, <3>1 DEF Dispute
    <3>2. CASE ~ agree
      BY <2>2, <2>4, <3>2 DEF Dispute
    <3> QED
      BY <3>1, <3>2
  <2> HIDE DEF f
  <2>6. Halved(d, f)
    BY <2>3, <2>5 DEF Halved
  <2>7. /\ SameRange(f, disputes'[id][c])
        /\ i # id \/ p # c => disputes'[i][p] = disputes[i][p]
    BY <2>1, <2>5, AdvanceWritesRange DEF IInv
  <2> QED
    BY <2>6, <2>7 DEF Halved, SameRange
<1>6. ASSUME NEW id \in ClaimIds, NEW c \in Parties, NEW b, Finish(id, c, disputes[id][c], b)
      PROVE  SameRange(disputes[i][p], disputes'[i][p])
  <2>1. disputes[id][c] \in Dispute
    BY DEF IInv, TypeOK
  <2>2. /\ SameRange(disputes[id][c], disputes'[id][c])
        /\ i # id \/ p # c => disputes'[i][p] = disputes[i][p]
    BY <1>6, <2>1, MoveWritesRange DEF IInv
  <2> QED
    BY <2>2 DEF SameRange
<1>7. ASSUME NEW id \in ClaimIds, NEW c \in Parties, timeout(id, c)
      PROVE  SameRange(disputes[i][p], disputes'[i][p])
  BY <1>6, <1>7 DEF timeout
<1>8. ASSUME NEW id \in ClaimIds, NEW c \in Parties, NEW ins, resolve(id, c, ins)
      PROVE  SameRange(disputes[i][p], disputes'[i][p])
  BY <1>6, <1>8 DEF resolve
<1>9. \/ disputes' = disputes
      \/ \E id \in ClaimIds, c \in Parties : challenge(c, id) \/ Play(id, c) \/ timeout(id, c)
  BY DEF Next, vars, depositBond, requestWithdraw, withdraw, claimCredit, commit, Tick
<1> QED
  BY <1>1, <1>2, <1>3, <1>4, <1>5, <1>7, <1>8, <1>9 DEF Play

\* Every answer of a challenger leaves at most half of the steps in dispute, and at least
\* one: a dispute takes no more than the logarithm of the number of steps.
THEOREM AnswersHalve == Spec => BisectionHalves
<1> DEFINE A == \A id \in ClaimIds, c \in Parties :
                   LET d == disputes[id][c]
                       e == disputes'[id][c]
                   IN d.phase # "None" /\ <<d.lo1, d.hi>> # <<e.lo1, e.hi>>
                         => e.hi - e.lo1 + 1 \in 1 .. (d.hi - d.lo1 + 2) \div 2
<1>1. IInv /\ [Next]_vars => A
  BY RangeStep DEF SameRange, Halved
<1>2. Spec => [][A]_vars
  BY <1>1, Invariance, PTL DEF Spec
<1> QED
  BY <1>2 DEF BisectionHalves

------------------------------------------------------------------------------
(***************************************************************************)
(* Acceptance, the money and the abstract claim.  Seen through the phases, *)
(* a step of the contract changes nothing, opens one dispute or finishes   *)
(* one.  So openDisputes counts the open disputes; a wrong claim that has  *)
(* outlived its window has a dispute of every honest party, which is open, *)
(* and then counted, or won.  Seen through the money, a move of a dispute  *)
(* leaves every amount alone or pays the stake of that one dispute, so the *)
(* sums over all disputes and over all parties change at one term.         *)
(***************************************************************************)

\* What a step does to one dispute, and to all of them.
Untouched(i, p) ==
    /\ disputes[i][p].phase = "None" <=> disputes'[i][p].phase = "None"
    /\ disputes[i][p].phase = "ChallengerWon" <=> disputes'[i][p].phase = "ChallengerWon"
    /\ disputes[i][p].phase \in OpenPhases <=> disputes'[i][p].phase \in OpenPhases

Still == /\ claimState' = claimState
         /\ \A i \in ClaimIds, p \in Parties : Untouched(i, p)

OthersUntouched(id, c) ==
    \A i \in ClaimIds, p \in Parties : i # id \/ p # c => Untouched(i, p)

Opens(id, c) ==
    /\ disputes[id][c].phase = "None" /\ disputes'[id][c].phase = "AwaitOpening"
    /\ OthersUntouched(id, c)
    /\ claimState' = [claimState EXCEPT ![id].openDisputes = @ + 1]
    /\ now <= claims[id].committedAt + challengeWindow

Finishes(id, c, b) ==
    /\ disputes[id][c].phase \in OpenPhases
    /\ disputes'[id][c].phase = IF b THEN "AsserterWon" ELSE "ChallengerWon"
    /\ OthersUntouched(id, c)
    /\ claimState' = [claimState EXCEPT ![id] =
                        [openDisputes |-> @.openDisputes - 1, rejected |-> @.rejected \/ ~ b]]

PhaseStep == \/ Still
             \/ \E id \in ClaimIds, c \in Parties : Opens(id, c)
             \/ \E id \in ClaimIds, c \in Parties, b \in BOOLEAN : Finishes(id, c, b)

\* The three ways to write one dispute.
LEMMA FinishFinishes ==
    ASSUME TypeOK, NEW id \in ClaimIds, NEW c \in Parties, NEW d \in Dispute, NEW b \in BOOLEAN,
           disputes[id][c].phase \in OpenPhases, Finish(id, c, d, b)
    PROVE  Finishes(id, c, b)
<1> DEFINE e == [d EXCEPT !.phase = IF b THEN "AsserterWon" ELSE "ChallengerWon"]
<1>1. e \in Dispute /\ e.phase = IF b THEN "AsserterWon" ELSE "ChallengerWon"
  BY DEF Dispute
<1>2. disputes' = [disputes EXCEPT ![id][c] = e]
  BY DEF Finish
<1> HIDE DEF e
<1>3. disputes'[id][c] = e /\ OthersUntouched(id, c)
  BY <1>1, <1>2, PutDispute DEF TypeOK, OthersUntouched, Untouched
<1> QED
  BY <1>1, <1>3 DEF Finish, Finishes

LEMMA NextTurnIsStill ==
    ASSUME TypeOK, NEW id \in ClaimIds, NEW c \in Parties, NEW d \in Dispute,
           NEW phase \in OpenPhases,
           disputes[id][c].phase \in OpenPhases, NextTurn(id, c, d, phase)
    PROVE  Still
<1> DEFINE e == [d EXCEPT !.phase = phase, !.deadline = now + turnTimeout]
<1>1. e \in Dispute /\ e.phase = phase
  <2>1. now + turnTimeout \in Nat
    BY TimeFacts DEF TypeOK
  <2> QED
    BY <2>1 DEF Dispute
<1>2. disputes' = [disputes EXCEPT ![id][c] = e] /\ claimState' = claimState
  BY DEF NextTurn
<1> HIDE DEF e
<1>3. disputes'[id][c] = e /\ OthersUntouched(id, c)
  BY <1>1, <1>2, PutDispute DEF TypeOK, OthersUntouched, Untouched
<1>4. Untouched(id, c)
  BY <1>1, <1>3 DEF Untouched, OpenPhases
<1> QED
  BY <1>2, <1>3, <1>4 DEF Still, OthersUntouched

LEMMA AdvanceIsPhaseStep ==
    ASSUME TypeOK, NEW id \in ClaimIds, NEW c \in Parties, NEW d \in Dispute,
           disputes[id][c].phase \in OpenPhases, Advance(id, c, d)
    PROVE  PhaseStep
<1>1. \/ NextTurn(id, c, d, "AwaitReveal") \/ NextTurn(id, c, d, "AwaitProof")
      \/ Finish(id, c, d, FALSE)
  BY DEF Advance
<1>2. "AwaitReveal" \in OpenPhases /\ "AwaitProof" \in OpenPhases
  BY DEF OpenPhases
<1> QED
  BY <1>1, <1>2, FinishFinishes, NextTurnIsStill DEF PhaseStep

\* Every step of the contract, seen through the phases.
LEMMA EveryStepIsPhaseStep ==
    ASSUME IInv, [Next]_vars
    PROVE  PhaseStep
<1>1. CASE UNCHANGED <<claimState, disputes>>
  BY <1>1 DEF PhaseStep, Still, Untouched
<1>2. ASSUME NEW id \in ClaimIds, NEW c \in Parties, challenge(c, id)
      PROVE  PhaseStep
  <2> DEFINE a == claims[id].asserter
             e == [disputes[id][c] EXCEPT !.phase = "AwaitOpening", !.hi = Last,
                                          !.lockedBond = LockAmount(a), !.deadline = now + turnTimeout]
  <2>1. /\ disputes[id][c].phase = "None" /\ disputes' = [disputes EXCEPT ![id][c] = e]
        /\ claimState' = [claimState EXCEPT ![id].openDisputes = @ + 1]
        /\ now <= claims[id].committedAt + challengeWindow
    BY <1>2 DEF challenge
  <2>2. disputes \in [ClaimIds -> [Parties -> Dispute]]
    BY DEF IInv, TypeOK
  <2>3. disputes[id][c] \in Dispute
    BY <2>2
  <2>4. e.phase = "AwaitOpening"
    BY <2>3 DEF Dispute
  <2> HIDE DEF e
  <2>5. /\ disputes'[id][c] = e
        /\ \A i \in ClaimIds, p \in Parties : i # id \/ p # c => disputes'[i][p] = disputes[i][p]
    BY <2>1, <2>2
  <2>6. Opens(id, c)
    BY <2>1, <2>4, <2>5 DEF Opens, OthersUntouched, Untouched
  <2> QED
    BY <2>6 DEF PhaseStep
<1>3. ASSUME NEW id \in ClaimIds, NEW c \in Parties, openFinal(id, c)
      PROVE  PhaseStep
  <2> DEFINE head == claims[id].root[Last]
             d    == [disputes[id][c] EXCEPT !.hiLeaf = head.leaf, !.hiPrefix = head.prefix]
  <2>1. /\ disputes[id][c].phase = "AwaitOpening"
        /\ Finish(id, c, d, FALSE) \/ Advance(id, c, d)
    BY <1>3 DEF openFinal, Turn
  <2>2. disputes[id][c] \in Dispute /\ claims[id] \in Claim
    BY <2>1, OpenFacts
  <2>3. head \in Opening
    BY <2>2, StepFacts DEF Claim
  <2>4. d \in Dispute
    BY <2>2, <2>3 DEF Dispute, Opening
  <2>5. disputes[id][c].phase \in OpenPhases
    BY <2>1 DEF OpenPhases
  <2> QED
    BY <2>1, <2>4, <2>5, FinishFinishes, AdvanceIsPhaseStep DEF IInv, PhaseStep
<1>4. ASSUME NEW id \in ClaimIds, NEW c \in Parties, reveal(id, c)
      PROVE  PhaseStep
  <2> DEFINE op == claims[id].root[Mid(disputes[id][c])]
             d  == [disputes[id][c] EXCEPT !.curLeaf = op.leaf, !.curPrefix = op.prefix]
  <2>1. disputes[id][c].phase = "AwaitReveal" /\ NextTurn(id, c, d, "AwaitResponse")
    BY <1>4 DEF reveal, Turn
  <2>2. /\ disputes[id][c] \in Dispute /\ claims[id] \in Claim
        /\ disputes[id][c].lo1 < disputes[id][c].hi
    BY <2>1, OpenFacts DEF Good
  <2>3. op \in Opening
    BY <2>2, MidInRange DEF Claim
  <2>4. d \in Dispute
    BY <2>2, <2>3 DEF Dispute, Opening
  <2>5. disputes[id][c].phase \in OpenPhases /\ "AwaitResponse" \in OpenPhases
    BY <2>1 DEF OpenPhases
  <2> QED
    BY <2>1, <2>4, <2>5, NextTurnIsStill DEF IInv, PhaseStep
<1>5. ASSUME NEW id \in ClaimIds, NEW c \in Parties, NEW agree \in BOOLEAN, respond(id, c, agree)
      PROVE  PhaseStep
  <2> DEFINE d   == disputes[id][c]
             mid == Mid(d)
             f   == IF agree
                      THEN [d EXCEPT !.lo1 = mid + 1, !.loPrefix = d.curPrefix]
                      ELSE [d EXCEPT !.hi = mid, !.hiLeaf = d.curLeaf, !.hiPrefix = d.curPrefix]
  <2>1. d.phase = "AwaitResponse" /\ Advance(id, c, f)
    BY <1>5 DEF respond, Turn
  <2>2. d \in Dispute /\ d.lo1 < d.hi
    BY <2>1, OpenFacts DEF Good
  <2>3. mid \in 0 .. NSteps - 1 /\ mid + 1 \in 0 .. NSteps - 1
    BY <2>2, MidInRange DEF Steps
  <2>4. f \in Dispute
    BY <2>2, <2>3 DEF Dispute
  <2>5. d.phase \in OpenPhases
    BY <2>1 DEF OpenPhases
  <2> QED
    BY <2>1, <2>4, <2>5, AdvanceIsPhaseStep DEF IInv
<1>6. ASSUME NEW id \in ClaimIds, NEW c \in Parties,
             NEW ins \in [StepInputs[disputes[id][c].hi] -> Leaf \cup TxInput], resolve(id, c, ins)
      PROVE  PhaseStep
  <2> DEFINE d == disputes[id][c]
             b == StepOut(d.hi, ins) = d.hiLeaf
  <2>1. d.phase = "AwaitProof" /\ Finish(id, c, d, b)
    BY <1>6 DEF resolve, Turn
  <2>2. d \in Dispute /\ d.phase \in OpenPhases /\ b \in BOOLEAN
    BY <2>1, OpenFacts DEF OpenPhases
  <2> HIDE DEF b
  <2> QED
    BY <2>1, <2>2, FinishFinishes DEF IInv, PhaseStep
<1>7. ASSUME NEW id \in ClaimIds, NEW c \in Parties, timeout(id, c)
      PROVE  PhaseStep
  <2> DEFINE d == disputes[id][c]
             b == d.phase = "AwaitResponse"
  <2>1. d.phase \in OpenPhases /\ Finish(id, c, d, b)
    BY <1>7 DEF timeout
  <2>2. d \in Dispute /\ b \in BOOLEAN
    BY DEF IInv, TypeOK
  <2> HIDE DEF b
  <2> QED
    BY <2>1, <2>2, FinishFinishes DEF IInv, PhaseStep
<1>8. \/ UNCHANGED <<claimState, disputes>>
      \/ \E id \in ClaimIds, c \in Parties : challenge(c, id) \/ Play(id, c) \/ timeout(id, c)
  BY DEF Next, vars, money, book, depositBond, requestWithdraw, withdraw, claimCredit, commit, Tick
<1> QED
  BY <1>1, <1>2, <1>3, <1>4, <1>5, <1>6, <1>7, <1>8 DEF Play

\* A step that lets time pass or commits leaves the disputes and the count alone, and a
\* committed claim is never rewritten.
LEMMA BookSteps ==
    ASSUME IInv, [Next]_vars
    PROVE  /\ now' = now \/ Tick
           /\ nClaims' >= nClaims
           /\ \A id \in ClaimIds : id < nClaims => claims'[id] = claims[id]
           /\ \A id \in ClaimIds :
                 id < nClaims' /\ ~ (id < nClaims) => claims'[id].committedAt = now /\ now' = now
<1>1. \/ UNCHANGED <<now, nClaims, claims>>
      \/ Tick /\ UNCHANGED <<nClaims, claims>>
      \/ \E a \in Asserters, x \in TxInput, out \in Leaf :
            \E trace \in Traces \cup {TrueTrace(x)} : commit(a, trace, out, x)
  <2>1. ASSUME NEW a, NEW v, depositBond(a, v) \/ requestWithdraw(a, v) \/ withdraw(a) \/ claimCredit(a)
        PROVE  UNCHANGED <<now, nClaims, claims>>
    BY <2>1 DEF depositBond, requestWithdraw, withdraw, claimCredit, book
  <2>2. ASSUME NEW id, NEW c, challenge(c, id) \/ timeout(id, c) \/ openFinal(id, c) \/ reveal(id, c)
        PROVE  UNCHANGED <<now, nClaims, claims>>
    BY <2>2 DEF challenge, timeout, openFinal, reveal, book
  <2>3. ASSUME NEW id, NEW c, NEW agree, respond(id, c, agree)
        PROVE  UNCHANGED <<now, nClaims, claims>>
    BY <2>3 DEF respond, book
  <2>4. ASSUME NEW id, NEW c, NEW ins, resolve(id, c, ins)
        PROVE  UNCHANGED <<now, nClaims, claims>>
    BY <2>4 DEF resolve, book
  <2>5. Tick => UNCHANGED <<nClaims, claims>>
    BY DEF Tick, book
  <2>6. UNCHANGED vars => UNCHANGED <<now, nClaims, claims>>
    BY DEF vars
  <2> QED
    BY <2>1, <2>2, <2>3, <2>4, <2>5, <2>6 DEF Next, Play
<1>2. ASSUME NEW a \in Asserters, NEW x \in TxInput, NEW out \in Leaf,
             NEW trace \in Traces \cup {TrueTrace(x)}, commit(a, trace, out, x)
      PROVE  /\ now' = now
             /\ nClaims' >= nClaims
             /\ \A id \in ClaimIds : id < nClaims => claims'[id] = claims[id]
             /\ \A id \in ClaimIds : id < nClaims' /\ ~ (id < nClaims) => claims'[id].committedAt = now
  <2>1. /\ nClaims' = nClaims + 1 /\ now' = now /\ nClaims < MaxClaims
        /\ claims' = [claims EXCEPT ![nClaims] =
              [root |-> trace, outputDigest |-> out, inputHash |-> x, asserter |-> a, committedAt |-> now]]
    BY <1>2 DEF commit
  <2>2. nClaims \in Nat /\ nClaims \in ClaimIds
    BY <2>1, TimingAssumption DEF IInv, TypeOK, ClaimIds
  <2>3. \A id \in ClaimIds : id \in Int /\ (id < nClaims + 1 /\ ~ (id < nClaims) => id = nClaims)
    BY <2>2 DEF ClaimIds
  <2>4. /\ claims'[nClaims].committedAt = now
        /\ \A id \in ClaimIds : id # nClaims => claims'[id] = claims[id]
    BY <2>1, <2>2 DEF IInv, TypeOK
  <2> QED
    BY <2>1, <2>2, <2>3, <2>4
<1>3. nClaims \in Nat
  BY TimingAssumption DEF IInv, TypeOK
<1> QED
  BY <1>1, <1>2, <1>3

------------------------------------------------------------------------------
(* The invariants of acceptance.                                             *)

OpenSet(id) == {c \in Parties : Open(id, c)}

\* A dispute that is won has rejected its claim.
RejectedInv ==
    \A id \in ClaimIds, c \in Parties :
        disputes[id][c].phase = "ChallengerWon" => claimState[id].rejected

\* A wrong claim is challenged by every honest party before its window closes.
WatchInv ==
    \A id \in ClaimIds : id < nClaims /\ Wrong(id) =>
        \/ now <= claims[id].committedAt + challengeWindow
        \/ \A h \in Honest : disputes[id][h].phase # "None"

AInv == IInv /\ OpenDisputesCounted /\ RejectedInv /\ WatchInv

LEMMA OpenSetFinite == \A id : IsFiniteSet(OpenSet(id))
<1>1. \A id : OpenSet(id) \in SUBSET Parties
  BY DEF OpenSet
<1> QED
  BY <1>1, TraceAssumption, FS_Subset

LEMMA CountPreserved ==
    ASSUME IInv, OpenDisputesCounted, PhaseStep
    PROVE  OpenDisputesCounted'
<1>1. \A i \in ClaimIds : claimState[i].openDisputes = Cardinality(OpenSet(i))
  BY DEF OpenDisputesCounted, OpenSet
<1>2. SUFFICES ASSUME NEW i \in ClaimIds
               PROVE  claimState'[i].openDisputes = Cardinality(OpenSet(i)')
  BY DEF OpenDisputesCounted, OpenSet
<1>3. CASE Still
  <2>1. OpenSet(i)' = OpenSet(i)
    BY <1>3 DEF Still, Untouched, OpenSet, Open
  <2> QED
    BY <1>1, <1>3, <2>1 DEF Still
<1>4. ASSUME NEW id \in ClaimIds, NEW c \in Parties, Opens(id, c)
      PROVE  claimState'[i].openDisputes = Cardinality(OpenSet(i)')
  <2>1. CASE i = id
    <3>1. OpenSet(i)' = OpenSet(i) \cup {c} /\ c \notin OpenSet(i)
      BY <1>4, <2>1 DEF Opens, OthersUntouched, Untouched, OpenSet, Open, OpenPhases
    <3>2. claimState'[i].openDisputes = claimState[i].openDisputes + 1
      BY <1>4, <2>1 DEF Opens, IInv, TypeOK
    <3>3. IsFiniteSet(OpenSet(i))
      BY OpenSetFinite
    <3>4. Cardinality(OpenSet(i) \cup {c}) = Cardinality(OpenSet(i)) + 1
      BY <3>1, <3>3, FS_AddElement
    <3> QED
      BY <1>1, <3>1, <3>2, <3>4
  <2>2. CASE i # id
    <3>1. OpenSet(i)' = OpenSet(i)
      BY <1>4, <2>2 DEF Opens, OthersUntouched, Untouched, OpenSet, Open
    <3>2. claimState'[i] = claimState[i]
      BY <1>4, <2>2 DEF Opens, IInv, TypeOK
    <3> QED
      BY <1>1, <3>1, <3>2
  <2> QED
    BY <2>1, <2>2
<1>5. ASSUME NEW id \in ClaimIds, NEW c \in Parties, NEW b \in BOOLEAN, Finishes(id, c, b)
      PROVE  claimState'[i].openDisputes = Cardinality(OpenSet(i)')
  <2>1. CASE i = id
    <3>1. OpenSet(i)' = OpenSet(i) \ {c} /\ c \in OpenSet(i)
      BY <1>5, <2>1 DEF Finishes, OthersUntouched, Untouched, OpenSet, Open, OpenPhases
    <3>2. claimState'[i].openDisputes = claimState[i].openDisputes - 1
      BY <1>5, <2>1 DEF Finishes, IInv, TypeOK
    <3> QED
      BY <1>1, <3>1, <3>2, OpenSetFinite, FS_RemoveElement
  <2>2. CASE i # id
    <3>1. OpenSet(i)' = OpenSet(i)
      BY <1>5, <2>2 DEF Finishes, OthersUntouched, Untouched, OpenSet, Open
    <3>2. claimState'[i] = claimState[i]
      BY <1>5, <2>2 DEF Finishes, IInv, TypeOK
    <3> QED
      BY <1>1, <3>1, <3>2
  <2> QED
    BY <2>1, <2>2
<1> QED
  BY <1>3, <1>4, <1>5 DEF PhaseStep

LEMMA RejectedPreserved ==
    ASSUME IInv, RejectedInv, PhaseStep
    PROVE  RejectedInv'
<1> SUFFICES ASSUME NEW i \in ClaimIds, NEW p \in Parties, disputes'[i][p].phase = "ChallengerWon"
             PROVE  claimState'[i].rejected
  BY DEF RejectedInv
<1>1. CASE Still
  BY <1>1 DEF Still, Untouched, RejectedInv
<1>2. ASSUME NEW id \in ClaimIds, NEW c \in Parties, Opens(id, c)
      PROVE  claimState'[i].rejected
  <2>1. disputes[i][p].phase = "ChallengerWon"
    BY <1>2 DEF Opens, OthersUntouched, Untouched
  <2>2. claimState'[i].rejected = claimState[i].rejected
    BY <1>2 DEF Opens, IInv, TypeOK
  <2> QED
    BY <2>1, <2>2 DEF RejectedInv
<1>3. ASSUME NEW id \in ClaimIds, NEW c \in Parties, NEW b \in BOOLEAN, Finishes(id, c, b)
      PROVE  claimState'[i].rejected
  <2>1. CASE i = id
    <3>1. claimState'[i].rejected = (claimState[i].rejected \/ ~ b)
      BY <1>3, <2>1 DEF Finishes, IInv, TypeOK
    <3>2. disputes[i][p].phase = "ChallengerWon" \/ ~ b
      BY <1>3, <2>1 DEF Finishes, OthersUntouched, Untouched
    <3> QED
      BY <3>1, <3>2 DEF RejectedInv
  <2>2. CASE i # id
    <3>1. disputes[i][p].phase = "ChallengerWon" /\ claimState'[i] = claimState[i]
      BY <1>3, <2>2 DEF Finishes, OthersUntouched, Untouched, IInv, TypeOK
    <3> QED
      BY <3>1 DEF RejectedInv
  <2> QED
    BY <2>1, <2>2
<1> QED
  BY <1>1, <1>2, <1>3 DEF PhaseStep

LEMMA NoneIsLeftForGood ==
    ASSUME PhaseStep, NEW i \in ClaimIds, NEW p \in Parties, disputes[i][p].phase # "None"
    PROVE  disputes'[i][p].phase # "None"
<1>1. CASE Still
  BY <1>1 DEF Still, Untouched
<1>2. ASSUME NEW id \in ClaimIds, NEW c \in Parties, Opens(id, c)
      PROVE  disputes'[i][p].phase # "None"
  BY <1>2 DEF Opens, OthersUntouched, Untouched
<1>3. ASSUME NEW id \in ClaimIds, NEW c \in Parties, NEW b \in BOOLEAN, Finishes(id, c, b)
      PROVE  disputes'[i][p].phase # "None"
  BY <1>3 DEF Finishes, OthersUntouched, Untouched
<1> QED
  BY <1>1, <1>2, <1>3 DEF PhaseStep

LEMMA WatchPreserved ==
    ASSUME IInv, WatchInv, [Next]_vars, PhaseStep
    PROVE  WatchInv'
<1> SUFFICES ASSUME NEW id \in ClaimIds, id < nClaims', Wrong(id)'
             PROVE  \/ now' <= claims'[id].committedAt + challengeWindow
                    \/ \A h \in Honest : disputes'[id][h].phase # "None"
  BY DEF WatchInv
<1>1. now \in Nat /\ now' \in Nat /\ challengeWindow \in Nat
  BY BookSteps, TimeFacts DEF IInv, TypeOK, Tick
<1>2. CASE ~ (id < nClaims)
  <2>1. claims'[id].committedAt = now /\ now' = now
    BY <1>2, BookSteps
  <2> QED
    BY <1>1, <2>1
<1>3. CASE id < nClaims
  <2>1. claims'[id] = claims[id] /\ Wrong(id)
    BY <1>3, BookSteps DEF Wrong
  <2>2. claims[id].committedAt \in Nat
    BY <1>3 DEF IInv, BookInv, GoodClaim, Claim
  <2>3. (\A h \in Honest : disputes[id][h].phase # "None") =>
           \A h \in Honest : disputes'[id][h].phase # "None"
    BY NoneIsLeftForGood, TraceAssumption
  <2>4. CASE now' = now
    BY <1>3, <2>1, <2>3, <2>4 DEF WatchInv
  <2>5. CASE Tick
    <3>1. now' = now + 1
      BY <2>5 DEF Tick
    <3>2. now = claims[id].committedAt + challengeWindow =>
             \A h \in Honest : disputes[id][h].phase # "None"
      BY <1>3, <2>1, <2>5 DEF Tick, Watched, Committed
    <3>3. CASE now < claims[id].committedAt + challengeWindow
      BY <1>1, <2>1, <2>2, <3>1, <3>3
    <3>4. CASE ~ (now < claims[id].committedAt + challengeWindow)
      <4>1. \A h \in Honest : disputes[id][h].phase # "None"
        BY <1>1, <1>3, <2>1, <2>2, <3>2, <3>4 DEF WatchInv
      <4> QED
        BY <2>3, <4>1
    <3> QED
      BY <3>3, <3>4
  <2> QED
    BY <2>4, <2>5, BookSteps
<1> QED
  BY <1>2, <1>3

LEMMA AcceptanceInvariance == Spec => []AInv
<1>1. Init => AInv
  <2> SUFFICES ASSUME Init PROVE AInv
    OBVIOUS
  <2>1. IInv
    BY InitEstablishes
  <2>2. \A id \in ClaimIds, c \in Parties : disputes[id][c].phase = "None"
    BY DEF Init, NoDispute
  <2>3. \A id \in ClaimIds : {c \in Parties : Open(id, c)} = {}
    BY <2>2 DEF Open, OpenPhases
  <2>4. OpenDisputesCounted
    BY <2>3, FS_EmptySet DEF Init, OpenDisputesCounted
  <2>5. RejectedInv
    BY <2>2 DEF RejectedInv
  <2>6. WatchInv
    BY DEF Init, WatchInv, ClaimIds
  <2> QED
    BY <2>1, <2>4, <2>5, <2>6 DEF AInv
<1>2. AInv /\ [Next]_vars => AInv'
  BY NextPreserves, EveryStepIsPhaseStep, CountPreserved, RejectedPreserved, WatchPreserved DEF AInv
<1> QED
  BY <1>1, <1>2, PTL DEF Spec

\* isAccepted reads the number of open disputes: the counter is exact after every sequence
\* of challenges, proofs and timeouts.
THEOREM CounterExact == Spec => []OpenDisputesCounted
<1>1. AInv => OpenDisputesCounted
  BY DEF AInv
<1> QED
  BY <1>1, AcceptanceInvariance, PTL

\* An open dispute keeps its claim from being accepted.
LEMMA AcceptedHasNoOpenDispute ==
    ASSUME AInv, NEW id \in ClaimIds, isAccepted(id)
    PROVE  \A c \in Parties : disputes[id][c].phase \notin OpenPhases
<1>1. Cardinality(OpenSet(id)) = 0
  BY DEF AInv, OpenDisputesCounted, OpenSet, isAccepted
<1>2. OpenSet(id) = {}
  BY <1>1, OpenSetFinite, FS_EmptySet
<1> QED
  BY <1>2 DEF OpenSet, Open

LEMMA AcceptedIsRight ==
    ASSUME AInv, NEW id \in ClaimIds, isAccepted(id), NEW h \in Honest
    PROVE  ~ Wrong(id)
<1> SUFFICES ASSUME Wrong(id) PROVE FALSE
  OBVIOUS
<1>1. h \in Parties
  BY TraceAssumption
<1>2. id < nClaims /\ now > claims[id].committedAt + challengeWindow /\ ~ claimState[id].rejected
  BY DEF isAccepted, Committed
<1>3. now \in Nat /\ claims[id].committedAt \in Nat /\ challengeWindow \in Nat
  BY <1>2, TimeFacts DEF AInv, IInv, TypeOK, BookInv, GoodClaim, Claim
<1>4. disputes[id][h].phase # "None"
  BY <1>2, <1>3 DEF AInv, WatchInv
<1>5. disputes[id][h].phase \notin OpenPhases
  BY <1>1, AcceptedHasNoOpenDispute
<1>6. disputes[id][h] \in Dispute /\ disputes[id][h].phase # "AsserterWon"
  BY <1>1, <1>4, OpenFacts DEF AInv, Good
<1>7. disputes[id][h].phase = "ChallengerWon"
  BY <1>4, <1>5, <1>6 DEF Dispute
<1> QED
  BY <1>1, <1>2, <1>7 DEF AInv, RejectedInv

LEMMA InvariantAccepts == AInv => AcceptedIsCorrect
BY AcceptedIsRight DEF AcceptedIsCorrect

\* With an honest watcher no wrong output is ever accepted, however many colluding
\* challengers lose disputes on purpose.
THEOREM AcceptanceIsSound == Spec => []AcceptedIsCorrect
BY InvariantAccepts, AcceptanceInvariance, PTL

LEMMA AcceptedStays ==
    ASSUME AInv, [Next]_vars, NEW id \in ClaimIds, isAccepted(id)
    PROVE  isAccepted(id)'
<1>1. /\ id < nClaims /\ now > claims[id].committedAt + challengeWindow
      /\ claimState[id].openDisputes = 0 /\ ~ claimState[id].rejected
  BY DEF isAccepted, Committed
<1>2. IInv /\ PhaseStep
  BY EveryStepIsPhaseStep DEF AInv
<1>3. now \in Nat /\ now' \in Nat /\ now' >= now
  BY <1>2, BookSteps DEF IInv, TypeOK, Tick
<1>4. claims'[id] = claims[id] /\ nClaims' >= nClaims /\ claims[id].committedAt \in Nat
  BY <1>1, <1>2, BookSteps DEF IInv, BookInv, GoodClaim, Claim
<1>5. id \in Int /\ nClaims \in Int /\ nClaims' \in Int /\ challengeWindow \in Int
  <2>1. IInv'
    BY <1>2, NextPreserves
  <2> QED
    BY <1>2, <2>1, TimingAssumption DEF IInv, TypeOK, ClaimIds
<1>6. claimState'[id] = claimState[id]
  <2>1. CASE Still
    BY <2>1 DEF Still
  <2>2. ASSUME NEW i \in ClaimIds, NEW c \in Parties, Opens(i, c)
        PROVE  claimState'[id] = claimState[id]
    <3>1. i # id
      BY <1>1, <1>3, <1>4, <1>5, <2>2 DEF Opens
    <3> QED
      BY <1>2, <2>2, <3>1 DEF Opens, IInv, TypeOK
  <2>3. ASSUME NEW i \in ClaimIds, NEW c \in Parties, NEW b \in BOOLEAN, Finishes(i, c, b)
        PROVE  claimState'[id] = claimState[id]
    <3>1. i # id
      BY <2>3, AcceptedHasNoOpenDispute DEF Finishes
    <3> QED
      BY <1>2, <2>3, <3>1 DEF Finishes, IInv, TypeOK
  <2> QED
    BY <1>2, <2>1, <2>2, <2>3 DEF PhaseStep
<1>7. id < nClaims' /\ now' > claims'[id].committedAt + challengeWindow
  BY <1>1, <1>3, <1>4, <1>5
<1> QED
  BY <1>1, <1>6, <1>7 DEF isAccepted, Committed

\* What is accepted stays accepted: no later step takes a relied-on result back.
THEOREM AcceptanceFinal == Spec => AcceptanceIsFinal
<1>1. AInv /\ [Next]_vars => \A id \in ClaimIds : isAccepted(id) => isAccepted(id)'
  BY AcceptedStays
<1>2. Spec => [][\A id \in ClaimIds : isAccepted(id) => isAccepted(id)']_vars
  BY <1>1, AcceptanceInvariance, PTL DEF Spec
<1> QED
  BY <1>2 DEF AcceptanceIsFinal

------------------------------------------------------------------------------
(* The refinement of OptimisticClaim, when at least one party is honest.      *)

\* What has not been committed is not rejected; a rejected claim is not an honest one.
FreshInv ==
    \A id \in ClaimIds : ~ (id < nClaims) => ~ claimState[id].rejected

GuiltyInv ==
    \A id \in ClaimIds : id < nClaims /\ claimState[id].rejected => claims[id].asserter \notin Honest

RInv == AInv /\ FreshInv /\ GuiltyInv

\* Rejection is for good and only a lost dispute of an opened claim rejects.
LEMMA RejectionSteps ==
    ASSUME IInv, [Next]_vars, NEW id \in ClaimIds
    PROVE  /\ claimState[id].rejected => claimState'[id].rejected
           /\ claimState'[id].rejected /\ ~ claimState[id].rejected =>
                id < nClaims /\ claims[id].asserter \notin Honest
<1>1. PhaseStep /\ IInv'
  BY EveryStepIsPhaseStep, NextPreserves
<1>2. CASE Still
  BY <1>2 DEF Still
<1>3. ASSUME NEW i \in ClaimIds, NEW c \in Parties, Opens(i, c)
      PROVE  claimState'[id].rejected = claimState[id].rejected
  BY <1>3 DEF Opens, IInv, TypeOK
<1>4. ASSUME NEW i \in ClaimIds, NEW c \in Parties, NEW b \in BOOLEAN, Finishes(i, c, b)
      PROVE  /\ claimState[id].rejected => claimState'[id].rejected
             /\ claimState'[id].rejected /\ ~ claimState[id].rejected =>
                  id < nClaims /\ claims[id].asserter \notin Honest
  <2>1. CASE i # id
    <3>1. claimState'[id] = claimState[id]
      BY <1>4, <2>1 DEF Finishes, IInv, TypeOK
    <3> QED
      BY <3>1
  <2>2. CASE i = id
    <3>1. claimState'[id].rejected = (claimState[id].rejected \/ ~ b)
      BY <1>4, <2>2 DEF Finishes, IInv, TypeOK
    <3>2. id < nClaims
      BY <1>4, <2>2 DEF Finishes, OpenPhases, IInv, OpenedInv
    <3>3. ~ b => claims'[id].asserter \notin Honest
      <4>1. ~ b => disputes'[id][c].phase = "ChallengerWon"
        BY <1>4, <2>2 DEF Finishes
      <4> QED
        BY <1>1, <4>1 DEF IInv, OpenedInv, Good
    <3>4. claims'[id] = claims[id]
      BY <3>2, BookSteps
    <3> QED
      BY <3>1, <3>2, <3>3, <3>4
  <2> QED
    BY <2>1, <2>2
<1> QED
  BY <1>1, <1>2, <1>3, <1>4 DEF PhaseStep

LEMMA RefinementInvariance == Spec => []RInv
<1>1. Init => FreshInv /\ GuiltyInv
  BY DEF Init, FreshInv, GuiltyInv
<1>2. AInv /\ FreshInv /\ [Next]_vars => FreshInv'
  <2> SUFFICES ASSUME AInv, FreshInv, [Next]_vars, NEW id \in ClaimIds, ~ (id < nClaims')
               PROVE  ~ claimState'[id].rejected
    BY DEF FreshInv
  <2>1. IInv /\ IInv'
    BY NextPreserves DEF AInv
  <2>2. id \in Int /\ nClaims \in Int /\ nClaims' \in Int /\ nClaims' >= nClaims
    BY <2>1, BookSteps, TimingAssumption DEF IInv, TypeOK, ClaimIds
  <2>3. ~ (id < nClaims)
    BY <2>2
  <2> QED
    BY <2>1, <2>3, RejectionSteps DEF FreshInv
<1>3. AInv /\ FreshInv /\ GuiltyInv /\ [Next]_vars => GuiltyInv'
  <2> SUFFICES ASSUME AInv, FreshInv, GuiltyInv, [Next]_vars,
                      NEW id \in ClaimIds, id < nClaims', claimState'[id].rejected
               PROVE  claims'[id].asserter \notin Honest
    BY DEF GuiltyInv
  <2>1. IInv
    BY DEF AInv
  <2>2. id < nClaims
    BY <2>1, RejectionSteps DEF FreshInv
  <2>3. claims'[id] = claims[id]
    BY <2>1, <2>2, BookSteps
  <2> QED
    BY <2>1, <2>2, <2>3, RejectionSteps DEF GuiltyInv
<1> QED
  BY <1>1, <1>2, <1>3, AcceptanceInvariance, PTL DEF Spec, RInv

\* In the state a step leads to, what is accepted is right as well.
LEMMA AcceptedIsCorrectNext == AInv' => AcceptedIsCorrect'
BY InvariantAccepts, PTL

\* One step of the contract is a step of OptimisticClaim or leaves the claim as it was.
LEMMA StepRefines ==
    ASSUME RInv, RInv', [Next]_vars, NEW h \in Honest, NEW id \in ClaimIds
    PROVE  Abstract(id)!Next \/ UNCHANGED <<Status(id), Posted(id)>>
<1>1. IInv /\ IInv' /\ AInv /\ AInv'
  BY DEF RInv, AInv
<1>2. /\ id \in Int /\ nClaims \in Int /\ nClaims' \in Int /\ nClaims' >= nClaims
      /\ now \in Nat /\ now' \in Nat /\ challengeWindow \in Nat
  BY <1>1, BookSteps, TimingAssumption DEF IInv, TypeOK, ClaimIds
<1>3. CASE ~ (id < nClaims')
  <2>1. ~ (id < nClaims)
    BY <1>2, <1>3
  <2> QED
    BY <1>3, <2>1 DEF Status, Posted, Committed
<1>4. CASE id < nClaims' /\ ~ (id < nClaims)
  <2>1. claims'[id].committedAt = now /\ now' = now
    BY <1>1, <1>4, BookSteps
  <2>2. Status(id) = "unposted"
    BY <1>4 DEF Status, Committed
  <2>3. ~ claimState'[id].rejected
    BY <1>1, <1>4, RejectionSteps DEF RInv, FreshInv
  <2>4. ~ isAccepted(id)'
    BY <1>2, <2>1 DEF isAccepted
  <2>5. Status(id)' = "undecided"
    BY <1>4, <2>3, <2>4 DEF Status, Committed
  <2>6. claims'[id] \in Claim /\ (claims'[id].asserter \in Honest =>
            claims'[id].outputDigest = TrueLeaf[claims'[id].inputHash][Last])
    BY <1>1, <1>4 DEF IInv, BookInv, GoodClaim
  <2>7. Posted(id)' = [by |-> claims'[id].asserter, input |-> claims'[id].inputHash,
                       output |-> claims'[id].outputDigest]
    BY <1>4 DEF Posted, Committed
  <2>8. Abstract(id)!Post
    BY <2>2, <2>5, <2>6, <2>7 DEF Abstract!Post, Abstract!Postings, TrueOutput, Claim
  <2> QED
    BY <2>8 DEF Abstract!Next
<1>5. CASE id < nClaims
  <2>1. id < nClaims' /\ claims'[id] = claims[id]
    BY <1>1, <1>2, <1>5, BookSteps
  <2>2. Posted(id)' = Posted(id)
    BY <1>5, <2>1 DEF Posted, Committed
  <2>3. Status(id) \in {"accepted", "rejected", "undecided"} /\ Status(id)' \in {"accepted", "rejected", "undecided"}
    BY <1>5, <2>1 DEF Status, Committed
  <2>4. CASE isAccepted(id)
    <3>1. isAccepted(id)'
      BY <1>1, <2>4, AcceptedStays
    <3> QED
      BY <1>5, <2>1, <2>2, <2>4, <3>1 DEF Status, Committed
  <2>5. CASE ~ isAccepted(id) /\ claimState[id].rejected
    <3>1. claimState'[id].rejected
      BY <1>1, <2>5, RejectionSteps
    <3>2. ~ isAccepted(id)'
      BY <3>1 DEF isAccepted
    <3> QED
      BY <1>5, <2>1, <2>2, <2>5, <3>1, <3>2 DEF Status, Committed
  <2>6. CASE ~ isAccepted(id) /\ ~ claimState[id].rejected
    <3>1. Status(id) = "undecided"
      BY <1>5, <2>6 DEF Status, Committed
    <3>2. CASE isAccepted(id)'
      <4>1. Status(id)' = "accepted"
        BY <2>1, <3>2 DEF Status, Committed
      <4>2. ~ Wrong(id)'
        BY <1>1, <3>2, AcceptedIsCorrectNext DEF AcceptedIsCorrect
      <4>3. Posted(id).output = TrueOutput(Posted(id).input)
        BY <1>5, <2>1, <4>2 DEF Wrong, Posted, Committed, TrueOutput
      <4>4. Abstract(id)!Accept
        BY <2>2, <3>1, <4>1, <4>3 DEF Abstract!Accept
      <4> QED
        BY <4>4 DEF Abstract!Next
    <3>3. CASE ~ isAccepted(id)' /\ claimState'[id].rejected
      <4>1. Status(id)' = "rejected"
        BY <2>1, <3>3 DEF Status, Committed
      <4>2. Posted(id).by \notin Honest
        BY <1>1, <1>5, <2>6, <3>3, RejectionSteps DEF Posted, Committed
      <4>3. Abstract(id)!Reject
        BY <2>2, <3>1, <4>1, <4>2 DEF Abstract!Reject
      <4> QED
        BY <4>3 DEF Abstract!Next
    <3>4. CASE ~ isAccepted(id)' /\ ~ claimState'[id].rejected
      <4>1. Status(id)' = "undecided"
        BY <2>1, <3>4 DEF Status, Committed
      <4> QED
        BY <2>2, <3>1, <4>1
    <3> QED
      BY <3>2, <3>3, <3>4
  <2> QED
    BY <2>4, <2>5, <2>6
<1> QED
  BY <1>3, <1>4, <1>5

\* Claim by claim, the contract with all its disputes, timeouts and colluding challengers does
\* no more than OptimisticClaim allows: a claim is decided once and for good, only correct
\* ones are accepted and no honest one is rejected.
THEOREM ClaimsRefined ==
    ASSUME NEW h \in Honest
    PROVE  Spec => ImplementsClaim
<1>1. Init => \A id \in ClaimIds : Abstract(id)!Init
  BY DEF Init, Abstract!Init, Status, Posted, Committed, ClaimIds
<1>2. RInv /\ RInv' /\ [Next]_vars =>
        \A id \in ClaimIds : Abstract(id)!Next \/ UNCHANGED <<Status(id), Posted(id)>>
  BY StepRefines
<1>3. Spec => [][\A id \in ClaimIds : Abstract(id)!Next \/ UNCHANGED <<Status(id), Posted(id)>>]_vars
  BY <1>2, RefinementInvariance, PTL DEF Spec
<1> QED
  BY <1>1, <1>3 DEF ImplementsClaim, Spec

------------------------------------------------------------------------------
(* The money of the contract: what is locked, owed and held.                 *)

Pairs == ClaimIds \X Parties

OpenPairs == {p \in Pairs : Open(p[1], p[2])}

\* What each dispute has locked of a's collateral.
Lock(a) == [p \in Pairs |-> IF Open(p[1], p[2]) /\ claims[p[1]].asserter = a
                              THEN disputes[p[1]][p[2]].lockedBond ELSE 0]

Owed == [a \in Parties |-> collateral[a].deposit + pendingWithdrawal[a].amount + credit[a]]

LockInv    == \A a \in Parties : collateral[a].locked = SumFunctionOnSet(Lock(a), Pairs)
CreditInv  == \A a \in Parties : credit[a] >= 0
SolventInv == balance = SumFunctionOnSet(Owed, Parties) + challengerBond * Cardinality(OpenPairs)

MInv == AInv /\ LockInv /\ CreditInv /\ SolventInv

LEMMA PairsFinite == IsFiniteSet(Pairs) /\ IsFiniteSet(Parties) /\ IsFiniteSet(OpenPairs)
<1>1. IsFiniteSet(ClaimIds) /\ IsFiniteSet(Parties)
  BY TimingAssumption, TraceAssumption, FS_Interval DEF ClaimIds
<1>2. IsFiniteSet(Pairs)
  BY <1>1, FS_Product DEF Pairs
<1>3. OpenPairs \in SUBSET Pairs
  BY DEF OpenPairs
<1> QED
  BY <1>1, <1>2, <1>3, FS_Subset

LEMMA LockNat ==
    ASSUME IInv, NEW a
    PROVE  \A p \in Pairs : Lock(a)[p] \in Nat
<1> SUFFICES ASSUME NEW i \in ClaimIds, NEW c \in Parties
             PROVE  disputes[i][c].lockedBond \in Nat
  BY DEF Lock, Pairs
<1>1. disputes[i][c] \in Dispute
  BY DEF IInv, TypeOK
<1> QED
  BY <1>1 DEF Dispute

LEMMA OwedInt == IInv => \A a \in Parties : Owed[a] \in Int
<1> SUFFICES ASSUME IInv, NEW a \in Parties
             PROVE  collateral[a].deposit \in Int /\ pendingWithdrawal[a].amount \in Int /\ credit[a] \in Int
  BY DEF Owed
<1> QED
  BY DEF IInv, TypeOK

------------------------------------------------------------------------------
(* The moves of a dispute, seen through the money.                           *)

OthersAsBefore(id, c) ==
    \A i \in ClaimIds, p \in Parties : i # id \/ p # c => disputes'[i][p] = disputes[i][p]

Goes(id, c) ==
    /\ Open(id, c) /\ Open(id, c)'
    /\ disputes'[id][c].lockedBond = disputes[id][c].lockedBond
    /\ OthersAsBefore(id, c)
    /\ UNCHANGED <<money, claims>>

Pays(id, c, b) ==
    LET a == claims[id].asserter
        v == disputes[id][c].lockedBond
    IN /\ Open(id, c) /\ ~ Open(id, c)'
       /\ OthersAsBefore(id, c)
       /\ collateral' = [collateral EXCEPT ![a] = [deposit |-> IF b THEN @.deposit ELSE @.deposit - v,
                                                   locked |-> @.locked - v]]
       /\ credit' = IF b THEN [credit EXCEPT ![a] = @ + challengerBond]
                         ELSE [credit EXCEPT ![c] = @ + challengerBond + v]
       /\ UNCHANGED <<balance, pendingWithdrawal, claims>>

LEMMA FinishPays ==
    ASSUME TypeOK, NEW id \in ClaimIds, NEW c \in Parties, NEW d \in Dispute, NEW b \in BOOLEAN,
           Open(id, c), d.lockedBond = disputes[id][c].lockedBond, Finish(id, c, d, b),
           UNCHANGED <<balance, pendingWithdrawal, claims>>
    PROVE  Pays(id, c, b)
<1> DEFINE e == [d EXCEPT !.phase = IF b THEN "AsserterWon" ELSE "ChallengerWon"]
<1>1. e \in Dispute /\ e.phase = IF b THEN "AsserterWon" ELSE "ChallengerWon"
  BY DEF Dispute
<1>2. disputes' = [disputes EXCEPT ![id][c] = e]
  BY DEF Finish
<1> HIDE DEF e
<1>3. disputes'[id][c] = e /\ OthersAsBefore(id, c)
  BY <1>1, <1>2, PutDispute DEF TypeOK, OthersAsBefore
<1>4. ~ Open(id, c)'
  BY <1>1, <1>3 DEF Open, OpenPhases
<1> QED
  BY <1>3, <1>4 DEF Finish, Pays

LEMMA NextTurnGoes ==
    ASSUME TypeOK, NEW id \in ClaimIds, NEW c \in Parties, NEW d \in Dispute,
           NEW phase \in OpenPhases,
           Open(id, c), d.lockedBond = disputes[id][c].lockedBond, NextTurn(id, c, d, phase),
           UNCHANGED <<balance, pendingWithdrawal, claims>>
    PROVE  Goes(id, c)
<1> DEFINE e == [d EXCEPT !.phase = phase, !.deadline = now + turnTimeout]
<1>1. e \in Dispute /\ e.phase = phase /\ e.lockedBond = d.lockedBond
  <2>1. now + turnTimeout \in Nat
    BY TimeFacts DEF TypeOK
  <2> QED
    BY <2>1 DEF Dispute
<1>2. disputes' = [disputes EXCEPT ![id][c] = e] /\ UNCHANGED <<collateral, credit>>
  BY DEF NextTurn
<1> HIDE DEF e
<1>3. disputes'[id][c] = e /\ OthersAsBefore(id, c)
  BY <1>1, <1>2, PutDispute DEF TypeOK, OthersAsBefore
<1> QED
  BY <1>1, <1>2, <1>3 DEF Goes, Open, money

LEMMA AdvanceMoves ==
    ASSUME TypeOK, NEW id \in ClaimIds, NEW c \in Parties, NEW d \in Dispute,
           Open(id, c), d.lockedBond = disputes[id][c].lockedBond, Advance(id, c, d),
           UNCHANGED <<balance, pendingWithdrawal, claims>>
    PROVE  Goes(id, c) \/ \E b \in BOOLEAN : Pays(id, c, b)
<1>1. \/ NextTurn(id, c, d, "AwaitReveal") \/ NextTurn(id, c, d, "AwaitProof")
      \/ Finish(id, c, d, FALSE)
  BY DEF Advance
<1>2. "AwaitReveal" \in OpenPhases /\ "AwaitProof" \in OpenPhases
  BY DEF OpenPhases
<1> QED
  BY <1>1, <1>2, FinishPays, NextTurnGoes

\* Every answer, proof and timeout either leaves all money alone or pays what _finish pays.
LEMMA MovesPay ==
    ASSUME IInv, NEW id \in ClaimIds, NEW c \in Parties, Play(id, c) \/ timeout(id, c)
    PROVE  Goes(id, c) \/ \E b \in BOOLEAN : Pays(id, c, b)
<1> USE DEF book
<1>1. CASE openFinal(id, c)
  <2> DEFINE head == claims[id].root[Last]
             d    == [disputes[id][c] EXCEPT !.hiLeaf = head.leaf, !.hiPrefix = head.prefix]
  <2>1. /\ disputes[id][c].phase = "AwaitOpening"
        /\ Finish(id, c, d, FALSE) \/ Advance(id, c, d)
        /\ UNCHANGED <<balance, pendingWithdrawal, claims>>
    BY <1>1 DEF openFinal, Turn
  <2>2. disputes[id][c] \in Dispute /\ claims[id] \in Claim
    BY <2>1, OpenFacts
  <2>3. head \in Opening
    BY <2>2, StepFacts DEF Claim
  <2>4. d \in Dispute /\ d.lockedBond = disputes[id][c].lockedBond
    BY <2>2, <2>3 DEF Dispute, Opening
  <2>5. Open(id, c)
    BY <2>1 DEF Open, OpenPhases
  <2> HIDE DEF d
  <2> QED
    BY <2>1, <2>4, <2>5, FinishPays, AdvanceMoves DEF IInv
<1>2. CASE reveal(id, c)
  <2> DEFINE op == claims[id].root[Mid(disputes[id][c])]
             d  == [disputes[id][c] EXCEPT !.curLeaf = op.leaf, !.curPrefix = op.prefix]
  <2>1. /\ disputes[id][c].phase = "AwaitReveal" /\ NextTurn(id, c, d, "AwaitResponse")
        /\ UNCHANGED <<balance, pendingWithdrawal, claims>>
    BY <1>2 DEF reveal, Turn
  <2>2. /\ disputes[id][c] \in Dispute /\ claims[id] \in Claim
        /\ disputes[id][c].lo1 < disputes[id][c].hi
    BY <2>1, OpenFacts DEF Good
  <2>3. op \in Opening
    BY <2>2, MidInRange DEF Claim
  <2>4. d \in Dispute /\ d.lockedBond = disputes[id][c].lockedBond
    BY <2>2, <2>3 DEF Dispute, Opening
  <2>5. Open(id, c) /\ "AwaitResponse" \in OpenPhases
    BY <2>1 DEF Open, OpenPhases
  <2> HIDE DEF d
  <2> QED
    BY <2>1, <2>4, <2>5, NextTurnGoes DEF IInv
<1>3. ASSUME NEW agree \in BOOLEAN, respond(id, c, agree)
      PROVE  Goes(id, c) \/ \E b \in BOOLEAN : Pays(id, c, b)
  <2> DEFINE d   == disputes[id][c]
             mid == Mid(d)
             f   == IF agree
                      THEN [d EXCEPT !.lo1 = mid + 1, !.loPrefix = d.curPrefix]
                      ELSE [d EXCEPT !.hi = mid, !.hiLeaf = d.curLeaf, !.hiPrefix = d.curPrefix]
  <2>1. /\ d.phase = "AwaitResponse" /\ Advance(id, c, f)
        /\ UNCHANGED <<balance, pendingWithdrawal, claims>>
    BY <1>3 DEF respond, Turn
  <2>2. d \in Dispute /\ d.lo1 < d.hi
    BY <2>1, OpenFacts DEF Good
  <2>3. mid \in 0 .. NSteps - 1 /\ mid + 1 \in 0 .. NSteps - 1
    BY <2>2, MidInRange DEF Steps
  <2>4. f \in Dispute /\ f.lockedBond = d.lockedBond
    BY <2>2, <2>3 DEF Dispute
  <2>5. Open(id, c)
    BY <2>1 DEF Open, OpenPhases
  <2> HIDE DEF f
  <2> QED
    BY <2>1, <2>4, <2>5, AdvanceMoves DEF IInv
<1>4. ASSUME NEW ins \in [StepInputs[disputes[id][c].hi] -> Leaf \cup TxInput], resolve(id, c, ins)
      PROVE  \E b \in BOOLEAN : Pays(id, c, b)
  <2> DEFINE d == disputes[id][c]
             b == StepOut(d.hi, ins) = d.hiLeaf
  <2>1. /\ d.phase = "AwaitProof" /\ Finish(id, c, d, b)
        /\ UNCHANGED <<balance, pendingWithdrawal, claims>>
    BY <1>4 DEF resolve, Turn
  <2>2. d \in Dispute /\ Open(id, c) /\ b \in BOOLEAN
    BY <2>1, OpenFacts DEF Open, OpenPhases
  <2> HIDE DEF b
  <2> QED
    BY <2>1, <2>2, FinishPays DEF IInv
<1>5. CASE timeout(id, c)
  <2> DEFINE d == disputes[id][c]
             b == d.phase = "AwaitResponse"
  <2>1. /\ Open(id, c) /\ Finish(id, c, d, b)
        /\ UNCHANGED <<balance, pendingWithdrawal, claims>>
    BY <1>5 DEF timeout, Open
  <2>2. d \in Dispute /\ b \in BOOLEAN
    BY DEF IInv, TypeOK
  <2> HIDE DEF b
  <2> QED
    BY <2>1, <2>2, FinishPays DEF IInv
<1> QED
  BY <1>1, <1>2, <1>3, <1>4, <1>5 DEF Play

------------------------------------------------------------------------------
(* Locks, credits and the balance are preserved.                             *)

LocksAreNat == \A a \in Parties, p \in Pairs : Lock(a)[p] \in Nat

LEMMA LockNatNext == IInv' => LocksAreNat'
<1>1. IInv => LocksAreNat
  BY LockNat DEF LocksAreNat
<1> QED
  BY <1>1, PTL

\* One dispute changes: so does one lock.
LEMMA LockMoves ==
    ASSUME IInv, IInv', NEW id \in ClaimIds, NEW c \in Parties, OthersAsBefore(id, c),
           claims' = claims, NEW a \in Parties
    PROVE  SumFunctionOnSet(Lock(a)', Pairs) =
              SumFunctionOnSet(Lock(a), Pairs) + Lock(a)'[<<id, c>>] - Lock(a)[<<id, c>>]
<1>1. \A p \in Pairs : Lock(a)[p] \in Nat
  BY LockNat
<1>2. \A p \in Pairs : Lock(a)'[p] \in Nat
  BY LockNatNext DEF LocksAreNat
<1>3. <<id, c>> \in Pairs
  BY DEF Pairs
<1>4. \A p \in Pairs \ {<<id, c>>} : Lock(a)[p] = Lock(a)'[p]
  BY DEF Lock, Pairs, OthersAsBefore, Open
<1> QED
  BY <1>1, <1>2, <1>3, <1>4, PairsFinite, SumUpdate

\* A dispute that goes on keeps what it has locked, one that ends gives it back.
LEMMA LockAt ==
    ASSUME NEW id \in ClaimIds, NEW c \in Parties, NEW a
    PROVE  Lock(a)[<<id, c>>] = IF Open(id, c) /\ claims[id].asserter = a
                                  THEN disputes[id][c].lockedBond ELSE 0
BY DEF Lock, Pairs

LEMMA LockAtNext ==
    ASSUME NEW id \in ClaimIds, NEW c \in Parties, NEW a
    PROVE  Lock(a)'[<<id, c>>] = IF Open(id, c)' /\ claims'[id].asserter = a
                                   THEN disputes'[id][c].lockedBond ELSE 0
BY DEF Lock, Pairs

\* What the step leaves of the book keeps the locks.
LEMMA LocksKept ==
    ASSUME IInv, UNCHANGED <<collateral, disputes>>,
           \A id \in ClaimIds : id < nClaims => claims'[id] = claims[id],
           LockInv
    PROVE  LockInv'
<1>1. ASSUME NEW a \in Parties PROVE Lock(a)' = Lock(a)
  <2>1. ASSUME NEW id \in ClaimIds, NEW c \in Parties, Open(id, c)
        PROVE  claims'[id] = claims[id]
    <3>1. id < nClaims
      BY <2>1, OpenFacts DEF Open, OpenPhases, IInv, OpenedInv
    <3> QED
      BY <3>1
  <2>2. \A id \in ClaimIds, c \in Parties : Open(id, c)' <=> Open(id, c)
    BY DEF Open
  <2> QED
    BY <2>1, <2>2 DEF Lock, Pairs
<1> QED
  BY <1>1 DEF LockInv

OwedIsInt == \A a \in Parties : Owed[a] \in Int

LEMMA OwedNext == IInv' => OwedIsInt'
<1>1. IInv => OwedIsInt
  BY OwedInt DEF OwedIsInt
<1> QED
  BY <1>1, PTL

LEMMA LockSumInt == ASSUME IInv, NEW a PROVE SumFunctionOnSet(Lock(a), Pairs) \in Nat
<1>1. \A p \in Pairs : Lock(a)[p] \in Nat
  BY LockNat
<1> QED
  BY <1>1, PairsFinite, SumNat

\* The sum of what is owed is a number, and so is the count of open disputes.
LEMMA Numbers ==
    ASSUME IInv
    PROVE  /\ SumFunctionOnSet(Owed, Parties) \in Int
           /\ Cardinality(OpenPairs) \in Nat /\ challengerBond \in Nat
           /\ balance \in Int
<1>1. \A a \in Parties : Owed[a] \in Int
  BY OwedInt
<1> QED
  BY <1>1, PairsFinite, SumInt, FS_CardinalityType, BondAssumption DEF IInv, TypeOK

\* One party's account changes.
LEMMA OwedMoves ==
    ASSUME IInv, IInv', NEW a \in Parties, \A p \in Parties \ {a} : Owed'[p] = Owed[p]
    PROVE  SumFunctionOnSet(Owed', Parties) = SumFunctionOnSet(Owed, Parties) + Owed'[a] - Owed[a]
<1>1. \A p \in Parties : Owed[p] \in Int /\ Owed'[p] \in Int
  BY OwedInt, OwedNext DEF OwedIsInt
<1> QED
  BY <1>1, PairsFinite, SumUpdate

LEMMA OpenPairsSame ==
    ASSUME \A i \in ClaimIds, p \in Parties : Open(i, p)' <=> Open(i, p)
    PROVE  OpenPairs' = OpenPairs
BY DEF OpenPairs, Pairs

\* A turn moves nothing.
LEMMA GoesPreserves ==
    ASSUME IInv, IInv', LockInv, CreditInv, SolventInv,
           NEW id \in ClaimIds, NEW c \in Parties, Goes(id, c)
    PROVE  LockInv' /\ CreditInv' /\ SolventInv'
<1>1. ASSUME NEW i \in ClaimIds, NEW p \in Parties
      PROVE  /\ Open(i, p)' <=> Open(i, p)
             /\ disputes'[i][p].lockedBond = disputes[i][p].lockedBond
  BY DEF Goes, OthersAsBefore, Open
<1>2. UNCHANGED <<money, claims>>
  BY DEF Goes
<1>3. \A a \in Parties : Lock(a)' = Lock(a)
  BY <1>1, <1>2 DEF Lock, Pairs
<1>4. OpenPairs' = OpenPairs
  BY <1>1, OpenPairsSame
<1> QED
  BY <1>2, <1>3, <1>4 DEF money, LockInv, CreditInv, SolventInv, Owed

\* The end of a dispute moves the bonds from what is locked and held to what is owed.
LEMMA PaysPreserves ==
    ASSUME IInv, IInv', LockInv, CreditInv, SolventInv,
           NEW id \in ClaimIds, NEW c \in Parties, NEW b \in BOOLEAN, Pays(id, c, b)
    PROVE  LockInv' /\ CreditInv' /\ SolventInv'
<1> DEFINE a == claims[id].asserter
           v == disputes[id][c].lockedBond
<1>1. /\ Open(id, c) /\ ~ Open(id, c)' /\ OthersAsBefore(id, c)
      /\ collateral' = [collateral EXCEPT ![a] = [deposit |-> IF b THEN @.deposit ELSE @.deposit - v,
                                                  locked |-> @.locked - v]]
      /\ credit' = IF b THEN [credit EXCEPT ![a] = @ + challengerBond]
                        ELSE [credit EXCEPT ![c] = @ + challengerBond + v]
      /\ UNCHANGED <<balance, pendingWithdrawal, claims>>
  BY DEF Pays
<1>2. a \in Parties /\ v \in Nat
  <2>1. claims[id] \in Claim /\ disputes[id][c] \in Dispute
    BY <1>1, OpenFacts DEF Open, OpenPhases
  <2> QED
    BY <2>1 DEF Claim, Dispute
<1> HIDE DEF a, v
<1>3. ASSUME NEW p \in Parties
      PROVE  /\ collateral[p].deposit \in Int /\ collateral[p].locked \in Int /\ credit[p] \in Int
             /\ pendingWithdrawal[p].amount \in Int
             /\ p # a => collateral'[p] = collateral[p]
  BY <1>1 DEF IInv, TypeOK
<1>4. /\ collateral'[a].locked = collateral[a].locked - v
      /\ collateral'[a].deposit = IF b THEN collateral[a].deposit ELSE collateral[a].deposit - v
  BY <1>1, <1>2 DEF IInv, TypeOK
<1>5. LockInv'
  <2> SUFFICES ASSUME NEW p \in Parties
               PROVE  collateral'[p].locked = SumFunctionOnSet(Lock(p)', Pairs)
    BY DEF LockInv
  <2>1. SumFunctionOnSet(Lock(p)', Pairs) =
           SumFunctionOnSet(Lock(p), Pairs) + Lock(p)'[<<id, c>>] - Lock(p)[<<id, c>>]
    BY <1>1, LockMoves
  <2>2. Lock(p)'[<<id, c>>] = 0
    BY <1>1, LockAtNext
  <2>3. Lock(p)[<<id, c>>] = IF p = a THEN v ELSE 0
    BY <1>1, LockAt DEF a, v
  <2>4. collateral[p].locked = SumFunctionOnSet(Lock(p), Pairs)
    BY DEF LockInv
  <2> QED
    BY <1>2, <1>3, <1>4, <2>1, <2>2, <2>3, <2>4
<1>6. CreditInv'
  BY <1>1, <1>2, <1>3, BondAssumption DEF CreditInv, IInv, TypeOK
<1>7. SolventInv'
  <2>1. /\ OpenPairs' = OpenPairs \ {<<id, c>>} /\ <<id, c>> \in OpenPairs
    BY <1>1 DEF OpenPairs, Pairs, OthersAsBefore, Open
  <2>2. Cardinality(OpenPairs') = Cardinality(OpenPairs) - 1
    BY <2>1, PairsFinite, FS_RemoveElement
  <2>3. SumFunctionOnSet(Owed', Parties) = SumFunctionOnSet(Owed, Parties) + challengerBond
    <3>1. CASE b
      <4>1. \A p \in Parties \ {a} : Owed'[p] = Owed[p]
        BY <1>1, <1>3, <3>1 DEF Owed, IInv, TypeOK
      <4>2. Owed'[a] = Owed[a] + challengerBond
        <5>1. credit'[a] = credit[a] + challengerBond
          BY <1>1, <1>2, <3>1 DEF IInv, TypeOK
        <5> QED
          BY <1>1, <1>2, <1>3, <1>4, <3>1, <5>1, BondAssumption DEF Owed
      <4> QED
        BY <1>2, <4>1, <4>2, OwedMoves, OwedInt, Numbers
    <3>2. CASE ~ b
      <4> DEFINE M == [Owed EXCEPT ![a] = @ - v]
      <4>1. \A p \in Parties : Owed[p] \in Int /\ M[p] \in Int /\ Owed'[p] \in Int
        BY <1>2, OwedInt, OwedNext DEF Owed, OwedIsInt
      <4>2. SumFunctionOnSet(M, Parties) = SumFunctionOnSet(Owed, Parties) + M[a] - Owed[a]
        <5>1. \A p \in Parties \ {a} : Owed[p] = M[p]
          BY DEF Owed
        <5> HIDE DEF M
        <5> QED
          BY <1>2, <4>1, <5>1, PairsFinite, SumUpdate
      <4>3. M[a] = Owed[a] - v
        BY <1>2 DEF Owed
      <4>4. ASSUME NEW p \in Parties
            PROVE  Owed'[p] = IF p = c THEN M[p] + challengerBond + v ELSE M[p]
        <5>1. M[p] = IF p = a THEN Owed[p] - v ELSE Owed[p]
          BY DEF Owed
        <5>2. /\ Owed[p] = collateral[p].deposit + pendingWithdrawal[p].amount + credit[p]
              /\ Owed'[p] = collateral'[p].deposit + pendingWithdrawal'[p].amount + credit'[p]
          BY DEF Owed
        <5>3. credit'[p] = IF p = c THEN credit[p] + challengerBond + v ELSE credit[p]
          BY <1>1, <3>2 DEF IInv, TypeOK
        <5>4. collateral'[p].deposit = IF p = a THEN collateral[p].deposit - v ELSE collateral[p].deposit
          BY <1>3, <1>4, <3>2
        <5> HIDE DEF M
        <5> QED
          BY <1>1, <1>2, <1>3, <5>1, <5>2, <5>3, <5>4, BondAssumption
      <4> HIDE DEF M
      <4>5. SumFunctionOnSet(Owed', Parties) = SumFunctionOnSet(M, Parties) + Owed'[c] - M[c]
        BY <4>1, <4>4, PairsFinite, SumUpdate
      <4> QED
        BY <1>2, <4>1, <4>2, <4>3, <4>4, <4>5, Numbers
    <3> QED
      BY <3>1, <3>2
  <2> QED
    BY <1>1, <2>2, <2>3, Numbers DEF SolventInv
<1> QED
  BY <1>5, <1>6, <1>7

\* A challenge locks what it can and brings the challenger's bond.
LEMMA ChallengeKeepsBooks ==
    ASSUME IInv, IInv', LockInv, CreditInv, SolventInv,
           NEW id \in ClaimIds, NEW c \in Parties, challenge(c, id)
    PROVE  LockInv' /\ CreditInv' /\ SolventInv'
<1> DEFINE a == claims[id].asserter
           v == LockAmount(a)
           w == PulledBack(a)
           e == [disputes[id][c] EXCEPT !.phase = "AwaitOpening", !.hi = Last,
                                        !.lockedBond = v, !.deadline = now + turnTimeout]
<1>1. /\ id < nClaims /\ disputes[id][c].phase = "None"
      /\ balance' = balance + challengerBond
      /\ collateral' = [collateral EXCEPT ![a] = [deposit |-> @.deposit + w, locked |-> @.locked + v]]
      /\ pendingWithdrawal' = [pendingWithdrawal EXCEPT ![a].amount = @ - w]
      /\ disputes' = [disputes EXCEPT ![id][c] = e]
      /\ UNCHANGED <<credit, claims>>
  BY DEF challenge, Committed, book
<1>2. a \in Parties
  BY <1>1 DEF IInv, BookInv, GoodClaim, Claim
<1>3. disputes[id][c] \in Dispute
  BY DEF IInv, TypeOK
<1>4. e.phase = "AwaitOpening" /\ e.lockedBond = v
  BY <1>3 DEF Dispute
<1> HIDE DEF e
<1>5. disputes'[id][c] = e /\ OthersAsBefore(id, c)
  BY <1>1 DEF IInv, TypeOK, OthersAsBefore
<1>6. ~ Open(id, c) /\ Open(id, c)'
  BY <1>1, <1>4, <1>5 DEF Open, OpenPhases
<1>7. /\ freeDeposit(a) \in Int /\ freeDeposit(a) >= 0
      /\ pendingWithdrawal[a].amount \in Int /\ pendingWithdrawal[a].amount >= 0
  BY <1>2 DEF IInv, TypeOK, FreeInv, freeDeposit, PendingInv
<1>8. v \in Nat /\ w \in Int
  BY <1>7, BondAssumption DEF PulledBack, LockAmount, Lesser
<1> HIDE DEF a, v, w
<1>9. ASSUME NEW p \in Parties
      PROVE  /\ collateral[p].deposit \in Int /\ collateral[p].locked \in Int /\ credit[p] \in Int
             /\ pendingWithdrawal[p].amount \in Int
             /\ p # a => collateral'[p] = collateral[p] /\ pendingWithdrawal'[p] = pendingWithdrawal[p]
  BY <1>1 DEF IInv, TypeOK
<1>10. /\ collateral'[a].locked = collateral[a].locked + v
       /\ collateral'[a].deposit = collateral[a].deposit + w
       /\ pendingWithdrawal'[a].amount = pendingWithdrawal[a].amount - w
  BY <1>1, <1>2 DEF IInv, TypeOK
<1>11. LockInv'
  <2> SUFFICES ASSUME NEW p \in Parties
               PROVE  collateral'[p].locked = SumFunctionOnSet(Lock(p)', Pairs)
    BY DEF LockInv
  <2>1. SumFunctionOnSet(Lock(p)', Pairs) =
           SumFunctionOnSet(Lock(p), Pairs) + Lock(p)'[<<id, c>>] - Lock(p)[<<id, c>>]
    BY <1>1, <1>5, LockMoves
  <2>2. Lock(p)[<<id, c>>] = 0
    BY <1>6, LockAt
  <2>3. Lock(p)'[<<id, c>>] = IF p = a THEN v ELSE 0
    BY <1>1, <1>4, <1>5, <1>6, LockAtNext DEF a
  <2>4. collateral[p].locked = SumFunctionOnSet(Lock(p), Pairs)
    BY DEF LockInv
  <2> QED
    BY <1>8, <1>9, <1>10, <2>1, <2>2, <2>3, <2>4
<1>12. CreditInv'
  BY <1>1 DEF CreditInv
<1>13. SolventInv'
  <2>1. OpenPairs' = OpenPairs \cup {<<id, c>>} /\ <<id, c>> \notin OpenPairs
    BY <1>5, <1>6 DEF OpenPairs, Pairs, OthersAsBefore, Open
  <2>2. Cardinality(OpenPairs') = Cardinality(OpenPairs) + 1
    BY <2>1, PairsFinite, FS_AddElement
  <2>3. Owed' = Owed
    <3>1. ASSUME NEW p \in Parties PROVE Owed'[p] = Owed[p]
      BY <1>1, <1>8, <1>9, <1>10 DEF Owed
    <3> QED
      BY <3>1 DEF Owed
  <2> QED
    BY <1>1, <2>2, <2>3, Numbers DEF SolventInv
<1> QED
  BY <1>11, <1>12, <1>13

AccountMoves(a) ==
    /\ \A p \in Parties : collateral'[p].locked = collateral[p].locked
    /\ CreditInv'
    /\ \A p \in Parties \ {a} : Owed'[p] = Owed[p]
    /\ balance' - balance = Owed'[a] - Owed[a]

\* The asserter's own operations and a payout move as much as they take.
LEMMA AccountKeepsBooks ==
    ASSUME IInv, IInv', LockInv, CreditInv, SolventInv, NEW a \in Parties,
           \/ \E v \in Amounts : depositBond(a, v) \/ requestWithdraw(a, v)
           \/ withdraw(a) \/ claimCredit(a)
    PROVE  LockInv' /\ CreditInv' /\ SolventInv'
<1>1. UNCHANGED <<nClaims, claims, disputes>>
  BY DEF depositBond, requestWithdraw, withdraw, claimCredit, book
<1>2. ASSUME NEW p \in Parties
      PROVE  /\ collateral[p].deposit \in Int /\ collateral[p].locked \in Int /\ credit[p] \in Int
             /\ pendingWithdrawal[p].amount \in Int
  BY DEF IInv, TypeOK
<1>3. AccountMoves(a)
  <2>1. ASSUME NEW v \in Amounts, depositBond(a, v)
        PROVE  AccountMoves(a)
    <3>1. v \in Int
      BY TimingAssumption
    <3>2. /\ collateral' = [collateral EXCEPT ![a].deposit = @ + v]
          /\ balance' = balance + v /\ UNCHANGED <<pendingWithdrawal, credit>>
      BY <2>1 DEF depositBond
    <3>3. ASSUME NEW p \in Parties
          PROVE  /\ collateral'[p].locked = collateral[p].locked
                 /\ collateral'[p].deposit = IF p = a THEN collateral[p].deposit + v ELSE collateral[p].deposit
      BY <3>2 DEF IInv, TypeOK
    <3>4. Owed'[a] = Owed[a] + v
      BY <1>2, <3>1, <3>2, <3>3 DEF Owed
    <3>5. \A p \in Parties \ {a} : Owed'[p] = Owed[p]
      BY <3>2, <3>3 DEF Owed
    <3> QED
      BY <3>1, <3>2, <3>3, <3>4, <3>5, OwedInt, Numbers DEF CreditInv, AccountMoves
  <2>2. ASSUME NEW v \in Amounts, requestWithdraw(a, v)
        PROVE  AccountMoves(a)
    <3>1. v \in Int
      BY TimingAssumption
    <3>2. /\ collateral' = [collateral EXCEPT ![a].deposit = @ - v]
          /\ pendingWithdrawal' = [pendingWithdrawal EXCEPT
                                ![a] = [amount |-> @.amount + v, notBefore |-> now + withdrawDelay]]
          /\ UNCHANGED <<balance, credit>>
      BY <2>2 DEF requestWithdraw
    <3>3. ASSUME NEW p \in Parties
          PROVE  /\ collateral'[p].locked = collateral[p].locked
                 /\ collateral'[p].deposit = IF p = a THEN collateral[p].deposit - v ELSE collateral[p].deposit
                 /\ pendingWithdrawal'[p].amount = IF p = a THEN pendingWithdrawal[p].amount + v
                                                            ELSE pendingWithdrawal[p].amount
      BY <3>2 DEF IInv, TypeOK
    <3>4. \A p \in Parties : Owed'[p] = Owed[p]
      BY <1>2, <3>1, <3>2, <3>3 DEF Owed
    <3> QED
      BY <3>2, <3>3, <3>4, OwedInt, Numbers DEF CreditInv, AccountMoves
  <2>3. CASE withdraw(a)
    <3>2. /\ balance' = balance - pendingWithdrawal[a].amount
          /\ pendingWithdrawal' = [pendingWithdrawal EXCEPT ![a] = [amount |-> 0, notBefore |-> 0]]
          /\ UNCHANGED <<collateral, credit>>
      BY <2>3 DEF withdraw
    <3>3. ASSUME NEW p \in Parties
          PROVE  pendingWithdrawal'[p].amount = IF p = a THEN 0 ELSE pendingWithdrawal[p].amount
      BY <3>2 DEF IInv, TypeOK
    <3>4. Owed'[a] = Owed[a] - pendingWithdrawal[a].amount
      BY <1>2, <3>2, <3>3 DEF Owed
    <3>5. \A p \in Parties \ {a} : Owed'[p] = Owed[p]
      BY <3>2, <3>3 DEF Owed
    <3> QED
      BY <1>2, <3>2, <3>4, <3>5, OwedInt, Numbers DEF CreditInv, AccountMoves
  <2>4. CASE claimCredit(a)
    <3>2. /\ balance' = balance - credit[a]
          /\ credit' = [credit EXCEPT ![a] = 0]
          /\ UNCHANGED <<collateral, pendingWithdrawal>>
      BY <2>4 DEF claimCredit
    <3>3. ASSUME NEW p \in Parties
          PROVE  credit'[p] = IF p = a THEN 0 ELSE credit[p]
      BY <3>2 DEF IInv, TypeOK
    <3>4. Owed'[a] = Owed[a] - credit[a]
      BY <1>2, <3>2, <3>3 DEF Owed
    <3>5. \A p \in Parties \ {a} : Owed'[p] = Owed[p]
      BY <3>2, <3>3 DEF Owed
    <3> QED
      BY <1>2, <3>2, <3>3, <3>4, <3>5, OwedInt, Numbers DEF CreditInv, AccountMoves
  <2> QED
    BY <2>1, <2>2, <2>3, <2>4
<1>4. LockInv'
  <2>1. \A p \in Parties : Lock(p)' = Lock(p)
    BY <1>1 DEF Lock, Pairs, Open
  <2> QED
    BY <1>3, <2>1 DEF AccountMoves, LockInv
<1>5. OpenPairs' = OpenPairs
  BY <1>1 DEF OpenPairs, Open
<1>6. SumFunctionOnSet(Owed', Parties) = SumFunctionOnSet(Owed, Parties) + Owed'[a] - Owed[a]
  BY <1>3, OwedMoves DEF AccountMoves
<1>7. Owed[a] \in Int /\ Owed'[a] \in Int /\ balance' \in Int
  BY OwedInt, OwedNext DEF OwedIsInt, IInv, TypeOK
<1>8. SolventInv'
  BY <1>3, <1>5, <1>6, <1>7, Numbers DEF AccountMoves, SolventInv
<1> QED
  BY <1>3, <1>4, <1>8 DEF AccountMoves

LEMMA BooksInit == Init => LockInv /\ CreditInv /\ SolventInv
<1> SUFFICES ASSUME Init PROVE LockInv /\ CreditInv /\ SolventInv
  OBVIOUS
<1>1. \A id \in ClaimIds, c \in Parties : ~ Open(id, c)
  BY DEF Init, NoDispute, Open, OpenPhases
<1>2. ASSUME NEW a \in Parties PROVE SumFunctionOnSet(Lock(a), Pairs) = 0
  <2>1. \A p \in Pairs : Lock(a)[p] = 0
    BY <1>1 DEF Lock, Pairs
  <2> QED
    BY <2>1, PairsFinite, SumZero
<1>3. SumFunctionOnSet(Owed, Parties) = 0
  <2>1. \A p \in Parties : Owed[p] = 0
    BY DEF Init, Owed
  <2> QED
    BY <2>1, PairsFinite, SumZero
<1>4. OpenPairs = {}
  BY <1>1 DEF OpenPairs, Pairs
<1>5. Cardinality(OpenPairs) = 0
  BY <1>4, FS_EmptySet
<1> QED
  BY <1>2, <1>3, <1>5, BondAssumption DEF Init, LockInv, CreditInv, SolventInv

LEMMA BooksStep ==
    ASSUME IInv, IInv', LockInv, CreditInv, SolventInv, [Next]_vars
    PROVE  LockInv' /\ CreditInv' /\ SolventInv'
<1>1. CASE UNCHANGED <<money, disputes>>
  <2>1. LockInv'
    BY <1>1, BookSteps, LocksKept DEF money
  <2>2. OpenPairs' = OpenPairs /\ Owed' = Owed
    BY <1>1 DEF OpenPairs, Open, Owed, money
  <2> QED
    BY <1>1, <2>1, <2>2 DEF money, CreditInv, SolventInv
<1>2. ASSUME NEW id \in ClaimIds, NEW c \in Parties, challenge(c, id) \/ Play(id, c) \/ timeout(id, c)
      PROVE  LockInv' /\ CreditInv' /\ SolventInv'
  BY <1>2, ChallengeKeepsBooks, MovesPay, GoesPreserves, PaysPreserves
<1>3. ASSUME NEW a \in Parties,
             \/ \E v \in Amounts : depositBond(a, v) \/ requestWithdraw(a, v)
             \/ withdraw(a) \/ claimCredit(a)
      PROVE  LockInv' /\ CreditInv' /\ SolventInv'
  BY <1>3, AccountKeepsBooks
<1>4. \/ UNCHANGED <<money, disputes>>
      \/ \E id \in ClaimIds, c \in Parties : challenge(c, id) \/ Play(id, c) \/ timeout(id, c)
      \/ \E a \in Parties : \/ \E v \in Amounts : depositBond(a, v) \/ requestWithdraw(a, v)
                            \/ withdraw(a) \/ claimCredit(a)
  <2>1. ASSUME NEW a, NEW trace, NEW out, NEW x, commit(a, trace, out, x)
        PROVE  UNCHANGED <<money, disputes>>
    BY <2>1 DEF commit
  <2>2. Tick \/ UNCHANGED vars => UNCHANGED <<money, disputes>>
    BY DEF Tick, vars, money
  <2> QED
    BY <2>1, <2>2, TraceAssumption DEF Next
<1> QED
  BY <1>1, <1>2, <1>3, <1>4

LEMMA BooksInvariance == Spec => []MInv
<1>1. AInv => IInv
  BY DEF AInv
<1> QED
  BY <1>1, BooksInit, BooksStep, AcceptanceInvariance, PTL DEF Spec, MInv

\* The sums of the invariant are those of the property.
LEMMA BooksSayLocksAddUp == MInv => LocksAddUp
<1> SUFFICES ASSUME MInv PROVE LocksAddUp
  OBVIOUS
<1>1. IInv /\ OpenDisputesCounted /\ LockInv /\ CreditInv /\ SolventInv
  BY DEF MInv, AInv
<1>2. ASSUME NEW a \in Parties
      PROVE  LET open == {p \in ClaimIds \X Parties : Open(p[1], p[2]) /\ claims[p[1]].asserter = a}
             IN /\ collateral[a].locked = SumFunction([p \in open |-> disputes[p[1]][p[2]].lockedBond])
                /\ collateral[a].locked <= collateral[a].deposit
  <2> DEFINE open == {p \in ClaimIds \X Parties : Open(p[1], p[2]) /\ claims[p[1]].asserter = a}
             bond == [p \in open |-> disputes[p[1]][p[2]].lockedBond]
  <2>1. open \in SUBSET Pairs
    BY DEF Pairs
  <2>2. /\ \A p \in open : Lock(a)[p] = bond[p]
        /\ \A p \in Pairs \ open : Lock(a)[p] = 0
    BY DEF Lock, Pairs
  <2> HIDE DEF bond, open
  <2>3. \A p \in open : bond[p] \in Int
    <3>1. \A p \in Pairs : Lock(a)[p] \in Nat
      BY <1>1, LockNat
    <3> QED
      BY <2>1, <2>2, <3>1
  <2>4. SumFunctionOnSet(bond, open) = SumFunctionOnSet(Lock(a), Pairs)
    BY <2>1, <2>2, <2>3, PairsFinite, SumPart
  <2>5. DOMAIN bond = open
    BY DEF bond
  <2>6. SumFunction(bond) = SumFunctionOnSet(bond, open)
    BY <2>5 DEF SumFunction
  <2>7. collateral[a].locked <= collateral[a].deposit
    BY <1>1 DEF IInv, TypeOK, FreeInv, freeDeposit
  <2> QED
    BY <1>1, <2>4, <2>6, <2>7 DEF LockInv, bond, open
<1>3. Solvent
  <2>1. ASSUME NEW a \in Parties
        PROVE  collateral[a].locked >= 0 /\ pendingWithdrawal[a].amount >= 0 /\ credit[a] >= 0
    BY <1>1, LockSumInt DEF LockInv, CreditInv, IInv, PendingInv
  <2>2. SumFunction(Owed) = SumFunctionOnSet(Owed, Parties)
    BY DEF SumFunction, Owed
  <2>3. OpenPairs = {p \in ClaimIds \X Parties : Open(p[1], p[2])}
    BY DEF OpenPairs, Pairs
  <2> QED
    BY <1>1, <2>1, <2>2, <2>3 DEF Solvent, SolventInv, Owed
<1> QED
  BY <1>1, <1>2, <1>3 DEF LocksAddUp

\* Whatever is deposited, withdrawn, disputed, stalled and lost on purpose: the locks of the open
\* disputes are there to be taken, the counter is exact and the contract can pay what it owes.
THEOREM LocksHold == Spec => []LocksAddUp
BY BooksSayLocksAddUp, BooksInvariance, PTL

------------------------------------------------------------------------------
(* What backs a claim until its window closes.                               *)

\* Nobody has challenged a claim of a's.
Unchallenged(a) ==
    \A i \in ClaimIds, p \in Parties : disputes[i][p].phase # "None" => claims[i].asserter # a

PastInv == \A id \in ClaimIds : id < nClaims => claims[id].committedAt <= now

\* The bond of a claim whose window is open is deposited, or on its way out and not out before
\* the window closes.
Backed(a, id) ==
    \/ freeDeposit(a) >= asserterBond
    \/ /\ freeDeposit(a) + pendingWithdrawal[a].amount >= asserterBond
       /\ pendingWithdrawal[a].notBefore > claims[id].committedAt + challengeWindow

BackedInv ==
    \A id \in ClaimIds, a \in Parties :
        /\ id < nClaims /\ claims[id].asserter = a
        /\ now <= claims[id].committedAt + challengeWindow
        /\ Unchallenged(a)
        => Backed(a, id)

\* The steps, seen through the collateral.
LEMMA StepKinds ==
    ASSUME IInv, [Next]_vars
    PROVE  \/ UNCHANGED <<money, disputes>>
           \/ \E id \in ClaimIds, c \in Parties : challenge(c, id)
           \/ \E id \in ClaimIds, c \in Parties : Goes(id, c) \/ \E b \in BOOLEAN : Pays(id, c, b)
           \/ \E a \in Parties : \/ \E v \in Amounts : depositBond(a, v) \/ requestWithdraw(a, v)
                                 \/ withdraw(a) \/ claimCredit(a)
<1>1. ASSUME NEW a, NEW trace, NEW out, NEW x, commit(a, trace, out, x)
      PROVE  UNCHANGED <<money, disputes>>
  BY <1>1 DEF commit
<1>2. Tick \/ UNCHANGED vars => UNCHANGED <<money, disputes>>
  BY DEF Tick, vars, money
<1>3. ASSUME NEW id \in ClaimIds, NEW c \in Parties, Play(id, c) \/ timeout(id, c)
      PROVE  Goes(id, c) \/ \E b \in BOOLEAN : Pays(id, c, b)
  BY <1>3, MovesPay
<1> QED
  BY <1>1, <1>2, <1>3, TraceAssumption DEF Next

LEMMA PastStep ==
    ASSUME IInv, IInv', PastInv, [Next]_vars
    PROVE  PastInv'
<1> SUFFICES ASSUME NEW id \in ClaimIds, id < nClaims'
             PROVE  claims'[id].committedAt <= now'
  BY DEF PastInv
<1>1. now \in Nat /\ now' \in Nat /\ now' >= now
  BY BookSteps DEF IInv, TypeOK, Tick
<1>2. CASE id < nClaims
  <2>1. claims'[id] = claims[id] /\ claims[id].committedAt <= now /\ claims[id].committedAt \in Nat
    BY <1>2, BookSteps DEF PastInv, IInv, BookInv, GoodClaim, Claim
  <2> QED
    BY <1>1, <2>1
<1>3. CASE ~ (id < nClaims)
  BY <1>1, <1>3, BookSteps
<1> QED
  BY <1>2, <1>3

\* A challenge writes its own dispute only and opens it.
LEMMA ChallengeWrites ==
    ASSUME IInv, NEW id \in ClaimIds, NEW c \in Parties, challenge(c, id)
    PROVE  /\ disputes'[id][c].phase # "None" /\ disputes[id][c].phase = "None"
           /\ disputes'[id][c].lockedBond = LockAmount(claims[id].asserter)
           /\ OthersAsBefore(id, c) /\ claims' = claims
           /\ id < nClaims /\ now <= claims[id].committedAt + challengeWindow
           /\ \A p \in Parties : p # claims[id].asserter =>
                 collateral'[p] = collateral[p] /\ pendingWithdrawal'[p] = pendingWithdrawal[p]
<1> DEFINE a == claims[id].asserter
           e == [disputes[id][c] EXCEPT !.phase = "AwaitOpening", !.hi = Last,
                                        !.lockedBond = LockAmount(a), !.deadline = now + turnTimeout]
<1>1. /\ disputes' = [disputes EXCEPT ![id][c] = e] /\ claims' = claims
      /\ disputes[id][c].phase = "None"
      /\ id < nClaims /\ now <= claims[id].committedAt + challengeWindow
      /\ collateral' = [collateral EXCEPT ![a] = [deposit |-> @.deposit + PulledBack(a),
                                                  locked |-> @.locked + LockAmount(a)]]
      /\ pendingWithdrawal' = [pendingWithdrawal EXCEPT ![a].amount = @ - PulledBack(a)]
  BY DEF challenge, Committed, book
<1>2. disputes[id][c] \in Dispute
  BY DEF IInv, TypeOK
<1>3. e.phase = "AwaitOpening" /\ e.lockedBond = LockAmount(a)
  BY <1>2 DEF Dispute
<1> HIDE DEF e
<1>4. disputes'[id][c] = e /\ OthersAsBefore(id, c)
  BY <1>1 DEF IInv, TypeOK, OthersAsBefore
<1>5. \A p \in Parties : p # a =>
         collateral'[p] = collateral[p] /\ pendingWithdrawal'[p] = pendingWithdrawal[p]
  BY <1>1 DEF IInv, TypeOK
<1> QED
  BY <1>1, <1>3, <1>4, <1>5

LEMMA BackedStep ==
    ASSUME withdrawDelay > challengeWindow,
           IInv, IInv', PastInv, BackedInv, [Next]_vars
    PROVE  BackedInv'
<1> SUFFICES ASSUME NEW id \in ClaimIds, NEW a \in Parties,
                    id < nClaims', claims'[id].asserter = a,
                    now' <= claims'[id].committedAt + challengeWindow,
                    Unchallenged(a)'
             PROVE  Backed(a, id)'
  BY DEF BackedInv
<1>1. /\ now \in Nat /\ now' \in Nat /\ now' >= now
      /\ challengeWindow \in Nat /\ withdrawDelay \in Nat /\ asserterBond \in Nat
  BY BookSteps, TimeFacts, BondAssumption DEF IInv, TypeOK, Tick
<1>2. claims'[id].committedAt \in Nat
  BY DEF IInv, BookInv, GoodClaim, Claim
<1>3. ASSUME NEW p \in Parties
      PROVE  /\ collateral[p].deposit \in Int /\ collateral[p].locked \in Int
             /\ pendingWithdrawal[p].amount \in Int /\ pendingWithdrawal[p].amount >= 0
             /\ pendingWithdrawal[p].notBefore \in Int
             /\ freeDeposit(p) = collateral[p].deposit - collateral[p].locked
             /\ freeDeposit(p)' = collateral'[p].deposit - collateral'[p].locked
  BY DEF IInv, TypeOK, PendingInv, freeDeposit
<1>4. CASE ~ (id < nClaims)
  <2>1. PICK x \in Asserters, tx \in TxInput, out \in Leaf :
           \E trace \in Traces \cup {TrueTrace(tx)} : commit(x, trace, out, tx)
    <3>1. ASSUME NEW p, NEW v, depositBond(p, v) \/ requestWithdraw(p, v) \/ withdraw(p) \/ claimCredit(p)
          PROVE  nClaims' = nClaims
      BY <3>1 DEF depositBond, requestWithdraw, withdraw, claimCredit, book
    <3>2. ASSUME NEW i \in ClaimIds, NEW c \in Parties, challenge(c, i) \/ Play(i, c) \/ timeout(i, c)
          PROVE  nClaims' = nClaims
      BY <3>2 DEF challenge, timeout, openFinal, reveal, respond, resolve, book, Play
    <3>3. Tick \/ UNCHANGED vars => nClaims' = nClaims
      BY DEF Tick, vars, book
    <3> QED
      BY <1>4, <3>1, <3>2, <3>3 DEF Next
  <2>0. PICK trace : commit(x, trace, out, tx)
    BY <2>1
  <2>2. /\ freeDeposit(x) >= asserterBond /\ collateral' = collateral
        /\ claims' = [claims EXCEPT ![nClaims] =
              [root |-> trace, outputDigest |-> out, inputHash |-> tx, asserter |-> x, committedAt |-> now]]
        /\ nClaims' = nClaims + 1 /\ nClaims < MaxClaims
    BY <2>0 DEF commit, money
  <2>3. id = nClaims
    BY <1>4, <2>2, TimingAssumption DEF IInv, TypeOK, ClaimIds
  <2>4. a = x
    BY <2>2, <2>3 DEF IInv, TypeOK
  <2>5. freeDeposit(a)' >= asserterBond
    BY <2>2, <2>4 DEF freeDeposit
  <2> QED
    BY <2>5 DEF Backed
<1>5. CASE id < nClaims
  <2>1. claims'[id] = claims[id] /\ claims[id].committedAt <= now
    BY <1>5, BookSteps DEF PastInv
  <2> DEFINE t == claims[id].committedAt
  <2>2. Unchallenged(a)
    <3> SUFFICES ASSUME NEW i \in ClaimIds, NEW p \in Parties, disputes[i][p].phase # "None"
                 PROVE  claims[i].asserter # a
      BY DEF Unchallenged
    <3>1. i < nClaims
      BY DEF IInv, OpenedInv
    <3>2. claims'[i] = claims[i]
      BY <3>1, BookSteps
    <3>3. disputes'[i][p].phase # "None"
      BY EveryStepIsPhaseStep, NoneIsLeftForGood
    <3> QED
      BY <3>2, <3>3 DEF Unchallenged
  <2>3. Backed(a, id)
    BY <1>1, <1>2, <1>5, <2>1, <2>2 DEF BackedInv
  <2>4. CASE collateral'[a] = collateral[a] /\ pendingWithdrawal'[a] = pendingWithdrawal[a]
    BY <2>1, <2>3, <2>4 DEF Backed, freeDeposit
  <2>5. CASE UNCHANGED <<money, disputes>>
    BY <2>4, <2>5 DEF money
  <2>6. ASSUME NEW i \in ClaimIds, NEW c \in Parties, challenge(c, i)
        PROVE  Backed(a, id)'
    <3>0. claims'[i].asserter # a \/ disputes'[i][c].phase = "None"
      BY DEF Unchallenged
    <3>1. claims[i].asserter # a
      BY <2>6, ChallengeWrites, <3>0 DEF Unchallenged
    <3> QED
      BY <2>4, <2>6, <3>1, ChallengeWrites
  <2>7. ASSUME NEW i \in ClaimIds, NEW c \in Parties, Goes(i, c)
        PROVE  Backed(a, id)'
    BY <2>4, <2>7 DEF Goes, money
  <2>8. ASSUME NEW i \in ClaimIds, NEW c \in Parties, NEW b \in BOOLEAN, Pays(i, c, b)
        PROVE  Backed(a, id)'
    <3>1. disputes[i][c].phase # "None"
      BY <2>8 DEF Pays, Open, OpenPhases
    <3>2. claims[i].asserter # a
      BY <2>2, <3>1 DEF Unchallenged
    <3>3. collateral'[a] = collateral[a] /\ pendingWithdrawal'[a] = pendingWithdrawal[a]
      BY <1>2, <2>8, <3>2 DEF Pays, IInv, TypeOK
    <3> QED
      BY <2>4, <3>3
  <2>9. ASSUME NEW x \in Parties,
               \/ \E v \in Amounts : depositBond(x, v) \/ requestWithdraw(x, v)
               \/ withdraw(x) \/ claimCredit(x)
        PROVE  Backed(a, id)'
    <3>1. CASE x # a
      <4>1. collateral'[a] = collateral[a] /\ pendingWithdrawal'[a] = pendingWithdrawal[a]
        BY <1>2, <2>9, <3>1 DEF depositBond, requestWithdraw, withdraw, claimCredit, IInv, TypeOK
      <4> QED
        BY <2>4, <4>1
    <3>2. ASSUME x = a, NEW v \in Amounts, depositBond(a, v)
          PROVE  Backed(a, id)'
      <4>1. v \in Nat
        BY TimingAssumption
      <4>2. /\ collateral'[a].deposit = collateral[a].deposit + v
            /\ collateral'[a].locked = collateral[a].locked
            /\ pendingWithdrawal' = pendingWithdrawal
        BY <1>2, <3>2 DEF depositBond, IInv, TypeOK
      <4> QED
        BY <1>1, <1>2, <1>3, <2>1, <2>3, <4>1, <4>2 DEF Backed
    <3>3. ASSUME x = a, NEW v \in Amounts, requestWithdraw(a, v)
          PROVE  Backed(a, id)'
      <4>1. v \in Nat
        BY TimingAssumption
      <4>2. /\ collateral'[a].deposit = collateral[a].deposit - v
            /\ collateral'[a].locked = collateral[a].locked
            /\ pendingWithdrawal'[a].amount = pendingWithdrawal[a].amount + v
            /\ pendingWithdrawal'[a].notBefore = now + withdrawDelay
        BY <1>2, <3>3 DEF requestWithdraw, IInv, TypeOK
      <4>3. t <= now
        BY <2>1
      <4>4. freeDeposit(a) + pendingWithdrawal[a].amount >= asserterBond
        BY <1>1, <1>2, <1>3, <2>3 DEF Backed
      <4> QED
        BY <1>1, <1>2, <1>3, <2>1, <4>1, <4>2, <4>3, <4>4 DEF Backed
    <3>4. CASE x = a /\ withdraw(a)
      <4>1. now >= pendingWithdrawal[a].notBefore /\ collateral' = collateral /\ now' = now
        BY <3>4 DEF withdraw
      <4>2. now <= t + challengeWindow
        BY <2>1, <4>1
      <4>3. freeDeposit(a) >= asserterBond
        BY <1>1, <1>2, <1>3, <2>1, <2>3, <4>1, <4>2 DEF Backed
      <4> QED
        BY <4>1, <4>3 DEF Backed, freeDeposit
    <3>5. CASE claimCredit(x)
      BY <2>4, <3>5 DEF claimCredit
    <3> QED
      BY <2>9, <3>1, <3>2, <3>3, <3>4, <3>5
  <2> QED
    BY <2>5, <2>6, <2>7, <2>8, <2>9, StepKinds
<1> QED
  BY <1>4, <1>5

BInv == MInv /\ PastInv /\ BackedInv

LEMMA BackingInvariance == ASSUME withdrawDelay > challengeWindow PROVE Spec => []BInv
<1>1. Init => PastInv /\ BackedInv
  BY DEF Init, PastInv, BackedInv, ClaimIds
<1>2. MInv => IInv
  BY DEF MInv, AInv
<1>3. IInv /\ IInv' /\ PastInv /\ BackedInv /\ [Next]_vars => PastInv' /\ BackedInv'
  BY PastStep, BackedStep
<1> QED
  BY <1>1, <1>2, <1>3, BooksInvariance, PTL DEF Spec, BInv

\* _lockBond takes a whole bond where a bond is deposited or pending.
LEMMA BackedLocksBond ==
    ASSUME IInv, NEW a \in Parties, NEW id, Backed(a, id)
    PROVE  LockAmount(a) = asserterBond
<1>1. /\ collateral[a].deposit \in Int /\ collateral[a].locked \in Int
      /\ pendingWithdrawal[a].amount \in Int /\ asserterBond \in Nat
      /\ freeDeposit(a) = collateral[a].deposit - collateral[a].locked
  BY BondAssumption DEF IInv, TypeOK, freeDeposit
<1>2. \/ freeDeposit(a) >= asserterBond
      \/ freeDeposit(a) + pendingWithdrawal[a].amount >= asserterBond
  BY DEF Backed
<1> QED
  BY <1>1, <1>2 DEF LockAmount, PulledBack, Lesser

LEMMA FirstDisputeStep ==
    ASSUME BInv, [Next]_vars,
           NEW id \in ClaimIds, NEW c \in Parties,
           disputes[id][c].phase = "None", disputes'[id][c].phase # "None",
           Unchallenged(claims[id].asserter)
    PROVE  disputes'[id][c].lockedBond = asserterBond
<1>0. IInv /\ BackedInv
  BY DEF BInv, MInv, AInv
<1>1. ~ UNCHANGED disputes
  OBVIOUS
<1>2. ASSUME NEW i \in ClaimIds, NEW p \in Parties, Goes(i, p) \/ \E b \in BOOLEAN : Pays(i, p, b)
      PROVE  FALSE
  <2>1. disputes[i][p].phase # "None" /\ OthersAsBefore(i, p)
    BY <1>2 DEF Goes, Pays, Open, OpenPhases
  <2> QED
    BY <2>1 DEF OthersAsBefore
<1>3. ASSUME NEW i \in ClaimIds, NEW p \in Parties, challenge(p, i)
      PROVE  disputes'[id][c].lockedBond = asserterBond
  <2> DEFINE a == claims[id].asserter
  <2>1. OthersAsBefore(i, p)
    BY <1>0, <1>3, ChallengeWrites
  <2>2. i = id /\ p = c
    BY <2>1 DEF OthersAsBefore
  <2>3. /\ disputes'[id][c].lockedBond = LockAmount(a)
        /\ id < nClaims /\ now <= claims[id].committedAt + challengeWindow
    BY <1>0, <1>3, <2>2, ChallengeWrites
  <2>4. a \in Parties
    BY <1>0, <2>3 DEF IInv, BookInv, GoodClaim, Claim
  <2>5. Backed(a, id)
    BY <1>0, <2>3, <2>4 DEF BackedInv
  <2> QED
    BY <1>0, <2>3, <2>4, <2>5, BackedLocksBond
<1>4. ASSUME NEW a, \/ \E v \in Amounts : depositBond(a, v) \/ requestWithdraw(a, v)
                    \/ withdraw(a) \/ claimCredit(a)
      PROVE  UNCHANGED disputes
  BY <1>4 DEF depositBond, requestWithdraw, withdraw, claimCredit
<1> QED
  BY <1>0, <1>1, <1>2, <1>3, <1>4, StepKinds

\* Where a withdrawal takes longer than the window, whoever disputes an asserter first finds a
\* whole bond to lock.  (The constructor also admits withdrawDelay = challengeWindow: a withdrawal
\* requested in the block of the commit then comes out in the last block of the window, just
\* before a challenge that finds nothing.)
THEOREM FirstDisputeBacked ==
    ASSUME withdrawDelay > challengeWindow
    PROVE  Spec => FirstDisputeIsBacked
<1> DEFINE Backs(id, c) ==
        /\ disputes[id][c].phase = "None" /\ disputes'[id][c].phase # "None"
        /\ \A i \in ClaimIds, p \in Parties :
              disputes[i][p].phase # "None" => claims[i].asserter # claims[id].asserter
        => disputes'[id][c].lockedBond = asserterBond
<1>1. BInv /\ [Next]_vars => [\A id \in ClaimIds, c \in Parties : Backs(id, c)]_vars
  BY FirstDisputeStep DEF Unchallenged
<1> QED
  BY <1>1, BackingInvariance, PTL DEF Spec, FirstDisputeIsBacked
==============================================================================
