\* Two claims on one bond: what the winner of the second dispute gets.
SPECIFICATION Spec
CONSTANTS
    Parties = {c, m}
    Asserters = {m}
    Honest = {}
    NSteps = 2
    StepInputs <- MCStepInputs
    StepOut <- MCStepOut
    TrueLeaf <- MCTrueLeaf
    Leaf = {0, 1}
    TxInput = {0}
    Junk = Junk
    Zero = Zero
    NoClaim = NoClaim
    Traces <- MCTwoTraces
    asserterBond = 2
    challengerBond = 1
    challengeWindow = 1
    turnTimeout = 1
    withdrawDelay = 2
    Amounts = {1, 2}
    MaxClaims = 2
    MaxCommitTime = 1
    MaxTime = 3
    MaxDeposit = 2
INVARIANT
    LoserPaysBond
