\* One claim on a four-step model: one dispute about every trace, an honest asserter against any
\* challenger and any asserter against an honest one; about few traces, an accomplice besides.
SPECIFICATION FairSpec
CONSTANTS
    Parties = {h, m, c}
    Accomplices = {c}
    Asserters = {h, m}
    Honest = {h}
    NSteps = 4
    StepInputs <- MCStepInputs
    StepOut <- MCStepOut
    TrueLeaf <- MCTrueLeaf
    Leaf = {0, 1}
    TxInput = {0}
    Junk = Junk
    Zero = Zero
    NoClaim = NoClaim
    Traces <- MCTraces
    asserterBond = 0
    challengerBond = 0
    challengeWindow = 1
    turnTimeout = 1
    withdrawDelay = 2
    MaxClaims = 1
    MaxCommitTime = 0
    MaxTime = 9
    MaxDeposit = 0
    Amounts = {}
CONSTRAINT InScope
INVARIANTS
    HonestAsserterNeverSlashed
    HonestChallengerNeverLoses
    LocatesWrongStep
    AcceptedIsCorrect
PROPERTIES
    BisectionHalves
    ImplementsClaim
    ClaimDecided
CHECK_DEADLOCK TRUE
