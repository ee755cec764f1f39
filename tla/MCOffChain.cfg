\* Scripted disputes over seven steps, two of them joined; memory plans for three budgets;
\* two institutions over six nodes and three rounds.
INIT MCInit
NEXT MCNext
CONSTANTS
    asserter = asserter
    challenger = challenger
    Parties = {asserter, challenger}
    Asserters = {asserter}
    Honest = {}
    NSteps = 7
    StepInputs <- MCStepInputs
    StepOut <- MCStepOut
    TrueLeaf <- MCTrueLeaf
    Leaf = {0, 1, 2}
    TxInput = {1}
    tx = 1
    Junk = Junk
    Zero = Zero
    NoClaim = NoClaim
    Traces <- MCTraces
    asserterBond = 2
    challengerBond = 1
    challengeWindow = 1
    turnTimeout = 1
    withdrawDelay = 2
    deposited = 4
    MaxScenarios = 2
    MaxClaims = 3
    MaxCommitTime = 0
    MaxTime = 0
    MaxDeposit = 4
    Amounts = {4}
    KS = {1, 2, 4}
    GS = {1, 2, 4}
    BUDGETS_MB <- MCBudgets
    nb = 6
    Peaks = {9, 10, 36}
    Nodes = {0, 1, 2, 3, 4, 5}
    Edges <- MCEdges
    y <- MCy
    k = 2
    Splits <- MCSplits
    Fractions = {1, 50, 100}
    rounds = 3
    F1s = {0, 1, 2}
INVARIANTS
    DisputesPlayedRight
    PlansAreSound
    TrainingIsSound
