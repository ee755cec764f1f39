SPECIFICATION MCSpec
CONSTANTS
    stakeAmount = 5
    slashAmount = 4
    Bonds = {0, 1, 3}
    LateFrom = 3
    maxCompliantAmount = 0
    Destinations = {"merchant", "sanctioned"}
    sanctioned = {"sanctioned"}
    PNum = 1
    PDen = 2
    tieBreakExecutes = FALSE
    compliantMin = 0
    compliantMax = 1
    violationMin = 0
    violationMax = 5
    overLimitExtra = 0
    nSteps = 3
    nAgents = 2
    One = 8
    WindowLength = 2
    LearningSteps = 3
    Half = 2
    MinReduction = 20
    Alpha = 3
    MinFailures = 2
INVARIANTS
    DeterrenceOrder
    EverybodyPays
    CareersEnd
    SameExperiment
    ReportsAreSound
CHECK_DEADLOCK FALSE
