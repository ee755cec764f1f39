\* Two runs of two requests each, into one directory or two, three validators one of which is
\* byzantine, a gate that is strict or not.
SPECIFICATION Spec
CONSTANTS
    me = me
    Validators = {me, other, byz}
    Byzantine = {byz}
    Thresholds = {2, 3}
    auditQuorum = 2
    Dirs = {d1, d2}
    n = 2
    MaxRuns = 2
    MaxOdd = 1
    baseSlash = 2
    minStake = 3
    Faults = {"falsified"}
    Nowhere = Nowhere
    NoRecord = NoRecord
CONSTRAINT FewOdd
INVARIANTS
    RecordSurvives
    OutcomesExpected
    AuditsAreSound
    EvidenceIsSound
PROPERTY
    RunEnds
CHECK_DEADLOCK FALSE
