\* Two TPMs and two accounts that mix their material, keys that are replaced, nonces and
\* attestations in any order; and launches on two machines of which one at most is enrolled, with
\* files, private copies and keys that are replaced at any moment.
SPECIFICATION AttestationSpec
CONSTANTS
    TPMs = {s, t}
    Accounts = {a, b}
    Agents = {g}
    NoOperator = NoOperator
    NoPending = NoPending
    Nobody = Nobody
    MaxKeys = 2
    MaxCounter = 3
    MaxNonces = 2
    MaxChallenges = 2
    Builds = {good, patched}
    approved = {good}
    HostKey = HostKey
    NoMeasurement = NoMeasurement
    MaxEnclaves = 2
CONSTRAINT OneConcern
SYMMETRY Symmetry
INVARIANTS
    KeysAreResident
    AdmittedInOrder
    AdmittedIsAttested
    CountedIsVerified
PROPERTIES
    HistoryKept
    CredentialNeedsNewHardware
CHECK_DEADLOCK FALSE
