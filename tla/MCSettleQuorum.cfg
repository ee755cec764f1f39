\* Four validators of which one is byzantine, nodes that lag, every fault, overlapping requests.
SPECIFICATION GateSpec
CONSTANTS
    Operators = {op}
    AgentIds = {agent, reset}
    NoOperator = NoOperator
    baseSlash = 2
    minStake = 0
    registrationBond = 0
    withdrawDelay = 1
    Amounts = {}
    MaxStake = 0
    MaxTime = 0
    Validators = {v1, v2, v3, v4}
    Byzantine = {v4}
    threshold = 3
    Wallets = {alice}
    Transfers = {1}
    Nonces = {1, 2}
    NoBundle = NoBundle
    NoProof = NoProof
    Faults = {"flip_viol", "amount_swap", "stale_slash", "corrupt_proof", "wrong_model"}
    MaxSupply = 0
SYMMETRY HonestSymmetry
INVARIANTS
    FaultsRefused
    SettledIsProven
    SlashWasInForce
    HistoryMatchesOutcomes
