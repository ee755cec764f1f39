\* What a blocked request brings the treasury when the stake has gone before it settles.
SPECIFICATION GateSpec
CONSTANTS
    Operators = {op}
    AgentIds = {agent}
    NoOperator = NoOperator
    baseSlash = 2
    minStake = 0
    registrationBond = 0
    withdrawDelay = 2
    Amounts = {2}
    MaxStake = 4
    MaxTime = 2
    Validators = {v1}
    Byzantine = {}
    threshold = 1
    Wallets = {alice}
    Transfers = {0}
    Nonces = {1, 2}
    NoBundle = NoBundle
    NoProof = NoProof
    Faults = {}
    MaxSupply = 0
PROPERTY
    BlockedPaysSlash
