\* Transfers between two wallets, to oneself too; one operator whose stake comes and goes while
\* requests overlap and proofs age.
SPECIFICATION GateSpec
CONSTANTS
    Operators = {op}
    AgentIds = {agent}
    NoOperator = NoOperator
    baseSlash = 2
    minStake = 0
    registrationBond = 0
    withdrawDelay = 2
    Amounts = {2}
    MaxStake = 4
    MaxTime = 2
    Validators = {v1}
    Byzantine = {}
    threshold = 1
    Wallets = {alice, bob}
    Transfers = {0, 1}
    Nonces = {1, 2}
    NoBundle = NoBundle
    NoProof = NoProof
    Faults = {}
    MaxSupply = 1
CONSTRAINT OneKindOfMoney
INVARIANTS
    BooksBalance
PROPERTIES
    ExecutedIsDeterred
    BlockedInTimePaysSlash
