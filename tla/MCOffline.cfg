\* An honest and a manipulated device, payees that reconnect together or, without
\* payments of the honest device, as they like.
SPECIFICATION Spec
CONSTANTS
    Devices = {d, e}
    Payees = {x, y}
    Manipulated = {e}
    Amounts = {1, 2}
    allowance = 2
    expires = 0
    MaxCounter = 4
    MaxTime = 1
CONSTRAINT FewPayments
SYMMETRY PayeeSymmetry
INVARIANTS
    SettledWithinAllowance
    NothingTwice
    SettledIsAttested
    OverspendDetected
    HonestPaidOut
CHECK_DEADLOCK FALSE
