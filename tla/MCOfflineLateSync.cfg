\* An honest device, payees that reconnect one by one.
SPECIFICATION Spec
CONSTANTS
    Devices = {d}
    Payees = {x, y}
    Manipulated = {}
    Amounts = {1, 2}
    allowance = 3
    expires = 1
    MaxCounter = 4
    MaxTime = 1
SYMMETRY PayeeSymmetry
INVARIANT
    FlaggedHasOverspent
CHECK_DEADLOCK FALSE
