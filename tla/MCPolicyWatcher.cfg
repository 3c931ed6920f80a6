CONSTANTS
    old = old
    new = new
    torn = torn
    absent = absent
    none = none
    Good = {old, new}
    Bad = {torn}
    Partial = {torn, old}
    Absent = absent
    NoPolicy = none
    KernelDrops = TRUE
    MaxSaves = 4
SPECIFICATION FairSpec
INVARIANTS ChangeIsPending InForceWhenQuiet
PROPERTIES NoReloadAfterClose EventuallyInForce CloseReturns
CHECK_DEADLOCK FALSE
