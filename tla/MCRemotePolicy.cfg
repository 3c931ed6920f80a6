CONSTANTS
    old = old
    new = new
    torn = torn
    Good = {old, new}
    Bad = {torn, empty}
    Empty = empty
    Parts <- MCParts
    NoPolicy = none
    NoTag = notag
    Unchanged = unchanged
    MaxChanges = 2
    MaxCrashes = 2
SPECIFICATION FairSpec
INVARIANT ValidatorsNameActive
PROPERTIES OfflineStartContinues NoReloadAfterClose EventuallyInForce CloseReturns
CHECK_DEADLOCK FALSE
