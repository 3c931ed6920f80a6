CONSTANTS
    old = old
    new = new
    torn = torn
    absent = absent
    none = none
    Good = {old, new}
    Bad = {torn}
    Partial = {torn}
    Absent = absent
    NoPolicy = none
    KernelDrops = FALSE
    MaxSaves = 1
SPECIFICATION FairSpec
PROPERTIES ReappliedOnChange
CHECK_DEADLOCK FALSE
