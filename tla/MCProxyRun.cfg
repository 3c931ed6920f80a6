CONSTANTS
    c1 = c1
    src = src
    absent = absent
    torn = torn
    Conns = {c1}
    Source = src
    MaxRequests = 1
    MaxReloads = 1
    MaxStarts = 3
    Absent = absent
    Torn = torn
SPECIFICATION FairSpec
INVARIANTS FileStillHasIt ReloadsReachOpenSinks RecordsReachOpenSinks UsableRootStays TrustedRootSigns
PROPERTY ShutdownEnds
CHECK_DEADLOCK FALSE
