CONSTANTS
    NumLines = 1
    MaxLines = 3
    MaxCuts = 0
SPECIFICATION FairSpec
PROPERTY StreamsNewRecords
CHECK_DEADLOCK FALSE
