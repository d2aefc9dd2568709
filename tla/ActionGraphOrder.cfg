SPECIFICATION GraphSpec
CONSTANTS
    N = 3
    Resources = {"k", "l", "m"}
    Plans <- MCReversed
    MaxParallelReads = 2
    NoRecord = NoRecord
INVARIANTS ValidatedGraphProgresses
CHECK_DEADLOCK FALSE
