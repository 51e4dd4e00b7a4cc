\* two ranks that transfer at the same time; the device of one may be missing
SPECIFICATION DSpec
CONSTANTS
    Size = 3
    Failing = {2}
INVARIANTS
    OnlyMisflushedEarly
    TargetLeavesLast
    NoHalfResults
