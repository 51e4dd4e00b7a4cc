\* run.sh repeats the measurement: ntimes > 1
SPECIFICATION PSpec
CONSTANTS
    Size = 3
    NTimes = 2
    NumObservers = 1
    ITERATIONS = 2
INVARIANTS
    NeverAborted
