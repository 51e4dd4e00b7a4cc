\* the clock of the second phase
SPECIFICATION PSpec
CONSTANTS
    Size = 3
    NTimes = 1
    NumObservers = 1
    ITERATIONS = 2
INVARIANTS
    OneWindowTimeComplete
