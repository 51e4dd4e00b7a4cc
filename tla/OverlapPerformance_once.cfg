\* one repetition; two observers, and one accessing rank that only holds its locks
SPECIFICATION PSpec
CONSTANTS
    Size = 5
    NTimes = 1
    NumObservers = 2
    ITERATIONS = 2
INVARIANTS
    PhasesApart
    EveryAccessCounted
