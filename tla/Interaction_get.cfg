\* one main rank, one idle rank, two observers that fetch in batches; no
\* asynchronous progress, the task polls (INTEL_PROG)
SPECIFICATION Spec
CONSTANTS
    Size = 4
    NumMain = 1
    NumObservers = 2
    Op = "get"
    ITERATIONS = 2
    AsyncProgress = FALSE
    IntelProg = TRUE
    Garbage = {0, 2}
    MaxRounds = 2
INVARIANTS
    TypeOK
    CollectivesMatch
    ValidationHolds
    OverrunAtMostOneBatch
    TaskObserved
    PrintedTotalIsExact
    CleanTeardown
PROPERTIES
    Termination
