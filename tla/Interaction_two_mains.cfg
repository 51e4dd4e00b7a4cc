\* two main ranks and two observers that fetch and add; asynchronous progress
SPECIFICATION Spec
CONSTANTS
    Size = 4
    NumMain = 2
    NumObservers = 2
    Op = "fop"
    ITERATIONS = 2
    AsyncProgress = TRUE
    IntelProg = FALSE
    Garbage = {0}
    MaxRounds = 1
INVARIANTS
    Inv
PROPERTIES
    ObserversOnlyLook
    ImplementsStopFlag
