\* one and three observers, messages of two and four bytes, two repetitions
SPECIFICATION Spec
CONSTANTS
    Size = 5
    NTimes = 2
    NumObservers = 3
    WINDOW_SIZE = 5
    MSG_STEP = 2
    ITERATIONS = 1
INVARIANTS
    OneMeasurementAtATime
    LineAfterItsBatches
    EveryLinePrinted
