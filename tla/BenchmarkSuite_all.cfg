\* Every benchmark but one, with each combination of -c, -l, -k rotate and -s.
SPECIFICATION Spec
CONSTANTS
    Sizes <- TwoSizes
    Windows <- WindowOfTwo
    Skip = 1
    Iters = 1
    Warmup = 1
    Nodes = 3
    SenderThreads = 2
    ReceiverThreads = 2
    InitialWarmup = 1
    Procs = 3
    NTimes = 1
    Benchmarks <- AllButOne
    Eager = 3
    Programs <- SuiteScripts
INVARIANTS
    TypeOK
    NothingLeftBehind
    CallsAgree
    ArgumentsLegal
    ValidationSound
    EveryReceiptChecked
    ClockCoversDelivery
    UnexpectedBounded
    RateCountsTransfers
    ErrorsReported
    PSyncApart
    TouchAlone
PROPERTY
    Termination
