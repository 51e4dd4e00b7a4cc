\* osu_latency_mt with its default numbers of threads.
SPECIFICATION Spec
CONSTANTS
    Sizes <- TwoSizes
    Windows <- WindowOfTwo
    Skip = 1
    Iters = 1
    Warmup = 1
    Nodes = 3
    SenderThreads = 1
    ReceiverThreads = 2
    InitialWarmup = 1
    Procs = 3
    NTimes = 1
    Benchmarks <- MultiThreaded
    Eager = 3
    Programs <- SuiteScripts
PROPERTY
    Termination
CHECK_DEADLOCK FALSE
