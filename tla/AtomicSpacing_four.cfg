\* three accessing ranks, strides 0, 1 and 2 in a memory of eight words: a
\* remainder; one repetition after one of warm-up
SPECIFICATION Spec
CONSTANTS
    Size = 4
    NTimes = 1
    WARMUP = 1
    BUFFER_SIZE = 8
    STRIDE_STEP = 1
    ITERATIONS = 2
INVARIANTS
    DisplacementInWindow
    OneMeasurementAtATime
    AllStridesMeasured
