----------------------------- MODULE OtherPt2pt -----------------------------
(***************************************************************************)
(* The point-to-point benchmarks written in Java (java/mpi/pt2pt), in      *)
(* Python (python/mpi/pt2pt) and for NCCL or RCCL (c/xccl/pt2pt).  All     *)
(* but osu_multi_lat.py run on ranks 0 and 1 and have one window size n;   *)
(* Java measures all iterations with one reading of the clock before and   *)
(* one after them.                                                         *)
(***************************************************************************)
EXTENDS SuiteOps

CONSTANT
    InitialWarmup       \* INITIAL_WARMUP of the Java benchmarks

ASSUME InitialWarmupAssumption == InitialWarmup \in Nat

JavaLatency == {"OSULatency"}
JavaBandwidth == {"OSUBandwidth", "OSUBandwidthOMPI"}
JavaBiBandwidth == {"OSUBiBandwidth", "OSUBiBandwidthOMPI"}
JavaPt2pt == JavaLatency \cup JavaBandwidth \cup JavaBiBandwidth

PythonPairs == 2        \* pairs of osu_multi_lat.py
PythonLatencies == {"py_latency", "py_multi_lat"}
PythonPt2pt == PythonLatencies \cup {"py_bw", "py_bibw"}
XcclPt2pt == {"osu_xccl_latency", "osu_xccl_bw", "osu_xccl_bibw"}

OtherPt2ptBenchmarks == JavaPt2pt \cup PythonPt2pt \cup XcclPt2pt

WarmupSize == 1024

StopOnce(i)  == Given(LastOne(i), StopClock \o Sample)

\* The pattern of the Java benchmarks is the same in every iteration.
JavaFill(v)  == Given(v, Fill(0))
JavaCheck(v) == Given(v, Check)

-----------------------------------------------------------------------------
\* runWarmupLoop of all but OSUBandwidth, which never calls its own.
JavaWarmupLoop(r) ==
    Times(InitialWarmup,
        IF r = 0 THEN Recv(1, "998", WarmupSize) \o Send(1, "998", WarmupSize)
                 ELSE Send(0, "998", WarmupSize) \o Recv(0, "998", WarmupSize))

\* What follows the iterations of a size, of any Java benchmark.
JavaSizes(loop(_, _)) ==
    ForEach(Sizes, LAMBDA s : ForEach(Iterations, LAMBDA i : loop(s, i)) \o Barrier)

OSULatency(r, v) ==
    LET loop(s, i) ==
          IF r = 0
            THEN StartOnce(i) \o JavaFill(v) \o Send(1, "998", s)
                     \o JavaFill(v) \o Recv(1, "998", s) \o JavaCheck(v) \o StopOnce(i)
            ELSE JavaFill(v) \o Recv(0, "998", s) \o JavaCheck(v)
                     \o JavaFill(v) \o Send(0, "998", s)
    IN  JavaWarmupLoop(r) \o JavaSizes(loop)

OSUBandwidth(r, n, v) ==
    LET loop(s, i) ==
          IF r = 0
            THEN StartOnce(i) \o JavaFill(v) \o Times(n, ISend(1, "100", s)) \o Wait("isend")
                     \o JavaFill(v) \o Recv(1, "101", ReplySize) \o StopOnce(i)
            ELSE JavaFill(v) \o Times(n, IRecv(0, "100", s)) \o Wait("irecv") \o JavaCheck(v)
                     \o JavaFill(v) \o Send(0, "101", ReplySize)
    IN  JavaSizes(loop)

OSUBandwidthOMPI(r, n, v) == JavaWarmupLoop(r) \o OSUBandwidth(r, n, v)

OSUBiBandwidth(r, n, v) ==
    LET loop(s, i) ==
          IF r = 0
            THEN StartOnce(i) \o JavaFill(v) \o Times(n, IRecv(1, "100", s))
                     \o Times(n, ISend(1, "101", s)) \o Wait("isend") \o Wait("irecv")
                     \o JavaCheck(v) \o StopOnce(i)
            ELSE JavaFill(v) \o Times(n, IRecv(0, "101", s)) \o Times(n, ISend(0, "100", s))
                     \o Wait("irecv") \o Wait("isend") \o JavaCheck(v)
    IN  JavaWarmupLoop(r) \o JavaSizes(loop)

OSUBiBandwidthOMPI(r, n, v) == OSUBiBandwidth(r, n, v)

-----------------------------------------------------------------------------
\* Python: one interval for all measured iterations, which ends after the loop.
PythonPingPong(p, first) ==
    LET loop(s, i) ==
          StartOnce(i) \o (IF first THEN Send(p, "1", s) \o Recv(p, "1", s)
                                    ELSE Recv(p, "1", s) \o Send(p, "1", s))
    IN  ForEach(Sizes, LAMBDA s :
            Barrier \o ForEach(Iterations, LAMBDA i : loop(s, i))
                \o StopClock \o Sample \o Reduce)

PythonLatency(r) == PythonPingPong(1 - r, r = 0)

PythonMultiLat(r) ==
    IF r < PythonPairs THEN PythonPingPong(r + PythonPairs, TRUE)
                       ELSE PythonPingPong(r - PythonPairs, FALSE)

PythonBandwidth(r, n) ==
    LET loop(s, i) ==
          IF r = 0
            THEN StartOnce(i) \o Times(n, ISend(1, "100", s)) \o Wait("isend")
                     \o Recv(1, "101", ReplySize)
            ELSE Times(n, IRecv(0, "100", s)) \o Wait("irecv") \o Send(0, "101", ReplySize)
    IN  ForEach(Sizes, LAMBDA s :
            Barrier \o ForEach(Iterations, LAMBDA i : loop(s, i))
                \o Given(r = 0, StopClock \o Sample))

PythonBiBandwidth(r, n) ==
    LET loop(s, i) ==
          IF r = 0
            THEN StartOnce(i) \o Times(n, IRecv(1, "10", s)) \o Times(n, ISend(1, "100", s))
                     \o Wait("isend") \o Wait("irecv")
            ELSE Times(n, IRecv(0, "100", s)) \o Times(n, ISend(0, "10", s))
                     \o Wait("isend") \o Wait("irecv")
    IN  ForEach(Sizes, LAMBDA s :
            Barrier \o ForEach(Iterations, LAMBDA i : loop(s, i))
                \o Given(r = 0, StopClock \o Sample))

-----------------------------------------------------------------------------
\* NCCL: messages have no tags, the stream is waited for as a whole, and the
\* calls of a group take effect together at its end.
SynchronizeStream == Wait("isend") \o Wait("irecv")

XcclTimed(i, s) == Given(Measured(i), StartClock) \o s \o Given(Measured(i), StopClock \o Sample)

XcclLatency(r) ==
    LET loop(s, i) ==
          IF r = 0
            THEN XcclTimed(i, ISend(1, "", s) \o SynchronizeStream
                                  \o IRecv(1, "", s) \o SynchronizeStream)
            ELSE IRecv(0, "", s) \o SynchronizeStream \o ISend(0, "", s) \o SynchronizeStream
    IN  ForEach(Sizes, LAMBDA s : Barrier \o ForEach(Iterations, LAMBDA i : loop(s, i)))

\* Nobody waits for the reply before the next iteration's stream does.
XcclBandwidth(r, n) ==
    LET loop(s, i) ==
          IF r = 0
            THEN XcclTimed(i, Times(n, ISend(1, "", s)) \o SynchronizeStream
                                  \o IRecv(1, "", ReplySize))
            ELSE Times(n, IRecv(0, "", s)) \o SynchronizeStream \o ISend(0, "", ReplySize)
    IN  ForEach(Sizes, LAMBDA s : ForEach(Iterations, LAMBDA i : loop(s, i)))

XcclBiBandwidth(r, n) ==
    LET group(s) == Times(n, IRecv(1 - r, "", s)) \o Times(n, ISend(1 - r, "", s))
    IN  ForEach(Sizes, LAMBDA s : ForEach(Iterations, LAMBDA i :
            XcclTimed(i, group(s) \o SynchronizeStream)))

-----------------------------------------------------------------------------
OtherPt2ptProgram(b, r, v) ==
    LET n == Head(Windows) IN
    CASE b = "OSULatency" -> OSULatency(r, v)
      [] b = "OSUBandwidth" -> OSUBandwidth(r, n, v)
      [] b = "OSUBandwidthOMPI" -> OSUBandwidthOMPI(r, n, v)
      [] b = "OSUBiBandwidth" -> OSUBiBandwidth(r, n, v)
      [] b = "OSUBiBandwidthOMPI" -> OSUBiBandwidthOMPI(r, n, v)
      [] b = "py_latency" -> PythonLatency(r)
      [] b = "py_multi_lat" -> PythonMultiLat(r)
      [] b = "py_bw" -> PythonBandwidth(r, n)
      [] b = "py_bibw" -> PythonBiBandwidth(r, n)
      [] b = "osu_xccl_latency" -> XcclLatency(r)
      [] b = "osu_xccl_bw" -> XcclBandwidth(r, n)
      [] b = "osu_xccl_bibw" -> XcclBiBandwidth(r, n)

OtherPt2ptReported(b) ==
    LET n == Head(Windows) IN
    Iters * Len(Sizes) *
        (CASE b \in {"OSULatency", "osu_xccl_latency"} \cup PythonLatencies -> 2
           [] b \in JavaBandwidth \cup {"py_bw", "osu_xccl_bw"} -> n
           [] b \in JavaBiBandwidth \cup {"py_bibw", "osu_xccl_bibw"} -> 2 * n)
=============================================================================
