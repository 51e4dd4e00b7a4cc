------------------------------ MODULE OmbPt2pt ------------------------------
(***************************************************************************)
(* c/mpi/pt2pt: the MPI point-to-point benchmarks, as the programs of      *)
(* their actors <<rank, thread>>; only osu_latency_mt has more than        *)
(* thread 0.  b is a benchmark, r a rank, p the partner, n the window      *)
(* size, s the message size, i the iteration, v whether -c is given.       *)
(***************************************************************************)
EXTENDS SuiteOps

CONSTANTS
    Nodes,              \* nodes of the congestion benchmarks, one rank on each
    SenderThreads,      \* osu_latency_mt -t ReceiverThreads:SenderThreads
    ReceiverThreads

ASSUME NodesAssumption == Nodes \in Nat /\ Nodes >= 2
ASSUME ThreadsAssumption == {SenderThreads, ReceiverThreads} \subseteq Nat \ {0}

FanOut == {"osu_bw_fan_out"}
Congestion == {"osu_bw_fan_in"} \cup FanOut
Paired == {"osu_mbw_mr", "osu_multi_lat"}
Partitioned == {"osu_partitioned_latency"}
Persistent == {"osu_latency_persistent", "osu_bw_persistent", "osu_bibw_persistent"}
                  \cup Partitioned

LatencyTest == {"osu_latency", "osu_latency_mt", "osu_latency_mp", "osu_multi_lat",
                "osu_latency_persistent"} \cup Partitioned
BandwidthTest == {"osu_bw", "osu_mbw_mr", "osu_bw_persistent"} \cup Congestion
BiBandwidthTest == {"osu_bibw", "osu_bibw_persistent"}

CPt2pt == LatencyTest \cup BandwidthTest \cup BiBandwidthTest

PairCount(b) == IF b \in Paired THEN 2 ELSE 1

CPt2ptRanks(b) == 0 .. (IF b \in Congestion THEN Nodes ELSE 2 * PairCount(b)) - 1

IsSender(b, r) ==
    IF b \in Congestion THEN (b \in FanOut) = (r = 0) ELSE r < PairCount(b)

Partner(b, r) == IF IsSender(b, r) THEN r + PairCount(b) ELSE r - PairCount(b)

\* FAN->ranks_queue: node 0 deals with every other node, those only with node 0.
RanksQueue(r) == IF r = 0 THEN [k \in 1 .. Nodes - 1 |-> k] ELSE <<0>>

ThreadCount(b, r) ==
    IF b # "osu_latency_mt" THEN 1
    ELSE IF IsSender(b, r) THEN SenderThreads ELSE ReceiverThreads

CPt2ptActors(b) == {a \in CPt2ptRanks(b) \X (0 .. SenderThreads + ReceiverThreads) :
                        a[2] < ThreadCount(b, a[1])}

-----------------------------------------------------------------------------
\* One exchange, as one side makes it.
LatencySender(p, s)   == StartClock \o Send(p, "ping", s) \o Recv(p, "pong", s) \o StopClock
LatencyReceiver(p, s) == Recv(p, "ping", s) \o Send(p, "pong", s)

\* Persistent requests have one tag for both directions.
LatencySenderPersistent(p, s)   == StartClock \o Send(p, "ping", s) \o Recv(p, "ping", s) \o StopClock
LatencyReceiverPersistent(p, s) == Recv(p, "ping", s) \o Send(p, "ping", s)

PartitionedLatencySender(p, s)   == StartClock \o Send(p, "ping", s) \o Recv(p, "ping", s) \o StopClock
PartitionedLatencyReceiver(p, s) == Recv(p, "ping", s) \o Send(p, "ping", s)

\* The clock is stopped when the sends are complete, before the reply (faulty).
BandwidthSenderNoReply(p, n, s) ==
    StartClock \o Times(n, ISend(p, "ping", s)) \o Wait("isend")
        \o StopClock \o Recv(p, "pong", ReplySize)

BandwidthSender(p, n, s) ==
    StartClock \o Times(n, ISend(p, "ping", s)) \o Wait("isend")
        \o Recv(p, "pong", ReplySize) \o StopClock

\* The reply leaves before the window is received, let alone posted (faulty).
BandwidthReceiverEarly(p, n, s) ==
    Send(p, "pong", ReplySize) \o Times(n, IRecv(p, "ping", s)) \o Wait("irecv")

\* The window is not waited for (faulty).
BandwidthReceiverNoWait(p, n, s) ==
    Times(n, IRecv(p, "ping", s)) \o Send(p, "pong", ReplySize)

\* The reply is as long as the messages (faulty).
BandwidthReceiverFullReply(p, n, s) ==
    Times(n, IRecv(p, "ping", s)) \o Wait("irecv") \o Send(p, "pong", s)

BandwidthReceiver(p, n, s) ==
    Times(n, IRecv(p, "ping", s)) \o Wait("irecv") \o Send(p, "pong", ReplySize)

BandwidthSenderPersistent(p, n, s)   == BandwidthSender(p, n, s)
BandwidthReceiverPersistent(p, n, s) == BandwidthReceiver(p, n, s)

\* One answer will do (faulty).
CongestionSenderOneAnswer(queue, n, s) ==
    LET WindowTo(p) == Times(n, ISend(p, "ping", s)) IN
    StartClock \o ForEach(queue, WindowTo) \o Wait("isend")
        \o Recv(Head(queue), "pong", ReplySize) \o StopClock

CongestionSender(queue, n, s) ==
    LET WindowTo(p) == Times(n, ISend(p, "ping", s))
        AnswerOf(p) == Recv(p, "pong", ReplySize)
    IN  StartClock \o ForEach(queue, WindowTo) \o Wait("isend")
            \o ForEach(queue, AnswerOf) \o StopClock

CongestionReceiver(queue, n, s) ==
    LET WindowOf(p) == Times(n, IRecv(p, "ping", s))
        AnswerTo(p) == Send(p, "pong", ReplySize)
    IN  ForEach(queue, WindowOf) \o Wait("irecv") \o ForEach(queue, AnswerTo)

BiBandwidthSender(p, n, s) ==
    StartClock \o Times(n, ISend(p, "ping", s) \o IRecv(p, "pong", s))
        \o Wait("isend") \o Wait("irecv") \o StopClock

BiBandwidthReceiver(p, n, s) ==
    Times(n, IRecv(p, "ping", s) \o ISend(p, "pong", s)) \o Wait("irecv") \o Wait("isend")

BiBandwidthSenderPersistent(p, n, s) ==
    StartClock \o Times(n, ISend(p, "ping", s)) \o Times(n, IRecv(p, "ping", s))
        \o Wait("isend") \o Wait("irecv") \o StopClock

BiBandwidthReceiverPersistent(p, n, s) ==
    Times(n, IRecv(p, "ping", s)) \o Times(n, ISend(p, "ping", s))
        \o Wait("irecv") \o Wait("isend")

SenderExchange(b, r, n, s) ==
    LET p == Partner(b, r) IN
    CASE b \in Partitioned -> PartitionedLatencySender(p, s)
      [] b \in (LatencyTest \cap Persistent) \ Partitioned -> LatencySenderPersistent(p, s)
      [] b \in LatencyTest \ Persistent -> LatencySender(p, s)
      [] b \in Congestion -> CongestionSender(RanksQueue(r), n, s)
      [] b \in BandwidthTest \cap Persistent -> BandwidthSenderPersistent(p, n, s)
      [] b \in BandwidthTest \ (Persistent \cup Congestion) -> BandwidthSender(p, n, s)
      [] b \in BiBandwidthTest \cap Persistent -> BiBandwidthSenderPersistent(p, n, s)
      [] b \in BiBandwidthTest \ Persistent -> BiBandwidthSender(p, n, s)

ReceiverExchange(b, r, n, s) ==
    LET p == Partner(b, r) IN
    CASE b \in Partitioned -> PartitionedLatencyReceiver(p, s)
      [] b \in (LatencyTest \cap Persistent) \ Partitioned -> LatencyReceiverPersistent(p, s)
      [] b \in LatencyTest \ Persistent -> LatencyReceiver(p, s)
      [] b \in Congestion -> CongestionReceiver(RanksQueue(r), n, s)
      [] b \in BandwidthTest \cap Persistent -> BandwidthReceiverPersistent(p, n, s)
      [] b \in BandwidthTest \ (Persistent \cup Congestion) -> BandwidthReceiver(p, n, s)
      [] b \in BiBandwidthTest \cap Persistent -> BiBandwidthReceiverPersistent(p, n, s)
      [] b \in BiBandwidthTest \ Persistent -> BiBandwidthReceiver(p, n, s)

-----------------------------------------------------------------------------
\* Threads meet, one of them sees to it that the processes meet, all go on.
SyncInterThreads(b) ==
    LET serial == <<[op |-> "elect", else |-> Len(Barrier)]>> \o Barrier
        meet == <<[op |-> "meet"]>>
    IN  IF b = "osu_latency_mt" THEN meet \o serial \o meet ELSE Barrier

\* The first measured iteration is the one after the first (faulty).
SenderCoreLate(b, r, n, s, v, i) ==
    Times(WarmupValidation(v) + 1, SenderExchange(b, r, n, s)) \o Given(i > Skip, Sample)

\* Of the repetitions of the exchange only the last one counts.
SenderCore(b, r, n, s, v, i) ==
    Times(WarmupValidation(v) + 1, SenderExchange(b, r, n, s)) \o Given(Measured(i), Sample)

ReceiverCore(b, r, n, s, v) == Times(WarmupValidation(v) + 1, ReceiverExchange(b, r, n, s))

\* partitioned_latency_overlap times its phases for other columns than SenderCore.
Overlap(b, r, s) ==
    (IF IsSender(b, r) THEN Send(Partner(b, r), "ping", s) \o Recv(Partner(b, r), "ping", s)
                       ELSE Recv(Partner(b, r), "ping", s) \o Send(Partner(b, r), "ping", s))
        \o Barrier

PrepareValidationBuffers(b, i) == Fill(i) \o SyncInterThreads(b)

\* The errors of the iterations before are forgotten (faulty).
UpdateErrorsAnew(b, r) == ClearErrors \o Given(~(b \in BandwidthTest /\ IsSender(b, r)), Check)

\* The sender of a unidirectional test has received nothing to compare.
UpdateValidationErrors(b, r) ==
    IF b \in BandwidthTest /\ IsSender(b, r) THEN ClearErrors ELSE Check

DefaultIterationsLoop(b, r, n, s, v) ==
    ForEach(Iterations, LAMBDA i :
        Given(v, PrepareValidationBuffers(b, i))
            \o (IF IsSender(b, r) THEN SenderCore(b, r, n, s, v, i) ELSE ReceiverCore(b, r, n, s, v))
            \o Given(v, UpdateValidationErrors(b, r)))

PartitionedIterationLoops(b, r, n, s, v) ==
    DefaultIterationsLoop(b, r, n, s, v)
        \o ForEach(Iterations, LAMBDA i :
              Given(v, PrepareValidationBuffers(b, i)) \o Times(WarmupValidation(v) + 1, Overlap(b, r, s))
                  \o Given(v, UpdateValidationErrors(b, r)))

\* Everyone keeps the errors that it has seen itself (faulty).
WindowErrorsLocal(b, r, n, s, v) ==
    ClearErrors
        \o (IF b \in Partitioned THEN PartitionedIterationLoops(b, r, n, s, v)
                                 ELSE DefaultIterationsLoop(b, r, n, s, v))
        \o Given(b # "osu_latency_mt", Reduce)

\* Threads do not add up: neither their errors nor their measurements.
WindowOfIterations(b, r, n, s, v) ==
    ClearErrors
        \o (IF b \in Partitioned THEN PartitionedIterationLoops(b, r, n, s, v)
                                 ELSE DefaultIterationsLoop(b, r, n, s, v))
        \o Given(v /\ b # "osu_latency_mt", SumErrors)
        \o Given(b # "osu_latency_mt", Reduce)

WindowSizes(b) == IF b \in LatencyTest THEN <<1>> ELSE Windows

RunIterationsForMsgSize(b, r, s, v) ==
    ForEach(WindowSizes(b), LAMBDA n : WindowOfIterations(b, r, n, s, v))

CPt2ptProgram(b, r, v) ==
    ForEach(Sizes, LAMBDA s :
        SyncInterThreads(b) \o RunIterationsForMsgSize(b, r, s, v)
            \o SyncInterThreads(b) \o Given(v, BreakOnErrors))
        \o Report

\* update_measurements: the messages that the total of a sender stands for.
CPt2ptReported(b) ==
    LET messages(n) == CASE b \in LatencyTest -> 2
                         [] b \in BandwidthTest -> n
                         [] b \in BiBandwidthTest -> 2 * n
        sum[k \in 0 .. Len(WindowSizes(b))] ==
            IF k = 0 THEN 0 ELSE sum[k - 1] + messages(WindowSizes(b)[k])
    IN  sum[Len(WindowSizes(b))] * Iters * Len(Sizes)
=============================================================================
