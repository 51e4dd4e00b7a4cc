--------------------------- MODULE OmbCollective ---------------------------
(***************************************************************************)
(* c/mpi/collective: the blocking, non-blocking, persistent and            *)
(* neighbourhood collective benchmarks, as the programs of their ranks.    *)
(* opt is the record of the options -c (validate), -l (in_place) and       *)
(* -k rotate (rotate).  n is RUN->elem_count: the message sizes of these   *)
(* benchmarks are counted in elements.                                     *)
(***************************************************************************)
EXTENDS SuiteOps

\* For every benchmark get_type_from_subtype(OMB_SUBTYPE).
Blocking ==
    [osu_allgather |-> "all_gather", osu_allgatherv |-> "all_gather",
     osu_allreduce |-> "all_reduce",
     osu_alltoall |-> "alltoall", osu_alltoallv |-> "alltoall",
     osu_alltoallw |-> "alltoall",
     osu_barrier |-> "barrier",
     osu_bcast |-> "bcast",
     osu_gather |-> "gather", osu_gatherv |-> "gather",
     osu_reduce |-> "reduce",
     osu_reduce_scatter |-> "reduce_scatter",
     osu_reduce_scatter_block |-> "reduce_scatter",
     osu_scatter |-> "scatter", osu_scatterv |-> "scatter"]

NonBlocking ==
    [osu_iallgather |-> "all_gather", osu_iallgatherv |-> "all_gather",
     osu_iallreduce |-> "all_reduce",
     osu_ialltoall |-> "alltoall", osu_ialltoallv |-> "alltoall",
     osu_ialltoallw |-> "alltoall",
     osu_ibarrier |-> "barrier",
     osu_ibcast |-> "bcast",
     osu_igather |-> "gather", osu_igatherv |-> "gather",
     osu_ireduce |-> "reduce",
     osu_ireduce_scatter |-> "reduce_scatter",
     osu_ireduce_scatter_block |-> "reduce_scatter",
     osu_iscatter |-> "scatter", osu_iscatterv |-> "scatter"]

PersistentColl ==
    [osu_allgather_persistent |-> "all_gather", osu_allgatherv_persistent |-> "all_gather",
     osu_allreduce_persistent |-> "all_reduce",
     osu_alltoall_persistent |-> "alltoall", osu_alltoallv_persistent |-> "alltoall",
     osu_alltoallw_persistent |-> "alltoall",
     osu_barrier_persistent |-> "barrier",
     osu_bcast_persistent |-> "bcast",
     osu_gather_persistent |-> "gather", osu_gatherv_persistent |-> "gather",
     osu_reduce_persistent |-> "reduce",
     osu_reduce_scatter_persistent |-> "reduce_scatter",
     osu_reduce_scatter_block_persistent |-> "reduce_scatter",
     osu_scatter_persistent |-> "scatter", osu_scatterv_persistent |-> "scatter"]

BlockingNeighborhood ==
    [osu_neighbor_allgather |-> "nhbr_gather", osu_neighbor_allgatherv |-> "nhbr_gather",
     osu_neighbor_alltoall |-> "nhbr_alltoall", osu_neighbor_alltoallv |-> "nhbr_alltoall",
     osu_neighbor_alltoallw |-> "nhbr_alltoall"]

NonBlockingNeighborhood ==
    [osu_ineighbor_allgather |-> "nhbr_gather", osu_ineighbor_allgatherv |-> "nhbr_gather",
     osu_ineighbor_alltoall |-> "nhbr_alltoall",
     osu_ineighbor_alltoallv |-> "nhbr_alltoall",
     osu_ineighbor_alltoallw |-> "nhbr_alltoall"]

Neighborhood == DOMAIN BlockingNeighborhood \cup DOMAIN NonBlockingNeighborhood

CCollective == DOMAIN Blocking \cup DOMAIN NonBlocking \cup DOMAIN PersistentColl \cup Neighborhood

CollectiveType ==
    [b \in CCollective |->
        CASE b \in DOMAIN Blocking -> Blocking[b]
          [] b \in DOMAIN NonBlocking -> NonBlocking[b]
          [] b \in DOMAIN PersistentColl -> PersistentColl[b]
          [] b \in DOMAIN BlockingNeighborhood -> BlockingNeighborhood[b]
          [] b \in DOMAIN NonBlockingNeighborhood -> NonBlockingNeighborhood[b]]

\* The option table lets only some of the benchmarks have -l and -k.
TakesInPlace(b) == CollectiveType[b] \notin {"bcast", "barrier", "nhbr_gather", "nhbr_alltoall"}

TakesRootRank(b) ==
    b \in DOMAIN Blocking \cup DOMAIN NonBlocking /\ CollectiveType[b] \in {"gather", "scatter", "reduce"}

\* OMB_IRREGULAR_BLOCK.
IrregularBlock ==
    {"osu_reduce_scatter_block", "osu_ireduce_scatter_block", "osu_reduce_scatter_block_persistent"}

-----------------------------------------------------------------------------
\* The operation as the library sees it.
KindOf(type) ==
    CASE type \in {"all_gather", "all_reduce", "alltoall", "reduce_scatter"} -> "all"
      [] type \in {"nhbr_gather", "nhbr_alltoall"} -> "neighbours"
      [] type \in {"bcast", "scatter"} -> "from_root"
      [] type \in {"gather", "reduce"} -> "to_root"
      [] type = "barrier" -> "barrier"

\* Of those with a root all but the broadcast take RUN->root_rank.
RootRank(opt, i) == IF opt.rotate THEN i % Procs ELSE 0

RootOf(b, opt, i) == IF CollectiveType[b] = "bcast" THEN 0 ELSE RootRank(opt, i)

\* The root left over from the size before, the k-th being prepared.
StaleRoot(b, opt, k) == IF k = 1 THEN 0 ELSE RootOf(b, opt, Skip + Iters - 1)

\* The in-place buffer is set on the ranks that are not the root (faulty).
InPlaceOnTheOthers(type, root, r, active) ==
    IF type = "reduce"
      THEN [send |-> IF r # root THEN "in_place" ELSE "buffer", recv |-> "buffer"]
      ELSE active

\* RUN->sendbuf_active and RUN->recvbuf_active of rank r, changed for a root.
\* The scatter never takes back what it has set, the gather takes back half.
OmbApplyMpiInPlace(type, root, r, active) ==
    CASE type = "scatter" /\ r = root -> [send |-> "buffer", recv |-> "in_place"]
      [] type \in {"alltoall", "all_gather", "all_reduce", "reduce_scatter"}
            -> [active EXCEPT !.send = "in_place"]
      [] type = "gather" /\ r = root -> [send |-> "in_place", recv |-> "buffer"]
      [] type = "gather" /\ r # root -> [active EXCEPT !.recv = "buffer"]
      [] type = "reduce" ->
            [send |-> IF r = root THEN "in_place" ELSE "buffer", recv |-> "buffer"]
      [] OTHER -> active

\* What MPI says of MPI_IN_PLACE: it stands for the root's own part, or for
\* everybody's.
LegalInPlace(kind, root, r, active) ==
    CASE kind = "to_root" -> r = root \/ active.send = "buffer"
      [] kind = "from_root" -> r = root \/ active.recv = "buffer"
      [] OTHER -> active.recv = "buffer"

InPlace(b, root) == <<[op |-> "in_place", type |-> CollectiveType[b], root |-> root]>>

\* BENCH->recv_counts[q] for n elements; of fewer elements than ranks the first
\* ranks have one each.
RecvCount(b, q, n) ==
    IF b \in IrregularBlock
      THEN IF n > Procs THEN n \div Procs ELSE 0
      ELSE n \div Procs + (IF q < n % Procs THEN 1 ELSE 0)

\* The ranks to which a call can bring data.  A block is called with
\* BENCH->portion, which is not 0 for as many elements as ranks.
Receivers(b, n) ==
    {q \in Everyone :
        CASE CollectiveType[b] = "barrier" -> FALSE
          [] b \in IrregularBlock -> n \div Procs # 0
          [] CollectiveType[b] = "reduce_scatter" -> RecvCount(b, q, n) # 0
          [] OTHER -> TRUE}

\* OMB_MPI_CALL and OMB_MPI_WAIT of the benchmark.
Call(b, root, n) ==
    Enter(KindOf(CollectiveType[b]), root, Receivers(b, n),
          IF b \in DOMAIN PersistentColl THEN "persistent"
          ELSE IF CollectiveType[b] \in {"bcast", "barrier"} THEN "plain" ELSE "in_place")
        \o Leave

\* invoke_latency_step, and invoke_overlap_step with what it computes left out.
LatencyStep(b, n) == [root \in 0 .. Procs - 1 |-> StartClock \o Call(b, root, n) \o StopClock]

OverlapStep(b, n) == [root \in 0 .. Procs - 1 |-> StartClock \o Call(b, root, n) \o StopClock]

\* OMB_MPI_COLL_INIT.  One of them is the blocking call, which makes no request.
CollInit(b, root, n) ==
    IF b = "osu_reduce_scatter_block_persistent"
      THEN Enter("all", root, Receivers(b, n), "in_place") \o Leave
      ELSE <<[op |-> "init", kind |-> KindOf(CollectiveType[b]), root |-> root]>>

RequestFree == <<[op |-> "free"]>>

-----------------------------------------------------------------------------
\* The buffers get the pattern of the next iteration (faulty).
ValidationWarmupsAhead(b, root, i, n) ==
    Times(Warmup, LatencyStep(b, n)[root]) \o Fill(i + 1) \o Barrier

RunValidationWarmups(b, root, i, n) ==
    Times(Warmup, LatencyStep(b, n)[root]) \o Fill(i) \o Barrier

\* validate_reduce_scatter goes from the sum of the counts of the ranks before
\* r to the count of r itself.  The counts do not grow with the rank, so that
\* there is something between the two on rank 0 alone.
ComparesPart(b, r, n) ==
    /\ RecvCount(b, r, n) # 0
    /\ MapThenSumSet(LAMBDA q : RecvCount(b, q, n), 0 .. r - 1) < RecvCount(b, r, n)

\* Only the root of a reduction or a gather has received anything.
Compares(b, root, r, n) ==
    /\ CollectiveType[b] # "barrier"
    /\ CollectiveType[b] \in {"reduce", "gather"} => r = root
    /\ CollectiveType[b] = "reduce_scatter" => ComparesPart(b, r, n)

\* Nobody looks at what a gather has brought (faulty).
AccumulateErrorsNoGather(b, root, r, n) ==
    Given(Compares(b, root, r, n) /\ CollectiveType[b] # "gather", Check)

AccumulateLocalErrors(b, root, r, n) == Given(Compares(b, root, r, n), Check)

\* step[root]: the call that is measured.
RunIterationsCore(b, r, n, opt, step) ==
    ForEach(Iterations, LAMBDA i :
        LET root == RootRank(opt, i) IN
        Given(opt.validate, RunValidationWarmups(b, RootOf(b, opt, i), i, n))
            \o Given(opt.in_place, InPlace(b, root))
            \o step[RootOf(b, opt, i)]
            \o Barrier
            \o Given(opt.validate, AccumulateLocalErrors(b, root, r, n))
            \o Given(Measured(i), Sample))

\* The reductions of minimum, maximum and average are written as one.
RunBlockingForMsgSize(b, r, k, opt) ==
    LET persistent == b \in DOMAIN PersistentColl
        root == StaleRoot(b, opt, k)
        n == Sizes[k]
    IN  Given(opt.in_place, InPlace(b, root))
            \o Given(persistent, CollInit(b, root, n) \o Barrier)
            \o RunIterationsCore(b, r, n, opt, LatencyStep(b, n))
            \o Reduce
            \o Given(opt.validate, SumErrors)
            \o Given(persistent, RequestFree)
            \o Barrier

RunNonBlockingForMsgSize(b, r, n, opt) ==
    RunIterationsCore(b, r, n, opt, LatencyStep(b, n))
        \o Given(opt.validate, SumErrors)
        \o Barrier
        \o RunIterationsCore(b, r, n, opt, OverlapStep(b, n))
        \o Given(opt.validate, SumErrors)
        \o Reduce \o Barrier        \* calculate_and_print_stats

IsNonBlocking(b) == b \in DOMAIN NonBlocking \cup DOMAIN NonBlockingNeighborhood

RunBenchmarkForMsgSize(b, r, k, opt) ==
    (IF IsNonBlocking(b) THEN RunNonBlockingForMsgSize(b, r, Sizes[k], opt)
                         ELSE RunBlockingForMsgSize(b, r, k, opt))
        \o Barrier

\* omb_neighborhood_create and create_dist_graph_and_measure: the grid, its
\* neighbours as a graph, the time that took.
CreateDistGraph ==
    LET create == Enter("all", 0, {}, "plain") \o Leave IN
    create \o Barrier \o create \o Reduce

\* The barrier has no message sizes.
CollectiveSizes(b) == IF CollectiveType[b] = "barrier" THEN <<1>> ELSE [k \in DOMAIN Sizes |-> k]

CCollectiveProgram(b, r, opt) ==
    Given(b \in Neighborhood, CreateDistGraph)
        \o ForEach(CollectiveSizes(b), LAMBDA k :
              Barrier \o RunBenchmarkForMsgSize(b, r, k, opt) \o Barrier \o BreakOnErrors)
        \o Report

CCollectiveReported(b) ==
    Iters * Len(CollectiveSizes(b)) * (IF IsNonBlocking(b) THEN 2 ELSE 1)
=============================================================================
