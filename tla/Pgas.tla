-------------------------------- MODULE Pgas --------------------------------
(***************************************************************************)
(* The benchmarks of c/openshmem, c/upc and c/upcxx, as the programs of    *)
(* their processing elements r.  Every program may access the memory of    *)
(* every other one; half of those of a benchmark of puts, gets or atomics  *)
(* do so, each that of its own partner.                                    *)
(***************************************************************************)
EXTENDS SuiteOps

OshmPt2pt == {"osu_oshm_put", "osu_oshm_put_nb", "osu_oshm_get", "osu_oshm_get_nb",
              "osu_oshm_put_bw", "osu_oshm_put_nb_bw", "osu_oshm_get_bw", "osu_oshm_get_nb_bw",
              "osu_oshm_put_overlap", "osu_oshm_get_overlap"}
OshmRate == {"osu_oshm_put_mr", "osu_oshm_put_mr_nb", "osu_oshm_get_mr_nb", "osu_oshm_atomics"}
OshmCollective == {"osu_oshm_barrier", "osu_oshm_broadcast", "osu_oshm_collect",
                   "osu_oshm_fcollect", "osu_oshm_reduce"}
UpcPt2pt == {"osu_upc_memget", "osu_upc_memput"}
UpcCollective == {"osu_upc_all_barrier", "osu_upc_all_broadcast", "osu_upc_all_exchange",
                  "osu_upc_all_gather", "osu_upc_all_gather_all", "osu_upc_all_reduce",
                  "osu_upc_all_scatter"}
UpcxxPt2pt == {"osu_upcxx_async_copy_get", "osu_upcxx_async_copy_put"}
UpcxxCollective == {"osu_upcxx_allgather", "osu_upcxx_alltoall", "osu_upcxx_bcast",
                    "osu_upcxx_gather", "osu_upcxx_reduce", "osu_upcxx_scatter"}

PgasPt2pt == OshmPt2pt \cup UpcPt2pt \cup UpcxxPt2pt
PgasCollective == OshmCollective \cup UpcCollective \cup UpcxxCollective
PgasBenchmarks == PgasPt2pt \cup OshmRate \cup PgasCollective

\* Two pairs where the benchmark takes any number of them.
PgasPairs(b) == IF b \in OshmRate THEN 2 ELSE 1

InRepeatedIntervals(call) ==
    ForEach(Iterations, LAMBDA i : StartClock \o call \o StopClock \o Given(Measured(i), Sample))

-----------------------------------------------------------------------------
\* OpenSHMEM.  shmem_barrier_all completes the caller's operations first.
Quiet == Flush("all")
BarrierAll == Quiet \o Sync

PutMem(p)    == Rma(p, FALSE)
PutMemNbi(p) == Rma(p, FALSE)
GetMem(p)    == Rma(p, TRUE) \o Flush("fetched")
GetMemNbi(p) == Rma(p, TRUE)

\* The next size begins at once (faulty).
OshmSizesApart(r, measure) ==
    Times(Len(Sizes), Touch \o BarrierAll \o Given(r = 0, measure)) \o BarrierAll \o BarrierAll

\* PE 0 measures; nobody writes its own buffers before both have met.
OshmSizes(r, measure) ==
    Times(Len(Sizes), Touch \o BarrierAll \o Given(r = 0, measure) \o BarrierAll)
        \o BarrierAll \o BarrierAll

OshmLoop(call) == ForEach(Iterations, LAMBDA i : StartOnce(i) \o call) \o StopClock \o Sample

OshmPut(r)      == OshmSizes(r, OshmLoop(PutMem(1) \o Quiet))
OshmPutNb(r)    == OshmSizes(r, OshmLoop(PutMemNbi(1) \o Quiet))
OshmGet(r)      == OshmSizes(r, OshmLoop(GetMem(1)))
OshmGetNb(r)    == OshmSizes(r, OshmLoop(GetMemNbi(1) \o Quiet))
OshmPutBw(r)    == OshmSizes(r, OshmLoop(PutMem(1)))
OshmPutNbBw(r)  == OshmSizes(r, OshmLoop(PutMemNbi(1) \o Quiet))
OshmGetBw(r)    == OshmSizes(r, OshmLoop(GetMem(1)))
OshmGetNbBw(r)  == OshmSizes(r, OshmLoop(GetMemNbi(1) \o Quiet))

\* Once to learn how long it takes, once with that much computation meanwhile.
OshmPutOverlap(r) ==
    OshmSizes(r, InRepeatedIntervals(PutMem(1) \o Quiet)
                     \o InRepeatedIntervals(PutMemNbi(1) \o Quiet))
OshmGetOverlap(r) ==
    OshmSizes(r, InRepeatedIntervals(GetMemNbi(1) \o Quiet)
                     \o InRepeatedIntervals(GetMemNbi(1) \o Quiet))

\* Reductions of what was measured, whose results everyone gets, over a pSync
\* array.
ToAll(psync) == Enter("all", 0, {}, psync) \o Leave

NxtPe(r, pairs) == IF r < pairs THEN r + pairs ELSE r - pairs

MessageRate(r, pairs, call) ==
    Touch \o BarrierAll
        \o Given(r < pairs, StartClock \o Times(Iters, call) \o Quiet \o StopClock \o Sample)

RateBenchmark(r, pairs, call) ==
    Touch \o Given(r < pairs, PutMem(NxtPe(r, pairs))) \o BarrierAll
        \o Times(Len(Sizes), MessageRate(r, pairs, call) \o ToAll("psync"))
        \o BarrierAll

OshmPutMr(r, pairs)   == RateBenchmark(r, pairs, PutMem(NxtPe(r, pairs)))
OshmPutMrNb(r, pairs) == RateBenchmark(r, pairs, PutMemNbi(NxtPe(r, pairs)))
OshmGetMrNb(r, pairs) == RateBenchmark(r, pairs, GetMemNbi(NxtPe(r, pairs)))

\* Atomics, of which the last three bring nothing back.
AtomicTest(r, pairs, call) ==
    Touch \o BarrierAll
        \o Given(r < pairs, StartClock \o Times(Iters, call) \o StopClock \o Sample)
        \o ToAll("psync1") \o ToAll("psync2")

Fetching(r, pairs) ==
    AtomicTest(r, pairs, Rma(NxtPe(r, pairs), TRUE) \o Flush("fetched"))
NotFetching(r, pairs) == AtomicTest(r, pairs, Rma(NxtPe(r, pairs), FALSE))

BenchmarkFadd(r, pairs)          == Fetching(r, pairs)
BenchmarkFaddLonglong(r, pairs)  == Fetching(r, pairs)
BenchmarkFinc(r, pairs)          == Fetching(r, pairs)
BenchmarkFincLonglong(r, pairs)  == Fetching(r, pairs)
BenchmarkSwap(r, pairs)          == Fetching(r, pairs)
BenchmarkSwapLonglong(r, pairs)  == Fetching(r, pairs)
BenchmarkCswap(r, pairs)         == Fetching(r, pairs)
BenchmarkCswapLonglong(r, pairs) == Fetching(r, pairs)
BenchmarkFetch(r, pairs)         == Fetching(r, pairs)
BenchmarkFetchLonglong(r, pairs) == Fetching(r, pairs)
BenchmarkAdd(r, pairs)           == NotFetching(r, pairs)
BenchmarkAddLonglong(r, pairs)   == NotFetching(r, pairs)
BenchmarkInc(r, pairs)           == NotFetching(r, pairs)
BenchmarkIncLonglong(r, pairs)   == NotFetching(r, pairs)
BenchmarkSet(r, pairs)           == NotFetching(r, pairs)
BenchmarkSetLonglong(r, pairs)   == NotFetching(r, pairs)

OshmAtomics(r, pairs) ==
    BarrierAll \o Touch \o Given(r < pairs, PutMem(NxtPe(r, pairs)))
        \o BenchmarkFadd(r, pairs) \o BenchmarkFinc(r, pairs)
        \o BenchmarkAdd(r, pairs) \o BenchmarkInc(r, pairs)
        \o BenchmarkCswap(r, pairs) \o BenchmarkSwap(r, pairs)
        \o BenchmarkSet(r, pairs) \o BenchmarkFetch(r, pairs)
        \o BenchmarkFaddLonglong(r, pairs) \o BenchmarkFincLonglong(r, pairs)
        \o BenchmarkAddLonglong(r, pairs) \o BenchmarkIncLonglong(r, pairs)
        \o BenchmarkCswapLonglong(r, pairs) \o BenchmarkSwapLonglong(r, pairs)
        \o BenchmarkSetLonglong(r, pairs) \o BenchmarkFetchLonglong(r, pairs)
        \o BarrierAll

-----------------------------------------------------------------------------
\* Collective operations.  Two pSync arrays take turns.
InTurn(i, odd, even) == IF i % 2 = 1 THEN odd ELSE even

OshmStatistics == ToAll("pSyncRed1") \o ToAll("pSyncRed2") \o ToAll("pSyncRed1")

OshmCall(kind, psync) == Enter(kind, 0, Everyone, psync) \o Leave

\* between: what separates the iterations.
OshmIterations(kind, odd, even, between) ==
    ForEach(Iterations, LAMBDA i :
        StartClock \o OshmCall(kind, InTurn(i, odd, even)) \o StopClock
            \o Given(Measured(i), Sample) \o between)

\* One array for all iterations (faulty).
OshmBarrierOneArray ==
    OshmIterations("all", "pSyncBarrier1", "pSyncBarrier1", <<>>) \o BarrierAll \o OshmStatistics

OshmBarrier ==
    OshmIterations("all", "pSyncBarrier1", "pSyncBarrier2", <<>>) \o BarrierAll \o OshmStatistics

OshmBroadcast ==
    Times(Len(Sizes),
        OshmIterations("from_root", "pSyncBcast1", "pSyncBcast2", BarrierAll)
            \o BarrierAll \o OshmStatistics)

OshmCollect ==
    Times(Len(Sizes),
        BarrierAll \o OshmIterations("all", "pSyncCollect1", "pSyncCollect2", BarrierAll)
            \o BarrierAll \o OshmStatistics) \o BarrierAll

OshmFcollect == OshmCollect

OshmReduce ==
    Times(Len(Sizes),
        BarrierAll \o OshmIterations("all", "pSyncRed1", "pSyncRed2", BarrierAll)
            \o OshmStatistics \o BarrierAll) \o BarrierAll

-----------------------------------------------------------------------------
\* UPC.  upc_barrier completes the caller's operations first; with SYNC_MODE
\* every collective operation waits for everyone.
UpcBarrier == Flush("all") \o Sync

UpcCall == Enter("all", 0, Everyone, "plain") \o Leave

UpcStatistics == Times(3, UpcCall)

UpcIterations(before) ==
    ForEach(Iterations, LAMBDA i :
        before \o StartClock \o UpcCall \o StopClock \o Given(Measured(i), Sample) \o UpcBarrier)

UpcSizes(before) == Times(Len(Sizes), UpcIterations(before) \o UpcBarrier \o UpcStatistics)

UpcAllBarrier ==
    UpcBarrier \o InRepeatedIntervals(UpcCall) \o UpcBarrier \o UpcStatistics \o UpcBarrier

UpcAllBroadcast == UpcSizes(<<>>)
UpcAllExchange  == UpcBarrier \o UpcSizes(<<>>) \o UpcBarrier
UpcAllGather    == UpcBarrier \o UpcSizes(<<>>)
UpcAllGatherAll == UpcBarrier \o UpcSizes(<<>>) \o UpcBarrier
UpcAllReduce    == UpcSizes(UpcBarrier)
UpcAllScatter   == UpcSizes(<<>>)

\* The sender meets its partner before the clock starts and before it stops.
UpcTransfers(r, barrier, call, end) ==
    LET measure == ForEach(Iterations, LAMBDA i : Given(i = Skip, barrier \o StartClock) \o call)
                       \o end \o barrier \o StopClock \o Sample
    IN  Times(Len(Sizes), Touch \o barrier \o (IF r = 0 THEN measure ELSE barrier \o barrier))

UpcMemget(r) == UpcTransfers(r, UpcBarrier, Rma(1, TRUE) \o Flush("fetched"), <<>>)
UpcMemput(r) == UpcTransfers(r, UpcBarrier, Rma(1, FALSE) \o Flush("all"), <<>>)

-----------------------------------------------------------------------------
\* UPC++.  barrier() completes nothing.
AsyncWait == Flush("all")

UpcxxCall(kind) == Enter(kind, 0, Everyone, "plain") \o Leave

UpcxxStatistics == Times(3, UpcxxCall("to_root"))

UpcxxProgram(kind) ==
    Sync \o Times(Len(Sizes),
              ForEach(Iterations, LAMBDA i :
                  StartClock \o UpcxxCall(kind) \o StopClock \o Given(Measured(i), Sample) \o Sync)
                \o Sync \o UpcxxStatistics \o Sync)

UpcxxAllgather == UpcxxProgram("all")
UpcxxAlltoall  == UpcxxProgram("all")
UpcxxBcast     == UpcxxProgram("from_root")
UpcxxScatter   == UpcxxProgram("from_root")
UpcxxGather    == UpcxxProgram("to_root")
UpcxxReduce    == UpcxxProgram("to_root")

UpcxxAsyncCopyGet(r) ==
    Sync \o Sync \o UpcTransfers(r, Sync, Rma(1, TRUE), AsyncWait) \o Sync
UpcxxAsyncCopyPut(r) ==
    Sync \o Sync \o UpcTransfers(r, Sync, Rma(1, FALSE), AsyncWait) \o Sync

-----------------------------------------------------------------------------
PgasProgram(b, r) ==
    CASE b = "osu_oshm_put" -> OshmPut(r)
      [] b = "osu_oshm_put_nb" -> OshmPutNb(r)
      [] b = "osu_oshm_get" -> OshmGet(r)
      [] b = "osu_oshm_get_nb" -> OshmGetNb(r)
      [] b = "osu_oshm_put_bw" -> OshmPutBw(r)
      [] b = "osu_oshm_put_nb_bw" -> OshmPutNbBw(r)
      [] b = "osu_oshm_get_bw" -> OshmGetBw(r)
      [] b = "osu_oshm_get_nb_bw" -> OshmGetNbBw(r)
      [] b = "osu_oshm_put_overlap" -> OshmPutOverlap(r)
      [] b = "osu_oshm_get_overlap" -> OshmGetOverlap(r)
      [] b = "osu_oshm_put_mr" -> OshmPutMr(r, PgasPairs(b))
      [] b = "osu_oshm_put_mr_nb" -> OshmPutMrNb(r, PgasPairs(b))
      [] b = "osu_oshm_get_mr_nb" -> OshmGetMrNb(r, PgasPairs(b))
      [] b = "osu_oshm_atomics" -> OshmAtomics(r, PgasPairs(b))
      [] b = "osu_oshm_barrier" -> OshmBarrier
      [] b = "osu_oshm_broadcast" -> OshmBroadcast
      [] b = "osu_oshm_collect" -> OshmCollect
      [] b = "osu_oshm_fcollect" -> OshmFcollect
      [] b = "osu_oshm_reduce" -> OshmReduce
      [] b = "osu_upc_memget" -> UpcMemget(r)
      [] b = "osu_upc_memput" -> UpcMemput(r)
      [] b = "osu_upc_all_barrier" -> UpcAllBarrier
      [] b = "osu_upc_all_broadcast" -> UpcAllBroadcast
      [] b = "osu_upc_all_exchange" -> UpcAllExchange
      [] b = "osu_upc_all_gather" -> UpcAllGather
      [] b = "osu_upc_all_gather_all" -> UpcAllGatherAll
      [] b = "osu_upc_all_reduce" -> UpcAllReduce
      [] b = "osu_upc_all_scatter" -> UpcAllScatter
      [] b = "osu_upcxx_async_copy_get" -> UpcxxAsyncCopyGet(r)
      [] b = "osu_upcxx_async_copy_put" -> UpcxxAsyncCopyPut(r)
      [] b = "osu_upcxx_allgather" -> UpcxxAllgather
      [] b = "osu_upcxx_alltoall" -> UpcxxAlltoall
      [] b = "osu_upcxx_bcast" -> UpcxxBcast
      [] b = "osu_upcxx_gather" -> UpcxxGather
      [] b = "osu_upcxx_reduce" -> UpcxxReduce
      [] b = "osu_upcxx_scatter" -> UpcxxScatter

\* The operations of one element that its times are divided by.
PgasReported(b) ==
    CASE b \in {"osu_oshm_barrier", "osu_upc_all_barrier"} -> Iters
      [] b \in {"osu_oshm_put_overlap", "osu_oshm_get_overlap"} -> 2 * Iters * Len(Sizes)
      [] b = "osu_oshm_atomics" -> 16 * Iters
      [] OTHER -> Iters * Len(Sizes)
=============================================================================
