-------------------------- MODULE OtherCollective --------------------------
(***************************************************************************)
(* The collective benchmarks written in Java (java/mpi/collective), in     *)
(* Python (python/mpi/collective) and for NCCL or RCCL                     *)
(* (c/xccl/collective), as the programs of their ranks.  The root is       *)
(* always 0.                                                               *)
(***************************************************************************)
EXTENDS OtherPt2pt

JavaCollective == {"OSUAllReduce", "OSUAllgather", "OSUAllgatherv", "OSUAlltoall",
                   "OSUAlltoallv", "OSUBarrier", "OSUBcast", "OSUGather", "OSUGatherv",
                   "OSUReduce", "OSUReduceScatter", "OSUScatter", "OSUScatterv"}

PythonCollective == {"py_allgather", "py_allgatherv", "py_allreduce", "py_alltoall",
                     "py_alltoallv", "py_barrier", "py_bcast", "py_gather", "py_gatherv",
                     "py_reduce", "py_reduce_scatter", "py_scatter", "py_scatterv"}

XcclCollective == {"osu_xccl_allgather", "osu_xccl_allreduce", "osu_xccl_alltoall",
                   "osu_xccl_bcast", "osu_xccl_reduce", "osu_xccl_reduce_scatter"}

OtherCollectiveBenchmarks == JavaCollective \cup PythonCollective \cup XcclCollective

Collective(kind) == Enter(kind, 0, Everyone, "plain") \o Leave

-----------------------------------------------------------------------------
\* Java.  checking: this rank compares what it has received when -c is given.
JavaLoop(call, v, checking) ==
    ForEach(Iterations, LAMBDA i :
        StartOnce(i) \o JavaFill(v) \o call \o JavaCheck(v /\ checking) \o StopOnce(i))

\* The warm-up loop, then per size the iterations and printStats.
JavaProgram(kind, v, checking) ==
    LET size == JavaLoop(Collective(kind), v, checking) \o Reduce \o Barrier
    IN  Times(InitialWarmup, Collective(kind) \o Barrier) \o Times(Len(Sizes), size)

OSUAllReduce(v)     == JavaProgram("all", v, TRUE)
OSUAllgather(v)     == JavaProgram("all", v, TRUE)
OSUAllgatherv(v)    == JavaProgram("all", v, TRUE)
OSUAlltoall(v)      == JavaProgram("all", v, TRUE)
OSUAlltoallv(r, v)  == JavaProgram("all", v, r = 0)
OSUBcast(v)         == JavaProgram("from_root", v, TRUE)
OSUGather(r, v)     == JavaProgram("to_root", v, r = 0)
OSUGatherv(r, v)    == JavaProgram("to_root", v, r = 0)
OSUReduce(r, v)     == JavaProgram("to_root", v, r = 0)
OSUScatter(r, v)    == JavaProgram("from_root", v, r = 0)
OSUScatterv(r, v)   == JavaProgram("from_root", v, r = 0)
OSUReduceScatter(r, v) == JavaProgram("all", v, r = 0)

\* No sizes, nothing to compare, and no barrier but those it measures.
OSUBarrier == Times(InitialWarmup, Barrier) \o JavaLoop(Barrier, FALSE, FALSE) \o Reduce

\* What these leave on the other ranks nobody compares.
CheckedAtRootOnly == {"OSUAlltoallv", "OSUScatter", "OSUScatterv", "OSUReduceScatter"}

JavaCollectiveProgram(b, r, v) ==
    CASE b = "OSUAllReduce" -> OSUAllReduce(v)
      [] b = "OSUAllgather" -> OSUAllgather(v)
      [] b = "OSUAllgatherv" -> OSUAllgatherv(v)
      [] b = "OSUAlltoall" -> OSUAlltoall(v)
      [] b = "OSUAlltoallv" -> OSUAlltoallv(r, v)
      [] b = "OSUBarrier" -> OSUBarrier
      [] b = "OSUBcast" -> OSUBcast(v)
      [] b = "OSUGather" -> OSUGather(r, v)
      [] b = "OSUGatherv" -> OSUGatherv(r, v)
      [] b = "OSUReduce" -> OSUReduce(r, v)
      [] b = "OSUReduceScatter" -> OSUReduceScatter(r, v)
      [] b = "OSUScatter" -> OSUScatter(r, v)
      [] b = "OSUScatterv" -> OSUScatterv(r, v)

-----------------------------------------------------------------------------
\* Python.  The clock runs over the measured iterations of a size.
PythonLoop(call) ==
    Barrier \o ForEach(Iterations, LAMBDA i : StartOnce(i) \o call)
        \o StopClock \o Sample \o Barrier \o Reduce

PythonProgram(kind) == Times(Len(Sizes), PythonLoop(Collective(kind)))

PyAllgather     == PythonProgram("all")
PyAllgatherv    == PythonProgram("all")
PyAllreduce     == PythonProgram("all")
PyAlltoall      == PythonProgram("all")
PyAlltoallv     == PythonProgram("all")
PyReduceScatter == PythonProgram("all")
PyBcast         == PythonProgram("from_root")
PyScatter       == PythonProgram("from_root")
PyScatterv      == PythonProgram("from_root")
PyGather        == PythonProgram("to_root")
PyGatherv       == PythonProgram("to_root")
PyReduce        == PythonProgram("to_root")
PyBarrier       == PythonLoop(Barrier)

PythonCollectiveProgram(b) ==
    CASE b = "py_allgather" -> PyAllgather
      [] b = "py_allgatherv" -> PyAllgatherv
      [] b = "py_allreduce" -> PyAllreduce
      [] b = "py_alltoall" -> PyAlltoall
      [] b = "py_alltoallv" -> PyAlltoallv
      [] b = "py_reduce_scatter" -> PyReduceScatter
      [] b = "py_bcast" -> PyBcast
      [] b = "py_scatter" -> PyScatter
      [] b = "py_scatterv" -> PyScatterv
      [] b = "py_gather" -> PyGather
      [] b = "py_gatherv" -> PyGatherv
      [] b = "py_reduce" -> PyReduce
      [] b = "py_barrier" -> PyBarrier

-----------------------------------------------------------------------------
\* NCCL.  The call returns at once; it is over when its stream is.
XcclLoop(kind) ==
    ForEach(Iterations, LAMBDA i :
        StartClock \o Collective(kind) \o StopClock \o Given(Measured(i), Sample) \o Barrier)

\* One barrier before the times are reduced, in all but two of them.
XcclProgram(kind) == Times(Len(Sizes), Barrier \o XcclLoop(kind) \o Barrier \o Reduce \o Barrier)

XcclProgramShort(kind) == Times(Len(Sizes), Barrier \o XcclLoop(kind) \o Reduce \o Barrier)

XcclAllgather     == XcclProgram("all")
XcclAllreduce     == XcclProgram("all")
XcclAlltoall      == XcclProgramShort("all")
XcclReduceScatter == XcclProgramShort("all")
XcclBcast         == XcclProgram("from_root")
XcclReduce        == XcclProgram("to_root")

XcclCollectiveProgram(b) ==
    CASE b = "osu_xccl_allgather" -> XcclAllgather
      [] b = "osu_xccl_allreduce" -> XcclAllreduce
      [] b = "osu_xccl_alltoall" -> XcclAlltoall
      [] b = "osu_xccl_reduce_scatter" -> XcclReduceScatter
      [] b = "osu_xccl_bcast" -> XcclBcast
      [] b = "osu_xccl_reduce" -> XcclReduce

-----------------------------------------------------------------------------
OtherCollectiveProgram(b, r, v) ==
    CASE b \in JavaCollective -> JavaCollectiveProgram(b, r, v)
      [] b \in PythonCollective -> PythonCollectiveProgram(b)
      [] b \in XcclCollective -> XcclCollectiveProgram(b)

\* The number of calls that the average is taken over.
OtherCollectiveReported(b) ==
    Iters * (IF b \in {"OSUBarrier", "py_barrier"} THEN 1 ELSE Len(Sizes))
=============================================================================
