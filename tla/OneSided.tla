------------------------------ MODULE OneSided ------------------------------
(***************************************************************************)
(* c/mpi/one-sided: the MPI one-sided benchmarks, as the programs of their *)
(* two ranks.  y is options.sync, for which the file of synchronisations   *)
(* is compiled once; r a rank, p the other, v whether -c is given.         *)
(***************************************************************************)
EXTENDS SuiteOps

Locking == {"lock", "lock_all"}
Flushing == {"flush", "flush_local"}
Active == {"pscw", "fence"}

OneSidedBandwidth == {"osu_put_bw", "osu_get_bw"}
OneSidedLatency == {"osu_put_latency", "osu_get_latency"}
OneSidedAtomics == {"osu_acc_latency", "osu_cas_latency", "osu_fop_latency",
                    "osu_get_acc_latency"}

OneSidedBenchmarks ==
    OneSidedBandwidth \cup {"osu_put_bibw"} \cup OneSidedLatency \cup OneSidedAtomics

ValidateSyncType(b) == IF b = "osu_put_bibw" THEN Active ELSE Locking \cup Flushing \cup Active

\* -c is looked at by these alone.
ValidatedAtomics == {"osu_acc_latency", "osu_cas_latency", "osu_fop_latency"}

\* The operation under test, of which only puts and accumulates bring nothing back.
OpPtr(b, p) == Rma(p, b \notin {"osu_put_bw", "osu_put_bibw", "osu_put_latency", "osu_acc_latency"})

-----------------------------------------------------------------------------
LoopLock(y)   == Given(y \in Flushing, OpenEpoch("lock"))
LoopUnlock(y) == Given(y \in Flushing, CloseEpoch("lock"))

OpPreSync(y) ==
    CASE y \in Locking -> OpenEpoch("lock")
      [] y \in Flushing -> <<>>
      [] y = "pscw" -> OpenEpoch("start")
      [] y = "fence" -> Fence

OpPostSync(y) ==
    CASE y \in Locking -> CloseEpoch("lock")
      [] y = "flush" -> Flush("all")
      [] y = "flush_local" -> Flush("fetched")
      [] y = "pscw" -> CloseEpoch("start")
      [] y = "fence" -> Fence

NonOpPreSync(y)     == Given(y = "pscw", Post) \o Given(y = "fence", Fence)
NonOpPostSync(y, p) == Given(y = "pscw", Await(p)) \o Given(y = "fence", Fence)

\* The answer: the same operation the other way.
Ping(y, p)  == Given(y = "pscw", Post \o Await(p)) \o Given(y = "fence", Fence)
Pong(y, op) == Given(y = "pscw", OpPreSync(y) \o op \o OpPostSync(y))
                   \o Given(y = "fence", op \o OpPostSync(y))

BibwPreSync(y)     == Given(y = "pscw", Post \o OpenEpoch("start")) \o Given(y = "fence", Fence)
BibwPostSync(y, p) == Given(y = "pscw", CloseEpoch("start") \o Await(p)) \o Given(y = "fence", Fence)

-----------------------------------------------------------------------------
RunOpBw(y, r, p, op, n) ==
    Barrier
        \o (IF r = 0
              THEN LoopLock(y)
                     \o ForEach(Iterations, LAMBDA i :
                          StartOnce(i) \o OpPreSync(y) \o Times(n, op) \o OpPostSync(y))
                     \o StopClock \o Sample \o LoopUnlock(y)
              ELSE Times(Skip + Iters, NonOpPreSync(y) \o NonOpPostSync(y, p)))
        \o Barrier

RunOpLat(y, r, p, op) ==
    Barrier
        \o (IF r = 0
              THEN LoopLock(y)
                     \o ForEach(Iterations, LAMBDA i :
                          StartOnce(i) \o OpPreSync(y) \o op \o OpPostSync(y) \o Ping(y, p))
                     \o StopClock \o Sample \o LoopUnlock(y)
              ELSE Times(Skip + Iters, NonOpPreSync(y) \o NonOpPostSync(y, p) \o Pong(y, op)))
        \o Barrier

RunOpBibw(y, r, p, op, n) ==
    LET loop(i) == BibwPreSync(y) \o Times(n, op) \o BibwPostSync(y, p) IN
    Barrier
        \o (IF r = 0 THEN ForEach(Iterations, LAMBDA i : StartOnce(i) \o loop(i)) \o StopClock \o Sample
                     ELSE ForEach(Iterations, loop))
        \o Barrier

\* With -c the target compares its window, and sends the outcome, before the
\* clock of the origin is stopped.
RunOpAcc(y, r, p, op, v) ==
    Barrier
        \o (IF r = 0
              THEN LoopLock(y) \o Given(v, Barrier)
                     \o ForEach(Iterations, LAMBDA i :
                          StartOnce(i) \o OpPreSync(y) \o op \o OpPostSync(y) \o Ping(y, p))
                     \o Given(v, Sync \o Recv(p, "flag", ReplySize))
                     \o StopClock \o Sample \o LoopUnlock(y)
              ELSE Given(v, Touch \o Barrier)
                     \o Times(Skip + Iters, NonOpPreSync(y) \o NonOpPostSync(y, p) \o Pong(y, op))
                     \o Given(v, Sync \o Touch \o Send(p, "flag", ReplySize)))
        \o Barrier

\* With -c both prepare their windows before an iteration; the target compares
\* its own after it, and tells nobody.
RunOpCas(y, r, p, op, v) ==
    LET prepare(i) == Given(v /\ Measured(i), Touch) IN
    Barrier
        \o (IF r = 0
              THEN LoopLock(y)
                     \o ForEach(Iterations, LAMBDA i :
                          StartOnce(i) \o prepare(i) \o OpPreSync(y) \o op \o OpPostSync(y) \o Ping(y, p))
                     \o StopClock \o Sample \o LoopUnlock(y)
              ELSE ForEach(Iterations, LAMBDA i :
                       prepare(i) \o NonOpPreSync(y) \o NonOpPostSync(y, p) \o Pong(y, op)
                         \o prepare(i)))
        \o Barrier

RunOpFop(y, r, p, op, v) == RunOpCas(y, r, p, op, v)

RunOpGetAcc(y, r, p, op) == RunOpLat(y, r, p, op)

OneSidedExchange(b, y, r, n, v) ==
    LET p == 1 - r
        op == OpPtr(b, p)
    IN  CASE b \in OneSidedBandwidth -> RunOpBw(y, r, p, op, n)
          [] b = "osu_put_bibw" -> RunOpBibw(y, r, p, op, n)
          [] b \in OneSidedLatency -> RunOpLat(y, r, p, op)
          [] b = "osu_acc_latency" -> RunOpAcc(y, r, p, op, v)
          [] b = "osu_cas_latency" -> RunOpCas(y, r, p, op, v)
          [] b = "osu_fop_latency" -> RunOpFop(y, r, p, op, v)
          [] b = "osu_get_acc_latency" -> RunOpGetAcc(y, r, p, op)

\* Creating the window, and freeing it, needs everyone.
AllocateOneSidedMemory == Sync
FreeOneSidedMemory == Sync

OneSidedProgram(b, y, r, n, v) ==
    Times(Len(Sizes),
        AllocateOneSidedMemory \o OneSidedExchange(b, y, r, n, v) \o FreeOneSidedMemory)

\* print_bw and the others: the operations of rank 0 that its time is divided by.
OneSidedReported(b, n) ==
    Iters * Len(Sizes) * (IF b \in OneSidedBandwidth \cup {"osu_put_bibw"} THEN n ELSE 1)
=============================================================================
