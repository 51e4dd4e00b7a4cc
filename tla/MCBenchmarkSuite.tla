-------------------------- MODULE MCBenchmarkSuite --------------------------
(***************************************************************************)
(* Values for the constants of BenchmarkSuite that a configuration cannot  *)
(* write down.                                                             *)
(***************************************************************************)
EXTENDS BenchmarkSuite

\* One size that leaves at once and one that has to be received; as many
\* elements as ranks and one more.
TwoSizes == <<3, 4>>

WindowOfTwo == <<2>>

\* The persistent reduce_scatter_block never makes the request that it starts.
AllButOne == (CPt2pt \cup OtherPt2ptBenchmarks \cup CCollective \cup OtherCollectiveBenchmarks
                 \cup OneSidedBenchmarks \cup PgasBenchmarks \cup {"striding"})
                 \ {"osu_reduce_scatter_block_persistent"}

MultiThreaded == {"osu_latency_mt"}
=============================================================================
