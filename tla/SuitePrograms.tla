---------------------------- MODULE SuitePrograms ----------------------------
(***************************************************************************)
(* The benchmarks of the OSU suite, and striding, side by side: who takes  *)
(* part in each, which options are tried with it, and what every rank then *)
(* executes.                                                               *)
(***************************************************************************)
EXTENDS OmbPt2pt, OmbCollective, OtherCollective, OneSided, Pgas, Striding

CONSTANT
    Benchmarks      \* the benchmarks that may be started

ASSUME BenchmarksAssumption ==
    Benchmarks \subseteq CPt2pt \cup OtherPt2ptBenchmarks
                             \cup CCollective \cup OtherCollectiveBenchmarks
                             \cup OneSidedBenchmarks \cup PgasBenchmarks \cup {"striding"}

\* f.  The comparison makes TLC evaluate a function when it is defined.
Table(f) == CHOOSE g \in {f} : g = f

Actors ==
    Table([b \in Benchmarks |->
        CASE b \in CPt2pt -> CPt2ptActors(b)
          [] b = "py_multi_lat" -> (0 .. 2 * PythonPairs - 1) \X {0}
          [] b \in (OtherPt2ptBenchmarks \ {"py_multi_lat"}) \cup OneSidedBenchmarks \cup PgasPt2pt
                -> {0, 1} \X {0}
          [] b \in OshmRate -> (0 .. 2 * PgasPairs(b) - 1) \X {0}
          [] OTHER -> (0 .. Procs - 1) \X {0}])

Ranks == Table([b \in Benchmarks |-> {a[1] : a \in Actors[b]}])

Threads(b, r) == {a[2] : a \in {x \in Actors[b] : x[1] = r}}

\* -s of the one-sided benchmarks.
SyncTypes(b) == IF b \in OneSidedBenchmarks THEN ValidateSyncType(b) ELSE {"none"}

\* The combinations of -c, -l, -k rotate and -s that are tried.  With both -l
\* and -k rotate the active buffers of a former root are wrong.
OptionsOf(b) ==
    {o \in [validate : BOOLEAN, in_place : BOOLEAN, rotate : BOOLEAN, sync : SyncTypes(b)] :
        /\ o.validate => b \notin {"osu_latency_mt"} \cup Congestion \cup PythonPt2pt
                                     \cup PythonCollective \cup XcclPt2pt \cup XcclCollective
                                     \cup (OneSidedBenchmarks \ ValidatedAtomics)
                                     \cup PgasBenchmarks \cup {"striding"}
        /\ o.in_place => b \in CCollective /\ TakesInPlace(b)
        /\ o.rotate => b \in CCollective /\ TakesRootRank(b)
        /\ ~(o.in_place /\ o.rotate)}

Program(b, r, o) ==
    CASE b \in CPt2pt -> CPt2ptProgram(b, r, o.validate)
      [] b \in OtherPt2ptBenchmarks -> OtherPt2ptProgram(b, r, o.validate)
      [] b \in CCollective -> CCollectiveProgram(b, r, o)
      [] b \in OtherCollectiveBenchmarks -> OtherCollectiveProgram(b, r, o.validate)
      [] b \in OneSidedBenchmarks -> OneSidedProgram(b, o.sync, r, Head(Windows), o.validate)
      [] b \in PgasBenchmarks -> PgasProgram(b, r)
      [] b = "striding" -> StridingProgram(r, Head(Windows))

\* For every benchmark and its options, the program of each rank.
SuiteScripts ==
    LET scripts(b) ==
            [o \in OptionsOf(b) |-> Table([r \in Ranks[b] |-> Program(b, r, o)])]
    IN  [b \in Benchmarks |-> Table(scripts(b))]
=============================================================================
