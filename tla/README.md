# Verification of the MPI 3.0 RMA benchmark suite

TLA+ models, TLC runs and TLAPS proofs for the benchmarks of this repository:
the eight that it was written for and the OSU micro-benchmarks that it carries
along. Each is a small MPI (or OpenSHMEM, UPC, NCCL) program, and none is
small as a concurrent one: the same barriers are written out separately for
every role, one-sided operations are done at a rank that does not know of them,
and a number that is printed means something only if the operations it is
about happened inside the interval that was measured. Those are the questions
asked here; how long something takes is not.

`PROJECT.json` lists the runs, the correspondence of definitions and source
lines, the hazards and the theorems. Line numbers below refer to the file
named with them; `osu:` stands for `src/osu-mbs/osu-micro-benchmarks-8.0b2/`.
A run is repeated with `tlc -config <run>.cfg <module>`, a proof with
`tlapm <module>.tla`.

## 1. Inventory

### The repository's own benchmarks

| Component | State | Operations | What is hard about it | What makes it correct |
|---|---|---|---|---|
| `interaction/` | word 0 of rank 0's window (the stop flag), each observer's batch and counter, a receive request, the reduction | main: store 1, task, replace by 2; observer: lock, batch, flush, test, unlock; idle: only collectives | progress at the target, results of a batch in any order, several writers of the flag, an early `return` between barriers | nobody sees garbage, everybody stops, the printed total is exact, nothing is left open |
| `overlapping-windows-semantics/` | one word of rank 0, one window per rank on it | fetch-and-add through one's own window; print the sum and the word | atomicity across windows, creation and release of windows in a loop | the two printed numbers are equal where atomicity extends over the memory |
| `overlapping-windows-performance/` | two memories of rank 0, epochs on two windows, repetition | the same batch through the pair's window and through the world's window | which window is locked, which is flushed, two phases | phases apart, no addition lost, epochs open |
| `atomic-spacing/` | 65536 words of rank 0, stride, repetition | batch at a stride, barrier that rank 0 times | bound of the stride loop, two barriers per stride | accesses in the window, in their own measurement, every stride reported |
| `device-mem/` | host and device buffer and window per rank | sixteen timed sections | which window a section flushes, a rank without a device | a section's time covers it; rank 0 stays |
| `overview/` | one window of rank 0, three nested loop variables | batch of gets, batch of puts | one barrier per measurement, three roles | line and label match what was moved |
| `replace-performance/` | one window of rank 0 | eight sections, accumulates and puts alternating | rank 0 counts barriers on its own | sections never overlap, rank 0 counts right |
| `striding/` | one window of rank 0 | gets of a strided type for seven block sizes | rounding of the number of blocks | the type fits the buffer; every get is inside its interval |

### The OSU micro-benchmarks (`osu-mbs/`)

| Part | State | Operations | What is hard about it | What makes it correct |
|---|---|---|---|---|
| point-to-point, C (`osu:c/mpi/pt2pt`) | requests, two buffers with the pattern of an iteration, clock, error count | ping-pong, windows with a reply, both directions at once, several pairs, threads, persistent and partitioned requests, congestion | the two sides are separate functions; eager messages run ahead; a window is acknowledged by one reply | messages meet, the clock covers the delivery, `-c` compares what belongs together, the rate counts what was sent |
| collectives, C (`osu:c/mpi/collective`) | buffers as the call will see them, persistent request, error counts | one collective per iteration, a barrier, a reduction of the times and of the errors | `MPI_IN_PLACE` and a rotating root change the buffers between iterations; a local decision ends the loop over the sizes | all ranks make the same calls with legal arguments and leave the loop together |
| one-sided, C (`osu:c/mpi/one-sided`) | epochs, operations under way | nine benchmarks times six synchronisations | what a flush, a complete or a fence promises to whom | every operation in an epoch, no epoch in another, memory left alone while it is in use |
| OpenSHMEM, UPC, UPC++ | operations under way, `pSync` arrays | puts, gets, atomics, quiets, barriers, collectives | reuse of `pSync`, loads and stores next to remote operations | as above |
| Java, Python, XCCL | as in C | as in C | translated from the C ones by hand | as in C |
| common code (`osu:c/util`) | options, buffers | filling and comparing buffers, defaults, root rank | -- | the programs of the benchmarks agree on it |
| launchers, startup, autotools | -- | -- | -- | -- |

`helper.py`, `osu-mbs/run_all.py`, the plotting scripts and the shell scripts
keep no state and have no protocol.

The processes of a benchmark share nothing but MPI: they meet in collectives,
exchange messages, and act on each other's memory. The benchmarks do not call
each other. The OSU benchmarks in C share one execution core per kind, so that
a benchmark is a choice of options of that core.

## 2. Modules

    MPIWorld                collectives on MPI_COMM_WORLD
     |- RMAWorld            + epochs on and batches at rank 0
     |   |- Overview
     |   `- ReplacePerformance
     |- PairWindows         + one communicator and window per pair {0, i}
     |   |- OverlappingWindows    + half of the ranks, ITERATIONS each
     |   |   |- OverlapPerformance
     |   |   `- OverlapSemantics   (with RMAWorld)  --implements-->  AtomicCounter
     |   `- AtomicSpacing      (with RMAWorld)
     |- DeviceMem
     |- Interaction                             --implements-->  StopFlag
     `- WorldProofs         facts about collectives, pairs, division; used by

    InteractionProofs, AtomicSpacingProofs,
    OverlapProofs (OverlapSemantics, OverlapPerformance),
    SectionProofs (Overview, ReplacePerformance, DeviceMem)

    SuiteOps                the calls that benchmarks are made of
     |- OmbPt2pt, OtherPt2pt            point-to-point: C; Java, Python, XCCL
     |- OmbCollective, OtherCollective  collectives:    C; Java, Python, XCCL
     |- OneSided, Pgas, Striding
     `- SuitePrograms       who takes part in each, with which options
    RemoteAccess            one-sided operations between any two ranks
    BenchmarkSuite          executes the programs (SuitePrograms, RemoteAccess)
     |- MCBenchmarkSuite    values of the constants
     `- SuiteProgramProofs  what each program does and counts, and says to others
         `- BenchmarkSuiteProofs   the inductive invariants and theorems

### The own benchmarks

**Programs as tables.** A rank's place in its program is `pc[r]`. The order of
a program's calls is a function from each label to the next (`Source`,
`MainProgram`, ...), one action per kind of call, and `CollectiveAt` says which
labels are collectives. Where the next label depends on data (the flag that was
fetched, the next stride, the next section), an action of its own decides.
Operators whose comment says *(faulty)* belong to no specification. They are
the variants of a definition with a plausible bug, kept to show that each
property notices one.

**MPIWorld** (external: MPI is not in the repository). The n-th collective that
one rank calls on the world communicator is matched with the n-th of every
other rank *whatever its name*. `calls[r]` records the names, so that matching
of names is a property (`CollectivesMatch`) and not an assumption. A barrier,
window allocation and window release return when everybody has called; a
reduction returns at the root when everybody has called, elsewhere at once.

**RMAWorld** (external). A shared lock on rank 0 never waits, since every lock
of the own benchmarks is shared. A batch of operations is started at once; each
operation is done at any time until the flush or unlock that waits for it
returns.

**PairWindows** models the loop that creates `{0, i}` communicators and windows
and the loop that frees them: rank 0 walks through all pairs in order, each
peer through its own, each collective synchronises the two. The source lines
given for it are those of `overlapping-windows-semantics`; the two other
programs contain the same loop.

**OverlappingWindows** is what the two overlapping-windows programs share: who
accesses rank 0's memory, and how often. Two modules prefix the names that
others have as well, so that their proofs can stand beside those of a related
program: `OverlapPerformance` with P (`PSpec`, `PNext`, ...), `DeviceMem` with D.

**Interaction** follows `main.c`, `observer.c`, `stream.c` and `dgemm_blas.c`.
`NumMain`, `NumObservers` are the arguments; `Op`, `ITERATIONS`, `IntelProg`
the compile-time choices; `AsyncProgress` is a property of machine and library.
`Publish` is the store of 1 under a lock (each main rank stores into its *own*
window), `Stop`/`Land`/`Stopped` the lock, the `MPI_REPLACE` done at rank 0 and
the unlock, `Issue`/`Serve`/`Flush` an observer's batch. All operations of a
batch fetch into `recv`; after the flush `recv[0]` is the value of any one of
them (`Arrived`). `Verdict` includes the early `return` of `observer.c:149`
that leaves out unlock, barrier and reduction: `ValidationHolds` says that it
is never taken. Without asynchronous progress an operation is done only while
rank 0 is inside MPI (`RankZeroInMPI`). `IntelProg` stands for STREAM with its
polling of `MPI_Test`; DGEMM and plain STREAM never call MPI inside the task.

**StopFlag** is what that benchmark promises, without windows and barriers: a
flag that is armed once and falls once, watchers that join after it is armed
and leave after it has fallen.

**OverlapSemantics** splits a fetch-and-add into `Fetch` and `Store`. With
`scope = "memory"` nobody fetches while another is between the two; with
`"window"` this holds per rank only. Which one is true of a machine is what the
benchmark is run to find out, so both are initial states. **AtomicCounter** is
the counter that one hopes for.

**OverlapPerformance** keeps epochs and pending operations per window (`"pair"`,
`"main"`). `Flushed(k)` is the window that the flush of phase `k` names, in
both phases the pair's (`main.c:142, 166`). `unfinished` records what was still
under way when the clock was read. An operation or unlock without epoch ends
the job (`Abort`; MPI's default error handler is fatal).

**AtomicSpacing** keeps rank 0's memory word by word, rank 0's printed lines
per stride, and each rank's own repetition and stride. **DeviceMem** has the
sixteen sections as a table, with the window each transfers through and the
window it flushes. The transfers of a section are one unit: *issued*, *sent*
(local completion of a put), *done*. `MPI_Win_flush_local` after gets waits for
them to be done, because a get is locally complete only then. The two disabled
sections print a zero and do nothing. **Overview** and **ReplacePerformance**
keep the loop variables of every rank separately, because rank 0 and the others
are different code.

### The OSU suite and striding

A benchmark of the suite branches on nothing but its rank, its options and, once
per message size, its error count. Its program is therefore a *sequence of
calls* that can be written down in full, and the modules from `OmbPt2pt` to
`Striding` are functions from a benchmark, a rank and options to such a sequence
(`CPt2ptProgram(b, r, v)`, `OneSidedProgram(b, sync, r, ...)`, ...). Loops are
unrolled with `Times` and `ForEach`, a condition of the code is `Given`. The
operators carry the names of the functions or macros they translate where these
have one. **SuiteOps** is the vocabulary: `Send`, `Recv`, `Enter`, `Leave`,
`Fill`, `Check`, `StartClock`, `Rma`, `OpenEpoch`, ... .

**BenchmarkSuite** executes one benchmark: in `Init` a benchmark and a
combination of its options is chosen, and from then on every actor (a rank, or
a thread of it) goes through its sequence.

| Variable | Stands for |
|---|---|
| `queue`, `posted` | per channel (source, destination, tag): messages that nobody has posted a receive for, receives that wait; messages and receives of a channel meet in order |
| `pending` | per actor, the requests that are not complete; a send of at most `Eager` completes at once, a larger one when it is received |
| `ledger` | collective operations that have been entered and not left by all, with who has entered and with what; the n-th call of every rank is the n-th operation |
| `met`, `serial` | the threads of a rank at the pthread barrier, and the one that gets `PTHREAD_BARRIER_SERIAL_THREAD` |
| `air`, `access`, `age`, `posts`, `done` (RemoteAccess) | operations that have not taken effect; epochs |
| `clock` | whether it runs, how many transfers happened in this interval, and in all |
| `buffer` | what the receive buffer holds compared with the pattern that is expected |
| `active`, `request` | which buffers a collective will use, and the persistent request made of them |
| `errors`, `failed`, `spoiled` | the error counts, the exit codes, and that the transport has spoiled a message (once in a run) |
| `wrong` | what has been done that MPI or the benchmark forbids; never read by the model |

In **RemoteAccess** an operation takes effect at any time between its call and
a synchronisation that waits for it, and overtakes others. `MPI_Win_start`
waits for nothing; the operations of its epoch take effect after the matching
`MPI_Win_post`. `MPI_Win_complete`, `MPI_Win_flush_local` and the origin's side
of `MPI_Win_fence` wait only until operations are complete *at their origin*: a
put may then still be under way.

*Order of private steps.* What an actor does to its own clock, buffers and
counters commutes with every step of the others, and so does the return from a
call that nothing can hold up any more. `Private` steps are done first, one
actor after the other. This leaves out interleavings and no behaviour that a
property could tell apart: no guard of another actor reads what they write,
with one exception, the reading of the clock (`Stop`), and there *early* is the
worst case: whatever is under way when a clock could be read first is what
`ClockCoversDelivery` has to reckon with.

*One name for equal programs.* About half of the benchmarks differ only in the
call that is timed (`osu_allgather`, `osu_alltoall`, ...). `Representatives`
picks one name for all that have the same `Scripts`. The constant `Programs` is
given the value of `SuiteScripts` (and assumed to have it), so that TLC
computes the sequences once.

## 3. Runs

| Run | Shows | Bounds and why they are enough |
|---|---|---|
| `Interaction_get` | no garbage, matching collectives, one batch of overrun, the task is observed, exact total, clean teardown, every rank ends | 4 ranks: one main, one idle, two observers, all roles; batches of two (order matters); memory that starts as 0 or, worse, as 2; two batches before the fall |
| `Interaction_two_mains` | the inductive invariant; observers never change the flag; refinement of `StopFlag` with its liveness | two main ranks, so that the flag is replaced twice and the second may come after observers have left |
| `OverlapSemantics_both` | exact result and refinement of `AtomicCounter` for one scope; creation and release never block, in both | two accessing ranks of four, three additions each |
| `OverlapPerformance_once` | phases apart, every word right before the reductions | 5 ranks: two observers, an accessing rank that only locks, a bystander, rank 0 |
| `OverlapPerformance_timing`, `_repeated` | **violations**, section 5 | smallest instances |
| `AtomicSpacing_four` | displacement in the window, one measurement at a time, every stride reported and added up | three accessing ranks, 8 words: the largest stride leaves a remainder; one warm-up and one reported repetition |
| `DeviceMem_sections` | only sections with the wrong flush are early, rank 0 leaves last, no half results | two transferring ranks (run.sh uses one), one may fail |
| `Overview_three` | one measurement at a time, line and label, all lines | observers 1 and 3, two sizes, two repetitions: every loop steps and is reset |
| `ReplacePerformance_two` | sections apart, rank 0's count | two ranks, two repetitions, two operations per section |
| `BenchmarkSuite_all` | twelve properties of all OSU benchmarks but one, and of striding, under each combination of `-c`, `-l`, `-k rotate` and `-s` | see below |
| `BenchmarkSuite_threads` | **violation**, section 5 | one sending thread, two receiving ones: the defaults |

`MaxRounds` in `Interaction` is the only bound of the first ten runs that cuts
behaviour: an observer starts at most that many batches before the flag falls,
and then waits for it. The flag does not wait for observers, so no wait is
circular; the theorems hold for every value of `MaxRounds`. Everything else is
finite by itself. Deadlock is checked in every run but `BenchmarkSuite_threads`,
which is about a hang; a job that has ended stutters (`Finished`, `Rest`), and
so does a `DeviceMem` job whose rank has left by `exit(1)`, of which the code
does not say whether it ends or hangs.

**Bounds of `BenchmarkSuite_all`.** Two sizes, the smaller one eager and the
larger one not, so that a benchmark is seen with a sender that runs ahead, with
one that is held up, and in the change from one size to the next. For a
collective they are counts of elements, as many as there are ranks and one more:
on either side of the comparison that decides whether a block of
`MPI_Reduce_scatter_block` is compared at all. Fewer elements than ranks, where
some ranks receive nothing, are in the model (`RecvCount`, `Receivers`) and not
in the run. One warm-up and
one measured iteration: the boundary where the clock starts, and a buffer, root
or window that is used a second time. Windows of two. Three ranks for
collectives: a root, its neighbour and one that is neither; rotating roots come
round. Two pairs where a benchmark takes pairs, three nodes for the congestion
tests, two and two threads. The parts of a benchmark beyond that (more
iterations, more sizes) repeat the same calls.

**What `BenchmarkSuite_all` says.** `CallsAgree`, `NothingLeftBehind` and
`Termination`: the branches of the code for the two (or n) sides fit together
in every benchmark. `ArgumentsLegal`: `MPI_IN_PLACE`, requests, epochs and the
extents of `striding`'s types. `ValidationSound`, `EveryReceiptChecked`,
`ErrorsReported`: `-c` neither raises a false alarm, nor leaves data out, nor
forgets an error; the last of them is about point-to-point and collective MPI
benchmarks in C, without `osu_latency_mt`, whose `-c` (on accelerators only) is
not modelled: the errors of its threads never reach its exit code.
`ClockCoversDelivery`, `RateCountsTransfers`: the number that is printed is about what happened in the interval. `UnexpectedBounded`: a
window is all that a receiver has to buffer. `PSyncApart`, `TouchAlone`: the
two rules of OpenSHMEM and of MPI about memory in use. Four of these hold for
all benchmarks *but* those in a set that the property names (`StopsEarly`,
`TouchedUnguarded`, `Uncompared`, `FanOut`); these exceptions are
observations about the code and are listed in section 5.

**Fairness.** Weak fairness of each rank's step: the operating system runs every
process. Weak fairness of each operation's completion: MPI promises progress of
operations that the target can serve; in `Interaction` that includes the
condition `RankZeroInMPI`. `OverlapSemantics` uses strong fairness for `Fetch`,
which is enabled again and again, not continuously, while other ranks are
between fetch and store: a network card that starves one rank for ever is not
considered. `BenchmarkSuite` needs only `WF_vars(Step)`, that the system as a
whole goes on: programs are finite sequences, every step takes an actor or an
operation forward, so no actor can be passed over for ever. The remaining
modules are checked for safety only.

## 4. Proofs

Proved for every number of ranks and observers, every number of operations,
repetitions, warm-up rounds, message sizes and windows, from the named
assumptions on constants only. Every invariant and action property that a run
outside `BenchmarkSuite` checks is among them, and of those that
`BenchmarkSuite_all` checks, the types, `ArgumentsLegal`, `RateCountsTransfers`,
`PSyncApart`, with one window size (the default) `ErrorsReported`, and, for all
benchmarks but `osu_latency_mt`, `CallsAgree` and, as long as no sizes are left
out because of errors, `NothingLeftBehind`.

| Module | Theorems (property) |
|---|---|
| `InteractionProofs` | `Invariance` (`Inv`), `TypeCorrectness`, `CollectivesAlwaysMatch`, `ValidationAlwaysHolds`, `OverrunIsBounded`, `TotalIsExact`, `TeardownIsClean`, `ObserversNeverWrite` (`ObserversOnlyLook`), `SingleTaskObserved` (`TaskObserved`, with one main rank), `ImplementsFlagSafety` (steps of `StopFlag`) |
| `OverlapProofs` | of OverlapSemantics: `LineExact` (`AfterIsExact`), `ImplementsCounterSafety` (`ImplementsCounter`), `TypeCorrect`; of OverlapPerformance: `PhasesStayApart`, `AccessesAreCounted`, `PTypeCorrect` |
| `AtomicSpacingProofs` | `InsideTheWindow` (`DisplacementInWindow`), `MeasurementsApart`, `StridesAreMeasured` (`AllStridesMeasured`), `TypeCorrect` |
| `SectionProofs` | of DeviceMem: `OthersMeasureInFull` (`OnlyMisflushedEarly`), `TargetStays`, `NobodyMeasuresAlone` (`NoHalfResults`), `DTypeCorrect`; of ReplacePerformance: `SectionsNeverMix`, `TargetWaits`, `RTypeCorrect`; of Overview: `OnlyOneMeasurement`, `LinesComeLast`, `AllLinesPrinted`, `TypeCorrect` |
| `BenchmarkSuiteProofs` | `Invariance` (`IInv`), `TypeCorrect` (`TypeOK`), `LegalArguments` (`ArgumentsLegal`, but for one benchmark), `RatesCountTransfers` (`RateCountsTransfers`), `ProgramsFit`, `SidesAgree` (`CallsAgree`, but for one benchmark) |
| `SuiteRunProofs` | `ArraysApart` (`PSyncApart`), `NothingLeft` (`NothingLeftBehind`, but for one benchmark and for sizes left out), `ErrorsTold` (`ErrorsReported`, with one window size) |

### The own benchmarks

None of the safety properties is inductive. All of the arguments rest on one
fact, proved in `WorldProofs` (`EnterKeepsTogether`, `LeaveKeepsTogether` about
`NobodyAhead`): who has
returned from n synchronising collectives knows that everybody has entered n.
The rest is to say, for every program, how many a rank has entered when it is
at a given place.

- **Interaction.** `ValidationHolds`, for example, needs that an observer issues
  only after the second barrier, that then rank 0 has called the second barrier
  too, that it therefore is past its store, and that since then only 1 and 2
  have been written. `Inv` makes these facts explicit: `EveryoneOnScript`,
  `EveryoneInRole` (names and number of collectives are determined by the label,
  so all scripts are prefixes of one), `BarriersHold`/`AllBefore`, `FlagArmed`,
  `LateBatchIsLast`, `LeftAfterFall` (the life of the flag as the observers see
  it; a batch started after the fall fetches only 2), `OperationsCounted`,
  `ResourcesHeld`. One lemma per action and, under it, one step per conjunct
  that the action can disturb.
- **ReplacePerformance, DeviceMem, AtomicSpacing.** `Progress(r)` is a formula
  of loop variables and label, and equals the number of barriers entered. Two
  ranks with operations under way are between the same two barriers, hence in
  the same section or stride (`SameTurn`: the arithmetic of products, quotients
  and remainders that turns a count of barriers back into loop variables).
- **AtomicSpacing, `AllStridesMeasured`.** `DisplacementInWindow` is `(a - 1) *
  (B \div (n - 1)) < B`. The count of additions needs `Tally`: word d holds as
  many as there are pairs of an accessor and a measurement it is past (or
  operations of the current one served) whose displacement is d; when rank 0 is
  done, every accessor is past its last one.
- **Overview.** The measurements are numbered in the order of the three loops; a
  line follows its number, and the labels and batches of a number are the same
  for rank 0 and for observers.
- **OverlapSemantics.** What a rank has met and what it thereby knows; the set
  of additions done has as many members as the word says, so that nothing is
  lost when nobody fetches between another's fetch and store. The refinement
  maps the word and the additions still to come to the abstract counter's.
- **OverlapPerformance.** Progress is `8 * rep + Met`; reductions and
  finalisation teach a rank nothing about others. Words and operations still to
  do add up to phases begun times `ITERATIONS`. (As the code stands the job
  aborts in the second repetition; the proof does not rely on that.)

One clause of a type is deliberately left to TLC: that `total` in `Interaction`
is a number, since it is a sum over a set; `PrintedTotalIsExact` does not need
it.

### The OSU suite

Here the programs are data, sequences of calls with loops unrolled as often as
constants say, and the proof has two halves.

**What a program does** (`SuiteProgramProofs`). An actor is described by what it
can tell of itself (`Locals`: its access epoch, its active buffers, its
persistent request, whether it is outside, in, or chosen for a collective
operation) and by its clock. `LocalMove(r, c, x, y)` and `ClockMove(c, p, q)` say
which call may come when, and what it changes: `LocalMove` refuses
`MPI_IN_PLACE` where MPI forbids it, a start without a request, an access
without an epoch, a `Leave` without an `Enter`. A *walk* is a sequence of
calls with a state before and after each that are related by these moves. Walks
can be put together (`WalkOn`, `FlattenWalk`), so can the numbers of transfers
they count (`CountsOn`, `MeasuresOn`), and the loops come down to three lemmas:
`LoopBegins` and `LoopOnce` for a clock that is started in the first measured
iteration and stopped in the last, `LoopSampled` for a sample per iteration.
Then there is a lemma for each function of the modules from `OmbPt2pt` to
`Striding`, and at the end `ProgramMeasures`: the program of every rank of every
benchmark, with every option, is a walk, and where it ends the total of its
clock is `Reported(b)`. `Moves` does not know the other ranks, so that this half
needs no invariant.

*Induction.* The library's induction theorems need an operator as a parameter,
which no installed prover takes. `Naturals0` replaces them: a *set* that
contains 0 and with every n also n + 1 contains all numbers (else the numbers
below a missing one would be a finite set with an injection into one of its
proper subsets). Sets can be given by comprehension, and so facts about
`FlattenSeq`, sums and loops follow without a recursive operator.

**What a benchmark does** (`BenchmarkSuiteProofs`). `Course(b, o, r)` is one of
the walks that the first half shows to exist. The invariant is:

| Conjunct | Says | Needed because |
|---|---|---|
| `Typed` (nine parts) | types, channel by channel and entry by entry | everything else is stated over them |
| `OnCourse` | the epoch, buffers, request, phase and clock of every actor are those of its course at `pc`, unless errors have made it leave the sizes | it turns the first half into a statement about states; the theorems follow from it |
| `MeetsAt` | a thread that waits at the pthread barrier is at a `meet` | the last thread lets all of them go on, `pc` by `pc` |
| `Elected` | of the threads of a rank only the one chosen last is in a collective operation | then no two actors of a rank are in one |
| `LedgerTyped`, `Inside` | a rank has left all operations before the one it is in; it is in one if and only if one of its actors is | `UnderWay` is the operation that the actor has entered, so that its results are booked for the right one |
| `Waiting` | the requests an actor waits for are as many as its entries in the channels | `pending` never falls below 0 |
| `Blame` | errors are found, and summed up, only where data was spoiled | actors leave the course only in a run with errors, which `RateCountsTransfers` leaves out |
| `Legal` | no complaint of the four kinds, but in one benchmark | |

`Waiting`, `MeetsAt`, `Elected`, the order of the ledger, `Inside` and `Blame`
were checked by TLC for all benchmarks of `BenchmarkSuite_all` before they were
proved; `OnCourse` speaks of a walk that is only known to exist. There is one lemma per group of actions and conjunct;
`ActionStep` puts them together. The order of private steps (section 2) plays no
part in the proof: `SomeoneActs` only uses that a step is a call of some actor,
or an operation that takes effect, so that the theorems hold with every other order too.

The benchmark excepted in `LegalArguments` is
`osu_reduce_scatter_block_persistent`, which starts a request it has not made
(section 5); for it the theorem would be false.

**What the two sides say** (the end of `SuiteProgramProofs`, the second half of
`BenchmarkSuiteProofs`). What a rank has to agree on with others is read from its
program in *views* (`Views`): a view takes each call to a word of at most one
letter, and `Seen(K, s)` is what it reads of a sequence of calls. `Agreed` reads
the kind, root and pSync array of every collective call; `To(q, tag)` the sizes
of what is sent to rank q with that tag; `From(q, tag)` those of what is
received. `Fits(r, q, s, t)`: calls s of rank r and t of rank q read the same,
`Agreed` as `Agreed`, `To(q, tag)` as `From(r, tag)` and the reverse. Calls that fit can be put
together (`FitsOn`, `FitsTimes`, `FitsLoop`), mixed with calls of the own rank
(`OwnFits`) and with messages to others (`FitsAside`), so that again there is a
lemma per function of the modules, each about both of its sides, and at the end
`ProgramsFit`: the programs of any two ranks of a benchmark fit, whatever the
numbers of sizes, iterations and messages in a window. `osu_latency_mt` is left out: the threads
of a rank take turns on one channel in an order that no program gives, and their
`CallsAgree` stays with TLC.

The invariant on top of `IInv` is `Agreement`: there are numbers n of calls that
the ranks have made, with

| Conjunct | Says | Needed because |
|---|---|---|
| `Paced(n)` | an actor is at its call n + 1, or it has left the sizes because of errors and has nothing left to do but to report | only who goes on adds to what has been read |
| `InStep(n, ledger)` | the operations in the ledger are the next letters of one word, from some place on, each entered by exactly those that have read that far | the operation that a rank enters has been opened with the letter that it reads |
| `InPairs(n, c, queue[c], posted[c])` for each channel c | what waits in a channel are the sizes that one side has read and the other has not | who sends finds the receive with the letter that it reads, and the reverse |

The two words are the same by `ProgramsFit`, and therefore no call finds a
partner of another size, root or kind. That ranks leave the sizes early, when data was spoiled, is
covered: nothing they would have said is missed by `CallsAgree`, which is about
those that come.

**When memory may be used again** (`SuiteRunProofs`, `ArraysApart`). A rank may
be in an operation, and another one several operations ahead of it: that both use
one pSync array at a time is excluded by what comes between. `Met(w, j, k)`:
among the letters j to k of a word is an operation that nobody leaves before all
have entered it (`Meetings`). `Using(s, x, y)`: calls s use an array again only
after such a letter, and if at most the arrays x have been used since the last
one before them, then at most y after them. Calls can be put together
(`UsingOn`), a loop goes through sets X[0], X[1], ..., X[n] (`UsingLoop`), and so
the alternation of `pSync1` and `pSync2`, by the parity of the iteration
(`InTurn`), comes down to one lemma (`IterationsUse`); `osu_oshm_barrier`, the
only one with nothing between its iterations, is the case in which the
alternation matters. In the run: `Gathered(ledger)`, that the first operation of
the ledger has not been left by all and that one of `Meetings` which somebody
has left has been entered by all. A rank that enters with an array of an
operation j that it has left before has, by `Agreement` and `ArraysMeet`, left
a meeting after j; all have entered that one; so all have left j, and everything
before it: the first operation of the ledger would be one that all have left.

**What is left at the end** (`SuiteRunProofs`, `NothingLeft`). When all actors
have finished, and no rank has left the sizes early, each has read its word to
the end (`AllTold`). The words of the two ends of a channel are equal, so by
`InPairs` nothing waits in it (`NoMessages`), and what is pending is counted in the
channels; by `InStep` every operation in the ledger has been entered by all, and
by `Gathered` it would not be there any more (`NoOperations`). Open epochs are
excluded by the courses (`NoEpochs`). What remains are the transfers
in flight, which no word tells of. They complete in three ways, and
`WhatCompletes` says that every benchmark has one of them:

| Programs | Say | Invariant (part of `Due`) |
|---|---|---|
| `AllFlushed` | after every transfer there is a flush or an unlock (`Covered`) | `FlushesDue`: while something of rank r is in flight, r has such a call before it |
| `AllFenced` | after every transfer there is a fence (`FencedOff`) | `FencesDue`: that, or r has entered a fence that the other rank has not left |
| `AllAwaited` | every exposure is waited for (`Posting`), and each rank begins as many epochs as the other offers (`Rendezvous`) | `PostsDue`: the epochs counted in the state are those of the program; a target that has not seen the end of an epoch, or has a transfer from it in flight, still has to wait |

`Answered(C, A, B)` is what the three share: sequences of calls in which a call
of A is always followed by one of B; they can be put together and repeated, so the
programs are covered piece by piece. `FenceLeft` is the step that needs both
sides: who leaves a fence has all transfers to it from before that fence
completed, because the guard of leaving (`Complete`) says so.
The restriction on spoiled data is needed for the argument, not for the result:
that all ranks leave the sizes at the same call, and have nothing under way
there, is what `BenchmarkSuite_all` checks.

**Who learns of an error** (`SuiteRunProofs`, `ErrorsTold`). Each rank counts the
errors that it finds itself, an `MPI_Allreduce` after the iterations of a size
adds up the counts, and who reads a sum above zero leaves out the remaining
sizes and ends with an error. An error is lost if a count is cleared between a
comparison and the sum, or if a rank reads the sum and then forgets it; and ranks
that disagree about it end with different exit codes. The programs exclude this
piece by piece: along each runs a level (`Verdict`, `ScriptsJudge`), 2 where
errors may be found and not yet summed, 1 between the sum and the decision to
leave, 0 where there are none. Data is compared at 2 only, counts are cleared at 0
only, the sum leads to 1, and only the decision leads from 1 to 0. For the
bandwidth tests this takes that a sender clears where its receiver compares: it
stays at 0. The programs without `-c` compare nothing (the second half of
`ScriptsJudge`). The invariant, `Judgement`, adds:

| Conjunct | Says | Needed because |
|---|---|---|
| `Doubtful` | who knows of an error is at level 1 or 2, or at its report | a rank that clears its count has nothing to clear |
| `Recalled` | what a rank has brought into an operation that it is in is what it still knows, and in a sum it is at level 1 | the sum contains the own count, so that leaving it does not lower it |
| `Rumour` | once there is an error, one rank at level 2 knows of it and no sum holds it (`Carried`); or one sum holds it and no earlier one, those that have left that sum know of it, and those that have not entered it do not (`Summed`); or all know (`Public`) | no step loses the last trace of an error |
| `Exits` | who has finished reports what it knows | the last call of a program is the report |
| `Unjudged`, `Convicted` | without `-c` there is no error; who reports one has had one | the runs without errors |

At the end nobody is at level 2. If a sum holds the error, somebody has entered it. A
rank that knew of no error would have left out no sizes, so that it has read its
word to the end, and by `Agreement` it has entered that sum too; it is in no
operation any more, so it has left the sum, and knows. With several window sizes
(`-V`) neither the property nor `ScriptsJudge` holds: the count is cleared for each
(section 5).

### What is only model-checked

- Liveness: `Termination`, and the fairness half of `ImplementsStopFlag`. No
  prover here reasons about fairness and `ENABLED`.
- `CallsAgree` of the threads of `osu_latency_mt`.
- `NothingLeftBehind` when sizes are left out because of errors.
- Of the OSU suite these properties that relate *several* programs:
  `ClockCoversDelivery`, `UnexpectedBounded`, `TouchAlone`; and those about buffers that
  are filled and compared: `ValidationSound`, `EveryReceiptChecked`. `Agreement`
  counts what was said; for these it matters also when, between which of the
  other's calls (section 8).

## 5. Where the code does not do what it says

Shown by a run:

1. **`overlapping-windows-performance`, second phase**
   (`OverlapPerformance_timing`). `main.c:166` flushes `windows[rank]` after
   operations on `main_win`: the time printed as "one" does not wait for them.
2. **`overlapping-windows-performance`, `ntimes > 1`**
   (`OverlapPerformance_repeated`). Locks before the loop, unlocks inside: the
   second repetition works without an epoch.
3. **`osu_latency_mt`** (`BenchmarkSuite_threads`). One thread sends by default
   and two receive, and each runs the whole loop: twice as many messages are
   awaited as are sent (`osu:c/mpi/pt2pt/core/omb_pt2pt_multi.c:62`). With equal
   numbers of threads the benchmark ends (`BenchmarkSuite_all`), but a ping of
   one thread may be answered by the partner of another, so that its clock stops
   early.

Named as an exception by a property that holds otherwise:

4. **`interaction`, several main ranks.** The flag falls when the *first* main
   rank finishes, and observers leave at once: the remaining computation,
   possibly that of rank 0, runs without RMA access. `SingleTaskObserved` shows
   that this is the only way: with one main rank the observers stay.
5. **`device-mem`, strided access to device memory.** `main.c:129, 146, 216`
   flush `host_win` after transfers through `device_win`. `OnlyMisflushedEarly`:
   no other section's line comes early.
6. **Clocks that stop early** (`StopsEarly`). `osu_xccl_bw` reads the clock
   before the reply; in `py_latency` and `py_multi_lat` each side's interval
   ends with a message of its own that may not be delivered; the put benchmarks
   with fence, post/start or `flush_local` measure local completion;
   `osu_oshm_put_bw` and the non-fetching part of `osu_oshm_atomics` have no
   quiet before the clock is read.
7. **Memory touched while in use** (`TouchedUnguarded`). With `-c`,
   `osu_cas_latency` and `osu_fop_latency` prepare and compare rank 1's window
   while rank 0 works on it under passive synchronisation (nothing tells rank 1
   when an iteration ends; and the error it finds is not sent to rank 0);
   `osu_acc_latency` with `flush_local` likewise. The OpenSHMEM rate benchmarks
   fill their buffers (`osu:c/openshmem/osu_oshm_put_mr.c:208`) without a barrier
   between that and the warm-up puts of a partner.
8. **Rates and comparisons.** `osu_bw_fan_out` counts one window whatever the
   number of receivers (`FanOut`). Some of the Java collectives compare at the
   root only (`CheckedAtRootOnly`); with `-k rotate` a rank that is not the root
   of the next iteration fills its buffers without having compared them.
   `Uncompared` adds the benchmarks of `MPI_Reduce_scatter` and
   `MPI_Reduce_scatter_block`, in all their forms. `validate_reduce_scatter` goes from the sum
   of the counts of the ranks before to the *count* of its own rank
   (`osu:c/util/osu_util_mpi.c:1796-1801`), and counts do not grow with the rank,
   so that its loop is empty everywhere but on rank 0 (`ComparesPart`). And with
   as many elements as ranks, `omb_init_irregular_args` leaves the counts of a
   block at 0, because it asks for more
   (`osu:c/mpi/collective/core/omb_coll_core.c:112`), while the portion that is
   sent is 1: the guard `recv_counts[rank] != 0`
   (`osu:c/mpi/collective/core/omb_coll_buffers.c:262`) then skips the comparison
   on rank 0 as well.
9. **`-l` with `-k rotate`**. The active buffers of a former root are not set
   back (`osu:c/mpi/collective/core/omb_coll_buffers.c:185`): it passes
   `MPI_IN_PLACE` where MPI forbids it. `OptionsOf` leaves this combination out.
10. **`osu_reduce_scatter_block_persistent`** calls `MPI_Reduce_scatter_block`
    where a request should be made
    (`osu:c/mpi/collective/omb_persistent_defs.h:134`) and starts one that does
    not exist. It is modelled and not part of the run.

Read in the code and not modelled: `-T all` ends only the loop over sizes when
an error is found, and the count of the next type forgets it
(`osu:c/mpi/pt2pt/pt2pt_entry.c:124-164`); `-V` clears the errors for every
window size, so that only those of the last one are reported
(`osu:c/mpi/pt2pt/core/omb_pt2pt_iterations.c:175`); `osu:README:1519` names the
option `-r rotate` where the code has `-k`; a message size increment of 1 or 0
does not end; the displacement of a dynamic window is copied before the ranks
have exchanged it
(`osu:c/mpi/one-sided/core/omb_one_sided_core.c:131`); `README.md:40` excludes
`device_mem` where the directory is `device-mem`, so `helper.py` builds it all
the same.

## 6. Abstractions and what they cost

- No clock. Properties speak of what is under way when the clock is read. That
  rank 0 may *start* its clock late (`overview/main.c:74`,
  `atomic-spacing/main.c:129`), that `t_start` is read before a barrier
  (`observer.c:89`), and the guessed sleep of `dummy_run_intel` are therefore
  outside.
- Data are not modelled except for the flag, counters, and, with `-c`, the
  iteration whose pattern a message carries. That a spoiled message is noticed
  is an assumption about the comparison; that the comparison happens, on what,
  and what follows from it, is modelled. The transport spoils at most one
  message in a run.
- The unified memory model is assumed: a load by rank 0 after synchronisation
  sees what has been done there. Accumulates of different kinds on one word are
  atomic to each other in `Interaction` (which uses `MPI_Get` there as well: a
  get concurrent with the replace is taken to fetch the old or the new word).
- Errors of MPI end the job; only `Abort` in `OverlapPerformance` and the
  failing allocation of `DeviceMem` are modelled. A failed `MPI_CHECK` of the
  OSU suite is not.
- `size < 2` (`interaction/main.c:68` leaves; `atomic-spacing` divides by zero)
  is excluded by assumption, and so is more observers than ranks in `Overview`.
- Assumed of MPI: collectives match by order, messages of a channel are in
  order, shared locks do not exclude each other, fetch-and-add of one origin at
  one place is in order. `osu_latency_mt`'s threads share a channel, so that
  their messages may cross.
- Ranks are the actors; the only threads modelled are those of `osu_latency_mt`.
- STREAM's OpenMP threads all call `MPI_Test` on one request (`stream.c:223`);
  what a library makes of that is not defined, and it is taken as one progress
  call.

## 7. Not modelled

- `helper.py`, `osu-mbs/run_all.py`, shell scripts, plotting: sequential text
  and I/O.
- The OSU launchers, startup tests and generated build files: no protocol.
- Of the OSU benchmarks: the loop over data types (`-T all`), varied windows
  (`-V`), multiple buffers, GPU placement and derived types, the computation
  that nonblocking collectives overlap with, the kinds of windows (`-w`) and
  with them the exchange of addresses, the parsing of options, printing, graphs,
  PAPI.
- STREAM and DGEMM numerics, `print_metric`, Score-P annotations.

## 8. Plan

All of the models this project started with are there: the collectives and RMA
layers; `interaction` with its refinement; the other own benchmarks; the
refinement of `AtomicCounter`; `striding`; and the OSU suite with its one-sided
synchronisations. The proofs cover the own benchmarks and, of the suite, what a
rank does by itself, that the sides agree, that nothing is left, and that errors
are told. What could be added, in this order:

1. `NothingLeftBehind` when sizes are left out: from `Judgement`, with words in
   which the decision to leave out sizes is a letter, where nothing is under way.
2. `EveryReceiptChecked`: courses that also remember whether a buffer was compared.
3. `UnexpectedBounded`, `ClockCoversDelivery`, `TouchAlone`, `ValidationSound`:
   how far the two ends of a channel can be apart.
4. In the models: `-T all` and `-V` as outer loops of the programs; the kinds of
   windows of the one-sided benchmarks, with addresses as data, so that the
   stale displacement becomes a violation.
