------------------------------ MODULE SuiteOps ------------------------------
(***************************************************************************)
(* The vocabulary in which the benchmarks of the OSU suite are written     *)
(* down.  What an actor (a rank, or one thread of it) executes is a        *)
(* sequence of calls, with the loops over message sizes, window sizes and  *)
(* iterations unrolled: a program of the suite branches on nothing but its *)
(* rank, its options and, once per message size, on its error count.       *)
(*                                                                         *)
(* Bodies of messages are left out but for the iteration whose pattern     *)
(* they carry.                                                             *)
(***************************************************************************)
EXTENDS Naturals, Sequences, SequencesExt

CONSTANTS
    Sizes,      \* the message sizes of the outermost loop
    Windows,    \* the window sizes: <<options.window_size>>, or those of -V
    Skip,       \* options.skip: warm-up iterations
    Iters,      \* options.iterations: measured iterations
    Warmup,     \* options.warmup_validation, where -c is given
    Procs       \* the ranks of a collective benchmark

ASSUME SizesAssumption == Sizes \in Seq(Nat \ {0}) /\ Sizes # <<>>
ASSUME WindowsAssumption == Windows \in Seq(Nat \ {0}) /\ Windows # <<>>
ASSUME SkipAssumption == Skip \in Nat
ASSUME ItersAssumption == Iters \in Nat \ {0}
ASSUME WarmupAssumption == Warmup \in Nat
ASSUME ProcsAssumption == Procs \in Nat /\ Procs >= 2

Iterations == [k \in 1 .. Skip + Iters |-> k - 1]

\* The iterations after the warm-up ones.
Measured(i) == i >= Skip

LastOne(i) == i = Skip + Iters - 1

\* Without -c there are no warm-ups within an iteration.
WarmupValidation(v) == IF v THEN Warmup ELSE 0

\* n times the calls of s, as a for loop makes them.
Times(n, s) == FlattenSeq([k \in 1 .. n |-> s])

\* The calls that s names for each element of a sequence.
ForEach(seq, s(_)) == FlattenSeq([k \in 1 .. Len(seq) |-> s(seq[k])])

\* s, if the condition under which the code makes these calls holds.
Given(condition, s) == IF condition THEN s ELSE <<>>

-----------------------------------------------------------------------------
\* Messages.  A reply is a single byte whatever size is being measured.
ReplySize == 0

ISend(to, tag, size)   == <<[op |-> "isend", peer |-> to, tag |-> tag, size |-> size]>>
IRecv(from, tag, size) == <<[op |-> "irecv", peer |-> from, tag |-> tag, size |-> size]>>

\* Until none of the caller's requests of the kind are left.
Wait(kind) == <<[op |-> "wait", kind |-> kind]>>

\* The blocking calls are those that wait for the request they start.
Send(to, tag, size)   == ISend(to, tag, size) \o Wait("isend")
Recv(from, tag, size) == IRecv(from, tag, size) \o Wait("irecv")

\* Collective operations: the call, and what has to have happened when it, or
\* the wait for its request, returns.  data are the ranks into whose receive
\* buffers it can bring something.  form tells how buffers and requests are
\* used: "plain", "in_place" (the active buffers), "persistent", or the name of
\* the pSync array that OpenSHMEM needs for the operation.
Enter(kind, root, data, form) ==
    <<[op |-> "enter", kind |-> kind, root |-> root, data |-> data, form |-> form]>>

Leave == <<[op |-> "leave"]>>

Everyone == 0 .. Procs - 1

\* Barriers and reductions that are not what is being measured.
Barrier   == Enter("barrier", 0, {}, "plain") \o Leave
Reduce    == Enter("to_root", 0, {}, "plain") \o Leave

\* A barrier that is never what is being measured, even if the clock runs.
Sync      == Enter("sync", 0, {}, "plain") \o Leave

\* Everyone's error count becomes the sum of all.
SumErrors == Enter("sum_errors", 0, {}, "plain") \o Leave

\* Reading the clock; adding what was transferred between the two to the total.
StartClock == <<[op |-> "start"]>>
StopClock  == <<[op |-> "stop"]>>
Sample     == <<[op |-> "sample"]>>

\* One interval for all measured iterations.
StartOnce(i) == Given(i = Skip, StartClock)

\* Both buffers get the pattern of iteration i; what was received is compared
\* with the pattern.
Fill(i) == <<[op |-> "fill", stamp |-> i]>>
Check   == <<[op |-> "check"]>>

\* The error count is cleared, decides about the next size, and about the exit
\* code of the rank.
ClearErrors   == <<[op |-> "clear"]>>
BreakOnErrors == <<[op |-> "break"]>>
Report        == <<[op |-> "report"]>>

-----------------------------------------------------------------------------
\* An operation on the memory of another rank; with fetch, it brings something
\* back to its caller.  within tells whether it keeps to both ranks' buffers.
RmaWithin(to, fetch, within) ==
    <<[op |-> "rma", peer |-> to, fetch |-> fetch, within |-> within]>>

Rma(to, fetch) == RmaWithin(to, fetch, TRUE)

\* Until the caller's operations ("all"), or what they bring back ("fetched"),
\* have arrived.
Flush(which) == <<[op |-> "flush", which |-> which]>>

\* The epochs of MPI: passive ones ("lock"), those opened and closed with
\* MPI_Win_start and MPI_Win_complete ("start"), and MPI_Win_fence.
OpenEpoch(kind) == <<[op |-> "open", kind |-> kind]>>
CloseEpoch(kind) ==
    Flush(IF kind = "lock" THEN "all" ELSE "fetched") \o <<[op |-> "close", kind |-> kind]>>

\* MPI_Win_post; MPI_Win_wait, for the operations of one other rank.
Post        == <<[op |-> "post"]>>
Await(from) == <<[op |-> "await", peer |-> from]>>

Fence == Enter("fence", 0, {}, "plain") \o Leave

\* Reading or writing what others have access to, with plain loads and stores.
Touch == <<[op |-> "touch"]>>
=============================================================================
