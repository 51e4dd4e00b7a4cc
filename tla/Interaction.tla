----------------------------- MODULE Interaction -----------------------------
(***************************************************************************)
(* interaction/: a compute task (STREAM or DGEMM) on the target rank of a  *)
(* window while observer ranks hammer that window with RMA operations.     *)
(*                                                                         *)
(* Word 0 of rank 0's window is the protocol: the main ranks put 1 there   *)
(* before the task, REPLACE it by 2 when the task is over, and every       *)
(* observer tests what its operations fetch from it.  All ranks walk       *)
(* through the same world collectives, whatever their role.                *)
(***************************************************************************)
EXTENDS MPIWorld, FiniteSetsExt

CONSTANTS
    NumMain,        \* argv[1]: ranks that run the compute task
    NumObservers,   \* argv[2]: ranks that access rank 0's window meanwhile
    Op,             \* the operation the observers were compiled for
    ITERATIONS,     \* operations per batch of the get and get_acc observers
    AsyncProgress,  \* RMA at rank 0 completes without rank 0 calling MPI
    IntelProg,      \* compiled with INTEL_PROG: the task polls MPI_Test
    Garbage,        \* what freshly allocated window memory may hold
    MaxRounds       \* bound: batches an observer starts before the flag falls

ASSUME SeveralRanks == Size >= 2                        \* main.c:68
ASSUME NumMainAssumption == NumMain \in Nat \ {0}
ASSUME NumObserversAssumption == NumObservers \in Nat
ASSUME OpAssumption == Op \in {"get", "get_acc", "fop", "cas"}
ASSUME BatchAssumption == ITERATIONS \in Nat \ {0}
ASSUME BuildAssumption == AsyncProgress \in BOOLEAN /\ IntelProg \in BOOLEAN
ASSUME GarbageAssumption == Garbage \subseteq Nat /\ Garbage # {}
ASSUME MaxRoundsAssumption == MaxRounds \in Nat \ {0}

Half == Size \div 2
Main == {r \in Rank : r < NumMain /\ r < Half}
Observer == {r \in Rank : r >= Half /\ r - Half < NumObservers}

VARIABLES
    word,     \* word[m]: window_ptr[0] of main rank m; word[0] is the flag
    locked,   \* r holds the shared lock on rank 0 of its window
    todo,     \* operations of r's batch (or r's REPLACE) not yet done at rank 0
    got,      \* values the batch of observer r has fetched so far
    rounds,   \* batches r has completed: metric in observer.c
    request,  \* r has an active receive request (INTEL_PROG only)
    contrib,  \* what r has put into the reduction
    total,    \* the sum the root has received and prints
    hits,     \* history: operations of r that rank 0's memory has seen
    late      \* history: batches r has started after the flag fell

world == <<pc, inside, calls>>
data  == <<word, locked, todo, got, rounds, request, contrib, total, hits, late>>
vars  == <<pc, inside, calls, word, locked, todo, got, rounds, request,
           contrib, total, hits, late>>

-----------------------------------------------------------------------------
(* The programs of the three roles. *)

Label == {"alloc", "publish", "barrier1", "lock", "barrier2", "kernel", "stop",
          "stopping", "issue", "flush", "unlock", "barrier3", "cancel",
          "reduce", "free", "finalize", "done"}

CollectiveAt == [alloc |-> "win_allocate", barrier1 |-> "barrier",
                 barrier2 |-> "barrier",   barrier3 |-> "barrier",
                 reduce |-> "reduce",      free |-> "win_free",
                 finalize |-> "finalize"]

\* Each role's program, as the label that follows each label.
\* An idle rank that forgets one of the barriers (faulty):
IdleProgramSkipsBarrier ==
    [alloc |-> "barrier1", barrier1 |-> "barrier2", barrier2 |-> "reduce",
     reduce |-> "free", free |-> "finalize", finalize |-> "done"]

IdleProgram ==
    [alloc |-> "barrier1", barrier1 |-> "barrier2", barrier2 |-> "barrier3",
     barrier3 |-> "reduce", reduce |-> "free", free |-> "finalize",
     finalize |-> "done"]

\* A main rank that arms the flag only after the second barrier (faulty):
MainProgramPublishesLate ==
    [alloc |-> "barrier1", barrier1 |-> "barrier2", barrier2 |-> "publish",
     publish |-> "kernel", kernel |-> "stop", stop |-> "stopping",
     stopping |-> "barrier3", barrier3 |-> IF IntelProg THEN "cancel" ELSE "reduce",
     cancel |-> "reduce", reduce |-> "free", free |-> "finalize",
     finalize |-> "done"]

\* A main rank that signals the end before it runs the task (faulty):
MainProgramStopsEarly ==
    [alloc |-> "publish", publish |-> "barrier1", barrier1 |-> "barrier2",
     barrier2 |-> "stop", stop |-> "stopping", stopping |-> "kernel",
     kernel |-> "barrier3", barrier3 |-> IF IntelProg THEN "cancel" ELSE "reduce",
     cancel |-> "reduce", reduce |-> "free", free |-> "finalize",
     finalize |-> "done"]

MainProgram ==
    [alloc |-> "publish", publish |-> "barrier1", barrier1 |-> "barrier2",
     barrier2 |-> "kernel", kernel |-> "stop", stop |-> "stopping",
     stopping |-> "barrier3", barrier3 |-> IF IntelProg THEN "cancel" ELSE "reduce",
     cancel |-> "reduce", reduce |-> "free", free |-> "finalize",
     finalize |-> "done"]

\* What follows flush depends on the flag: see Verdict.
ObserverProgram ==
    [alloc |-> "barrier1", barrier1 |-> "lock", lock |-> "barrier2",
     barrier2 |-> "issue", issue |-> "flush", unlock |-> "barrier3",
     barrier3 |-> "reduce", reduce |-> "free", free |-> "finalize",
     finalize |-> "done"]

Program(r) == IF r \in Main THEN MainProgram
              ELSE IF r \in Observer THEN ObserverProgram
              ELSE IdleProgram

Advance(r) == Goto(r, Program(r)[pc[r]])

\* The places from which an observer that started its loop never looks again.
PastLoop == {"unlock", "barrier3", "cancel", "reduce", "free", "finalize", "done"}

Init ==
    /\ pc = [r \in Rank |-> "alloc"]
    /\ inside = [r \in Rank |-> FALSE]
    /\ calls = [r \in Rank |-> <<>>]
    /\ word \in [Main -> Garbage]
    /\ locked = [r \in Rank |-> FALSE]
    /\ todo = [r \in Rank |-> 0]
    /\ got = [r \in Rank |-> {}]
    /\ rounds = [r \in Rank |-> 0]
    /\ request = [r \in Rank |-> FALSE]
    /\ contrib = [r \in Rank |-> 0]
    /\ total = 0
    /\ hits = [r \in Rank |-> 0]
    /\ late = [r \in Rank |-> 0]

-----------------------------------------------------------------------------
(* Collectives. *)

PerRound == IF Op \in {"get", "get_acc"} THEN ITERATIONS ELSE 1

\* Contribution without observer.c:163, the batches instead of the operations (faulty).
ContributionOfBatches(r) == IF r \in Observer THEN rounds[r] ELSE 0

\* Main and idle ranks contribute zero, observers what they have counted.
Contribution(r) == IF r \in Observer THEN rounds[r] * PerRound ELSE 0

SumOf(f) == MapThenSumSet(LAMBDA r : f[r], Rank)

EnterCollective(r) ==
    /\ pc[r] \in DOMAIN CollectiveAt
    /\ Enter(r, CollectiveAt[pc[r]])
    /\ contrib' = IF pc[r] = "reduce"
                    THEN [contrib EXCEPT ![r] = Contribution(r)] ELSE contrib
    /\ UNCHANGED <<pc, word, locked, todo, got, rounds, request, total, hits, late>>

LeaveCollective(r) ==
    /\ pc[r] \in DOMAIN CollectiveAt
    /\ Leave(r, CollectiveAt[pc[r]], Half)
    /\ Advance(r)
    /\ total' = IF pc[r] = "reduce" /\ r = Half THEN SumOf(contrib) ELSE total
    /\ UNCHANGED <<word, locked, todo, got, rounds, request, contrib, hits, late>>

-----------------------------------------------------------------------------
(* Main ranks. *)

\* Lock, store, sync, unlock; the store goes to the rank's own window.
Publish(m) ==
    /\ pc[m] = "publish"
    /\ word' = [word EXCEPT ![m] = 1]
    /\ request' = [request EXCEPT ![m] = IntelProg]
    /\ Advance(m)
    /\ UNCHANGED <<inside, calls, locked, todo, got, rounds, contrib, total, hits, late>>

\* The task touches no window; with INTEL_PROG it polls a receive that
\* nobody ever matches.
Kernel(m) ==
    /\ pc[m] = "kernel"
    /\ Advance(m)
    /\ UNCHANGED <<inside, calls, data>>

\* Lock rank 0 and start the REPLACE of its word 0.
Stop(m) ==
    /\ pc[m] = "stop"
    /\ locked' = [locked EXCEPT ![m] = TRUE]
    /\ todo' = [todo EXCEPT ![m] = 1]
    /\ Advance(m)
    /\ UNCHANGED <<inside, calls, word, got, rounds, request, contrib, total, hits, late>>

\* MPI_Win_unlock returns when the REPLACE has been done at rank 0.
Stopped(m) ==
    /\ pc[m] = "stopping"
    /\ todo[m] = 0
    /\ locked' = [locked EXCEPT ![m] = FALSE]
    /\ Advance(m)
    /\ UNCHANGED <<inside, calls, word, todo, got, rounds, request, contrib,
                   total, hits, late>>

\* MPI_Cancel and MPI_Wait on the receive of Publish.
CancelRequest(m) ==
    /\ pc[m] = "cancel"
    /\ request' = [request EXCEPT ![m] = FALSE]
    /\ Advance(m)
    /\ UNCHANGED <<inside, calls, word, locked, todo, got, rounds, contrib,
                   total, hits, late>>

-----------------------------------------------------------------------------
(* Observers. *)

Lock(o) ==
    /\ pc[o] = "lock"
    /\ locked' = [locked EXCEPT ![o] = TRUE]
    /\ Advance(o)
    /\ UNCHANGED <<inside, calls, word, todo, got, rounds, request, contrib,
                   total, hits, late>>

\* Start a batch.  The bound only keeps the run finite: it holds an observer
\* back until the flag falls, and the flag does not wait for observers.
Issue(o) ==
    /\ pc[o] = "issue"
    /\ rounds[o] < MaxRounds \/ word[0] = 2
    /\ todo' = [todo EXCEPT ![o] = PerRound]
    /\ got' = [got EXCEPT ![o] = {}]
    /\ late' = [late EXCEPT ![o] = IF word[0] = 2 THEN @ + 1 ELSE @]
    /\ Advance(o)
    /\ UNCHANGED <<inside, calls, word, locked, rounds, request, contrib, total, hits>>

\* Without the flush recv[0] may still hold the 1 of an earlier batch (faulty).
ArrivedUnflushed(o) == got[o] \cup {1}

\* The operations of a batch all fetch into recv, in no particular order:
\* after the flush recv[0] is the value one of them has fetched.
Arrived(o) == got[o]

\* Two faulty variants of the test of recv[0]: the comparison of line 149
\* inverted, and a way out of the loop that misses the unlock.
VerdictInverted(v) == IF v = 2 THEN "unlock" ELSE IF v = 1 THEN "free" ELSE "issue"
VerdictSkipsUnlock(v) == IF v = 2 THEN "barrier3" ELSE IF v = 1 THEN "issue" ELSE "free"

\* Where the loop goes with v in recv[0]; any value but 1 and 2 makes
\* run_observer return to main, which goes straight to MPI_Win_free.
Verdict(v) ==
    CASE v = 2 -> "unlock"
      [] v = 1 -> "issue"
      [] OTHER -> "free"

\* Flush, count the batch, test recv[0].
Flush(o) ==
    /\ pc[o] = "flush"
    /\ todo[o] = 0
    /\ rounds' = [rounds EXCEPT ![o] = @ + 1]
    /\ \E v \in Arrived(o) : Goto(o, Verdict(v))
    /\ UNCHANGED <<inside, calls, word, locked, todo, got, request, contrib,
                   total, hits, late>>

Unlock(o) ==
    /\ pc[o] = "unlock"
    /\ locked' = [locked EXCEPT ![o] = FALSE]
    /\ Advance(o)
    /\ UNCHANGED <<inside, calls, word, todo, got, rounds, request, contrib,
                   total, hits, late>>

-----------------------------------------------------------------------------
(* Rank 0's memory. *)

\* An addition of one would be faulty.
FopSrcOne == 1

FopSrc == 0
CasCompare == 2
CasSrc == 2

\* What an observer's operation leaves in word 0 when it finds old there.
Result(old) ==
    CASE Op = "fop" -> old + FopSrc
      [] Op = "cas" -> IF old = CasCompare THEN CasSrc ELSE old
      [] OTHER      -> old          \* a get, or a sum with zeroes

\* Without asynchronous progress an operation is done only while rank 0 is
\* in MPI: in a collective, in its own unlock, or polling from its task.
RankZeroInMPI ==
    \/ AsyncProgress
    \/ inside[0]
    \/ pc[0] = "stopping"
    \/ IntelProg /\ pc[0] = "kernel"

\* An operation too many in a batch (faulty).
ServeTooMany(o) ==
    /\ pc[o] = "flush"
    /\ RankZeroInMPI
    /\ todo' = [todo EXCEPT ![o] = @ - 1]
    /\ got' = [got EXCEPT ![o] = @ \cup {word[0]}]
    /\ hits' = [hits EXCEPT ![o] = @ + 1]
    /\ word' = [word EXCEPT ![0] = Result(@)]
    /\ UNCHANGED <<pc, inside, calls, locked, rounds, request, contrib, total, late>>

\* One operation of an observer's batch is done at rank 0.
Serve(o) ==
    /\ pc[o] = "flush"
    /\ todo[o] > 0
    /\ RankZeroInMPI
    /\ todo' = [todo EXCEPT ![o] = @ - 1]
    /\ got' = [got EXCEPT ![o] = @ \cup {word[0]}]
    /\ hits' = [hits EXCEPT ![o] = @ + 1]
    /\ word' = [word EXCEPT ![0] = Result(@)]
    /\ UNCHANGED <<pc, inside, calls, locked, rounds, request, contrib, total, late>>

\* The REPLACE of main rank m is done at rank 0.
Land(m) ==
    /\ pc[m] = "stopping"
    /\ todo[m] > 0
    /\ RankZeroInMPI
    /\ todo' = [todo EXCEPT ![m] = 0]
    /\ word' = [word EXCEPT ![0] = 2]
    /\ UNCHANGED <<pc, inside, calls, locked, got, rounds, request, contrib,
                   total, hits, late>>

-----------------------------------------------------------------------------
MainStep(m) ==
    Publish(m) \/ Kernel(m) \/ Stop(m) \/ Stopped(m) \/ CancelRequest(m)

ObserverStep(o) == Lock(o) \/ Issue(o) \/ Flush(o) \/ Unlock(o)

RankStep(r) ==
    \/ EnterCollective(r)
    \/ LeaveCollective(r)
    \/ r \in Main /\ MainStep(r)
    \/ r \in Observer /\ ObserverStep(r)

\* The job has ended.
Finished == AllDone /\ UNCHANGED vars

Next ==
    \/ \E r \in Rank : RankStep(r)
    \/ \E o \in Observer : Serve(o)
    \/ \E m \in Main : Land(m)
    \/ Finished

Safety == Init /\ [][Next]_vars

\* Every process keeps running, and an operation that rank 0 can serve is served.
Fairness ==
    /\ \A r \in Rank : WF_vars(RankStep(r))
    /\ \A o \in Observer : WF_vars(Serve(o))
    /\ \A m \in Main : WF_vars(Land(m))

Spec == Safety /\ Fairness

-----------------------------------------------------------------------------
TypeOK ==
    /\ pc \in [Rank -> Label]
    /\ inside \in [Rank -> BOOLEAN]
    /\ calls \in [Rank -> Seq(CollectiveKind)]
    /\ word \in [Main -> Nat]
    /\ locked \in [Rank -> BOOLEAN]
    /\ todo \in [Rank -> Nat]
    /\ got \in [Rank -> SUBSET Nat]
    /\ rounds \in [Rank -> Nat]
    /\ request \in [Rank -> BOOLEAN]
    /\ contrib \in [Rank -> Nat]
    /\ hits \in [Rank -> Nat]
    /\ late \in [Rank -> Nat]

\* observer.c:149: no batch ever fetches anything but the two flag values, so
\* the early return that skips unlock, barrier and reduction is never taken.
\* It takes the barriers of all the ranks to keep garbage out of sight.
ValidationHolds == \A o \in Observer : got[o] \subseteq {1, 2}

\* observer.c:144: an observer starts at most one batch after the flag has
\* fallen, although the operations of a batch arrive in any order.
OverrunAtMostOneBatch == \A o \in Observer : late[o] <= 1

\* The purpose of the benchmark (README.md:18): as long as a main rank is
\* inside its task, every observer is still accessing rank 0's window.
TaskObserved ==
    \A m \in Main, o \in Observer : pc[m] = "kernel" => pc[o] \notin PastLoop

\* observer.c:163-172, main.c:84-86: what the root prints is the number of
\* operations that rank 0's memory has seen, of all observers, nothing else.
PrintedTotalIsExact ==
    \A r \in Observer :
        r = Half /\ pc[r] \in {"free", "finalize", "done"} => total = SumOf(hits)

\* main.c:102-103: a rank that frees the window has closed its epoch and its
\* request, and once any rank has left MPI_Win_free nobody has an operation
\* under way on the freed memory.
CleanTeardown ==
    \A r \in Rank :
        /\ pc[r] = "free" => ~locked[r] /\ ~request[r]
        /\ pc[r] \in {"finalize", "done"} => \A s \in Rank : todo[s] = 0

\* observer.c:57-70: no operation of an observer changes the flag, whichever
\* value it finds there: the observers measure, they do not take part.
ObserversOnlyLook == [][\A o \in Observer : hits'[o] # hits[o] => word' = word]_vars

\* Every run of the benchmark ends, on every rank.
Termination == <>AllDone

-----------------------------------------------------------------------------
(* The benchmark implements the flag and its watchers. *)

Phase == IF pc[0] \in {"alloc", "publish"} THEN "setup"
         ELSE IF word[0] = 2 THEN "stopped" ELSE "running"

Watching(o) ==
    CASE pc[o] \in {"alloc", "barrier1", "lock", "barrier2"} -> "out"
      [] pc[o] \in {"issue", "flush"}                        -> "watching"
      [] OTHER                                               -> "left"

Flag == INSTANCE StopFlag WITH
            Watcher <- Observer,
            phase   <- Phase,
            watcher <- [o \in Observer |-> Watching(o)]

\* The flag of rank 0 is armed once and falls once, observers look at it only
\* in between and afterwards, and each of them leaves after it has fallen.
ImplementsStopFlag == Flag!FlagSpec

-----------------------------------------------------------------------------
(* Why it works: the inductive invariant behind the theorems.              *)

\* Collectives a rank has entered when it arrives at a label ...
Before == [alloc |-> 0, publish |-> 1, barrier1 |-> 1, lock |-> 2, barrier2 |-> 2,
           kernel |-> 3, stop |-> 3, stopping |-> 3, issue |-> 3, flush |-> 3,
           unlock |-> 3, barrier3 |-> 3, cancel |-> 4, reduce |-> 4, free |-> 5,
           finalize |-> 6, done |-> 7]

\* ... and those among them that the whole world has entered by then: a rank
\* that is past the reduction knows nothing of the others' reductions.
AllBefore(l) == IF l = "free" THEN 4 ELSE IF l = "done" THEN 6 ELSE Before[l]

Script == <<"win_allocate", "barrier", "barrier", "barrier", "reduce",
            "win_free", "finalize">>

EveryoneOnScript ==
    \A r \in Rank :
        /\ inside[r] => pc[r] \in DOMAIN CollectiveAt
        /\ Len(calls[r]) = Before[pc[r]] + (IF inside[r] THEN 1 ELSE 0)
        /\ \A n \in 1 .. Len(calls[r]) : calls[r][n] = Script[n]

EveryoneInRole ==
    /\ \A m \in Main : pc[m] \in DOMAIN MainProgram \cup {"done"}
    /\ \A o \in Observer : pc[o] \in DOMAIN ObserverProgram \cup {"flush", "done"}
    /\ \A r \in Rank \ (Main \cup Observer) : pc[r] \in DOMAIN IdleProgram \cup {"done"}

BarriersHold == \A r, s \in Rank : Len(calls[s]) >= AllBefore(pc[r])

FlagArmed == pc[0] \notin {"alloc", "publish"} => word[0] \in {1, 2}

\* A batch started after the fall can only fetch the 2.
LateBatchIsLast ==
    \A o \in Observer :
        /\ late[o] <= 1
        /\ pc[o] \in {"alloc", "barrier1", "lock", "barrier2", "issue"} => late[o] = 0
        /\ pc[o] = "flush" /\ late[o] = 1 => got[o] \subseteq {2} /\ word[0] = 2

OperationsCounted ==
    /\ \A r \in Rank \ Observer : hits[r] = 0
    /\ \A o \in Observer :
          /\ todo[o] <= PerRound
          /\ pc[o] # "flush" => todo[o] = 0
          /\ hits[o] = rounds[o] * PerRound
                        + (IF pc[o] = "flush" THEN PerRound - todo[o] ELSE 0)
    /\ \A r \in Rank : Len(calls[r]) >= 5 => contrib[r] = hits[r]

\* Whoever has fetched a 2, or has left the loop because of one, saw the end.
LeftAfterFall ==
    \A o \in Observer :
        /\ pc[o] \in {"alloc", "barrier1", "lock", "barrier2"} => got[o] = {}
        /\ 2 \in got[o] \/ pc[o] \in PastLoop => word[0] = 2

ResourcesHeld ==
    \A r \in Rank :
        /\ locked[r] => \/ r \in Main /\ pc[r] = "stopping"
                        \/ r \in Observer /\ pc[r] \in {"barrier2", "issue", "flush", "unlock"}
        /\ todo[r] > 0 => pc[r] \in {"stopping", "flush"}
        /\ request[r] => r \in Main /\ IntelProg /\ pc[r] \in
               {"barrier1", "barrier2", "kernel", "stop", "stopping", "barrier3", "cancel"}

\* What each rank's program, the barriers and the flag guarantee together:
\* every safety property above follows from it, none is inductive by itself.
Inv ==
    /\ TypeOK
    /\ EveryoneOnScript
    /\ EveryoneInRole
    /\ BarriersHold
    /\ FlagArmed
    /\ ValidationHolds
    /\ LateBatchIsLast
    /\ LeftAfterFall
    /\ OperationsCounted
    /\ PrintedTotalIsExact
    /\ ResourcesHeld
=============================================================================
