------------------------- MODULE ReplacePerformance -------------------------
(***************************************************************************)
(* replace-performance/main.c: every rank but 0 times eight ways to write  *)
(* and read rank 0's window, one section of the program after the other,   *)
(* alternately with accumulates and with puts or gets.  Rank 0 passes one  *)
(* barrier per section, counting to eight by itself.                       *)
(*                                                                         *)
(* The prefix R is on the names that Overview has too, so that one module  *)
(* can state theorems about both.                                          *)
(***************************************************************************)
EXTENDS RMAWorld

CONSTANTS
    Repetitions,   \* argv[1]: ntimes
    Operations     \* ITERATIONS: operations per rank and section

ASSUME RepetitionsAssumption == Repetitions \in Nat \ {0}
ASSUME OperationsAssumption == Operations \in Nat \ {0}

\* The sections in program order; the strided ones differ in the data only.
Sections == <<"accumulate", "put", "accumulate", "put",
              "get_accumulate", "get", "get_accumulate", "get">>

\* The bound of rank 0's loop, one too small (faulty).
RootBarriersSeven == 7

\* The bound of rank 0's loop.
RootBarriers == 8

VARIABLES
    index,     \* index[r]: section r is in, or the loop variable of rank 0
    rep,       \* rep[r]: repetition r is in
    served     \* history: operations that r has completed

rvars == <<pc, inside, calls, epoch, todo, index, rep, served>>

-----------------------------------------------------------------------------
RCollectiveAt == [alloc |-> "win_allocate", barrier |-> "barrier", meet |-> "barrier",
                  free |-> "win_free", finalize |-> "finalize"]

\* What follows each label.
RSource(r) ==
    [alloc |-> "barrier", barrier |-> "lock", lock |-> IF r = 0 THEN "meet" ELSE "issue",
     issue |-> "flush", flush |-> "meet", meet |-> "next", unlock |-> "free",
     free |-> "finalize", finalize |-> "done"]

\* The flush comes after the barrier that ends the section (faulty).
RProgramUnflushed(r) ==
    IF r = 0 THEN RSource(r)
    ELSE [RSource(r) EXCEPT !.issue = "meet", !.meet = "flush", !.flush = "next"]

RProgram(r) == RSource(r)

RAdvance(r) == Goto(r, RProgram(r)[pc[r]])

RInit ==
    /\ WorldInit("alloc")
    /\ index = [r \in Rank |-> 1]
    /\ rep = [r \in Rank |-> 0]
    /\ served = [r \in Rank |-> 0]

REnterCollective(r) ==
    /\ CallCollective(r, RCollectiveAt)
    /\ UNCHANGED <<index, rep, served>>

RLeaveCollective(r) ==
    /\ ReturnFromCollective(r, RCollectiveAt)
    /\ RAdvance(r)
    /\ UNCHANGED <<index, rep, served>>

\* Operations in one section.
RBatch == Operations

RWindowCall(r) ==
    /\ \/ pc[r] = "lock" /\ WinLock(r)
       \/ pc[r] = "issue" /\ StartBatch(r, RBatch)
       \/ pc[r] = "flush" /\ WinFlush(r)
       \/ pc[r] = "unlock" /\ WinUnlock(r)
    /\ RAdvance(r)
    /\ UNCHANGED <<index, rep, served>>

\* Sections per repetition, of rank 0 and of the others.
Turns(r) == IF r = 0 THEN RootBarriers ELSE Len(Sections)

\* On to the next section, the next repetition, or the end.
NextSection(r) ==
    /\ pc[r] = "next"
    /\ IF index[r] < Turns(r)
         THEN index' = [index EXCEPT ![r] = @ + 1] /\ UNCHANGED rep
         ELSE index' = [index EXCEPT ![r] = 1] /\ rep' = [rep EXCEPT ![r] = @ + 1]
    /\ Goto(r, IF rep'[r] = Repetitions THEN "unlock" ELSE IF r = 0 THEN "meet" ELSE "issue")
    /\ Locally /\ UNCHANGED served

\* One operation of r is done at rank 0.
RServe(r) ==
    /\ CompleteOne(r)
    /\ served' = [served EXCEPT ![r] = @ + 1]
    /\ UNCHANGED <<index, rep>>

-----------------------------------------------------------------------------
RStep(r) ==
    \/ REnterCollective(r)
    \/ RLeaveCollective(r)
    \/ RWindowCall(r)
    \/ NextSection(r)

\* The job has ended.
RFinished == AllDone /\ UNCHANGED rvars

RNext ==
    \/ \E r \in Rank : RStep(r) \/ RServe(r)
    \/ RFinished

RSpec == RInit /\ [][RNext]_rvars

-----------------------------------------------------------------------------
RTypeOK ==
    /\ WorldTypeOK(DOMAIN RSource(1) \cup {"next", "done"}, Operations)
    /\ \A r \in Rank : index[r] \in 1 .. Turns(r) /\ rep[r] \in 0 .. Repetitions
    /\ served \in [Rank -> 0 .. Repetitions * Len(Sections) * Operations]

\* main.c:93-172: operations of different sections are never under way
\* together: no rank's accumulates meet another's puts on the same memory, which
\* MPI leaves undefined, and no section is timed against another one's load.
SectionsApart ==
    \A r, s \in Rank : todo[r] > 0 /\ todo[s] > 0 => index[r] = index[s] /\ rep[r] = rep[s]

\* main.c:83-87, 176: rank 0, which counts barriers and not sections, gives up
\* its lock only after all the operations of all ranks.
TargetCountsRight ==
    pc[0] \in {"unlock", "free", "finalize", "done"} =>
        \A r \in Rank \ {0} : served[r] = Repetitions * Len(Sections) * Operations
=============================================================================
