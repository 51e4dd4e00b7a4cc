-------------------------- MODULE OverlapSemantics --------------------------
(***************************************************************************)
(* overlapping-windows-semantics/main.c: does fetch-and-add stay atomic    *)
(* when every rank accesses the same word of rank 0 through a window of    *)
(* its own?  The program counts what it has issued, and prints it next to  *)
(* what it finds in memory.  MPI promises atomicity for accesses through   *)
(* one window; whether it extends to overlapping windows is a property of  *)
(* the MPI library and the network card, here scope: both are considered.  *)
(***************************************************************************)
EXTENDS OverlappingWindows, RMAWorld

CONSTANTS
    Scopes,       \* the scopes of atomicity to be considered
    Garbage       \* what freshly allocated memory may hold

ASSUME ScopesAssumption == Scopes \subseteq {"memory", "window"} /\ Scopes # {}
ASSUME GarbageAssumption == Garbage \subseteq Nat /\ Garbage # {}

VARIABLES
    scope,     \* fetch-and-add is atomic whatever the window, or within one only
    cell,      \* window_ptr[0] on rank 0
    fetched,   \* fetched[r]: value the running fetch-and-add of r has read
    accesses,  \* accesses[r]: zero_accesses of r
    contrib,   \* contrib[r]: what r has put into the reduction
    printed    \* the two numbers of the output line, and whether it is out

counts == <<accesses, contrib, printed>>
vars == <<pc, inside, calls, epoch, todo, joined, scope, cell, fetched,
          accesses, contrib, printed>>

-----------------------------------------------------------------------------
(* The programs: the label that follows each label. *)

CollectiveAt == [barrier1 |-> "barrier", barrier2 |-> "barrier", barrier3 |-> "barrier",
                 barrier4 |-> "barrier", barrier5 |-> "barrier", barrier6 |-> "barrier",
                 reduce |-> "reduce", finalize |-> "finalize"]

BystanderSource ==
    [alloc |-> "barrier1", barrier1 |-> "pairs", pairs |-> "barrier2",
     barrier2 |-> "barrier3", barrier3 |-> "barrier4", barrier4 |-> "barrier5",
     barrier5 |-> "reduce", reduce |-> "print", print |-> "free",
     free |-> "barrier6", barrier6 |-> "finalize", finalize |-> "done"]

AccessorSource ==
    [alloc |-> "barrier1", barrier1 |-> "pairs", pairs |-> "lock", lock |-> "barrier2",
     barrier2 |-> "issue", issue |-> "flush", flush |-> "barrier3", barrier3 |-> "count",
     count |-> "barrier4", barrier4 |-> "unlock", unlock |-> "barrier5",
     barrier5 |-> "reduce", reduce |-> "print", print |-> "free",
     free |-> "barrier6", barrier6 |-> "finalize", finalize |-> "done"]

BystanderProgram == BystanderSource

AccessorProgram == AccessorSource

Program(r) == IF r \in Accessor THEN AccessorProgram ELSE BystanderProgram

Advance(r) == Goto(r, Program(r)[pc[r]])

\* The number of additions in a family of counts: its disjoint union's size.
Sum(f) == Cardinality(UNION {{r} \X (1 .. f[r]) : r \in DOMAIN f})

Init ==
    /\ WorldInit("alloc")
    /\ PairsInit
    /\ scope \in Scopes
    /\ cell \in Garbage
    /\ fetched = [r \in Rank |-> NotYet]
    /\ accesses = [r \in Rank |-> 0]
    /\ contrib = [r \in Rank |-> 0]
    /\ printed = [should |-> NotYet, after |-> NotYet]

-----------------------------------------------------------------------------
\* Rank 0 allocates the word and zeroes it, before the first barrier.
Alloc(r) ==
    /\ pc[r] = "alloc"
    /\ cell' = IF r = 0 THEN 0 ELSE cell
    /\ Locally /\ Advance(r)
    /\ UNCHANGED <<joined, scope, fetched, counts>>

EnterCollective(r) ==
    /\ CallCollective(r, CollectiveAt)
    /\ contrib' = IF pc[r] = "reduce"
                    THEN [contrib EXCEPT ![r] = accesses[r]] ELSE contrib
    /\ UNCHANGED <<joined, scope, cell, fetched, accesses, printed>>

LeaveCollective(r) ==
    /\ ReturnFromCollective(r, CollectiveAt)
    /\ Advance(r)
    /\ printed' = IF pc[r] = "reduce" /\ r = 0
                    THEN [printed EXCEPT !.should = Sum(contrib)] ELSE printed
    /\ UNCHANGED <<joined, scope, cell, fetched, accesses, contrib>>

\* The loops over the pairs: creation, and at the end MPI_Win_free.
WorkOnPairs(r) ==
    /\ pc[r] \in {"pairs", "free"}
    /\ PairsStep(r, IF pc[r] = "pairs" THEN Created ELSE Freed, Program(r)[pc[r]])
    /\ UNCHANGED <<epoch, todo, scope, cell, fetched, counts>>

\* The loop only starts the operations; they are done at rank 0 any time later.
WindowCall(a) ==
    /\ \/ pc[a] = "lock" /\ WinLock(a)
       \/ pc[a] = "issue" /\ StartBatch(a, ITERATIONS)
       \/ pc[a] = "flush" /\ WinFlush(a)
       \/ pc[a] = "unlock" /\ WinUnlock(a)
    /\ Advance(a)
    /\ UNCHANGED <<joined, scope, cell, fetched, counts>>

\* What a rank adds to zero_accesses.
AccessesCounted == ITERATIONS

Count(a) ==
    /\ pc[a] = "count"
    /\ accesses' = [accesses EXCEPT ![a] = @ + AccessesCounted]
    /\ Locally /\ Advance(a)
    /\ UNCHANGED <<joined, scope, cell, fetched, contrib, printed>>

\* Rank 0 prints the sum, and the word as its own load finds it; the others
\* go on to their MPI_Win_free.
PrintCounts(r) ==
    /\ pc[r] = "print"
    /\ printed' = IF r = 0 THEN [printed EXCEPT !.after = cell] ELSE printed
    /\ Locally /\ Advance(r)
    /\ UNCHANGED <<joined, scope, cell, fetched, accesses, contrib>>

-----------------------------------------------------------------------------
(* Rank 0's memory.  A rank's own fetch-and-adds are done one at a time and  *)
(* in order, MPI's default for accumulates of one origin at one place.       *)

\* A network card that keeps a window's accesses apart, but not those of
\* different windows, although scope says so (faulty).
MayFetchPerWindow(a) == fetched[a] = NotYet

\* Whether a's next fetch may begin while others are under way.
MayFetch(a) ==
    IF scope = "memory" THEN \A b \in Accessor : fetched[b] = NotYet
                        ELSE fetched[a] = NotYet

Fetch(a) ==
    /\ todo[a] > 0
    /\ MayFetch(a)
    /\ fetched' = [fetched EXCEPT ![a] = cell]
    /\ UNCHANGED <<pc, inside, calls, epoch, todo, joined, scope, cell, counts>>

Store(a) ==
    /\ fetched[a] # NotYet
    /\ CompleteOne(a)
    /\ cell' = fetched[a] + 1
    /\ fetched' = [fetched EXCEPT ![a] = NotYet]
    /\ UNCHANGED <<joined, scope, counts>>

-----------------------------------------------------------------------------
RankStep(r) ==
    \/ Alloc(r)
    \/ EnterCollective(r)
    \/ LeaveCollective(r)
    \/ WorkOnPairs(r)
    \/ r \in Accessor /\ (WindowCall(r) \/ Count(r))
    \/ PrintCounts(r)

Memory(a) == Fetch(a) \/ Store(a)

\* The job has ended.
Finished == AllDone /\ UNCHANGED vars

Next ==
    \/ \E r \in Rank : RankStep(r)
    \/ \E a \in Accessor : Memory(a)
    \/ Finished

Safety == Init /\ [][Next]_vars

\* Every process keeps running; rank 0's memory is free for one operation
\* after another, so each operation that may start again and again does.
Fairness ==
    /\ \A r \in Rank : WF_vars(RankStep(r))
    /\ \A a \in Accessor : SF_vars(Fetch(a)) /\ WF_vars(Store(a))

Spec == Safety /\ Fairness

-----------------------------------------------------------------------------
TypeOK ==
    /\ WorldTypeOK(DOMAIN AccessorSource \cup {"done"}, ITERATIONS)
    /\ PairsTypeOK
    /\ scope \in Scopes
    /\ cell \in Nat
    /\ fetched \in [Rank -> Nat \cup {NotYet}]
    /\ accesses \in [Rank -> {0, ITERATIONS}]
    /\ contrib \in [Rank -> {0, ITERATIONS}]
    /\ printed \in [should : Nat \cup {NotYet}, after : Nat \cup {NotYet}]

Issued == Cardinality(Accessor) * ITERATIONS

\* main.c:124, when atomicity extends over windows: the two printed numbers
\* are equal, and they are the number of fetch-and-adds of the whole run.
AfterIsExact ==
    scope = "memory" /\ printed.after # NotYet =>
        printed.after = Issued /\ printed.should = Issued

\* Rank 0 and its peers never wait for each other in a circle, neither over
\* the creation nor over the release of the windows: the program ends.
Termination == <>AllDone

BeforeIssue == {"alloc", "barrier1", "pairs", "lock", "barrier2", "issue"}

Counter == INSTANCE AtomicCounter WITH
               Worker  <- Accessor,
               Times   <- ITERATIONS,
               value   <- IF pc[0] = "alloc" THEN 0 ELSE cell,
               missing <- [a \in Accessor |->
                              IF pc[a] \in BeforeIssue THEN ITERATIONS ELSE todo[a]]

\* main.c:100, 124: with atomicity over all windows every step of the program
\* is one addition, or none, in the life of an atomic counter.
ImplementsCounter ==
    /\ Counter!CounterInit
    /\ [][scope = "memory" => Counter!CounterNext]_(Counter!counterVars)
=============================================================================
