------------------------------ MODULE MPIWorld ------------------------------
(***************************************************************************)
(* The part of MPI every benchmark of the suite leans on: a communicator   *)
(* of Size processes that call collective operations.  MPI itself is not   *)
(* in the repository; this module states what the benchmarks rely on.      *)
(*                                                                         *)
(* The n-th collective a process calls on MPI_COMM_WORLD is matched with   *)
(* the n-th collective of every other process, whatever the names of the   *)
(* two calls are: the names of a process's calls are kept in calls, and    *)
(* that matched calls have the same name is a property of the programs     *)
(* (CollectivesMatch), not something MPI takes care of.                    *)
(***************************************************************************)
EXTENDS Naturals, Sequences

CONSTANT Size                       \* MPI_Comm_size(MPI_COMM_WORLD)

ASSUME SizeAssumption == Size \in Nat \ {0}

Rank == 0 .. Size - 1

VARIABLES
    pc,       \* pc[r]: the place in its program that rank r has reached
    inside,   \* inside[r]: r has entered the collective at pc[r], not left it
    calls     \* calls[r]: names of the world collectives r has entered, in order

\* Every process returns only after all of them have called.
Synchronising == {"win_allocate", "win_create", "barrier", "win_free"}

\* Data flows to one process, which waits for all; the others may return
\* as soon as their contribution is on its way.
Rooted == {"reduce"}

\* MPI_Finalize is collective, but no benchmark learns anything from its return.
CollectiveKind == Synchronising \cup Rooted \cup {"finalize"}

\* Everybody has entered the collective that r entered last.
AllEntered(r) == \A s \in Rank : Len(calls[s]) >= Len(calls[r])

Enter(r, kind) ==
    /\ ~inside[r]
    /\ inside' = [inside EXCEPT ![r] = TRUE]
    /\ calls' = [calls EXCEPT ![r] = Append(@, kind)]

\* r returns from the collective named kind, whose root (if any) is root.
Leave(r, kind, root) ==
    /\ inside[r]
    /\ kind \in Synchronising \/ (kind \in Rooted /\ r = root) => AllEntered(r)
    /\ inside' = [inside EXCEPT ![r] = FALSE]
    /\ UNCHANGED calls

Goto(r, label) == pc' = [pc EXCEPT ![r] = label]

AllDone == \A r \in Rank : pc[r] = "done"

\* Whatever two ranks have called, the n-th call of one is the n-th call of
\* the other: nobody ever sits in a barrier that its peers take for a reduction.
CollectivesMatch ==
    \A r, s \in Rank : \A n \in 1 .. Len(calls[r]) :
        n <= Len(calls[s]) => calls[r][n] = calls[s][n]
=============================================================================
