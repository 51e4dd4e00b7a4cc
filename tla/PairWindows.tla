----------------------------- MODULE PairWindows -----------------------------
(***************************************************************************)
(* The "overlapping windows technique" of overlapping-windows-semantics,   *)
(* overlapping-windows-performance and atomic-spacing: for every rank      *)
(* i > 0 there is a communicator {0, i} and, on it, a window; all of these *)
(* windows expose the same memory of rank 0.  Rank 0 creates and frees     *)
(* them one after the other, every other rank takes part in one only.      *)
(***************************************************************************)
EXTENDS MPIWorld, FiniteSetsExt

ASSUME PairsExist == Size >= 2

Pair == 1 .. Size - 1

VARIABLE
    joined    \* joined[i][s]: how far side s is with the collectives of pair i

\* The collectives of a pair, numbered: a side that has called the n-th has
\* joined = 2n - 1, and one that has returned from it 2n.
NotCreated == 0
Created    == 4         \* MPI_Comm_create_group and MPI_Win_create
Freed      == 6         \* MPI_Win_free

Side(r)  == IF r = 0 THEN "zero" ELSE "peer"
Other(r) == IF r = 0 THEN "peer" ELSE "zero"

PairsInit == joined = [i \in Pair |-> [zero |-> NotCreated, peer |-> NotCreated]]

\* A loop of rank 0 that starts with the second pair (faulty).
PendingFromTwo(r, goal) ==
    {i \in Pair : (r = i \/ (r = 0 /\ i > 1)) /\ joined[i][Side(r)] < goal}

\* The pairs that r has not yet brought up to the state goal; r works on the
\* first of them.
Pending(r, goal) == {i \in Pair : r \in {0, i} /\ joined[i][Side(r)] < goal}

CallPair(r, i) ==
    /\ joined[i][Side(r)] % 2 = 0
    /\ joined' = [joined EXCEPT ![i][Side(r)] = @ + 1]

\* All three collectives synchronise the two ranks.
ReturnFromPair(r, i) ==
    /\ joined[i][Side(r)] % 2 = 1
    /\ joined[i][Other(r)] >= joined[i][Side(r)]
    /\ joined' = [joined EXCEPT ![i][Side(r)] = @ + 1]

\* One step of r in its loop over the pairs, for the first one that is not at
\* goal; r's program goes on at label after when there is none left.
PairsStep(r, goal, after) ==
    /\ UNCHANGED <<inside, calls>>
    /\ IF Pending(r, goal) = {}
         THEN Goto(r, after) /\ UNCHANGED joined
         ELSE LET i == Min(Pending(r, goal))
              IN  (CallPair(r, i) \/ ReturnFromPair(r, i)) /\ UNCHANGED pc

PairsTypeOK == joined \in [Pair -> [zero : NotCreated .. Freed, peer : NotCreated .. Freed]]
=============================================================================
