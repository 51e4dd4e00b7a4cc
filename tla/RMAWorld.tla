------------------------------ MODULE RMAWorld ------------------------------
(***************************************************************************)
(* Passive-target access to rank 0, as most benchmarks use it: a process   *)
(* holds one shared lock on rank 0 of its window, starts a batch of        *)
(* operations, and waits in a flush or in the unlock until all of them     *)
(* have been done.  Shared locks never exclude each other.  An operation   *)
(* is done at any time between the call that starts it and the one that    *)
(* waits for it.                                                           *)
(***************************************************************************)
EXTENDS MPIWorld

VARIABLES
    epoch,    \* epoch[r]: r holds the shared lock on rank 0 of its window
    todo      \* todo[r]: operations of r not yet done

rma == <<epoch, todo>>

\* Every process starts its program at the same label.
WorldInit(label) ==
    /\ pc = [r \in Rank |-> label]
    /\ inside = [r \in Rank |-> FALSE]
    /\ calls = [r \in Rank |-> <<>>]
    /\ epoch = [r \in Rank |-> FALSE]
    /\ todo = [r \in Rank |-> 0]

\* kinds[l]: the collective that is called at label l.
CallCollective(r, kinds) ==
    /\ pc[r] \in DOMAIN kinds
    /\ Enter(r, kinds[pc[r]])
    /\ UNCHANGED <<pc, epoch, todo>>

ReturnFromCollective(r, kinds) ==
    /\ pc[r] \in DOMAIN kinds
    /\ Leave(r, kinds[pc[r]], 0)
    /\ UNCHANGED rma

WinLock(r) ==
    /\ epoch' = [epoch EXCEPT ![r] = TRUE]
    /\ UNCHANGED <<inside, calls, todo>>

StartBatch(r, n) ==
    /\ todo' = [todo EXCEPT ![r] = n]
    /\ UNCHANGED <<inside, calls, epoch>>

WinFlush(r) ==
    /\ todo[r] = 0
    /\ UNCHANGED <<inside, calls, epoch, todo>>

WinUnlock(r) ==
    /\ todo[r] = 0
    /\ epoch' = [epoch EXCEPT ![r] = FALSE]
    /\ UNCHANGED <<inside, calls, todo>>

\* A step that calls nothing of MPI.
Locally == UNCHANGED <<inside, calls, epoch, todo>>

\* One operation of r is done.
CompleteOne(r) ==
    /\ todo[r] > 0
    /\ todo' = [todo EXCEPT ![r] = @ - 1]
    /\ UNCHANGED <<pc, inside, calls, epoch>>

WorldTypeOK(labels, batch) ==
    /\ pc \in [Rank -> labels]
    /\ inside \in [Rank -> BOOLEAN]
    /\ calls \in [Rank -> Seq(CollectiveKind)]
    /\ epoch \in [Rank -> BOOLEAN]
    /\ todo \in [Rank -> 0 .. batch]
=============================================================================
