---------------------------- MODULE RemoteAccess ----------------------------
(***************************************************************************)
(* One-sided operations between ranks, as MPI-3 and the PGAS languages     *)
(* allow them to happen: an operation takes effect at any time between the *)
(* call that starts it and a synchronisation that waits for it, and        *)
(* operations overtake each other.  Equal operations of a rank are counted.*)
(***************************************************************************)
EXTENDS Naturals, Bags

VARIABLES
    air,        \* per rank, its operations that have not taken effect
    access,     \* per rank, the access epoch it is in, or "open" if it needs none
    age,        \* per rank, the epochs it has begun with MPI_Win_start or _fence
    posts,      \* per rank, the exposure epochs it has begun
    done        \* per rank, the access epochs it has ended with MPI_Win_complete

remote == <<air, access, age, posts, done>>

RemoteInit(ranks, initially) ==
    /\ air = [r \in ranks |-> EmptyBag]
    /\ access = [r \in ranks |-> initially]
    /\ age = [r \in ranks |-> 0]
    /\ posts = [r \in ranks |-> 0]
    /\ done = [r \in ranks |-> 0]

InFlight(r) == BagToSet(air[r])

\* What a call in the wrong epoch is complained about as.
Unless(legal) == IF legal THEN {} ELSE {"epoch"}

\* Operations with an epoch of their own wait for the target to begin its part.
MayLand(o) == o.via = "start" => posts[o.to] >= o.age

LandOne(r) ==
    /\ \E o \in InFlight(r) :
          MayLand(o) /\ air' = [air EXCEPT ![r] = @ (-) SetToBag({o})]
    /\ UNCHANGED <<access, age, posts, done>>

Issue(r, op) ==
    LET o == [to |-> op.peer, fetch |-> op.fetch, via |-> access[r], age |-> age[r]] IN
    /\ air' = [air EXCEPT ![r] = @ (+) SetToBag({o})]
    /\ UNCHANGED <<access, age, posts, done>>

Flushed(r, which) == \A o \in InFlight(r) : which = "fetched" /\ ~o.fetch

BeginAccess(r, kind) ==
    /\ access' = [access EXCEPT ![r] = kind]
    /\ age' = [age EXCEPT ![r] = IF kind = "lock" THEN @ ELSE @ + 1]
    /\ UNCHANGED <<air, posts, done>>

EndAccess(r, kind) ==
    /\ access' = [access EXCEPT ![r] = "closed"]
    /\ done' = [done EXCEPT ![r] = IF kind = "start" THEN @ + 1 ELSE @]
    /\ UNCHANGED <<air, age, posts>>

BeginExposure(r) ==
    /\ posts' = [posts EXCEPT ![r] = @ + 1]
    /\ UNCHANGED <<air, access, age, done>>

\* MPI_Win_wait returns when the other rank has ended as many access epochs,
\* and what it did in them has taken effect.
Exposed(r, by) ==
    /\ done[by] >= posts[r]
    /\ \A o \in InFlight(by) : o.to = r => o.age > posts[r]

\* MPI_Win_fence returns when everyone has called it, ages being how many they
\* had called by then, and what was done to the caller before has taken effect.
\* The caller's own operations may only be complete on its own side.
Fenced(r, ages) ==
    \A q \in DOMAIN ages : \A o \in InFlight(q) :
        o.age < ages[q] => o.to # r /\ (q = r => ~o.fetch)

\* An operation is using the memory of a rank, or may begin to.
Busy(r) == InFlight(r) # {} \/ \E q \in DOMAIN air : \E o \in InFlight(q) : o.to = r /\ MayLand(o)
=============================================================================
