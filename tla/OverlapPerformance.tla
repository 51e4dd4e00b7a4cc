------------------------- MODULE OverlapPerformance -------------------------
(***************************************************************************)
(* overlapping-windows-performance/main.c: the observers add to their own  *)
(* word of rank 0's memory, first each through the window it shares with   *)
(* rank 0 only, then all through one window of the whole world; the two    *)
(* phases are timed and compared.                                          *)
(*                                                                         *)
(* Durations are not modelled.  What a duration means is: unfinished       *)
(* records how many of the operations that it should cover had not been    *)
(* done at rank 0 when the clock was read.                                 *)
(*                                                                         *)
(* The prefix P is on the names that OverlapSemantics has too, so that one *)
(* module can state theorems about both.                                   *)
(***************************************************************************)
EXTENDS OverlappingWindows

CONSTANTS
    NTimes,         \* argv[1]: ntimes
    NumObservers    \* argv[2]: num_observer

ASSUME NTimesAssumption == NTimes \in Nat \ {0}
ASSUME NumObserversAssumption == NumObservers \in Nat

\* The accessing ranks that are told to measure.
Observer == {r \in Accessor : r - Half < NumObservers}

\* The two memories of rank 0, named like the phases that use them.
Kind == {"pair", "main"}

VARIABLES
    epochs,      \* epochs[r]: the windows on which r holds a lock of rank 0
    undone,      \* undone[r][k]: fetch-and-adds of r on memory k not done yet
    words,       \* words[k][r]: word r of memory k
    rep,         \* rep[r]: the loop variable j
    unfinished,  \* history: what r's clock reading for phase k has missed
    aborted      \* MPI has ended the job: an RMA call outside of any epoch

pvars == <<pc, inside, calls, joined, epochs, undone, words, rep, unfinished, aborted>>

-----------------------------------------------------------------------------
PCollectiveAt == [barrier0 |-> "barrier", create |-> "win_create", start |-> "barrier",
                  barrier1 |-> "barrier", barrier2 |-> "barrier", barrier3 |-> "barrier",
                  barrier4 |-> "barrier", barrier5 |-> "barrier", barrier6 |-> "barrier",
                  reduce1 |-> "reduce", reduce2 |-> "reduce", freeMain |-> "win_free",
                  finalize |-> "finalize"]

\* What follows each label in the program of r.
Source(r) ==
    [barrier0 |-> "create", create |-> "pairs",
     pairs |-> IF r \in Accessor THEN "lock" ELSE "start", lock |-> "start",
     start |-> IF r \in Observer THEN "issuePair" ELSE "barrier1",
     issuePair |-> "flushPair", flushPair |-> "barrier1", barrier1 |-> "barrier2",
     barrier2 |-> IF r \in Observer THEN "issueMain" ELSE "barrier3",
     issueMain |-> "flushMain", flushMain |-> "barrier3", barrier3 |-> "barrier4",
     barrier4 |-> IF r \in Accessor THEN "unlock" ELSE "barrier5",
     unlock |-> "barrier5", barrier5 |-> "reduce1", reduce1 |-> "reduce2",
     free |-> "freeMain", freeMain |-> "barrier6", barrier6 |-> "finalize",
     finalize |-> "done"]

PProgram(r) == Source(r)

PAdvance(r) == Goto(r, PProgram(r)[pc[r]])

\* Rank 0 has zeroed both memories before the first barrier.
PInit ==
    /\ pc = [r \in Rank |-> "barrier0"]
    /\ inside = [r \in Rank |-> FALSE]
    /\ calls = [r \in Rank |-> <<>>]
    /\ PairsInit
    /\ epochs = [r \in Rank |-> {}]
    /\ undone = [r \in Rank |-> [k \in Kind |-> 0]]
    /\ words = [k \in Kind |-> [r \in Rank |-> 0]]
    /\ rep = [r \in Rank |-> 0]
    /\ unfinished = [r \in Rank |-> [k \in Kind |-> NotYet]]
    /\ aborted = FALSE

-----------------------------------------------------------------------------
PEnterCollective(r) ==
    /\ pc[r] \in DOMAIN PCollectiveAt
    /\ Enter(r, PCollectiveAt[pc[r]])
    /\ UNCHANGED <<pc, joined, epochs, undone, words, rep, unfinished, aborted>>

\* After the second reduction comes the next repetition or, after the last, the end.
PLeaveCollective(r) ==
    /\ pc[r] \in DOMAIN PCollectiveAt
    /\ Leave(r, PCollectiveAt[pc[r]], 0)
    /\ IF pc[r] = "reduce2"
         THEN /\ rep' = [rep EXCEPT ![r] = @ + 1]
              /\ Goto(r, IF rep[r] + 1 < NTimes THEN "start" ELSE "free")
         ELSE PAdvance(r) /\ UNCHANGED rep
    /\ UNCHANGED <<joined, epochs, undone, words, unfinished, aborted>>

\* The loops over the pairs: creation, and at the end MPI_Win_free.
PWorkOnPairs(r) ==
    /\ pc[r] \in {"pairs", "free"}
    /\ PairsStep(r, IF pc[r] = "pairs" THEN Created ELSE Freed, PProgram(r)[pc[r]])
    /\ UNCHANGED <<epochs, undone, words, rep, unfinished, aborted>>

\* Locks on both windows, once, before the loop.
Lock(a) ==
    /\ pc[a] = "lock"
    /\ epochs' = [epochs EXCEPT ![a] = Kind]
    /\ PAdvance(a)
    /\ UNCHANGED <<inside, calls, joined, undone, words, rep, unfinished, aborted>>

\* An RMA call outside of an epoch is an error, and errors end the job.
Abort ==
    /\ aborted' = TRUE
    /\ UNCHANGED <<pc, inside, calls, joined, epochs, undone, words, rep, unfinished>>

\* Operations that the loop of a phase starts.
Batch == ITERATIONS

Issue(o, k) ==
    /\ pc[o] = IF k = "pair" THEN "issuePair" ELSE "issueMain"
    /\ IF k \in epochs[o]
         THEN /\ undone' = [undone EXCEPT ![o][k] = Batch]
              /\ PAdvance(o)
              /\ UNCHANGED <<inside, calls, joined, epochs, words, rep, unfinished, aborted>>
         ELSE Abort

\* A phase whose flush is left out altogether (faulty).
FlushedNothing(k) == {}

\* The memory whose operations the flush of phase k waits for: in both phases
\* it is windows[rank] that is flushed (main.c:142 and main.c:166).
Flushed(k) == {"pair"}

\* Flush, then read the clock.
Flush(o, k) ==
    /\ pc[o] = IF k = "pair" THEN "flushPair" ELSE "flushMain"
    /\ \A f \in Flushed(k) : undone[o][f] = 0
    /\ unfinished' = [unfinished EXCEPT ![o][k] = undone[o][k]]
    /\ PAdvance(o)
    /\ UNCHANGED <<inside, calls, joined, epochs, undone, words, rep, aborted>>

\* Both unlocks; each waits for the operations of its own window.
Unlock(a) ==
    /\ pc[a] = "unlock"
    /\ IF epochs[a] = Kind
         THEN /\ \A k \in Kind : undone[a][k] = 0
              /\ epochs' = [epochs EXCEPT ![a] = {}]
              /\ PAdvance(a)
              /\ UNCHANGED <<inside, calls, joined, undone, words, rep, unfinished, aborted>>
         ELSE Abort

\* Every observer adds to the first word (faulty).
DisplacementZero(o) == 0

\* The word that observer o adds to.
Displacement(o) == o

\* One fetch-and-add is done at rank 0.
Serve(o, k) ==
    /\ undone[o][k] > 0
    /\ undone' = [undone EXCEPT ![o][k] = @ - 1]
    /\ words' = [words EXCEPT ![k][Displacement(o)] = @ + 1]
    /\ UNCHANGED <<pc, inside, calls, joined, epochs, rep, unfinished, aborted>>

-----------------------------------------------------------------------------
ObserverStep(o) == \E k \in Kind : Issue(o, k) \/ Flush(o, k)

PRankStep(r) ==
    /\ ~aborted
    /\ \/ PEnterCollective(r)
       \/ PLeaveCollective(r)
       \/ PWorkOnPairs(r)
       \/ r \in Accessor /\ (Lock(r) \/ Unlock(r))
       \/ r \in Observer /\ ObserverStep(r)

PMemory(o) == ~aborted /\ \E k \in Kind : Serve(o, k)

\* The job has ended, in one way or the other.
PFinished == (AllDone \/ aborted) /\ UNCHANGED pvars

PNext ==
    \/ \E r \in Rank : PRankStep(r)
    \/ \E o \in Observer : PMemory(o)
    \/ PFinished

PSpec == PInit /\ [][PNext]_pvars

-----------------------------------------------------------------------------
Label == {"barrier0", "create", "pairs", "lock", "start", "issuePair", "flushPair",
          "barrier1", "barrier2", "issueMain", "flushMain", "barrier3", "barrier4",
          "unlock", "barrier5", "reduce1", "reduce2", "free", "freeMain",
          "barrier6", "finalize", "done"}

PTypeOK ==
    /\ pc \in [Rank -> Label]
    /\ inside \in [Rank -> BOOLEAN]
    /\ calls \in [Rank -> Seq(CollectiveKind)]
    /\ PairsTypeOK
    /\ epochs \in [Rank -> SUBSET Kind]
    /\ undone \in [Rank -> [Kind -> 0 .. ITERATIONS]]
    /\ words \in [Kind -> [Rank -> 0 .. NTimes * ITERATIONS]]
    /\ rep \in [Rank -> 0 .. NTimes]
    /\ unfinished \in [Rank -> [Kind -> {NotYet} \cup 0 .. ITERATIONS]]
    /\ aborted \in BOOLEAN

\* main.c:145-154: while one observer still works in the first phase nobody
\* adds through the world's window; the two measurements do not disturb each other.
PhasesApart ==
    \A o, p \in Observer : undone[o]["pair"] > 0 => undone[p]["main"] = 0

\* main.c:158-167: the duration of the second phase, "one win", covers all of
\* its operations.
OneWindowTimeComplete == \A o \in Observer : unfinished[o]["main"] \in {NotYet, 0}

\* main.c:140, 164: every observer has done its additions, each in a word of
\* its own, before any rank learns a result of the reductions.
EveryAccessCounted ==
    \A r \in Rank : pc[r] \in {"reduce1", "reduce2"} =>
        \A k \in Kind, s \in Rank :
            words[k][s] = IF s \in Observer THEN (rep[r] + 1) * ITERATIONS ELSE 0

\* main.c:120-184: no RMA call is made outside of an epoch.
NeverAborted == ~aborted
=============================================================================
