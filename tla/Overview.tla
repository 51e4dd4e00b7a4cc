------------------------------ MODULE Overview ------------------------------
(***************************************************************************)
(* overview/main.c: for growing numbers of observers and growing messages, *)
(* rank 0 times how long the observers need to get, and then to put, a     *)
(* batch of messages.  Rank 0 does nothing but wait in one barrier per     *)
(* measurement, and prints how long it has waited.                         *)
(***************************************************************************)
EXTENDS RMAWorld, FiniteSets

CONSTANTS
    NTimes,         \* argv[1]: ntimes
    NumObservers,   \* argv[2]: num_observer
    WINDOW_SIZE,    \* bytes in rank 0's window, and in the largest message
    MSG_STEP,       \* bytes in the smallest message, and between two sizes
    ITERATIONS      \* messages per observer and measurement

Half == Size \div 2

ASSUME SeveralRanks == Size >= 2
ASSUME NTimesAssumption == NTimes \in Nat \ {0}
ASSUME NumObserversAssumption == NumObservers \in 1 .. Size - Half   \* run.sh
ASSUME WindowAssumption == WINDOW_SIZE \in Nat \ {0}
ASSUME StepAssumption == MSG_STEP \in 1 .. WINDOW_SIZE
ASSUME IterationsAssumption == ITERATIONS \in Nat \ {0}

Op == {"get", "put"}

VARIABLES
    at,      \* at[r]: repetition, observers and message size r is at
    moved,   \* history: operations done, by label of the measurement and by rank
    lines    \* history: lines that rank 0 has printed, by label

vars == <<pc, inside, calls, epoch, todo, at, moved, lines>>

-----------------------------------------------------------------------------
(* The three loops. *)

MsgSizes == {m \in 1 .. WINDOW_SIZE : m % MSG_STEP = 0}
Observers == {o \in 1 .. NumObservers : o % 2 = 1}

\* The labels of a measurement: operation, number of observers, message size.
Measurement == Op \X Observers \X MsgSizes

First == [i |-> 0, observers |-> 1, size |-> MSG_STEP]

\* The messages start from the smallest one only once (faulty).
FollowingNoReset(c) ==
    IF c.size + MSG_STEP <= WINDOW_SIZE
      THEN [c EXCEPT !.size = @ + MSG_STEP]
    ELSE IF c.observers + 2 <= NumObservers
      THEN [c EXCEPT !.observers = @ + 2]
    ELSE [c EXCEPT !.i = @ + 1, !.observers = 1]

Following(c) ==
    IF c.size + MSG_STEP <= WINDOW_SIZE
      THEN [c EXCEPT !.size = @ + MSG_STEP]
    ELSE IF c.observers + 2 <= NumObservers
      THEN [c EXCEPT !.observers = @ + 2, !.size = MSG_STEP]
    ELSE [i |-> c.i + 1, observers |-> 1, size |-> MSG_STEP]

\* The ranks that access rank 0 when so many observers are asked for.
Accessing(n) == {r \in Rank : r # 0 /\ r >= Half /\ r - Half < n}

-----------------------------------------------------------------------------
CollectiveAt == [alloc |-> "win_allocate", barrier |-> "barrier", getBarrier |-> "barrier",
                 putBarrier |-> "barrier", free |-> "win_free", finalize |-> "finalize"]

\* What follows each label within a measurement.
Source(r, n) ==
    [alloc |-> "barrier", barrier |-> "lock", lock |-> "measure",
     measure |-> IF r \in Accessing(n) THEN "get" ELSE "getBarrier",
     get |-> "getFlush", getFlush |-> "getBarrier",
     getBarrier |-> IF r = 0 THEN "getReport" ELSE IF r \in Accessing(n) THEN "put" ELSE "putBarrier",
     getReport |-> "putBarrier", put |-> "putFlush", putFlush |-> "putBarrier",
     putBarrier |-> IF r = 0 THEN "putReport" ELSE "next",
     putReport |-> "next", unlock |-> "free", free |-> "finalize", finalize |-> "done"]

\* A batch of gets that is flushed only after its barrier (faulty):
ProgramUnflushed(r, n) ==
    IF r \in Accessing(n)
      THEN [Source(r, n) EXCEPT !.get = "getBarrier", !.getBarrier = "getFlush", !.getFlush = "put"]
      ELSE Source(r, n)

Program(r, n) == Source(r, n)

Advance(r) == Goto(r, Program(r, at[r].observers)[pc[r]])

Init ==
    /\ WorldInit("alloc")
    /\ at = [r \in Rank |-> First]
    /\ moved = [m \in Measurement |-> [r \in Rank |-> 0]]
    /\ lines = [m \in Measurement |-> 0]

EnterCollective(r) ==
    /\ CallCollective(r, CollectiveAt)
    /\ UNCHANGED <<at, moved, lines>>

LeaveCollective(r) ==
    /\ ReturnFromCollective(r, CollectiveAt)
    /\ Advance(r)
    /\ UNCHANGED <<at, moved, lines>>

\* Operations in one batch.
Batch == ITERATIONS

\* The calls on the window; every rank, rank 0 included, holds its lock all along.
WindowCall(r) ==
    /\ \/ pc[r] = "lock" /\ WinLock(r)
       \/ pc[r] = "measure" /\ Locally
       \/ pc[r] \in {"get", "put"} /\ StartBatch(r, Batch)
       \/ pc[r] \in {"getFlush", "putFlush"} /\ WinFlush(r)
       \/ pc[r] = "unlock" /\ WinUnlock(r)
    /\ Advance(r)
    /\ UNCHANGED <<at, moved, lines>>

\* The operation of the section that a rank is in, and its measurement.
Current(r) == IF pc[r] \in {"put", "putFlush", "putBarrier", "putReport", "next"}
                THEN "put" ELSE "get"

Label(r) == <<Current(r), at[r].observers, at[r].size>>

\* Rank 0 prints the time it has spent in the barrier.
Report(r) ==
    /\ pc[r] \in {"getReport", "putReport"}
    /\ lines' = [lines EXCEPT ![Label(r)] = @ + 1]
    /\ Locally /\ Advance(r)
    /\ UNCHANGED <<at, moved>>

NextMeasurement(r) ==
    /\ pc[r] = "next"
    /\ at' = [at EXCEPT ![r] = Following(@)]
    /\ Locally /\ Goto(r, IF Following(at[r]).i < NTimes THEN "measure" ELSE "unlock")
    /\ UNCHANGED <<moved, lines>>

\* One get or put of r is done.
Serve(r) ==
    /\ CompleteOne(r)
    /\ moved' = [moved EXCEPT ![Label(r)][r] = @ + 1]
    /\ UNCHANGED <<at, lines>>

-----------------------------------------------------------------------------
RankStep(r) ==
    \/ EnterCollective(r)
    \/ LeaveCollective(r)
    \/ WindowCall(r)
    \/ Report(r)
    \/ NextMeasurement(r)

\* The job has ended.
Finished == AllDone /\ UNCHANGED vars

Next ==
    \/ \E r \in Rank : RankStep(r) \/ Serve(r)
    \/ Finished

Spec == Init /\ [][Next]_vars

-----------------------------------------------------------------------------
TypeOK ==
    /\ WorldTypeOK(DOMAIN Source(0, 1) \cup {"next", "done"}, ITERATIONS)
    /\ at \in [Rank -> [i : 0 .. NTimes, observers : Observers, size : MsgSizes]]
    /\ moved \in [Measurement -> [Rank -> 0 .. NTimes * ITERATIONS]]
    /\ lines \in [Measurement -> 0 .. NTimes]

Place(r) == <<Label(r), at[r].i>>

\* main.c:90-98: all operations that are under way at one time belong to one
\* measurement: gets never meet puts on the same memory, and no observer is
\* ahead of another.
OneMeasurementAtATime ==
    \A r, s \in Rank : todo[r] > 0 /\ todo[s] > 0 => Place(r) = Place(s)

\* main.c:74-82: when rank 0 prints a line, everything that the line's label
\* announces has been moved, by as many ranks as the label says: the batches
\* of this repetition and of those before.
LineAfterItsBatches ==
    pc[0] \in {"getReport", "putReport"} =>
        LET n == at[0].observers
        IN  /\ Cardinality(Accessing(n)) = n
            /\ \A r \in Rank :
                  moved[Label(0)][r] = IF r \in Accessing(n) THEN (at[0].i + 1) * ITERATIONS ELSE 0

\* main.c:66-107: in the end every measurement has been printed ntimes times.
EveryLinePrinted == pc[0] = "done" => lines = [m \in Measurement |-> NTimes]
=============================================================================
