---------------------------- MODULE AtomicSpacing ----------------------------
(***************************************************************************)
(* atomic-spacing/main.c: every rank but 0 adds to its own word of rank    *)
(* 0's memory; from one measurement to the next the words move apart by    *)
(* STRIDE_STEP, from all ranks on one word to the largest stride that      *)
(* still fits.  Rank 0 measures each stride as the time that it spends in  *)
(* a barrier, in ntimes repetitions after WARMUP silent ones.              *)
(***************************************************************************)
EXTENDS PairWindows, RMAWorld

CONSTANTS
    NTimes,         \* argv[1]: ntimes
    WARMUP,         \* repetitions that are not reported
    BUFFER_SIZE,    \* words in rank 0's memory
    STRIDE_STEP,    \* words between two strides
    ITERATIONS      \* fetch-and-adds per rank and stride

ASSUME NTimesAssumption == NTimes \in Nat \ {0}
ASSUME WarmupAssumption == WARMUP \in Nat
ASSUME BufferAssumption == BUFFER_SIZE \in Nat \ {0}
ASSUME StepAssumption == STRIDE_STEP \in Nat \ {0}
ASSUME IterationsAssumption == ITERATIONS \in Nat \ {0}

Accessor == {r \in Rank : r # 0}

VARIABLES
    rep,       \* rep[r]: repetition r is in
    stride,    \* stride[r]: stride r is at
    words,     \* rank 0's memory: what has been added to each word
    lines      \* lines[s]: lines that rank 0 has printed for stride s

counts == <<words, lines>>
vars == <<pc, inside, calls, epoch, todo, joined, rep, stride, words, lines>>

-----------------------------------------------------------------------------
CollectiveAt == [barrier0 |-> "barrier", begin |-> "barrier", measure |-> "barrier",
                 release |-> "barrier", end |-> "barrier", finalize |-> "finalize"]

\* What follows each label, inside one repetition and one stride.
Source(r) ==
    [barrier0 |-> "pairs", pairs |-> IF r = 0 THEN "begin" ELSE "lock",
     lock |-> "begin", begin |-> "stride",
     issue |-> "flush", flush |-> "measure",
     measure |-> IF r = 0 THEN "report" ELSE "release", report |-> "release",
     release |-> "next", unlock |-> "end", finalize |-> "done"]

\* Accessing ranks that enter the measured barrier without a flush (faulty):
ProgramUnflushed(r) == [Source(r) EXCEPT !.issue = "measure"]

Program(r) == Source(r)

Advance(r) == Goto(r, Program(r)[pc[r]])

\* Rank 0 has zeroed its memory before the first barrier.
Init ==
    /\ WorldInit("barrier0")
    /\ PairsInit
    /\ rep = [r \in Rank |-> 0]
    /\ stride = [r \in Rank |-> 0]
    /\ words = [d \in 0 .. BUFFER_SIZE - 1 |-> 0]
    /\ lines = [s \in 0 .. BUFFER_SIZE |-> 0]

-----------------------------------------------------------------------------
EnterCollective(r) ==
    /\ CallCollective(r, CollectiveAt)
    /\ UNCHANGED <<joined, rep, stride, counts>>

\* The barrier at the end of a repetition leads to the next one, if any.
LeaveCollective(r) ==
    /\ ReturnFromCollective(r, CollectiveAt)
    /\ IF pc[r] = "end"
         THEN /\ rep' = [rep EXCEPT ![r] = @ + 1]
              /\ Goto(r, IF rep[r] + 1 >= NTimes + WARMUP THEN "finalize"
                         ELSE IF r = 0 THEN "begin" ELSE "lock")
         ELSE Advance(r) /\ UNCHANGED rep
    /\ UNCHANGED <<joined, stride, counts>>

\* Creation of the pairs' windows; nobody frees them.
WorkOnPairs(r) ==
    /\ pc[r] = "pairs"
    /\ PairsStep(r, Created, Program(r)["pairs"])
    /\ UNCHANGED <<epoch, todo, rep, stride, counts>>

\* A loop that leaves out the largest stride (faulty).
FitsStrictly(s) == s < BUFFER_SIZE \div (Size - 1)

\* A bound that takes rank 1 for an observer without a word (faulty).
FitsOneRankFewer(s) == s <= BUFFER_SIZE \div (Size - 2)

\* The condition of the loop over the strides.
Fits(s) == s <= BUFFER_SIZE \div (Size - 1)

\* r begins the loop over the strides, or goes on to its next turn.
NextStride(r) ==
    LET s == IF pc[r] = "stride" THEN 0 ELSE stride[r] + STRIDE_STEP
    IN  /\ pc[r] \in {"stride", "next"}
        /\ stride' = [stride EXCEPT ![r] = s]
        /\ Locally
        /\ Goto(r, IF ~Fits(s) THEN IF r = 0 THEN "end" ELSE "unlock"
                   ELSE IF r = 0 THEN "measure" ELSE "issue")
        /\ UNCHANGED <<joined, rep, counts>>

\* Whether repetition n is reported.
Reports(n) == n >= WARMUP

\* Rank 0, back from the measured barrier, prints the time it has spent there.
Report(r) ==
    /\ pc[r] = "report"
    /\ lines' = IF Reports(rep[r]) THEN [lines EXCEPT ![stride[r]] = @ + 1] ELSE lines
    /\ Locally /\ Advance(r)
    /\ UNCHANGED <<joined, rep, stride, words>>

\* Operations that one rank starts at one stride.
Batch == ITERATIONS

WindowCall(a) ==
    /\ \/ pc[a] = "lock" /\ WinLock(a)
       \/ pc[a] = "issue" /\ StartBatch(a, Batch)
       \/ pc[a] = "flush" /\ WinFlush(a)
       \/ pc[a] = "unlock" /\ WinUnlock(a)
    /\ Advance(a)
    /\ UNCHANGED <<joined, rep, stride, counts>>

\* The word that rank a adds to.
Displacement(a) == (a - 1) * stride[a]

\* One fetch-and-add is done at rank 0.
Serve(a) ==
    /\ CompleteOne(a)
    /\ words' = [words EXCEPT ![Displacement(a)] = @ + 1]
    /\ UNCHANGED <<joined, rep, stride, lines>>

-----------------------------------------------------------------------------
RankStep(r) ==
    \/ EnterCollective(r)
    \/ LeaveCollective(r)
    \/ WorkOnPairs(r)
    \/ NextStride(r)
    \/ Report(r)
    \/ r \in Accessor /\ WindowCall(r)

\* The job has ended.
Finished == AllDone /\ UNCHANGED vars

Next ==
    \/ \E r \in Rank : RankStep(r)
    \/ \E a \in Accessor : Serve(a)
    \/ Finished

Spec == Init /\ [][Next]_vars

-----------------------------------------------------------------------------
TypeOK ==
    /\ WorldTypeOK(DOMAIN Source(1) \cup {"stride", "next", "end", "done"}, ITERATIONS)
    /\ PairsTypeOK
    /\ rep \in [Rank -> 0 .. NTimes + WARMUP]
    /\ stride \in [Rank -> Nat]
    /\ words \in [0 .. BUFFER_SIZE - 1 -> Nat]
    /\ lines \in [0 .. BUFFER_SIZE -> Nat]

\* main.c:121, 143: the largest stride still keeps the last rank's word inside
\* the window, whatever the number of ranks leaves as remainder.
DisplacementInWindow ==
    \A a \in Accessor : todo[a] > 0 => Displacement(a) \in 0 .. BUFFER_SIZE - 1

\* main.c:129-137, 147-148: while rank 0's clock runs, every access that is
\* under way belongs to the stride and the repetition that rank 0 will print;
\* when it reads the clock all of them are over, and none of the next stride
\* starts before it has printed.
OneMeasurementAtATime ==
    \A a \in Accessor : todo[a] > 0 =>
        /\ pc[0] = "measure" => stride[a] = stride[0] /\ rep[a] = rep[0]
        /\ pc[0] # "report"

\* The strides that are to be measured.
Strides == {s \in 0 .. BUFFER_SIZE : s % STRIDE_STEP = 0 /\ s * (Size - 1) <= BUFFER_SIZE}

\* main.c:111-161: in the end there are ntimes lines for every stride that
\* fits, none for the warm-up, and every rank's additions, those of the warm-up
\* included, are in the word that belongs to its rank at that stride.
AllStridesMeasured ==
    pc[0] = "done" =>
        /\ lines = [s \in 0 .. BUFFER_SIZE |-> IF s \in Strides THEN NTimes ELSE 0]
        /\ \A d \in 0 .. BUFFER_SIZE - 1 :
              words[d] = (NTimes + WARMUP) * ITERATIONS
                  * Cardinality({x \in Accessor \X Strides : (x[1] - 1) * x[2] = d})
=============================================================================
