------------------------- MODULE AtomicSpacingProofs -------------------------
(***************************************************************************)
(* Proofs about AtomicSpacing, for every number of ranks, of repetitions   *)
(* and of words, and every step between strides.  A rank's repetition and  *)
(* stride determine how many collectives it has returned from (Placed):    *)
(* two for each stride, with one more at either end of a repetition.  As   *)
(* no rank falls behind (NobodyAhead), ranks that measure are at the same  *)
(* stride of the same repetition.  What has been added and printed so far  *)
(* follows from the same two (Tally).                                      *)
(***************************************************************************)
EXTENDS AtomicSpacing, WorldProofs, FiniteSetTheorems

Label == {"barrier0", "pairs", "lock", "begin", "stride", "issue", "flush", "measure",
          "report", "release", "next", "unlock", "end", "finalize", "done"}

\* Where the stride of the rank is one that is measured.
InTurn == {"issue", "flush", "measure", "report", "release", "next"}

Largest == BUFFER_SIZE \div (Size - 1)

\* Strides in a repetition.
Turns == Largest \div STRIDE_STEP + 1

Turn(r) == stride[r] \div STRIDE_STEP

\* Turns that r has gone through in earlier repetitions, counting one for the
\* barriers at the two ends of each.
Base(r) == rep[r] * (Turns + 1)

Typed ==
    /\ WorldTyped
    /\ pc \in [Rank -> Label]
    /\ todo \in [Rank -> Nat]
    /\ rep \in [Rank -> Nat] /\ stride \in [Rank -> Nat]

\* Collectives that r has returned from.
Progress(r) ==
    CASE pc[r] = "barrier0" -> 0
      [] pc[r] \in {"pairs", "lock", "begin", "finalize", "done"} -> 2 * Base(r) + 1
      [] pc[r] = "stride" -> 2 * Base(r) + 2
      [] pc[r] \in {"issue", "flush", "measure"} -> 2 * (Base(r) + Turn(r)) + 2
      [] pc[r] \in {"report", "release"} -> 2 * (Base(r) + Turn(r)) + 3
      [] pc[r] = "next" -> 2 * (Base(r) + Turn(r)) + 4
      [] pc[r] \in {"unlock", "end"} -> 2 * (Base(r) + Turns) + 2

Placed(r) ==
    /\ inside[r] => pc[r] \in DOMAIN CollectiveAt
    /\ r = 0 => pc[r] \notin {"lock", "issue", "flush", "unlock"}
    /\ pc[r] \in {"barrier0", "pairs"} => rep[r] = 0
    /\ pc[r] \in InTurn => Turn(r) < Turns /\ stride[r] = Turn(r) * STRIDE_STEP
    /\ todo[r] > 0 => pc[r] = "flush"
    /\ Behind(r, "done") = Progress(r)

IInv ==
    /\ Typed
    /\ NobodyAhead("done")
    /\ \A r \in Rank : Placed(r)

-----------------------------------------------------------------------------
LEMMA Collectives ==
    /\ DOMAIN CollectiveAt = {"barrier0", "begin", "measure", "release", "end", "finalize"}
    /\ \A l \in DOMAIN CollectiveAt :
          /\ CollectiveAt[l] \in CollectiveKind
          /\ l # "finalize" => CollectiveAt[l] \in Synchronising
BY DEF CollectiveAt, CollectiveKind, Synchronising, Rooted

LEMMA Bounds ==
    /\ Size - 1 \in Nat \ {0} /\ STRIDE_STEP \in Nat \ {0} /\ BUFFER_SIZE \in Nat \ {0}
    /\ Largest \in Nat /\ Largest * (Size - 1) <= BUFFER_SIZE
    /\ Turns \in Nat /\ Turns > 0
    /\ 0 \in Rank
<1>1. Size - 1 \in Nat \ {0} /\ 0 \in Rank
  BY SizeAssumption, PairsExist DEF Rank
<1>2. Largest \in Nat /\ Largest * (Size - 1) <= BUFFER_SIZE
  BY <1>1, BufferAssumption, Quotient DEF Largest
<1>3. Largest \div STRIDE_STEP \in Nat
  BY <1>2, StepAssumption, Quotient
<1> QED BY <1>1, <1>2, <1>3, BufferAssumption, StepAssumption DEF Turns

\* The k-th stride fits if it is one of the Turns.
LEMMA FitsInTurns ==
    ASSUME NEW k \in Nat
    PROVE  /\ Fits(k * STRIDE_STEP) <=> k < Turns
           /\ (k * STRIDE_STEP) \div STRIDE_STEP = k
           /\ k * STRIDE_STEP \in Nat
           /\ k * STRIDE_STEP + STRIDE_STEP = (k + 1) * STRIDE_STEP
<1>1. k * STRIDE_STEP <= Largest <=> k <= Largest \div STRIDE_STEP
  BY Bounds, Quotient
<1>2. Largest \div STRIDE_STEP \in Nat
  BY Bounds, Quotient
<1>3. Fits(k * STRIDE_STEP) <=> k < Turns
  BY <1>1, <1>2 DEF Fits, Largest, Turns
<1>4. k * STRIDE_STEP \in Nat /\ k * STRIDE_STEP + STRIDE_STEP = (k + 1) * STRIDE_STEP
  BY Bounds, Distributes
<1>5. (k * STRIDE_STEP) \div STRIDE_STEP = k
  <2> DEFINE q == (k * STRIDE_STEP) \div STRIDE_STEP
  <2>1. /\ q \in Nat
        /\ \A j \in Nat : j * STRIDE_STEP <= k * STRIDE_STEP <=> j <= q
    BY <1>4, Bounds, Quotient
  <2> HIDE DEF q
  <2>2. k <= q
    BY <1>4, <2>1
  <2>3. ~(k + 1 <= q)
    BY <1>4, <2>1, Bounds
  <2> QED BY <2>1, <2>2, <2>3 DEF q
<1> QED BY <1>3, <1>4, <1>5

\* A step of one rank changes nothing of the others.
LEMMA OneAtATime ==
    ASSUME Typed, NEW r \in Rank, RankStep(r) \/ Serve(r), NEW s \in Rank, s # r
    PROVE  /\ pc'[s] = pc[s] /\ inside'[s] = inside[s] /\ calls'[s] = calls[s]
           /\ todo'[s] = todo[s] /\ rep'[s] = rep[s] /\ stride'[s] = stride[s]
<1>1. CASE EnterCollective(r)
  BY <1>1 DEF Typed, WorldTyped, EnterCollective, CallCollective, Enter
<1>2. CASE LeaveCollective(r)
  BY <1>2 DEF Typed, WorldTyped, LeaveCollective, ReturnFromCollective, Leave, Advance, Goto, rma
<1>3. CASE WorkOnPairs(r)
  BY <1>3 DEF Typed, WorldTyped, WorkOnPairs, PairsStep, Goto
<1>4. CASE NextStride(r)
  BY <1>4 DEF Typed, WorldTyped, NextStride, Locally, Goto
<1>5. CASE Report(r)
  BY <1>5 DEF Typed, WorldTyped, Report, Locally, Advance, Goto
<1>6. CASE WindowCall(r)
  BY <1>6 DEF Typed, WorldTyped, WindowCall, WinLock, StartBatch, WinFlush, WinUnlock, Advance, Goto
<1>7. CASE Serve(r)
  BY <1>7 DEF Typed, WorldTyped, Serve, CompleteOne
<1> QED BY <1>1, <1>2, <1>3, <1>4, <1>5, <1>6, <1>7 DEF RankStep

\* What holds of a rank stays true as long as others move.
LEMMA OthersKeep ==
    ASSUME NEW s \in Rank, Placed(s), pc'[s] = pc[s], inside'[s] = inside[s],
           calls'[s] = calls[s], todo'[s] = todo[s], rep'[s] = rep[s], stride'[s] = stride[s]
    PROVE  Placed(s)'
<1>1. Turn(s)' = Turn(s) /\ Base(s)' = Base(s)
  BY DEF Turn, Base
<1> QED BY <1>1 DEF Placed, Behind, Progress

-----------------------------------------------------------------------------
LEMMA StepEnter ==
    ASSUME IInv, NEW r \in Rank, EnterCollective(r)
    PROVE  Typed' /\ NobodyAhead("done")' /\ Placed(r)'
<1>0. /\ WorldTyped /\ pc[r] \in DOMAIN CollectiveAt /\ CollectiveAt[pc[r]] \in CollectiveKind
      /\ Enter(r, CollectiveAt[pc[r]]) /\ pc[r] # "done"
      /\ UNCHANGED <<pc, todo, rep, stride>>
  BY Collectives DEF IInv, Typed, EnterCollective, CallCollective
<1>1. /\ WorldTyped' /\ ~inside[r] /\ inside'[r] /\ Len(calls'[r]) = Len(calls[r]) + 1
      /\ Len(calls[r]) \in Nat
  BY <1>0, EnterCounts
<1>2. Typed'
  BY <1>0, <1>1 DEF IInv, Typed
<1>3. NobodyAhead("done")'
  BY <1>0, EnterKeepsTogether DEF IInv
<1>4. Behind(r, "done")' = Behind(r, "done")
  BY <1>0, <1>1 DEF Behind
<1>5. Turn(r)' = Turn(r) /\ Base(r)' = Base(r)
  BY <1>0 DEF Turn, Base
<1>6. Placed(r)'
  BY <1>0, <1>4, <1>5 DEF IInv, Placed, Progress
<1> QED BY <1>2, <1>3, <1>6

LEMMA StepLeave ==
    ASSUME IInv, NEW r \in Rank, LeaveCollective(r)
    PROVE  Typed' /\ NobodyAhead("done")' /\ Placed(r)'
<1>0. /\ WorldTyped /\ pc[r] \in DOMAIN CollectiveAt /\ pc \in [Rank -> Label] /\ rep \in [Rank -> Nat]
      /\ Leave(r, CollectiveAt[pc[r]], 0) /\ Placed(r)
      /\ UNCHANGED <<todo, stride>> /\ NTimes + WARMUP \in Nat
  BY NTimesAssumption, WarmupAssumption
  DEF IInv, Typed, LeaveCollective, ReturnFromCollective, rma
<1>1. /\ WorldTyped' /\ inside[r] /\ ~inside'[r] /\ calls' = calls /\ Len(calls[r]) \in Nat
  BY <1>0, LeaveCounts
<1>2. \/ /\ pc[r] = "end" /\ rep' = [rep EXCEPT ![r] = @ + 1]
         /\ \E l \in {"finalize", "begin", "lock"} :
               pc' = [pc EXCEPT ![r] = l] /\ (r = 0 => l # "lock")
      \/ /\ pc[r] # "end" /\ rep' = rep
         /\ pc' = [pc EXCEPT ![r] = Program(r)[pc[r]]]
  BY <1>0 DEF LeaveCollective, Advance, Goto
<1>3. \/ pc[r] = "barrier0" /\ pc'[r] = "pairs" /\ rep' = rep
      \/ pc[r] = "begin" /\ pc'[r] = "stride" /\ rep' = rep
      \/ pc[r] = "measure" /\ pc'[r] \in {"report", "release"} /\ rep' = rep
      \/ pc[r] = "release" /\ pc'[r] = "next" /\ rep' = rep
      \/ /\ pc[r] = "end" /\ pc'[r] \in {"finalize", "begin", "lock"} /\ rep'[r] = rep[r] + 1
         /\ r = 0 => pc'[r] # "lock"
      \/ pc[r] = "finalize" /\ pc'[r] = "done" /\ rep' = rep
  BY <1>0, <1>2, Collectives DEF Program, Source
<1>4. Typed' /\ \A s \in Rank : s # r => pc'[s] = pc[s]
  <2>1. pc' \in [Rank -> Label]
    BY <1>0, <1>2, <1>3 DEF Label
  <2>2. rep' \in [Rank -> Nat]
    BY <1>0, <1>2
  <2> QED BY <1>0, <1>1, <1>2, <2>1, <2>2 DEF IInv, Typed
<1>5. NobodyAhead("done")'
  <2>1. CollectiveAt[pc[r]] \in Synchronising \/ pc'[r] = "done"
    BY <1>3, <1>0, Collectives
  <2> QED BY <1>0, <1>4, <2>1, LeaveKeepsTogether DEF IInv
<1>6. /\ Turn(r)' = Turn(r) /\ Turn(r) \in Nat /\ Base(r) \in Nat /\ Turns \in Nat
      /\ stride'[r] = stride[r] /\ todo'[r] = todo[r]
  <2>1. Turns + 1 \in Nat /\ rep[r] \in Nat /\ stride[r] \in Nat
    BY <1>0, Bounds DEF IInv, Typed
  <2> QED BY <1>0, <2>1, Bounds, Distributes, Quotient DEF Turn, Base
<1>7. /\ rep'[r] = rep[r] => Base(r)' = Base(r)
      /\ rep'[r] = rep[r] + 1 => Base(r)' = Base(r) + Turns + 1
      /\ rep[r] = 0 => Base(r) = 0
  <2>1. Turns + 1 \in Nat /\ rep[r] \in Nat
    BY <1>0, Bounds
  <2> QED BY <2>1, Distributes, Bounds DEF Base
<1>8. Behind(r, "done")' = Progress(r)'
  <2>1. Behind(r, "done") = Progress(r) /\ Behind(r, "done") = Len(calls[r]) - 1
    BY <1>0, <1>1 DEF Placed, Behind
  <2>2. CASE pc'[r] # "done"
    <3>1. Behind(r, "done")' = Len(calls[r])
      BY <1>1, <2>2 DEF Behind
    <3>2. Progress(r)' = Progress(r) + 1
      <4>1. CASE pc[r] = "barrier0"
        <5>1. Base(r) = 0
          BY <1>0, <1>7, <4>1 DEF Placed
        <5> QED BY <1>3, <1>6, <1>7, <4>1, <5>1 DEF Progress
      <4>2. CASE pc[r] = "begin"
        BY <1>3, <1>6, <1>7, <4>2 DEF Progress
      <4>3. CASE pc[r] = "measure"
        BY <1>3, <1>6, <1>7, <4>3 DEF Progress
      <4>4. CASE pc[r] = "release"
        BY <1>3, <1>6, <1>7, <4>4 DEF Progress
      <4>5. CASE pc[r] = "end"
        BY <1>3, <1>6, <1>7, <4>5 DEF Progress
      <4> QED BY <1>3, <2>2, <4>1, <4>2, <4>3, <4>4, <4>5
    <3> QED BY <1>1, <2>1, <3>1, <3>2
  <2>3. CASE pc'[r] = "done"
    <3>1. Behind(r, "done")' = Len(calls[r]) - 1
      BY <1>1, <2>3 DEF Behind
    <3>2. pc[r] = "finalize" /\ Progress(r)' = Progress(r)
      BY <1>3, <1>6, <1>7, <2>3 DEF Progress
    <3> QED BY <2>1, <3>1, <3>2
  <2> QED BY <2>2, <2>3
<1>9. Placed(r)'
  <2>1. pc[r] # "flush" /\ Turns' = Turns
    BY <1>3 DEF Turns, Largest
  <2> QED BY <1>0, <1>1, <1>3, <1>6, <1>8, <2>1 DEF Placed, InTurn
<1> QED BY <1>4, <1>5, <1>9

\* The steps between two collectives.
LEMMA StepWithin ==
    ASSUME Typed, NobodyAhead("done"), NEW r \in Rank, Placed(r),
           UNCHANGED <<inside, calls, rep>>, pc[r] \notin DOMAIN CollectiveAt, pc[r] # "done",
           \E l \in Label : pc' = [pc EXCEPT ![r] = l],
           todo' \in [Rank -> Nat], stride' \in [Rank -> Nat],
           pc'[r] # "done", Progress(r)' = Progress(r)
    PROVE  Typed' /\ NobodyAhead("done")' /\ Behind(r, "done")' = Progress(r)' /\ ~inside'[r]
<1>0. /\ pc \in [Rank -> Label] /\ Len(calls[r]) \in Nat /\ WorldTyped
  BY DEF Typed, WorldTyped
<1>1. WorldTyped' /\ pc' \in [Rank -> Label]
  BY <1>0 DEF WorldTyped
<1>2. \A s \in Rank : s # r => pc'[s] = pc[s]
  BY <1>0
<1>3. NobodyAhead("done")'
  BY <1>0, <1>2, LocalKeepsTogether
<1>4. ~inside[r] /\ inside'[r] = inside[r] /\ calls'[r] = calls[r]
  BY DEF Placed
<1>5. Behind(r, "done")' = Behind(r, "done")
  BY <1>4 DEF Behind
<1> QED BY <1>1, <1>3, <1>4, <1>5 DEF Typed, Placed

LEMMA StepLocal ==
    ASSUME IInv, NEW r \in Rank,
           WorkOnPairs(r) \/ Report(r) \/ (r \in Accessor /\ WindowCall(r))
    PROVE  Typed' /\ NobodyAhead("done")' /\ Placed(r)'
<1>0. /\ Typed /\ Placed(r) /\ pc \in [Rank -> Label] /\ NobodyAhead("done")
      /\ todo \in [Rank -> Nat] /\ todo[r] \in Nat /\ ITERATIONS \in Nat
      /\ rep[r] \in Nat /\ stride \in [Rank -> Nat]
  BY IterationsAssumption DEF IInv, Typed
<1>1. UNCHANGED <<inside, calls, rep, stride>>
  BY DEF WorkOnPairs, PairsStep, Report, Locally, WindowCall, WinLock, StartBatch, WinFlush, WinUnlock
<1>2. \/ pc[r] = "pairs" /\ pc' = [pc EXCEPT ![r] = "pairs"] /\ todo' = todo
      \/ pc[r] = "pairs" /\ r = 0 /\ pc' = [pc EXCEPT ![r] = "begin"] /\ todo' = todo
      \/ pc[r] = "pairs" /\ r # 0 /\ pc' = [pc EXCEPT ![r] = "lock"] /\ todo' = todo
      \/ pc[r] = "report" /\ pc' = [pc EXCEPT ![r] = "release"] /\ todo' = todo
      \/ pc[r] = "lock" /\ r # 0 /\ pc' = [pc EXCEPT ![r] = "begin"] /\ todo' = todo
      \/ /\ pc[r] = "issue" /\ r # 0 /\ pc' = [pc EXCEPT ![r] = "flush"]
         /\ todo' = [todo EXCEPT ![r] = ITERATIONS]
      \/ /\ pc[r] = "flush" /\ r # 0 /\ pc' = [pc EXCEPT ![r] = "measure"]
         /\ todo' = todo /\ todo[r] = 0
      \/ pc[r] = "unlock" /\ r # 0 /\ pc' = [pc EXCEPT ![r] = "end"] /\ todo' = todo
  <2>1. CASE WorkOnPairs(r)
    BY <1>0, <2>1 DEF WorkOnPairs, PairsStep, Goto, Program, Source
  <2>2. CASE Report(r)
    BY <1>0, <2>2 DEF Report, Locally, Advance, Goto, Program, Source
  <2>3. CASE r \in Accessor /\ WindowCall(r)
    <3>1. r # 0 /\ pc' = [pc EXCEPT ![r] = Program(r)[pc[r]]]
      BY <1>0, <2>3 DEF Accessor, WindowCall, Advance, Goto
    <3>2. \/ pc[r] = "lock" /\ todo' = todo
          \/ pc[r] = "issue" /\ todo' = [todo EXCEPT ![r] = ITERATIONS]
          \/ pc[r] = "flush" /\ todo' = todo /\ todo[r] = 0
          \/ pc[r] = "unlock" /\ todo' = todo
      BY <2>3 DEF WindowCall, WinLock, StartBatch, WinFlush, WinUnlock, Batch
    <3>3. /\ Program(r)["lock"] = "begin" /\ Program(r)["issue"] = "flush"
          /\ Program(r)["flush"] = "measure" /\ Program(r)["unlock"] = "end"
      BY DEF Program, Source
    <3>4. CASE pc[r] = "lock"
      BY <3>1, <3>2, <3>3, <3>4
    <3>5. CASE pc[r] = "issue"
      BY <3>1, <3>2, <3>3, <3>5
    <3>6. CASE pc[r] = "flush"
      BY <3>1, <3>2, <3>3, <3>6
    <3>7. CASE pc[r] = "unlock"
      BY <3>1, <3>2, <3>3, <3>7
    <3> QED BY <3>2, <3>4, <3>5, <3>6, <3>7
  <2> QED BY <2>1, <2>2, <2>3
<1>3. Turn(r)' = Turn(r) /\ Base(r)' = Base(r) /\ Turns' = Turns
  BY <1>1 DEF Turn, Base, Turns, Largest
<1>4. /\ Progress(r)' = Progress(r)
      /\ pc[r] \notin DOMAIN CollectiveAt /\ pc[r] # "done" /\ pc'[r] # "done"
      /\ \E l \in Label : pc' = [pc EXCEPT ![r] = l]
      /\ todo' \in [Rank -> Nat] /\ stride' \in [Rank -> Nat]
  <2>1. Progress(r)' = Progress(r)
    BY <1>0, <1>2, <1>3 DEF Progress
  <2> QED BY <1>0, <1>1, <1>2, <2>1, Collectives DEF Label
<1>5. Typed' /\ NobodyAhead("done")' /\ Behind(r, "done")' = Progress(r)' /\ ~inside'[r]
  BY <1>0, <1>1, <1>4, StepWithin
<1>6. Placed(r)'
  <2>1. rep'[r] = rep[r] /\ stride'[r] = stride[r]
    BY <1>1
  <2> QED BY <1>0, <1>2, <1>3, <1>5, <2>1 DEF Placed, InTurn
<1> QED BY <1>5, <1>6

LEMMA StepStride ==
    ASSUME IInv, NEW r \in Rank, NextStride(r)
    PROVE  Typed' /\ NobodyAhead("done")' /\ Placed(r)'
<1>0. /\ Typed /\ Placed(r) /\ pc \in [Rank -> Label] /\ NobodyAhead("done")
      /\ todo \in [Rank -> Nat] /\ stride \in [Rank -> Nat] /\ stride[r] \in Nat
      /\ UNCHANGED <<inside, calls, rep, todo>> /\ pc[r] \in {"stride", "next"}
      /\ Turns \in Nat /\ Turns > 0 /\ Turns' = Turns /\ Base(r)' = Base(r)
  BY Bounds DEF IInv, Typed, NextStride, Locally, Turns, Largest, Base
<1> DEFINE k == IF pc[r] = "stride" THEN 0 ELSE Turn(r) + 1
<1>1. Turn(r) \in Nat /\ k \in Nat
  BY <1>0, Bounds, Quotient DEF Turn
<1>2. k * STRIDE_STEP = IF pc[r] = "stride" THEN 0 ELSE stride[r] + STRIDE_STEP
  <2>1. CASE pc[r] = "stride"
    BY <2>1, Bounds, Distributes
  <2>2. CASE pc[r] = "next"
    BY <1>0, <1>1, <2>2, FitsInTurns DEF Placed, InTurn
  <2> QED BY <1>0, <2>1, <2>2
<1>3. /\ stride' = [stride EXCEPT ![r] = k * STRIDE_STEP]
      /\ pc' = [pc EXCEPT ![r] = IF ~Fits(k * STRIDE_STEP) THEN IF r = 0 THEN "end" ELSE "unlock"
                                 ELSE IF r = 0 THEN "measure" ELSE "issue"]
  BY <1>2 DEF NextStride, Goto
<1>4. /\ Fits(k * STRIDE_STEP) <=> k < Turns
      /\ (k * STRIDE_STEP) \div STRIDE_STEP = k /\ k * STRIDE_STEP \in Nat
  BY <1>1, FitsInTurns
<1>5. Turn(r)' = k /\ stride'[r] = k * STRIDE_STEP /\ stride' \in [Rank -> Nat]
  BY <1>0, <1>3, <1>4 DEF Turn
<1>6. k <= Turns /\ Progress(r) = 2 * (Base(r) + k) + 2 /\ Base(r) \in Nat
  <2>1. Base(r) \in Nat
    <3>1. Turns + 1 \in Nat /\ rep[r] \in Nat
      BY <1>0 DEF Typed
    <3> QED BY <3>1, Distributes DEF Base
  <2>2. CASE pc[r] = "stride"
    BY <1>0, <2>1, <2>2 DEF Progress
  <2>3. CASE pc[r] = "next"
    <3>1. Turn(r) < Turns
      BY <1>0, <2>3 DEF Placed, InTurn
    <3>2. Progress(r) = 2 * (Base(r) + Turn(r)) + 4
      BY <1>1, <2>1, <2>3 DEF Progress
    <3> QED BY <1>0, <1>1, <2>1, <2>3, <3>1, <3>2
  <2> QED BY <1>0, <2>1, <2>2, <2>3
<1> HIDE DEF k
<1>7. \/ /\ k < Turns /\ pc'[r] = (IF r = 0 THEN "measure" ELSE "issue")
      \/ /\ k = Turns /\ pc'[r] = (IF r = 0 THEN "end" ELSE "unlock")
  BY <1>0, <1>1, <1>3, <1>4, <1>6
<1>8. Progress(r)' = 2 * (Base(r) + k) + 2
  <2>1. CASE k < Turns
    <3>1. pc'[r] \in {"measure", "issue"}
      BY <1>0, <1>7, <2>1
    <3> QED BY <1>0, <1>1, <1>5, <1>6, <3>1 DEF Progress
  <2>2. CASE k = Turns
    <3>1. pc'[r] \in {"end", "unlock"}
      BY <1>0, <1>7, <2>2
    <3> QED BY <1>0, <1>1, <1>6, <2>2, <3>1 DEF Progress
  <2> QED BY <1>7, <2>1, <2>2
<1>9. /\ Progress(r)' = Progress(r) /\ pc[r] \notin DOMAIN CollectiveAt
      /\ pc[r] # "done" /\ pc'[r] # "done" /\ \E l \in Label : pc' = [pc EXCEPT ![r] = l]
      /\ todo' \in [Rank -> Nat]
  <2>1. Progress(r)' = Progress(r)
    BY <1>6, <1>8
  <2>2. \E l \in {"end", "unlock", "measure", "issue"} : pc' = [pc EXCEPT ![r] = l]
    BY <1>3
  <2> QED BY <1>0, <2>1, <2>2, Collectives DEF Label
<1>10. Typed' /\ NobodyAhead("done")' /\ Behind(r, "done")' = Progress(r)' /\ ~inside'[r]
  BY <1>0, <1>5, <1>9, StepWithin
<1>11. Placed(r)'
  <2>1. ~(todo'[r] > 0)
    BY <1>0 DEF Placed
  <2> QED BY <1>0, <1>5, <1>7, <1>10, <2>1 DEF Placed, InTurn
<1> QED BY <1>10, <1>11

LEMMA StepServe ==
    ASSUME IInv, NEW r \in Rank, Serve(r)
    PROVE  Typed' /\ NobodyAhead("done")' /\ Placed(r)'
<1>0. /\ Typed /\ Placed(r) /\ todo \in [Rank -> Nat] /\ todo[r] > 0
      /\ todo' = [todo EXCEPT ![r] = @ - 1]
      /\ UNCHANGED <<pc, inside, calls, rep, stride>>
  BY DEF IInv, Typed, Serve, CompleteOne
<1>1. Typed'
  BY <1>0 DEF Typed, WorldTyped
<1>2. NobodyAhead("done")'
  BY <1>0 DEF IInv, NobodyAhead, Behind
<1>3. Turn(r)' = Turn(r) /\ Base(r)' = Base(r) /\ pc[r] = "flush"
  BY <1>0 DEF Turn, Base, Placed
<1>4. Placed(r)'
  BY <1>0, <1>3 DEF Placed, Behind, Progress
<1> QED BY <1>1, <1>2, <1>4

-----------------------------------------------------------------------------
LEMMA Invariance == Spec => []IInv
<1>1. Init => IInv
  <2> SUFFICES ASSUME Init PROVE IInv
    OBVIOUS
  <2>1. Typed
    BY DEF Init, WorldInit, Typed, WorldTyped, Label
  <2>2. NobodyAhead("done")
    BY DEF Init, WorldInit, NobodyAhead, Behind
  <2>3. ASSUME NEW r \in Rank PROVE Placed(r)
    BY DEF Init, WorldInit, Placed, Behind, Progress, InTurn
  <2> QED BY <2>1, <2>2, <2>3 DEF IInv
<1>2. IInv /\ [Next]_vars => IInv'
  <2> SUFFICES ASSUME IInv, [Next]_vars PROVE IInv'
    OBVIOUS
  <2>1. ASSUME NEW r \in Rank, RankStep(r) \/ Serve(r) PROVE IInv'
    <3>1. Typed' /\ NobodyAhead("done")' /\ Placed(r)'
      BY <2>1, StepEnter, StepLeave, StepLocal, StepStride, StepServe DEF RankStep
    <3>2. ASSUME NEW s \in Rank, s # r PROVE Placed(s)'
      <4>1. /\ pc'[s] = pc[s] /\ inside'[s] = inside[s] /\ calls'[s] = calls[s]
            /\ todo'[s] = todo[s] /\ rep'[s] = rep[s] /\ stride'[s] = stride[s]
        BY <2>1, <3>2, OneAtATime DEF IInv
      <4> QED BY <4>1, OthersKeep DEF IInv
    <3> QED BY <3>1, <3>2 DEF IInv
  <2>2. CASE UNCHANGED vars
    <3>1. UNCHANGED <<pc, inside, calls, todo, rep, stride>>
      BY <2>2 DEF vars
    <3>2. Typed' /\ NobodyAhead("done")'
      BY <3>1 DEF IInv, Typed, WorldTyped, NobodyAhead, Behind
    <3>3. ASSUME NEW r \in Rank PROVE Placed(r)'
      BY <3>1, OthersKeep DEF IInv
    <3> QED BY <3>2, <3>3 DEF IInv
  <2> QED BY <2>1, <2>2 DEF Next, Finished, Accessor
<1> QED BY <1>1, <1>2, PTL DEF Spec

LEMMA InWindow == IInv => DisplacementInWindow
<1> SUFFICES ASSUME IInv, NEW a \in Accessor, todo[a] > 0
             PROVE  (a - 1) * stride[a] \in 0 .. BUFFER_SIZE - 1
  BY DEF DisplacementInWindow, Displacement
<1>1. /\ a \in Rank /\ a - 1 \in Nat /\ a - 1 <= Size - 2 /\ Size - 2 \in Nat
      /\ Placed(a) /\ stride[a] \in Nat
  BY Bounds, SizeAssumption, PairsExist DEF IInv, Typed, Accessor, Rank
<1>2. Turn(a) \in Nat /\ Fits(Turn(a) * STRIDE_STEP) /\ stride[a] = Turn(a) * STRIDE_STEP
  <2>1. Turn(a) \in Nat
    BY <1>1, Bounds, Quotient DEF Turn
  <2>2. Turn(a) < Turns /\ stride[a] = Turn(a) * STRIDE_STEP
    BY <1>1 DEF Placed, InTurn
  <2> QED BY <2>1, <2>2, FitsInTurns
<1>3. stride[a] <= Largest
  BY <1>2 DEF Fits, Largest
<1>4. stride[a] * (Size - 1) <= BUFFER_SIZE
  <2>1. stride[a] * (Size - 1) <= Largest * (Size - 1)
    BY <1>1, <1>3, Bounds, Grows
  <2>2. stride[a] * (Size - 1) \in Nat /\ Largest * (Size - 1) \in Nat
    BY <1>1, Bounds, Distributes
  <2> QED BY <2>1, <2>2, Bounds
<1>5. /\ (a - 1) * stride[a] <= (Size - 2) * stride[a]
      /\ (a - 1) * stride[a] \in Nat /\ (Size - 2) * stride[a] \in Nat
  BY <1>1, Distributes, Grows
<1>6. (Size - 2 + 1) * stride[a] = (Size - 2) * stride[a] + stride[a]
  BY <1>1, Distributes
<1>7. (Size - 2) * stride[a] + stride[a] <= BUFFER_SIZE
  <2>1. \A m, n \in Int : m * n = n * m
    OBVIOUS
  <2>2. Size - 2 + 1 = Size - 1 /\ Size - 1 \in Int /\ stride[a] \in Int
    BY <1>1, SizeAssumption
  <2>3. stride[a] * (Size - 1) = (Size - 2 + 1) * stride[a]
    BY <2>1, <2>2
  <2> QED BY <1>4, <1>6, <2>3
<1>8. CASE stride[a] = 0
  <2>1. (a - 1) * stride[a] = 0
    BY <1>1, <1>8
  <2> QED BY <2>1, Bounds
<1>9. CASE stride[a] > 0
  BY <1>1, <1>5, <1>7, <1>9, Bounds
<1> QED BY <1>1, <1>8, <1>9

\* main.c:121, 143: whatever the number of ranks leaves as remainder, no rank
\* adds to a word outside of the window.
THEOREM InsideTheWindow == Spec => []DisplacementInWindow
BY InWindow, Invariance, PTL

\* Where two ranks have gone through as many turns they are at the same one.
LEMMA SameTurn ==
    ASSUME NEW m \in Nat, NEW n \in Nat, NEW j \in 0 .. Turns, NEW k \in 0 .. Turns,
           m * (Turns + 1) + j = n * (Turns + 1) + k
    PROVE  m = n /\ j = k
<1>0. /\ Turns \in Nat /\ Turns + 1 \in Nat
      /\ m * (Turns + 1) \in Nat /\ n * (Turns + 1) \in Nat
  BY Bounds, Distributes
<1>1. CASE m < n
  <2>1. (m + 1) * (Turns + 1) <= n * (Turns + 1)
    BY <1>0, <1>1, Grows
  <2>2. (m + 1) * (Turns + 1) = m * (Turns + 1) + (Turns + 1)
    BY <1>0, Distributes
  <2> QED BY <1>0, <2>1, <2>2
<1>2. CASE n < m
  <2>1. (n + 1) * (Turns + 1) <= m * (Turns + 1)
    BY <1>0, <1>2, Grows
  <2>2. (n + 1) * (Turns + 1) = n * (Turns + 1) + (Turns + 1)
    BY <1>0, Distributes
  <2> QED BY <1>0, <2>1, <2>2
<1>3. CASE m = n
  BY <1>0, <1>3
<1> QED BY <1>1, <1>2, <1>3

\* main.c:129-137, 147-148: the accesses that are under way while rank 0's
\* clock runs are those of the stride and repetition that it prints, and none is
\* under way when it does.
THEOREM MeasurementsApart == Spec => []OneMeasurementAtATime
<1>1. IInv => OneMeasurementAtATime
  <2> SUFFICES ASSUME IInv, NEW a \in Accessor, todo[a] > 0
               PROVE  /\ pc[0] = "measure" => stride[a] = stride[0] /\ rep[a] = rep[0]
                      /\ pc[0] # "report"
    BY DEF OneMeasurementAtATime
  <2>1. /\ a \in Rank /\ 0 \in Rank /\ Placed(a) /\ Placed(0)
        /\ rep[a] \in Nat /\ rep[0] \in Nat /\ stride[a] \in Nat /\ stride[0] \in Nat
        /\ Len(calls[a]) \in Nat /\ Len(calls[0]) \in Nat
        /\ Turns \in Nat
    BY Bounds DEF IInv, Typed, WorldTyped, Accessor
  <2>2. Turn(a) \in Nat /\ Base(a) \in Nat /\ Turn(0) \in Nat /\ Base(0) \in Nat
    <3>1. Turns + 1 \in Nat
      BY <2>1
    <3> QED BY <2>1, <3>1, Bounds, Quotient, Distributes DEF Turn, Base
  <2>3. pc[a] = "flush" /\ ~inside[a]
    BY <2>1, Collectives DEF Placed
  <2>4. Len(calls[a]) = 2 * (Base(a) + Turn(a)) + 2 /\ Behind(a, "done") = Len(calls[a])
    <3>1. Behind(a, "done") = Len(calls[a])
      BY <2>3 DEF Behind
    <3>2. Progress(a) = 2 * (Base(a) + Turn(a)) + 2
      BY <2>2, <2>3 DEF Progress
    <3> QED BY <2>1, <3>1, <3>2 DEF Placed
  <2>5. Behind(0, "done") <= Len(calls[a]) /\ Len(calls[a]) <= Len(calls[0])
    BY <2>1, <2>4 DEF IInv, NobodyAhead
  <2>6. CASE pc[0] = "measure"
    <3>1. Behind(0, "done") = 2 * (Base(0) + Turn(0)) + 2
      BY <2>1, <2>2, <2>6 DEF Placed, Progress
    <3>2. Len(calls[0]) <= Behind(0, "done") + 1
      BY <2>1, <2>6 DEF Behind
    <3>3. Base(a) + Turn(a) = Base(0) + Turn(0)
      <4>1. 2 * (Base(0) + Turn(0)) + 2 <= 2 * (Base(a) + Turn(a)) + 2
        BY <2>4, <2>5, <3>1
      <4>0. Len(calls[a]) <= Behind(0, "done") + 1
        BY <2>1, <2>5, <3>1, <3>2, <2>2
      <4>2. 2 * (Base(a) + Turn(a)) + 2 <= 2 * (Base(0) + Turn(0)) + 2 + 1
        BY <2>4, <3>1, <4>0
      <4> QED BY <2>2, <4>1, <4>2
    <3>4. /\ Turn(a) < Turns /\ stride[a] = Turn(a) * STRIDE_STEP
          /\ Turn(0) < Turns /\ stride[0] = Turn(0) * STRIDE_STEP
      BY <2>1, <2>3, <2>6 DEF Placed, InTurn
    <3>5. rep[a] = rep[0] /\ Turn(a) = Turn(0)
      <4>1. rep[a] * (Turns + 1) + Turn(a) = rep[0] * (Turns + 1) + Turn(0)
        BY <3>3 DEF Base
      <4>2. Turn(a) \in 0 .. Turns /\ Turn(0) \in 0 .. Turns
        BY <2>1, <2>2, <3>4
      <4>3. \A m, n \in Nat : \A j, k \in 0 .. Turns :
               m * (Turns + 1) + j = n * (Turns + 1) + k => m = n /\ j = k
        BY SameTurn
      <4>4. \A j, k \in 0 .. Turns :
               rep[a] * (Turns + 1) + j = rep[0] * (Turns + 1) + k => rep[a] = rep[0] /\ j = k
        BY <2>1, <4>3, Zenon
      <4> QED BY <4>1, <4>2, <4>4, Zenon
    <3> QED BY <2>6, <3>4, <3>5
  <2>7. CASE pc[0] = "report"
    <3>1. Behind(0, "done") = 2 * (Base(0) + Turn(0)) + 3
      BY <2>1, <2>2, <2>7 DEF Placed, Progress
    <3>2. Len(calls[0]) = Behind(0, "done")
      BY <2>1, <2>7, Collectives DEF Placed, Behind
    <3> QED BY <2>1, <2>2, <2>4, <2>5, <3>1, <3>2
  <2> QED BY <2>6, <2>7
<1> QED BY <1>1, Invariance, PTL

-----------------------------------------------------------------------------
(* Types. *)

LEMMA PairsStepTyped ==
    ASSUME PairsTypeOK, NEW r \in Rank, NEW after, PairsStep(r, Created, after)
    PROVE  PairsTypeOK'
<1> DEFINE i == Min(Pending(r, Created))
<1>1. CASE Pending(r, Created) = {}
  BY <1>1 DEF PairsStep, PairsTypeOK
<1>2. CASE Pending(r, Created) # {}
  <2>1. i \in Pending(r, Created)
    <3>1. Pending(r, Created) \in SUBSET Nat
      BY SizeAssumption DEF Pending, Pair
    <3> QED BY <1>2, <3>1, MinIsMember
  <2>2. joined' = [joined EXCEPT ![i][Side(r)] = @ + 1]
    BY <1>2 DEF PairsStep, CallPair, ReturnFromPair
  <2> HIDE DEF i
  <2>3. i \in Pair /\ joined[i][Side(r)] < 6 /\ Side(r) \in {"zero", "peer"}
    BY <2>1 DEF Pending, Side, Created, PairsTypeOK, NotCreated, Freed
  <2> QED BY <2>2, <2>3, OneMoreCall DEF PairsTypeOK, NotCreated, Freed
<1> QED BY <1>1, <1>2

\* The repetition that r is in is one of those that are to be made.
Limited(r) == rep[r] <= NTimes + WARMUP /\ (pc[r] \notin {"finalize", "done"} => rep[r] < NTimes + WARMUP)

Words == 0 .. BUFFER_SIZE - 1

Limits ==
    /\ PairsTypeOK
    /\ epoch \in [Rank -> BOOLEAN]
    /\ todo \in [Rank -> 0 .. ITERATIONS]
    /\ words \in [Words -> Nat]
    /\ lines \in [0 .. BUFFER_SIZE -> Nat]
    /\ \A r \in Rank : Limited(r)

LEMMA LimitedKept ==
    ASSUME IInv, NEW r \in Rank, Limited(r), RankStep(r) \/ Serve(r)
    PROVE  Limited(r)'
<1>0. /\ pc \in [Rank -> Label] /\ rep \in [Rank -> Nat] /\ rep[r] \in Nat
      /\ NTimes + WARMUP \in Nat /\ NTimes' = NTimes /\ WARMUP' = WARMUP
  BY NTimesAssumption, WarmupAssumption DEF IInv, Typed
<1>1. CASE EnterCollective(r) \/ Serve(r)
  BY <1>0, <1>1 DEF EnterCollective, CallCollective, Serve, CompleteOne, Limited
<1>2. CASE LeaveCollective(r)
  <2>1. CASE pc[r] = "end"
    <3>1. /\ rep' = [rep EXCEPT ![r] = @ + 1]
          /\ pc' = [pc EXCEPT ![r] = IF rep[r] + 1 >= NTimes + WARMUP THEN "finalize"
                                     ELSE IF r = 0 THEN "begin" ELSE "lock"]
      BY <1>2, <2>1 DEF LeaveCollective, Goto
    <3>2. rep'[r] = rep[r] + 1 /\ rep[r] < NTimes + WARMUP
      BY <1>0, <2>1, <3>1 DEF Limited
    <3>3. CASE rep[r] + 1 >= NTimes + WARMUP
      <4>1. pc'[r] = "finalize"
        BY <1>0, <3>1, <3>3
      <4> QED BY <1>0, <3>2, <4>1 DEF Limited
    <3>4. CASE ~(rep[r] + 1 >= NTimes + WARMUP)
      BY <1>0, <3>2, <3>4 DEF Limited
    <3> QED BY <3>3, <3>4
  <2>2. CASE pc[r] # "end"
    <3>1. rep' = rep /\ pc' = [pc EXCEPT ![r] = Source(r)[pc[r]]] /\ pc[r] \in DOMAIN CollectiveAt
      BY <1>2, <2>2 DEF LeaveCollective, ReturnFromCollective, Advance, Goto, Program
    <3>2. pc[r] \in {"finalize", "done"} => pc'[r] = "done"
      BY <1>0, <2>2, <3>1, Collectives DEF Source
    <3> QED BY <1>0, <2>2, <3>1, <3>2 DEF Limited
  <2> QED BY <2>1, <2>2
<1>3. CASE WorkOnPairs(r) \/ NextStride(r) \/ Report(r) \/ WindowCall(r)
  <2>1. rep' = rep /\ pc[r] \notin {"finalize", "done"}
    BY <1>3 DEF WorkOnPairs, NextStride, Report, WindowCall
  <2> QED BY <1>0, <2>1 DEF Limited
<1> QED BY <1>1, <1>2, <1>3 DEF RankStep

LEMMA LimitsKept == IInv /\ Limits /\ [Next]_vars => Limits'
<1> SUFFICES ASSUME IInv, Limits, [Next]_vars PROVE Limits'
  OBVIOUS
<1>0. /\ PairsTypeOK /\ epoch \in [Rank -> BOOLEAN] /\ todo \in [Rank -> 0 .. ITERATIONS]
      /\ words \in [Words -> Nat] /\ lines \in [0 .. BUFFER_SIZE -> Nat]
      /\ ITERATIONS \in Nat /\ Words' = Words
  BY IterationsAssumption DEF Limits, Words
<1>1. ASSUME NEW r \in Rank, RankStep(r) \/ Serve(r) PROVE Limits'
  <2>1. ASSUME NEW s \in Rank PROVE Limited(s)'
    <3>1. CASE s = r
      BY <1>1, <3>1, LimitedKept DEF Limits
    <3>2. CASE s # r
      <4>1. pc'[s] = pc[s] /\ rep'[s] = rep[s]
        BY <1>1, <3>2, OneAtATime DEF IInv
      <4> QED BY <4>1 DEF Limits, Limited
    <3> QED BY <3>1, <3>2
  <2>2. CASE EnterCollective(r) \/ LeaveCollective(r) \/ NextStride(r)
    <3>1. UNCHANGED <<joined, epoch, todo, words, lines>>
      BY <2>2 DEF EnterCollective, CallCollective, LeaveCollective, ReturnFromCollective, rma,
                  NextStride, Locally, counts
    <3> QED BY <1>0, <2>1, <3>1 DEF Limits, PairsTypeOK
  <2>3. CASE WorkOnPairs(r)
    <3>1. UNCHANGED <<epoch, todo, words, lines>> /\ PairsTypeOK'
      BY <1>0, <2>3, PairsStepTyped DEF WorkOnPairs, counts
    <3> QED BY <1>0, <2>1, <3>1 DEF Limits
  <2>4. CASE Report(r)
    <3>1. /\ UNCHANGED <<joined, epoch, todo, words>>
          /\ lines' = lines \/ lines' = [lines EXCEPT ![stride[r]] = @ + 1]
      BY <2>4 DEF Report, Locally
    <3> QED BY <1>0, <2>1, <3>1 DEF Limits, PairsTypeOK
  <2>5. CASE WindowCall(r)
    <3>1. /\ UNCHANGED <<joined, words, lines>>
          /\ \/ UNCHANGED todo /\ \E b \in BOOLEAN : epoch' = [epoch EXCEPT ![r] = b]
             \/ UNCHANGED epoch /\ todo' = [todo EXCEPT ![r] = ITERATIONS]
             \/ UNCHANGED <<epoch, todo>>
      BY <2>5 DEF WindowCall, WinLock, StartBatch, WinFlush, WinUnlock, Batch, counts
    <3>2. epoch' \in [Rank -> BOOLEAN]
      BY <1>0, <3>1
    <3>3. todo' \in [Rank -> 0 .. ITERATIONS]
      BY <1>0, <3>1
    <3> QED BY <1>0, <2>1, <3>1, <3>2, <3>3 DEF Limits, PairsTypeOK
  <2>6. CASE Serve(r)
    <3>1. /\ UNCHANGED <<joined, epoch, lines>>
          /\ todo[r] > 0 /\ todo' = [todo EXCEPT ![r] = @ - 1]
          /\ words' = [words EXCEPT ![Displacement(r)] = @ + 1]
      BY <2>6 DEF Serve, CompleteOne
    <3>2. todo' \in [Rank -> 0 .. ITERATIONS]
      BY <1>0, <3>1
    <3>3. words' \in [Words -> Nat]
      <4>1. ASSUME NEW d PROVE [words EXCEPT ![d] = @ + 1] \in [Words -> Nat]
        <5>1. [words EXCEPT ![d] = @ + 1]
                = [x \in Words |-> IF x = d THEN words[d] + 1 ELSE words[x]]
          BY <1>0, Zenon
        <5>2. d \in Words => words[d] + 1 \in Nat
          BY <1>0
        <5> QED BY <1>0, <5>1, <5>2
      <4> QED BY <3>1, <4>1
    <3> QED BY <1>0, <2>1, <3>1, <3>2, <3>3 DEF Limits, PairsTypeOK
  <2> QED BY <1>1, <2>2, <2>3, <2>4, <2>5, <2>6 DEF RankStep
<1>2. CASE UNCHANGED vars
  <2>1. UNCHANGED <<pc, joined, epoch, todo, words, lines, rep>>
    BY <1>2 DEF vars, counts
  <2> QED BY <2>1 DEF Limits, PairsTypeOK, Limited
<1> QED BY <1>1, <1>2 DEF Next, Finished, Accessor

LEMMA LimitsStart == Init => Limits
BY NTimesAssumption, WarmupAssumption, IterationsAssumption
DEF Init, WorldInit, PairsInit, PairsTypeOK, NotCreated, Freed, Limits, Limited, Words

\* The variables have their types: no rank goes through more repetitions than
\* there are, and no pair's collectives are called more often than they exist.
THEOREM TypeCorrect == Spec => []TypeOK
<1>1. IInv /\ Limits => TypeOK
  <2> SUFFICES ASSUME IInv, Limits PROVE TypeOK
    OBVIOUS
  <2>1. Label = DOMAIN Source(1) \cup {"stride", "next", "end", "done"}
    BY DEF Label, Source
  <2>2. rep \in [Rank -> 0 .. NTimes + WARMUP]
    <3>1. NTimes + WARMUP \in Nat /\ rep \in [Rank -> Nat]
          /\ \A r \in Rank : rep[r] <= NTimes + WARMUP
      BY NTimesAssumption, WarmupAssumption DEF IInv, Typed, Limits, Limited
    <3> QED BY <3>1
  <2> QED BY <2>1, <2>2 DEF IInv, Typed, WorldTyped, Limits, Words, WorldTypeOK, TypeOK
<1> QED BY <1>1, LimitsStart, LimitsKept, Invariance, PTL DEF Spec
-----------------------------------------------------------------------------
(* What has been added and printed. *)

Rounds == 0 .. NTimes + WARMUP - 1

\* a has done all its additions at stride s in the repetition that it is in.
Passed(a, s) ==
    CASE pc[a] \in {"issue", "flush"} -> s < stride[a]
      [] pc[a] \in {"measure", "report", "release", "next"} -> s <= stride[a]
      [] pc[a] \in {"unlock", "end"} -> TRUE
      [] OTHER -> FALSE

\* Addition j of rank a at stride s in repetition m is done.
Served(a, s, m, j) ==
    \/ m < rep[a]
    \/ m = rep[a] /\ Passed(a, s)
    \/ m = rep[a] /\ pc[a] = "flush" /\ s = stride[a] /\ j <= ITERATIONS - todo[a]

\* The ranks and strides that lead to word d, and the additions done there.
Own(d) == {x \in Accessor \X Strides : (x[1] - 1) * x[2] = d}

Hits(d) ==
    {x \in (Own(d) \X Rounds) \X (1 .. ITERATIONS) :
        Served(x[1][1][1], x[1][1][2], x[1][2], x[2])}

\* Rank 0 has been through stride s in the repetition that it is in.
Gone(s) ==
    CASE pc[0] \in {"measure", "report"} -> s < stride[0]
      [] pc[0] \in {"release", "next"} -> s <= stride[0]
      [] pc[0] = "end" -> TRUE
      [] OTHER -> FALSE

TimesGone(s) == IF Gone(s) THEN rep[0] + 1 ELSE rep[0]

Printed(s) == IF s \in Strides /\ TimesGone(s) > WARMUP THEN TimesGone(s) - WARMUP ELSE 0

Ends(r) ==
    /\ pc[r] = "report" => r = 0
    /\ pc[r] \in {"finalize", "done"} => rep[r] = NTimes + WARMUP

Tally ==
    /\ \A d \in Words : words[d] = Cardinality(Hits(d))
    /\ \A s \in 0 .. BUFFER_SIZE : lines[s] = Printed(s)
    /\ \A r \in Rank : Ends(r)

-----------------------------------------------------------------------------
\* The strides that are measured are the first Turns multiples.
LEMMA StridesFit ==
    /\ \A s \in Strides : \E q \in Nat : s = q * STRIDE_STEP /\ q < Turns
    /\ \A q \in Nat : q < Turns => q * STRIDE_STEP \in Strides
<1>1. \A s \in Nat : s * (Size - 1) <= BUFFER_SIZE <=> Fits(s)
  BY Bounds, Quotient DEF Fits
<1>2. ASSUME NEW s \in Strides PROVE \E q \in Nat : s = q * STRIDE_STEP /\ q < Turns
  <2> DEFINE q == s \div STRIDE_STEP
  <2>1. s \in Nat /\ s % STRIDE_STEP = 0 /\ Fits(s)
    BY <1>1, Bounds DEF Strides
  <2>2. q \in Nat /\ s = STRIDE_STEP * q
    BY <2>1, Bounds
  <2> HIDE DEF q
  <2>3. s = q * STRIDE_STEP
    BY <2>2, Bounds
  <2>4. q < Turns
    BY <2>1, <2>2, <2>3, FitsInTurns
  <2> QED BY <2>2, <2>3, <2>4
<1>3. ASSUME NEW q \in Nat, q < Turns PROVE q * STRIDE_STEP \in Strides
  <2>1. q * STRIDE_STEP \in Nat /\ Fits(q * STRIDE_STEP)
    BY <1>3, FitsInTurns
  <2>2. (q * STRIDE_STEP) % STRIDE_STEP = 0
    BY <2>1, Bounds, NoRemainder
  <2>3. (q * STRIDE_STEP) * (Size - 1) <= BUFFER_SIZE
    BY <1>1, <2>1
  <2>4. q * STRIDE_STEP <= (q * STRIDE_STEP) * (Size - 1)
    <3> DEFINE n == q * STRIDE_STEP
    <3>1. n \in Nat
      BY <2>1
    <3> HIDE DEF n
    <3>2. Size - 1 \in Nat /\ 1 <= Size - 1
      BY Bounds, SizeAssumption
    <3>3. 1 * n <= (Size - 1) * n
      BY <3>1, <3>2, Grows
    <3>4. 1 * n = n /\ n * (Size - 1) = (Size - 1) * n
      BY <3>1, <3>2
    <3>5. n <= n * (Size - 1)
      BY <3>3, <3>4
    <3> QED BY <3>5 DEF n
  <2>5. q * STRIDE_STEP <= BUFFER_SIZE
    <3>1. (q * STRIDE_STEP) * (Size - 1) \in Nat
      BY <2>1, Bounds, Distributes
    <3> QED BY <2>1, <2>3, <2>4, <3>1, Bounds
  <2> QED BY <2>1, <2>2, <2>3, <2>5, Bounds DEF Strides
<1> QED BY <1>2, <1>3

\* Nothing lies between two strides, and nothing beyond the last.
LEMMA NextOne ==
    ASSUME NEW k \in Nat, NEW s \in Strides
    PROVE  /\ s < (k + 1) * STRIDE_STEP <=> s <= k * STRIDE_STEP
           /\ k + 1 >= Turns => s <= k * STRIDE_STEP
<1>1. PICK q \in Nat : s = q * STRIDE_STEP /\ q < Turns
  BY StridesFit
<1>2. /\ q <= k => q * STRIDE_STEP <= k * STRIDE_STEP
      /\ k + 1 <= q => (k + 1) * STRIDE_STEP <= q * STRIDE_STEP
  BY Bounds, Grows
<1>3. /\ k * STRIDE_STEP \in Nat /\ q * STRIDE_STEP \in Nat
      /\ (k + 1) * STRIDE_STEP = k * STRIDE_STEP + STRIDE_STEP
  BY Bounds, Distributes
<1> QED BY <1>1, <1>2, <1>3, Bounds

-----------------------------------------------------------------------------
\* Steps of r on which nothing depends that is counted here.
Quiet(r) ==
    \/ pc'[r] = pc[r]
    \/ pc[r] = "barrier0" /\ pc'[r] = "pairs"
    \/ pc[r] = "pairs" /\ pc'[r] \in {"begin", "lock"}
    \/ pc[r] = "lock" /\ pc'[r] = "begin"
    \/ pc[r] = "begin" /\ pc'[r] = "stride"
    \/ pc[r] = "measure" /\ pc'[r] = (IF r = 0 THEN "report" ELSE "release")
    \/ pc[r] = "release" /\ pc'[r] = "next"
    \/ r # 0 /\ pc[r] = "unlock" /\ pc'[r] = "end"
    \/ pc[r] = "finalize" /\ pc'[r] = "done"

\* What a step of rank r does to its own place, and to the lines.
LEMMA Transition ==
    ASSUME IInv, NEW r \in Rank, RankStep(r)
    PROVE  /\ words' = words
           /\ \/ Quiet(r) /\ UNCHANGED <<rep, stride, todo, lines>>
              \/ /\ pc[r] = "end"
                 /\ pc'[r] = (IF rep[r] + 1 >= NTimes + WARMUP THEN "finalize"
                              ELSE IF r = 0 THEN "begin" ELSE "lock")
                 /\ rep'[r] = rep[r] + 1 /\ UNCHANGED <<stride, todo, lines>>
              \/ /\ pc[r] = "report" /\ pc'[r] = "release" /\ UNCHANGED <<rep, stride, todo>>
                 /\ lines' = IF rep[r] >= WARMUP THEN [lines EXCEPT ![stride[r]] = @ + 1] ELSE lines
              \/ /\ pc[r] = "issue" /\ r # 0 /\ pc'[r] = "flush" /\ todo'[r] = ITERATIONS
                 /\ UNCHANGED <<rep, stride, lines>>
              \/ /\ pc[r] = "flush" /\ r # 0 /\ pc'[r] = "measure" /\ todo[r] = 0
                 /\ UNCHANGED <<rep, stride, todo, lines>>
              \/ /\ pc[r] = "stride" /\ stride'[r] = 0 /\ UNCHANGED <<rep, todo, lines>>
                 /\ pc'[r] = (IF r = 0 THEN "measure" ELSE "issue")
              \/ /\ pc[r] = "next" /\ stride'[r] = stride[r] + STRIDE_STEP
                 /\ UNCHANGED <<rep, todo, lines>>
                 /\ pc'[r] = (IF ~Fits(stride[r] + STRIDE_STEP) THEN IF r = 0 THEN "end" ELSE "unlock"
                              ELSE IF r = 0 THEN "measure" ELSE "issue")
<1>0. /\ pc \in [Rank -> Label] /\ rep \in [Rank -> Nat] /\ stride \in [Rank -> Nat]
      /\ todo \in [Rank -> Nat] /\ Placed(r)
  BY DEF IInv, Typed
<1>1. CASE EnterCollective(r)
  BY <1>0, <1>1 DEF EnterCollective, CallCollective, counts, Quiet
<1>2. CASE LeaveCollective(r)
  <2>0. pc[r] \in DOMAIN CollectiveAt /\ UNCHANGED <<stride, todo, words, lines>>
    BY <1>2 DEF LeaveCollective, ReturnFromCollective, rma, counts
  <2>1. CASE pc[r] = "end"
    <3>1. /\ rep' = [rep EXCEPT ![r] = @ + 1]
          /\ pc' = [pc EXCEPT ![r] = IF rep[r] + 1 >= NTimes + WARMUP THEN "finalize"
                                     ELSE IF r = 0 THEN "begin" ELSE "lock"]
      BY <1>2, <2>1 DEF LeaveCollective, Goto
    <3>2. rep'[r] = rep[r] + 1
      BY <1>0, <3>1
    <3>3. pc'[r] = (IF rep[r] + 1 >= NTimes + WARMUP THEN "finalize"
                    ELSE IF r = 0 THEN "begin" ELSE "lock")
      BY <1>0, <3>1, Zenon
    <3> QED BY <2>0, <2>1, <3>2, <3>3
  <2>2. CASE pc[r] # "end"
    <3>1. rep' = rep /\ pc' = [pc EXCEPT ![r] = Source(r)[pc[r]]]
      BY <1>2, <2>2 DEF LeaveCollective, Advance, Goto, Program
    <3>2. pc'[r] = Source(r)[pc[r]]
      BY <1>0, <3>1
    <3> QED BY <2>0, <2>2, <3>1, <3>2, Collectives DEF Source, Quiet
  <2> QED BY <2>1, <2>2
<1>3. CASE WorkOnPairs(r)
  <2>1. UNCHANGED <<rep, stride, todo, lines, words>> /\ pc[r] = "pairs"
    BY <1>3 DEF WorkOnPairs, counts
  <2>2. pc' = pc \/ pc' = [pc EXCEPT ![r] = Source(r)["pairs"]]
    BY <1>3 DEF WorkOnPairs, PairsStep, Goto, Program
  <2>3. pc'[r] = "pairs" \/ pc'[r] = (IF r = 0 THEN "begin" ELSE "lock")
    BY <1>0, <2>1, <2>2 DEF Source
  <2> QED BY <2>1, <2>3 DEF Quiet
<1>4. CASE NextStride(r)
  <2> DEFINE s == IF pc[r] = "stride" THEN 0 ELSE stride[r] + STRIDE_STEP
  <2>1. /\ pc[r] \in {"stride", "next"} /\ UNCHANGED <<rep, todo, lines, words>>
        /\ stride' = [stride EXCEPT ![r] = s]
        /\ pc' = [pc EXCEPT ![r] = IF ~Fits(s) THEN IF r = 0 THEN "end" ELSE "unlock"
                                   ELSE IF r = 0 THEN "measure" ELSE "issue"]
    BY <1>4 DEF NextStride, Locally, Goto, counts
  <2> HIDE DEF s
  <2>2. /\ stride'[r] = s
        /\ pc'[r] = (IF ~Fits(s) THEN IF r = 0 THEN "end" ELSE "unlock"
                     ELSE IF r = 0 THEN "measure" ELSE "issue")
    BY <1>0, <2>1, Zenon
  <2>3. CASE pc[r] = "stride"
    <3>1. s = 0 /\ Fits(0)
      BY <2>3, Bounds DEF s, Fits, Largest
    <3> QED BY <2>1, <2>2, <2>3, <3>1
  <2>4. CASE pc[r] = "next"
    <3>1. s = stride[r] + STRIDE_STEP
      BY <2>4 DEF s
    <3> QED BY <2>1, <2>2, <2>4, <3>1
  <2> QED BY <2>1, <2>3, <2>4
<1>5. CASE Report(r)
  BY <1>0, <1>5 DEF Report, Locally, Advance, Goto, Program, Source, Reports, Quiet
<1>6. CASE r \in Accessor /\ WindowCall(r)
  <2>1. /\ r # 0 /\ UNCHANGED <<rep, stride, words, lines>> /\ pc'[r] = Source(r)[pc[r]]
        /\ \/ pc[r] \in {"lock", "unlock"} /\ todo' = todo
           \/ pc[r] = "issue" /\ todo' = [todo EXCEPT ![r] = ITERATIONS]
           \/ pc[r] = "flush" /\ todo' = todo /\ todo[r] = 0
    BY <1>0, <1>6 DEF Accessor, WindowCall, WinLock, StartBatch, WinFlush, WinUnlock, Batch,
                      Advance, Goto, Program, counts
  <2>2. CASE pc[r] \in {"lock", "unlock"}
    BY <2>1, <2>2 DEF Source, Quiet
  <2>3. CASE pc[r] = "issue"
    BY <1>0, <2>1, <2>3 DEF Source
  <2>4. CASE pc[r] = "flush"
    BY <2>1, <2>4 DEF Source
  <2> QED BY <2>1, <2>2, <2>3, <2>4
<1> QED BY <1>1, <1>2, <1>3, <1>4, <1>5, <1>6 DEF RankStep

\* Where r goes on to its next stride.
LEMMA Onward ==
    ASSUME IInv, NEW r \in Rank, pc[r] = "next", NEW s \in Strides
    PROVE  /\ s < stride[r] + STRIDE_STEP <=> s <= stride[r]
           /\ ~Fits(stride[r] + STRIDE_STEP) => s <= stride[r]
<1>1. stride[r] \in Nat /\ Turn(r) < Turns /\ stride[r] = Turn(r) * STRIDE_STEP
  BY DEF IInv, Typed, Placed, InTurn
<1>2. Turn(r) \in Nat /\ Turn(r) + 1 \in Nat
  BY <1>1, Bounds, Quotient DEF Turn
<1>3. (Turn(r) + 1) * STRIDE_STEP = stride[r] + STRIDE_STEP
  BY <1>1, <1>2, FitsInTurns
<1>4. ~Fits(stride[r] + STRIDE_STEP) => Turn(r) + 1 >= Turns
  BY <1>2, <1>3, Bounds, FitsInTurns
<1> QED BY <1>1, <1>2, <1>3, <1>4, NextOne

\* A step of a rank neither adds nor forgets an addition.
LEMMA ServedKept ==
    ASSUME IInv, NEW r \in Rank, r # 0, RankStep(r),
           NEW s \in Strides, NEW m \in Rounds, NEW j \in 1 .. ITERATIONS
    PROVE  Served(r, s, m, j)' <=> Served(r, s, m, j)
<1>0. /\ pc[r] \in Label /\ rep[r] \in Nat /\ stride[r] \in Nat /\ todo[r] \in Nat
      /\ s \in Nat /\ m \in Nat /\ j \in Nat /\ j > 0 /\ j <= ITERATIONS
      /\ ITERATIONS \in Nat /\ STRIDE_STEP \in Nat /\ WARMUP \in Nat /\ NTimes \in Nat
  BY NTimesAssumption, WarmupAssumption, IterationsAssumption, StepAssumption
  DEF IInv, Typed, Strides, Rounds
<1>1. CASE Quiet(r) /\ UNCHANGED <<rep, stride, todo>>
  BY <1>0, <1>1 DEF Served, Passed, Quiet
<1>2. CASE /\ pc[r] = "end" /\ pc'[r] \in {"finalize", "begin", "lock"}
           /\ rep'[r] = rep[r] + 1 /\ UNCHANGED <<stride, todo>>
  BY <1>0, <1>2 DEF Served, Passed
<1>3. CASE pc[r] = "report" /\ pc'[r] = "release" /\ UNCHANGED <<rep, stride, todo>>
  BY <1>0, <1>3 DEF Served, Passed
<1>4. CASE pc[r] = "issue" /\ pc'[r] = "flush" /\ todo'[r] = ITERATIONS /\ UNCHANGED <<rep, stride>>
  BY <1>0, <1>4 DEF Served, Passed
<1>5. CASE pc[r] = "flush" /\ pc'[r] = "measure" /\ todo[r] = 0 /\ UNCHANGED <<rep, stride, todo>>
  BY <1>0, <1>5 DEF Served, Passed
<1>6. CASE /\ pc[r] = "stride" /\ stride'[r] = 0 /\ UNCHANGED <<rep, todo>>
           /\ pc'[r] = "issue"
  BY <1>0, <1>6 DEF Served, Passed
<1>7. CASE /\ pc[r] = "next" /\ stride'[r] = stride[r] + STRIDE_STEP /\ UNCHANGED <<rep, todo>>
           /\ pc'[r] = (IF ~Fits(stride[r] + STRIDE_STEP) THEN "unlock" ELSE "issue")
  BY <1>0, <1>7, Onward DEF Served, Passed
<1> QED BY <1>1, <1>2, <1>3, <1>4, <1>5, <1>6, <1>7, Transition

-----------------------------------------------------------------------------
LEMMA HitsSame ==
    ASSUME NEW d \in Words,
           \A a \in Accessor : \A s \in Strides : \A m \in Rounds : \A j \in 1 .. ITERATIONS :
               Served(a, s, m, j)' <=> Served(a, s, m, j)
    PROVE  Hits(d)' = Hits(d)
<1>1. Own(d) \subseteq Accessor \X Strides /\ Own(d)' = Own(d) /\ Rounds' = Rounds
  BY DEF Own, Strides, Rounds, Accessor, Rank
<1>2. ASSUME NEW x \in (Own(d) \X Rounds) \X (1 .. ITERATIONS)
      PROVE  Served(x[1][1][1], x[1][1][2], x[1][2], x[2])'
                <=> Served(x[1][1][1], x[1][1][2], x[1][2], x[2])
  <2>1. /\ x[1][1][1] \in Accessor /\ x[1][1][2] \in Strides
        /\ x[1][2] \in Rounds /\ x[2] \in 1 .. ITERATIONS
    BY <1>1
  <2> QED BY <2>1
<1> QED BY <1>1, <1>2 DEF Hits

\* What rank 0 has printed follows its own steps, and it alone prints.
LEMMA LinesKept ==
    ASSUME IInv, Tally, lines \in [0 .. BUFFER_SIZE -> Nat], NEW r \in Rank, RankStep(r),
           NEW s \in 0 .. BUFFER_SIZE
    PROVE  lines'[s] = Printed(s)'
<1>0. /\ 0 \in Rank /\ rep[0] \in Nat /\ stride[0] \in Nat /\ pc[0] \in Label
      /\ WARMUP \in Nat /\ NTimes \in Nat /\ STRIDE_STEP \in Nat \ {0} /\ s \in Nat
      /\ Strides' = Strides /\ Strides \subseteq Nat
      /\ lines[s] = Printed(s) /\ Ends(r) /\ Placed(0)
  BY Bounds, WarmupAssumption, NTimesAssumption DEF IInv, Typed, Tally, Strides
<1>1. CASE r # 0
  <2>1. pc'[0] = pc[0] /\ rep'[0] = rep[0] /\ stride'[0] = stride[0]
    BY <1>0, <1>1, OneAtATime DEF IInv
  <2>2. lines' = lines
    BY <1>0, <1>1, Transition DEF Ends
  <2> QED BY <1>0, <2>1, <2>2 DEF Printed, TimesGone, Gone
<1>2. CASE r = 0
  <2>1. CASE Quiet(0) /\ UNCHANGED <<rep, stride, lines>>
    BY <1>0, <2>1 DEF Printed, TimesGone, Gone, Quiet
  <2>2. CASE /\ pc[0] = "end" /\ pc'[0] \in {"finalize", "begin"}
             /\ rep'[0] = rep[0] + 1 /\ UNCHANGED <<stride, lines>>
    BY <1>0, <2>2 DEF Printed, TimesGone, Gone
  <2>3. CASE /\ pc[0] = "report" /\ pc'[0] = "release" /\ UNCHANGED <<rep, stride>>
             /\ lines' = IF rep[0] >= WARMUP THEN [lines EXCEPT ![stride[0]] = @ + 1] ELSE lines
    <3>1. stride[0] \in Strides
      <4>1. Turn(0) < Turns /\ stride[0] = Turn(0) * STRIDE_STEP
        BY <1>0, <2>3 DEF Placed, InTurn
      <4>2. Turn(0) \in Nat
        BY <1>0, Quotient DEF Turn
      <4> QED BY <4>1, <4>2, StridesFit
    <3>2. (Gone(s) <=> s < stride[0]) /\ (Gone(s)' <=> s <= stride[0])
      BY <1>0, <2>3 DEF Gone
    <3>3. CASE s = stride[0]
      <4>1. lines'[s] = IF rep[0] >= WARMUP THEN lines[s] + 1 ELSE lines[s]
        BY <2>3, <3>3
      <4>2. TimesGone(s) = rep[0] /\ TimesGone(s)' = rep[0] + 1
        <5>1. ~Gone(s) /\ Gone(s)'
          BY <1>0, <3>2, <3>3
        <5> QED BY <2>3, <5>1 DEF TimesGone
      <4>3. /\ lines[s] = (IF rep[0] > WARMUP THEN rep[0] - WARMUP ELSE 0)
            /\ Printed(s)' = (IF rep[0] + 1 > WARMUP THEN rep[0] + 1 - WARMUP ELSE 0)
        BY <1>0, <3>1, <3>3, <4>2 DEF Printed
      <4> QED BY <1>0, <4>1, <4>3
    <3>4. CASE s # stride[0]
      <4>1. lines'[s] = lines[s]
        BY <2>3, <3>4
      <4>2. TimesGone(s)' = TimesGone(s)
        BY <1>0, <2>3, <3>2, <3>4 DEF TimesGone
      <4> QED BY <1>0, <4>1, <4>2 DEF Printed
    <3> QED BY <3>3, <3>4
  <2>4. CASE pc[0] = "stride" /\ stride'[0] = 0 /\ UNCHANGED <<rep, lines>> /\ pc'[0] = "measure"
    BY <1>0, <2>4 DEF Printed, TimesGone, Gone
  <2>5. CASE /\ pc[0] = "next" /\ stride'[0] = stride[0] + STRIDE_STEP /\ UNCHANGED <<rep, lines>>
             /\ pc'[0] = (IF ~Fits(stride[0] + STRIDE_STEP) THEN "end" ELSE "measure")
    <3>1. CASE s \in Strides
      <4>1. Gone(s)' <=> Gone(s)
        BY <1>0, <2>5, <3>1, Onward DEF Gone
      <4> QED BY <1>0, <2>5, <4>1 DEF Printed, TimesGone
    <3>2. CASE s \notin Strides
      BY <1>0, <2>5, <3>2 DEF Printed
    <3> QED BY <3>1, <3>2
  <2> QED BY <1>2, <2>1, <2>2, <2>3, <2>4, <2>5, Transition
<1> QED BY <1>1, <1>2

LEMMA EndsKept ==
    ASSUME IInv, Tally, Limits, NEW r \in Rank, RankStep(r)
    PROVE  Ends(r)'
<1>0. /\ Ends(r) /\ rep[r] \in Nat /\ NTimes \in Nat /\ WARMUP \in Nat /\ Limited(r)
  BY NTimesAssumption, WarmupAssumption DEF IInv, Typed, Tally, Limits
<1>1. CASE Quiet(r) /\ rep' = rep
  BY <1>0, <1>1 DEF Ends, Quiet
<1>2. CASE pc[r] = "end" /\ rep'[r] = rep[r] + 1
           /\ pc'[r] = (IF rep[r] + 1 >= NTimes + WARMUP THEN "finalize"
                        ELSE IF r = 0 THEN "begin" ELSE "lock")
  <2>1. rep[r] < NTimes + WARMUP
    BY <1>2, <1>0 DEF Limited
  <2> QED BY <1>0, <1>2, <2>1 DEF Ends
<1>3. CASE pc'[r] \in {"release", "flush", "measure", "issue", "end", "unlock"}
  BY <1>3 DEF Ends
<1> QED BY <1>1, <1>2, <1>3, Transition

\* One addition more, at the word of the rank that makes it.
LEMMA HitsGrow ==
    ASSUME IInv, Limits, NEW a \in Accessor, Serve(a), NEW d \in Words
    PROVE  \E x : /\ d = Displacement(a) => x \notin Hits(d) /\ Hits(d)' = Hits(d) \cup {x}
                  /\ d # Displacement(a) => Hits(d)' = Hits(d)
<1> DEFINE n == ITERATIONS - todo[a] + 1
           x == <<<<<<a, stride[a]>>, rep[a]>>, n>>
<1>0. /\ a \in Rank /\ todo[a] \in 1 .. ITERATIONS /\ stride[a] \in Nat /\ rep[a] \in Rounds
      /\ todo' = [todo EXCEPT ![a] = @ - 1] /\ UNCHANGED <<pc, rep, stride>>
      /\ pc[a] = "flush" /\ ITERATIONS \in Nat /\ todo'[a] = todo[a] - 1
  <2>1. /\ a \in Rank /\ todo \in [Rank -> 0 .. ITERATIONS] /\ Placed(a) /\ Limited(a)
        /\ stride[a] \in Nat /\ rep[a] \in Nat
    BY DEF IInv, Typed, Limits, Accessor
  <2>2. todo[a] > 0 /\ todo' = [todo EXCEPT ![a] = @ - 1] /\ UNCHANGED <<pc, rep, stride>>
    BY DEF Serve, CompleteOne
  <2>3. rep[a] \in Rounds
    BY <2>1, <2>2, NTimesAssumption, WarmupAssumption DEF Placed, Limited, Rounds
  <2> QED BY <2>1, <2>2, <2>3, IterationsAssumption DEF Placed
<1>1. stride[a] \in Strides /\ n \in 1 .. ITERATIONS
  <2>1. Turn(a) < Turns /\ stride[a] = Turn(a) * STRIDE_STEP
    BY <1>0 DEF IInv, Placed, InTurn
  <2>2. Turn(a) \in Nat
    BY <1>0, Bounds, Quotient DEF Turn
  <2> QED BY <1>0, <2>1, <2>2, StridesFit
<1>2. ASSUME NEW b \in Accessor, NEW s \in Strides, NEW m \in Rounds, NEW j \in 1 .. ITERATIONS
      PROVE  Served(b, s, m, j)' <=>
                 Served(b, s, m, j) \/ (b = a /\ s = stride[a] /\ m = rep[a] /\ j = n)
  <2>1. CASE b = a
    <3>1. Served(a, s, m, j) <=>
              \/ m < rep[a] \/ (m = rep[a] /\ s < stride[a])
              \/ m = rep[a] /\ s = stride[a] /\ j <= ITERATIONS - todo[a]
      BY <1>0 DEF Served, Passed
    <3>2. Served(a, s, m, j)' <=>
              \/ m < rep[a] \/ (m = rep[a] /\ s < stride[a])
              \/ m = rep[a] /\ s = stride[a] /\ j <= ITERATIONS - (todo[a] - 1)
      BY <1>0 DEF Served, Passed
    <3>3. j <= ITERATIONS - (todo[a] - 1) <=> j <= ITERATIONS - todo[a] \/ j = n
      BY <1>0
    <3> QED BY <2>1, <3>1, <3>2, <3>3
  <2>2. CASE b # a
    <3>1. pc'[b] = pc[b] /\ rep'[b] = rep[b] /\ stride'[b] = stride[b] /\ todo'[b] = todo[b]
      BY <1>0, <2>2, OneAtATime DEF IInv, Accessor
    <3> QED BY <2>2, <3>1 DEF Served, Passed
  <2> QED BY <2>1, <2>2
<1> DEFINE U == (Own(d) \X Rounds) \X (1 .. ITERATIONS)
<1>3. /\ Own(d) \subseteq Accessor \X Strides /\ Own(d)' = Own(d) /\ Rounds' = Rounds
      /\ d = Displacement(a) <=> <<a, stride[a]>> \in Own(d)
  BY <1>1 DEF Own, Strides, Rounds, Accessor, Rank, Displacement
<1>4. d = Displacement(a) <=> x \in U
  BY <1>0, <1>1, <1>3
<1> HIDE DEF n
<1>5. ASSUME NEW y \in U
      PROVE  Served(y[1][1][1], y[1][1][2], y[1][2], y[2])'
                <=> Served(y[1][1][1], y[1][1][2], y[1][2], y[2]) \/ y = x
  <2>1. /\ y[1][1][1] \in Accessor /\ y[1][1][2] \in Strides
        /\ y[1][2] \in Rounds /\ y[2] \in 1 .. ITERATIONS
        /\ y = <<<<<<y[1][1][1], y[1][1][2]>>, y[1][2]>>, y[2]>>
    BY <1>3
  <2>2. y = x <=> /\ y[1][1][1] = a /\ y[1][1][2] = stride[a]
                  /\ y[1][2] = rep[a] /\ y[2] = n
    BY <2>1
  <2> QED BY <1>2, <2>1, <2>2
<1>6. Hits(d)' = {y \in U : Served(y[1][1][1], y[1][1][2], y[1][2], y[2]) \/ y = x}
  <2>1. Hits(d)' = {y \in U : Served(y[1][1][1], y[1][1][2], y[1][2], y[2])'}
    BY <1>3 DEF Hits
  <2> QED BY <1>5, <2>1
<1>7. x \notin Hits(d)
  <2>1. ~Served(a, stride[a], rep[a], n)
    <3>1. /\ ~(rep[a] < rep[a]) /\ ~(stride[a] < stride[a]) /\ ~(n <= ITERATIONS - todo[a])
      BY <1>0, <1>1, NTimesAssumption, WarmupAssumption DEF n, Rounds
    <3> QED BY <1>0, <3>1 DEF Served, Passed
  <2> QED BY <2>1 DEF Hits
<1>8. Hits(d) = {y \in U : Served(y[1][1][1], y[1][1][2], y[1][2], y[2])}
  BY DEF Hits
<1>9. CASE d = Displacement(a)
  <2>1. Hits(d)' = Hits(d) \cup {x}
    BY <1>4, <1>6, <1>8, <1>9
  <2> QED BY <1>7, <1>9, <2>1
<1>10. CASE d # Displacement(a)
  <2>1. Hits(d)' = Hits(d)
    BY <1>4, <1>6, <1>8, <1>10
  <2> QED BY <1>10, <2>1
<1> QED BY <1>9, <1>10

LEMMA OwnFinite == \A d \in Words : IsFiniteSet(Own(d))
<1>1. IsFiniteSet(Accessor) /\ IsFiniteSet(Strides)
  <2>1. IsFiniteSet(Rank) /\ Accessor \subseteq Rank
    BY SizeAssumption, FS_Interval DEF Rank, Accessor
  <2>2. IsFiniteSet(0 .. BUFFER_SIZE) /\ Strides \subseteq 0 .. BUFFER_SIZE
    BY BufferAssumption, FS_Interval DEF Strides
  <2> QED BY <2>1, <2>2, FS_Subset
<1>2. IsFiniteSet(Accessor \X Strides)
  BY <1>1, FS_Product
<1> QED BY <1>2, FS_Subset DEF Own

LEMMA HitsFinite ==
    ASSUME NEW d \in Words
    PROVE  LET all == (Own(d) \X Rounds) \X (1 .. ITERATIONS) IN
           /\ IsFiniteSet(all) /\ IsFiniteSet(Hits(d))
           /\ Cardinality(all) = (NTimes + WARMUP) * ITERATIONS * Cardinality(Own(d))
<1> DEFINE all == (Own(d) \X Rounds) \X (1 .. ITERATIONS)
<1>1. /\ IsFiniteSet(Rounds) /\ Cardinality(Rounds) = NTimes + WARMUP
      /\ IsFiniteSet(1 .. ITERATIONS) /\ Cardinality(1 .. ITERATIONS) = ITERATIONS
      /\ NTimes + WARMUP \in Nat /\ ITERATIONS \in Nat
  BY NTimesAssumption, WarmupAssumption, IterationsAssumption, FS_Interval DEF Rounds
<1>2. IsFiniteSet(Own(d)) /\ Cardinality(Own(d)) \in Nat
  BY OwnFinite, FS_CardinalityType
<1>3. /\ IsFiniteSet(Own(d) \X Rounds)
      /\ Cardinality(Own(d) \X Rounds) = Cardinality(Own(d)) * (NTimes + WARMUP)
  BY <1>1, <1>2, FS_Product
<1>4. /\ IsFiniteSet(all)
      /\ Cardinality(all) = (Cardinality(Own(d)) * (NTimes + WARMUP)) * ITERATIONS
  BY <1>1, <1>3, FS_Product
<1>5. \A i, j, k \in Nat : (i * j) * k = j * k * i
  OBVIOUS
<1>6. Cardinality(all) = (NTimes + WARMUP) * ITERATIONS * Cardinality(Own(d))
  BY <1>1, <1>2, <1>4, <1>5
<1>7. IsFiniteSet(Hits(d))
  <2>1. Hits(d) \subseteq all
    BY DEF Hits
  <2> QED BY <1>4, <2>1, FS_Subset
<1> QED BY <1>4, <1>6, <1>7

LEMMA TallyKept == IInv /\ Limits /\ Tally /\ [Next]_vars => Tally'
<1> SUFFICES ASSUME IInv, Limits, Tally, [Next]_vars PROVE Tally'
  OBVIOUS
<1>0. /\ words \in [Words -> Nat] /\ lines \in [0 .. BUFFER_SIZE -> Nat] /\ Words' = Words
      /\ \A d \in Words : words[d] = Cardinality(Hits(d))
      /\ \A s \in 0 .. BUFFER_SIZE : lines[s] = Printed(s)
      /\ \A s \in Rank : Ends(s)
  BY DEF Limits, Tally, Words
<1>1. ASSUME NEW r \in Rank, RankStep(r) PROVE Tally'
  <2>1. ASSUME NEW a \in Accessor, NEW s \in Strides, NEW m \in Rounds, NEW j \in 1 .. ITERATIONS
        PROVE  Served(a, s, m, j)' <=> Served(a, s, m, j)
    <3>1. CASE a = r
      BY <1>1, <3>1, ServedKept DEF Accessor
    <3>2. CASE a # r
      <4>1. pc'[a] = pc[a] /\ rep'[a] = rep[a] /\ stride'[a] = stride[a] /\ todo'[a] = todo[a]
        BY <1>1, <3>2, OneAtATime DEF IInv, Accessor
      <4> QED BY <4>1 DEF Served, Passed
    <3> QED BY <3>1, <3>2
  <2>2. words' = words
    BY <1>1, Transition
  <2>3. \A d \in Words : words'[d] = Cardinality(Hits(d)')
    BY <1>0, <2>1, <2>2, HitsSame
  <2>4. \A s \in 0 .. BUFFER_SIZE : lines'[s] = Printed(s)'
    BY <1>0, <1>1, LinesKept
  <2>5. ASSUME NEW s \in Rank PROVE Ends(s)'
    <3>1. CASE s = r
      BY <1>1, <3>1, EndsKept
    <3>2. CASE s # r
      <4>1. pc'[s] = pc[s] /\ rep'[s] = rep[s]
        BY <1>1, <3>2, OneAtATime DEF IInv
      <4> QED BY <1>0, <4>1 DEF Ends
    <3> QED BY <3>1, <3>2
  <2> QED BY <1>0, <2>3, <2>4, <2>5 DEF Tally
<1>2. ASSUME NEW a \in Accessor, Serve(a) PROVE Tally'
  <2>1. /\ UNCHANGED <<pc, rep, stride, lines>>
        /\ words' = [words EXCEPT ![Displacement(a)] = @ + 1]
    BY <1>2 DEF Serve, CompleteOne
  <2>2. ASSUME NEW d \in Words PROVE words'[d] = Cardinality(Hits(d)')
    <3>1. PICK x : /\ d = Displacement(a) => x \notin Hits(d) /\ Hits(d)' = Hits(d) \cup {x}
                   /\ d # Displacement(a) => Hits(d)' = Hits(d)
      BY <1>2, HitsGrow
    <3>2. CASE d = Displacement(a)
      <4>1. Cardinality(Hits(d)') = Cardinality(Hits(d)) + 1
        BY <3>1, <3>2, HitsFinite, FS_AddElement
      <4>2. words'[d] = words[d] + 1
        BY <1>0, <2>1, <3>2
      <4> QED BY <1>0, <4>1, <4>2
    <3>3. CASE d # Displacement(a)
      <4>1. words'[d] = words[d]
        BY <1>0, <2>1, <3>3
      <4> QED BY <1>0, <3>1, <3>3, <4>1
    <3> QED BY <3>2, <3>3
  <2>3. \A s \in 0 .. BUFFER_SIZE : Printed(s)' = Printed(s)
    BY <2>1 DEF Printed, TimesGone, Gone, Strides
  <2>4. \A s \in Rank : Ends(s)'
    BY <1>0, <2>1 DEF Ends
  <2> QED BY <1>0, <2>1, <2>2, <2>3, <2>4 DEF Tally
<1>3. CASE UNCHANGED vars
  <2>1. UNCHANGED <<pc, rep, stride, todo, lines, words>>
    BY <1>3 DEF vars, counts
  <2>2. \A d \in Words : Hits(d)' = Hits(d)
    BY <2>1, HitsSame DEF Served, Passed
  <2>3. \A s \in 0 .. BUFFER_SIZE : Printed(s)' = Printed(s)
    BY <2>1 DEF Printed, TimesGone, Gone, Strides
  <2> QED BY <1>0, <2>1, <2>2, <2>3 DEF Tally, Ends
<1> QED BY <1>1, <1>2, <1>3 DEF Next, Finished

LEMMA TallyStarts == Init => Tally
<1> SUFFICES ASSUME Init PROVE Tally
  OBVIOUS
<1>0. /\ WARMUP \in Nat /\ NTimes \in Nat
      /\ pc = [r \in Rank |-> "barrier0"] /\ rep = [r \in Rank |-> 0] /\ 0 \in Rank
      /\ words = [d \in Words |-> 0] /\ lines = [s \in 0 .. BUFFER_SIZE |-> 0]
  BY Bounds, NTimesAssumption, WarmupAssumption DEF Init, WorldInit, Words
<1>1. ASSUME NEW d \in Words PROVE Hits(d) = {}
  <2>1. ASSUME NEW x \in (Own(d) \X Rounds) \X (1 .. ITERATIONS)
        PROVE  ~Served(x[1][1][1], x[1][1][2], x[1][2], x[2])
    <3>1. x[1][1][1] \in Rank /\ x[1][2] \in Nat
      BY <1>0 DEF Own, Accessor, Rounds
    <3> QED BY <1>0, <3>1 DEF Served, Passed
  <2> QED BY <2>1 DEF Hits
<1>2. \A s \in 0 .. BUFFER_SIZE : Printed(s) = 0
  BY <1>0 DEF Printed, TimesGone, Gone
<1> QED BY <1>0, <1>1, <1>2, FS_EmptySet DEF Tally, Ends

\* When rank 0 has passed the last barrier, nobody has anything left to add.
LEMMA AllServedInTheEnd ==
    ASSUME IInv, Limits, Tally, pc[0] = "done",
           NEW a \in Accessor, NEW s \in Strides, NEW m \in Rounds, NEW j \in 1 .. ITERATIONS
    PROVE  Served(a, s, m, j)
<1> DEFINE N == NTimes + WARMUP
           T == Turns + 1
           P == N * T
<1>0. /\ a \in Rank /\ 0 \in Rank /\ Placed(a) /\ Placed(0) /\ Ends(0) /\ Limited(a)
      /\ pc[a] \in Label /\ inside[a] \in BOOLEAN /\ rep[a] \in Nat
      /\ Len(calls[a]) \in Nat /\ Len(calls[0]) \in Nat
      /\ N \in Nat /\ N > 0 /\ T \in Nat /\ Turns \in Nat /\ m \in Nat /\ m < N
  BY Bounds, NTimesAssumption, WarmupAssumption
  DEF IInv, Typed, WorldTyped, Limits, Tally, Accessor, Rounds
<1>1. Behind(0, "done") = 2 * P + 1 /\ rep[0] = N
  BY <1>0 DEF Placed, Progress, Base, Ends
<1>2. Behind(0, "done") <= Len(calls[a])
  BY <1>0 DEF IInv, NobodyAhead
<1>3. /\ inside[a] \/ pc[a] = "done" => Progress(a) + 1 = Len(calls[a])
      /\ ~(inside[a] \/ pc[a] = "done") => Progress(a) = Len(calls[a])
  BY <1>0 DEF Placed, Behind
<1>4. P \in Nat /\ T = Turns + 1 /\ Base(a) \in Nat /\ Turn(a) \in Nat /\ Base(a) = rep[a] * T
  <2>1. stride[a] \in Nat
    BY <1>0 DEF IInv, Typed
  <2> QED BY <1>0, <2>1, Bounds, Distributes, Quotient DEF Base, Turn
<1> HIDE DEF N, T, P
<1>5. Len(calls[a]) >= 2 * P + 1 /\ P \in Nat /\ Len(calls[a]) \in Nat
  BY <1>0, <1>1, <1>2, <1>4
<1> DEFINE B == Base(a)
           t == Turn(a)
           g == Progress(a)
           p == pc[a]
<1>6. /\ p \in Label
      /\ p = "barrier0" => g = 0
      /\ p \in {"pairs", "lock", "begin", "finalize", "done"} => g = 2 * B + 1
      /\ p = "stride" => g = 2 * B + 2
      /\ p \in {"issue", "flush", "measure"} => g = 2 * (B + t) + 2
      /\ p \in {"report", "release"} => g = 2 * (B + t) + 3
      /\ p = "next" => g = 2 * (B + t) + 4
      /\ p \in {"unlock", "end"} => g = 2 * (B + Turns) + 2
  BY <1>0 DEF Progress
<1>7. /\ B \in Nat /\ t \in Nat /\ Turns \in Nat
      /\ p \in InTurn => t + 1 <= Turns
  BY <1>0, <1>4 DEF Placed
<1>8. /\ inside[a] \/ p = "done" => g + 1 = Len(calls[a])
      /\ ~(inside[a] \/ p = "done") => g = Len(calls[a])
  BY <1>3
<1>9. B = rep[a] * T
  BY <1>4
<1> HIDE DEF B, t, g, p
<1>10. g \in Int /\ g <= 2 * (B + Turns) + 2
  <2>1. CASE p \in InTurn
    <3>1. t + 1 <= Turns
      BY <1>7, <2>1
    <3>2. g <= 2 * (B + t) + 4 /\ g \in Int
      BY <1>6, <1>7, <2>1 DEF InTurn
    <3> QED BY <1>7, <3>1, <3>2
  <2>2. CASE p \notin InTurn
    BY <1>6, <1>7, <2>2 DEF Label, InTurn
  <2> QED BY <2>1, <2>2
<1>11. CASE rep[a] >= N
  BY <1>0, <1>11 DEF Served
<1>12. CASE rep[a] < N
  <2>1. B + Turns + 1 <= P
    <3>0. rep[a] + 1 \in Nat /\ rep[a] + 1 <= N /\ N \in Nat /\ T \in Nat
      BY <1>0, <1>12
    <3>1. (rep[a] + 1) * T <= N * T
      BY <3>0, Grows
    <3>2. (rep[a] + 1) * T = B + T
      BY <1>0, <1>9, Distributes
    <3>3. T = Turns + 1 /\ N * T = P
      BY <1>4 DEF P
    <3> QED BY <1>5, <1>7, <3>1, <3>2, <3>3
  <2>2. p # "done"
    BY <1>5, <1>6, <1>7, <1>8, <2>1
  <2>3. inside[a]
    BY <1>0, <1>5, <1>7, <1>8, <1>10, <2>1, <2>2
  <2>4. g >= 2 * P
    BY <1>5, <1>8, <1>10, <2>3
  <2>5. p = "end"
    <3>1. p \in DOMAIN CollectiveAt
      BY <1>0, <2>3 DEF Placed, p
    <3>2. p \notin {"barrier0", "begin", "finalize"}
      BY <1>5, <1>6, <1>7, <2>1, <2>4
    <3>3. p \in {"measure", "release"} => p \in InTurn
      BY DEF InTurn
    <3>4. p \notin {"measure", "release"}
      BY <1>5, <1>6, <1>7, <2>1, <2>4, <3>3
    <3> QED BY <3>1, <3>2, <3>4, Collectives
  <2>6. rep[a] + 1 >= N
    <3>1. CASE rep[a] + 2 <= N
      <4>0. rep[a] + 1 + 1 \in Nat /\ rep[a] + 1 + 1 <= N /\ N \in Nat /\ T \in Nat
        BY <1>0, <3>1
      <4>1. (rep[a] + 1 + 1) * T <= N * T
        BY <4>0, Grows
      <4>2. (rep[a] + 1) * T = B + T /\ (rep[a] + 1 + 1) * T = (rep[a] + 1) * T + T
        BY <1>0, <1>9, Distributes
      <4>3. T = Turns + 1 /\ N * T = P
        BY <1>4 DEF P
      <4> QED BY <1>5, <1>6, <1>7, <2>4, <2>5, <4>1, <4>2, <4>3
    <3> QED BY <1>0, <3>1
  <2> QED BY <1>0, <2>5, <2>6 DEF Served, Passed, p
<1> QED BY <1>0, <1>11, <1>12

\* main.c:111-161: when rank 0 has ended, there are ntimes lines for each stride
\* that fits and none for the warm-up, and every word holds what its ranks have
\* added in all repetitions.
THEOREM StridesAreMeasured == Spec => []AllStridesMeasured
<1>1. IInv /\ Limits /\ Tally => AllStridesMeasured
  <2> SUFFICES ASSUME IInv, Limits, Tally, pc[0] = "done"
               PROVE  /\ lines = [s \in 0 .. BUFFER_SIZE |-> IF s \in Strides THEN NTimes ELSE 0]
                      /\ \A d \in Words : words[d] = (NTimes + WARMUP) * ITERATIONS
                            * Cardinality({x \in Accessor \X Strides : (x[1] - 1) * x[2] = d})
    BY DEF AllStridesMeasured, Words
  <2>1. ASSUME NEW s \in 0 .. BUFFER_SIZE
        PROVE  lines[s] = IF s \in Strides THEN NTimes ELSE 0
    <3>1. TimesGone(s) = NTimes + WARMUP
      BY Bounds DEF Tally, Ends, TimesGone, Gone
    <3> QED BY <3>1, NTimesAssumption, WarmupAssumption DEF Tally, Printed
  <2>2. ASSUME NEW d \in Words
        PROVE  words[d] = (NTimes + WARMUP) * ITERATIONS * Cardinality(Own(d))
    <3>1. Hits(d) = (Own(d) \X Rounds) \X (1 .. ITERATIONS)
      <4>1. ASSUME NEW x \in (Own(d) \X Rounds) \X (1 .. ITERATIONS)
            PROVE  Served(x[1][1][1], x[1][1][2], x[1][2], x[2])
        <5>1. /\ x[1][1][1] \in Accessor /\ x[1][1][2] \in Strides
              /\ x[1][2] \in Rounds /\ x[2] \in 1 .. ITERATIONS
          BY DEF Own
        <5> QED BY <5>1, AllServedInTheEnd
      <4> QED BY <4>1 DEF Hits
    <3> QED BY <3>1, HitsFinite DEF Tally
  <2>3. lines \in [0 .. BUFFER_SIZE -> Nat]
    BY DEF Limits
  <2> QED BY <2>1, <2>2, <2>3 DEF Own
<1>2. Init => Limits
  BY LimitsStart
<1> QED BY <1>1, <1>2, TallyStarts, TallyKept, LimitsKept, Invariance, PTL DEF Spec
=============================================================================
