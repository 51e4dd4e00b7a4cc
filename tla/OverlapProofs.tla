--------------------------- MODULE OverlapProofs ----------------------------
(***************************************************************************)
(* Proofs about the two programs that use overlapping windows, first about *)
(* OverlapSemantics, then about OverlapPerformance.                        *)
(***************************************************************************)
EXTENDS OverlapSemantics, OverlapPerformance, WorldProofs, FiniteSetTheorems

(***************************************************************************)
(* What TLC checks of overlapping-windows-semantics for a few ranks and    *)
(* additions, for every number of them: with atomicity over all windows    *)
(* of one memory, the two printed numbers are exact.                       *)
(***************************************************************************)

Spot == {"alloc", "barrier1", "pairs", "lock", "barrier2", "issue", "flush", "barrier3", "count",
         "barrier4", "unlock", "barrier5", "reduce", "print", "free", "barrier6", "finalize", "done"}

\* The collectives that a rank at a label has returned from.
Met == [alloc |-> 0, barrier1 |-> 0, pairs |-> 1, lock |-> 1, barrier2 |-> 1, issue |-> 2,
        flush |-> 2, barrier3 |-> 2, count |-> 3, barrier4 |-> 3, unlock |-> 4, barrier5 |-> 4,
        reduce |-> 5, print |-> 6, free |-> 6, barrier6 |-> 6, finalize |-> 7, done |-> 8]

\* How many of them everybody else has entered: all but the reduction, of
\* which only its root learns that, and the return from MPI_Finalize.
Known(r) ==
    CASE pc[r] = "done" -> 7
      [] pc[r] \in {"print", "free", "barrier6"} /\ r # 0 -> 5
      [] OTHER -> Met[pc[r]]

LEMMA Bounds ==
    /\ Size \in Nat /\ Size >= 2 /\ 0 \in Rank /\ Half \in Nat /\ Half >= 1
    /\ 0 \notin Accessor /\ Accessor \subseteq Rank
    /\ ITERATIONS \in Nat \ {0} /\ NotYet \notin Nat /\ Garbage \subseteq Nat
BY SizeAssumption, PairsExist, IterationsAssumption, GarbageAssumption
DEF Half, Rank, Accessor, NotYet

LEMMA MetIsNumber == \A l \in Spot : Met[l] \in 0 .. 8
BY DEF Spot, Met

-----------------------------------------------------------------------------
(* The loops over the pairs. *)

LEMMA PairsStepTyped ==
    ASSUME PairsTypeOK, NEW r \in Rank, NEW goal \in {Created, Freed}, NEW after,
           PairsStep(r, goal, after)
    PROVE  PairsTypeOK'
<1> DEFINE i == Min(Pending(r, goal))
<1>1. CASE Pending(r, goal) = {}
  BY <1>1 DEF PairsStep, PairsTypeOK
<1>2. CASE Pending(r, goal) # {}
  <2>1. i \in Pending(r, goal)
    <3>1. Pending(r, goal) \in SUBSET Nat
      BY Bounds DEF Pending, Pair
    <3> QED BY <1>2, <3>1, MinIsMember
  <2>2. joined' = [joined EXCEPT ![i][Side(r)] = @ + 1]
    BY <1>2 DEF PairsStep, CallPair, ReturnFromPair
  <2> HIDE DEF i
  <2>3. i \in Pair /\ joined[i][Side(r)] < 6 /\ Side(r) \in {"zero", "peer"}
    BY <2>1 DEF Pending, Side, Created, Freed, PairsTypeOK
  <2> QED BY <2>2, <2>3, OneMoreCall DEF PairsTypeOK, NotCreated, Freed
<1> QED BY <1>1, <1>2

-----------------------------------------------------------------------------
(* The invariant. *)

AfterCount == {"barrier4", "unlock", "barrier5", "reduce", "print", "free", "barrier6",
               "finalize", "done"}
AfterReduce == {"print", "free", "barrier6", "finalize", "done"}

Typed ==
    /\ WorldTyped
    /\ pc \in [Rank -> Spot]
    /\ epoch \in [Rank -> BOOLEAN]
    /\ todo \in [Rank -> 0 .. ITERATIONS]
    /\ PairsTypeOK
    /\ scope \in Scopes
    /\ cell \in Nat
    /\ fetched \in [Rank -> Nat \cup {NotYet}]
    /\ accesses \in [Rank -> {0, ITERATIONS}]
    /\ contrib \in [Rank -> {0, ITERATIONS}]
    /\ printed \in [should : Nat \cup {NotYet}, after : Nat \cup {NotYet}]

Placed(r) ==
    /\ Len(calls[r]) = Met[pc[r]] + (IF inside[r] THEN 1 ELSE 0)
    /\ inside[r] => pc[r] \in DOMAIN CollectiveAt
    /\ pc[r] \in {"lock", "issue", "flush", "count", "unlock"} => r \in Accessor
    /\ todo[r] > 0 => pc[r] = "flush"
    /\ fetched[r] # NotYet => todo[r] > 0 /\ r \in Accessor
    /\ accesses[r] = IF r \in Accessor /\ pc[r] \in AfterCount THEN ITERATIONS ELSE 0
    /\ contrib[r] = IF r \in Accessor /\ (pc[r] \in AfterReduce \/ (pc[r] = "reduce" /\ inside[r]))
                      THEN ITERATIONS ELSE 0

Together == \A r, s \in Rank : Known(r) <= Len(calls[s])

\* The additions that have been done, each by its rank and its number.
Done(a) == IF pc[a] \in BeforeIssue THEN 0 ELSE ITERATIONS - todo[a]
Added == UNION {{a} \X (1 .. Done(a)) : a \in Accessor}

WordIsExact ==
    scope = "memory" =>
        /\ pc[0] # "alloc" => cell = Cardinality(Added)
        /\ \A a \in Rank : fetched[a] # NotYet => fetched[a] = cell
        /\ \A a, b \in Rank : fetched[a] # NotYet /\ fetched[b] # NotYet => a = b

LineIsExact ==
    /\ pc[0] \in AfterReduce => printed.should = Issued
    /\ printed.after # NotYet => pc[0] \in AfterReduce \ {"print"}
    /\ scope = "memory" /\ printed.after # NotYet => printed.after = Issued

IInv ==
    /\ Typed
    /\ \A r \in Rank : Placed(r)
    /\ Together
    /\ WordIsExact
    /\ LineIsExact

-----------------------------------------------------------------------------
(* Sums over ranks. *)

LEMMA AccessorsFinite == IsFiniteSet(Accessor) /\ IsFiniteSet(Accessor \X (1 .. ITERATIONS))
<1>1. IsFiniteSet(Rank)
  BY Bounds, FS_Interval DEF Rank
<1>2. IsFiniteSet(Accessor)
  BY <1>1, Bounds, FS_Subset
<1>3. IsFiniteSet(1 .. ITERATIONS)
  BY Bounds, FS_Interval
<1> QED BY <1>2, <1>3, FS_Product

LEMMA AllIssued == Cardinality(Accessor \X (1 .. ITERATIONS)) = Issued
<1>1. IsFiniteSet(1 .. ITERATIONS) /\ Cardinality(1 .. ITERATIONS) = ITERATIONS
  BY Bounds, FS_Interval
<1> QED BY <1>1, AccessorsFinite, FS_Product DEF Issued

LEMMA AddedFinite ==
    ASSUME Typed
    PROVE  /\ IsFiniteSet(Added)
           /\ \A a \in Accessor : Done(a) \in 0 .. ITERATIONS
<1>1. \A a \in Accessor : Done(a) \in 0 .. ITERATIONS
  BY Bounds DEF Typed, Done
<1>2. Added \subseteq Accessor \X (1 .. ITERATIONS)
  BY <1>1, Bounds DEF Added
<1> QED BY <1>1, <1>2, AccessorsFinite, FS_Subset

LEMMA AddedAll ==
    ASSUME \A a \in Accessor : Done(a) = ITERATIONS
    PROVE  Cardinality(Added) = Issued
<1>1. Added = Accessor \X (1 .. ITERATIONS)
  BY DEF Added
<1> QED BY <1>1, AllIssued

\* One addition more.
LEMMA AddedOneMore ==
    ASSUME Typed, NEW a \in Accessor, Done(a)' = Done(a) + 1,
           \A b \in Accessor : b # a => Done(b)' = Done(b)
    PROVE  Cardinality(Added)' = Cardinality(Added) + 1
<1> DEFINE x == <<a, Done(a) + 1>>
<1>1. \A b \in Accessor : Done(b) \in Nat
  BY AddedFinite
<1>2. Added' = Added \cup {x}
  <2>1. ASSUME NEW b \in Accessor, NEW n \in Nat
        PROVE  n \in 1 .. Done(b)' <=> n \in 1 .. Done(b) \/ <<b, n>> = x
    BY <1>1
  <2>2. \A y : y \in Added' <=> \E b \in Accessor : \E n \in 1 .. Done(b)' : y = <<b, n>>
    BY DEF Added
  <2>3. \A y : y \in Added <=> \E b \in Accessor : \E n \in 1 .. Done(b) : y = <<b, n>>
    BY DEF Added
  <2>4. \A b \in Accessor : (1 .. Done(b)) \subseteq Nat /\ (1 .. Done(b)') \subseteq Nat
    BY <1>1
  <2>5. ASSUME NEW y PROVE y \in Added' <=> y \in Added \cup {x}
    <3>1. ASSUME y \in Added' PROVE y \in Added \cup {x}
      BY <2>1, <2>2, <2>3, <2>4, <3>1
    <3>2. ASSUME y \in Added PROVE y \in Added'
      BY <2>1, <2>2, <2>3, <2>4, <3>2
    <3>3. x \in Added'
      <4>1. Done(a) + 1 \in Nat /\ Done(a) + 1 \in 1 .. Done(a)'
        BY <1>1
      <4> QED BY <2>2, <4>1
    <3> QED BY <3>1, <3>2, <3>3
  <2> QED BY <2>5
<1>3. x \notin Added
  BY <1>1 DEF Added
<1> QED BY <1>2, <1>3, AddedFinite, FS_AddElement

LEMMA AddedSame ==
    ASSUME \A b \in Accessor : Done(b)' = Done(b)
    PROVE  Added' = Added
BY DEF Added

LEMMA SumOfAll ==
    ASSUME NEW f, DOMAIN f = Rank,
           \A r \in Rank : f[r] = IF r \in Accessor THEN ITERATIONS ELSE 0
    PROVE  Sum(f) = Issued
<1>1. UNION {{r} \X (1 .. f[r]) : r \in DOMAIN f} = Accessor \X (1 .. ITERATIONS)
  BY Bounds
<1> QED BY <1>1, AllIssued DEF Sum

-----------------------------------------------------------------------------
(* What holds in every state that the invariant allows. *)

LEMMA Collectives ==
    /\ DOMAIN CollectiveAt = {"barrier1", "barrier2", "barrier3", "barrier4", "barrier5",
                              "barrier6", "reduce", "finalize"}
    /\ \A l \in DOMAIN CollectiveAt : CollectiveAt[l] \in CollectiveKind
    /\ \A l \in DOMAIN CollectiveAt :
          l # "finalize" /\ l # "reduce" => CollectiveAt[l] \in Synchronising
    /\ CollectiveAt["reduce"] \in Rooted
BY DEF CollectiveAt, CollectiveKind, Synchronising, Rooted

\* As long as rank 0 has not passed the first barrier, nobody has started.
LEMMA NobodyStarted ==
    ASSUME IInv, pc[0] = "alloc", NEW a \in Rank
    PROVE  pc[a] \in {"alloc", "barrier1"} /\ fetched[a] = NotYet
<1>1. Placed(0) /\ Placed(a) /\ pc[a] \in Spot /\ 0 \in Rank /\ todo[a] \in Nat
  BY Bounds DEF IInv, Typed
<1>2. Len(calls[0]) = 0
  BY <1>1, Collectives DEF Placed, Met
<1>3. Known(a) <= 0
  BY <1>1, <1>2 DEF IInv, Together
<1>4. pc[a] \in {"alloc", "barrier1"}
  BY <1>1, <1>3 DEF Known, Met, Spot
<1> QED BY <1>1, <1>4 DEF Placed

\* Once rank 0 has returned from the reduction, everybody has entered it.
LEMMA EverybodyCounted ==
    ASSUME Typed, NEW r \in Rank, Placed(r), Len(calls[r]) >= 6
    PROVE  /\ pc[r] \in AfterReduce \/ (pc[r] = "reduce" /\ inside[r])
           /\ todo[r] = 0 /\ pc[r] \notin BeforeIssue
<1>1. pc[r] \in Spot /\ todo[r] \in Nat
  BY Bounds DEF Typed
<1>2. pc[r] \in AfterReduce \/ (pc[r] = "reduce" /\ inside[r])
  BY <1>1 DEF Placed, Met, Spot, AfterReduce
<1>3. todo[r] = 0
  BY <1>1, <1>2 DEF Placed, AfterReduce
<1> QED BY <1>2, <1>3 DEF AfterReduce, BeforeIssue

LEMMA OthersKeep ==
    ASSUME NEW s \in Rank, Placed(s), pc'[s] = pc[s], inside'[s] = inside[s],
           calls'[s] = calls[s], todo'[s] = todo[s], fetched'[s] = fetched[s],
           accesses'[s] = accesses[s], contrib'[s] = contrib[s]
    PROVE  Placed(s)'
BY DEF Placed

\* Calls are only added, and what a rank knows changes with its label.
LEMMA TogetherKept ==
    ASSUME Typed, Together, NEW r \in Rank,
           \A s \in Rank : s # r => pc'[s] = pc[s],
           \A s \in Rank : Len(calls'[s]) \in Nat /\ Len(calls'[s]) >= Len(calls[s]),
           pc'[r] \in Spot,
           \/ Known(r)' <= Known(r)
           \/ \A s \in Rank : Known(r)' <= Len(calls'[s])
    PROVE  Together'
<1>1. \A s \in Rank : pc[s] \in Spot /\ Len(calls[s]) \in Nat
  BY DEF Typed, WorldTyped
<1>2. \A s \in Rank : s # r => Known(s)' = Known(s)
  BY DEF Known
<1>3. \A s \in Rank : Known(s) \in Nat
  BY <1>1, MetIsNumber DEF Known
<1>4. Known(r)' \in Nat
  BY MetIsNumber DEF Known
<1>5. ASSUME NEW s \in Rank, NEW t \in Rank PROVE Known(s)' <= Len(calls'[t])
  <2>1. Known(s) <= Len(calls[t]) /\ Len(calls'[t]) >= Len(calls[t])
    BY DEF Together
  <2>2. CASE s # r
    BY <1>1, <1>2, <1>3, <2>1, <2>2
  <2>3. CASE s = r
    BY <1>1, <1>3, <1>4, <2>1, <2>3
  <2> QED BY <2>2, <2>3
<1> QED BY <1>5 DEF Together

\* The refinement's two variables.
Value == IF pc[0] = "alloc" THEN 0 ELSE cell
Missing == [a \in Accessor |-> IF pc[a] \in BeforeIssue THEN ITERATIONS ELSE todo[a]]

\* A step that adds nothing.
Silent == Value' = Value /\ \A b \in Accessor : Done(b)' = Done(b)

\* Most steps change neither the word nor what has been added.
LEMMA WordKept ==
    ASSUME IInv, UNCHANGED <<scope, cell, fetched>>,
           \A b \in Accessor : Done(b)' = Done(b),
           pc'[0] = "alloc" <=> pc[0] = "alloc"
    PROVE  WordIsExact' /\ Silent
<1>1. WordIsExact'
  BY AddedSame DEF IInv, WordIsExact
<1>2. Value' = Value
  BY DEF Value
<1> QED BY <1>1, <1>2 DEF Silent

LEMMA LineKept ==
    ASSUME IInv, UNCHANGED <<printed, scope>>,
           pc'[0] \in AfterReduce <=> pc[0] \in AfterReduce,
           pc[0] \in AfterReduce \ {"print"} => pc'[0] \in AfterReduce \ {"print"}
    PROVE  LineIsExact'
BY DEF IInv, LineIsExact, Issued

-----------------------------------------------------------------------------
(* One lemma per action. *)

LEMMA InitHolds == Init => IInv
<1> SUFFICES ASSUME Init PROVE IInv
  OBVIOUS
<1>1. /\ pc = [r \in Rank |-> "alloc"] /\ inside = [r \in Rank |-> FALSE]
      /\ calls = [r \in Rank |-> <<>>] /\ todo = [r \in Rank |-> 0]
      /\ epoch = [r \in Rank |-> FALSE]
      /\ joined = [i \in Pair |-> [zero |-> NotCreated, peer |-> NotCreated]]
      /\ scope \in Scopes /\ cell \in Garbage
      /\ fetched = [r \in Rank |-> NotYet] /\ accesses = [r \in Rank |-> 0]
      /\ contrib = [r \in Rank |-> 0] /\ printed = [should |-> NotYet, after |-> NotYet]
  BY DEF Init, WorldInit, PairsInit
<1>2. PairsTypeOK
  BY <1>1 DEF PairsTypeOK, NotCreated, Freed
<1>3. Typed
  BY <1>1, <1>2, Bounds DEF Typed, WorldTyped, Spot
<1>4. \A r \in Rank : Placed(r)
  BY <1>1 DEF Placed, Met, AfterCount, AfterReduce
<1>5. Together
  BY <1>1 DEF Together, Known, Met
<1>6. WordIsExact /\ LineIsExact
  BY <1>1, Bounds DEF WordIsExact, LineIsExact, AfterReduce
<1> QED BY <1>3, <1>4, <1>5, <1>6 DEF IInv

LEMMA StepAlloc ==
    ASSUME IInv, NEW r \in Rank, Alloc(r)
    PROVE  IInv' /\ Silent
<1>0. /\ Typed /\ Placed(r) /\ pc[r] = "alloc" /\ pc' = [pc EXCEPT ![r] = "barrier1"]
      /\ UNCHANGED <<inside, calls, epoch, todo, joined, scope, fetched, accesses, contrib, printed>>
      /\ cell' = (IF r = 0 THEN 0 ELSE cell) /\ pc \in [Rank -> Spot] /\ WorldTyped
  BY DEF IInv, Typed, Alloc, Locally, Advance, Goto, Program, AccessorProgram, BystanderProgram,
         AccessorSource, BystanderSource, counts
<1>1. Typed'
  BY <1>0 DEF Typed, WorldTyped, Spot, PairsTypeOK
<1>2. ASSUME NEW s \in Rank PROVE Placed(s)'
  <2>1. CASE s # r
    BY <1>0, <2>1, OthersKeep DEF IInv
  <2>2. CASE s = r
    BY <1>0, <2>2 DEF Placed, Met, CollectiveAt, AfterCount, AfterReduce
  <2> QED BY <2>1, <2>2
<1>3. Together'
  <2>1. Known(r)' <= Known(r)
    BY <1>0 DEF Known, Met
  <2>2. \A s \in Rank : Len(calls'[s]) \in Nat /\ Len(calls'[s]) >= Len(calls[s])
    BY <1>0 DEF WorldTyped
  <2>3. pc'[r] \in Spot /\ \A s \in Rank : s # r => pc'[s] = pc[s]
    BY <1>0 DEF Spot
  <2> QED BY <1>0, <2>1, <2>2, <2>3, TogetherKept DEF IInv
<1>4. WordIsExact' /\ Silent
  <2>1. CASE r # 0
    <3>1. \A b \in Accessor : Done(b)' = Done(b)
      BY <1>0, Bounds DEF Done, BeforeIssue
    <3>2. pc'[0] = pc[0] /\ UNCHANGED <<scope, cell, fetched>>
      BY <1>0, <2>1, Bounds
    <3> QED BY <3>1, <3>2, WordKept
  <2>2. CASE r = 0
    <3>1. \A a \in Rank : pc[a] \in {"alloc", "barrier1"} /\ fetched[a] = NotYet
      BY <1>0, <2>2, NobodyStarted
    <3>2. \A a \in Accessor : Done(a)' = 0
      BY <1>0, <3>1, Bounds DEF Done, BeforeIssue
    <3>3. Cardinality(Added)' = 0
      <4>1. Added' = {}
        BY <3>2 DEF Added
      <4> QED BY <4>1, FS_EmptySet
    <3>4. \A a \in Accessor : Done(a) = 0
      BY <3>1, Bounds DEF Done, BeforeIssue
    <3>5. Value' = Value
      BY <1>0, <2>2 DEF Value
    <3> QED BY <1>0, <2>2, <3>1, <3>2, <3>3, <3>4, <3>5 DEF WordIsExact, Silent
  <2> QED BY <2>1, <2>2
<1>5. LineIsExact'
  BY <1>0, Bounds, LineKept DEF AfterReduce
<1> QED BY <1>1, <1>2, <1>3, <1>4, <1>5 DEF IInv

LEMMA StepEnter ==
    ASSUME IInv, NEW r \in Rank, EnterCollective(r)
    PROVE  IInv' /\ Silent
<1>0. /\ Typed /\ Placed(r) /\ WorldTyped /\ pc[r] \in DOMAIN CollectiveAt
      /\ Enter(r, CollectiveAt[pc[r]]) /\ CollectiveAt[pc[r]] \in CollectiveKind
      /\ UNCHANGED <<pc, epoch, todo, joined, scope, cell, fetched, accesses, printed>>
      /\ contrib' = (IF pc[r] = "reduce" THEN [contrib EXCEPT ![r] = accesses[r]] ELSE contrib)
      /\ contrib \in [Rank -> {0, ITERATIONS}] /\ accesses \in [Rank -> {0, ITERATIONS}]
  BY Collectives DEF IInv, Typed, EnterCollective, CallCollective
<1>1. /\ WorldTyped' /\ ~inside[r] /\ inside'[r]
      /\ Len(calls'[r]) = Len(calls[r]) + 1 /\ Len(calls[r]) \in Nat
      /\ \A s \in Rank : s # r => inside'[s] = inside[s] /\ calls'[s] = calls[s]
      /\ \A s \in Rank : Len(calls[s]) \in Nat /\ Len(calls'[s]) \in Nat
  BY <1>0, EnterCounts
<1>2. Typed'
  BY <1>0, <1>1 DEF Typed, PairsTypeOK
<1>3. ASSUME NEW s \in Rank PROVE Placed(s)'
  <2>1. CASE s # r
    BY <1>0, <1>1, <2>1, OthersKeep DEF IInv
  <2>2. CASE s = r
    <3>1. Met[pc[r]] \in Nat
      BY <1>0, MetIsNumber DEF Typed
    <3>2. contrib'[r] = IF r \in Accessor /\ (pc[r] \in AfterReduce \/ (pc[r] = "reduce" /\ inside'[r]))
                          THEN ITERATIONS ELSE 0
      BY <1>0, <1>1 DEF Placed, AfterReduce, AfterCount
    <3> QED BY <1>0, <1>1, <2>2, <3>1, <3>2 DEF Placed
  <2> QED BY <2>1, <2>2
<1>4. Together'
  <2>1. Known(r)' = Known(r) /\ Known(r) \in Nat /\ pc[r] \in Spot
    BY <1>0, MetIsNumber DEF Known, Typed
  <2>2. \A s \in Rank : Len(calls'[s]) \in Nat /\ Len(calls'[s]) >= Len(calls[s])
    BY <1>1
  <2> QED BY <1>0, <2>1, <2>2, TogetherKept DEF IInv
<1>5. WordIsExact' /\ Silent
  <2>1. \A b \in Accessor : Done(b)' = Done(b)
    BY <1>0 DEF Done
  <2> QED BY <1>0, <2>1, WordKept
<1>6. LineIsExact'
  BY <1>0, LineKept
<1> QED BY <1>2, <1>3, <1>4, <1>5, <1>6 DEF IInv

LEMMA StepLeave ==
    ASSUME IInv, NEW r \in Rank, LeaveCollective(r)
    PROVE  IInv' /\ Silent
<1>0. /\ Typed /\ Placed(r) /\ WorldTyped /\ pc[r] \in DOMAIN CollectiveAt
      /\ Leave(r, CollectiveAt[pc[r]], 0)
      /\ UNCHANGED <<epoch, todo, joined, scope, cell, fetched, accesses, contrib>>
      /\ pc' = [pc EXCEPT ![r] = Program(r)[pc[r]]] /\ pc \in [Rank -> Spot]
      /\ printed' = (IF pc[r] = "reduce" /\ r = 0
                       THEN [printed EXCEPT !.should = Sum(contrib)] ELSE printed)
  BY DEF IInv, Typed, LeaveCollective, ReturnFromCollective, Advance, Goto, rma
<1>1. /\ WorldTyped' /\ inside[r] /\ ~inside'[r] /\ calls' = calls
      /\ \A s \in Rank : s # r => inside'[s] = inside[s]
      /\ \A s \in Rank : Len(calls[s]) \in Nat
      /\ CollectiveAt[pc[r]] \in Synchronising => \A s \in Rank : Len(calls[s]) >= Len(calls[r])
  BY <1>0, LeaveCounts
<1>2. \/ pc[r] = "barrier1" /\ pc'[r] = "pairs"
      \/ pc[r] = "barrier2" /\ r \in Accessor /\ pc'[r] = "issue"
      \/ pc[r] = "barrier2" /\ r \notin Accessor /\ pc'[r] = "barrier3"
      \/ pc[r] = "barrier3" /\ r \in Accessor /\ pc'[r] = "count"
      \/ pc[r] = "barrier3" /\ r \notin Accessor /\ pc'[r] = "barrier4"
      \/ pc[r] = "barrier4" /\ r \in Accessor /\ pc'[r] = "unlock"
      \/ pc[r] = "barrier4" /\ r \notin Accessor /\ pc'[r] = "barrier5"
      \/ pc[r] = "barrier5" /\ pc'[r] = "reduce"
      \/ pc[r] = "reduce" /\ pc'[r] = "print"
      \/ pc[r] = "barrier6" /\ pc'[r] = "finalize"
      \/ pc[r] = "finalize" /\ pc'[r] = "done"
  <2>1. CASE r \in Accessor
    BY <1>0, <2>1, Collectives DEF Program, AccessorProgram, AccessorSource
  <2>2. CASE r \notin Accessor
    BY <1>0, <2>2, Collectives DEF Program, BystanderProgram, BystanderSource
  <2> QED BY <2>1, <2>2
<1>3. pc'[r] \in Spot /\ Len(calls[r]) = Met[pc[r]] + 1 /\ Met[pc'[r]] = Met[pc[r]] + 1
  <2>1. pc'[r] \in Spot
    BY <1>2 DEF Spot
  <2>2. Met[pc'[r]] = Met[pc[r]] + 1
    BY <1>2 DEF Met
  <2> QED BY <1>0, <1>1, <2>1, <2>2 DEF Placed
<1>4. pc[r] = "reduce" /\ r = 0 => \A s \in Rank : Len(calls[s]) >= 6
  <2> SUFFICES ASSUME pc[r] = "reduce", r = 0 PROVE \A s \in Rank : Len(calls[s]) >= 6
    OBVIOUS
  <2>1. AllEntered(r)
    BY <1>0, Collectives DEF Leave
  <2>2. Len(calls[r]) = 6
    BY <1>3 DEF Met
  <2> QED BY <2>1, <2>2 DEF AllEntered
<1>5. /\ printed' \in [should : Nat \cup {NotYet}, after : Nat \cup {NotYet}]
      /\ printed'.after = printed.after
      /\ pc[r] = "reduce" /\ r = 0 => printed'.should = Issued
  <2>1. CASE pc[r] = "reduce" /\ r = 0
    <3>1. \A s \in Rank : contrib[s] = IF s \in Accessor THEN ITERATIONS ELSE 0
      <4>1. ASSUME NEW s \in Rank
            PROVE  pc[s] \in AfterReduce \/ (pc[s] = "reduce" /\ inside[s])
        BY <1>0, <1>4, <2>1, EverybodyCounted DEF IInv
      <4> QED BY <4>1 DEF IInv, Placed
    <3>2. DOMAIN contrib = Rank
      BY <1>0 DEF Typed
    <3>3. Sum(contrib) = Issued
      BY <3>1, <3>2, SumOfAll
    <3>4. Issued \in Nat
      BY AccessorsFinite, AllIssued, FS_CardinalityType
    <3>5. printed \in [should : Nat \cup {NotYet}, after : Nat \cup {NotYet}]
      BY <1>0 DEF Typed
    <3> QED BY <1>0, <2>1, <3>3, <3>4, <3>5
  <2>2. CASE ~(pc[r] = "reduce" /\ r = 0)
    BY <1>0, <2>2 DEF Typed
  <2> QED BY <2>1, <2>2
<1>6. Typed'
  <2>1. pc' \in [Rank -> Spot]
    BY <1>0, <1>3
  <2>2. printed' \in [should : Nat \cup {NotYet}, after : Nat \cup {NotYet}]
    BY <1>5
  <2> QED BY <1>0, <1>1, <2>1, <2>2 DEF Typed, PairsTypeOK
<1>7. ASSUME NEW s \in Rank PROVE Placed(s)'
  <2>1. CASE s # r
    BY <1>0, <1>1, <2>1, OthersKeep DEF IInv
  <2>2. CASE s = r
    <3>1. todo[r] = 0 /\ todo'[r] = 0
      BY <1>0, Collectives DEF Placed, Typed
    <3>2. Len(calls'[r]) = Met[pc'[r]] + (IF inside'[r] THEN 1 ELSE 0)
      BY <1>1, <1>3, <1>6, MetIsNumber DEF Typed
    <3>3. accesses'[r] = IF r \in Accessor /\ pc'[r] \in AfterCount THEN ITERATIONS ELSE 0
      BY <1>0, <1>2 DEF Placed, AfterCount
    <3>4. contrib'[r] = IF r \in Accessor /\ (pc'[r] \in AfterReduce \/ (pc'[r] = "reduce" /\ inside'[r]))
                          THEN ITERATIONS ELSE 0
      BY <1>0, <1>1, <1>2 DEF Placed, AfterReduce
    <3>5. pc'[r] \in {"lock", "issue", "flush", "count", "unlock"} => r \in Accessor
      BY <1>2
    <3>6. ~(fetched'[r] # NotYet)
      BY <1>0, <3>1 DEF Placed
    <3> QED BY <1>1, <2>2, <3>1, <3>2, <3>3, <3>4, <3>5, <3>6 DEF Placed
  <2> QED BY <2>1, <2>2
<1>8. Together'
  <2>1. \A s \in Rank : Len(calls'[s]) \in Nat /\ Len(calls'[s]) >= Len(calls[s])
    BY <1>1
  <2>2. \A s \in Rank : s # r => pc'[s] = pc[s]
    BY <1>0
  <2>3. CASE pc[r] \notin {"reduce", "finalize"}
    <3>1. \A s \in Rank : Len(calls[s]) >= Met[pc'[r]]
      BY <1>0, <1>1, <1>3, <2>3, Collectives
    <3>2. Known(r)' <= Met[pc'[r]]
      BY <1>2, <1>3, <2>3 DEF Known, Met
    <3>3. \A s \in Rank : Known(r)' <= Len(calls'[s])
      BY <1>1, <1>2, <2>3, <3>1 DEF Known, Met
    <3> QED BY <1>0, <1>3, <2>1, <2>2, <3>3, TogetherKept DEF IInv
  <2>4. CASE pc[r] = "finalize" \/ (pc[r] = "reduce" /\ r # 0)
    <3>1. Known(r)' <= Known(r)
      BY <1>2, <2>4 DEF Known, Met
    <3> QED BY <1>0, <1>3, <2>1, <2>2, <3>1, TogetherKept DEF IInv
  <2>5. CASE pc[r] = "reduce" /\ r = 0
    <3>1. \A s \in Rank : Known(r)' <= Len(calls'[s])
      BY <1>1, <1>2, <1>4, <2>5 DEF Known, Met
    <3> QED BY <1>0, <1>3, <2>1, <2>2, <3>1, TogetherKept DEF IInv
  <2> QED BY <2>3, <2>4, <2>5
<1>9. WordIsExact' /\ Silent
  <2>1. ASSUME NEW b \in Accessor PROVE Done(b)' = Done(b)
    <3>1. CASE b # r
      BY <1>0, <3>1, Bounds DEF Done
    <3>2. CASE b = r
      <4>1. pc'[r] \in BeforeIssue <=> pc[r] \in BeforeIssue
        BY <1>2, <3>2 DEF BeforeIssue
      <4> QED BY <1>0, <3>2, <4>1 DEF Done
    <3> QED BY <3>1, <3>2
  <2>2. pc'[0] = "alloc" <=> pc[0] = "alloc"
    BY <1>0, <1>2
  <2> QED BY <1>0, <2>1, <2>2, WordKept
<1>10. LineIsExact'
  <2>1. CASE pc[r] = "reduce" /\ r = 0
    <3>1. printed.after = NotYet
      BY <2>1 DEF IInv, LineIsExact, AfterReduce
    <3>2. printed'.should = Issued /\ printed'.after = NotYet
      BY <1>5, <2>1, <3>1
    <3> QED BY <3>2 DEF LineIsExact, Issued
  <2>2. CASE r # 0
    <3>1. pc'[0] = pc[0] /\ UNCHANGED <<printed, scope>>
      BY <1>0, <2>2, Bounds
    <3> QED BY <3>1, LineKept
  <2>3. CASE pc[r] # "reduce" /\ r = 0
    <3>1. UNCHANGED <<printed, scope>>
      BY <1>0, <2>3
    <3>2. /\ pc'[0] \in AfterReduce <=> pc[0] \in AfterReduce
          /\ pc[0] \in AfterReduce \ {"print"} => pc'[0] \in AfterReduce \ {"print"}
      BY <1>2, <2>3 DEF AfterReduce
    <3> QED BY <3>1, <3>2, LineKept
  <2> QED BY <2>1, <2>2, <2>3
<1> QED BY <1>6, <1>7, <1>8, <1>9, <1>10 DEF IInv

\* The steps that a rank does on its own, between two collectives.
LEMMA StepOnOwn ==
    ASSUME IInv, NEW r \in Rank,
           WorkOnPairs(r) \/ (r \in Accessor /\ (WindowCall(r) \/ Count(r)))
    PROVE  IInv' /\ Silent
<1>0. /\ Typed /\ Placed(r) /\ WorldTyped /\ pc \in [Rank -> Spot]
      /\ todo \in [Rank -> 0 .. ITERATIONS] /\ accesses \in [Rank -> {0, ITERATIONS}]
      /\ epoch \in [Rank -> BOOLEAN] /\ ITERATIONS \in Nat \ {0}
  BY Bounds DEF IInv, Typed
<1>1. UNCHANGED <<inside, calls, scope, cell, fetched, contrib, printed>>
  BY DEF WorkOnPairs, PairsStep, WindowCall, WinLock, StartBatch, WinFlush, WinUnlock, Count,
         Locally, counts
<1>2. \/ /\ pc' = pc /\ UNCHANGED <<epoch, todo, accesses>>
         /\ pc[r] \in {"pairs", "free"}
      \/ /\ pc[r] = "pairs" /\ pc' = [pc EXCEPT ![r] = Program(r)["pairs"]]
         /\ UNCHANGED <<epoch, todo, accesses>>
      \/ /\ pc[r] = "free" /\ pc' = [pc EXCEPT ![r] = Program(r)["free"]]
         /\ UNCHANGED <<epoch, todo, accesses>>
      \/ /\ pc[r] = "lock" /\ r \in Accessor /\ pc' = [pc EXCEPT ![r] = Program(r)["lock"]]
         /\ epoch' = [epoch EXCEPT ![r] = TRUE] /\ UNCHANGED <<todo, accesses>>
      \/ /\ pc[r] = "issue" /\ r \in Accessor /\ pc' = [pc EXCEPT ![r] = Program(r)["issue"]]
         /\ todo' = [todo EXCEPT ![r] = ITERATIONS] /\ UNCHANGED <<epoch, accesses>>
      \/ /\ pc[r] = "flush" /\ r \in Accessor /\ pc' = [pc EXCEPT ![r] = Program(r)["flush"]]
         /\ todo[r] = 0 /\ UNCHANGED <<epoch, todo, accesses>>
      \/ /\ pc[r] = "unlock" /\ r \in Accessor /\ pc' = [pc EXCEPT ![r] = Program(r)["unlock"]]
         /\ epoch' = [epoch EXCEPT ![r] = FALSE] /\ UNCHANGED <<todo, accesses>>
      \/ /\ pc[r] = "count" /\ r \in Accessor /\ pc' = [pc EXCEPT ![r] = Program(r)["count"]]
         /\ accesses' = [accesses EXCEPT ![r] = @ + ITERATIONS] /\ UNCHANGED <<epoch, todo>>
  <2>1. CASE WorkOnPairs(r)
    BY <2>1 DEF WorkOnPairs, PairsStep, Goto, counts
  <2>2. CASE r \in Accessor /\ WindowCall(r)
    BY <2>2 DEF WindowCall, WinLock, StartBatch, WinFlush, WinUnlock, Advance, Goto, counts
  <2>3. CASE r \in Accessor /\ Count(r)
    BY <2>3 DEF Count, Locally, AccessesCounted, Advance, Goto
  <2> QED BY <2>1, <2>2, <2>3
<1>3. /\ Program(r)["pairs"] \in {"lock", "barrier2"}
      /\ Program(r)["pairs"] = "lock" => r \in Accessor
      /\ Program(r)["free"] = "barrier6"
      /\ r \in Accessor => /\ Program(r)["lock"] = "barrier2" /\ Program(r)["issue"] = "flush"
                           /\ Program(r)["flush"] = "barrier3" /\ Program(r)["count"] = "barrier4"
                           /\ Program(r)["unlock"] = "barrier5"
  <2>1. CASE r \in Accessor
    BY <2>1 DEF Program, AccessorProgram, AccessorSource
  <2>2. CASE r \notin Accessor
    BY <2>2 DEF Program, BystanderProgram, BystanderSource
  <2> QED BY <2>1, <2>2
<1>4. \/ pc[r] \in {"pairs", "free"} /\ pc'[r] = pc[r] /\ UNCHANGED <<todo, accesses>>
      \/ pc[r] = "pairs" /\ pc'[r] = "lock" /\ r \in Accessor /\ UNCHANGED <<todo, accesses>>
      \/ pc[r] = "pairs" /\ pc'[r] = "barrier2" /\ UNCHANGED <<todo, accesses>>
      \/ pc[r] = "free" /\ pc'[r] = "barrier6" /\ UNCHANGED <<todo, accesses>>
      \/ pc[r] = "lock" /\ r \in Accessor /\ pc'[r] = "barrier2" /\ UNCHANGED <<todo, accesses>>
      \/ /\ pc[r] = "issue" /\ r \in Accessor /\ pc'[r] = "flush" /\ UNCHANGED accesses
         /\ todo' = [todo EXCEPT ![r] = ITERATIONS]
      \/ /\ pc[r] = "flush" /\ r \in Accessor /\ pc'[r] = "barrier3" /\ todo[r] = 0
         /\ UNCHANGED <<todo, accesses>>
      \/ pc[r] = "unlock" /\ r \in Accessor /\ pc'[r] = "barrier5" /\ UNCHANGED <<todo, accesses>>
      \/ /\ pc[r] = "count" /\ r \in Accessor /\ pc'[r] = "barrier4" /\ UNCHANGED todo
         /\ accesses' = [accesses EXCEPT ![r] = @ + ITERATIONS]
  BY <1>0, <1>2, <1>3
<1>5. /\ pc' \in [Rank -> Spot] /\ epoch' \in [Rank -> BOOLEAN] /\ todo' \in [Rank -> 0 .. ITERATIONS]
      /\ \A s \in Rank : s # r => pc'[s] = pc[s] /\ todo'[s] = todo[s] /\ accesses'[s] = accesses[s]
  <2>1. pc'[r] \in Spot
    BY <1>4 DEF Spot
  <2>2. /\ pc' = pc \/ \E l : pc' = [pc EXCEPT ![r] = l]
        /\ epoch' = epoch \/ \E b \in BOOLEAN : epoch' = [epoch EXCEPT ![r] = b]
    BY <1>2, Zenon
  <2>3. pc' \in [Rank -> Spot] /\ \A s \in Rank : s # r => pc'[s] = pc[s]
    BY <1>0, <2>1, <2>2
  <2>4. epoch' \in [Rank -> BOOLEAN]
    BY <1>0, <2>2
  <2>5. /\ todo' \in [Rank -> 0 .. ITERATIONS]
        /\ \A s \in Rank : s # r => todo'[s] = todo[s] /\ accesses'[s] = accesses[s]
    <3>1. /\ todo' = todo \/ todo' = [todo EXCEPT ![r] = ITERATIONS]
          /\ accesses' = accesses \/ accesses' = [accesses EXCEPT ![r] = @ + ITERATIONS]
      BY <1>4
    <3> QED BY <1>0, <3>1
  <2> QED BY <2>3, <2>4, <2>5
<1>6. ~inside[r]
  BY <1>0, <1>4, Collectives DEF Placed
<1>7. accesses' \in [Rank -> {0, ITERATIONS}]
      /\ accesses'[r] = IF r \in Accessor /\ pc'[r] \in AfterCount THEN ITERATIONS ELSE 0
  <2>1. CASE pc[r] = "count"
    <3>1. accesses[r] = 0
      BY <1>0, <2>1 DEF Placed, AfterCount
    <3>2. accesses' = [accesses EXCEPT ![r] = ITERATIONS] /\ pc'[r] = "barrier4" /\ r \in Accessor
      BY <1>0, <1>4, <2>1, <3>1
    <3> QED BY <1>0, <3>2 DEF AfterCount
  <2>2. CASE pc[r] # "count"
    <3>1. accesses' = accesses
      BY <1>4, <2>2
    <3>2. r \in Accessor => (pc'[r] \in AfterCount <=> pc[r] \in AfterCount)
      BY <1>4, <2>2 DEF AfterCount
    <3> QED BY <1>0, <3>1, <3>2 DEF Placed
  <2> QED BY <2>1, <2>2
<1>8. Typed'
  <2>1. PairsTypeOK'
    <3>1. CASE WorkOnPairs(r)
      BY <1>0, <3>1, PairsStepTyped DEF WorkOnPairs, Typed
    <3>2. CASE r \in Accessor /\ (WindowCall(r) \/ Count(r))
      BY <1>0, <3>2 DEF WindowCall, Count, Typed, PairsTypeOK
    <3> QED BY <3>1, <3>2
  <2>2. WorldTyped'
    BY <1>0, <1>1 DEF WorldTyped
  <2> QED BY <1>0, <1>1, <1>5, <1>7, <2>1, <2>2 DEF Typed
<1>9. ASSUME NEW s \in Rank PROVE Placed(s)'
  <2>1. CASE s # r
    BY <1>1, <1>5, <2>1, OthersKeep DEF IInv
  <2>2. CASE s = r
    <3>1. Met[pc'[r]] = Met[pc[r]]
      BY <1>4 DEF Met
    <3>2. Len(calls'[r]) = Met[pc'[r]] + (IF inside'[r] THEN 1 ELSE 0) /\ ~inside'[r]
      BY <1>0, <1>1, <1>6, <3>1 DEF Placed
    <3>3. contrib'[r] = IF r \in Accessor /\ (pc'[r] \in AfterReduce \/ (pc'[r] = "reduce" /\ inside'[r]))
                          THEN ITERATIONS ELSE 0
      BY <1>0, <1>1, <1>4 DEF Placed, AfterReduce
    <3>4. /\ pc'[r] \in {"lock", "issue", "flush", "count", "unlock"} => r \in Accessor
          /\ todo'[r] > 0 => pc'[r] = "flush"
          /\ fetched'[r] # NotYet => todo'[r] > 0 /\ r \in Accessor
      BY <1>0, <1>1, <1>4 DEF Placed
    <3> QED BY <1>7, <2>2, <3>2, <3>3, <3>4 DEF Placed
  <2> QED BY <2>1, <2>2
<1>10. Together'
  <2>1. Known(r)' <= Known(r)
    BY <1>4 DEF Known, Met
  <2>2. \A s \in Rank : Len(calls'[s]) \in Nat /\ Len(calls'[s]) >= Len(calls[s])
    BY <1>0, <1>1 DEF WorldTyped
  <2> QED BY <1>0, <1>5, <2>1, <2>2, TogetherKept DEF IInv
<1>11. WordIsExact' /\ Silent
  <2>1. ASSUME NEW b \in Accessor PROVE Done(b)' = Done(b)
    <3>1. CASE b # r
      BY <1>5, <3>1, Bounds DEF Done
    <3>2. CASE b = r /\ pc[r] = "issue"
      BY <1>0, <1>4, <3>2 DEF Done, BeforeIssue
    <3>3. CASE b = r /\ pc[r] # "issue"
      <4>1. todo'[r] = todo[r] /\ (pc'[r] \in BeforeIssue <=> pc[r] \in BeforeIssue)
        BY <1>4, <3>3 DEF BeforeIssue
      <4> QED BY <3>3, <4>1 DEF Done
    <3> QED BY <3>1, <3>2, <3>3
  <2>2. pc'[0] = "alloc" <=> pc[0] = "alloc"
    BY <1>4, <1>5, Bounds
  <2> QED BY <1>1, <2>1, <2>2, WordKept
<1>12. LineIsExact'
  <2>1. /\ pc'[0] \in AfterReduce <=> pc[0] \in AfterReduce
        /\ pc[0] \in AfterReduce \ {"print"} => pc'[0] \in AfterReduce \ {"print"}
    BY <1>4, <1>5, Bounds DEF AfterReduce
  <2> QED BY <1>1, <2>1, LineKept
<1> QED BY <1>8, <1>9, <1>10, <1>11, <1>12 DEF IInv

\* When rank 0 prints, all additions have been made.
LEMMA AllAddedWhenPrinting ==
    ASSUME IInv, pc[0] = "print", scope = "memory"
    PROVE  cell = Issued
<1>1. Placed(0) /\ Known(0) = 6
  BY Bounds DEF IInv, Known, Met
<1>2. ASSUME NEW a \in Accessor PROVE Done(a) = ITERATIONS
  <2>1. Len(calls[a]) >= 6 /\ a \in Rank
    BY <1>1, Bounds DEF IInv, Together, Typed, WorldTyped
  <2>2. todo[a] = 0 /\ pc[a] \notin BeforeIssue
    BY <2>1, EverybodyCounted DEF IInv
  <2> QED BY <2>2, Bounds DEF Done
<1>3. Cardinality(Added) = Issued
  BY <1>2, AddedAll
<1> QED BY <1>3 DEF IInv, WordIsExact

LEMMA StepPrint ==
    ASSUME IInv, NEW r \in Rank, PrintCounts(r)
    PROVE  IInv' /\ Silent
<1>0. /\ Typed /\ Placed(r) /\ WorldTyped /\ pc \in [Rank -> Spot] /\ pc[r] = "print"
      /\ pc' = [pc EXCEPT ![r] = "free"]
      /\ printed' = (IF r = 0 THEN [printed EXCEPT !.after = cell] ELSE printed)
      /\ UNCHANGED <<inside, calls, epoch, todo, joined, scope, cell, fetched, accesses, contrib>>
      /\ printed \in [should : Nat \cup {NotYet}, after : Nat \cup {NotYet}] /\ cell \in Nat
  BY DEF IInv, Typed, PrintCounts, Locally, Advance, Goto, Program, AccessorProgram,
         BystanderProgram, AccessorSource, BystanderSource
<1>1. /\ printed' \in [should : Nat \cup {NotYet}, after : Nat \cup {NotYet}]
      /\ printed'.should = printed.should
      /\ r = 0 => printed'.after = cell
  BY <1>0
<1>2. Typed'
  <2>1. pc' \in [Rank -> Spot] /\ printed' \in [should : Nat \cup {NotYet}, after : Nat \cup {NotYet}]
    BY <1>0, <1>1 DEF Spot
  <2> QED BY <1>0, <2>1 DEF Typed, WorldTyped, PairsTypeOK
<1>3. ASSUME NEW s \in Rank PROVE Placed(s)'
  <2>1. CASE s # r
    BY <1>0, <2>1, OthersKeep DEF IInv
  <2>2. CASE s = r
    BY <1>0, <2>2 DEF Placed, Met, CollectiveAt, AfterCount, AfterReduce
  <2> QED BY <2>1, <2>2
<1>4. Together'
  <2>1. Known(r)' <= Known(r)
    BY <1>0 DEF Known, Met
  <2>2. \A s \in Rank : Len(calls'[s]) \in Nat /\ Len(calls'[s]) >= Len(calls[s])
    BY <1>0 DEF WorldTyped
  <2>3. pc'[r] \in Spot /\ \A s \in Rank : s # r => pc'[s] = pc[s]
    BY <1>0 DEF Spot
  <2> QED BY <1>0, <2>1, <2>2, <2>3, TogetherKept DEF IInv
<1>5. WordIsExact' /\ Silent
  <2>1. \A b \in Accessor : Done(b)' = Done(b)
    BY <1>0, Bounds DEF Done, BeforeIssue
  <2>2. pc'[0] = "alloc" <=> pc[0] = "alloc"
    BY <1>0
  <2> QED BY <1>0, <2>1, <2>2, WordKept
<1>6. LineIsExact'
  <2>1. CASE r # 0
    <3>1. pc'[0] = pc[0] /\ UNCHANGED <<printed, scope>>
      BY <1>0, <2>1, Bounds
    <3> QED BY <3>1, LineKept
  <2>2. CASE r = 0
    <3>1. pc'[0] = "free" /\ printed.should = Issued /\ scope' = scope
      BY <1>0, <2>2 DEF IInv, LineIsExact, AfterReduce
    <3>2. scope = "memory" => cell = Issued
      BY <1>0, <2>2, AllAddedWhenPrinting
    <3> QED BY <1>1, <2>2, <3>1, <3>2 DEF LineIsExact, AfterReduce, Issued
  <2> QED BY <2>1, <2>2
<1> QED BY <1>2, <1>3, <1>4, <1>5, <1>6 DEF IInv

LEMMA StepFetch ==
    ASSUME IInv, NEW a \in Accessor, Fetch(a)
    PROVE  IInv' /\ Silent
<1>0. /\ Typed /\ WorldTyped /\ a \in Rank /\ todo[a] > 0 /\ MayFetch(a)
      /\ fetched' = [fetched EXCEPT ![a] = cell] /\ cell \in Nat
      /\ fetched \in [Rank -> Nat \cup {NotYet}]
      /\ UNCHANGED <<pc, inside, calls, epoch, todo, joined, scope, cell, accesses, contrib, printed>>
  BY Bounds DEF IInv, Typed, Fetch, counts
<1>1. Typed'
  BY <1>0 DEF Typed, WorldTyped, PairsTypeOK
<1>2. ASSUME NEW s \in Rank PROVE Placed(s)'
  BY <1>0 DEF IInv, Placed
<1>3. Together'
  BY <1>0 DEF IInv, Together, Known
<1>4. WordIsExact' /\ Silent
  <2>1. Added' = Added
    BY <1>0, AddedSame DEF Done
  <2>2. scope = "memory" => \A b \in Rank : fetched[b] = NotYet
    BY <1>0 DEF MayFetch, IInv, Placed
  <2>3. WordIsExact'
    BY <1>0, <2>1, <2>2 DEF IInv, WordIsExact
  <2> QED BY <1>0, <2>3 DEF Silent, Value, Done
<1>5. LineIsExact'
  BY <1>0, LineKept
<1> QED BY <1>1, <1>2, <1>3, <1>4, <1>5 DEF IInv

LEMMA StoreAdds ==
    ASSUME IInv, NEW a \in Accessor, Store(a)
    PROVE  /\ a \in Rank /\ pc[a] = "flush" /\ pc[0] # "alloc"
           /\ todo[a] \in Nat /\ todo[a] > 0 /\ todo' = [todo EXCEPT ![a] = @ - 1]
           /\ fetched[a] \in Nat /\ cell' = fetched[a] + 1
           /\ fetched' = [fetched EXCEPT ![a] = NotYet]
           /\ UNCHANGED <<pc, inside, calls, epoch, joined, scope, accesses, contrib, printed>>
           /\ Done(a)' = Done(a) + 1
           /\ \A b \in Accessor : b # a => Done(b)' = Done(b)
<1>1. /\ a \in Rank /\ fetched[a] \in Nat /\ cell' = fetched[a] + 1 /\ fetched[a] # NotYet
      /\ todo[a] \in 0 .. ITERATIONS /\ todo[a] > 0 /\ todo' = [todo EXCEPT ![a] = @ - 1]
      /\ fetched' = [fetched EXCEPT ![a] = NotYet] /\ todo \in [Rank -> 0 .. ITERATIONS]
      /\ UNCHANGED <<pc, inside, calls, epoch, joined, scope, accesses, contrib, printed>>
      /\ Placed(a) /\ ITERATIONS \in Nat
  BY Bounds DEF IInv, Typed, Store, CompleteOne, counts
<1>2. pc[a] = "flush"
  BY <1>1 DEF Placed
<1>3. pc[0] # "alloc"
  BY <1>1, <1>2, NobodyStarted
<1>4. Done(a)' = Done(a) + 1
  BY <1>1, <1>2 DEF Done, BeforeIssue
<1>5. \A b \in Accessor : b # a => Done(b)' = Done(b)
  BY <1>1, Bounds DEF Done
<1> QED BY <1>1, <1>2, <1>3, <1>4, <1>5

LEMMA StepStore ==
    ASSUME IInv, NEW a \in Accessor, Store(a)
    PROVE  IInv'
<1>0. /\ Typed /\ WorldTyped /\ todo \in [Rank -> 0 .. ITERATIONS]
      /\ fetched \in [Rank -> Nat \cup {NotYet}] /\ ITERATIONS \in Nat
      /\ \A s \in Rank : Placed(s)
  BY Bounds DEF IInv, Typed
<1>1. /\ a \in Rank /\ pc[a] = "flush" /\ pc[0] # "alloc"
      /\ todo[a] \in Nat /\ todo[a] > 0 /\ todo' = [todo EXCEPT ![a] = @ - 1]
      /\ fetched[a] \in Nat /\ cell' = fetched[a] + 1
      /\ fetched' = [fetched EXCEPT ![a] = NotYet]
      /\ UNCHANGED <<pc, inside, calls, epoch, joined, scope, accesses, contrib, printed>>
  BY StoreAdds
<1>2. Typed'
  <2>1. cell' \in Nat /\ todo' \in [Rank -> 0 .. ITERATIONS] /\ fetched' \in [Rank -> Nat \cup {NotYet}]
    BY <1>0, <1>1
  <2> QED BY <1>0, <1>1, <2>1 DEF Typed, WorldTyped, PairsTypeOK
<1>3. ASSUME NEW s \in Rank PROVE Placed(s)'
  <2>1. CASE s # a
    BY <1>0, <1>1, <2>1, OthersKeep
  <2>2. CASE s = a
    BY <1>0, <1>1, <2>2 DEF Placed
  <2> QED BY <2>1, <2>2
<1>4. Together'
  BY <1>1 DEF IInv, Together, Known
<1>5. WordIsExact'
  <2> SUFFICES ASSUME scope = "memory"
               PROVE  /\ cell' = Cardinality(Added)'
                      /\ \A b \in Rank : fetched'[b] = NotYet
    BY <1>1 DEF WordIsExact
  <2>1. cell = fetched[a] /\ \A b \in Rank : fetched[b] # NotYet => b = a
    BY <1>1, Bounds DEF IInv, WordIsExact
  <2>2. cell = Cardinality(Added)
    BY <1>1 DEF IInv, WordIsExact
  <2>3. Cardinality(Added)' = Cardinality(Added) + 1
    BY <1>0, StoreAdds, AddedOneMore
  <2> QED BY <1>0, <1>1, <2>1, <2>2, <2>3
<1>6. LineIsExact'
  BY <1>1, LineKept
<1> QED BY <1>2, <1>3, <1>4, <1>5, <1>6 DEF IInv

-----------------------------------------------------------------------------
THEOREM Invariance == Safety => []IInv
<1>1. IInv /\ [Next]_vars => IInv'
  <2> SUFFICES ASSUME IInv, [Next]_vars PROVE IInv'
    OBVIOUS
  <2>1. CASE UNCHANGED vars
    <3>1. UNCHANGED <<pc, inside, calls, epoch, todo, joined, scope, cell, fetched, accesses,
                      contrib, printed>>
      BY <2>1 DEF vars
    <3>2. Typed' /\ Together' /\ \A s \in Rank : Placed(s)'
      BY <3>1 DEF IInv, Typed, WorldTyped, PairsTypeOK, Together, Known, Placed
    <3>3. WordIsExact'
      BY <3>1, WordKept DEF Done
    <3>4. LineIsExact'
      BY <3>1, LineKept
    <3> QED BY <3>2, <3>3, <3>4 DEF IInv
  <2>2. ASSUME NEW r \in Rank, RankStep(r) PROVE IInv'
    BY <2>2, StepAlloc, StepEnter, StepLeave, StepOnOwn, StepPrint DEF RankStep
  <2>3. ASSUME NEW a \in Accessor, Memory(a) PROVE IInv'
    BY <2>3, StepFetch, StepStore DEF Memory
  <2> QED BY <2>1, <2>2, <2>3 DEF Next, Finished
<1> QED BY InitHolds, <1>1, PTL DEF Safety

\* The variables have their types; nobody calls a pair's collectives more often
\* than they exist.
THEOREM TypeCorrect == Spec => []TypeOK
<1>1. IInv => TypeOK
  <2>1. Spot = DOMAIN AccessorSource \cup {"done"}
    BY DEF Spot, AccessorSource
  <2> QED BY <2>1 DEF IInv, Typed, WorldTyped, WorldTypeOK, TypeOK
<1> QED BY <1>1, Invariance, PTL DEF Spec

\* main.c:124: with atomicity over all windows of the memory, the two printed
\* numbers are equal to the number of additions, for any number of ranks.
THEOREM LineExact == Spec => []AfterIsExact
<1>1. IInv => AfterIsExact
  BY DEF IInv, LineIsExact, AfterIsExact
<1> QED BY <1>1, Invariance, PTL DEF Spec

-----------------------------------------------------------------------------
(* The refinement. *)

LEMMA MissingIsRest ==
    ASSUME Typed, NEW a \in Accessor
    PROVE  Missing[a] \in Nat /\ Missing[a] = ITERATIONS - Done(a)
BY Bounds DEF Typed, Missing, Done

LEMMA MissingKept ==
    ASSUME Typed, Typed', \A a \in Accessor : Done(a)' = Done(a)
    PROVE  Missing' = Missing
<1>1. ASSUME NEW a \in Accessor PROVE Missing'[a] = Missing[a]
  <2>1. Missing[a] = ITERATIONS - Done(a)
    BY MissingIsRest
  <2>2. Missing'[a] = ITERATIONS - Done(a)'
    BY Bounds DEF Typed, Missing, Done
  <2> QED BY <2>1, <2>2
<1> QED BY <1>1 DEF Missing

\* An addition to the word is an addition to the counter.
LEMMA StoreSeen ==
    ASSUME IInv, NEW a \in Accessor, Store(a), scope = "memory"
    PROVE  /\ Missing[a] > 0 /\ Value' = Value + 1
           /\ Missing' = [Missing EXCEPT ![a] = @ - 1]
<1>1. /\ a \in Rank /\ pc[a] = "flush" /\ pc[0] # "alloc" /\ pc' = pc
      /\ todo[a] \in Nat /\ todo[a] > 0 /\ todo' = [todo EXCEPT ![a] = @ - 1]
      /\ fetched[a] \in Nat /\ cell' = fetched[a] + 1 /\ fetched[a] # NotYet
      /\ todo \in [Rank -> 0 .. ITERATIONS]
  BY StoreAdds, Bounds DEF IInv, Typed
<1>2. cell = fetched[a]
  BY <1>1 DEF IInv, WordIsExact
<1>3. Value' = Value + 1
  BY <1>1, <1>2 DEF Value
<1>4. Missing[a] = todo[a]
  BY <1>1 DEF Missing, BeforeIssue
<1>5. ASSUME NEW b \in Accessor
      PROVE  Missing'[b] = [Missing EXCEPT ![a] = @ - 1][b]
  BY <1>1, Bounds DEF Missing, BeforeIssue
<1>6. Missing' = [Missing EXCEPT ![a] = @ - 1]
  BY <1>5 DEF Missing
<1> QED BY <1>1, <1>3, <1>4, <1>6

\* main.c:100, 124: with atomicity over all windows every step of the program is
\* one addition, or none, in the life of an atomic counter.
THEOREM ImplementsCounterSafety == Spec => ImplementsCounter
<1>1. Init => Counter!CounterInit
  <2> SUFFICES ASSUME Init PROVE Counter!CounterInit
    OBVIOUS
  <2>1. pc = [r \in Rank |-> "alloc"]
    BY DEF Init, WorldInit
  <2> QED BY <2>1, Bounds DEF Counter!CounterInit, BeforeIssue
<1>2. IInv /\ IInv' /\ [Next]_vars
      => [scope = "memory" => Counter!CounterNext]_(Counter!counterVars)
  <2> SUFFICES ASSUME IInv, IInv', [Next]_vars,
                      scope = "memory", ~(UNCHANGED Counter!counterVars)
               PROVE  Counter!CounterNext
    OBVIOUS
  <2>1. ~Silent
    <3> SUFFICES ASSUME Silent PROVE UNCHANGED Counter!counterVars
      OBVIOUS
    <3>1. UNCHANGED <<Value, Missing>>
      BY MissingKept DEF Silent, IInv
    <3> QED BY <3>1 DEF Counter!counterVars, Value, Missing
  <2>2. ~(UNCHANGED vars)
    <3> SUFFICES ASSUME UNCHANGED vars PROVE Silent
      BY <2>1
    <3> QED BY DEF vars, Silent, Value, Done
  <2>3. PICK a \in Accessor : Store(a)
    BY <2>1, <2>2, StepAlloc, StepEnter, StepLeave, StepOnOwn, StepPrint, StepFetch
    DEF Next, RankStep, Memory, Finished
  <2>4. Missing[a] > 0 /\ Value' = Value + 1 /\ Missing' = [Missing EXCEPT ![a] = @ - 1]
    BY <2>3, StoreSeen
  <2>5. Counter!Add(a)
    BY <2>4 DEF Counter!Add, Value, Missing
  <2> QED BY <2>5 DEF Counter!CounterNext
<1> QED BY <1>1, <1>2, Invariance, PTL DEF Spec, Safety, ImplementsCounter

-----------------------------------------------------------------------------
(***************************************************************************)
(* What TLC checks of overlapping-windows-performance for a few ranks and  *)
(* one repetition, for every number of them: the two phases never overlap, *)
(* and all additions are done when the durations are reduced.              *)
(***************************************************************************)

\* The collectives of the world that a rank at a label has returned from since
\* its repetition began, the two before the first repetition included.
PMet == [barrier0 |-> 0, create |-> 1, pairs |-> 2, lock |-> 2, start |-> 2, issuePair |-> 3,
         flushPair |-> 3, barrier1 |-> 3, barrier2 |-> 4, issueMain |-> 5, flushMain |-> 5,
         barrier3 |-> 5, barrier4 |-> 6, unlock |-> 7, barrier5 |-> 7, reduce1 |-> 8,
         reduce2 |-> 9, free |-> 2, freeMain |-> 2, barrier6 |-> 3, finalize |-> 4, done |-> 5]

\* Each repetition before has made eight calls.
Before(r) == 8 * rep[r]
Progress(r) == Before(r) + PMet[pc[r]]

\* How many everybody else has entered: all but the reductions, whose results
\* only rank 0 waits for, and the return from MPI_Finalize.
PKnown(r) == IF pc[r] \in {"reduce2", "done"} THEN Progress(r) - 1
             ELSE IF pc[r] \in {"start", "free", "freeMain"} THEN Progress(r) - 2
             ELSE Progress(r)

PTogether == \A r, s \in Rank : PKnown(r) <= Len(calls[s])

LEMMA PBounds ==
    /\ Size \in Nat /\ Size >= 2 /\ NTimes \in Nat \ {0} /\ ITERATIONS \in Nat \ {0}
    /\ Accessor \subseteq Rank /\ Observer \subseteq Accessor /\ NotYet \notin Nat
    /\ "pair" \in Kind /\ "main" \in Kind /\ \A k \in Kind : k = "pair" \/ k = "main"
BY SizeAssumption, PairsExist, NTimesAssumption, IterationsAssumption
DEF Accessor, Observer, NotYet, Kind

LEMMA PMetIsNumber == \A l \in Label : PMet[l] \in 0 .. 9
BY DEF Label, PMet

LEMMA PCollectives ==
    /\ DOMAIN PCollectiveAt = {"barrier0", "create", "start", "barrier1", "barrier2", "barrier3",
                              "barrier4", "barrier5", "reduce1", "reduce2", "freeMain",
                              "barrier6", "finalize"}
    /\ \A l \in DOMAIN PCollectiveAt :
           /\ PCollectiveAt[l] \in CollectiveKind
           /\ PCollectiveAt[l] \in Synchronising <=> l \notin {"reduce1", "reduce2", "finalize"}
BY DEF PCollectiveAt, CollectiveKind, Synchronising, Rooted

LEMMA PPairsStepTyped ==
    ASSUME PairsTypeOK, NEW r \in Rank, NEW goal \in {Created, Freed}, NEW after,
           PairsStep(r, goal, after)
    PROVE  PairsTypeOK'
<1> DEFINE i == Min(Pending(r, goal))
<1>1. CASE Pending(r, goal) = {}
  BY <1>1 DEF PairsStep, PairsTypeOK
<1>2. CASE Pending(r, goal) # {}
  <2>1. i \in Pending(r, goal)
    <3>1. Pending(r, goal) \in SUBSET Nat
      BY PBounds DEF Pending, Pair
    <3> QED BY <1>2, <3>1, MinIsMember
  <2>2. joined' = [joined EXCEPT ![i][Side(r)] = @ + 1]
    BY <1>2 DEF PairsStep, CallPair, ReturnFromPair
  <2> HIDE DEF i
  <2>3. i \in Pair /\ joined[i][Side(r)] < 6 /\ Side(r) \in {"zero", "peer"}
    BY <2>1 DEF Pending, Side, Created, Freed, PairsTypeOK
  <2> QED BY <2>2, <2>3, OneMoreCall DEF PairsTypeOK, NotCreated, Freed
<1> QED BY <1>1, <1>2

-----------------------------------------------------------------------------
(* The invariant. *)

BeforeLoop == {"barrier0", "create", "pairs", "lock"}
AfterLoop == {"free", "freeMain", "barrier6", "finalize", "done"}

\* Where the phase of a memory has begun, and where its additions may be under way.
SinceIssue(k) ==
    {"barrier3", "barrier4", "unlock", "barrier5", "reduce1", "reduce2", "flushMain"}
    \cup (IF k = "pair" THEN {"flushPair", "barrier1", "barrier2", "issueMain"} ELSE {})
UnderWay(k) ==
    IF k = "pair" THEN {"flushPair"} ELSE {"flushMain", "barrier3", "barrier4", "unlock"}

\* The phases on memory k that r has begun, in all repetitions.
Begun(r, k) == rep[r] + (IF pc[r] \in SinceIssue(k) THEN 1 ELSE 0)

PTyped ==
    /\ WorldTyped
    /\ pc \in [Rank -> Label]
    /\ PairsTypeOK
    /\ epochs \in [Rank -> SUBSET Kind]
    /\ undone \in [Rank -> [Kind -> 0 .. ITERATIONS]]
    /\ words \in [Kind -> [Rank -> Nat]]
    /\ rep \in [Rank -> 0 .. NTimes]
    /\ unfinished \in [Rank -> [Kind -> {NotYet} \cup 0 .. ITERATIONS]]
    /\ aborted \in BOOLEAN

\* Of the additions begun to r's word those are still to be done that undone counts.
Counted(r) ==
    \A k \in Kind :
        /\ undone[r][k] > 0 => r \in Observer /\ pc[r] \in UnderWay(k)
        /\ words[k][r] + undone[r][k] = IF r \in Observer THEN Begun(r, k) * ITERATIONS ELSE 0

PPlaced(r) ==
    /\ Len(calls[r]) = Progress(r) + (IF inside[r] THEN 1 ELSE 0)
    /\ inside[r] => pc[r] \in DOMAIN PCollectiveAt
    /\ pc[r] \in BeforeLoop => rep[r] = 0
    /\ rep[r] < NTimes \/ pc[r] \in AfterLoop

PIInv == PTyped /\ PTogether /\ \A r \in Rank : PPlaced(r) /\ Counted(r)

-----------------------------------------------------------------------------
(* What follows from it. *)

LEMMA ProgressIsNumber ==
    ASSUME PTyped, NEW r \in Rank
    PROVE  /\ PMet[pc[r]] \in 0 .. 9 /\ rep[r] \in Nat /\ Before(r) \in Nat /\ Progress(r) \in Nat
           /\ PKnown(r) \in Int /\ Progress(r) - 2 <= PKnown(r) /\ PKnown(r) <= Progress(r)
<1>1. PMet[pc[r]] \in 0 .. 9 /\ rep[r] \in Nat
  BY PMetIsNumber, PBounds DEF PTyped
<1>2. Before(r) \in Nat
  BY <1>1 DEF Before
<1> QED BY <1>1, <1>2 DEF Progress, PKnown

LEMMA Earlier ==
    ASSUME PTyped, NEW r \in Rank, NEW s \in Rank
    PROVE  /\ rep[s] = rep[r] => Before(s) = Before(r)
           /\ rep[s] = rep[r] + 1 => Before(s) = Before(r) + 8
           /\ rep[s] < rep[r] => Before(s) + 8 <= Before(r)
           /\ rep[s] > rep[r] + 1 => Before(s) >= Before(r) + 16
<1> QED BY PBounds DEF PTyped, Before

\* A rank that has begun its second phase is after all first phases of the repetition.
LEMMA Apart == PIInv => PhasesApart
<1> SUFFICES ASSUME PIInv, NEW o \in Observer, NEW p \in Observer,
                    undone[o]["pair"] > 0, undone[p]["main"] # 0
             PROVE  FALSE
  BY DEF PhasesApart
<1>1. o \in Rank /\ p \in Rank /\ PTyped /\ PPlaced(o) /\ PPlaced(p)
  BY PBounds DEF PIInv
<1>2. pc[o] = "flushPair" /\ pc[p] \in {"flushMain", "barrier3", "barrier4", "unlock"}
  <2>1. undone[p]["main"] > 0
    BY <1>1, PBounds DEF PTyped
  <2>2. pc[o] \in UnderWay("pair") /\ pc[p] \in UnderWay("main")
    BY <1>1, <2>1, PBounds DEF PIInv, Counted
  <2> QED BY <2>2 DEF UnderWay
<1>3. PKnown(o) = Before(o) + 3 /\ Len(calls[o]) = Before(o) + 3
  BY <1>1, <1>2, PCollectives, ProgressIsNumber DEF PKnown, Progress, PPlaced, PMet
<1>4. PKnown(p) >= Before(p) + 5 /\ Len(calls[p]) <= Before(p) + 7
  <2>1. rep[p] \in Nat
    BY <1>1, ProgressIsNumber
  <2>0. Before(p) \in Nat /\ Len(calls[p]) \in Nat
    BY <1>1, ProgressIsNumber DEF PTyped, WorldTyped
  <2>2. PKnown(p) = Before(p) + PMet[pc[p]] /\ PMet[pc[p]] \in {5, 6, 7}
    BY <1>2 DEF PKnown, Progress, PMet
  <2>3. PMet[pc[p]] = 7 => ~inside[p]
    BY <1>1, <1>2, PCollectives DEF PPlaced, PMet
  <2>4. Len(calls[p]) = Before(p) + PMet[pc[p]] + (IF inside[p] THEN 1 ELSE 0)
    BY <1>1, <2>1, <2>2 DEF PPlaced, Progress
  <2>5. inside[p] => Len(calls[p]) = Before(p) + PMet[pc[p]] + 1
    BY <2>4
  <2>6. ~inside[p] => Len(calls[p]) = Before(p) + PMet[pc[p]]
    BY <2>0, <2>2, <2>4
  <2> QED BY <2>0, <2>2, <2>3, <2>5, <2>6
<1>5. PKnown(p) <= Len(calls[o]) /\ PKnown(o) <= Len(calls[p])
  BY <1>1 DEF PIInv, PTogether
<1>6. rep[o] \in Nat /\ rep[p] \in Nat /\ PKnown(p) \in Int /\ Len(calls[p]) \in Nat
  BY <1>1, ProgressIsNumber DEF PTyped, WorldTyped
<1>7. Before(o) \in Nat /\ Before(p) \in Nat /\ Len(calls[o]) \in Nat
  BY <1>1, ProgressIsNumber DEF PTyped, WorldTyped
<1>8. Before(p) + 5 <= Before(o) + 3 /\ Before(o) + 3 <= Before(p) + 7
  BY <1>3, <1>4, <1>5, <1>6, <1>7
<1>9. ~(rep[o] < rep[p])
  <2>1. rep[o] < rep[p] => Before(o) + 8 <= Before(p)
    BY <1>1, Earlier
  <2> QED BY <1>7, <1>8, <2>1
<1>10. ~(rep[p] < rep[o])
  <2>1. rep[p] < rep[o] => Before(p) + 8 <= Before(o)
    BY <1>1, Earlier
  <2> QED BY <1>7, <1>8, <2>1
<1>11. rep[o] = rep[p]
  BY <1>6, <1>9, <1>10
<1>12. Before(o) = Before(p)
  BY <1>1, <1>11, Earlier
<1> QED BY <1>7, <1>8, <1>12

\* When a rank reduces, everybody is at the end of the same repetition, or has
\* not begun a phase of the next.
LEMMA Gathered ==
    ASSUME PIInv, NEW r \in Rank, pc[r] \in {"reduce1", "reduce2"}, NEW s \in Rank
    PROVE  \/ pc[s] \in {"barrier5", "reduce1", "reduce2"} /\ rep[s] = rep[r]
           \/ pc[s] \in {"start", "free", "freeMain"} /\ rep[s] = rep[r] + 1
<1>1. PTyped /\ PPlaced(r) /\ PPlaced(s) /\ PKnown(r) <= Len(calls[s]) /\ PKnown(s) <= Len(calls[r])
  BY DEF PIInv, PTogether
<1>2. /\ rep[r] \in Nat /\ rep[s] \in Nat /\ pc[s] \in Label /\ PMet[pc[s]] \in 0 .. 9
      /\ Before(r) \in Nat /\ Before(s) \in Nat
  BY <1>1, ProgressIsNumber DEF PTyped
<1>3. PKnown(r) = Before(r) + 8 /\ Len(calls[r]) <= Before(r) + 10
  <2>1. PMet[pc[r]] \in {8, 9} /\ PKnown(r) = Before(r) + 8
    BY <1>2 DEF PKnown, Progress, PMet
  <2> QED BY <1>1, <1>2, <2>1 DEF PPlaced, Progress
<1>4. /\ Len(calls[s]) \in Int /\ Len(calls[r]) \in Int /\ PKnown(s) \in Int
      /\ Len(calls[s]) <= Before(s) + PMet[pc[s]] + 1
      /\ ~inside[s] => Len(calls[s]) = Before(s) + PMet[pc[s]]
  BY <1>1, <1>2, ProgressIsNumber DEF PPlaced, Progress, PTyped, WorldTyped
<1>5. rep[s] = rep[r] \/ rep[s] = rep[r] + 1
  <2>1. PKnown(s) >= Before(s) - 2 /\ PKnown(s) \in Int
    <3>1. Progress(s) >= Before(s) /\ Progress(s) \in Nat
      BY <1>2 DEF Progress
    <3> QED BY <1>1, <1>2, <3>1, ProgressIsNumber
  <2>2. ASSUME rep[s] < rep[r] PROVE FALSE
    <3>1. Before(s) + 8 <= Before(r)
      BY <1>1, <2>2, Earlier
    <3>2. Len(calls[s]) <= Before(s) + 10
      <4>1. Len(calls[s]) \in Int /\ Len(calls[s]) <= Before(s) + PMet[pc[s]] + 1
        BY <1>4
      <4>2. PMet[pc[s]] \in 0 .. 9 /\ Before(s) \in Nat
        BY <1>2
      <4> QED BY <4>1, <4>2
    <3>3. Before(r) + 8 <= Len(calls[s])
      BY <1>1, <1>3
    <3> QED BY <1>2, <1>4, <3>1, <3>2, <3>3
  <2>3. ~(rep[s] > rep[r] + 1)
    BY <1>1, <1>2, <1>3, <1>4, <2>1, Earlier
  <2> QED BY <1>2, <2>2, <2>3
<1>6. CASE rep[s] = rep[r]
  <2>0. Before(s) = Before(r) /\ Before(r) + 8 <= Len(calls[s])
    BY <1>1, <1>3, <1>6, Earlier
  <2>1. PMet[pc[s]] >= 7 /\ (PMet[pc[s]] = 7 => inside[s])
    <3>1. Len(calls[s]) \in Int /\ PMet[pc[s]] \in 0 .. 9 /\ Before(s) \in Nat
      BY <1>2, <1>4
    <3>2. Before(s) + 8 <= Len(calls[s]) /\ Len(calls[s]) <= Before(s) + PMet[pc[s]] + 1
      BY <1>4, <2>0
    <3>3. ~inside[s] => Len(calls[s]) = Before(s) + PMet[pc[s]]
      BY <1>4
    <3> QED BY <3>1, <3>2, <3>3
  <2>2. pc[s] \in {"unlock", "barrier5", "reduce1", "reduce2"}
    BY <1>2, <2>1 DEF Label, PMet
  <2>3. pc[s] # "unlock"
    BY <1>1, <2>1, PCollectives DEF PPlaced, PMet
  <2> QED BY <1>6, <2>2, <2>3
<1>7. CASE rep[s] = rep[r] + 1
  <2>1. PKnown(s) <= Before(s) + 2 /\ PKnown(s) \in Int
    BY <1>1, <1>2, <1>3, <1>4, <1>7, Earlier, ProgressIsNumber
  <2>2. pc[s] \notin BeforeLoop
    BY <1>1, <1>2, <1>7 DEF PPlaced
  <2>3. pc[s] \notin {"start", "free", "freeMain"} => PKnown(s) >= Before(s) + 3
    BY <1>2, <2>2 DEF PKnown, Progress, PMet, Label, BeforeLoop
  <2> QED BY <1>2, <1>7, <2>1, <2>3
<1> QED BY <1>5, <1>6, <1>7

LEMMA AllDoneWhenReducing == PIInv => EveryAccessCounted
<1> SUFFICES ASSUME PIInv, NEW r \in Rank, pc[r] \in {"reduce1", "reduce2"},
                    NEW k \in Kind, NEW s \in Rank
             PROVE  words[k][s] = IF s \in Observer THEN (rep[r] + 1) * ITERATIONS ELSE 0
  BY DEF EveryAccessCounted
<1>1. PTyped /\ Counted(s) /\ undone[s][k] \in Nat /\ words[k][s] \in Nat /\ rep[r] \in Nat
  BY PBounds DEF PIInv, PTyped
<1>2. pc[s] \in {"barrier5", "reduce1", "reduce2", "start", "free", "freeMain"}
  BY Gathered
<1>3. undone[s][k] = 0
  BY <1>1, <1>2 DEF Counted, UnderWay
<1>4. Begun(s, k) = rep[r] + 1
  <2>1. CASE pc[s] \in {"barrier5", "reduce1", "reduce2"} /\ rep[s] = rep[r]
    BY <1>1, <2>1 DEF Begun, SinceIssue
  <2>2. CASE pc[s] \in {"start", "free", "freeMain"} /\ rep[s] = rep[r] + 1
    BY <1>1, <2>2 DEF Begun, SinceIssue
  <2> QED BY <2>1, <2>2, Gathered
<1>5. words[k][s] + 0 = IF s \in Observer THEN (rep[r] + 1) * ITERATIONS ELSE 0
  BY <1>1, <1>3, <1>4 DEF Counted
<1> QED BY <1>1, <1>5

LEMMA TypesFollow == PIInv => PTypeOK
<1> SUFFICES ASSUME PIInv, NEW k \in Kind, NEW r \in Rank
             PROVE  words[k][r] \in 0 .. NTimes * ITERATIONS
  BY DEF PIInv, PTyped, WorldTyped, PTypeOK
<1>1. /\ PTyped /\ PPlaced(r) /\ Counted(r) /\ undone[r][k] \in Nat /\ words[k][r] \in Nat
      /\ rep[r] \in 0 .. NTimes /\ NTimes \in Nat /\ ITERATIONS \in Nat
  BY PBounds DEF PIInv, PTyped
<1>2. Begun(r, k) \in Nat /\ Begun(r, k) <= NTimes
  BY <1>1 DEF Begun, PPlaced, AfterLoop, SinceIssue
<1>3. Begun(r, k) * ITERATIONS <= NTimes * ITERATIONS /\ 0 <= NTimes * ITERATIONS
      /\ Begun(r, k) * ITERATIONS \in Nat /\ NTimes * ITERATIONS \in Nat
  BY <1>1, <1>2, Grows, Distributes
<1>4. words[k][r] + undone[r][k] \in {0, Begun(r, k) * ITERATIONS}
  BY <1>1 DEF Counted
<1> QED BY <1>1, <1>3, <1>4

-----------------------------------------------------------------------------
(* One lemma per action. *)

\* What a step has to do: the rank r that takes it ends up in its place, with its
\* additions counted, and learns of no call that has not been made.
LEMMA StepKeeps ==
    ASSUME PIInv, NEW r \in Rank, PTyped',
           \A s \in Rank : s # r => pc'[s] = pc[s] /\ inside'[s] = inside[s] /\ rep'[s] = rep[s],
           \A s \in Rank : s # r => calls'[s] = calls[s],
           \A s \in Rank, k \in Kind : s # r => undone'[s][k] = undone[s][k] /\ words'[k][s] = words[k][s],
           \A s \in Rank : Len(calls'[s]) >= Len(calls[s]),
           PPlaced(r)', Counted(r)',
           \/ PKnown(r)' <= PKnown(r)
           \/ \A s \in Rank : PKnown(r)' <= Len(calls'[s])
    PROVE  PIInv'
<1>1. ASSUME NEW s \in Rank PROVE PPlaced(s)' /\ Counted(s)'
  <2>1. CASE s = r
    BY <2>1
  <2>2. CASE s # r
    <3>1. PPlaced(s) /\ Counted(s)
      BY DEF PIInv
    <3>2. PPlaced(s)'
      BY <2>2, <3>1 DEF PPlaced, Progress, Before
    <3>3. Counted(s)'
      BY <2>2, <3>1 DEF Counted, Begun
    <3> QED BY <3>2, <3>3
  <2> QED BY <2>1, <2>2
<1>2. ASSUME NEW s \in Rank, NEW t \in Rank PROVE PKnown(s)' <= Len(calls'[t])
  <2>1. PKnown(s) <= Len(calls[t]) /\ Len(calls'[t]) >= Len(calls[t])
    BY DEF PIInv, PTogether
  <2>2. PKnown(s) \in Int /\ Len(calls[t]) \in Int /\ Len(calls'[t]) \in Int /\ PKnown(s)' \in Int
    <3>1. PKnown(s) \in Int
      BY ProgressIsNumber DEF PIInv
    <3>2. PKnown(s)' \in Int
      <4>1. PMet[pc'[s]] \in 0 .. 9 /\ rep'[s] \in Nat
        BY PMetIsNumber, PBounds DEF PTyped
      <4> QED BY <4>1 DEF PKnown, Progress, Before
    <3> QED BY <3>1, <3>2 DEF PIInv, PTyped, WorldTyped
  <2>3. CASE s # r
    <3>1. PKnown(s)' = PKnown(s)
      BY <2>3 DEF PKnown, Progress, Before
    <3> QED BY <2>1, <2>2, <3>1
  <2>4. CASE s = r
    BY <2>1, <2>2, <2>4
  <2> QED BY <2>3, <2>4
<1> QED BY <1>1, <1>2 DEF PIInv, PTogether

LEMMA PInitHolds == PInit => PIInv
<1> SUFFICES ASSUME PInit PROVE PIInv
  OBVIOUS
<1>1. /\ pc = [r \in Rank |-> "barrier0"] /\ inside = [r \in Rank |-> FALSE]
      /\ calls = [r \in Rank |-> <<>>] /\ undone = [r \in Rank |-> [k \in Kind |-> 0]]
      /\ epochs = [r \in Rank |-> {}] /\ words = [k \in Kind |-> [r \in Rank |-> 0]]
      /\ joined = [i \in Pair |-> [zero |-> NotCreated, peer |-> NotCreated]]
      /\ rep = [r \in Rank |-> 0] /\ aborted = FALSE
      /\ unfinished = [r \in Rank |-> [k \in Kind |-> NotYet]]
  BY DEF PInit, PairsInit
<1>2. PairsTypeOK
  BY <1>1 DEF PairsTypeOK, NotCreated, Freed
<1>3. PTyped
  <2>1. WorldTyped /\ pc \in [Rank -> Label]
    BY <1>1 DEF WorldTyped, Label
  <2>2. 0 \in 0 .. ITERATIONS /\ 0 \in 0 .. NTimes
    BY PBounds
  <2>3. undone \in [Rank -> [Kind -> 0 .. ITERATIONS]] /\ words \in [Kind -> [Rank -> Nat]]
    BY <1>1, <2>2
  <2>4. /\ epochs \in [Rank -> SUBSET Kind] /\ rep \in [Rank -> 0 .. NTimes] /\ aborted \in BOOLEAN
        /\ unfinished \in [Rank -> [Kind -> {NotYet} \cup 0 .. ITERATIONS]]
    BY <1>1, <2>2
  <2> QED BY <1>2, <2>1, <2>3, <2>4 DEF PTyped
<1>4. ASSUME NEW r \in Rank PROVE PPlaced(r) /\ Counted(r)
  <2>1. PPlaced(r)
    BY <1>1, PBounds DEF PPlaced, Progress, Before, PMet
  <2>2. ASSUME NEW k \in Kind
        PROVE  words[k][r] = 0 /\ undone[r][k] = 0 /\ Begun(r, k) * ITERATIONS = 0
    <3>1. Begun(r, k) = 0
      BY <1>1, <2>2 DEF Begun, SinceIssue
    <3> QED BY <1>1, <3>1, PBounds, Distributes
  <2> QED BY <2>1, <2>2 DEF Counted
<1>5. PTogether
  BY <1>1 DEF PTogether, PKnown, Progress, Before, PMet
<1> QED BY <1>3, <1>4, <1>5 DEF PIInv

LEMMA PStepEnter ==
    ASSUME PIInv, NEW r \in Rank, PEnterCollective(r)
    PROVE  PIInv'
<1>0. /\ PTyped /\ PPlaced(r) /\ Counted(r) /\ WorldTyped /\ pc[r] \in DOMAIN PCollectiveAt
      /\ Enter(r, PCollectiveAt[pc[r]]) /\ PCollectiveAt[pc[r]] \in CollectiveKind
      /\ UNCHANGED <<pc, joined, epochs, undone, words, rep, unfinished, aborted>>
  BY PCollectives DEF PIInv, PTyped, PEnterCollective
<1>1. /\ WorldTyped' /\ ~inside[r] /\ inside'[r]
      /\ Len(calls'[r]) = Len(calls[r]) + 1 /\ Len(calls[r]) \in Nat
      /\ \A s \in Rank : s # r => inside'[s] = inside[s] /\ calls'[s] = calls[s]
      /\ \A s \in Rank : Len(calls[s]) \in Nat /\ Len(calls'[s]) \in Nat
  BY <1>0, EnterCounts
<1>2. PTyped'
  BY <1>0, <1>1 DEF PTyped, PairsTypeOK
<1>3. PPlaced(r)'
  <2>1. Progress(r)' = Progress(r) /\ Progress(r) \in Nat
    BY <1>0, ProgressIsNumber DEF Progress, Before
  <2>2. Len(calls[r]) = Progress(r)
    BY <1>0, <1>1, <2>1 DEF PPlaced
  <2> QED BY <1>0, <1>1, <2>1, <2>2 DEF PPlaced
<1>4. Counted(r)'
  BY <1>0 DEF Counted, Begun
<1>5. PKnown(r)' <= PKnown(r)
  <2>1. PKnown(r)' = PKnown(r)
    BY <1>0 DEF PKnown, Progress, Before
  <2> QED BY <1>0, <2>1, ProgressIsNumber
<1> QED BY <1>0, <1>1, <1>2, <1>3, <1>4, <1>5, StepKeeps

LEMMA StepAbort ==
    ASSUME PIInv, Abort
    PROVE  PIInv'
<1>1. aborted' \in BOOLEAN /\ UNCHANGED <<pc, inside, calls, joined, epochs, undone, words, rep, unfinished>>
  BY DEF Abort
<1>2. PTyped'
  BY <1>1 DEF PIInv, PTyped, WorldTyped, PairsTypeOK
<1> QED BY <1>1, <1>2 DEF PIInv, PTogether, PKnown, Progress, Before, PPlaced, Counted, Begun

LEMMA StepServe ==
    ASSUME PIInv, NEW o \in Observer, NEW k \in Kind, Serve(o, k)
    PROVE  PIInv'
<1>0. /\ o \in Rank /\ PTyped /\ PPlaced(o) /\ Counted(o) /\ undone[o][k] > 0
      /\ undone' = [undone EXCEPT ![o][k] = @ - 1] /\ undone \in [Rank -> [Kind -> 0 .. ITERATIONS]]
      /\ words' = [words EXCEPT ![k][o] = @ + 1] /\ words \in [Kind -> [Rank -> Nat]]
      /\ UNCHANGED <<pc, inside, calls, joined, epochs, rep, unfinished, aborted>>
  BY PBounds DEF PIInv, PTyped, Serve, Displacement
<1>1. /\ undone'[o][k] = undone[o][k] - 1 /\ words'[k][o] = words[k][o] + 1
      /\ undone[o][k] \in Nat /\ words[k][o] \in Nat
      /\ \A l \in Kind : l # k => undone'[o][l] = undone[o][l] /\ words'[l][o] = words[l][o]
      /\ \A s \in Rank, l \in Kind : s # o => undone'[s][l] = undone[s][l] /\ words'[l][s] = words[l][s]
      /\ undone' \in [Rank -> [Kind -> 0 .. ITERATIONS]] /\ words' \in [Kind -> [Rank -> Nat]]
  BY <1>0, PBounds
<1>2. PTyped'
  BY <1>0, <1>1 DEF PTyped, WorldTyped, PairsTypeOK
<1>3. PPlaced(o)'
  BY <1>0 DEF PPlaced, Progress, Before
<1>4. Counted(o)'
  <2>1. \A l \in Kind : Begun(o, l)' = Begun(o, l)
    BY <1>0 DEF Begun
  <2>2. ASSUME NEW l \in Kind PROVE words'[l][o] + undone'[o][l] = words[l][o] + undone[o][l]
    <3>1. CASE l = k
      <4>1. words'[k][o] = words[k][o] + 1 /\ undone'[o][k] = undone[o][k] - 1
            /\ undone[o][k] \in Nat /\ words[k][o] \in Nat
        BY <1>1
      <4> QED BY <3>1, <4>1
    <3>2. CASE l # k
      BY <1>1, <3>2
    <3> QED BY <3>1, <3>2
  <2>3. ASSUME NEW l \in Kind, undone'[o][l] > 0 PROVE undone[o][l] > 0
    <3>1. CASE l = k
      BY <1>0, <3>1
    <3>2. CASE l # k
      BY <1>1, <2>3, <3>2
    <3> QED BY <3>1, <3>2
  <2> QED BY <1>0, <2>1, <2>2, <2>3 DEF Counted
<1>5. PKnown(o)' <= PKnown(o) /\ \A s \in Rank : Len(calls'[s]) >= Len(calls[s])
  <2>1. PKnown(o)' = PKnown(o)
    BY <1>0 DEF PKnown, Progress, Before
  <2> QED BY <1>0, <2>1, ProgressIsNumber DEF PTyped, WorldTyped
<1> QED BY <1>0, <1>1, <1>2, <1>3, <1>4, <1>5, StepKeeps

\* A return from a collective, to the next label or to the next repetition.
LEMMA LeaveMoves ==
    ASSUME PIInv, NEW r \in Rank, PLeaveCollective(r)
    PROVE  \/ /\ rep' = rep
              /\ \/ pc[r] = "barrier0" /\ pc'[r] = "create"
                 \/ pc[r] = "create" /\ pc'[r] = "pairs"
                 \/ pc[r] = "start" /\ pc'[r] = "issuePair" /\ r \in Observer
                 \/ pc[r] = "start" /\ pc'[r] = "barrier1" /\ r \notin Observer
                 \/ pc[r] = "barrier1" /\ pc'[r] = "barrier2"
                 \/ pc[r] = "barrier2" /\ pc'[r] = "issueMain" /\ r \in Observer
                 \/ pc[r] = "barrier2" /\ pc'[r] = "barrier3" /\ r \notin Observer
                 \/ pc[r] = "barrier3" /\ pc'[r] = "barrier4"
                 \/ pc[r] = "barrier4" /\ pc'[r] = "unlock"
                 \/ pc[r] = "barrier4" /\ pc'[r] = "barrier5" /\ r \notin Observer
                 \/ pc[r] = "barrier5" /\ pc'[r] = "reduce1"
                 \/ pc[r] = "reduce1" /\ pc'[r] = "reduce2"
                 \/ pc[r] = "freeMain" /\ pc'[r] = "barrier6"
                 \/ pc[r] = "barrier6" /\ pc'[r] = "finalize"
                 \/ pc[r] = "finalize" /\ pc'[r] = "done"
           \/ /\ rep' = [rep EXCEPT ![r] = @ + 1] /\ pc[r] = "reduce2"
              /\ \/ pc'[r] = "start" /\ rep'[r] < NTimes
                 \/ pc'[r] = "free"
<1>1. pc \in [Rank -> Label] /\ rep \in [Rank -> 0 .. NTimes] /\ pc[r] \in DOMAIN PCollectiveAt
  BY DEF PIInv, PTyped, PLeaveCollective
<1>2. CASE pc[r] = "reduce2"
  BY <1>1, <1>2 DEF PLeaveCollective, Goto
<1>3. CASE pc[r] # "reduce2"
  <2>1. rep' = rep /\ pc'[r] = Source(r)[pc[r]]
    BY <1>1, <1>3 DEF PLeaveCollective, PAdvance, Goto, PProgram
  <2>2. CASE r \in Observer
    BY <1>1, <1>3, <2>1, <2>2, PCollectives, PBounds DEF Source
  <2>3. CASE r \notin Observer
    BY <1>1, <1>3, <2>1, <2>3, PCollectives DEF Source
  <2> QED BY <2>2, <2>3
<1> QED BY <1>2, <1>3

LEMMA PStepLeave ==
    ASSUME PIInv, NEW r \in Rank, PLeaveCollective(r)
    PROVE  PIInv'
<1>0. /\ PTyped /\ PPlaced(r) /\ Counted(r) /\ WorldTyped /\ pc[r] \in DOMAIN PCollectiveAt
      /\ Leave(r, PCollectiveAt[pc[r]], 0) /\ pc \in [Rank -> Label]
      /\ UNCHANGED <<joined, epochs, undone, words, unfinished, aborted>>
      /\ \E l : pc' = [pc EXCEPT ![r] = l]
      /\ rep \in [Rank -> 0 .. NTimes] /\ NTimes \in Nat \ {0}
  BY PBounds DEF PIInv, PTyped, PLeaveCollective, PAdvance, Goto
<1>1. /\ WorldTyped' /\ inside[r] /\ ~inside'[r] /\ calls' = calls
      /\ \A s \in Rank : s # r => inside'[s] = inside[s]
      /\ \A s \in Rank : Len(calls[s]) \in Nat
      /\ PCollectiveAt[pc[r]] \in Synchronising => \A s \in Rank : Len(calls[s]) >= Len(calls[r])
  BY <1>0, LeaveCounts
<1>2. /\ pc'[r] \in Label /\ (rep' = rep \/ (rep' = [rep EXCEPT ![r] = @ + 1] /\ pc[r] = "reduce2"))
      /\ \A s \in Rank : s # r => pc'[s] = pc[s] /\ rep'[s] = rep[s]
      /\ pc' \in [Rank -> Label]
  <2>1. pc'[r] \in Label
    BY LeaveMoves DEF Label
  <2>2. rep' = rep \/ (rep' = [rep EXCEPT ![r] = @ + 1] /\ pc[r] = "reduce2")
    BY LeaveMoves
  <2>3. \A s \in Rank : s # r => pc'[s] = pc[s]
    BY <1>0
  <2>4. pc' \in [Rank -> Label]
    BY <1>0, <2>1
  <2>5. \A s \in Rank : s # r => rep'[s] = rep[s]
    BY <1>0, <2>2
  <2> QED BY <2>1, <2>2, <2>3, <2>4, <2>5
<1>3. rep[r] < NTimes \/ pc[r] \in AfterLoop
  BY <1>0 DEF PPlaced
<1>4. rep' \in [Rank -> 0 .. NTimes] /\ (rep'[r] < NTimes \/ pc'[r] \in AfterLoop)
  <2>1. CASE pc[r] = "reduce2"
    <3>1. rep[r] < NTimes
      BY <1>3, <2>1 DEF AfterLoop
    <3>2. rep' = [rep EXCEPT ![r] = @ + 1] /\ (rep'[r] < NTimes \/ pc'[r] = "free")
      BY <2>1, LeaveMoves
    <3> QED BY <1>0, <3>1, <3>2 DEF AfterLoop
  <2>2. CASE pc[r] # "reduce2"
    <3>1. rep' = rep
      BY <2>2, LeaveMoves
    <3>2. pc[r] \in AfterLoop => pc'[r] \in AfterLoop
      BY <2>2, LeaveMoves DEF AfterLoop
    <3> QED BY <1>0, <1>3, <3>1, <3>2
  <2> QED BY <2>1, <2>2
<1>5. PTyped'
  BY <1>0, <1>1, <1>2, <1>4 DEF PTyped, PairsTypeOK
<1>6. Progress(r)' = Progress(r) + 1 /\ Progress(r) \in Nat /\ Len(calls[r]) = Progress(r) + 1
  <2>1. Before(r) \in Nat /\ rep[r] \in Nat /\ Progress(r) \in Nat
    BY <1>0, ProgressIsNumber
  <2>2. CASE pc[r] = "reduce2"
    <3>1. rep'[r] = rep[r] + 1 /\ pc'[r] \in {"start", "free"}
      BY <1>0, <2>2, LeaveMoves
    <3>2. Before(r)' = Before(r) + 8
      BY <2>1, <3>1 DEF Before
    <3>3. PMet[pc'[r]] = 2 /\ PMet[pc[r]] = 9
      BY <2>2, <3>1 DEF PMet
    <3> QED BY <1>0, <1>1, <2>1, <3>2, <3>3 DEF Progress, PPlaced
  <2>3. CASE pc[r] # "reduce2"
    <3>1. Before(r)' = Before(r)
      BY <1>2, <2>3 DEF Before
    <3>2. PMet[pc'[r]] = PMet[pc[r]] + 1 /\ PMet[pc[r]] \in Nat
      BY <2>3, LeaveMoves DEF PMet
    <3> QED BY <1>0, <1>1, <2>1, <3>1, <3>2 DEF Progress, PPlaced
  <2> QED BY <2>2, <2>3
<1>7. PPlaced(r)'
  <2>1. Len(calls'[r]) = Progress(r)' + (IF inside'[r] THEN 1 ELSE 0)
    BY <1>1, <1>6
  <2>2. pc'[r] \in BeforeLoop => rep'[r] = 0
    BY <1>0, LeaveMoves DEF PPlaced, BeforeLoop
  <2> QED BY <1>1, <1>4, <2>1, <2>2 DEF PPlaced
<1>8. Counted(r)'
  <2>1. ASSUME NEW k \in Kind, r \in Observer PROVE Begun(r, k)' = Begun(r, k)
    <3>1. CASE pc[r] = "reduce2"
      <4>0. rep[r] \in Nat
        BY <1>0, ProgressIsNumber
      <4>1. rep'[r] = rep[r] + 1 /\ pc'[r] \in {"start", "free"}
        BY <1>0, <3>1, LeaveMoves
      <4>2. pc[r] \in SinceIssue(k) /\ pc'[r] \notin SinceIssue(k)
        BY <3>1, <4>1 DEF SinceIssue
      <4> QED BY <4>0, <4>1, <4>2 DEF Begun
    <3>2. CASE pc[r] # "reduce2"
      <4>1. rep'[r] = rep[r]
        BY <3>2, LeaveMoves
      <4>2. pc[r] \in SinceIssue(k) <=> pc'[r] \in SinceIssue(k)
        BY <2>1, <3>2, LeaveMoves, PBounds DEF SinceIssue
      <4> QED BY <4>1, <4>2 DEF Begun
    <3> QED BY <3>1, <3>2
  <2>2. ASSUME NEW k \in Kind, undone[r][k] > 0 PROVE r \in Observer /\ pc'[r] \in UnderWay(k)
    <3>1. r \in Observer /\ pc[r] \in UnderWay(k)
      BY <1>0, <2>2 DEF Counted
    <3>2. CASE k = "pair"
      BY <1>0, <3>1, <3>2, PCollectives DEF UnderWay
    <3>3. CASE k = "main"
      BY <3>1, <3>3, LeaveMoves DEF UnderWay
    <3> QED BY <3>1, <3>2, <3>3, PBounds
  <2> QED BY <1>0, <2>1, <2>2 DEF Counted
<1>9. \/ PKnown(r)' <= PKnown(r)
      \/ \A s \in Rank : PKnown(r)' <= Len(calls'[s])
  <2>1. CASE PCollectiveAt[pc[r]] \in Synchronising
    <3>1. \A s \in Rank : Len(calls[s]) >= Progress(r) + 1
      BY <1>1, <1>6, <2>1
    <3>2. PKnown(r)' <= Progress(r) + 1
      BY <1>6 DEF PKnown
    <3>3. PKnown(r)' \in Int
      BY <1>6 DEF PKnown
    <3> QED BY <1>1, <1>6, <3>1, <3>2, <3>3
  <2>2. CASE pc[r] \in {"reduce1", "reduce2", "finalize"}
    <3>1. \/ pc[r] = "reduce1" /\ pc'[r] = "reduce2"
          \/ pc[r] = "reduce2" /\ pc'[r] \in {"start", "free"}
          \/ pc[r] = "finalize" /\ pc'[r] = "done"
      BY <2>2, LeaveMoves
    <3> QED BY <1>6, <3>1 DEF PKnown
  <2> QED BY <1>0, <2>1, <2>2, PCollectives
<1> QED BY <1>0, <1>1, <1>2, <1>5, <1>7, <1>8, <1>9, StepKeeps

\* A step that a rank takes on its own, between two collectives, brings it to a
\* label that counts as far as the one before, and adds nothing.
LEMMA PStepOnOwn ==
    ASSUME PIInv, NEW r \in Rank, NEW l \in Label,
           PTyped', pc' = [pc EXCEPT ![r] = l], UNCHANGED <<inside, calls, words, rep>>,
           \A s \in Rank : s # r => undone'[s] = undone[s],
           ~inside[r], pc[r] \notin AfterLoop \/ l \in AfterLoop,
           l \in BeforeLoop => pc[r] \in BeforeLoop,
           PMet[l] = PMet[pc[r]], pc[r] \notin {"start", "freeMain"}, l # "reduce2",
           Counted(r)'
    PROVE  PIInv'
<1>1. PTyped /\ PPlaced(r) /\ pc \in [Rank -> Label] /\ rep[r] \in Nat
  BY ProgressIsNumber DEF PIInv, PTyped
<1>2. /\ pc'[r] = l /\ \A s \in Rank : s # r => pc'[s] = pc[s]
      /\ Progress(r)' = Progress(r)
  BY <1>1 DEF Progress, Before
<1>3. PPlaced(r)'
  BY <1>1, <1>2 DEF PPlaced
<1>4. \A s \in Rank : Len(calls'[s]) >= Len(calls[s])
  BY <1>1 DEF PTyped, WorldTyped
<1>5. PKnown(r)' <= PKnown(r)
  <2>1. Progress(r) \in Nat
    BY <1>1, ProgressIsNumber
  <2>2. pc[r] = "free" => l = "free" \/ l = "freeMain"
    BY <1>1 DEF PMet, Label, AfterLoop
  <2>3. pc[r] # "reduce2" /\ (pc[r] = "done" => l = "done")
    BY <1>1 DEF PMet, Label, AfterLoop
  <2> QED BY <1>2, <2>1, <2>2, <2>3 DEF PKnown
<1> QED BY <1>1, <1>2, <1>3, <1>4, <1>5, StepKeeps

\* The facts about r's place that every step of r starts from.
LEMMA OnOwn ==
    ASSUME PIInv, NEW r \in Rank, pc[r] \notin DOMAIN PCollectiveAt
    PROVE  ~inside[r] /\ Counted(r) /\ pc[r] \in Label /\ pc[r] \notin {"start", "freeMain"}
BY PCollectives DEF PIInv, PTyped, PPlaced

LEMMA StepOnPairs ==
    ASSUME PIInv, NEW r \in Rank, PWorkOnPairs(r)
    PROVE  PIInv'
<1>0. /\ PTyped /\ pc \in [Rank -> Label] /\ pc[r] \in {"pairs", "free"}
      /\ UNCHANGED <<inside, calls, epochs, undone, words, rep, unfinished, aborted>>
      /\ pc' = pc \/ pc' = [pc EXCEPT ![r] = PProgram(r)[pc[r]]]
  BY DEF PIInv, PTyped, PWorkOnPairs, PairsStep, Goto
<1>1. ~inside[r] /\ Counted(r)
  BY <1>0, OnOwn, PCollectives
<1>2. PairsTypeOK'
  BY <1>0, PPairsStepTyped DEF PWorkOnPairs, PTyped
<1>3. CASE pc' = pc
  <2>1. PTyped'
    BY <1>0, <1>2, <1>3 DEF PTyped, WorldTyped
  <2> QED BY <1>0, <1>3, <2>1 DEF PIInv, PTogether, PKnown, Progress, Before, PPlaced, Counted, Begun
<1>4. CASE pc' = [pc EXCEPT ![r] = PProgram(r)[pc[r]]]
  <2> DEFINE l == PProgram(r)[pc[r]]
  <2>1. \/ pc[r] = "pairs" /\ l \in {"lock", "start"}
        \/ pc[r] = "free" /\ l = "freeMain"
    BY <1>0 DEF PProgram, Source
  <2>0. pc' = [pc EXCEPT ![r] = l]
    BY <1>4
  <2> HIDE DEF l
  <2>2. l \in Label
    BY <2>1 DEF Label
  <2>3. PTyped'
    BY <1>0, <1>2, <2>0, <2>2 DEF PTyped, WorldTyped
  <2>4. Counted(r)'
    <3>1. \A k \in Kind : pc[r] \notin SinceIssue(k) /\ pc[r] \notin UnderWay(k)
      BY <1>0 DEF SinceIssue, UnderWay
    <3>2. \A k \in Kind : l \notin SinceIssue(k)
      BY <2>1 DEF SinceIssue
    <3>3. \A k \in Kind : Begun(r, k)' = Begun(r, k)
      BY <1>0, <2>0, <3>1, <3>2 DEF Begun
    <3> QED BY <1>0, <1>1, <3>1, <3>3 DEF Counted
  <2>5. PMet[l] = PMet[pc[r]] /\ (pc[r] \notin AfterLoop \/ l \in AfterLoop)
        /\ (l \in BeforeLoop => pc[r] \in BeforeLoop) /\ l # "reduce2"
    BY <2>1 DEF PMet, AfterLoop, BeforeLoop
  <2> QED BY <1>0, <1>1, <2>0, <2>2, <2>3, <2>4, <2>5, PStepOnOwn
<1> QED BY <1>0, <1>3, <1>4

LEMMA StepLock ==
    ASSUME PIInv, NEW r \in Rank, Lock(r)
    PROVE  PIInv'
<1>0. /\ PTyped /\ pc[r] = "lock" /\ pc' = [pc EXCEPT ![r] = "start"]
      /\ epochs' = [epochs EXCEPT ![r] = Kind]
      /\ UNCHANGED <<inside, calls, joined, undone, words, rep, unfinished, aborted>>
  BY DEF PIInv, Lock, PAdvance, Goto, PProgram, Source
<1>1. ~inside[r] /\ Counted(r)
  BY <1>0, OnOwn, PCollectives
<1>2. PTyped'
  <2>1. pc' \in [Rank -> Label] /\ epochs' \in [Rank -> SUBSET Kind]
    BY <1>0 DEF PTyped, Label
  <2> QED BY <1>0, <2>1 DEF PTyped, WorldTyped, PairsTypeOK
<1>3. Counted(r)'
  <2>1. ASSUME NEW k \in Kind PROVE Begun(r, k)' = Begun(r, k) /\ pc[r] \notin UnderWay(k)
    <3>1. pc'[r] = "start"
      BY <1>0 DEF PTyped
    <3> QED BY <1>0, <3>1 DEF Begun, SinceIssue, UnderWay
  <2> QED BY <1>0, <1>1, <2>1 DEF Counted
<1>4. /\ PMet["start"] = PMet["lock"] /\ "start" \in Label /\ "lock" \notin AfterLoop
      /\ "start" \notin BeforeLoop
  BY DEF PMet, Label, AfterLoop, BeforeLoop
<1> QED BY <1>0, <1>1, <1>2, <1>3, <1>4, PStepOnOwn

LEMMA StepUnlock ==
    ASSUME PIInv, NEW r \in Rank, Unlock(r)
    PROVE  PIInv'
<1>1. CASE Abort
  BY <1>1, StepAbort
<1>2. CASE ~Abort
  <2>0. /\ PTyped /\ pc[r] = "unlock" /\ pc' = [pc EXCEPT ![r] = "barrier5"]
        /\ epochs' = [epochs EXCEPT ![r] = {}] /\ \A k \in Kind : undone[r][k] = 0
        /\ UNCHANGED <<inside, calls, joined, undone, words, rep, unfinished, aborted>>
    BY <1>2 DEF PIInv, Unlock, PAdvance, Goto, PProgram, Source
  <2>1. ~inside[r] /\ Counted(r)
    BY <2>0, OnOwn, PCollectives
  <2>2. PTyped'
    <3>1. pc' \in [Rank -> Label] /\ epochs' \in [Rank -> SUBSET Kind]
      BY <2>0 DEF PTyped, Label
    <3> QED BY <2>0, <3>1 DEF PTyped, WorldTyped, PairsTypeOK
  <2>3. Counted(r)'
    <3>1. ASSUME NEW k \in Kind PROVE Begun(r, k)' = Begun(r, k)
      <4>1. pc'[r] = "barrier5"
        BY <2>0 DEF PTyped
      <4> QED BY <2>0, <4>1 DEF Begun, SinceIssue
    <3> QED BY <2>0, <2>1, <3>1 DEF Counted
  <2>4. /\ PMet["unlock"] = PMet["barrier5"] /\ "barrier5" \in Label /\ "unlock" \notin AfterLoop
        /\ "barrier5" \notin BeforeLoop
    BY DEF PMet, Label, AfterLoop, BeforeLoop
  <2> QED BY <2>0, <2>1, <2>2, <2>3, <2>4, PStepOnOwn
<1> QED BY <1>1, <1>2

LEMMA StepIssue ==
    ASSUME PIInv, NEW o \in Observer, NEW k \in Kind, Issue(o, k)
    PROVE  PIInv'
<1>1. CASE Abort
  BY <1>1, StepAbort
<1>2. CASE ~Abort
  <2> DEFINE l == IF k = "pair" THEN "flushPair" ELSE "flushMain"
  <2>0. /\ o \in Rank /\ PTyped /\ pc[o] = (IF k = "pair" THEN "issuePair" ELSE "issueMain")
        /\ undone' = [undone EXCEPT ![o][k] = ITERATIONS] /\ pc \in [Rank -> Label]
        /\ pc' = [pc EXCEPT ![o] = PProgram(o)[pc[o]]]
        /\ UNCHANGED <<inside, calls, joined, epochs, words, rep, unfinished, aborted>>
        /\ undone \in [Rank -> [Kind -> 0 .. ITERATIONS]] /\ words \in [Kind -> [Rank -> Nat]]
    BY <1>2, PBounds DEF PIInv, PTyped, Issue, PAdvance, Goto, Batch
  <2>1. pc' = [pc EXCEPT ![o] = l]
    <3>1. PProgram(o)[pc[o]] = l
      <4>1. CASE k = "pair"
        BY <2>0, <4>1 DEF PProgram, Source
      <4>2. CASE k = "main"
        BY <2>0, <4>2 DEF PProgram, Source
      <4> QED BY <4>1, <4>2, PBounds
    <3> HIDE DEF l
    <3> QED BY <2>0, <3>1
  <2>2. ~inside[o] /\ Counted(o)
    BY <2>0, OnOwn, PCollectives
  <2>3. l \in Label /\ PMet[l] = PMet[pc[o]] /\ pc[o] \notin AfterLoop /\ l \notin BeforeLoop
        /\ l # "reduce2" /\ pc[o] \notin {"start", "freeMain"}
    BY <2>0 DEF PMet, Label, AfterLoop, BeforeLoop
  <2>4. /\ \A s \in Rank : s # o => undone'[s] = undone[s]
        /\ undone'[o][k] = ITERATIONS /\ \A m \in Kind : m # k => undone'[o][m] = undone[o][m]
    BY <2>0
  <2>5. PTyped'
    <3>1. ITERATIONS \in 0 .. ITERATIONS
      BY PBounds
    <3>2. undone' \in [Rank -> [Kind -> 0 .. ITERATIONS]]
      BY <2>0, <3>1
    <3>3. pc' \in [Rank -> Label]
      BY <2>0, <2>1, <2>3
    <3> QED BY <2>0, <3>2, <3>3 DEF PTyped, WorldTyped, PairsTypeOK
  <2>6. Counted(o)'
    <3> SUFFICES ASSUME NEW m \in Kind
                 PROVE  /\ undone'[o][m] > 0 => pc'[o] \in UnderWay(m)
                        /\ words'[m][o] + undone'[o][m] = Begun(o, m)' * ITERATIONS
      BY DEF Counted
    <3>1. /\ undone[o][m] \in Nat /\ words[m][o] \in Nat /\ words'[m][o] = words[m][o]
          /\ undone[o][m] > 0 => pc[o] \in UnderWay(m)
          /\ words[m][o] + undone[o][m] = Begun(o, m) * ITERATIONS
          /\ pc'[o] = l /\ rep' = rep /\ rep[o] \in Nat
      BY <2>0, <2>1, <2>2, ProgressIsNumber, PBounds DEF Counted
    <3>2. undone[o][m] = 0
      <4>1. pc[o] \notin UnderWay(m)
        BY <2>0 DEF UnderWay
      <4> QED BY <3>1, <4>1
    <3>3. CASE m = k
      <4>1. pc'[o] \in UnderWay(m) /\ pc'[o] \in SinceIssue(m) /\ pc[o] \notin SinceIssue(m)
        BY <2>0, <3>1, <3>3, PBounds DEF UnderWay, SinceIssue
      <4>2. Begun(o, m) \in Nat /\ Begun(o, m)' = Begun(o, m) + 1
        BY <3>1, <4>1 DEF Begun
      <4>3. Begun(o, m)' * ITERATIONS = Begun(o, m) * ITERATIONS + ITERATIONS
        BY <4>2, PBounds, Distributes
      <4>4. words[m][o] = Begun(o, m) * ITERATIONS
        BY <3>1, <3>2
      <4> QED BY <2>4, <3>1, <3>3, <4>1, <4>3, <4>4
    <3>4. CASE m # k
      <4>1. pc'[o] \in SinceIssue(m) <=> pc[o] \in SinceIssue(m)
        BY <2>0, <3>1, <3>4, PBounds DEF SinceIssue
      <4>2. Begun(o, m)' = Begun(o, m)
        BY <3>1, <4>1 DEF Begun
      <4> QED BY <2>4, <3>1, <3>2, <3>4, <4>2
    <3> QED BY <3>3, <3>4
  <2> HIDE DEF l
  <2> QED BY <2>0, <2>1, <2>2, <2>3, <2>4, <2>5, <2>6, PStepOnOwn
<1> QED BY <1>1, <1>2

LEMMA StepFlush ==
    ASSUME PIInv, NEW o \in Observer, NEW k \in Kind, Flush(o, k)
    PROVE  PIInv'
<1> DEFINE l == IF k = "pair" THEN "barrier1" ELSE "barrier3"
<1>0. /\ o \in Rank /\ PTyped /\ pc[o] = (IF k = "pair" THEN "flushPair" ELSE "flushMain")
      /\ undone[o]["pair"] = 0 /\ pc \in [Rank -> Label]
      /\ unfinished' = [unfinished EXCEPT ![o][k] = undone[o][k]]
      /\ pc' = [pc EXCEPT ![o] = PProgram(o)[pc[o]]]
      /\ UNCHANGED <<inside, calls, joined, epochs, undone, words, rep, aborted>>
      /\ undone \in [Rank -> [Kind -> 0 .. ITERATIONS]]
      /\ unfinished \in [Rank -> [Kind -> {NotYet} \cup 0 .. ITERATIONS]]
  BY PBounds DEF PIInv, PTyped, Flush, Flushed, PAdvance, Goto
<1>1. pc' = [pc EXCEPT ![o] = l]
  <2>1. PProgram(o)[pc[o]] = l
    <3>1. CASE k = "pair"
      BY <1>0, <3>1 DEF PProgram, Source
    <3>2. CASE k = "main"
      BY <1>0, <3>2 DEF PProgram, Source
    <3> QED BY <3>1, <3>2, PBounds
  <2> HIDE DEF l
  <2> QED BY <1>0, <2>1
<1>2. ~inside[o] /\ Counted(o)
  BY <1>0, OnOwn, PCollectives
<1>3. l \in Label /\ PMet[l] = PMet[pc[o]] /\ pc[o] \notin AfterLoop /\ l \notin BeforeLoop
      /\ l # "reduce2" /\ pc[o] \notin {"start", "freeMain"}
  BY <1>0 DEF PMet, Label, AfterLoop, BeforeLoop
<1>4. PTyped'
  <2>1. unfinished' \in [Rank -> [Kind -> {NotYet} \cup 0 .. ITERATIONS]]
    BY <1>0
  <2>2. pc' \in [Rank -> Label]
    BY <1>0, <1>1, <1>3
  <2> QED BY <1>0, <2>1, <2>2 DEF PTyped, WorldTyped, PairsTypeOK
<1>5. Counted(o)'
  <2>0. pc'[o] = l /\ rep' = rep
    BY <1>0, <1>1
  <2>1. ASSUME NEW m \in Kind PROVE Begun(o, m)' = Begun(o, m)
    <3>1. pc'[o] \in SinceIssue(m) <=> pc[o] \in SinceIssue(m)
      BY <1>0, <2>0, PBounds DEF SinceIssue
    <3> QED BY <2>0, <3>1 DEF Begun
  <2>2. ASSUME NEW m \in Kind, undone[o][m] > 0 PROVE pc'[o] \in UnderWay(m)
    <3>1. m = "main"
      BY <1>0, <2>2, PBounds
    <3>2. pc[o] \in UnderWay("main")
      BY <1>2, <2>2, <3>1 DEF Counted
    <3> QED BY <1>0, <2>0, <3>1, <3>2 DEF UnderWay
  <2> QED BY <1>0, <1>2, <2>1, <2>2 DEF Counted
<1> HIDE DEF l
<1> QED BY <1>0, <1>1, <1>2, <1>3, <1>4, <1>5, PStepOnOwn

-----------------------------------------------------------------------------
THEOREM PInvariance == PSpec => []PIInv
<1>1. PIInv /\ [PNext]_pvars => PIInv'
  <2> SUFFICES ASSUME PIInv, [PNext]_pvars PROVE PIInv'
    OBVIOUS
  <2>1. CASE UNCHANGED pvars
    BY <2>1 DEF pvars, PIInv, PTyped, WorldTyped, PairsTypeOK, PTogether, PKnown, Progress, Before,
                PPlaced, Counted, Begun
  <2>2. ASSUME NEW r \in Rank, PRankStep(r) PROVE PIInv'
    BY <2>2, PStepEnter, PStepLeave, StepOnPairs, StepLock, StepUnlock, StepIssue, StepFlush
    DEF PRankStep, ObserverStep
  <2>3. ASSUME NEW o \in Observer, PMemory(o) PROVE PIInv'
    BY <2>3, StepServe DEF PMemory
  <2> QED BY <2>1, <2>2, <2>3 DEF PNext, PFinished
<1> QED BY PInitHolds, <1>1, PTL DEF PSpec

\* The variables have their types; no word ever exceeds the additions made to it.
THEOREM PTypeCorrect == PSpec => []PTypeOK
BY PInvariance, TypesFollow, PTL

\* main.c:145-154: while an observer is in its first phase nobody is in the
\* second, for any number of ranks, observers, additions and repetitions.
THEOREM PhasesStayApart == PSpec => []PhasesApart
BY PInvariance, Apart, PTL

\* main.c:169-177: whoever reduces the durations does so after all additions.
THEOREM AccessesAreCounted == PSpec => []EveryAccessCounted
BY PInvariance, AllDoneWhenReducing, PTL
=============================================================================
