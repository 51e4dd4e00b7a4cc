--------------------------- MODULE SectionProofs ----------------------------
(***************************************************************************)
(* What TLC checks for a few ranks of the three programs that go through a *)
(* list of measurements, for every number of ranks, repetitions and        *)
(* operations: first of Overview, then of ReplacePerformance, whose names  *)
(* begin with R, then of DeviceMem, whose names begin with D.              *)
(***************************************************************************)
EXTENDS Overview, ReplacePerformance, DeviceMem, WorldProofs, FiniteSetTheorems

(***************************************************************************)
(* Proofs about Overview, for every number of ranks, observers,            *)
(* repetitions and message sizes.                                          *)
(***************************************************************************)

Loop == {"measure", "get", "getFlush", "getBarrier", "getReport",
         "put", "putFlush", "putBarrier", "putReport", "next"}
Entry == {"alloc", "barrier", "lock"}
Exit == {"unlock", "free", "finalize", "done"}
Spot == Loop \cup Entry \cup Exit

Turn == [i : Nat, observers : Observers, size : MsgSizes]

\* What the loops are at when they end.
Last == [i |-> NTimes, observers |-> 1, size |-> MSG_STEP]

-----------------------------------------------------------------------------
(* The three loops. *)

LEMMA Bounds ==
    /\ Size \in Nat /\ Size >= 2 /\ Half \in Nat /\ Half >= 1 /\ Half <= Size
    /\ NTimes \in Nat /\ NTimes >= 1
    /\ NumObservers \in Nat /\ NumObservers >= 1 /\ NumObservers <= Size - Half
    /\ WINDOW_SIZE \in Nat /\ MSG_STEP \in Nat \ {0} /\ MSG_STEP <= WINDOW_SIZE
    /\ ITERATIONS \in Nat \ {0} /\ 0 \in Rank
BY SizeAssumption, SeveralRanks, NTimesAssumption, NumObserversAssumption,
   WindowAssumption, StepAssumption, IterationsAssumption DEF Half, Rank

LEMMA Multiples ==
    ASSUME NEW m \in MsgSizes
    PROVE  \E q \in Nat : m = q * MSG_STEP
<1>1. m \in Nat /\ m % MSG_STEP = 0 /\ MSG_STEP \in Nat \ {0}
  BY Bounds DEF MsgSizes
<1>2. m \div MSG_STEP \in Nat /\ m = MSG_STEP * (m \div MSG_STEP)
  BY <1>1
<1>3. MSG_STEP * (m \div MSG_STEP) = (m \div MSG_STEP) * MSG_STEP
  BY <1>1, <1>2, Distributes
<1> QED BY <1>2, <1>3

\* The message sizes are MSG_STEP apart and start with it.
LEMMA Sizes ==
    /\ MSG_STEP \in MsgSizes
    /\ \A m \in MsgSizes : m \in Nat /\ m >= MSG_STEP
    /\ \A m \in MsgSizes : m + MSG_STEP <= WINDOW_SIZE => m + MSG_STEP \in MsgSizes
    /\ \A m, k \in MsgSizes : k < m + MSG_STEP => k <= m
<1>1. MSG_STEP \in MsgSizes
  <2>1. MSG_STEP = 1 * MSG_STEP
    BY Bounds
  <2> QED BY <2>1, Bounds, NoRemainder DEF MsgSizes
<1>2. ASSUME NEW m \in MsgSizes PROVE m \in Nat /\ m >= MSG_STEP
  <2>1. PICK q \in Nat : m = q * MSG_STEP
    BY Multiples
  <2>2. m \in Nat /\ m >= 1
    BY Bounds DEF MsgSizes
  <2>3. q >= 1
    BY <2>1, <2>2, Bounds, Distributes
  <2>4. 1 * MSG_STEP <= q * MSG_STEP
    BY <2>3, Bounds, Grows
  <2> QED BY <2>1, <2>2, <2>4, Bounds
<1>3. ASSUME NEW m \in MsgSizes, m + MSG_STEP <= WINDOW_SIZE
      PROVE  m + MSG_STEP \in MsgSizes
  <2>1. PICK q \in Nat : m = q * MSG_STEP
    BY Multiples
  <2>2. m + MSG_STEP = (q + 1) * MSG_STEP /\ m + MSG_STEP \in Nat /\ q + 1 \in Nat
    BY <1>2, <2>1, Bounds, Distributes
  <2>3. (m + MSG_STEP) % MSG_STEP = 0
    BY <2>2, Bounds, NoRemainder
  <2> QED BY <1>2, <1>3, <2>3, Bounds DEF MsgSizes
<1>4. ASSUME NEW m \in MsgSizes, NEW k \in MsgSizes, k < m + MSG_STEP
      PROVE  k <= m
  <2>1. PICK q \in Nat : m = q * MSG_STEP
    BY Multiples
  <2>2. PICK p \in Nat : k = p * MSG_STEP
    BY Multiples
  <2>3. m + MSG_STEP = (q + 1) * MSG_STEP
    BY <2>1, Bounds, Distributes
  <2>4. CASE p <= q
    BY <2>1, <2>2, <2>4, Bounds, Grows
  <2>5. CASE q + 1 <= p
    <3>1. (q + 1) * MSG_STEP <= p * MSG_STEP
      BY <2>5, Bounds, Grows
    <3> QED BY <1>2, <1>4, <2>2, <2>3, <3>1, Bounds
  <2> QED BY <2>4, <2>5
<1> QED BY <1>1, <1>2, <1>3, <1>4

LEMMA Counts ==
    /\ 1 \in Observers
    /\ \A o \in Observers : o \in Nat /\ o >= 1 /\ o <= NumObservers
    /\ \A o \in Observers : o + 2 <= NumObservers => o + 2 \in Observers
    /\ \A o, p \in Observers : p < o + 2 => p <= o
BY Bounds DEF Observers

\* The three loops go through the turns ...
LEMMA FollowingCases ==
    ASSUME NEW c \in Turn
    PROVE  LET f == Following(c)
           IN  /\ \/ /\ c.size + MSG_STEP <= WINDOW_SIZE
                     /\ f.i = c.i /\ f.observers = c.observers /\ f.size = c.size + MSG_STEP
                  \/ /\ ~(c.size + MSG_STEP <= WINDOW_SIZE) /\ c.observers + 2 <= NumObservers
                     /\ f.i = c.i /\ f.observers = c.observers + 2 /\ f.size = MSG_STEP
                  \/ /\ ~(c.size + MSG_STEP <= WINDOW_SIZE) /\ ~(c.observers + 2 <= NumObservers)
                     /\ f.i = c.i + 1 /\ f.observers = 1 /\ f.size = MSG_STEP
               /\ f = [i |-> f.i, observers |-> f.observers, size |-> f.size]
<1>1. c = [i |-> c.i, observers |-> c.observers, size |-> c.size]
  BY DEF Turn
<1>2. CASE c.size + MSG_STEP <= WINDOW_SIZE
  <2>1. Following(c) = [i |-> c.i, observers |-> c.observers, size |-> c.size + MSG_STEP]
    BY <1>1, <1>2 DEF Following
  <2> QED BY <1>2, <2>1
<1>3. CASE ~(c.size + MSG_STEP <= WINDOW_SIZE) /\ c.observers + 2 <= NumObservers
  <2>1. Following(c) = [i |-> c.i, observers |-> c.observers + 2, size |-> MSG_STEP]
    BY <1>1, <1>3 DEF Following
  <2> QED BY <1>3, <2>1
<1>4. CASE ~(c.size + MSG_STEP <= WINDOW_SIZE) /\ ~(c.observers + 2 <= NumObservers)
  <2>1. Following(c) = [i |-> c.i + 1, observers |-> 1, size |-> MSG_STEP]
    BY <1>4 DEF Following
  <2> QED BY <1>4, <2>1
<1> QED BY <1>2, <1>3, <1>4

LEMMA FollowingIsTurn ==
    ASSUME NEW c \in Turn
    PROVE  /\ Following(c) \in Turn
           /\ \/ Following(c).i = c.i
              \/ Following(c) = [i |-> c.i + 1, observers |-> 1, size |-> MSG_STEP]
<1> DEFINE f == Following(c)
<1>1. c.i \in Nat /\ c.observers \in Observers /\ c.size \in MsgSizes
  BY DEF Turn
<1>2. f = [i |-> f.i, observers |-> f.observers, size |-> f.size]
  BY FollowingCases
<1>3. \/ f.i = c.i /\ f.observers \in Observers /\ f.size \in MsgSizes
      \/ f.i = c.i + 1 /\ f.observers = 1 /\ f.size = MSG_STEP
  BY <1>1, FollowingCases, Sizes, Counts
<1> HIDE DEF f
<1>4. f.i \in Nat /\ f.observers \in Observers /\ f.size \in MsgSizes
  BY <1>1, <1>3, Sizes, Counts
<1>5. f \in Turn /\ (f.i = c.i \/ f = [i |-> c.i + 1, observers |-> 1, size |-> MSG_STEP])
  BY <1>2, <1>3, <1>4 DEF Turn
<1> QED BY <1>5 DEF f

\* ... and come to no turn twice.
LEMMA FollowingInjective ==
    ASSUME NEW c \in Turn, NEW d \in Turn, Following(c) = Following(d)
    PROVE  c = d
<1>1. /\ c.i \in Nat /\ c.observers \in Observers /\ c.size \in MsgSizes
      /\ d.i \in Nat /\ d.observers \in Observers /\ d.size \in MsgSizes
      /\ c = [i |-> c.i, observers |-> c.observers, size |-> c.size]
      /\ d = [i |-> d.i, observers |-> d.observers, size |-> d.size]
  BY DEF Turn
<1>2. /\ c.size \in Nat /\ c.size >= MSG_STEP /\ c.size <= WINDOW_SIZE
      /\ d.size \in Nat /\ d.size >= MSG_STEP /\ d.size <= WINDOW_SIZE
      /\ c.size < d.size + MSG_STEP => c.size <= d.size
      /\ d.size < c.size + MSG_STEP => d.size <= c.size
      /\ MSG_STEP \in Nat /\ MSG_STEP >= 1 /\ WINDOW_SIZE \in Nat
  BY <1>1, Sizes, Bounds DEF MsgSizes
<1>3. /\ c.observers \in Nat /\ c.observers >= 1 /\ c.observers <= NumObservers
      /\ d.observers \in Nat /\ d.observers >= 1 /\ d.observers <= NumObservers
      /\ c.observers < d.observers + 2 => c.observers <= d.observers
      /\ d.observers < c.observers + 2 => d.observers <= c.observers
      /\ NumObservers \in Nat
  BY <1>1, Counts, Bounds
<1>4. c.i = d.i /\ c.observers = d.observers /\ c.size = d.size
  <2> DEFINE f == Following(c)
  <2>1. \/ /\ c.size + MSG_STEP <= WINDOW_SIZE
           /\ f.i = c.i /\ f.observers = c.observers /\ f.size = c.size + MSG_STEP
        \/ /\ ~(c.size + MSG_STEP <= WINDOW_SIZE) /\ c.observers + 2 <= NumObservers
           /\ f.i = c.i /\ f.observers = c.observers + 2 /\ f.size = MSG_STEP
        \/ /\ ~(c.size + MSG_STEP <= WINDOW_SIZE) /\ ~(c.observers + 2 <= NumObservers)
           /\ f.i = c.i + 1 /\ f.observers = 1 /\ f.size = MSG_STEP
    BY FollowingCases
  <2>2. \/ /\ d.size + MSG_STEP <= WINDOW_SIZE
           /\ f.i = d.i /\ f.observers = d.observers /\ f.size = d.size + MSG_STEP
        \/ /\ ~(d.size + MSG_STEP <= WINDOW_SIZE) /\ d.observers + 2 <= NumObservers
           /\ f.i = d.i /\ f.observers = d.observers + 2 /\ f.size = MSG_STEP
        \/ /\ ~(d.size + MSG_STEP <= WINDOW_SIZE) /\ ~(d.observers + 2 <= NumObservers)
           /\ f.i = d.i + 1 /\ f.observers = 1 /\ f.size = MSG_STEP
    BY FollowingCases
  <2> HIDE DEF f
  <2> QED BY <1>1, <1>2, <1>3, <2>1, <2>2
<1> QED BY <1>1, <1>4

-----------------------------------------------------------------------------
(* The order of the measurements within one repetition. *)

Precedes(m, k) ==
    \/ m[2] < k[2]
    \/ m[2] = k[2] /\ m[3] < k[3]
    \/ m[2] = k[2] /\ m[3] = k[3] /\ m[1] = "get" /\ k[1] = "put"

\* How often m has come before the measurement k of repetition i, and how often
\* when k is over.
Before(m, k, i) == IF Precedes(m, k) THEN i + 1 ELSE i
Through(m, k, i) == IF Precedes(m, k) \/ m = k THEN i + 1 ELSE i

\* From gets to puts, and from puts to the next turn, the count goes on.
LEMMA CountFromGetToPut ==
    ASSUME NEW m \in Measurement, NEW c \in Turn
    PROVE  Through(m, <<"get", c.observers, c.size>>, c.i)
         = Before(m, <<"put", c.observers, c.size>>, c.i)
<1>1. /\ m[1] \in Op /\ m[2] \in Observers /\ m[3] \in MsgSizes /\ m = <<m[1], m[2], m[3]>>
      /\ c.observers \in Observers /\ c.size \in MsgSizes
  BY DEF Measurement, Turn
<1>2. m[2] \in Nat /\ m[3] \in Nat /\ c.observers \in Nat /\ c.size \in Nat
  BY <1>1, Sizes, Counts
<1> QED BY <1>1, <1>2 DEF Before, Through, Precedes, Op

LEMMA CountFromPutToNext ==
    ASSUME NEW m \in Measurement, NEW c \in Turn
    PROVE  LET f == Following(c)
           IN  Through(m, <<"put", c.observers, c.size>>, c.i)
             = Before(m, <<"get", f.observers, f.size>>, f.i)
<1>1. /\ m[1] \in {"get", "put"} /\ m[2] \in Observers /\ m[3] \in MsgSizes
      /\ m = <<m[1], m[2], m[3]>>
      /\ c.i \in Nat /\ c.observers \in Observers /\ c.size \in MsgSizes
  BY DEF Measurement, Turn, Op
<1>2. /\ m[3] \in Nat /\ m[3] >= MSG_STEP /\ m[3] <= WINDOW_SIZE
      /\ c.size \in Nat /\ c.size >= MSG_STEP /\ c.size <= WINDOW_SIZE
      /\ m[3] < c.size + MSG_STEP => m[3] <= c.size
      /\ MSG_STEP \in Nat /\ MSG_STEP >= 1 /\ WINDOW_SIZE \in Nat
  BY <1>1, Sizes, Bounds DEF MsgSizes
<1>3. /\ m[2] \in Nat /\ m[2] >= 1 /\ m[2] <= NumObservers
      /\ c.observers \in Nat /\ c.observers >= 1 /\ c.observers <= NumObservers
      /\ m[2] < c.observers + 2 => m[2] <= c.observers
      /\ NumObservers \in Nat
  BY <1>1, Counts, Bounds
<1> DEFINE f == Following(c)
<1>4. \/ /\ c.size + MSG_STEP <= WINDOW_SIZE
         /\ f.i = c.i /\ f.observers = c.observers /\ f.size = c.size + MSG_STEP
      \/ /\ ~(c.size + MSG_STEP <= WINDOW_SIZE) /\ c.observers + 2 <= NumObservers
         /\ f.i = c.i /\ f.observers = c.observers + 2 /\ f.size = MSG_STEP
      \/ /\ ~(c.size + MSG_STEP <= WINDOW_SIZE) /\ ~(c.observers + 2 <= NumObservers)
         /\ f.i = c.i + 1 /\ f.observers = 1 /\ f.size = MSG_STEP
  BY FollowingCases
<1> HIDE DEF f
<1>5. m = <<"put", c.observers, c.size>> <=> m[1] = "put" /\ m[2] = c.observers /\ m[3] = c.size
  BY <1>1
<1> DEFINE Old == m[2] < c.observers \/ (m[2] = c.observers /\ m[3] <= c.size)
           New == m[2] < f.observers \/ (m[2] = f.observers /\ m[3] < f.size)
<1>6. Through(m, <<"put", c.observers, c.size>>, c.i) = IF Old THEN c.i + 1 ELSE c.i
  BY <1>1, <1>2, <1>3, <1>5 DEF Before, Through, Precedes
<1>7. Before(m, <<"get", f.observers, f.size>>, f.i) = IF New THEN f.i + 1 ELSE f.i
  BY <1>1, <1>2, <1>3 DEF Before, Through, Precedes
<1>8. (f.i = c.i /\ (Old <=> New)) \/ (f.i = c.i + 1 /\ Old /\ ~New)
  BY <1>1, <1>2, <1>3, <1>4
<1> HIDE DEF Old, New
<1>9. Through(m, <<"put", c.observers, c.size>>, c.i)
      = Before(m, <<"get", f.observers, f.size>>, f.i)
  BY <1>6, <1>7, <1>8
<1> QED BY <1>9 DEF f

-----------------------------------------------------------------------------
(* The invariant.  A rank's slot is the stretch between two barriers that    *)
(* it is in; the slots follow each other in one order, the same for all.     *)

Slot(r) ==
    CASE pc[r] = "alloc" -> <<"alloc", First>>
      [] pc[r] = "barrier" -> <<"barrier", First>>
      [] pc[r] \in {"lock", "measure", "get", "getFlush", "getBarrier", "unlock", "free"} ->
             <<"get", at[r]>>
      [] pc[r] \in {"getReport", "put", "putFlush", "putBarrier", "finalize", "done"} ->
             <<"put", at[r]>>
      [] OTHER -> <<"get", Following(at[r])>>

NextSlot(x) ==
    CASE x[1] = "alloc" -> <<"barrier", First>>
      [] x[1] = "barrier" -> <<"get", First>>
      [] x[1] = "get" -> <<"put", x[2]>>
      [] OTHER -> <<"get", Following(x[2])>>

Typed ==
    /\ WorldTyped
    /\ pc \in [Rank -> Spot]
    /\ at \in [Rank -> Turn]
    /\ todo \in [Rank -> Nat]
    /\ moved \in [Measurement -> [Rank -> Nat]]
    /\ lines \in [Measurement -> Nat]

\* Where r is in its program.
Located(r) ==
    /\ inside[r] => pc[r] \in DOMAIN CollectiveAt
    /\ pc[r] \in Entry => at[r] = First
    /\ pc[r] \in Loop => at[r].i < NTimes
    /\ pc[r] \in Exit => at[r] = Last
    /\ todo[r] > 0 => pc[r] \in {"getFlush", "putFlush"}
    /\ pc[r] \in {"get", "getFlush", "put", "putFlush"} => r \in Accessing(at[r].observers)
    /\ pc[r] \in {"getReport", "putReport"} => r = 0

\* The batches of measurement m that r has begun.
Begun(m, r) ==
    IF pc[r] \in {"getFlush", "getBarrier", "getReport", "putFlush", "putBarrier", "putReport", "next"}
      THEN Through(m, Label(r), at[r].i) ELSE Before(m, Label(r), at[r].i)

Open(m, r) == IF m = Label(r) THEN todo[r] ELSE 0

\* What r has moved and is about to move is what it has begun.
Moves(r) ==
    \A m \in Measurement :
        moved[m][r] + Open(m, r) = IF r \in Accessing(m[2]) THEN Begun(m, r) * ITERATIONS ELSE 0

\* What rank 0 has printed.
Printed(m) ==
    IF pc[0] = "next" THEN Through(m, Label(0), at[0].i) ELSE Before(m, Label(0), at[0].i)

Lines == \A m \in Measurement : lines[m] = Printed(m)

Own(r) == Located(r) /\ Moves(r) /\ (r = 0 => Lines)

InStep(r, s) ==
    /\ Behind(r, "done") = Behind(s, "done") => Slot(r) = Slot(s)
    /\ Behind(r, "done") = Behind(s, "done") + 1 => Slot(r) = NextSlot(Slot(s))

IInv ==
    /\ Typed
    /\ NobodyAhead("done")
    /\ \A r, s \in Rank : InStep(r, s)
    /\ \A r \in Rank : Own(r)

\* What a step of r does to r's slot.
Stays(r) == Behind(r, "done")' = Behind(r, "done") /\ Slot(r)' = Slot(r)
Moved(r) ==
    /\ Behind(r, "done") = Len(calls[r]) - 1
    /\ Behind(r, "done")' = Behind(r, "done") + 1
    /\ Slot(r)' = NextSlot(Slot(r))

-----------------------------------------------------------------------------
LEMMA LabelsAreMeasurements ==
    ASSUME Typed, NEW r \in Rank
    PROVE  /\ Label(r) \in Measurement
           /\ at[r] \in Turn /\ at[r].i \in Nat
           /\ Label(r)[1] = Current(r) /\ Label(r)[2] = at[r].observers /\ Label(r)[3] = at[r].size
<1>1. at[r] \in Turn /\ at[r].i \in Nat /\ at[r].observers \in Observers /\ at[r].size \in MsgSizes
  BY DEF Typed, Turn
<1>2. Current(r) \in Op
  BY DEF Current, Op
<1> QED BY <1>1, <1>2 DEF Label, Measurement

LEMMA CountsAreNumbers ==
    ASSUME NEW m \in Measurement, NEW k \in Measurement, NEW i \in Nat
    PROVE  /\ Before(m, k, i) \in Nat /\ Through(m, k, i) \in Nat
           /\ m # k => Before(m, k, i) = Through(m, k, i)
           /\ Before(k, k, i) = i /\ Through(k, k, i) = i + 1
<1>1. k[2] \in Nat /\ k[3] \in Nat
  BY Sizes, Counts DEF Measurement
<1> QED BY <1>1 DEF Before, Through, Precedes

LEMMA OthersKeep ==
    ASSUME IInv, NEW r \in Rank, NEW s \in Rank,
           pc'[s] = pc[s], inside'[s] = inside[s], at'[s] = at[s], todo'[s] = todo[s],
           calls'[s] = calls[s], \A m \in Measurement : moved'[m][s] = moved[m][s],
           s = 0 => lines' = lines
    PROVE  Own(s)' /\ Behind(s, "done")' = Behind(s, "done") /\ Slot(s)' = Slot(s)
<1>1. Own(s)
  BY DEF IInv
<1>2. Label(s)' = Label(s)
  BY DEF Label, Current
<1>3. Located(s)'
  BY <1>1 DEF Own, Located
<1>4. ASSUME NEW m \in Measurement PROVE Begun(m, s)' = Begun(m, s) /\ Open(m, s)' = Open(m, s)
  BY <1>2 DEF Begun, Open
<1>5. Moves(s)'
  BY <1>1, <1>4 DEF Own, Moves
<1>6. s = 0 => Lines'
  BY <1>1, <1>2 DEF Own, Lines, Printed
<1> QED BY <1>3, <1>5, <1>6 DEF Own, Behind, Slot

LEMMA Together ==
    ASSUME IInv, NEW r \in Rank, Stays(r) \/ Moved(r),
           \A s \in Rank : s # r => Behind(s, "done")' = Behind(s, "done") /\ Slot(s)' = Slot(s)
    PROVE  \A s, t \in Rank : InStep(s, t)'
<1>1. \A s \in Rank : Behind(s, "done") \in Int /\ Len(calls[s]) \in Nat
  BY DEF IInv, Typed, WorldTyped, Behind
<1>2. \A s, t \in Rank : Behind(s, "done") <= Len(calls[t])
  BY DEF IInv, NobodyAhead
<1>3. ASSUME NEW s \in Rank, NEW t \in Rank PROVE InStep(s, t)'
  <2>1. InStep(s, t) /\ InStep(t, s)
    BY DEF IInv
  <2>2. CASE Stays(r) \/ (s # r /\ t # r)
    BY <2>1, <2>2 DEF InStep, Stays
  <2>3. CASE s = r /\ t = r
    BY <1>1, <2>3 DEF InStep, Stays, Moved
  <2>4. CASE Moved(r) /\ s = r /\ t # r
    BY <1>1, <2>1, <2>4 DEF InStep, Moved
  <2>5. CASE Moved(r) /\ s # r /\ t = r
    BY <1>1, <1>2, <2>1, <2>5 DEF InStep, Moved
  <2> QED BY <2>2, <2>3, <2>4, <2>5
<1> QED BY <1>3

-----------------------------------------------------------------------------
(* One lemma per action. *)

LEMMA Collectives ==
    /\ DOMAIN CollectiveAt = {"alloc", "barrier", "getBarrier", "putBarrier", "free", "finalize"}
    /\ \A l \in DOMAIN CollectiveAt : CollectiveAt[l] \in CollectiveKind
    /\ \A l \in DOMAIN CollectiveAt : l # "finalize" => CollectiveAt[l] \in Synchronising
BY DEF CollectiveAt, CollectiveKind, Synchronising, Rooted

LEMMA InitHolds == Init => IInv
<1> SUFFICES ASSUME Init PROVE IInv
  OBVIOUS
<1>1. /\ pc = [r \in Rank |-> "alloc"] /\ inside = [r \in Rank |-> FALSE]
      /\ calls = [r \in Rank |-> <<>>] /\ todo = [r \in Rank |-> 0]
      /\ at = [r \in Rank |-> First]
      /\ moved = [m \in Measurement |-> [r \in Rank |-> 0]]
      /\ lines = [m \in Measurement |-> 0]
  BY DEF Init, WorldInit
<1>2. First \in Turn /\ First.i = 0 /\ First.observers = 1 /\ First.size = MSG_STEP
  BY Sizes, Counts DEF First, Turn
<1>3. Typed
  BY <1>1, <1>2 DEF Typed, WorldTyped, Spot, Entry
<1>4. \A r \in Rank : Behind(r, "done") = 0 /\ Slot(r) = <<"alloc", First>>
  BY <1>1 DEF Behind, Slot
<1>5. NobodyAhead("done")
  BY <1>1, <1>4 DEF NobodyAhead
<1>6. \A r, s \in Rank : InStep(r, s)
  BY <1>4 DEF InStep
<1>7. ASSUME NEW r \in Rank PROVE Own(r)
  <2>1. Located(r)
    BY <1>1 DEF Located, Entry, Loop, Exit
  <2>2. ASSUME NEW m \in Measurement PROVE Before(m, Label(r), at[r].i) = 0
    <3>1. Label(r) = <<"get", 1, MSG_STEP>> /\ at[r].i = 0
      BY <1>1, <1>2 DEF Label, Current
    <3>2. m[2] \in Nat /\ m[2] >= 1 /\ m[3] \in Nat /\ m[3] >= MSG_STEP
      BY Sizes, Counts DEF Measurement
    <3>3. ~Precedes(m, <<"get", 1, MSG_STEP>>)
      BY <3>2, Bounds DEF Precedes
    <3> QED BY <3>1, <3>3 DEF Before
  <2>3. Moves(r)
    <3> SUFFICES ASSUME NEW m \in Measurement
                 PROVE  moved[m][r] + Open(m, r)
                          = IF r \in Accessing(m[2]) THEN Begun(m, r) * ITERATIONS ELSE 0
      BY DEF Moves
    <3>1. Begun(m, r) = 0 /\ Open(m, r) = 0 /\ moved[m][r] = 0
      BY <1>1, <2>2 DEF Begun, Open
    <3> QED BY <3>1, Bounds, Distributes
  <2>4. r = 0 => Lines
    BY <1>1, <2>2 DEF Lines, Printed
  <2> QED BY <2>1, <2>3, <2>4 DEF Own
<1> QED BY <1>3, <1>5, <1>6, <1>7 DEF IInv

LEMMA StepEnter ==
    ASSUME IInv, NEW r \in Rank, EnterCollective(r)
    PROVE  Typed' /\ NobodyAhead("done")' /\ Own(r)' /\ Stays(r)
<1>0. /\ WorldTyped /\ pc[r] \in DOMAIN CollectiveAt /\ Enter(r, CollectiveAt[pc[r]])
      /\ UNCHANGED <<pc, epoch, todo, at, moved, lines>> /\ Own(r) /\ Typed
      /\ CollectiveAt[pc[r]] \in CollectiveKind /\ pc[r] # "done"
  BY Collectives DEF IInv, Typed, EnterCollective, CallCollective
<1>1. /\ WorldTyped' /\ ~inside[r] /\ inside'[r]
      /\ Len(calls'[r]) = Len(calls[r]) + 1 /\ Len(calls[r]) \in Nat
  BY <1>0, EnterCounts
<1>2. Typed'
  BY <1>0, <1>1 DEF Typed
<1>3. NobodyAhead("done")'
  BY <1>0, EnterKeepsTogether DEF IInv
<1>4. Stays(r)
  BY <1>0, <1>1 DEF Stays, Behind, Slot
<1>5. Label(r)' = Label(r)
  BY <1>0 DEF Label, Current
<1>6. Located(r)'
  BY <1>0 DEF Own, Located
<1>7. Moves(r)'
  BY <1>0, <1>5 DEF Own, Moves, Begun, Open
<1>8. r = 0 => Lines'
  BY <1>0, <1>5 DEF Own, Lines, Printed
<1> QED BY <1>2, <1>3, <1>4, <1>6, <1>7, <1>8 DEF Own

\* Steps that move nothing to another measurement: begun batches stay begun.
LEMMA MovesKept ==
    ASSUME Typed, NEW r \in Rank, Moves(r), todo'[r] = todo[r], moved' = moved,
           \/ Label(r)' = Label(r)
           \/ todo[r] = 0,
           \A m \in Measurement : r \in Accessing(m[2]) => Begun(m, r)' = Begun(m, r)
    PROVE  Moves(r)'
<1>1. ASSUME NEW m \in Measurement PROVE Open(m, r)' = Open(m, r)
  BY DEF Open
<1> QED BY <1>1 DEF Moves

LEMMA StepLeave ==
    ASSUME IInv, NEW r \in Rank, LeaveCollective(r)
    PROVE  Typed' /\ NobodyAhead("done")' /\ Own(r)' /\ (Stays(r) \/ Moved(r))
<1>0. /\ WorldTyped /\ pc[r] \in DOMAIN CollectiveAt /\ Leave(r, CollectiveAt[pc[r]], 0)
      /\ UNCHANGED <<epoch, todo, at, moved, lines>> /\ Own(r) /\ Typed
      /\ pc' = [pc EXCEPT ![r] = Program(r, at[r].observers)[pc[r]]]
      /\ pc \in [Rank -> Spot]
  BY DEF IInv, Typed, LeaveCollective, ReturnFromCollective, Advance, Goto, rma
<1>1. /\ WorldTyped' /\ inside[r] /\ ~inside'[r] /\ calls' = calls /\ Len(calls[r]) \in Nat
  BY <1>0, LeaveCounts
<1>2. \/ pc[r] = "alloc" /\ pc'[r] = "barrier"
      \/ pc[r] = "barrier" /\ pc'[r] = "lock"
      \/ /\ pc[r] = "getBarrier"
         /\ \/ r = 0 /\ pc'[r] = "getReport"
            \/ r \in Accessing(at[r].observers) /\ pc'[r] = "put"
            \/ r # 0 /\ r \notin Accessing(at[r].observers) /\ pc'[r] = "putBarrier"
      \/ /\ pc[r] = "putBarrier"
         /\ \/ r = 0 /\ pc'[r] = "putReport"
            \/ r # 0 /\ pc'[r] = "next"
      \/ pc[r] = "free" /\ pc'[r] = "finalize"
      \/ pc[r] = "finalize" /\ pc'[r] = "done"
  BY <1>0, Collectives DEF Program, Source
<1>3. todo[r] = 0 /\ todo'[r] = 0 /\ at'[r] = at[r] /\ at[r] \in Turn
  BY <1>0, <1>2 DEF Own, Located, Typed
<1>4. Typed' /\ \A s \in Rank : s # r => pc'[s] = pc[s]
  <2>1. pc' \in [Rank -> Spot]
    BY <1>0, <1>2 DEF Spot, Entry, Loop, Exit
  <2> QED BY <1>0, <1>1, <2>1 DEF Typed
<1>5. NobodyAhead("done")'
  <2>1. CollectiveAt[pc[r]] \in Synchronising \/ pc'[r] = "done"
    BY <1>0, <1>2, Collectives
  <2> QED BY <1>0, <1>4, <2>1, LeaveKeepsTogether DEF IInv
<1>6. Stays(r) \/ Moved(r)
  <2>1. Behind(r, "done") = Len(calls[r]) - 1
    BY <1>1 DEF Behind
  <2>2. CASE pc'[r] = "done"
    <3>1. Behind(r, "done")' = Behind(r, "done")
      BY <1>1, <2>1, <2>2 DEF Behind
    <3>2. Slot(r)' = Slot(r)
      BY <1>2, <1>3, <2>2 DEF Slot
    <3> QED BY <3>1, <3>2 DEF Stays
  <2>3. CASE pc'[r] # "done"
    <3>1. Behind(r, "done")' = Behind(r, "done") + 1
      BY <1>1, <2>1, <2>3 DEF Behind
    <3>2. Slot(r)' = NextSlot(Slot(r))
      <4>1. CASE pc[r] = "barrier"
        <5>1. at[r] = First
          BY <1>0, <4>1 DEF Own, Located, Entry
        <5> QED BY <1>2, <1>3, <4>1, <5>1 DEF Slot, NextSlot
      <4>2. CASE pc[r] # "barrier"
        BY <1>2, <1>3, <2>3, <4>2 DEF Slot, NextSlot
      <4> QED BY <4>1, <4>2
    <3> QED BY <2>1, <3>1, <3>2 DEF Moved
  <2> QED BY <2>2, <2>3
<1>7. Located(r)'
  BY <1>0, <1>1, <1>2, <1>3 DEF Own, Located, Entry, Loop, Exit
<1>8. Moves(r)'
  <2>1. ASSUME NEW m \in Measurement, r \in Accessing(m[2]) PROVE Begun(m, r)' = Begun(m, r)
    <3>1. CASE /\ pc[r] \notin {"getBarrier", "putBarrier"}
      BY <1>2, <1>3, <3>1 DEF Begun, Label, Current
    <3>2. CASE pc[r] = "putBarrier" \/ pc'[r] = "getReport"
      BY <1>2, <1>3, <3>2 DEF Begun, Label, Current
    <3>3. CASE pc[r] = "getBarrier" /\ pc'[r] \in {"put", "putBarrier"}
      <4> DEFINE g == <<"get", at[r].observers, at[r].size>>
                 u == <<"put", at[r].observers, at[r].size>>
      <4>1. Label(r) = g /\ Label(r)' = u
        BY <1>3, <3>3 DEF Label, Current
      <4>2. Begun(m, r) = Through(m, g, at[r].i)
        BY <3>3, <4>1 DEF Begun
      <4>3. Begun(m, r) = Before(m, u, at[r].i)
        BY <1>3, <4>2, CountFromGetToPut
      <4>4. CASE pc'[r] = "put"
        BY <1>3, <4>1, <4>3, <4>4 DEF Begun
      <4>5. CASE pc'[r] = "putBarrier"
        <5>1. r \notin Accessing(at[r].observers)
          BY <1>2, <3>3, <4>5
        <5>2. m # u
          BY <2>1, <5>1
        <5>3. Begun(m, r)' = Through(m, u, at[r].i)
          BY <1>3, <4>1, <4>5 DEF Begun
        <5>4. u \in Measurement /\ at[r].i \in Nat
          BY <1>3 DEF Turn, Measurement, Op
        <5>5. Before(m, u, at[r].i) = Through(m, u, at[r].i)
          BY <5>2, <5>4, CountsAreNumbers
        <5> QED BY <4>3, <5>3, <5>5
      <4> QED BY <3>3, <4>4, <4>5
    <3> QED BY <1>2, <3>1, <3>2, <3>3
  <2> QED BY <1>0, <1>3, <2>1, MovesKept DEF Own
<1>9. r = 0 => Lines'
  <2> SUFFICES ASSUME r = 0, NEW m \in Measurement PROVE Printed(m)' = Printed(m)
    BY <1>0 DEF Own, Lines
  <2>1. CASE pc[r] # "getBarrier"
    BY <1>2, <1>3, <2>1 DEF Printed, Label, Current
  <2>2. CASE pc[r] = "getBarrier"
    <3>1. pc'[r] = "getReport"
      BY <1>2, <2>2 DEF Accessing
    <3> QED BY <1>3, <2>2, <3>1 DEF Printed, Label, Current
  <2> QED BY <2>1, <2>2
<1> QED BY <1>4, <1>5, <1>6, <1>7, <1>8, <1>9 DEF Own

\* The steps between two collectives keep the ranks together.
LEMMA StepWithin ==
    ASSUME IInv, NEW r \in Rank, UNCHANGED <<inside, calls>>,
           pc[r] \notin DOMAIN CollectiveAt, pc[r] # "done", pc'[r] # "done",
           \E l \in Spot : pc' = [pc EXCEPT ![r] = l],
           at' \in [Rank -> Turn], todo' \in [Rank -> Nat],
           moved' \in [Measurement -> [Rank -> Nat]], lines' \in [Measurement -> Nat],
           Slot(r)' = Slot(r)
    PROVE  Typed' /\ NobodyAhead("done")' /\ Stays(r) /\ ~inside[r] /\ ~inside'[r]
<1>0. pc \in [Rank -> Spot] /\ WorldTyped /\ Own(r)
  BY DEF IInv, Typed
<1>1. Typed'
  BY <1>0 DEF Typed, WorldTyped
<1>2. NobodyAhead("done")'
  <2>1. \A s \in Rank : s # r => pc'[s] = pc[s]
    BY <1>0
  <2> QED BY <1>0, <2>1, LocalKeepsTogether DEF IInv
<1>3. ~inside[r] /\ ~inside'[r]
  BY <1>0 DEF Own, Located
<1>4. Stays(r)
  BY <1>3 DEF Stays, Behind
<1> QED BY <1>1, <1>2, <1>3, <1>4

LEMMA StepWindow ==
    ASSUME IInv, NEW r \in Rank, WindowCall(r)
    PROVE  Typed' /\ NobodyAhead("done")' /\ Own(r)' /\ Stays(r)
<1>0. /\ Typed /\ Own(r) /\ UNCHANGED <<inside, calls, at, moved, lines>>
      /\ pc \in [Rank -> Spot] /\ todo \in [Rank -> Nat] /\ at[r] \in Turn
      /\ pc' = [pc EXCEPT ![r] = Program(r, at[r].observers)[pc[r]]]
  BY DEF IInv, Typed, WindowCall, WinLock, Locally, StartBatch, WinFlush, WinUnlock, Advance, Goto
<1>1. \/ pc[r] = "lock" /\ pc'[r] = "measure" /\ todo' = todo
      \/ /\ pc[r] = "measure" /\ todo' = todo
         /\ \/ r \in Accessing(at[r].observers) /\ pc'[r] = "get"
            \/ r \notin Accessing(at[r].observers) /\ pc'[r] = "getBarrier"
      \/ pc[r] = "get" /\ pc'[r] = "getFlush" /\ todo' = [todo EXCEPT ![r] = ITERATIONS]
      \/ pc[r] = "put" /\ pc'[r] = "putFlush" /\ todo' = [todo EXCEPT ![r] = ITERATIONS]
      \/ pc[r] = "getFlush" /\ pc'[r] = "getBarrier" /\ todo' = todo /\ todo[r] = 0
      \/ pc[r] = "putFlush" /\ pc'[r] = "putBarrier" /\ todo' = todo /\ todo[r] = 0
      \/ pc[r] = "unlock" /\ pc'[r] = "free" /\ todo' = todo
  BY <1>0 DEF WindowCall, WinLock, Locally, StartBatch, WinFlush, WinUnlock, Batch, Program, Source
<1>2. todo' \in [Rank -> Nat] /\ pc'[r] \in Spot
  BY <1>0, <1>1, Bounds DEF Spot, Loop, Exit
<1>3. /\ Typed' /\ NobodyAhead("done")' /\ Stays(r) /\ ~inside[r] /\ ~inside'[r]
  <2>1. Slot(r)' = Slot(r)
    BY <1>0, <1>1 DEF Slot
  <2>2. pc[r] \notin DOMAIN CollectiveAt /\ pc[r] # "done" /\ pc'[r] # "done"
    BY <1>1, Collectives
  <2>3. /\ \E l \in Spot : pc' = [pc EXCEPT ![r] = l]
        /\ at' \in [Rank -> Turn] /\ moved' \in [Measurement -> [Rank -> Nat]]
        /\ lines' \in [Measurement -> Nat]
    BY <1>0, <1>2 DEF Typed
  <2> QED BY <1>0, <1>2, <2>1, <2>2, <2>3, StepWithin
<1>4. Label(r)' = Label(r) /\ Label(r) \in Measurement /\ at[r].i \in Nat
      /\ Label(r)[2] = at[r].observers
  BY <1>0, <1>1, LabelsAreMeasurements DEF Label, Current
<1>5. Located(r)'
  <2>1. pc[r] \in Entry => at[r].i < NTimes
    BY <1>0, Bounds DEF Own, Located, First
  <2> QED BY <1>0, <1>1, <1>3, <2>1 DEF Own, Located, Entry, Loop, Exit
<1>6. Moves(r)'
  <2>1. CASE pc[r] \notin {"get", "put"}
    <3>1. ASSUME NEW m \in Measurement, r \in Accessing(m[2]) PROVE Begun(m, r)' = Begun(m, r)
      <4>1. CASE pc'[r] # "getBarrier" \/ pc[r] # "measure"
        BY <1>0, <1>1, <1>4, <2>1, <4>1 DEF Begun
      <4>2. CASE pc[r] = "measure" /\ pc'[r] = "getBarrier"
        <5>1. m # Label(r)
          BY <1>1, <1>4, <3>1, <4>2
        <5>2. Before(m, Label(r), at[r].i) = Through(m, Label(r), at[r].i)
          BY <1>4, <5>1, CountsAreNumbers
        <5> QED BY <1>0, <1>4, <4>2, <5>2 DEF Begun
      <4> QED BY <4>1, <4>2
    <3>2. todo'[r] = todo[r]
      BY <1>1, <2>1
    <3> QED BY <1>0, <1>4, <3>1, <3>2, MovesKept DEF Own
  <2>2. CASE pc[r] \in {"get", "put"}
    <3> SUFFICES ASSUME NEW m \in Measurement
                 PROVE  moved[m][r] + Open(m, r)'
                          = IF r \in Accessing(m[2]) THEN Begun(m, r)' * ITERATIONS ELSE 0
      BY <1>0 DEF Moves
    <3>0. todo[r] = 0 /\ todo'[r] = ITERATIONS /\ r \in Accessing(at[r].observers)
      BY <1>0, <1>1, <2>2 DEF Own, Located
    <3>1. /\ moved[m][r] \in Nat
          /\ moved[m][r] + Open(m, r) = IF r \in Accessing(m[2]) THEN Begun(m, r) * ITERATIONS ELSE 0
      BY <1>0 DEF Own, Moves, Typed
    <3>2. /\ Begun(m, r) = Before(m, Label(r), at[r].i)
          /\ Begun(m, r)' = Through(m, Label(r), at[r].i)
      BY <1>0, <1>1, <1>4, <2>2 DEF Begun
    <3>3. CASE m # Label(r)
      <4>1. Begun(m, r)' = Begun(m, r)
        BY <1>4, <3>2, <3>3, CountsAreNumbers
      <4>2. Open(m, r)' = Open(m, r)
        BY <1>4, <3>3 DEF Open
      <4> QED BY <3>1, <4>1, <4>2
    <3>4. CASE m = Label(r)
      <4>1. Begun(m, r)' = Begun(m, r) + 1 /\ Begun(m, r) \in Nat
        BY <1>4, <3>2, <3>4, CountsAreNumbers
      <4>2. Open(m, r) = 0 /\ Open(m, r)' = ITERATIONS
        BY <1>4, <3>0, <3>4 DEF Open
      <4>3. r \in Accessing(m[2])
        BY <1>4, <3>0, <3>4
      <4>4. (Begun(m, r) + 1) * ITERATIONS = Begun(m, r) * ITERATIONS + ITERATIONS
        BY <4>1, Bounds, Distributes
      <4>5. moved[m][r] = Begun(m, r) * ITERATIONS
        BY <3>1, <4>2, <4>3
      <4> QED BY <4>1, <4>2, <4>3, <4>4, <4>5
    <3> QED BY <3>3, <3>4
  <2> QED BY <2>1, <2>2
<1>7. r = 0 => Lines'
  BY <1>0, <1>1, <1>4 DEF Own, Lines, Printed
<1> QED BY <1>3, <1>5, <1>6, <1>7 DEF Own

LEMMA StepReport ==
    ASSUME IInv, NEW r \in Rank, Report(r)
    PROVE  Typed' /\ NobodyAhead("done")' /\ Own(r)' /\ Stays(r) /\ r = 0
<1>0. /\ Typed /\ Own(r) /\ UNCHANGED <<inside, calls, epoch, todo, at, moved>>
      /\ pc \in [Rank -> Spot] /\ at[r] \in Turn /\ at[r].i \in Nat /\ r = 0
      /\ pc' = [pc EXCEPT ![r] = Program(r, at[r].observers)[pc[r]]]
      /\ lines' = [lines EXCEPT ![Label(r)] = @ + 1]
      /\ Label(r) \in Measurement
  BY LabelsAreMeasurements DEF IInv, Typed, Report, Locally, Advance, Goto, Own, Located
<1>1. \/ pc[r] = "getReport" /\ pc'[r] = "putBarrier"
      \/ pc[r] = "putReport" /\ pc'[r] = "next"
  BY <1>0 DEF Report, Program, Source
<1>2. lines' \in [Measurement -> Nat] /\ pc'[r] \in Spot
  BY <1>0, <1>1 DEF Typed, Spot, Loop
<1>3. Typed' /\ NobodyAhead("done")' /\ Stays(r) /\ ~inside[r] /\ ~inside'[r]
  <2>1. Slot(r)' = Slot(r)
    BY <1>0, <1>1 DEF Slot
  <2>2. pc[r] \notin DOMAIN CollectiveAt /\ pc[r] # "done" /\ pc'[r] # "done"
    BY <1>1, Collectives
  <2>3. /\ \E l \in Spot : pc' = [pc EXCEPT ![r] = l]
        /\ at' \in [Rank -> Turn] /\ moved' \in [Measurement -> [Rank -> Nat]]
        /\ todo' \in [Rank -> Nat]
    BY <1>0, <1>2 DEF Typed
  <2> QED BY <1>0, <1>2, <2>1, <2>2, <2>3, StepWithin
<1>4. Located(r)'
  BY <1>0, <1>1, <1>3 DEF Own, Located, Entry, Loop, Exit
<1>5. Moves(r)'
  <2>1. \A m \in Measurement : r \notin Accessing(m[2])
    BY <1>0 DEF Accessing
  <2>2. todo[r] = 0 /\ todo'[r] = todo[r]
    BY <1>0, <1>1 DEF Own, Located, Typed
  <2> QED BY <1>0, <2>1, <2>2, MovesKept DEF Own
<1>6. Lines'
  <2> SUFFICES ASSUME NEW m \in Measurement PROVE lines'[m] = Printed(m)'
    BY DEF Lines
  <2>0. lines[m] = Printed(m) /\ Printed(m) = Before(m, Label(0), at[0].i) /\ lines[m] \in Nat
    BY <1>0, <1>1 DEF Own, Lines, Printed, Typed
  <2>1. Printed(m)' = Through(m, Label(0), at[0].i)
    <3>1. CASE pc[r] = "putReport"
      BY <1>0, <1>1, <3>1 DEF Printed, Label, Current
    <3>2. CASE pc[r] = "getReport"
      <4>1. Label(0) = <<"get", at[0].observers, at[0].size>>
        BY <1>0, <3>2 DEF Label, Current
      <4>2. Printed(m)' = Before(m, <<"put", at[0].observers, at[0].size>>, at[0].i)
        BY <1>0, <1>1, <3>2 DEF Printed, Label, Current
      <4> QED BY <1>0, <4>1, <4>2, CountFromGetToPut
    <3> QED BY <1>1, <3>1, <3>2
  <2>2. CASE m = Label(0)
    <3>1. lines'[m] = lines[m] + 1
      BY <1>0, <2>2 DEF Typed
    <3> QED BY <1>0, <2>0, <2>1, <2>2, <3>1, CountsAreNumbers
  <2>3. CASE m # Label(0)
    <3>1. lines'[m] = lines[m]
      BY <1>0, <2>3 DEF Typed
    <3> QED BY <1>0, <2>0, <2>1, <2>3, <3>1, CountsAreNumbers
  <2> QED BY <2>2, <2>3
<1> QED BY <1>0, <1>3, <1>4, <1>5, <1>6 DEF Own

LEMMA StepNext ==
    ASSUME IInv, NEW r \in Rank, NextMeasurement(r)
    PROVE  Typed' /\ NobodyAhead("done")' /\ Own(r)' /\ Stays(r)
<1> DEFINE f == Following(at[r])
<1>0. /\ Typed /\ Own(r) /\ UNCHANGED <<inside, calls, epoch, todo, moved, lines>>
      /\ pc \in [Rank -> Spot] /\ at \in [Rank -> Turn] /\ at[r] \in Turn /\ at[r].i \in Nat
      /\ pc' = [pc EXCEPT ![r] = IF f.i < NTimes THEN "measure" ELSE "unlock"]
      /\ at' = [at EXCEPT ![r] = f] /\ pc[r] = "next"
  BY LabelsAreMeasurements DEF IInv, Typed, NextMeasurement, Locally, Goto
<1>1. /\ f \in Turn /\ f.i \in Nat
      /\ f.i = at[r].i \/ f = [i |-> at[r].i + 1, observers |-> 1, size |-> MSG_STEP]
  BY <1>0, FollowingIsTurn DEF Turn
<1> HIDE DEF f
<1>2. /\ \/ f.i < NTimes /\ pc'[r] = "measure"
         \/ f = Last /\ pc'[r] = "unlock"
      /\ at'[r] = f
  <2>1. at[r].i < NTimes
    BY <1>0 DEF Own, Located, Loop
  <2>2. CASE f.i < NTimes
    BY <1>0, <2>2
  <2>3. CASE ~(f.i < NTimes)
    <3>1. f = [i |-> at[r].i + 1, observers |-> 1, size |-> MSG_STEP] /\ at[r].i + 1 = NTimes
      BY <1>0, <1>1, <2>1, <2>3, Bounds
    <3> QED BY <1>0, <2>3, <3>1 DEF Last
  <2> QED BY <2>2, <2>3
<1>3. pc'[r] \in Spot /\ at' \in [Rank -> Turn]
  BY <1>0, <1>1, <1>2 DEF Spot, Loop, Exit
<1>4. Typed' /\ NobodyAhead("done")' /\ Stays(r) /\ ~inside[r] /\ ~inside'[r]
  <2>1. Slot(r)' = Slot(r)
    BY <1>0, <1>2 DEF Slot, f
  <2>2. pc[r] \notin DOMAIN CollectiveAt /\ pc[r] # "done" /\ pc'[r] # "done"
    BY <1>0, <1>2, Collectives
  <2>3. /\ \E l \in Spot : pc' = [pc EXCEPT ![r] = l]
        /\ lines' \in [Measurement -> Nat] /\ moved' \in [Measurement -> [Rank -> Nat]]
        /\ todo' \in [Rank -> Nat]
    BY <1>0, <1>3 DEF Typed
  <2> QED BY <1>0, <1>3, <2>1, <2>2, <2>3, StepWithin
<1>5. Located(r)'
  BY <1>0, <1>2, <1>4 DEF Own, Located, Entry, Loop, Exit
<1>6. ASSUME NEW m \in Measurement
      PROVE  Through(m, Label(r), at[r].i) = Before(m, Label(r)', at'[r].i)
  <2>1. Label(r) = <<"put", at[r].observers, at[r].size>>
    BY <1>0 DEF Label, Current
  <2>2. Label(r)' = <<"get", f.observers, f.size>>
    BY <1>2 DEF Label, Current
  <2>3. Through(m, <<"put", at[r].observers, at[r].size>>, at[r].i)
        = Before(m, <<"get", f.observers, f.size>>, f.i)
    BY <1>0, CountFromPutToNext DEF f
  <2> QED BY <1>2, <2>1, <2>2, <2>3
<1>7. Moves(r)'
  <2>1. \A m \in Measurement : Begun(m, r)' = Begun(m, r)
    BY <1>0, <1>2, <1>6 DEF Begun
  <2>2. todo[r] = 0 /\ todo'[r] = todo[r]
    BY <1>0 DEF Own, Located, Typed
  <2> QED BY <1>0, <2>1, <2>2, MovesKept DEF Own
<1>8. r = 0 => Lines'
  BY <1>0, <1>2, <1>6 DEF Own, Lines, Printed
<1> QED BY <1>4, <1>5, <1>7, <1>8 DEF Own

LEMMA StepServe ==
    ASSUME IInv, NEW r \in Rank, Serve(r)
    PROVE  Typed' /\ NobodyAhead("done")' /\ Own(r)' /\ Stays(r)
<1>0. /\ Typed /\ Own(r) /\ UNCHANGED <<pc, inside, calls, epoch, at, lines>>
      /\ todo[r] > 0 /\ todo' = [todo EXCEPT ![r] = @ - 1] /\ todo \in [Rank -> Nat]
      /\ moved' = [moved EXCEPT ![Label(r)][r] = @ + 1]
      /\ moved \in [Measurement -> [Rank -> Nat]]
      /\ Label(r) \in Measurement
  BY LabelsAreMeasurements DEF IInv, Typed, Serve, CompleteOne
<1>1. todo' \in [Rank -> Nat] /\ todo'[r] = todo[r] - 1
  BY <1>0
<1>2. /\ moved' \in [Measurement -> [Rank -> Nat]]
      /\ \A m \in Measurement :
            moved'[m][r] = IF m = Label(r) THEN moved[m][r] + 1 ELSE moved[m][r]
  BY <1>0
<1>3. Typed' /\ NobodyAhead("done")' /\ Stays(r)
  <2>1. Typed'
    BY <1>0, <1>1, <1>2 DEF Typed, WorldTyped
  <2>2. NobodyAhead("done")'
    BY <1>0 DEF IInv, NobodyAhead, Behind
  <2>3. Stays(r)
    BY <1>0 DEF Stays, Behind, Slot
  <2> QED BY <2>1, <2>2, <2>3
<1>4. Label(r)' = Label(r)
  BY <1>0 DEF Label, Current
<1>5. Located(r)'
  BY <1>0, <1>1 DEF Own, Located
<1>6. Moves(r)'
  <2> SUFFICES ASSUME NEW m \in Measurement
               PROVE  moved'[m][r] + Open(m, r)' = moved[m][r] + Open(m, r) /\ Begun(m, r)' = Begun(m, r)
    BY <1>0 DEF Own, Moves
  <2>1. moved[m][r] \in Nat /\ todo[r] \in Nat
    BY <1>0
  <2> QED BY <1>0, <1>1, <1>2, <1>4, <2>1 DEF Open, Begun
<1>7. r = 0 => Lines'
  BY <1>0, <1>4 DEF Own, Lines, Printed
<1> QED BY <1>3, <1>5, <1>6, <1>7 DEF Own

-----------------------------------------------------------------------------
\* A step of r leaves what belongs to another rank alone.
LEMMA OthersUntouched ==
    ASSUME IInv, NEW r \in Rank, RankStep(r) \/ Serve(r), NEW s \in Rank, s # r
    PROVE  /\ pc'[s] = pc[s] /\ inside'[s] = inside[s] /\ at'[s] = at[s]
           /\ todo'[s] = todo[s] /\ calls'[s] = calls[s]
           /\ \A m \in Measurement : moved'[m][s] = moved[m][s]
           /\ s = 0 => lines' = lines
<1>0. /\ Typed /\ WorldTyped /\ pc \in [Rank -> Spot] /\ at \in [Rank -> Turn]
      /\ todo \in [Rank -> Nat] /\ moved \in [Measurement -> [Rank -> Nat]]
      /\ inside \in [Rank -> BOOLEAN] /\ calls \in [Rank -> Seq(CollectiveKind)]
      /\ Label(r) \in Measurement
  BY LabelsAreMeasurements DEF IInv, Typed, WorldTyped
<1>1. CASE EnterCollective(r)
  BY <1>0, <1>1 DEF EnterCollective, CallCollective, Enter
<1>2. CASE LeaveCollective(r)
  BY <1>0, <1>2 DEF LeaveCollective, ReturnFromCollective, Leave, Advance, Goto, rma
<1>3. CASE WindowCall(r)
  BY <1>0, <1>3 DEF WindowCall, WinLock, Locally, StartBatch, WinFlush, WinUnlock, Advance, Goto
<1>4. CASE Report(r)
  <2>1. r = 0
    BY <1>4, StepReport
  <2> QED BY <1>0, <1>4, <2>1 DEF Report, Locally, Advance, Goto
<1>5. CASE NextMeasurement(r)
  BY <1>0, <1>5 DEF NextMeasurement, Locally, Goto
<1>6. CASE Serve(r)
  BY <1>0, <1>6 DEF Serve, CompleteOne
<1> QED BY <1>1, <1>2, <1>3, <1>4, <1>5, <1>6 DEF RankStep

LEMMA StepHolds ==
    ASSUME IInv, NEW r \in Rank, RankStep(r) \/ Serve(r)
    PROVE  IInv'
<1>1. Typed' /\ NobodyAhead("done")' /\ Own(r)' /\ (Stays(r) \/ Moved(r))
  BY StepEnter, StepLeave, StepWindow, StepReport, StepNext, StepServe DEF RankStep
<1>2. \A s \in Rank : s # r =>
          Own(s)' /\ Behind(s, "done")' = Behind(s, "done") /\ Slot(s)' = Slot(s)
  BY OthersUntouched, OthersKeep
<1>3. \A s, t \in Rank : InStep(s, t)'
  BY <1>1, <1>2, Together
<1>4. \A s \in Rank : Own(s)'
  BY <1>1, <1>2
<1> QED BY <1>1, <1>3, <1>4 DEF IInv

THEOREM Invariance == Spec => []IInv
<1>1. IInv /\ [Next]_vars => IInv'
  <2> SUFFICES ASSUME IInv, [Next]_vars PROVE IInv'
    OBVIOUS
  <2>1. CASE UNCHANGED vars
    <3>1. UNCHANGED <<pc, inside, calls, epoch, todo, at, moved, lines>>
      BY <2>1 DEF vars
    <3>2. Typed' /\ NobodyAhead("done")'
      BY <3>1 DEF IInv, Typed, WorldTyped, NobodyAhead, Behind
    <3>3. ASSUME NEW s \in Rank
          PROVE  Own(s)' /\ Behind(s, "done")' = Behind(s, "done") /\ Slot(s)' = Slot(s)
      BY <3>1, OthersKeep
    <3>4. \A s, t \in Rank : InStep(s, t)'
      BY <3>3 DEF IInv, InStep
    <3> QED BY <3>2, <3>3, <3>4 DEF IInv
  <2>2. CASE \E r \in Rank : RankStep(r) \/ Serve(r)
    BY <2>2, StepHolds
  <2> QED BY <2>1, <2>2 DEF Next, Finished
<1> QED BY InitHolds, <1>1, PTL DEF Spec

\* main.c:90-98: with any number of ranks and sizes, the operations under way
\* at one time belong to one measurement.
THEOREM OnlyOneMeasurement == Spec => []OneMeasurementAtATime
<1>1. IInv => OneMeasurementAtATime
  <2> SUFFICES ASSUME IInv, NEW r \in Rank, NEW s \in Rank, todo[r] > 0, todo[s] > 0
               PROVE  Place(r) = Place(s)
    BY DEF OneMeasurementAtATime
  <2>1. /\ pc[r] \in {"getFlush", "putFlush"} /\ ~inside[r]
        /\ pc[s] \in {"getFlush", "putFlush"} /\ ~inside[s]
    BY Collectives DEF IInv, Own, Located
  <2>2. Behind(r, "done") = Len(calls[r]) /\ Behind(s, "done") = Len(calls[s])
    BY <2>1 DEF Behind
  <2>3. Len(calls[r]) \in Nat /\ Len(calls[s]) \in Nat
    BY DEF IInv, Typed, WorldTyped
  <2>4. Behind(r, "done") = Behind(s, "done")
    BY <2>2, <2>3 DEF IInv, NobodyAhead
  <2>5. Slot(r) = Slot(s)
    BY <2>4 DEF IInv, InStep
  <2>6. pc[r] = pc[s] /\ at[r] = at[s]
    BY <2>1, <2>5 DEF Slot
  <2> QED BY <2>6 DEF Place, Label, Current
<1> QED BY <1>1, Invariance, PTL

\* main.c:66-107: every line that the loops promise has been printed ntimes
\* times when rank 0 ends.
THEOREM AllLinesPrinted == Spec => []EveryLinePrinted
<1>1. IInv => EveryLinePrinted
  <2> SUFFICES ASSUME IInv, pc[0] = "done" PROVE lines = [m \in Measurement |-> NTimes]
    BY DEF EveryLinePrinted
  <2>1. Own(0) /\ at[0] = Last /\ lines \in [Measurement -> Nat]
    BY Bounds DEF IInv, Own, Located, Exit, Typed
  <2>2. ASSUME NEW m \in Measurement PROVE lines[m] = NTimes
    <3>1. lines[m] = Before(m, <<"get", 1, MSG_STEP>>, NTimes)
      BY <2>1 DEF Own, Lines, Printed, Label, Current, Last
    <3>2. m[2] \in Nat /\ m[2] >= 1 /\ m[3] \in Nat /\ m[3] >= MSG_STEP
      BY Sizes, Counts DEF Measurement
    <3>3. ~Precedes(m, <<"get", 1, MSG_STEP>>)
      BY <3>2, Bounds DEF Precedes
    <3> QED BY <3>1, <3>3 DEF Before
  <2> QED BY <2>1, <2>2
<1> QED BY <1>1, Invariance, PTL

\* As many ranks access as the label of a line says.
LEMMA AsManyAsNamed ==
    ASSUME NEW n \in Observers
    PROVE  Cardinality(Accessing(n)) = n
<1>1. n \in Nat /\ n >= 1 /\ n <= Size - Half
  BY Counts, Bounds
<1>2. Accessing(n) = Half .. Half + n - 1
  BY <1>1, Bounds DEF Accessing, Rank
<1>3. Half \in Int /\ Half + n - 1 \in Int /\ Half <= Half + n - 1
  BY <1>1, Bounds
<1> QED BY <1>1, <1>2, <1>3, Bounds, FS_Interval

\* Where the others can be when rank 0 prints a line.
LEMMA WhenRankZeroReports ==
    ASSUME IInv, pc[0] \in {"getReport", "putReport"}, NEW r \in Rank
    PROVE  \/ Slot(r) = Slot(0)
           \/ inside[r] /\ Slot(0) = NextSlot(Slot(r))
<1>1. ~inside[0] /\ 0 \in Rank
  BY Bounds, Collectives DEF IInv, Own, Located
<1>2. Behind(0, "done") = Len(calls[0]) /\ Len(calls[0]) \in Nat /\ Len(calls[r]) \in Nat
  BY <1>1 DEF Behind, IInv, Typed, WorldTyped
<1>3. Behind(0, "done") <= Len(calls[r]) /\ Behind(r, "done") <= Len(calls[0])
  BY <1>1 DEF IInv, NobodyAhead
<1>4. InStep(0, r) /\ InStep(r, 0)
  BY <1>1 DEF IInv
<1>5. CASE ~inside[r] /\ pc[r] # "done"
  BY <1>2, <1>3, <1>4, <1>5 DEF Behind, InStep
<1>6. CASE inside[r] \/ pc[r] = "done"
  <2>1. Behind(r, "done") = Len(calls[r]) - 1
    BY <1>6 DEF Behind
  <2>2. Behind(0, "done") = Behind(r, "done") \/ Behind(0, "done") = Behind(r, "done") + 1
    BY <1>2, <1>3, <2>1
  <2>3. Slot(0) = Slot(r) \/ Slot(0) = NextSlot(Slot(r))
    BY <1>2, <1>4, <2>2, <2>1 DEF InStep
  <2>4. pc[r] # "done" \/ Slot(0) # NextSlot(Slot(r))
    <3> SUFFICES ASSUME pc[r] = "done", Slot(0) = NextSlot(Slot(r)) PROVE FALSE
      OBVIOUS
    <3>1. Slot(r) = <<"put", Last>> /\ NextSlot(Slot(r)) = <<"get", Following(Last)>>
      BY DEF Slot, NextSlot, IInv, Own, Located, Exit
    <3>2. pc[0] = "putReport" /\ Slot(0) = <<"get", Following(at[0])>>
      BY <3>1 DEF Slot
    <3>3. at[0] \in Turn /\ Last \in Turn /\ at[0].i < NTimes
      BY <1>1, Bounds, Sizes, Counts DEF IInv, Typed, Own, Located, Loop, Last, Turn
    <3>4. at[0] = Last
      BY <3>1, <3>2, <3>3, FollowingInjective
    <3> QED BY <3>3, <3>4, Bounds DEF Last
  <2> QED BY <1>6, <2>3, <2>4
<1> QED BY <1>5, <1>6

LEMMA FirstComesOnce ==
    ASSUME NEW c \in Turn
    PROVE  Following(c) # First
<1>1. c.i \in Nat /\ c.observers \in Nat /\ c.observers >= 1 /\ c.size \in Nat /\ c.size >= MSG_STEP
  BY Sizes, Counts DEF Turn
<1>2. First.i = 0 /\ First.observers = 1 /\ First.size = MSG_STEP
  BY DEF First
<1> QED BY <1>1, <1>2, FollowingCases, Bounds

\* They have all begun, and finished, the measurement that it is about.
LEMMA BegunWhenReported ==
    ASSUME IInv, pc[0] \in {"getReport", "putReport"}, NEW r \in Rank
    PROVE  Begun(Label(0), r) = at[0].i + 1 /\ Open(Label(0), r) = 0
<1> DEFINE k == Label(0)
           c == at[0]
<1>0. /\ Typed /\ k \in Measurement /\ c \in Turn /\ c.i \in Nat /\ c.i < NTimes
      /\ at[r] \in Turn /\ Located(r) /\ Last.i = NTimes /\ Label(r) \in Measurement
  BY Bounds, LabelsAreMeasurements DEF IInv, Own, Located, Loop, Typed, Last
<1>1. at[r] = c /\ Label(r) = k /\ todo[r] = 0
      /\ pc[r] \in {"getBarrier", "getReport", "putBarrier", "putReport", "next"}
      => Begun(k, r) = c.i + 1 /\ Open(k, r) = 0
  <2>1. Through(k, k, c.i) = c.i + 1
    BY <1>0, CountsAreNumbers
  <2> QED BY <2>1 DEF Begun, Open
<1>2. CASE pc[0] = "getReport"
  <2>1. k = <<"get", c.observers, c.size>> /\ Slot(0) = <<"put", c>>
    BY <1>2 DEF Label, Current, Slot
  <2>2. CASE Slot(r) = <<"put", c>>
    <3>1. at[r] = c /\ pc[r] \in {"getReport", "put", "putFlush", "putBarrier"}
      BY <1>0, <2>2, Bounds DEF Slot, Located, Exit
    <3>2. CASE pc[r] = "getReport"
      <4>1. Label(r) = k /\ todo[r] = 0
        BY <1>0, <2>1, <3>1, <3>2 DEF Label, Current, Located, Typed
      <4> QED BY <1>1, <3>1, <3>2, <4>1
    <3>3. CASE pc[r] # "getReport"
      <4>1. Label(r) = <<"put", c.observers, c.size>>
        BY <3>1, <3>3 DEF Label, Current
      <4>2. Label(r) # k /\ Before(k, Label(r), c.i) = Through(k, k, c.i)
        BY <1>0, <2>1, <4>1, CountFromGetToPut
      <4>3. Through(k, Label(r), c.i) = c.i + 1 /\ Before(k, Label(r), c.i) = c.i + 1
        BY <1>0, <4>2, CountsAreNumbers
      <4> QED BY <3>1, <4>2, <4>3 DEF Begun, Open
    <3> QED BY <3>2, <3>3
  <2>3. CASE inside[r] /\ <<"put", c>> = NextSlot(Slot(r))
    <3>1. Slot(r) = <<"get", c>>
      BY <2>3 DEF NextSlot, Slot
    <3>2. at[r] = c /\ pc[r] = "getBarrier"
      BY <1>0, <2>3, <3>1, Collectives, Bounds DEF Slot, Located, Exit
    <3>3. Label(r) = k /\ todo[r] = 0
      BY <1>0, <2>1, <3>2 DEF Label, Current, Located, Typed
    <3> QED BY <1>1, <3>2, <3>3
  <2> QED BY <1>2, <2>1, <2>2, <2>3, WhenRankZeroReports
<1>3. CASE pc[0] = "putReport"
  <2> DEFINE f == Following(c)
  <2>1. k = <<"put", c.observers, c.size>> /\ Slot(0) = <<"get", f>>
    BY <1>3 DEF Label, Current, Slot
  <2>2. f \in Turn /\ f # First /\ (Following(at[r]) = f => at[r] = c)
    BY <1>0, FollowingIsTurn, FollowingInjective, FirstComesOnce
  <2>3. Before(k, <<"get", f.observers, f.size>>, f.i) = Through(k, k, c.i)
    BY <1>0, <2>1, CountFromPutToNext
  <2> HIDE DEF f
  <2>4. CASE Slot(r) = <<"get", f>>
    <3>1. CASE pc[r] \in {"putReport", "next"}
      <4>1. Slot(r) = <<"get", Following(at[r])>>
        BY <3>1 DEF Slot
      <4>2. at[r] = c
        BY <2>2, <2>4, <4>1
      <4>3. Label(r) = k /\ todo[r] = 0
        BY <1>0, <2>1, <3>1, <4>2 DEF Label, Current, Located, Typed
      <4> QED BY <1>1, <3>1, <4>2, <4>3
    <3>2. CASE pc[r] \notin {"putReport", "next"}
      <4>1. pc[r] \in {"lock", "measure", "get", "getFlush", "getBarrier", "unlock", "free"} /\ at[r] = f
        BY <1>0, <2>4, <3>2 DEF Slot, Typed, Spot, Entry, Loop, Exit
      <4>2. Label(r) = <<"get", f.observers, f.size>>
        BY <4>1 DEF Label, Current
      <4>3. Label(r) # k /\ f.i \in Nat
        BY <2>1, <2>2, <4>2 DEF Turn
      <4>4. Before(k, Label(r), f.i) = c.i + 1
        BY <1>0, <2>3, <4>2, CountsAreNumbers
      <4>5. Through(k, Label(r), f.i) = c.i + 1
        BY <1>0, <4>3, <4>4, CountsAreNumbers
      <4> QED BY <4>1, <4>3, <4>4, <4>5 DEF Begun, Open
    <3> QED BY <3>1, <3>2
  <2>5. CASE inside[r] /\ <<"get", f>> = NextSlot(Slot(r))
    <3>1. pc[r] # "barrier" /\ pc[r] # "alloc"
      BY <2>2, <2>5 DEF Slot, NextSlot
    <3>2. pc[r] \in {"getBarrier", "putBarrier", "free", "finalize"}
      BY <1>0, <2>5, <3>1, Collectives DEF Located
    <3>3. pc[r] \in {"putBarrier", "finalize"} /\ Following(at[r]) = f
      BY <2>5, <3>2 DEF Slot, NextSlot
    <3>4. at[r] = c /\ pc[r] = "putBarrier"
      BY <1>0, <2>2, <3>3, Bounds DEF Located, Exit
    <3>5. Label(r) = k /\ todo[r] = 0
      BY <1>0, <2>1, <3>4 DEF Label, Current, Located, Typed
    <3> QED BY <1>1, <3>4, <3>5
  <2> QED BY <1>3, <2>1, <2>4, <2>5, WhenRankZeroReports
<1> QED BY <1>2, <1>3

\* main.c:74-82: when rank 0 prints a line, as many ranks as it names have moved
\* exactly the batches of this repetition and of those before.
THEOREM LinesComeLast == Spec => []LineAfterItsBatches
<1>1. IInv => LineAfterItsBatches
  <2> SUFFICES ASSUME IInv, pc[0] \in {"getReport", "putReport"}
               PROVE  /\ Cardinality(Accessing(at[0].observers)) = at[0].observers
                      /\ \A r \in Rank :
                            moved[Label(0)][r] = IF r \in Accessing(at[0].observers)
                                                   THEN (at[0].i + 1) * ITERATIONS ELSE 0
    BY DEF LineAfterItsBatches
  <2>1. /\ Label(0) \in Measurement /\ Label(0)[2] = at[0].observers
        /\ at[0].observers \in Observers /\ at[0].i \in Nat
    BY Bounds, LabelsAreMeasurements DEF IInv, Typed, Turn
  <2>2. ASSUME NEW r \in Rank
        PROVE  moved[Label(0)][r] = IF r \in Accessing(at[0].observers)
                                      THEN (at[0].i + 1) * ITERATIONS ELSE 0
    <3>1. Moves(r) /\ moved[Label(0)][r] \in Nat
      BY <2>1 DEF IInv, Own, Typed
    <3>2. Begun(Label(0), r) = at[0].i + 1 /\ Open(Label(0), r) = 0
      BY BegunWhenReported
    <3> QED BY <2>1, <3>1, <3>2 DEF Moves
  <2> QED BY <2>1, <2>2, AsManyAsNamed
<1> QED BY <1>1, Invariance, PTL

-----------------------------------------------------------------------------
(* Types. *)

Limits == epoch \in [Rank -> BOOLEAN] /\ \A r \in Rank : todo[r] <= ITERATIONS

LEMMA LimitsKept == IInv /\ Limits /\ [Next]_vars => Limits'
<1> SUFFICES ASSUME IInv, Limits, [Next]_vars PROVE Limits'
  OBVIOUS
<1>0. /\ epoch \in [Rank -> BOOLEAN] /\ todo \in [Rank -> Nat] /\ ITERATIONS \in Nat
      /\ \A r \in Rank : todo[r] <= ITERATIONS
  BY Bounds DEF IInv, Typed, Limits
<1>1. CASE UNCHANGED <<epoch, todo>>
  BY <1>1 DEF Limits
<1>2. ASSUME NEW r \in Rank, RankStep(r) \/ Serve(r) PROVE Limits'
  <2>1. CASE EnterCollective(r) \/ LeaveCollective(r) \/ Report(r) \/ NextMeasurement(r)
    BY <1>1, <2>1 DEF EnterCollective, CallCollective, LeaveCollective, ReturnFromCollective, rma,
                      Report, NextMeasurement, Locally
  <2>2. CASE WindowCall(r)
    <3>1. \/ UNCHANGED todo /\ \E b \in BOOLEAN : epoch' = [epoch EXCEPT ![r] = b]
          \/ UNCHANGED epoch /\ todo' = [todo EXCEPT ![r] = ITERATIONS]
          \/ UNCHANGED <<epoch, todo>>
      BY <2>2 DEF WindowCall, WinLock, Locally, StartBatch, WinFlush, WinUnlock, Batch
    <3> QED BY <1>0, <1>1, <3>1 DEF Limits
  <2>3. CASE Serve(r)
    <3>1. UNCHANGED epoch /\ todo' = [todo EXCEPT ![r] = @ - 1]
      BY <2>3 DEF Serve, CompleteOne
    <3> QED BY <1>0, <3>1 DEF Limits
  <2> QED BY <1>2, <2>1, <2>2, <2>3 DEF RankStep
<1>3. CASE UNCHANGED vars
  BY <1>1, <1>3 DEF vars
<1> QED BY <1>2, <1>3 DEF Next, Finished

\* No measurement is done more often than there are repetitions.
LEMMA OftenEnough ==
    ASSUME Typed, NEW r \in Rank, Located(r), NEW m \in Measurement
    PROVE  /\ Begun(m, r) \in 0 .. NTimes
           /\ pc[r] # "next" => Before(m, Label(r), at[r].i) \in 0 .. NTimes
           /\ pc[r] = "next" => Through(m, Label(r), at[r].i) \in 0 .. NTimes
<1>0. Label(r) \in Measurement /\ at[r].i \in Nat /\ NTimes \in Nat /\ NTimes >= 1
  BY Bounds, LabelsAreMeasurements
<1>1. /\ Before(m, Label(r), at[r].i) \in {at[r].i, at[r].i + 1}
      /\ Through(m, Label(r), at[r].i) \in {at[r].i, at[r].i + 1}
  BY DEF Before, Through
<1>2. CASE pc[r] \in Loop \/ pc[r] \in Entry
  <2>1. at[r].i < NTimes
    BY <1>0, <1>2 DEF Located, First
  <2> QED BY <1>0, <1>1, <2>1 DEF Begun
<1>3. CASE pc[r] \in Exit
  <2>1. Label(r) = <<"get", 1, MSG_STEP>> /\ at[r].i = NTimes
    BY <1>3 DEF Located, Last, Label, Current, Exit
  <2>2. m[2] \in Nat /\ m[2] >= 1 /\ m[3] \in Nat /\ m[3] >= MSG_STEP
    BY Sizes, Counts DEF Measurement
  <2>3. ~Precedes(m, <<"get", 1, MSG_STEP>>)
    BY <2>2, Bounds DEF Precedes
  <2>4. Before(m, Label(r), at[r].i) = NTimes
    BY <2>1, <2>3 DEF Before
  <2> QED BY <1>0, <1>3, <2>4 DEF Begun, Exit
<1> QED BY <1>2, <1>3 DEF Typed, Spot

\* The variables have their types: no counter runs past what the loops allow.
THEOREM TypeCorrect == Spec => []TypeOK
<1>1. Init => Limits
  BY Bounds DEF Init, WorldInit, Limits
<1>2. IInv /\ Limits => TypeOK
  <2> SUFFICES ASSUME IInv, Limits PROVE TypeOK
    OBVIOUS
  <2>1. WorldTypeOK(DOMAIN Source(0, 1) \cup {"next", "done"}, ITERATIONS)
    <3>1. Spot = DOMAIN Source(0, 1) \cup {"next", "done"}
      BY DEF Spot, Entry, Loop, Exit, Source
    <3>2. /\ todo \in [Rank -> Nat] /\ ITERATIONS \in Nat
          /\ \A r \in Rank : todo[r] <= ITERATIONS
      BY Bounds DEF IInv, Typed, Limits
    <3>3. todo \in [Rank -> 0 .. ITERATIONS]
      BY <3>2
    <3> QED BY <3>1, <3>3 DEF IInv, Typed, WorldTyped, Limits, WorldTypeOK
  <2>2. ASSUME NEW m \in Measurement PROVE lines[m] \in 0 .. NTimes
    <3>1. lines[m] = Printed(m) /\ Located(0) /\ 0 \in Rank
      BY Bounds DEF IInv, Own, Lines
    <3> QED BY <3>1, OftenEnough DEF IInv, Printed
  <2>3. ASSUME NEW m \in Measurement, NEW r \in Rank
        PROVE  moved[m][r] \in 0 .. NTimes * ITERATIONS
    <3>1. /\ Moves(r) /\ moved[m][r] \in Nat /\ todo[r] \in Nat
          /\ Begun(m, r) \in 0 .. NTimes /\ NTimes \in Nat /\ ITERATIONS \in Nat
      BY Bounds, OftenEnough DEF IInv, Own, Typed
    <3>2. Begun(m, r) * ITERATIONS <= NTimes * ITERATIONS /\ NTimes * ITERATIONS \in Nat
      BY <3>1, Grows, Distributes
    <3>3. Open(m, r) \in Nat
      BY <3>1 DEF Open
    <3>4. Begun(m, r) * ITERATIONS \in Nat
      BY <3>1, Distributes
    <3> QED BY <3>1, <3>2, <3>3, <3>4 DEF Moves
  <2>4. ASSUME NEW r \in Rank PROVE at[r].i \in 0 .. NTimes
    <3>1. Located(r) /\ at[r].i \in Nat /\ pc[r] \in Spot
      BY DEF IInv, Own, Typed, Turn
    <3> QED BY <3>1, Bounds DEF Located, First, Last, Spot
  <2>5. at \in [Rank -> [i : 0 .. NTimes, observers : Observers, size : MsgSizes]]
    BY <2>4 DEF IInv, Typed, Turn
  <2>6. moved \in [Measurement -> [Rank -> 0 .. NTimes * ITERATIONS]]
    BY <2>3 DEF IInv, Typed
  <2>7. lines \in [Measurement -> 0 .. NTimes]
    BY <2>2 DEF IInv, Typed
  <2> QED BY <2>1, <2>5, <2>6, <2>7 DEF TypeOK
<1> QED BY <1>1, <1>2, LimitsKept, Invariance, PTL DEF Spec

(***************************************************************************)
(* Proofs about ReplacePerformance, for every number of ranks, repetitions *)
(* and operations.  A rank's place in its program determines how many      *)
(* collectives it has returned from (Placed), which no other rank can fall *)
(* behind (NobodyAhead), and how many operations it has made (Counted).    *)
(***************************************************************************)

RLabel == {"alloc", "barrier", "lock", "issue", "flush", "meet", "next",
          "unlock", "free", "finalize", "done"}

Early == {"alloc", "barrier", "lock"}
Inner == {"issue", "flush", "meet", "next"}
Late  == {"unlock", "free", "finalize", "done"}

RTyped ==
    /\ WorldTyped
    /\ pc \in [Rank -> RLabel]
    /\ epoch \in [Rank -> BOOLEAN]
    /\ todo \in [Rank -> Nat] /\ served \in [Rank -> Nat]
    /\ index \in [Rank -> 1 .. 8] /\ rep \in [Rank -> Nat]

\* Sections that r has gone through before the one it is in.
RTurn(r) == 8 * rep[r] + index[r] - 1

\* Collectives that r has returned from.
Progress(r) ==
    CASE pc[r] = "alloc" -> 0
      [] pc[r] = "barrier" -> 1
      [] pc[r] = "lock" -> 2
      [] pc[r] \in {"issue", "flush", "meet"} -> RTurn(r) + 2
      [] pc[r] = "next" -> RTurn(r) + 3
      [] pc[r] \in {"unlock", "free"} -> 8 * Repetitions + 2
      [] pc[r] \in {"finalize", "done"} -> 8 * Repetitions + 3

\* Sections whose operations r has started.
Started(r) ==
    CASE pc[r] \in Early -> 0
      [] pc[r] = "issue" -> RTurn(r)
      [] pc[r] \in {"flush", "meet", "next"} -> RTurn(r) + 1
      [] pc[r] \in Late -> 8 * Repetitions

Placed(r) ==
    /\ pc[r] \in Early => index[r] = 1 /\ rep[r] = 0
    /\ pc[r] \in Inner => rep[r] < Repetitions
    /\ pc[r] \in Late => index[r] = 1 /\ rep[r] = Repetitions
    /\ r = 0 => pc[r] \notin {"issue", "flush"}
    /\ inside[r] => pc[r] \in DOMAIN RCollectiveAt
    /\ Behind(r, "done") = Progress(r)

Counted(r) ==
    /\ todo[r] > 0 => pc[r] = "flush"
    /\ todo[r] <= Operations
    /\ r # 0 => served[r] + todo[r] = Started(r) * Operations
    /\ r = 0 => served[r] = 0 /\ todo[r] = 0

RIInv ==
    /\ RTyped
    /\ NobodyAhead("done")
    /\ \A r \in Rank : Placed(r) /\ Counted(r)

-----------------------------------------------------------------------------
\* All ranks count eight sections to a repetition, rank 0 without looking.
LEMMA EightTurns == \A r \in Rank : Turns(r) = 8
BY DEF Turns, RootBarriers, Sections

LEMMA RCollectives ==
    /\ DOMAIN RCollectiveAt = {"alloc", "barrier", "meet", "free", "finalize"}
    /\ \A l \in DOMAIN RCollectiveAt :
          /\ RCollectiveAt[l] \in CollectiveKind
          /\ l # "finalize" => RCollectiveAt[l] \in Synchronising
BY DEF RCollectiveAt, CollectiveKind, Synchronising, Rooted

\* A step of one rank changes nothing of the others.
LEMMA OneAtATime ==
    ASSUME RTyped, NEW r \in Rank, RStep(r) \/ RServe(r), NEW s \in Rank, s # r
    PROVE  /\ pc'[s] = pc[s] /\ inside'[s] = inside[s] /\ calls'[s] = calls[s]
           /\ todo'[s] = todo[s] /\ served'[s] = served[s]
           /\ index'[s] = index[s] /\ rep'[s] = rep[s]
<1>1. CASE REnterCollective(r)
  BY <1>1 DEF RTyped, WorldTyped, REnterCollective, CallCollective, Enter
<1>2. CASE RLeaveCollective(r)
  BY <1>2 DEF RTyped, WorldTyped, RLeaveCollective, ReturnFromCollective, Leave, RAdvance, Goto, rma
<1>3. CASE RWindowCall(r)
  BY <1>3 DEF RTyped, WorldTyped, RWindowCall, WinLock, StartBatch, WinFlush, WinUnlock, RAdvance, Goto
<1>4. CASE NextSection(r)
  BY <1>4 DEF RTyped, WorldTyped, NextSection, Locally, Goto
<1>5. CASE RServe(r)
  BY <1>5 DEF RTyped, WorldTyped, RServe, CompleteOne
<1> QED BY <1>1, <1>2, <1>3, <1>4, <1>5 DEF RStep

\* What holds of a rank stays true as long as others move.
LEMMA ROthersKeep ==
    ASSUME NEW s \in Rank, Placed(s), Counted(s),
           pc'[s] = pc[s], inside'[s] = inside[s], calls'[s] = calls[s],
           todo'[s] = todo[s], served'[s] = served[s], index'[s] = index[s], rep'[s] = rep[s]
    PROVE  Placed(s)' /\ Counted(s)'
BY DEF Placed, Counted, Behind, Progress, Started, RTurn

-----------------------------------------------------------------------------
LEMMA RStepEnter ==
    ASSUME RIInv, NEW r \in Rank, REnterCollective(r)
    PROVE  RTyped' /\ NobodyAhead("done")' /\ Placed(r)' /\ Counted(r)'
<1>0. /\ WorldTyped /\ pc[r] \in DOMAIN RCollectiveAt /\ RCollectiveAt[pc[r]] \in CollectiveKind
      /\ Enter(r, RCollectiveAt[pc[r]]) /\ pc[r] # "done"
      /\ UNCHANGED <<pc, epoch, todo, index, rep, served>>
  BY RCollectives DEF RIInv, RTyped, REnterCollective, CallCollective
<1>1. /\ WorldTyped' /\ ~inside[r] /\ inside'[r] /\ Len(calls'[r]) = Len(calls[r]) + 1
      /\ Len(calls[r]) \in Nat
  BY <1>0, EnterCounts
<1>2. RTyped'
  BY <1>0, <1>1 DEF RIInv, RTyped
<1>3. NobodyAhead("done")'
  BY <1>0, EnterKeepsTogether DEF RIInv
<1>4. Behind(r, "done")' = Behind(r, "done") /\ Progress(r)' = Progress(r)
  BY <1>0, <1>1 DEF Behind, Progress, RTurn
<1>5. Placed(r)' /\ Counted(r)'
  BY <1>0, <1>4 DEF RIInv, Placed, Counted, Started, RTurn
<1> QED BY <1>2, <1>3, <1>5

LEMMA RStepLeave ==
    ASSUME RIInv, NEW r \in Rank, RLeaveCollective(r)
    PROVE  RTyped' /\ NobodyAhead("done")' /\ Placed(r)' /\ Counted(r)'
<1>0. /\ WorldTyped /\ pc[r] \in DOMAIN RCollectiveAt /\ pc \in [Rank -> RLabel]
      /\ Leave(r, RCollectiveAt[pc[r]], 0)
      /\ pc' = [pc EXCEPT ![r] = RProgram(r)[pc[r]]]
      /\ UNCHANGED <<epoch, todo, index, rep, served>>
  BY DEF RIInv, RTyped, RLeaveCollective, ReturnFromCollective, RAdvance, Goto, rma
<1>1. /\ WorldTyped' /\ inside[r] /\ ~inside'[r] /\ calls' = calls /\ Len(calls[r]) \in Nat
  BY <1>0, LeaveCounts
<1>2. \/ pc[r] = "alloc" /\ pc'[r] = "barrier"
      \/ pc[r] = "barrier" /\ pc'[r] = "lock"
      \/ pc[r] = "meet" /\ pc'[r] = "next"
      \/ pc[r] = "free" /\ pc'[r] = "finalize"
      \/ pc[r] = "finalize" /\ pc'[r] = "done"
  BY <1>0, RCollectives DEF RProgram, RSource
<1>3. RTyped'
  BY <1>0, <1>1, <1>2 DEF RIInv, RTyped, RLabel
<1>4. NobodyAhead("done")'
  <2>1. RCollectiveAt[pc[r]] \in Synchronising \/ pc'[r] = "done"
    BY <1>2, <1>0, RCollectives
  <2> QED BY <1>0, <2>1, LeaveKeepsTogether DEF RIInv
<1>5. Behind(r, "done") = Len(calls[r]) - 1
  BY <1>1 DEF Behind
<1>6. /\ RTyped /\ Placed(r) /\ Counted(r) /\ index'[r] = index[r] /\ rep'[r] = rep[r]
      /\ todo'[r] = todo[r] /\ served'[r] = served[r]
      /\ index[r] \in 1 .. 8 /\ rep[r] \in Nat /\ Repetitions \in Nat
  BY <1>0, RepetitionsAssumption DEF RIInv, RTyped
<1>7. Placed(r)'
  <2>1. Behind(r, "done")' = Progress(r)'
    <3>1. Behind(r, "done") = Progress(r)
      BY <1>6 DEF Placed
    <3>2. CASE pc'[r] # "done"
      <4>1. Behind(r, "done")' = Len(calls[r])
        BY <1>1, <3>2 DEF Behind
      <4>2. Progress(r)' = Progress(r) + 1
        BY <1>2, <1>6, <3>2 DEF Progress, RTurn
      <4> QED BY <1>1, <1>5, <3>1, <4>1, <4>2
    <3>3. CASE pc'[r] = "done"
      <4>1. Behind(r, "done")' = Len(calls[r]) - 1
        BY <1>1, <3>3 DEF Behind
      <4>2. Progress(r)' = Progress(r)
        BY <1>2, <1>6, <3>3 DEF Progress
      <4> QED BY <1>5, <3>1, <4>1, <4>2
    <3> QED BY <3>2, <3>3
  <2> QED BY <1>1, <1>2, <1>6, <2>1 DEF Placed, Early, Inner, Late
<1>8. Counted(r)'
  BY <1>2, <1>6 DEF Placed, Counted, Started, RTurn, Early, Inner, Late
<1> QED BY <1>3, <1>4, <1>7, <1>8

\* The calls on the window, and what each does to the operations of the rank.
LEMMA RStepWindow ==
    ASSUME RIInv, NEW r \in Rank, RWindowCall(r)
    PROVE  RTyped' /\ NobodyAhead("done")' /\ Placed(r)' /\ Counted(r)'
<1>0. /\ RTyped /\ Placed(r) /\ Counted(r) /\ pc \in [Rank -> RLabel]
      /\ index[r] \in 1 .. 8 /\ rep[r] \in Nat /\ todo[r] \in Nat /\ served[r] \in Nat
      /\ Repetitions \in Nat /\ Repetitions > 0 /\ Operations \in Nat /\ Len(calls[r]) \in Nat
  BY RepetitionsAssumption, OperationsAssumption DEF RIInv, RTyped, WorldTyped
<1>1. UNCHANGED <<inside, calls, index, rep, served>> /\ pc' = [pc EXCEPT ![r] = RProgram(r)[pc[r]]]
  BY DEF RWindowCall, WinLock, StartBatch, WinFlush, WinUnlock, RAdvance, Goto
<1>2. \/ pc[r] = "lock" /\ r = 0 /\ pc'[r] = "meet" /\ todo' = todo
      \/ pc[r] = "lock" /\ r # 0 /\ pc'[r] = "issue" /\ todo' = todo
      \/ pc[r] = "issue" /\ pc'[r] = "flush" /\ todo' = [todo EXCEPT ![r] = Operations]
      \/ pc[r] = "flush" /\ pc'[r] = "meet" /\ todo' = todo /\ todo[r] = 0
      \/ pc[r] = "unlock" /\ pc'[r] = "free" /\ todo' = todo
  BY <1>0, <1>1 DEF RWindowCall, WinLock, StartBatch, WinFlush, WinUnlock, RBatch, RProgram, RSource
<1>3. epoch' \in [Rank -> BOOLEAN]
  BY <1>0 DEF RTyped, RWindowCall, WinLock, StartBatch, WinFlush, WinUnlock
<1>4. RTyped'
  <2>1. pc' \in [Rank -> RLabel]
    BY <1>0, <1>1, <1>2 DEF RLabel
  <2>2. todo' \in [Rank -> Nat]
    BY <1>0, <1>2 DEF RTyped
  <2> QED BY <1>0, <1>1, <1>3, <2>1, <2>2 DEF RTyped, WorldTyped
<1>5. NobodyAhead("done")'
  <2>1. pc[r] # "done" /\ \A s \in Rank : s # r => pc'[s] = pc[s]
    BY <1>0, <1>1, <1>2
  <2> QED BY <1>0, <1>1, <2>1, LocalKeepsTogether DEF RIInv, RTyped
<1>6. ~inside[r]
  BY <1>0, <1>2, RCollectives DEF Placed
<1>7. Placed(r)'
  BY <1>0, <1>1, <1>2, <1>6 DEF Placed, Behind, Progress, RTurn, Early, Inner, Late
<1>8. Counted(r)'
  <2>1. CASE pc[r] = "issue"
    <3>1. todo[r] = 0 /\ todo'[r] = Operations /\ served'[r] = served[r] /\ pc'[r] = "flush"
      BY <1>0, <1>1, <1>2, <2>1 DEF Counted, RTyped
    <3>2. Started(r) \in Nat /\ Started(r)' = Started(r) + 1
      BY <1>0, <1>1, <3>1, <2>1 DEF Started, RTurn, Early, Late
    <3>3. (Started(r) + 1) * Operations = Started(r) * Operations + Operations
      BY <1>0, <3>2, Distributes
    <3>4. Started(r)' * Operations = Started(r) * Operations + Operations
      BY <3>2, <3>3
    <3>5. r # 0 => served[r] + todo[r] = Started(r) * Operations
      BY <1>0 DEF Counted
    <3>6. r # 0
      BY <1>0, <2>1 DEF Placed
    <3> QED BY <1>0, <3>1, <3>4, <3>5, <3>6 DEF Counted
  <2>2. CASE pc[r] # "issue"
    <3>1. todo'[r] = todo[r] /\ served'[r] = served[r] /\ (todo[r] > 0 => FALSE)
      BY <1>0, <1>1, <1>2, <2>2 DEF Counted
    <3>2. r # 0 => Started(r)' = Started(r)
      BY <1>0, <1>1, <1>2, <2>2 DEF Placed, Started, RTurn, Early, Inner, Late
    <3> QED BY <1>0, <3>1, <3>2 DEF Counted
  <2> QED BY <2>1, <2>2
<1> QED BY <1>4, <1>5, <1>7, <1>8

LEMMA RStepNext ==
    ASSUME RIInv, NEW r \in Rank, NextSection(r)
    PROVE  RTyped' /\ NobodyAhead("done")' /\ Placed(r)' /\ Counted(r)'
<1>0. /\ RTyped /\ Placed(r) /\ Counted(r) /\ pc \in [Rank -> RLabel]
      /\ index \in [Rank -> 1 .. 8] /\ rep \in [Rank -> Nat]
      /\ index[r] \in 1 .. 8 /\ rep[r] \in Nat /\ todo[r] \in Nat /\ served[r] \in Nat
      /\ Repetitions \in Nat /\ Repetitions > 0 /\ Operations \in Nat /\ Len(calls[r]) \in Nat
  BY RepetitionsAssumption, OperationsAssumption DEF RIInv, RTyped, WorldTyped
<1>1. /\ pc[r] = "next" /\ UNCHANGED <<inside, calls, epoch, todo, served>>
      /\ \/ /\ index[r] < 8 /\ index' = [index EXCEPT ![r] = @ + 1] /\ rep' = rep
         \/ /\ index[r] = 8 /\ index' = [index EXCEPT ![r] = 1] /\ rep' = [rep EXCEPT ![r] = @ + 1]
      /\ pc' = [pc EXCEPT ![r] = IF rep'[r] = Repetitions THEN "unlock"
                                 ELSE IF r = 0 THEN "meet" ELSE "issue"]
  BY <1>0, EightTurns DEF NextSection, Goto, Locally
<1>2. RTyped'
  <2>1. pc' \in [Rank -> RLabel]
    BY <1>0, <1>1 DEF RLabel
  <2>2. CASE index[r] < 8 /\ index' = [index EXCEPT ![r] = @ + 1] /\ rep' = rep
    <3>1. index[r] + 1 \in 1 .. 8
      BY <1>0, <2>2
    <3> QED BY <1>0, <1>1, <2>1, <2>2, <3>1 DEF RTyped, WorldTyped
  <2>3. CASE index' = [index EXCEPT ![r] = 1] /\ rep' = [rep EXCEPT ![r] = @ + 1]
    BY <1>0, <1>1, <2>1, <2>3 DEF RTyped, WorldTyped
  <2> QED BY <1>1, <2>2, <2>3
<1>3. NobodyAhead("done")'
  <2>1. pc[r] # "done" /\ \A s \in Rank : s # r => pc'[s] = pc[s]
    BY <1>0, <1>1
  <2> QED BY <1>0, <1>1, <2>1, LocalKeepsTogether DEF RIInv, RTyped
<1>4. ~inside[r] /\ rep[r] < Repetitions
  BY <1>0, <1>1, RCollectives DEF Placed, Inner
<1>5. \/ /\ pc'[r] = "unlock" /\ rep'[r] = Repetitions /\ index'[r] = 1
         /\ rep[r] + 1 = Repetitions /\ index[r] = 8
      \/ /\ pc'[r] = (IF r = 0 THEN "meet" ELSE "issue") /\ rep'[r] < Repetitions
         /\ \/ rep'[r] = rep[r] /\ index'[r] = index[r] + 1
            \/ rep'[r] = rep[r] + 1 /\ index'[r] = 1 /\ index[r] = 8
  BY <1>0, <1>1, <1>4
<1>6. /\ inside'[r] = inside[r] /\ calls'[r] = calls[r]
      /\ todo'[r] = todo[r] /\ served'[r] = served[r]
  BY <1>1
<1>7. /\ Behind(r, "done") = RTurn(r) + 3 /\ Behind(r, "done")' = Behind(r, "done")
      /\ Started(r) = RTurn(r) + 1
  BY <1>0, <1>1, <1>4, <1>5, <1>6 DEF Placed, Behind, Progress, Started, Early
<1>8. CASE pc'[r] = "unlock" /\ rep'[r] = Repetitions /\ index'[r] = 1 /\ rep[r] + 1 = Repetitions /\ index[r] = 8
  <2>1. Progress(r)' = 8 * Repetitions + 2 /\ Started(r)' = 8 * Repetitions /\ RTurn(r) = 8 * Repetitions - 1
    BY <1>0, <1>8 DEF Progress, Started, RTurn, Early, Late
  <2> QED
    BY <1>0, <1>1, <1>2, <1>3, <1>4, <1>6, <1>7, <1>8, <2>1
    DEF Placed, Counted, Early, Inner, Late
<1>9. CASE /\ pc'[r] = (IF r = 0 THEN "meet" ELSE "issue") /\ rep'[r] < Repetitions
           /\ \/ rep'[r] = rep[r] /\ index'[r] = index[r] + 1
              \/ rep'[r] = rep[r] + 1 /\ index'[r] = 1 /\ index[r] = 8
  <2>1. RTurn(r)' = RTurn(r) + 1
    <3>0. index[r] \in Int /\ rep[r] \in Int
      BY <1>0
    <3>1. CASE rep'[r] = rep[r] /\ index'[r] = index[r] + 1
      BY <3>0, <3>1 DEF RTurn
    <3>2. CASE rep'[r] = rep[r] + 1 /\ index'[r] = 1 /\ index[r] = 8
      BY <3>0, <3>2 DEF RTurn
    <3> QED BY <1>9, <3>1, <3>2
  <2>3. RTurn(r) \in Int
    BY <1>0 DEF RTurn
  <2>2. Progress(r)' = RTurn(r)' + 2 /\ (r # 0 => Started(r)' = RTurn(r)')
    <3>1. pc'[r] \in {"meet", "issue"} /\ (r # 0 => pc'[r] = "issue")
      BY <1>9
    <3>2. RTurn(r)' \in Int /\ Repetitions \in Int
      BY <1>0, <2>1, <2>3
    <3>3. CASE pc'[r] = "issue"
      BY <3>2, <3>3 DEF Progress, Started, Early, Late
    <3>4. CASE pc'[r] = "meet" /\ r = 0
      BY <3>2, <3>4 DEF Progress
    <3> QED BY <3>1, <3>3, <3>4
  <2> QED
    BY <1>0, <1>1, <1>2, <1>3, <1>4, <1>6, <1>7, <1>9, <2>1, <2>2, <2>3
    DEF Placed, Counted, Early, Inner, Late
<1> QED BY <1>5, <1>8, <1>9

LEMMA RStepServe ==
    ASSUME RIInv, NEW r \in Rank, RServe(r)
    PROVE  RTyped' /\ NobodyAhead("done")' /\ Placed(r)' /\ Counted(r)'
<1>0. /\ RTyped /\ Placed(r) /\ Counted(r) /\ todo[r] \in Nat /\ served[r] \in Nat
      /\ todo \in [Rank -> Nat] /\ served \in [Rank -> Nat] /\ todo[r] > 0
      /\ todo' = [todo EXCEPT ![r] = @ - 1] /\ served' = [served EXCEPT ![r] = @ + 1]
      /\ UNCHANGED <<pc, inside, calls, epoch, index, rep>> /\ Operations \in Nat
  BY OperationsAssumption DEF RIInv, RTyped, RServe, CompleteOne
<1>1. RTyped'
  BY <1>0 DEF RTyped, WorldTyped
<1>2. NobodyAhead("done")'
  BY <1>0 DEF RIInv, NobodyAhead, Behind
<1>3. Placed(r)' /\ Started(r)' = Started(r)
  BY <1>0 DEF Placed, Behind, Progress, Started, RTurn
<1>4. Counted(r)'
  <2>1. todo'[r] = todo[r] - 1 /\ served'[r] = served[r] + 1 /\ pc'[r] = pc[r]
    BY <1>0
  <2>2. r # 0 => served'[r] + todo'[r] = served[r] + todo[r]
    BY <1>0, <2>1
  <2> QED BY <1>0, <1>3, <2>1, <2>2 DEF Counted
<1> QED BY <1>1, <1>2, <1>3, <1>4

-----------------------------------------------------------------------------
LEMMA RInvariance == RSpec => []RIInv
<1>1. RInit => RIInv
  <2> SUFFICES ASSUME RInit PROVE RIInv
    OBVIOUS
  <2>1. RTyped
    BY DEF RInit, WorldInit, RTyped, WorldTyped, RLabel
  <2>2. NobodyAhead("done")
    BY DEF RInit, WorldInit, NobodyAhead, Behind
  <2>3. ASSUME NEW r \in Rank PROVE Placed(r) /\ Counted(r)
    BY <2>1, Distributes, OperationsAssumption, RepetitionsAssumption
    DEF RInit, WorldInit, Placed, Counted, Behind, Progress, Started, Early, Inner, Late
  <2> QED BY <2>1, <2>2, <2>3 DEF RIInv
<1>2. RIInv /\ [RNext]_rvars => RIInv'
  <2> SUFFICES ASSUME RIInv, [RNext]_rvars PROVE RIInv'
    OBVIOUS
  <2>1. ASSUME NEW r \in Rank, RStep(r) \/ RServe(r) PROVE RIInv'
    <3>1. RTyped' /\ NobodyAhead("done")' /\ Placed(r)' /\ Counted(r)'
      BY <2>1, RStepEnter, RStepLeave, RStepWindow, RStepNext, RStepServe DEF RStep
    <3>2. ASSUME NEW s \in Rank, s # r PROVE Placed(s)' /\ Counted(s)'
      BY <2>1, <3>2, OneAtATime, ROthersKeep DEF RIInv
    <3> QED BY <3>1, <3>2 DEF RIInv
  <2>2. CASE UNCHANGED rvars
    <3>1. /\ UNCHANGED <<pc, inside, calls, epoch, todo, index, rep, served>>
      BY <2>2 DEF rvars
    <3> QED BY <3>1 DEF RIInv, RTyped, WorldTyped, NobodyAhead, Placed, Counted, Behind,
                       Progress, Started, RTurn
  <2> QED BY <2>1, <2>2 DEF RNext, RFinished
<1> QED BY <1>1, <1>2, PTL DEF RSpec

\* The variables have their types; nobody completes more operations than its
\* sections are made of.
THEOREM RTypeCorrect == RSpec => []RTypeOK
<1>1. RIInv => RTypeOK
  <2> SUFFICES ASSUME RIInv PROVE RTypeOK
    OBVIOUS
  <2>0. RTyped /\ Repetitions \in Nat /\ Repetitions > 0 /\ Operations \in Nat
    BY RepetitionsAssumption, OperationsAssumption DEF RIInv
  <2>1. WorldTypeOK(DOMAIN RSource(1) \cup {"next", "done"}, Operations)
    <3>1. RLabel = DOMAIN RSource(1) \cup {"next", "done"}
      BY DEF RLabel, RSource
    <3>2. \A r \in Rank : todo[r] \in 0 .. Operations
      BY <2>0 DEF RIInv, Counted, RTyped
    <3> QED BY <2>0, <3>1, <3>2 DEF RTyped, WorldTyped, WorldTypeOK
  <2>2. ASSUME NEW r \in Rank PROVE index[r] \in 1 .. Turns(r) /\ rep[r] \in 0 .. Repetitions
    <3>1. index[r] \in 1 .. 8 /\ rep[r] \in Nat /\ Placed(r) /\ pc[r] \in RLabel
      BY <2>0 DEF RIInv, RTyped
    <3>2. rep[r] <= Repetitions
      BY <2>0, <3>1 DEF Placed, RLabel, Early, Inner, Late
    <3> QED BY <2>0, <3>1, <3>2, EightTurns
  <2>3. ASSUME NEW r \in Rank PROVE served[r] \in 0 .. Repetitions * Len(Sections) * Operations
    <3>0. /\ served[r] \in Nat /\ todo[r] \in Nat /\ Placed(r) /\ Counted(r) /\ pc[r] \in RLabel
          /\ index[r] \in 1 .. 8 /\ rep[r] \in Nat
      BY <2>0 DEF RIInv, RTyped
    <3>1. Repetitions * Len(Sections) = 8 * Repetitions
      BY <2>0 DEF Sections
    <3>2. Started(r) \in 0 .. 8 * Repetitions
      <4>1. CASE pc[r] \in Inner
        <5>1. RTurn(r) \in 0 .. 8 * Repetitions - 1
          BY <2>0, <3>0, <4>1 DEF Placed, RTurn
        <5> QED BY <2>0, <4>1, <5>1 DEF Started, Early, Inner, Late
      <4>2. CASE pc[r] \in Early \cup Late
        BY <2>0, <4>2 DEF Started, Early, Late
      <4> QED BY <3>0, <4>1, <4>2 DEF RLabel, Early, Inner, Late
    <3>3. Started(r) * Operations <= 8 * Repetitions * Operations
      BY <2>0, <3>2, Grows
    <3>4. 8 * Repetitions * Operations \in Nat
      BY <2>0, Distributes
    <3> QED BY <2>0, <3>0, <3>1, <3>3, <3>4 DEF Counted
  <2> QED BY <2>0, <2>1, <2>2, <2>3 DEF RTypeOK, RTyped
<1> QED BY <1>1, RInvariance, PTL

\* main.c:93-172: whatever the number of ranks and repetitions, operations of
\* different sections are never under way together.
THEOREM SectionsNeverMix == RSpec => []SectionsApart
<1>1. RIInv => SectionsApart
  <2> SUFFICES ASSUME RIInv, NEW r \in Rank, NEW s \in Rank, todo[r] > 0, todo[s] > 0
               PROVE  index[r] = index[s] /\ rep[r] = rep[s]
    BY DEF SectionsApart
  <2>1. ASSUME NEW q \in Rank, todo[q] > 0
        PROVE  /\ pc[q] = "flush" /\ ~inside[q]
               /\ Behind(q, "done") = RTurn(q) + 2 /\ Len(calls[q]) = RTurn(q) + 2
    <3>1. pc[q] = "flush" /\ Placed(q)
      BY <2>1 DEF RIInv, Counted
    <3>2. ~inside[q]
      BY <3>1, RCollectives DEF Placed
    <3>3. Behind(q, "done") = RTurn(q) + 2
      BY <3>1 DEF Placed, Progress
    <3> QED BY <3>1, <3>2, <3>3 DEF Behind
  <2>2. RTurn(r) + 2 <= RTurn(s) + 2 /\ RTurn(s) + 2 <= RTurn(r) + 2
    BY <2>1 DEF RIInv, NobodyAhead
  <2>3. index[r] \in 1 .. 8 /\ index[s] \in 1 .. 8 /\ rep[r] \in Nat /\ rep[s] \in Nat
    BY DEF RIInv, RTyped
  <2> QED BY <2>2, <2>3 DEF RTurn
<1> QED BY <1>1, RInvariance, PTL

\* main.c:83-87, 176: rank 0 gives up its lock only after all operations of all
\* ranks, although it counts barriers and not sections.
THEOREM TargetWaits == RSpec => []TargetCountsRight
<1>1. RIInv => TargetCountsRight
  <2> SUFFICES ASSUME RIInv, pc[0] \in {"unlock", "free", "finalize", "done"},
                      NEW r \in Rank \ {0}
               PROVE  served[r] = Repetitions * Len(Sections) * Operations
    BY DEF TargetCountsRight
  <2>0. /\ 0 \in Rank /\ Repetitions \in Nat /\ Repetitions > 0 /\ Operations \in Nat
        /\ index[r] \in 1 .. 8 /\ rep[r] \in Nat /\ pc[r] \in RLabel
        /\ served[r] \in Nat /\ todo[r] \in Nat /\ Len(calls[r]) \in Nat
        /\ Placed(r) /\ Counted(r) /\ Placed(0)
    BY SizeAssumption, RepetitionsAssumption, OperationsAssumption DEF RIInv, RTyped, WorldTyped, Rank
  <2>1. Behind(0, "done") >= 8 * Repetitions + 2
    BY <2>0 DEF Placed, Progress
  <2>2. Len(calls[r]) >= 8 * Repetitions + 2
    <3>1. Behind(0, "done") <= Len(calls[r])
      BY <2>0 DEF RIInv, NobodyAhead
    <3>2. Behind(0, "done") \in Int
      BY <2>0 DEF Placed, Progress
    <3> QED BY <2>0, <2>1, <3>1, <3>2
  <2>3. Behind(r, "done") >= 8 * Repetitions + 1
    BY <2>0, <2>2 DEF Behind
  <2>4. Progress(r) >= 8 * Repetitions + 1
    BY <2>0, <2>3 DEF Placed
  <2>5. pc[r] \in Inner => RTurn(r) \in Nat /\ RTurn(r) <= 8 * Repetitions - 1
    BY <2>0 DEF Placed, RTurn, Inner
  <2>6. pc[r] \notin Early
    BY <2>0, <2>4 DEF Progress, Early
  <2>7. pc[r] \notin {"issue", "flush"}
    <3>1. SUFFICES ASSUME pc[r] \in {"issue", "flush"} PROVE FALSE
      OBVIOUS
    <3>2. ~inside[r] /\ Progress(r) = RTurn(r) + 2 /\ RTurn(r) <= 8 * Repetitions - 1 /\ RTurn(r) \in Nat
      BY <2>0, <2>5, <3>1, RCollectives DEF Placed, Progress, Inner
    <3>3. Behind(r, "done") = Len(calls[r]) /\ Behind(r, "done") = RTurn(r) + 2
      BY <2>0, <3>1, <3>2 DEF Placed, Behind
    <3> QED BY <2>0, <2>2, <3>2, <3>3
  <2>8. Started(r) = 8 * Repetitions
    <3>1. CASE pc[r] = "meet"
      BY <2>0, <2>4, <2>5, <3>1 DEF Progress, Started, Inner, Early
    <3>2. CASE pc[r] = "next"
      <4>2. ~inside[r]
        BY <2>0, <3>2, RCollectives DEF Placed
      <4>3. Progress(r) = RTurn(r) + 3 /\ Len(calls[r]) = Progress(r)
        BY <2>0, <3>2, <4>2 DEF Placed, Progress, Behind
      <4> QED BY <2>0, <2>2, <2>5, <3>2, <4>3 DEF Started, Inner, Early
    <3>3. CASE pc[r] \in Late
      BY <3>3 DEF Started, Early, Late
    <3> QED BY <2>0, <2>6, <2>7, <3>1, <3>2, <3>3 DEF RLabel, Early, Late
  <2>9. todo[r] = 0 /\ served[r] + todo[r] = Started(r) * Operations
    BY <2>0, <2>7 DEF Counted
  <2>10. Len(Sections) = 8
    BY DEF Sections
  <2>11. served[r] = 8 * Repetitions * Operations
    BY <2>0, <2>8, <2>9
  <2>12. Repetitions * Len(Sections) = 8 * Repetitions
    BY <2>0, <2>10
  <2> QED BY <2>11, <2>12
<1> QED BY <1>1, RInvariance, PTL

-----------------------------------------------------------------------------
(***************************************************************************)
(* Proofs about DeviceMem, for every number of ranks and whichever of them *)
(* may fail.  Transfers are under way only between the lock and the unlock *)
(* (Flown), and no rank is more than one collective ahead of the others    *)
(* (NobodyAhead), so that rank 0 and a rank that has failed meet them at   *)
(* known places.                                                           *)
(***************************************************************************)

DTyped ==
    /\ WorldTyped
    /\ pc \in [Rank -> DLabel]
    /\ section \in [Rank -> 1 .. 17]
    /\ flight \in [Rank -> [1 .. 16 -> Flight]]
    /\ held \in [Rank -> SUBSET {"H", "D"}]
    /\ early \in [Rank -> SUBSET (1 .. 16)]

\* Collectives that r has returned from.
DProgress(r) ==
    CASE pc[r] \in {"alloc", "exited", "create1"} -> 0
      [] pc[r] = "create2" -> 1
      [] pc[r] \in {"lock", "start", "flush", "unlock", "barrier"} -> 2
      [] pc[r] \in {"finalize", "done"} -> 3

DPlaced(r) ==
    /\ inside[r] => pc[r] \in DOMAIN DCollectiveAt
    /\ Behind(r, "done") = DProgress(r)

\* Where transfers can be, where an epoch can be open, and where r's loop is.
Flown(r) ==
    /\ pc[r] \notin {"start", "flush", "unlock"} =>
          held[r] = {} /\ \A t \in 1 .. 16 : flight[r][t] \in {"idle", "done"}
    /\ \A t \in 1 .. 16 : flight[r][t] = "sent" => DSections[t].op = "put"
    /\ pc[r] \in {"lock", "start", "flush"} => section[r] \in 1 .. 16
    /\ pc[r] \in {"alloc", "create1", "create2"} => section[r] = 1
    /\ pc[r] = "flush" => flight[r][section[r]] # "idle"
    /\ \A s \in early[r] : DSections[s].flushed # DSections[s].remote

DIInv ==
    /\ DTyped
    /\ NobodyAhead("done")
    /\ \A r \in Rank : DPlaced(r) /\ Flown(r)

-----------------------------------------------------------------------------
\* The last section is one that is measured.
LEMMA SixteenSections == SectionId = 1 .. 16 /\ Len(DSections) = 16 /\ DSections[16].op # "none"
BY DEF SectionId, DSections, Transfer, Disabled

LEMMA DCollectives ==
    /\ DOMAIN DCollectiveAt = {"create1", "create2", "barrier", "finalize"}
    /\ \A l \in DOMAIN DCollectiveAt :
          /\ DCollectiveAt[l] \in CollectiveKind
          /\ l # "finalize" => DCollectiveAt[l] \in Synchronising
BY DEF DCollectiveAt, CollectiveKind, Synchronising, Rooted

\* A step of one rank changes nothing of the others.
LEMMA DOneAtATime ==
    ASSUME DTyped, NEW r \in Rank, DRankStep(r) \/ Transfers(r), NEW s \in Rank, s # r
    PROVE  /\ pc'[s] = pc[s] /\ inside'[s] = inside[s] /\ calls'[s] = calls[s]
           /\ section'[s] = section[s] /\ flight'[s] = flight[s] /\ held'[s] = held[s]
           /\ early'[s] = early[s]
<1>1. CASE AllocSucceeds(r) \/ AllocFails(r)
  BY <1>1 DEF DTyped, WorldTyped, AllocSucceeds, AllocFails, Goto
<1>2. CASE DEnterCollective(r)
  BY <1>2 DEF DTyped, WorldTyped, DEnterCollective, Enter
<1>3. CASE DLeaveCollective(r)
  BY <1>3 DEF DTyped, WorldTyped, DLeaveCollective, Leave, DAdvance, Goto
<1>4. CASE Lock(r) \/ Unlock(r)
  BY <1>4 DEF DTyped, WorldTyped, Lock, Unlock, DAdvance, Goto
<1>5. CASE Start(r)
  BY <1>5 DEF DTyped, WorldTyped, Start, Goto
<1>6. CASE Flush(r)
  BY <1>6 DEF DTyped, WorldTyped, Flush, Goto
<1>7. CASE Transfers(r)
  BY <1>7 DEF DTyped, WorldTyped, Transfers, Send, Complete
<1> QED BY <1>1, <1>2, <1>3, <1>4, <1>5, <1>6, <1>7 DEF DRankStep, SectionStep

\* What holds of a rank stays true as long as others move.
LEMMA DOthersKeep ==
    ASSUME NEW s \in Rank, DPlaced(s), Flown(s),
           pc'[s] = pc[s], inside'[s] = inside[s], calls'[s] = calls[s], section'[s] = section[s],
           flight'[s] = flight[s], held'[s] = held[s], early'[s] = early[s]
    PROVE  DPlaced(s)' /\ Flown(s)'
BY DEF DPlaced, Flown, Behind, DProgress

-----------------------------------------------------------------------------
LEMMA StepAlloc ==
    ASSUME DIInv, NEW r \in Rank, AllocSucceeds(r) \/ AllocFails(r)
    PROVE  DTyped' /\ NobodyAhead("done")' /\ DPlaced(r)' /\ Flown(r)'
<1>0. /\ DTyped /\ DPlaced(r) /\ Flown(r) /\ pc \in [Rank -> DLabel] /\ pc[r] = "alloc"
      /\ Len(calls[r]) \in Nat
      /\ pc' = [pc EXCEPT ![r] = "create1"] \/ pc' = [pc EXCEPT ![r] = "exited"]
      /\ UNCHANGED <<inside, calls, section, flight, held, early>>
  BY DEF DIInv, DTyped, WorldTyped, AllocSucceeds, AllocFails, Goto
<1>1. DTyped'
  <2>1. pc' \in [Rank -> DLabel]
    BY <1>0 DEF DLabel
  <2> QED BY <1>0, <2>1 DEF DTyped, WorldTyped
<1>2. NobodyAhead("done")'
  <2>1. pc[r] # "done" /\ \A s \in Rank : s # r => pc'[s] = pc[s]
    BY <1>0
  <2> QED BY <1>0, <2>1, LocalKeepsTogether DEF DIInv, DTyped
<1>3. ~inside[r]
  BY <1>0, DCollectives DEF DPlaced
<1>4. DPlaced(r)'
  BY <1>0, <1>3 DEF DPlaced, Behind, DProgress
<1>5. Flown(r)'
  BY <1>0 DEF Flown, DTyped
<1> QED BY <1>1, <1>2, <1>4, <1>5

LEMMA DStepEnter ==
    ASSUME DIInv, NEW r \in Rank, DEnterCollective(r)
    PROVE  DTyped' /\ NobodyAhead("done")' /\ DPlaced(r)' /\ Flown(r)'
<1>0. /\ WorldTyped /\ pc[r] \in DOMAIN DCollectiveAt /\ DCollectiveAt[pc[r]] \in CollectiveKind
      /\ Enter(r, DCollectiveAt[pc[r]]) /\ pc[r] # "done"
      /\ UNCHANGED <<pc, section, flight, held, early>>
  BY DCollectives DEF DIInv, DTyped, DEnterCollective
<1>1. /\ WorldTyped' /\ ~inside[r] /\ inside'[r] /\ Len(calls'[r]) = Len(calls[r]) + 1
      /\ Len(calls[r]) \in Nat
  BY <1>0, EnterCounts
<1>2. DTyped'
  BY <1>0, <1>1 DEF DIInv, DTyped
<1>3. NobodyAhead("done")'
  BY <1>0, EnterKeepsTogether DEF DIInv
<1>4. Behind(r, "done")' = Behind(r, "done") /\ DProgress(r)' = DProgress(r)
  BY <1>0, <1>1 DEF Behind, DProgress
<1>5. DPlaced(r)' /\ Flown(r)'
  BY <1>0, <1>4 DEF DIInv, DPlaced, Flown
<1> QED BY <1>2, <1>3, <1>5

LEMMA DStepLeave ==
    ASSUME DIInv, NEW r \in Rank, DLeaveCollective(r)
    PROVE  DTyped' /\ NobodyAhead("done")' /\ DPlaced(r)' /\ Flown(r)'
<1>0. /\ WorldTyped /\ pc[r] \in DOMAIN DCollectiveAt /\ pc \in [Rank -> DLabel]
      /\ Leave(r, DCollectiveAt[pc[r]], 0)
      /\ pc' = [pc EXCEPT ![r] = DProgram(r)[pc[r]]]
      /\ UNCHANGED <<section, flight, held, early>>
  BY DEF DIInv, DTyped, DLeaveCollective, DAdvance, Goto
<1>1. /\ WorldTyped' /\ inside[r] /\ ~inside'[r] /\ calls' = calls /\ Len(calls[r]) \in Nat
  BY <1>0, LeaveCounts
<1>2. \/ pc[r] = "create1" /\ pc'[r] = "create2"
      \/ pc[r] = "create2" /\ pc'[r] \in {"barrier", "lock"}
      \/ pc[r] = "barrier" /\ pc'[r] = "finalize"
      \/ pc[r] = "finalize" /\ pc'[r] = "done"
  BY <1>0, DCollectives DEF DProgram, DSource
<1>3. DTyped'
  <2>1. pc' \in [Rank -> DLabel]
    BY <1>0, <1>2 DEF DLabel
  <2> QED BY <1>0, <1>1, <2>1 DEF DIInv, DTyped
<1>4. NobodyAhead("done")'
  <2>1. DCollectiveAt[pc[r]] \in Synchronising \/ pc'[r] = "done"
    BY <1>2, <1>0, DCollectives
  <2> QED BY <1>0, <2>1, LeaveKeepsTogether DEF DIInv
<1>5. DPlaced(r)'
  <2>1. Behind(r, "done") = DProgress(r) /\ Behind(r, "done") = Len(calls[r]) - 1
    BY <1>1 DEF DIInv, DPlaced, Behind
  <2>2. Behind(r, "done")' = IF pc'[r] = "done" THEN Len(calls[r]) - 1 ELSE Len(calls[r])
    BY <1>1 DEF Behind
  <2>3. DProgress(r)' = IF pc'[r] = "done" THEN DProgress(r) ELSE DProgress(r) + 1
    BY <1>2 DEF DProgress
  <2> QED BY <1>1, <2>1, <2>2, <2>3 DEF DPlaced
<1>6. Flown(r)'
  <2>1. /\ Flown(r) /\ section'[r] = section[r] /\ flight'[r] = flight[r] /\ held'[r] = held[r]
        /\ early'[r] = early[r]
    BY <1>0 DEF DIInv
  <2> QED BY <1>2, <2>1 DEF Flown
<1> QED BY <1>3, <1>4, <1>5, <1>6

\* The steps between two collectives, which keep the place of r among them.
LEMMA DStepWithin ==
    ASSUME DTyped, NobodyAhead("done"), NEW r \in Rank, DPlaced(r), UNCHANGED <<inside, calls>>,
           pc[r] \in {"lock", "start", "flush", "unlock"},
           \E l \in {"lock", "start", "flush", "unlock", "barrier"} : pc' = [pc EXCEPT ![r] = l]
    PROVE  WorldTyped' /\ pc' \in [Rank -> DLabel] /\ NobodyAhead("done")' /\ DPlaced(r)'
<1>0. /\ pc \in [Rank -> DLabel] /\ Len(calls[r]) \in Nat /\ WorldTyped
  BY DEF DTyped, WorldTyped
<1>1. WorldTyped' /\ pc' \in [Rank -> DLabel]
  BY <1>0 DEF DTyped, WorldTyped, DLabel
<1>2. /\ pc[r] # "done" /\ \A s \in Rank : s # r => pc'[s] = pc[s]
      /\ pc'[r] \in {"lock", "start", "flush", "unlock", "barrier"}
  BY <1>0
<1>3. NobodyAhead("done")'
  BY <1>0, <1>2, LocalKeepsTogether
<1>4. ~inside[r] /\ inside'[r] = inside[r] /\ calls'[r] = calls[r]
  BY DCollectives DEF DPlaced
<1>5. Behind(r, "done")' = Behind(r, "done") /\ DProgress(r)' = DProgress(r)
  BY <1>0, <1>2, <1>4 DEF Behind, DProgress
<1>6. DPlaced(r)'
  BY <1>4, <1>5 DEF DPlaced
<1> QED BY <1>1, <1>3, <1>6

LEMMA StepSection ==
    ASSUME DIInv, NEW r \in Rank, SectionStep(r)
    PROVE  DTyped' /\ NobodyAhead("done")' /\ DPlaced(r)' /\ Flown(r)'
<1>0. /\ DTyped /\ DPlaced(r) /\ Flown(r) /\ pc \in [Rank -> DLabel] /\ NobodyAhead("done")
      /\ section \in [Rank -> 1 .. 17] /\ flight \in [Rank -> [1 .. 16 -> Flight]]
      /\ held \in [Rank -> SUBSET {"H", "D"}] /\ early \in [Rank -> SUBSET (1 .. 16)]
  BY DEF DIInv, DTyped
<1>1. CASE Lock(r)
  <2>1. /\ pc[r] = "lock" /\ pc' = [pc EXCEPT ![r] = "start"]
        /\ held' = [held EXCEPT ![r] = {"H", "D"}]
        /\ UNCHANGED <<inside, calls, section, flight, early>>
    BY <1>1 DEF Lock, DAdvance, Goto, DProgram, DSource
  <2>2. WorldTyped' /\ pc' \in [Rank -> DLabel] /\ NobodyAhead("done")' /\ DPlaced(r)'
    BY <1>0, <2>1, DStepWithin
  <2>3. DTyped'
    BY <1>0, <2>1, <2>2 DEF DTyped
  <2>4. Flown(r)'
    BY <1>0, <2>1 DEF Flown
  <2> QED BY <2>2, <2>3, <2>4
<1>2. CASE Start(r)
  <2>1. CASE DSections[section[r]].op = "none"
    <3>1. /\ pc[r] = "start" /\ section' = [section EXCEPT ![r] = @ + 1]
          /\ UNCHANGED <<pc, flight, inside, calls, held, early>>
      BY <1>2, <2>1 DEF Start
    <3>2. pc' = [pc EXCEPT ![r] = "start"]
      BY <1>0, <3>1
    <3>3. WorldTyped' /\ pc' \in [Rank -> DLabel] /\ NobodyAhead("done")' /\ DPlaced(r)'
      BY <1>0, <3>1, <3>2, DStepWithin
    <3>4. section[r] \in 1 .. 16 /\ section[r] # 16
      BY <1>0, <3>1, <2>1, SixteenSections DEF Flown
    <3>5. section'[r] \in 1 .. 16 /\ section' \in [Rank -> 1 .. 17]
      BY <1>0, <3>1, <3>4
    <3>6. DTyped'
      BY <1>0, <3>1, <3>3, <3>5 DEF DTyped
    <3>7. Flown(r)'
      BY <1>0, <3>1, <3>5 DEF Flown
    <3> QED BY <3>3, <3>6, <3>7
  <2>2. CASE DSections[section[r]].op # "none"
    <3>1. /\ pc[r] = "start" /\ pc' = [pc EXCEPT ![r] = "flush"]
          /\ flight' = [flight EXCEPT ![r][section[r]] = "issued"]
          /\ UNCHANGED <<section, inside, calls, held, early>>
      BY <1>2, <2>2 DEF Start, Goto
    <3>2. WorldTyped' /\ pc' \in [Rank -> DLabel] /\ NobodyAhead("done")' /\ DPlaced(r)'
      BY <1>0, <3>1, DStepWithin
    <3>3. section[r] \in 1 .. 16
      BY <1>0, <3>1 DEF Flown
    <3>4. flight' \in [Rank -> [1 .. 16 -> Flight]]
      BY <1>0, <3>1, <3>3 DEF Flight
    <3>5. DTyped'
      BY <1>0, <3>1, <3>2, <3>4 DEF DTyped
    <3>6. Flown(r)'
      BY <1>0, <3>1, <3>3 DEF Flown
    <3> QED BY <3>2, <3>5, <3>6
  <2> QED BY <2>1, <2>2
<1>3. CASE Flush(r)
  <2>1. /\ pc[r] = "flush" /\ section' = [section EXCEPT ![r] = @ + 1]
        /\ UNCHANGED <<inside, calls, flight, held>>
        /\ early' = [early EXCEPT ![r] =
                        IF flight[r][section[r]] # "done" THEN @ \cup {section[r]} ELSE @]
        /\ pc' = [pc EXCEPT ![r] = IF section[r] = 16 THEN "unlock" ELSE "start"]
        /\ \A t \in 1 .. 16 : DSections[t].remote = DSections[section[r]].flushed =>
              flight[r][t] \in Enough(DSections[section[r]].op)
    BY <1>3, SixteenSections DEF Flush, Goto, AfterSection
  <2>2. WorldTyped' /\ pc' \in [Rank -> DLabel] /\ NobodyAhead("done")' /\ DPlaced(r)'
    BY <1>0, <2>1, DStepWithin
  <2>3. section[r] \in 1 .. 16 /\ flight[r][section[r]] \in Flight
    BY <1>0, <2>1 DEF Flown
  <2>4. section' \in [Rank -> 1 .. 17] /\ early' \in [Rank -> SUBSET (1 .. 16)]
    <3>1. section[r] + 1 \in 1 .. 17 /\ early[r] \cup {section[r]} \in SUBSET (1 .. 16)
      BY <1>0, <2>3
    <3> QED BY <1>0, <2>1, <3>1
  <2>5. DTyped'
    BY <1>0, <2>1, <2>2, <2>4 DEF DTyped
  <2>6. flight[r][section[r]] # "done" => DSections[section[r]].flushed # DSections[section[r]].remote
    BY <1>0, <2>1, <2>3 DEF Flown, Enough, Flight
  <2>7. \A s \in early'[r] : DSections[s].flushed # DSections[s].remote
    BY <1>0, <2>1, <2>6 DEF Flown
  <2>8. /\ pc'[r] \in {"start", "unlock"} /\ flight'[r] = flight[r]
        /\ pc'[r] = "start" => section'[r] \in 1 .. 16
    BY <1>0, <2>1, <2>3
  <2>9. Flown(r)'
    BY <1>0, <2>7, <2>8 DEF Flown
  <2> QED BY <2>2, <2>5, <2>9
<1>4. CASE Unlock(r)
  <2>1. /\ pc[r] = "unlock" /\ pc' = [pc EXCEPT ![r] = "barrier"]
        /\ held' = [held EXCEPT ![r] = {}]
        /\ UNCHANGED <<inside, calls, section, flight, early>>
        /\ \A t \in 1 .. 16 : flight[r][t] \in {"idle", "done"}
    BY <1>4, SixteenSections DEF Unlock, DAdvance, Goto, DProgram, DSource
  <2>2. WorldTyped' /\ pc' \in [Rank -> DLabel] /\ NobodyAhead("done")' /\ DPlaced(r)'
    BY <1>0, <2>1, DStepWithin
  <2>3. DTyped'
    BY <1>0, <2>1, <2>2 DEF DTyped
  <2>4. Flown(r)'
    BY <1>0, <2>1 DEF Flown
  <2> QED BY <2>2, <2>3, <2>4
<1> QED BY <1>1, <1>2, <1>3, <1>4 DEF SectionStep

LEMMA StepTransfers ==
    ASSUME DIInv, NEW r \in Rank, Transfers(r)
    PROVE  DTyped' /\ NobodyAhead("done")' /\ DPlaced(r)' /\ Flown(r)'
<1>0. /\ DTyped /\ DPlaced(r) /\ Flown(r) /\ flight \in [Rank -> [1 .. 16 -> Flight]]
      /\ UNCHANGED <<pc, inside, calls, section, held, early>>
  BY DEF DIInv, DTyped, Transfers, Send, Complete
<1>1. PICK t \in 1 .. 16 : Send(r, t) \/ Complete(r, t)
  BY SixteenSections DEF Transfers
<1>2. /\ flight[r][t] \in {"issued", "sent"}
      /\ \/ flight' = [flight EXCEPT ![r][t] = "sent"] /\ DSections[t].op = "put"
         \/ flight' = [flight EXCEPT ![r][t] = "done"]
  BY <1>1 DEF Send, Complete
<1>3. DTyped'
  <2>1. flight' \in [Rank -> [1 .. 16 -> Flight]]
    BY <1>0, <1>2 DEF Flight
  <2> QED BY <1>0, <2>1 DEF DTyped, WorldTyped
<1>4. NobodyAhead("done")' /\ DPlaced(r)'
  BY <1>0 DEF DIInv, NobodyAhead, DPlaced, Behind, DProgress
<1>5. Flown(r)'
  <2>1. pc[r] \in {"start", "flush", "unlock"}
    BY <1>0, <1>2 DEF Flown
  <2> QED BY <1>0, <1>2, <2>1 DEF Flown
<1> QED BY <1>3, <1>4, <1>5

-----------------------------------------------------------------------------
LEMMA DInvariance == DSpec => []DIInv
<1>1. DInit => DIInv
  <2> SUFFICES ASSUME DInit PROVE DIInv
    OBVIOUS
  <2>1. DTyped
    <3>1. SectionId = 1 .. 16
      BY SixteenSections
    <3>2. calls \in [Rank -> Seq(CollectiveKind)]
      BY DEF DInit
    <3>3. flight \in [Rank -> [1 .. 16 -> Flight]]
      BY <3>1 DEF DInit, Flight
    <3>4. section \in [Rank -> 1 .. 17] /\ pc \in [Rank -> DLabel]
      BY DEF DInit, DLabel
    <3> QED BY <3>2, <3>3, <3>4 DEF DInit, DTyped, WorldTyped
  <2>2. NobodyAhead("done")
    BY DEF DInit, NobodyAhead, Behind
  <2>3. ASSUME NEW r \in Rank PROVE DPlaced(r) /\ Flown(r)
    BY SixteenSections DEF DInit, DPlaced, Flown, Behind, DProgress
  <2> QED BY <2>1, <2>2, <2>3 DEF DIInv
<1>2. DIInv /\ [DNext]_dvars => DIInv'
  <2> SUFFICES ASSUME DIInv, [DNext]_dvars PROVE DIInv'
    OBVIOUS
  <2>1. ASSUME NEW r \in Rank, DRankStep(r) \/ Transfers(r) PROVE DIInv'
    <3>1. DTyped' /\ NobodyAhead("done")' /\ DPlaced(r)' /\ Flown(r)'
      BY <2>1, StepAlloc, DStepEnter, DStepLeave, StepSection, StepTransfers DEF DRankStep
    <3>2. ASSUME NEW s \in Rank, s # r PROVE DPlaced(s)' /\ Flown(s)'
      BY <2>1, <3>2, DOneAtATime, DOthersKeep DEF DIInv
    <3> QED BY <3>1, <3>2 DEF DIInv
  <2>2. CASE UNCHANGED dvars
    <3>1. UNCHANGED <<pc, inside, calls, section, flight, held, early>>
      BY <2>2 DEF dvars
    <3>2. DTyped' /\ NobodyAhead("done")'
      BY <3>1 DEF DIInv, DTyped, WorldTyped, NobodyAhead, Behind
    <3>3. ASSUME NEW r \in Rank PROVE DPlaced(r)' /\ Flown(r)'
      BY <3>1, DOthersKeep DEF DIInv
    <3> QED BY <3>2, <3>3 DEF DIInv
  <2> QED BY <2>1, <2>2 DEF DNext, DFinished
<1> QED BY <1>1, <1>2, PTL DEF DSpec

\* The variables have their types.
THEOREM DTypeCorrect == DSpec => []DTypeOK
<1>1. DIInv => DTypeOK
  BY SixteenSections DEF DIInv, DTyped, WorldTyped, DTypeOK, Flown
<1> QED BY <1>1, DInvariance, PTL

\* main.c:129, 146, 216: only the lines of the sections that flush the wrong
\* window can come before their last transfer, with any number of ranks.
THEOREM OthersMeasureInFull == DSpec => []OnlyMisflushedEarly
<1>1. DIInv => OnlyMisflushedEarly
  BY DEF DIInv, Flown, OnlyMisflushedEarly
<1> QED BY <1>1, DInvariance, PTL

\* main.c:70, 219-227: rank 0 never leaves while a transfer is under way or an
\* epoch on its memory open.
THEOREM TargetStays == DSpec => []TargetLeavesLast
<1>1. DIInv => TargetLeavesLast
  <2> SUFFICES ASSUME DIInv, pc[0] \in {"finalize", "done"}, NEW r \in Rank
               PROVE  held[r] = {} /\ \A t \in SectionId : flight[r][t] \in {"idle", "done"}
    BY DEF TargetLeavesLast
  <2>1. /\ 0 \in Rank /\ DPlaced(0) /\ DPlaced(r) /\ Flown(r) /\ pc[r] \in DLabel
        /\ Len(calls[r]) \in Nat
    BY SizeAssumption DEF DIInv, DTyped, WorldTyped, Rank
  <2>2. Behind(0, "done") = 3
    BY <2>1 DEF DPlaced, DProgress
  <2>3. Len(calls[r]) >= 3
    BY <2>1, <2>2 DEF DIInv, NobodyAhead
  <2>4. ASSUME pc[r] \in {"start", "flush", "unlock"} PROVE FALSE
    <3>1. ~inside[r] /\ DProgress(r) = 2
      BY <2>1, <2>4, DCollectives DEF DPlaced, DProgress
    <3>2. Behind(r, "done") = Len(calls[r])
      BY <2>4, <3>1 DEF Behind
    <3> QED BY <2>1, <2>3, <3>1, <3>2 DEF DPlaced
  <2> QED BY <2>1, <2>4, SixteenSections DEF Flown
<1> QED BY <1>1, DInvariance, PTL

\* main.c:57-65: where one rank has given up no other one measures anything.
THEOREM NobodyMeasuresAlone == DSpec => []NoHalfResults
<1>1. DIInv => NoHalfResults
  <2> SUFFICES ASSUME DIInv, NEW s \in Rank, pc[s] = "exited",
                      NEW r \in Rank, pc[r] \in {"start", "flush"}
               PROVE  FALSE
    BY DEF NoHalfResults, SomeoneExited
  <2>1. DPlaced(r) /\ DPlaced(s) /\ Len(calls[s]) \in Nat
    BY DEF DIInv, DTyped, WorldTyped
  <2>2. Behind(r, "done") = 2
    BY <2>1 DEF DPlaced, DProgress
  <2>3. ~inside[s] /\ DProgress(s) = 0
    BY <2>1, DCollectives DEF DPlaced, DProgress
  <2>4. Len(calls[s]) = 0
    BY <2>1, <2>3 DEF DPlaced, Behind
  <2> QED BY <2>2, <2>4 DEF DIInv, NobodyAhead
<1> QED BY <1>1, DInvariance, PTL
=============================================================================
