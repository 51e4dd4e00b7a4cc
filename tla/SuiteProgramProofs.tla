------------------------- MODULE SuiteProgramProofs -------------------------
(***************************************************************************)
(* The programs of the benchmarks, for every number of sizes, windows,     *)
(* iterations and warm-up rounds.  A program is a sequence of calls, put   *)
(* together with FlattenSeq; it is shown to be a walk through states in    *)
(* which each call is allowed, and what the clock counts on the way is     *)
(* computed along with it.  The lemma ProgramMeasures says so of every     *)
(* benchmark.  The last sections begin the proof that the programs of two  *)
(* ranks fit, which BenchmarkSuiteProofs ends.                             *)
(*                                                                         *)
(* A sequence of calls takes what an actor knows of itself from x to y,    *)
(* and                                                                     *)
(*   Counts(r, s, x, y, n)    counts n transfers while the clock runs,     *)
(*   Measures(r, s, x, y, n)  adds n transfers to the total of the clock,  *)
(*   Runs, Halts, Begins      starts the clock, or starts and stops it.    *)
(***************************************************************************)
EXTENDS BenchmarkSuite, SequenceTheorems, FiniteSetTheorems, TLAPS

-----------------------------------------------------------------------------
(* Lists of sequences, as FlattenSeq puts them together. *)

\* Induction on the naturals, for a set that is given and not defined by a
\* formula.
LEMMA Naturals0 ==
    ASSUME NEW S, 0 \in S, \A n \in Nat : n \in S => n + 1 \in S
    PROVE  Nat \subseteq S
<1> SUFFICES ASSUME NEW n \in Nat, n \notin S PROVE FALSE
  OBVIOUS
<1> DEFINE T == {m \in 0 .. n : m \in S}
           f == [m \in T |-> m + 1]
<1>1. IsFiniteSet(T) /\ Cardinality(T) \in Nat
  <2>1. IsFiniteSet(0 .. n)
    BY FS_Interval
  <2>2. T \in SUBSET (0 .. n)
    OBVIOUS
  <2> HIDE DEF T
  <2> QED BY <2>1, <2>2, FS_Subset, FS_CardinalityType
<1>2. IsFiniteSet(T \ {0}) /\ Cardinality(T \ {0}) = Cardinality(T) - 1
  <2>1. 0 \in T
    OBVIOUS
  <2> QED BY <1>1, <2>1, FS_RemoveElement
<1>3. f \in Injection(T, T \ {0})
  <2>1. ASSUME NEW m \in T PROVE m + 1 \in T \ {0}
    <3>1. m # n
      OBVIOUS
    <3> QED BY <3>1
  <2>2. f \in [T -> T \ {0}]
    BY <2>1
  <2>3. \A x, y \in T : f[x] = f[y] => x = y
    OBVIOUS
  <2> QED BY <2>2, <2>3 DEF Injection, IsInjective
<1>4. Cardinality(T) <= Cardinality(T \ {0})
  <2> HIDE DEF T, f
  <2> QED BY <1>2, <1>3, FS_Injection
<1> HIDE DEF T
<1> QED BY <1>1, <1>2, <1>4


Flat(ss, g, n) ==
    g = [k \in 1 .. n |-> IF k = 1 THEN ss[k] ELSE g[k - 1] \o ss[k]]

\* A list of sequences that is put together up to m can be put together up to m
\* + 1.
LEMMA FlattenGrows ==
    ASSUME NEW ss, NEW m \in Nat, NEW g, Flat(ss, g, m)
    PROVE  \E h : Flat(ss, h, m + 1)
<1> DEFINE h == [k \in 1 .. m + 1 |->
                    IF k = m + 1 THEN IF k = 1 THEN ss[k] ELSE g[k - 1] \o ss[k] ELSE g[k]]
<1>1. ASSUME NEW k \in 1 .. m + 1
      PROVE  h[k] = IF k = 1 THEN ss[k] ELSE h[k - 1] \o ss[k]
  <2>1. CASE k = m + 1
    <3>1. k # 1 => k - 1 \in 1 .. m /\ h[k - 1] = g[k - 1]
      BY <2>1
    <3> QED BY <2>1, <3>1
  <2>2. CASE k # m + 1
    <3>1. k \in 1 .. m /\ h[k] = g[k]
      BY <2>2
    <3>2. k # 1 => k - 1 \in 1 .. m /\ h[k - 1] = g[k - 1]
      BY <2>2
    <3>3. g[k] = IF k = 1 THEN ss[k] ELSE g[k - 1] \o ss[k]
      BY <3>1 DEF Flat
    <3> QED BY <3>1, <3>2, <3>3
  <2> QED BY <2>1, <2>2
<1>2. h = [k \in 1 .. m + 1 |-> h[k]]
  OBVIOUS
<1>3. Flat(ss, h, m + 1)
  <2> HIDE DEF h
  <2> QED BY <1>1, <1>2, Zenon DEF Flat
<1> HIDE DEF h
<1> QED BY <1>3

\* FlattenSeq puts a list together one sequence after the other.
LEMMA FlattenDefined ==
    ASSUME NEW Z, NEW ss \in Seq(Z), Len(ss) # 0
    PROVE  \E g : /\ g[1] = ss[1]
                  /\ \A k \in 2 .. Len(ss) : g[k] = g[k - 1] \o ss[k]
                  /\ FlattenSeq(ss) = g[Len(ss)]
<1> DEFINE n == Len(ss)
           S == {m \in Nat : \E g : Flat(ss, g, m)}
           F == CHOOSE g : Flat(ss, g, n)
<1>0. n \in Nat
  OBVIOUS
<1>1. 0 \in S
  <2> DEFINE g == [k \in 1 .. 0 |-> 0]
  <2>1. Flat(ss, g, 0)
    BY DEF Flat
  <2> HIDE DEF g
  <2> QED BY <2>1
<1>2. ASSUME NEW m \in Nat, m \in S PROVE m + 1 \in S
  BY <1>2, FlattenGrows
<1>3. n \in S
  <2> HIDE DEF S, n
  <2> QED BY <1>0, <1>1, <1>2, Naturals0
<1>5. Flat(ss, F, n)
  BY <1>3
<1>6. FlattenSeq(ss) = F[n]
  BY Zenon DEF FlattenSeq, Flat
<1>7. F[1] = ss[1] /\ \A k \in 2 .. n : F[k] = F[k - 1] \o ss[k]
  <2>1. ASSUME NEW g, Flat(ss, g, n), NEW k \in 1 .. n
        PROVE  g[k] = IF k = 1 THEN ss[k] ELSE g[k - 1] \o ss[k]
    BY <2>1 DEF Flat
  <2> HIDE DEF F, S
  <2>2. 1 \in 1 .. n /\ \A k \in 2 .. n : k \in 1 .. n /\ k # 1
    BY <1>0
  <2> HIDE DEF n
  <2> QED BY <1>5, <2>1, <2>2
<1> HIDE DEF F
<1> QED BY <1>6, <1>7

\* What holds before a list of sequences and is carried through each of them
\* holds after it.
LEMMA FlattenRule ==
    ASSUME NEW C, NEW ss \in Seq(Seq(C)), NEW Q,
           <<>> \in Q[0],
           \A k \in 1 .. Len(ss) : \A s \in Q[k - 1] : s \o ss[k] \in Q[k]
    PROVE  FlattenSeq(ss) \in Q[Len(ss)]
<1> DEFINE n == Len(ss)
<1>0. n \in Nat
  OBVIOUS
<1>1. CASE n = 0
  <2>1. FlattenSeq(ss) = ss /\ ss = <<>>
    BY <1>1, Zenon, EmptySeq DEF FlattenSeq
  <2> QED BY <1>1, <2>1
<1>2. CASE n # 0
  <2>1. PICK g : /\ g[1] = ss[1]
                 /\ \A k \in 2 .. n : g[k] = g[k - 1] \o ss[k]
                 /\ FlattenSeq(ss) = g[n]
    BY <1>2, FlattenDefined
  <2>2. ASSUME NEW m \in Nat, m \in 1 .. n => g[m] \in Q[m], m + 1 \in 1 .. n
        PROVE  g[m + 1] \in Q[m + 1]
    <3>1. \A s \in Q[m] : s \o ss[m + 1] \in Q[m + 1]
      <4> DEFINE k == m + 1
      <4>1. k \in 1 .. n /\ k - 1 = m
        BY <2>2
      <4>2. \A s \in Q[k - 1] : s \o ss[k] \in Q[k]
        <5> HIDE DEF k
        <5> QED BY <4>1
      <4> QED BY <4>1, <4>2
    <3>2. CASE m = 0
      <4>1. ss[1] \in Seq(C) /\ <<>> \o ss[1] = ss[1]
        BY <1>0, <1>2, ConcatEmptySeq
      <4>2. <<>> \in Q[m] /\ m + 1 = 1
        BY <3>2
      <4>3. <<>> \o ss[m + 1] \in Q[m + 1]
        BY <3>1, <4>2
      <4> QED BY <2>1, <4>1, <4>2, <4>3
    <3>3. CASE m # 0
      <4>1. m \in 1 .. n /\ m + 1 \in 2 .. n /\ m = (m + 1) - 1
        BY <1>0, <2>2, <3>3
      <4>2. g[m + 1] = g[m] \o ss[m + 1]
        BY <2>1, <4>1
      <4> QED BY <2>2, <3>1, <4>1, <4>2
    <3> QED BY <3>2, <3>3
  <2> DEFINE S == {m \in Nat : m \in 1 .. n => g[m] \in Q[m]}
  <2>3. 0 \in S
    OBVIOUS
  <2>4. \A m \in Nat : m \in S => m + 1 \in S
    BY <2>2
  <2>5. n \in S
    <3> HIDE DEF S, n
    <3> QED BY <1>0, <2>3, <2>4, Naturals0
  <2> QED BY <1>0, <1>2, <2>1, <2>5
<1> QED BY <1>1, <1>2

\* The elements of a list of sequences are those of the sequences.
LEMMA FlattenIn ==
    ASSUME NEW H, NEW ss \in Seq(Seq(H))
    PROVE  FlattenSeq(ss) \in Seq(H)
<1> DEFINE Q == [k \in 0 .. Len(ss) |-> Seq(H)]
<1>1. <<>> \in Q[0]
  OBVIOUS
<1>2. \A k \in 1 .. Len(ss) : \A s \in Q[k - 1] : s \o ss[k] \in Q[k]
  <2> SUFFICES ASSUME NEW k \in 1 .. Len(ss), NEW s \in Q[k - 1] PROVE s \o ss[k] \in Q[k]
    OBVIOUS
  <2>1. Q[k - 1] = Seq(H) /\ Q[k] = Seq(H)
    OBVIOUS
  <2>2. ss[k] \in Seq(H)
    OBVIOUS
  <2> HIDE DEF Q
  <2> QED BY <2>1, <2>2, ConcatProperties
<1>3. Q[Len(ss)] = Seq(H)
  OBVIOUS
<1> HIDE DEF Q
<1> QED BY <1>1, <1>2, <1>3, FlattenRule

-----------------------------------------------------------------------------
(* A walk: a way through states that a sequence of calls can take. *)

CollectiveKinds == {"all", "sum_errors", "barrier", "sync", "fence", "neighbours",
                    "from_root", "to_root"}

Tags == {"ping", "pong", "flag", "998", "100", "101", "10", "1", ""}

PSyncArrays == {"psync", "psync1", "psync2", "pSyncBarrier1", "pSyncBarrier2", "pSyncBcast1",
                "pSyncBcast2", "pSyncCollect1", "pSyncCollect2", "pSyncRed1", "pSyncRed2"}

Forms == {"plain", "in_place", "persistent"} \cup PSyncArrays

CollectiveTypes == {"all_gather", "all_reduce", "alltoall", "barrier", "bcast", "gather",
                    "reduce", "reduce_scatter", "scatter", "nhbr_gather", "nhbr_alltoall"}

Plain == {"leave", "start", "stop", "sample", "check", "clear", "break", "report",
          "free", "post", "touch", "meet"}

Calls ==
    [op : {"isend", "irecv"}, peer : Nat, tag : Tags, size : Nat]
        \cup [op : {"wait"}, kind : {"isend", "irecv"}]
        \cup [op : {"enter"}, kind : CollectiveKinds, root : Nat, data : SUBSET Nat, form : Forms]
        \cup [op : Plain]
        \cup [op : {"fill"}, stamp : 0 .. Skip + Iters - 1]
        \cup [op : {"elect"}, else : Nat]
        \cup [op : {"in_place"}, type : CollectiveTypes, root : Nat]
        \cup [op : {"init"}, kind : CollectiveKinds, root : Nat]
        \cup [op : {"rma"}, peer : Nat, fetch : BOOLEAN, within : BOOLEAN]
        \cup [op : {"flush"}, which : {"all", "fetched"}]
        \cup [op : {"open", "close"}, kind : {"lock", "start"}]
        \cup [op : {"await"}, peer : Nat]

Trace(M, s, f) ==
    \A k \in 1 .. Len(s) :
        /\ <<s[k], f[k - 1], f[k]>> \in M
        /\ s[k].op = "elect" => k + s[k].else <= Len(s) /\ f[k + s[k].else] = f[k - 1]

Walk(M, s, x, y) ==
    /\ s \in Seq(Calls)
    /\ \E f : f[0] = x /\ f[Len(s)] = y /\ Trace(M, s, f)

\* No call leads from a state to itself.
LEMMA WalkNowhere == ASSUME NEW M, NEW x PROVE Walk(M, <<>>, x, x)
<1>1. Trace(M, <<>>, [k \in {0} |-> x])
  BY DEF Trace
<1> QED BY <1>1 DEF Walk

\* One call.
LEMMA WalkOne ==
    ASSUME NEW M, NEW x, NEW y, NEW c \in Calls, c.op # "elect", <<c, x, y>> \in M
    PROVE  Walk(M, <<c>>, x, y)
<1> DEFINE f == [k \in {0, 1} |-> IF k = 0 THEN x ELSE y]
<1>1. Trace(M, <<c>>, f)
  BY DEF Trace
<1>2. f[0] = x /\ f[Len(<<c>>)] = y
  OBVIOUS
<1> HIDE DEF f
<1> QED BY <1>1, <1>2 DEF Walk

\* One sequence of calls after the other.
LEMMA WalkOn ==
    ASSUME NEW M, NEW x, NEW y, NEW z, NEW s, NEW t,
           Walk(M, s, x, y), Walk(M, t, y, z)
    PROVE  Walk(M, s \o t, x, z)
<1> DEFINE m == Len(s)
           n == Len(t)
<1>0. \A c \in Calls : c.op = "elect" => c.else \in Nat
  BY DEF Calls, Plain
<1>1. s \in Seq(Calls) /\ t \in Seq(Calls) /\ m \in Nat /\ n \in Nat
  BY DEF Walk
<1>2. /\ s \o t \in Seq(Calls)
      /\ Len(s \o t) = m + n
      /\ \A k \in 1 .. m + n : (s \o t)[k] = IF k <= m THEN s[k] ELSE t[k - m]
  BY <1>1, ConcatProperties
<1>3. PICK f : f[0] = x /\ f[m] = y /\ Trace(M, s, f)
  BY DEF Walk
<1>4. PICK g : g[0] = y /\ g[n] = z /\ Trace(M, t, g)
  BY DEF Walk
<1> DEFINE h == [k \in 0 .. m + n |-> IF k <= m THEN f[k] ELSE g[k - m]]
<1>5. h[0] = x /\ h[m + n] = z
  BY <1>1, <1>3, <1>4
<1>6. Trace(M, s \o t, h)
  <2> SUFFICES ASSUME NEW k \in 1 .. m + n
               PROVE  /\ <<(s \o t)[k], h[k - 1], h[k]>> \in M
                      /\ (s \o t)[k].op = "elect" =>
                            /\ k + (s \o t)[k].else <= m + n
                            /\ h[k + (s \o t)[k].else] = h[k - 1]
    BY <1>2 DEF Trace
  <2>1. CASE k <= m
    <3>1. k \in 1 .. m /\ (s \o t)[k] = s[k] /\ s[k] \in Calls
      BY <1>1, <1>2, <2>1
    <3>2. h[k - 1] = f[k - 1] /\ h[k] = f[k]
      BY <1>1, <2>1
    <3>3. /\ <<s[k], f[k - 1], f[k]>> \in M
          /\ s[k].op = "elect" => k + s[k].else <= m /\ f[k + s[k].else] = f[k - 1]
      BY <1>3, <3>1 DEF Trace
    <3>4. s[k].op = "elect" => h[k + s[k].else] = f[k + s[k].else]
      BY <1>0, <1>1, <3>1, <3>3
    <3>5. s[k].op = "elect" => k + s[k].else <= m + n
      BY <1>0, <1>1, <3>1, <3>3
    <3> HIDE DEF h
    <3> QED BY <3>1, <3>2, <3>3, <3>4, <3>5
  <2>2. CASE k > m
    <3>1. k - m \in 1 .. n /\ (s \o t)[k] = t[k - m] /\ t[k - m] \in Calls
      BY <1>1, <1>2, <2>2
    <3>2. h[k - 1] = g[(k - m) - 1] /\ h[k] = g[k - m]
      <4>1. h[k] = g[k - m]
        BY <1>1, <2>2
      <4>2. CASE k = m + 1
        BY <1>1, <1>3, <1>4, <4>2
      <4>3. CASE k # m + 1
        BY <1>1, <2>2, <4>3
      <4> QED BY <4>1, <4>2, <4>3
    <3>3. /\ <<t[k - m], g[(k - m) - 1], g[k - m]>> \in M
          /\ t[k - m].op = "elect" =>
                (k - m) + t[k - m].else <= n /\ g[(k - m) + t[k - m].else] = g[(k - m) - 1]
      BY <1>4, <3>1 DEF Trace
    <3>4. t[k - m].op = "elect" => h[k + t[k - m].else] = g[(k - m) + t[k - m].else]
      <4> SUFFICES ASSUME t[k - m].op = "elect"
                   PROVE  h[k + t[k - m].else] = g[(k - m) + t[k - m].else]
        OBVIOUS
      <4>1. t[k - m].else \in Nat
        BY <1>0, <3>1
      <4>2. k + t[k - m].else \in m + 1 .. m + n
        BY <1>1, <2>2, <3>3, <4>1
      <4>3. (k + t[k - m].else) - m = (k - m) + t[k - m].else
        BY <1>1, <4>1
      <4> QED BY <1>1, <4>2, <4>3
    <3>5. t[k - m].op = "elect" => k + t[k - m].else <= m + n
      BY <1>0, <1>1, <3>1, <3>3
    <3> HIDE DEF h
    <3> QED BY <3>1, <3>2, <3>3, <3>4, <3>5
  <2>3. k <= m \/ k > m
    BY <1>1
  <2> HIDE DEF h, m, n
  <2> QED BY <2>1, <2>2, <2>3
<1> HIDE DEF h
<1> QED BY <1>2, <1>5, <1>6 DEF Walk

-----------------------------------------------------------------------------
(* What an actor knows of itself, and which call may come when. *)

Buffers == [send : {"buffer", "in_place"}, recv : {"buffer", "in_place"}]

\* What an actor can tell of itself: the epoch, the active buffers and the
\* request of its rank, and whether it is in a collective operation, or has been
\* chosen to call one.  strict: its calls are to be legal; alone: no other thread
\* of its rank calls anything; last: its program ends with its exit code;
\* arrays: its collective operations may take pSync arrays.
Locals ==
    [access : {"open", "closed", "lock", "start", "fence"},
     active : Buffers,
     request : [kind : {"none"}] \cup [kind : CollectiveKinds, root : Nat, active : Buffers],
     phase : {"out", "chosen", "in"},
     strict : BOOLEAN, alone : BOOLEAN, last : BOOLEAN, arrays : BOOLEAN]

Outside == {x \in Locals : x.phase = "out"}
Alone   == {x \in Outside : x.alone}

\* A clock of which it is known what it has counted since it was started.
Clocks == [running : BOOLEAN, known : BOOLEAN, burst : Nat, total : Nat]

Idle(t)       == [running |-> FALSE, known |-> FALSE, burst |-> 0, total |-> t]
Running(b, t) == [running |-> TRUE, known |-> TRUE, burst |-> b, total |-> t]
Stopped(b, t) == [running |-> FALSE, known |-> TRUE, burst |-> b, total |-> t]

Plus(p, n) == IF p.running THEN [running |-> p.running, known |-> p.known,
                                 burst |-> p.burst + n, total |-> p.total]
              ELSE p

IsCounted(c) ==
    \/ c.op \in {"isend", "irecv"} /\ c.size # ReplySize
    \/ c.op = "enter" /\ c.kind \notin {"sync", "fence"}
    \/ c.op = "rma"

ClockMove(c, p, q) ==
    /\ c.op = "start"  => q = Running(0, p.total)
    /\ c.op = "stop"   => q = Idle(p.total) \/ (p.known /\ q = Stopped(p.burst, p.total))
    /\ c.op = "sample" => p.known /\ ~p.running /\ q = Idle(p.total + p.burst)
    /\ c.op \notin {"start", "stop", "sample"} => q = IF IsCounted(c) THEN Plus(p, 1) ELSE p

MayEnter(r, c, x) ==
    /\ c.form = "plain" /\ c.kind = "fence" => x.access \in {"closed", "fence"}
    /\ c.form = "in_place" => LegalInPlace(c.kind, c.root, r, x.active)
    /\ c.form = "persistent" =>
          /\ x.request.kind # "none"
          /\ LegalInPlace(x.request.kind, x.request.root, r, x.request.active)

LegalMove(r, c, x) ==
    /\ c.op = "enter" => MayEnter(r, c, x)
    /\ c.op = "free"  => x.request.kind # "none"
    /\ c.op = "open"  => x.access = "closed"
    /\ c.op = "close" => x.access = c.kind
    /\ c.op = "rma"   => x.access # "closed" /\ c.within

\* Which call may come when.
OrderlyMove(c, x) ==
    /\ c.op = "enter" => x.phase = IF x.alone THEN "out" ELSE "chosen"
    /\ c.op = "leave" => x.phase = "in"
    /\ c.op = "elect" => ~x.alone
    /\ c.op \notin {"enter", "leave"} => x.phase = "out"
    /\ c.op \in {"in_place", "init", "free", "open", "close"} => x.alone
    /\ c.op = "enter" /\ c.kind = "fence" => x.alone
    /\ c.op = "break" => x.last
    /\ c.op = "enter" /\ PSync(c.form) => x.arrays

Changed(r, c, x) ==
    CASE c.op = "in_place" -> [x EXCEPT !.active = OmbApplyMpiInPlace(c.type, c.root, r, @)]
      [] c.op = "init" -> [x EXCEPT !.request =
                              [kind |-> c.kind, root |-> c.root, active |-> x.active]]
      [] c.op = "free" -> [x EXCEPT !.request = [kind |-> "none"]]
      [] c.op = "open" -> [x EXCEPT !.access = c.kind]
      [] c.op = "close" -> [x EXCEPT !.access = "closed"]
      [] c.op = "enter" -> [x EXCEPT !.phase = "in",
                                     !.access = IF c.kind = "fence" THEN "fence" ELSE @]
      [] c.op = "leave" -> [x EXCEPT !.phase = "out"]
      [] c.op = "elect" -> [x EXCEPT !.phase = "chosen"]
      [] OTHER -> x

LocalMove(r, c, x, y) ==
    /\ OrderlyMove(c, x)
    /\ x.strict => LegalMove(r, c, x)
    /\ y = Changed(r, c, x)

St(x, p) == [local |-> x, clock |-> p]

States == [local : Locals, clock : Clocks]

Moves(r) == {m \in Calls \X States \X States :
                 /\ LocalMove(r, m[1], m[2].local, m[3].local)
                 /\ ClockMove(m[1], m[2].clock, m[3].clock)}

\* The clocks named above are clocks.
LEMMA Typical ==
    ASSUME NEW t \in Nat, NEW b \in Nat
    PROVE  Idle(t) \in Clocks /\ Running(b, t) \in Clocks /\ Stopped(b, t) \in Clocks
BY DEF Idle, Running, Stopped, Clocks

\* A clock that has counted more is a clock.
LEMMA PlusTyped ==
    ASSUME NEW p \in Clocks, NEW n \in Nat
    PROVE  Plus(p, n) \in Clocks
BY DEF Plus, Clocks

\* A move of what the actor knows and one of its clock are a move together.
LEMMA OneMove ==
    ASSUME NEW r, NEW c \in Calls,
           NEW x \in Locals, NEW y \in Locals, NEW p \in Clocks, NEW q \in Clocks,
           LocalMove(r, c, x, y), ClockMove(c, p, q)
    PROVE  <<c, St(x, p), St(y, q)>> \in Moves(r)
<1>1. St(x, p) \in States /\ St(y, q) \in States
  BY DEF St, States
<1>2. St(x, p).local = x /\ St(x, p).clock = p /\ St(y, q).local = y /\ St(y, q).clock = q
  BY DEF St
<1>3. <<c, St(x, p), St(y, q)>> \in Calls \X States \X States
  BY <1>1
<1> DEFINE m == <<c, St(x, p), St(y, q)>>
<1>4. m[1] = c /\ m[2] = St(x, p) /\ m[3] = St(y, q)
  OBVIOUS
<1>5. LocalMove(r, m[1], m[2].local, m[3].local) /\ ClockMove(m[1], m[2].clock, m[3].clock)
  BY <1>2, <1>4
<1> HIDE DEF m
<1> QED BY <1>3, <1>5 DEF Moves, m

\* The same as a walk.
LEMMA OneCall ==
    ASSUME NEW r, NEW c \in Calls, c.op # "elect",
           NEW x \in Locals, NEW y \in Locals, NEW p \in Clocks, NEW q \in Clocks,
           LocalMove(r, c, x, y), ClockMove(c, p, q)
    PROVE  Walk(Moves(r), <<c>>, St(x, p), St(y, q))
BY OneMove, WalkOne

\* s takes a rank from x to y; while its clock runs, n transfers count.
Counts(r, s, x, y, n) ==
    \A p \in Clocks : Walk(Moves(r), s, St(x, p), St(y, Plus(p, n)))

\* s takes a rank from x to y and adds n transfers to the total of its clock.
Measures(r, s, x, y, n) ==
    \A t \in Nat : Walk(Moves(r), s, St(x, Idle(t)), St(y, Idle(t + n)))

\* What two sequences count, one after the other.
LEMMA CountsOn ==
    ASSUME NEW r, NEW s, NEW t, NEW x, NEW y, NEW z, NEW m \in Nat, NEW n \in Nat,
           Counts(r, s, x, y, m), Counts(r, t, y, z, n)
    PROVE  Counts(r, s \o t, x, z, m + n)
<1> SUFFICES ASSUME NEW p \in Clocks
             PROVE  Walk(Moves(r), s \o t, St(x, p), St(z, Plus(p, m + n)))
  BY DEF Counts
<1>1. Plus(p, m) \in Clocks
  BY PlusTyped
<1>2. Plus(Plus(p, m), n) = Plus(p, m + n)
  <2>1. CASE p.running
    <3>1. (p.burst + m) + n = p.burst + (m + n)
      BY DEF Clocks
    <3> QED BY <2>1, <3>1 DEF Plus
  <2>2. CASE ~p.running
    BY <2>2 DEF Plus
  <2> QED BY <2>1, <2>2
<1>3. Walk(Moves(r), s, St(x, p), St(y, Plus(p, m)))
  BY DEF Counts
<1>4. Walk(Moves(r), t, St(y, Plus(p, m)), St(z, Plus(p, m + n)))
  BY <1>1, <1>2 DEF Counts
<1> QED BY <1>3, <1>4, WalkOn

\* What two sequences add to the total, one after the other.
LEMMA MeasuresOn ==
    ASSUME NEW r, NEW s, NEW t, NEW x, NEW y, NEW z, NEW m \in Nat, NEW n \in Nat,
           Measures(r, s, x, y, m), Measures(r, t, y, z, n)
    PROVE  Measures(r, s \o t, x, z, m + n)
<1> SUFFICES ASSUME NEW k \in Nat
             PROVE  Walk(Moves(r), s \o t, St(x, Idle(k)), St(z, Idle(k + (m + n))))
  BY DEF Measures
<1>1. k + m \in Nat /\ (k + m) + n = k + (m + n)
  OBVIOUS
<1>2. Walk(Moves(r), s, St(x, Idle(k)), St(y, Idle(k + m)))
  BY DEF Measures
<1>3. Walk(Moves(r), t, St(y, Idle(k + m)), St(z, Idle(k + (m + n))))
  BY <1>1 DEF Measures
<1> QED BY <1>2, <1>3, WalkOn

\* While the clock stands nothing is added to the total.
LEMMA CountsAtRest ==
    ASSUME NEW r, NEW s, NEW x, NEW y, NEW n \in Nat, Counts(r, s, x, y, n)
    PROVE  Measures(r, s, x, y, 0)
<1> SUFFICES ASSUME NEW t \in Nat
             PROVE  Walk(Moves(r), s, St(x, Idle(t)), St(y, Idle(t + 0)))
  BY DEF Measures
<1>1. Idle(t) \in Clocks
  BY Typical
<1>2. Plus(Idle(t), n) = Idle(t) /\ t + 0 = t
  BY DEF Plus, Idle
<1> QED BY <1>1, <1>2 DEF Counts

\* No call counts nothing.
LEMMA Nothing ==
    ASSUME NEW r, NEW x
    PROVE  Counts(r, <<>>, x, x, 0) /\ Measures(r, <<>>, x, x, 0)
<1>1. \A p \in Clocks : Plus(p, 0) = p
  BY DEF Plus, Clocks
<1>2. \A t \in Nat : t + 0 = t
  OBVIOUS
<1> QED BY <1>1, <1>2, WalkNowhere DEF Counts, Measures

-----------------------------------------------------------------------------
(* What sequences of calls count, and how they are put together. *)

\* s starts the clock; when it is over, n transfers have been counted.
Runs(r, s, x, y, n) ==
    \A t \in Nat : Walk(Moves(r), s, St(x, Idle(t)), St(y, Running(n, t)))

\* As before, and s has stopped the clock.
Halts(r, s, x, y, n) ==
    \A t \in Nat : Walk(Moves(r), s, St(x, Idle(t)), St(y, Stopped(n, t)))

\* s is what iteration i does if the clock is started once, in iteration Skip.
Begins(r, s, x, y, n, i) ==
    /\ i < Skip => Measures(r, s, x, y, 0)
    /\ i = Skip => Runs(r, s, x, y, n)
    /\ i > Skip => Counts(r, s, x, y, n)

\* Sequences that add nothing, one after the other.
LEMMA CalmOn ==
    ASSUME NEW r, NEW s, NEW t, NEW x, NEW y, NEW z,
           Measures(r, s, x, y, 0), Measures(r, t, y, z, 0)
    PROVE  Measures(r, s \o t, x, z, 0)
<1>1. 0 \in Nat /\ 0 + 0 = 0
  OBVIOUS
<1>2. Measures(r, s \o t, x, z, 0 + 0)
  BY <1>1, MeasuresOn
<1> QED BY <1>1, <1>2

\* Sequences that count nothing, one after the other.
LEMMA StillOn ==
    ASSUME NEW r, NEW s, NEW t, NEW x, NEW y, NEW z,
           Counts(r, s, x, y, 0), Counts(r, t, y, z, 0)
    PROVE  Counts(r, s \o t, x, z, 0)
<1>1. 0 \in Nat /\ 0 + 0 = 0
  OBVIOUS
<1>2. Counts(r, s \o t, x, z, 0 + 0)
  BY <1>1, CountsOn
<1> QED BY <1>1, <1>2

\* The clock may be started after a sequence that adds nothing.
LEMMA RunsAfter ==
    ASSUME NEW r, NEW s, NEW t, NEW x, NEW y, NEW z, NEW n,
           Measures(r, s, x, y, 0), Runs(r, t, y, z, n)
    PROVE  Runs(r, s \o t, x, z, n)
<1> SUFFICES ASSUME NEW k \in Nat
             PROVE  Walk(Moves(r), s \o t, St(x, Idle(k)), St(z, Running(n, k)))
  BY DEF Runs
<1>1. k + 0 = k
  OBVIOUS
<1>2. Walk(Moves(r), s, St(x, Idle(k)), St(y, Idle(k)))
  BY <1>1 DEF Measures
<1>3. Walk(Moves(r), t, St(y, Idle(k)), St(z, Running(n, k)))
  BY DEF Runs
<1> QED BY <1>2, <1>3, WalkOn

\* A started clock goes on counting.
LEMMA RunsOn ==
    ASSUME NEW r, NEW s, NEW t, NEW x, NEW y, NEW z, NEW m \in Nat, NEW n \in Nat,
           Runs(r, s, x, y, m), Counts(r, t, y, z, n)
    PROVE  Runs(r, s \o t, x, z, m + n)
<1> SUFFICES ASSUME NEW k \in Nat
             PROVE  Walk(Moves(r), s \o t, St(x, Idle(k)), St(z, Running(m + n, k)))
  BY DEF Runs
<1>1. Running(m, k) \in Clocks /\ Plus(Running(m, k), n) = Running(m + n, k)
  BY Typical DEF Plus, Running
<1>2. Walk(Moves(r), s, St(x, Idle(k)), St(y, Running(m, k)))
  BY DEF Runs
<1>3. Walk(Moves(r), t, St(y, Running(m, k)), St(z, Running(m + n, k)))
  BY <1>1 DEF Counts
<1> QED BY <1>2, <1>3, WalkOn

\* A stopped clock counts nothing more.
LEMMA HaltsOn ==
    ASSUME NEW r, NEW s, NEW t, NEW x, NEW y, NEW z, NEW m \in Nat, NEW n \in Nat,
           Halts(r, s, x, y, m), Counts(r, t, y, z, n)
    PROVE  Halts(r, s \o t, x, z, m)
<1> SUFFICES ASSUME NEW k \in Nat
             PROVE  Walk(Moves(r), s \o t, St(x, Idle(k)), St(z, Stopped(m, k)))
  BY DEF Halts
<1>1. Stopped(m, k) \in Clocks /\ Plus(Stopped(m, k), n) = Stopped(m, k)
  BY Typical DEF Plus, Stopped
<1>2. Walk(Moves(r), s, St(x, Idle(k)), St(y, Stopped(m, k)))
  BY DEF Halts
<1>3. Walk(Moves(r), t, St(y, Stopped(m, k)), St(z, Stopped(m, k)))
  BY <1>1 DEF Counts
<1> QED BY <1>2, <1>3, WalkOn

\* An interval may come after a sequence that adds nothing.
LEMMA HaltsAfter ==
    ASSUME NEW r, NEW s, NEW t, NEW x, NEW y, NEW z, NEW n,
           Measures(r, s, x, y, 0), Halts(r, t, y, z, n)
    PROVE  Halts(r, s \o t, x, z, n)
<1> SUFFICES ASSUME NEW k \in Nat
             PROVE  Walk(Moves(r), s \o t, St(x, Idle(k)), St(z, Stopped(n, k)))
  BY DEF Halts
<1>1. k + 0 = k
  OBVIOUS
<1>2. Walk(Moves(r), s, St(x, Idle(k)), St(y, Idle(k)))
  BY <1>1 DEF Measures
<1>3. Walk(Moves(r), t, St(y, Idle(k)), St(z, Stopped(n, k)))
  BY DEF Halts
<1> QED BY <1>2, <1>3, WalkOn

-----------------------------------------------------------------------------
\* A call that is not about the clock counts one transfer or none.
LEMMA CallCounts ==
    ASSUME NEW r, NEW c \in Calls, c.op \notin {"elect", "start", "stop", "sample"},
           NEW x \in Locals, NEW y \in Locals, LocalMove(r, c, x, y)
    PROVE  Counts(r, <<c>>, x, y, IF IsCounted(c) THEN 1 ELSE 0)
<1> DEFINE n == IF IsCounted(c) THEN 1 ELSE 0
<1> SUFFICES ASSUME NEW p \in Clocks
             PROVE  Walk(Moves(r), <<c>>, St(x, p), St(y, Plus(p, n)))
  BY DEF Counts
<1>1. Plus(p, n) \in Clocks
  BY PlusTyped
<1>2. Plus(p, 0) = p
  BY DEF Plus, Clocks
<1>3. ClockMove(c, p, Plus(p, n))
  BY <1>2 DEF ClockMove
<1> HIDE DEF n
<1> QED BY <1>1, <1>3, OneCall

\* Calls that change nothing of what is followed here but the clock.
Harmless == {c \in Calls : c.op \in {"isend", "irecv", "wait", "check", "clear", "report",
                                     "post", "touch", "meet", "fill", "flush", "await"}}

\* Such a call is allowed wherever its actor is outside a collective operation.
LEMMA HarmlessMove ==
    ASSUME NEW r, NEW c \in Harmless, NEW x \in Outside
    PROVE  LocalMove(r, c, x, x)
BY DEF Harmless, Outside, LocalMove, LegalMove, OrderlyMove, Changed

\* It counts one transfer or none.
LEMMA HarmlessCounts ==
    ASSUME NEW r, NEW c \in Harmless, NEW x \in Outside
    PROVE  Counts(r, <<c>>, x, x, IF IsCounted(c) THEN 1 ELSE 0)
BY CallCounts, HarmlessMove DEF Harmless, Outside

\* Posting a message counts it, unless it is a reply.
LEMMA Messages ==
    ASSUME NEW r, NEW x \in Outside, NEW p \in Nat, NEW tag \in Tags, NEW n \in Nat
    PROVE  /\ Counts(r, ISend(p, tag, n), x, x, IF n # ReplySize THEN 1 ELSE 0)
           /\ Counts(r, IRecv(p, tag, n), x, x, IF n # ReplySize THEN 1 ELSE 0)
<1>1. ASSUME NEW o \in {"isend", "irecv"}, NEW c, c = [op |-> o, peer |-> p, tag |-> tag, size |-> n]
      PROVE  c \in Harmless /\ (IsCounted(c) <=> n # ReplySize)
  <2>1. c \in Calls
    BY <1>1 DEF Calls
  <2> QED BY <1>1, <2>1 DEF Harmless, IsCounted
<1> QED BY <1>1, HarmlessCounts DEF ISend, IRecv

\* Waiting for messages counts nothing.
LEMMA Waits ==
    ASSUME NEW r, NEW x \in Outside, NEW kind \in {"isend", "irecv"}
    PROVE  Counts(r, Wait(kind), x, x, 0)
<1> DEFINE c == [op |-> "wait", kind |-> kind]
<1>1. c \in Harmless /\ ~IsCounted(c)
  BY DEF Harmless, Calls, IsCounted
<1> QED BY <1>1, HarmlessCounts DEF Wait

\* The blocking calls count what the nonblocking ones do.
LEMMA SendsAndReceives ==
    ASSUME NEW r, NEW x \in Outside, NEW p \in Nat, NEW tag \in Tags, NEW n \in Nat
    PROVE  /\ Counts(r, Send(p, tag, n), x, x, IF n # ReplySize THEN 1 ELSE 0)
           /\ Counts(r, Recv(p, tag, n), x, x, IF n # ReplySize THEN 1 ELSE 0)
<1> DEFINE k == IF n # ReplySize THEN 1 ELSE 0
<1>1. k \in Nat /\ k + 0 = k
  OBVIOUS
<1>2. /\ Counts(r, ISend(p, tag, n), x, x, k) /\ Counts(r, Wait("isend"), x, x, 0)
      /\ Counts(r, IRecv(p, tag, n), x, x, k) /\ Counts(r, Wait("irecv"), x, x, 0)
  BY Messages, Waits
<1> HIDE DEF k
<1>3. Counts(r, Send(p, tag, n), x, x, k) /\ Counts(r, Recv(p, tag, n), x, x, k)
  BY <1>1, <1>2, CountsOn DEF Send, Recv
<1> QED BY <1>3 DEF k

-----------------------------------------------------------------------------
(* The calls one by one. *)

\* The calls that change nothing and count nothing.
LEMMA Harmlessly ==
    ASSUME NEW r, NEW x \in Outside
    PROVE  /\ Counts(r, Check, x, x, 0) /\ Counts(r, ClearErrors, x, x, 0)
           /\ Counts(r, Report, x, x, 0) /\ Counts(r, Touch, x, x, 0) /\ Counts(r, Post, x, x, 0)
           /\ \A i \in 0 .. Skip + Iters - 1 : Counts(r, Fill(i), x, x, 0)
           /\ \A which \in {"all", "fetched"} : Counts(r, Flush(which), x, x, 0)
           /\ \A p \in Nat : Counts(r, Await(p), x, x, 0)
<1>1. ASSUME NEW o \in {"check", "clear", "report", "touch", "post"}
      PROVE  Counts(r, <<[op |-> o]>>, x, x, 0)
  <2> DEFINE c == [op |-> o]
  <2>1. c \in Harmless /\ ~IsCounted(c)
    BY DEF Harmless, Calls, Plain, IsCounted
  <2> HIDE DEF c
  <2>2. Counts(r, <<c>>, x, x, 0)
    BY <2>1, HarmlessCounts
  <2> QED BY <2>2 DEF c
<1>2. ASSUME NEW i \in 0 .. Skip + Iters - 1 PROVE Counts(r, Fill(i), x, x, 0)
  <2> DEFINE c == [op |-> "fill", stamp |-> i]
  <2>1. c \in Harmless /\ ~IsCounted(c)
    BY DEF Harmless, Calls, IsCounted
  <2> HIDE DEF c
  <2>2. Counts(r, <<c>>, x, x, 0)
    BY <2>1, HarmlessCounts
  <2> QED BY <2>2 DEF c, Fill
<1>3. ASSUME NEW which \in {"all", "fetched"} PROVE Counts(r, Flush(which), x, x, 0)
  <2> DEFINE c == [op |-> "flush", which |-> which]
  <2>1. c \in Harmless /\ ~IsCounted(c)
    BY DEF Harmless, Calls, IsCounted
  <2> HIDE DEF c
  <2>2. Counts(r, <<c>>, x, x, 0)
    BY <2>1, HarmlessCounts
  <2> QED BY <2>2 DEF c, Flush
<1>4. ASSUME NEW p \in Nat PROVE Counts(r, Await(p), x, x, 0)
  <2> DEFINE c == [op |-> "await", peer |-> p]
  <2>1. c \in Harmless /\ ~IsCounted(c)
    BY DEF Harmless, Calls, IsCounted
  <2> HIDE DEF c
  <2>2. Counts(r, <<c>>, x, x, 0)
    BY <2>1, HarmlessCounts
  <2> QED BY <2>2 DEF c, Await
<1>5. /\ Counts(r, Check, x, x, 0) /\ Counts(r, ClearErrors, x, x, 0)
      /\ Counts(r, Report, x, x, 0) /\ Counts(r, Touch, x, x, 0) /\ Counts(r, Post, x, x, 0)
  BY <1>1 DEF Check, ClearErrors, Report, Touch, Post
<1> QED BY <1>2, <1>3, <1>4, <1>5

\* A program that may leave its sizes because of errors counts nothing by it.
LEMMA Breaking ==
    ASSUME NEW r, NEW x \in Outside, x.last
    PROVE  Counts(r, BreakOnErrors, x, x, 0)
<1> DEFINE c == [op |-> "break"]
<1>1. c \in Calls /\ c.op \notin {"elect", "start", "stop", "sample"} /\ ~IsCounted(c)
  BY DEF Calls, Plain, IsCounted
<1>2. LocalMove(r, c, x, x) /\ x \in Locals
  BY DEF Outside, LocalMove, LegalMove, OrderlyMove, Changed
<1> HIDE DEF c
<1>3. Counts(r, <<c>>, x, x, 0)
  BY <1>1, <1>2, CallCounts
<1> QED BY <1>3 DEF c, BreakOnErrors

-----------------------------------------------------------------------------
\* The call of a collective operation, and the return from it.
Within(x) == [x EXCEPT !.phase = "in"]

\* A rank returns from a collective operation to where it was.
LEMMA Leaving ==
    ASSUME NEW r, NEW x \in Outside
    PROVE  Counts(r, Leave, Within(x), x, 0)
<1> DEFINE c == [op |-> "leave"]
<1>1. c \in Calls /\ c.op \notin {"elect", "start", "stop", "sample"} /\ ~IsCounted(c)
  BY DEF Calls, Plain, IsCounted
<1>2. Within(x) \in Locals /\ x \in Locals
  BY DEF Within, Outside, Locals
<1>3. x = [[x EXCEPT !.phase = "in"] EXCEPT !.phase = "out"]
  BY DEF Outside, Locals
<1>4. LocalMove(r, c, Within(x), x)
  BY <1>3 DEF Within, Outside, Locals, LocalMove, LegalMove, OrderlyMove, Changed
<1> HIDE DEF c
<1>5. Counts(r, <<c>>, Within(x), x, 0)
  BY <1>1, <1>2, <1>4, CallCounts
<1> QED BY <1>5 DEF c, Leave

\* A fence, and the epoch that it begins.
Fencing(x) == [x EXCEPT !.access = "fence"]

\* The call of a collective operation counts, unless it only synchronises.
LEMMA Entering ==
    ASSUME NEW r, NEW kind \in CollectiveKinds, NEW root \in Nat, NEW data \in SUBSET Nat,
           NEW form \in Forms, NEW x \in Locals, NEW y \in Locals,
           LocalMove(r, [op |-> "enter", kind |-> kind, root |-> root, data |-> data,
                         form |-> form], x, y)
    PROVE  Counts(r, Enter(kind, root, data, form), x, y, IF kind \in {"sync", "fence"} THEN 0 ELSE 1)
<1> DEFINE c == [op |-> "enter", kind |-> kind, root |-> root, data |-> data, form |-> form]
<1>1. c \in Calls /\ c.op \notin {"elect", "start", "stop", "sample"}
  BY DEF Calls
<1>2. IsCounted(c) <=> kind \notin {"sync", "fence"}
  BY DEF IsCounted
<1> HIDE DEF c
<1>3. Counts(r, <<c>>, x, y, IF kind \in {"sync", "fence"} THEN 0 ELSE 1)
  BY <1>1, <1>2, CallCounts DEF c
<1> QED BY <1>3 DEF c, Enter

\* A collective operation as a whole.
LEMMA Collectives ==
    ASSUME NEW r, NEW kind \in CollectiveKinds \ {"fence"}, NEW root \in Nat, NEW data \in SUBSET Nat,
           NEW form \in Forms, NEW x \in Alone, PSync(form) => x.arrays,
           x.strict => MayEnter(r, [op |-> "enter", kind |-> kind, root |-> root,
                                    data |-> data, form |-> form], x)
    PROVE  Counts(r, Enter(kind, root, data, form) \o Leave, x, x, IF kind = "sync" THEN 0 ELSE 1)
<1> DEFINE c == [op |-> "enter", kind |-> kind, root |-> root, data |-> data, form |-> form]
           n == IF kind = "sync" THEN 0 ELSE 1
<1>1. x \in Outside /\ x \in Locals /\ Within(x) \in Locals
  BY DEF Alone, Outside, Within, Locals
<1>2. LocalMove(r, c, x, Within(x))
  <2>1. c.op = "enter" /\ c.kind # "fence"
    OBVIOUS
  <2>2. OrderlyMove(c, x)
    BY <2>1 DEF OrderlyMove, Alone, Outside
  <2>3. x.strict => LegalMove(r, c, x)
    BY <2>1 DEF LegalMove
  <2>4. Within(x) = Changed(r, c, x)
    <3>1. [x EXCEPT !.phase = "in"] = [x EXCEPT !.phase = "in", !.access = x.access]
      BY <1>1 DEF Locals
    <3> QED BY <2>1, <3>1 DEF Within, Changed
  <2> QED BY <2>2, <2>3, <2>4 DEF LocalMove
<1>3. n \in Nat /\ n + 0 = n
  OBVIOUS
<1>4. n = IF kind \in {"sync", "fence"} THEN 0 ELSE 1
  OBVIOUS
<1> HIDE DEF n
<1>5. Counts(r, Enter(kind, root, data, form), x, Within(x), n)
  BY <1>1, <1>2, <1>4, Entering
<1>6. Counts(r, Enter(kind, root, data, form) \o Leave, x, x, n)
  BY <1>1, <1>3, <1>5, Leaving, CountsOn
<1> QED BY <1>6 DEF n

\* A collective operation in which the buffers and the request do not matter.
LEMMA PlainCollectives ==
    ASSUME NEW r, NEW kind \in CollectiveKinds \ {"fence"}, NEW root \in Nat, NEW data \in SUBSET Nat,
           NEW form \in {"plain"} \cup PSyncArrays, NEW x \in Alone, form # "plain" => x.arrays
    PROVE  Counts(r, Enter(kind, root, data, form) \o Leave, x, x, IF kind = "sync" THEN 0 ELSE 1)
<1> DEFINE c == [op |-> "enter", kind |-> kind, root |-> root, data |-> data, form |-> form]
<1>1. form \in Forms
  BY DEF Forms
<1>2. MayEnter(r, c, x)
  BY DEF MayEnter, PSyncArrays
<1>3. PSync(form) => x.arrays
  BY DEF PSync
<1> QED BY <1>1, <1>2, <1>3, Collectives

\* The collective operations that surround what is measured.
LEMMA Barriers ==
    ASSUME NEW r, NEW x \in Alone
    PROVE  /\ Counts(r, Barrier, x, x, 1) /\ Counts(r, Reduce, x, x, 1)
           /\ Counts(r, SumErrors, x, x, 1) /\ Counts(r, Sync, x, x, 0)
<1>1. /\ "barrier" \in CollectiveKinds \ {"fence"} /\ "to_root" \in CollectiveKinds \ {"fence"}
      /\ "sync" \in CollectiveKinds \ {"fence"} /\ "sum_errors" \in CollectiveKinds \ {"fence"}
  BY DEF CollectiveKinds
<1>2. Counts(r, Barrier, x, x, 1)
  BY <1>1, PlainCollectives DEF Barrier
<1>3. Counts(r, Sync, x, x, 0)
  BY <1>1, PlainCollectives DEF Sync
<1>4. Counts(r, Reduce, x, x, 1)
  BY <1>1, PlainCollectives DEF Reduce
<1>5. Counts(r, SumErrors, x, x, 1)
  BY <1>1, PlainCollectives DEF SumErrors
<1> QED BY <1>2, <1>3, <1>4, <1>5

\* A fence begins an epoch, unless it ends one.
LEMMA Fences ==
    ASSUME NEW r, NEW x \in Alone, x.access \in {"closed", "fence"}
    PROVE  Counts(r, Fence, x, Fencing(x), 0)
<1> DEFINE c == [op |-> "enter", kind |-> "fence", root |-> 0, data |-> {}, form |-> "plain"]
<1>1. /\ x \in Outside /\ x \in Locals /\ Fencing(x) \in Outside
      /\ Within(Fencing(x)) \in Locals
  BY DEF Alone, Outside, Within, Fencing, Locals
<1>2. LocalMove(r, c, x, Within(Fencing(x)))
  <2>2. OrderlyMove(c, x)
    BY DEF OrderlyMove, Alone, Outside, PSync
  <2>3. LegalMove(r, c, x)
    BY DEF LegalMove, MayEnter
  <2>4. Within(Fencing(x)) = Changed(r, c, x)
    <3>1. [[x EXCEPT !.access = "fence"] EXCEPT !.phase = "in"]
            = [x EXCEPT !.phase = "in", !.access = "fence"]
      BY <1>1 DEF Locals
    <3> QED BY <3>1 DEF Within, Fencing, Changed
  <2> QED BY <2>2, <2>3, <2>4 DEF LocalMove
<1>3. "fence" \in CollectiveKinds /\ "plain" \in Forms
  BY DEF CollectiveKinds, Forms
<1>4. Counts(r, Enter("fence", 0, {}, "plain"), x, Within(Fencing(x)), 0)
  BY <1>1, <1>2, <1>3, Entering
<1>5. Counts(r, Leave, Within(Fencing(x)), Fencing(x), 0)
  BY <1>1, Leaving
<1> QED BY <1>4, <1>5, StillOn DEF Fence

\* An access counts one transfer, and is legal in an epoch.
LEMMA Accesses ==
    ASSUME NEW r, NEW p \in Nat, NEW fetch \in BOOLEAN, NEW within \in BOOLEAN, NEW x \in Outside,
           x.strict => x.access # "closed" /\ within
    PROVE  Counts(r, RmaWithin(p, fetch, within), x, x, 1)
<1> DEFINE c == [op |-> "rma", peer |-> p, fetch |-> fetch, within |-> within]
<1>1. c \in Calls /\ c.op \notin {"elect", "start", "stop", "sample"} /\ IsCounted(c)
  BY DEF Calls, IsCounted
<1>2. LocalMove(r, c, x, x) /\ x \in Locals
  BY DEF Outside, LocalMove, LegalMove, OrderlyMove, Changed
<1> HIDE DEF c
<1>3. Counts(r, <<c>>, x, x, 1)
  BY <1>1, <1>2, CallCounts
<1> QED BY <1>3 DEF c, RmaWithin

Accessing(x, kind) == [x EXCEPT !.access = kind]

\* An epoch that is opened and closed.
LEMMA Epochs ==
    ASSUME NEW r, NEW kind \in {"lock", "start"}, NEW x \in Alone, x.access = "closed"
    PROVE  /\ Accessing(x, kind) \in Alone /\ Accessing(x, kind).access = kind
           /\ Counts(r, OpenEpoch(kind), x, Accessing(x, kind), 0)
           /\ Counts(r, CloseEpoch(kind), Accessing(x, kind), x, 0)
<1> DEFINE y == Accessing(x, kind)
           o == [op |-> "open", kind |-> kind]
           c == [op |-> "close", kind |-> kind]
           which == IF kind = "lock" THEN "all" ELSE "fetched"
<1>1. /\ x \in Outside /\ x \in Locals /\ y \in Outside /\ y \in Locals /\ y \in Alone
      /\ y.access = kind
  BY DEF Alone, Outside, Accessing, Locals
<1>2. o \in Calls /\ o.op \notin {"elect", "start", "stop", "sample"} /\ ~IsCounted(o)
  BY DEF Calls, IsCounted
<1>3. c \in Calls /\ c.op \notin {"elect", "start", "stop", "sample"} /\ ~IsCounted(c)
  BY DEF Calls, IsCounted
<1>4. LocalMove(r, o, x, y)
  BY <1>1 DEF Accessing, Alone, Outside, LocalMove, LegalMove, OrderlyMove, Changed
<1>5. LocalMove(r, c, y, x)
  <2>1. x = [y EXCEPT !.access = "closed"]
    BY <1>1 DEF Accessing, Locals
  <2>2. LegalMove(r, c, y) /\ OrderlyMove(c, y)
    BY <1>1 DEF Alone, Outside, LegalMove, OrderlyMove
  <2> HIDE DEF y
  <2> QED BY <2>1, <2>2 DEF LocalMove, Changed
<1> HIDE DEF o, c, y
<1>6. Counts(r, <<o>>, x, y, 0) /\ Counts(r, <<c>>, y, x, 0)
  BY <1>1, <1>2, <1>3, <1>4, <1>5, CallCounts
<1>7. Counts(r, Flush(which), y, y, 0)
  BY <1>1, Harmlessly
<1>8. Counts(r, Flush(which) \o <<c>>, y, x, 0)
  BY <1>6, <1>7, StillOn
<1> QED BY <1>1, <1>6, <1>8 DEF o, c, y, OpenEpoch, CloseEpoch

-----------------------------------------------------------------------------
\* Starting the clock.
LEMMA Starting ==
    ASSUME NEW r, NEW x \in Outside
    PROVE  Runs(r, StartClock, x, x, 0)
<1> DEFINE c == [op |-> "start"]
<1> SUFFICES ASSUME NEW t \in Nat
             PROVE  Walk(Moves(r), StartClock, St(x, Idle(t)), St(x, Running(0, t)))
  BY DEF Runs
<1>1. c \in Calls /\ c.op # "elect" /\ LocalMove(r, c, x, x) /\ x \in Locals
  BY DEF Calls, Plain, LocalMove, LegalMove, OrderlyMove, Changed, Outside
<1>2. Idle(t) \in Clocks /\ Running(0, t) \in Clocks
  BY Typical
<1>3. ClockMove(c, Idle(t), Running(0, t))
  BY DEF ClockMove, Idle
<1> HIDE DEF c
<1> QED BY <1>1, <1>2, <1>3, OneCall DEF StartClock, c

\* Stopping it ends the interval.
LEMMA Stopping ==
    ASSUME NEW r, NEW s, NEW x, NEW y \in Outside, NEW n \in Nat, Runs(r, s, x, y, n)
    PROVE  Halts(r, s \o StopClock, x, y, n) /\ Measures(r, s \o StopClock, x, y, 0)
<1> DEFINE c == [op |-> "stop"]
<1> SUFFICES ASSUME NEW t \in Nat
             PROVE  /\ Walk(Moves(r), s \o StopClock, St(x, Idle(t)), St(y, Stopped(n, t)))
                    /\ Walk(Moves(r), s \o StopClock, St(x, Idle(t)), St(y, Idle(t + 0)))
  BY DEF Halts, Measures
<1>1. c \in Calls /\ c.op # "elect" /\ LocalMove(r, c, y, y) /\ y \in Locals
  BY DEF Calls, Plain, LocalMove, LegalMove, OrderlyMove, Changed, Outside
<1>2. Idle(t) \in Clocks /\ Running(n, t) \in Clocks /\ Stopped(n, t) \in Clocks
  BY Typical
<1>3. ClockMove(c, Running(n, t), Idle(t)) /\ ClockMove(c, Running(n, t), Stopped(n, t))
  BY DEF ClockMove, Running
<1>4. Walk(Moves(r), s, St(x, Idle(t)), St(y, Running(n, t))) /\ t + 0 = t
  BY DEF Runs
<1> HIDE DEF c
<1>5. /\ Walk(Moves(r), <<c>>, St(y, Running(n, t)), St(y, Idle(t)))
      /\ Walk(Moves(r), <<c>>, St(y, Running(n, t)), St(y, Stopped(n, t)))
  BY <1>1, <1>2, <1>3, OneCall
<1> QED BY <1>4, <1>5, WalkOn DEF StopClock, c

\* Reading it out adds the interval to the total.
LEMMA Sampling ==
    ASSUME NEW r, NEW s, NEW x, NEW y \in Outside, NEW n \in Nat, Halts(r, s, x, y, n)
    PROVE  Measures(r, s \o Sample, x, y, n)
<1> DEFINE c == [op |-> "sample"]
<1> SUFFICES ASSUME NEW t \in Nat
             PROVE  Walk(Moves(r), s \o Sample, St(x, Idle(t)), St(y, Idle(t + n)))
  BY DEF Measures
<1>1. c \in Calls /\ c.op # "elect" /\ LocalMove(r, c, y, y) /\ y \in Locals
  BY DEF Calls, Plain, LocalMove, LegalMove, OrderlyMove, Changed, Outside
<1>2. Idle(t + n) \in Clocks /\ Stopped(n, t) \in Clocks
  BY Typical
<1>3. ClockMove(c, Stopped(n, t), Idle(t + n))
  BY DEF ClockMove, Stopped
<1>4. Walk(Moves(r), s, St(x, Idle(t)), St(y, Stopped(n, t)))
  BY DEF Halts
<1> HIDE DEF c
<1>5. Walk(Moves(r), <<c>>, St(y, Stopped(n, t)), St(y, Idle(t + n)))
  BY <1>1, <1>2, <1>3, OneCall
<1> QED BY <1>4, <1>5, WalkOn DEF Sample, c

\* Stopping and reading out, clock by clock.
LEMMA Ending ==
    ASSUME NEW r, NEW x \in Outside, NEW n \in Nat, NEW t \in Nat
    PROVE  /\ Walk(Moves(r), StopClock, St(x, Running(n, t)), St(x, Stopped(n, t)))
           /\ Walk(Moves(r), Sample, St(x, Stopped(n, t)), St(x, Idle(t + n)))
<1> DEFINE c == [op |-> "stop"]
           d == [op |-> "sample"]
<1>1. /\ c \in Calls /\ c.op # "elect" /\ LocalMove(r, c, x, x) /\ x \in Locals
      /\ d \in Calls /\ d.op # "elect" /\ LocalMove(r, d, x, x)
  BY DEF Calls, Plain, LocalMove, LegalMove, OrderlyMove, Changed, Outside
<1>2. Idle(t + n) \in Clocks /\ Running(n, t) \in Clocks /\ Stopped(n, t) \in Clocks
  BY Typical
<1>3. ClockMove(c, Running(n, t), Stopped(n, t)) /\ ClockMove(d, Stopped(n, t), Idle(t + n))
  BY DEF ClockMove, Running, Stopped
<1> HIDE DEF c, d
<1>4. /\ Walk(Moves(r), <<c>>, St(x, Running(n, t)), St(x, Stopped(n, t)))
      /\ Walk(Moves(r), <<d>>, St(x, Stopped(n, t)), St(x, Idle(t + n)))
  BY <1>1, <1>2, <1>3, OneCall
<1> QED BY <1>4 DEF StopClock, Sample, c, d

\* The interval as most of the benchmarks write it.
LEMMA StartOnceBegins ==
    ASSUME NEW r, NEW x \in Outside, NEW i \in Nat
    PROVE  Begins(r, StartOnce(i), x, x, 0, i)
<1>1. CASE i = Skip
  BY <1>1, Starting, SkipAssumption DEF StartOnce, Given, Begins
<1>2. CASE i # Skip
  BY <1>2, Nothing DEF StartOnce, Given, Begins
<1> QED BY <1>1, <1>2

\* An iteration that begins the interval goes on counting.
LEMMA BeginsOn ==
    ASSUME NEW r, NEW s, NEW t, NEW x, NEW y, NEW z, NEW m \in Nat, NEW n \in Nat, NEW i,
           Begins(r, s, x, y, m, i), Counts(r, t, y, z, n)
    PROVE  Begins(r, s \o t, x, z, m + n, i)
<1>1. Measures(r, t, y, z, 0)
  BY CountsAtRest
<1> QED BY <1>1, CalmOn, RunsOn, CountsOn DEF Begins

\* It may go on without counting.
LEMMA BeginsStill ==
    ASSUME NEW r, NEW s, NEW t, NEW x, NEW y, NEW z, NEW m \in Nat, NEW i,
           Begins(r, s, x, y, m, i), Counts(r, t, y, z, 0)
    PROVE  Begins(r, s \o t, x, z, m, i)
<1>1. 0 \in Nat /\ m + 0 = m
  OBVIOUS
<1>2. Begins(r, s \o t, x, z, m + 0, i)
  BY <1>1, BeginsOn
<1> QED BY <1>1, <1>2

-----------------------------------------------------------------------------
(* Lists of walks, repetitions, and the loop over the iterations. *)

\* A list of walks, each from where the one before has led.
LEMMA FlattenWalk ==
    ASSUME NEW M, NEW ss \in Seq(Seq(Calls)), NEW g,
           \A k \in 1 .. Len(ss) : Walk(M, ss[k], g[k - 1], g[k])
    PROVE  Walk(M, FlattenSeq(ss), g[0], g[Len(ss)])
<1> DEFINE n == Len(ss)
           Q == [k \in 0 .. n |-> {s \in Seq(Calls) : Walk(M, s, g[0], g[k])}]
<1>0. n \in Nat
  OBVIOUS
<1>1. <<>> \in Q[0]
  BY <1>0, WalkNowhere
<1>2. ASSUME NEW k \in 1 .. n, NEW s \in Q[k - 1] PROVE s \o ss[k] \in Q[k]
  <2>1. k - 1 \in 0 .. n /\ k \in 0 .. n
    BY <1>0
  <2>2. s \in Seq(Calls) /\ Walk(M, s, g[0], g[k - 1]) /\ ss[k] \in Seq(Calls)
    BY <2>1
  <2>3. Walk(M, s \o ss[k], g[0], g[k]) /\ s \o ss[k] \in Seq(Calls)
    BY <2>2, WalkOn, ConcatProperties
  <2> QED BY <2>1, <2>3
<1>3. FlattenSeq(ss) \in Q[n]
  <2> HIDE DEF Q
  <2> QED BY <1>1, <1>2, FlattenRule
<1> QED BY <1>0, <1>3

\* Each of the sequences adds its own number of transfers.
LEMMA CountsEach ==
    ASSUME NEW r, NEW ss \in Seq(Seq(Calls)), NEW x, NEW c \in Nat,
           \A k \in 1 .. Len(ss) : Counts(r, ss[k], x, x, c)
    PROVE  Counts(r, FlattenSeq(ss), x, x, Len(ss) * c)
<1> DEFINE n == Len(ss)
<1>0. n \in Nat
  OBVIOUS
<1> SUFFICES ASSUME NEW p \in Clocks
             PROVE  Walk(Moves(r), FlattenSeq(ss), St(x, p), St(x, Plus(p, n * c)))
  BY DEF Counts
<1> DEFINE g == [k \in 0 .. n |-> St(x, Plus(p, k * c))]
<1>1. ASSUME NEW k \in 1 .. n PROVE Walk(Moves(r), ss[k], g[k - 1], g[k])
  <2>1. k - 1 \in 0 .. n /\ k \in 0 .. n /\ k - 1 \in Nat
    BY <1>0
  <2>2. (k - 1) * c \in Nat /\ (k - 1) * c + c = k * c
    BY <2>1
  <2>3. Plus(p, (k - 1) * c) \in Clocks
    BY <2>2, PlusTyped
  <2>4. Plus(Plus(p, (k - 1) * c), c) = Plus(p, k * c)
    <3> DEFINE d == (k - 1) * c
    <3>1. p.burst + (d + c) = (p.burst + d) + c
      BY <2>2 DEF Clocks
    <3> HIDE DEF d
    <3>2. Plus(Plus(p, d), c) = Plus(p, d + c)
      BY <3>1 DEF Plus
    <3> QED BY <2>2, <3>2 DEF d
  <2>5. Walk(Moves(r), ss[k], St(x, Plus(p, (k - 1) * c)), St(x, Plus(p, k * c)))
    BY <2>3, <2>4 DEF Counts
  <2> QED BY <2>1, <2>5
<1>2. g[0] = St(x, p) /\ g[n] = St(x, Plus(p, n * c))
  <2>1. Plus(p, 0 * c) = p
    BY DEF Plus, Clocks
  <2> QED BY <1>0, <2>1
<1> HIDE DEF g
<1> QED BY <1>1, <1>2, FlattenWalk

\* A sequence that is repeated counts as often.
LEMMA CountsTimes ==
    ASSUME NEW r, NEW s, NEW n \in Nat, NEW x, NEW c \in Nat, s \in Seq(Calls),
           Counts(r, s, x, x, c)
    PROVE  Counts(r, Times(n, s), x, x, n * c)
<1> DEFINE ss == [k \in 1 .. n |-> s]
<1>1. ss \in Seq(Seq(Calls)) /\ Len(ss) = n /\ \A k \in 1 .. n : ss[k] = s
  OBVIOUS
<1> HIDE DEF ss
<1>2. Counts(r, FlattenSeq(ss), x, x, n * c)
  BY <1>1, CountsEach
<1> QED BY <1>2 DEF Times, ss

\* d[k]: the transfers of the k-th, S[k]: those of the first k.
LEMMA MeasuresChain ==
    ASSUME NEW r, NEW ss \in Seq(Seq(Calls)), NEW x, NEW S, NEW d,
           S[0] = 0,
           \A k \in 1 .. Len(ss) :
              /\ S[k - 1] \in Nat /\ d[k] \in Nat
              /\ S[k] = S[k - 1] + d[k]
              /\ Measures(r, ss[k], x[k - 1], x[k], d[k])
    PROVE  Measures(r, FlattenSeq(ss), x[0], x[Len(ss)], S[Len(ss)])
<1> DEFINE n == Len(ss)
<1>0. n \in Nat
  OBVIOUS
<1> SUFFICES ASSUME NEW t \in Nat
             PROVE  Walk(Moves(r), FlattenSeq(ss), St(x[0], Idle(t)), St(x[n], Idle(t + S[n])))
  BY DEF Measures
<1> DEFINE g == [k \in 0 .. n |-> St(x[k], Idle(t + S[k]))]
<1>1. ASSUME NEW k \in 1 .. n PROVE Walk(Moves(r), ss[k], g[k - 1], g[k])
  <2>1. k - 1 \in 0 .. n /\ k \in 0 .. n
    BY <1>0
  <2>2. t + S[k - 1] \in Nat /\ (t + S[k - 1]) + d[k] = t + S[k]
    OBVIOUS
  <2>3. Walk(Moves(r), ss[k], St(x[k - 1], Idle(t + S[k - 1])), St(x[k], Idle(t + S[k])))
    BY <2>2 DEF Measures
  <2> QED BY <2>1, <2>3
<1>2. g[0] = St(x[0], Idle(t)) /\ g[n] = St(x[n], Idle(t + S[n]))
  BY <1>0
<1> HIDE DEF g
<1> QED BY <1>1, <1>2, FlattenWalk

\* Each of the sequences adds c, and only the first changes the state.
LEMMA MeasuresEach ==
    ASSUME NEW r, NEW ss \in Seq(Seq(Calls)), NEW x, NEW y, NEW c \in Nat,
           x = y \/ Len(ss) # 0,
           \A k \in 1 .. Len(ss) : Measures(r, ss[k], x, y, c) /\ Measures(r, ss[k], y, y, c)
    PROVE  Measures(r, FlattenSeq(ss), x, y, Len(ss) * c)
<1> DEFINE n == Len(ss)
           S == [k \in 0 .. n |-> k * c]
           d == [k \in 1 .. n |-> c]
           z == [k \in 0 .. n |-> IF k = 0 THEN x ELSE y]
<1>0. n \in Nat
  OBVIOUS
<1>1. S[0] = 0 /\ z[0] = x /\ z[n] = y /\ S[n] = n * c
  BY <1>0
<1>2. ASSUME NEW k \in 1 .. n
      PROVE  /\ S[k - 1] \in Nat /\ d[k] \in Nat
             /\ S[k] = S[k - 1] + d[k]
             /\ Measures(r, ss[k], z[k - 1], z[k], d[k])
  <2>1. k - 1 \in 0 .. n /\ k \in 0 .. n /\ k - 1 \in Nat /\ k # 0
    BY <1>0
  <2>2. (k - 1) * c \in Nat /\ (k - 1) * c + c = k * c
    BY <2>1
  <2>3. S[k - 1] = (k - 1) * c /\ S[k] = k * c /\ d[k] = c
    BY <2>1
  <2>4. z[k] = y /\ z[k - 1] \in {x, y}
    BY <2>1
  <2> HIDE DEF S, d, z
  <2> QED BY <2>2, <2>3, <2>4
<1> HIDE DEF S, d, z
<1>3. Measures(r, FlattenSeq(ss), z[0], z[Len(ss)], S[Len(ss)])
  BY <1>1, <1>2, MeasuresChain
<1> QED BY <1>1, <1>3

\* A sequence that is repeated adds as often.
LEMMA MeasuresTimes ==
    ASSUME NEW r, NEW s \in Seq(Calls), NEW n \in Nat, NEW x, NEW y, NEW c \in Nat,
           x = y \/ n # 0,
           Measures(r, s, x, y, c), Measures(r, s, y, y, c)
    PROVE  Measures(r, Times(n, s), x, y, n * c)
<1> DEFINE ss == [k \in 1 .. n |-> s]
<1>1. ss \in Seq(Seq(Calls)) /\ Len(ss) = n /\ \A k \in 1 .. n : ss[k] = s
  OBVIOUS
<1> HIDE DEF ss
<1>2. Measures(r, FlattenSeq(ss), x, y, n * c)
  BY <1>1, MeasuresEach
<1> QED BY <1>2 DEF Times, ss

\* Repeating what adds nothing adds nothing.
LEMMA CalmTimes ==
    ASSUME NEW r, NEW s \in Seq(Calls), NEW n \in Nat, NEW x, Measures(r, s, x, x, 0)
    PROVE  Measures(r, Times(n, s), x, x, 0)
<1>1. Measures(r, Times(n, s), x, x, n * 0)
  BY MeasuresTimes
<1> QED BY <1>1

\* Repeating what counts nothing counts nothing.
LEMMA StillTimes ==
    ASSUME NEW r, NEW s \in Seq(Calls), NEW n \in Nat, NEW x, Counts(r, s, x, x, 0)
    PROVE  Counts(r, Times(n, s), x, x, 0)
<1>1. Counts(r, Times(n, s), x, x, n * 0)
  BY CountsTimes
<1> QED BY <1>1

\* A list of sequences that add nothing.
LEMMA CalmEach ==
    ASSUME NEW r, NEW ss \in Seq(Seq(Calls)), NEW x,
           \A k \in 1 .. Len(ss) : Measures(r, ss[k], x, x, 0)
    PROVE  Measures(r, FlattenSeq(ss), x, x, 0)
<1>1. Measures(r, FlattenSeq(ss), x, x, Len(ss) * 0)
  BY MeasuresEach
<1> QED BY <1>1

\* A loop over the iterations.
Turns == Skip + Iters

\* The iterations: Skip that warm up, and Iters that are measured.
LEMMA TurnsType == Turns \in Nat \ {0} /\ Skip \in Nat /\ Iters \in Nat \ {0} /\ Turns - Skip = Iters
BY SkipAssumption, ItersAssumption DEF Turns

\* The clock is started in the first measured iteration and goes on.
LEMMA LoopBegins ==
    ASSUME NEW r, NEW ss \in Seq(Seq(Calls)), Len(ss) = Turns, NEW x, NEW y, NEW c \in Nat,
           \A k \in 1 .. Turns : Begins(r, ss[k], x, y, c, k - 1) /\ Begins(r, ss[k], y, y, c, k - 1)
    PROVE  Runs(r, FlattenSeq(ss), x, y, Iters * c)
<1> SUFFICES ASSUME NEW t \in Nat
             PROVE  Walk(Moves(r), FlattenSeq(ss), St(x, Idle(t)), St(y, Running(Iters * c, t)))
  BY DEF Runs
<1> DEFINE z == [k \in 0 .. Turns |-> IF k = 0 THEN x ELSE y]
           g == [k \in 0 .. Turns |->
                    St(z[k], IF k <= Skip THEN Idle(t) ELSE Running((k - Skip) * c, t))]
<1>1. ASSUME NEW k \in 1 .. Turns PROVE Walk(Moves(r), ss[k], g[k - 1], g[k])
  <2>1. k - 1 \in 0 .. Turns /\ k \in 0 .. Turns /\ z[k] = y /\ z[k - 1] \in {x, y}
    BY TurnsType
  <2>2. Begins(r, ss[k], z[k - 1], y, c, k - 1)
    <3> HIDE DEF z
    <3> QED BY <2>1
  <2>3. CASE k - 1 < Skip
    <3>1. k - 1 <= Skip /\ k <= Skip /\ t + 0 = t
      BY <2>1, <2>3, TurnsType
    <3>2. g[k - 1] = St(z[k - 1], Idle(t)) /\ g[k] = St(y, Idle(t))
      BY <2>1, <3>1
    <3>3. Measures(r, ss[k], z[k - 1], y, 0)
      BY <2>2, <2>3 DEF Begins
    <3> HIDE DEF z, g
    <3> QED BY <3>1, <3>2, <3>3 DEF Measures
  <2>4. CASE k - 1 = Skip
    <3>1. k - 1 <= Skip /\ ~(k <= Skip) /\ (k - Skip) * c = c
      BY <2>1, <2>4, TurnsType
    <3>2. g[k - 1] = St(z[k - 1], Idle(t)) /\ g[k] = St(y, Running(c, t))
      BY <2>1, <3>1
    <3>3. Runs(r, ss[k], z[k - 1], y, c)
      BY <2>2, <2>4 DEF Begins
    <3> HIDE DEF z, g
    <3> QED BY <3>2, <3>3 DEF Runs
  <2>5. CASE k - 1 > Skip
    <3>1. ~(k - 1 <= Skip) /\ ~(k <= Skip)
      BY <2>1, <2>5, TurnsType
    <3> DEFINE m == (k - 1) - Skip
    <3>2. m \in Nat /\ k - Skip = m + 1 /\ (k - 1) - Skip = m
      BY <2>1, <2>5, TurnsType
    <3> HIDE DEF m
    <3>3. m * c \in Nat /\ (m + 1) * c = m * c + c
      BY <3>2
    <3>4. g[k - 1] = St(z[k - 1], Running(m * c, t)) /\ g[k] = St(y, Running(m * c + c, t))
      BY <2>1, <3>1, <3>2, <3>3
    <3>5. Counts(r, ss[k], z[k - 1], y, c)
      BY <2>2, <2>5 DEF Begins
    <3>6. Running(m * c, t) \in Clocks
      BY <3>3, Typical
    <3>7. Plus(Running(m * c, t), c) = Running(m * c + c, t)
      BY DEF Plus, Running
    <3> HIDE DEF z, g
    <3> QED BY <3>4, <3>5, <3>6, <3>7 DEF Counts
  <2> HIDE DEF z, g
  <2> QED BY <2>1, <2>3, <2>4, <2>5, TurnsType
<1>2. g[0] = St(x, Idle(t)) /\ g[Turns] = St(y, Running(Iters * c, t))
  BY TurnsType
<1> HIDE DEF g
<1> QED BY <1>1, <1>2, FlattenWalk

\* As before, and the clock is stopped in the last one.
LEMMA LoopOnce ==
    ASSUME NEW r, NEW ss \in Seq(Seq(Calls)), Len(ss) = Turns, NEW x \in Outside, NEW c \in Nat,
           NEW tt, \A k \in 1 .. Turns : Begins(r, tt[k], x, x, c, k - 1),
           \A k \in 1 .. Turns : ss[k] = tt[k] \o StopOnce(k - 1)
    PROVE  Measures(r, FlattenSeq(ss), x, x, Iters * c)
<1> SUFFICES ASSUME NEW t \in Nat
             PROVE  Walk(Moves(r), FlattenSeq(ss), St(x, Idle(t)), St(x, Idle(t + Iters * c)))
  BY DEF Measures
<1> DEFINE g == [k \in 0 .. Turns |->
                    IF k = Turns THEN St(x, Idle(t + Iters * c))
                    ELSE St(x, IF k <= Skip THEN Idle(t) ELSE Running((k - Skip) * c, t))]
<1>1. ASSUME NEW k \in 1 .. Turns PROVE Walk(Moves(r), ss[k], g[k - 1], g[k])
  <2>1. /\ k - 1 \in 0 .. Turns /\ k \in 0 .. Turns /\ k - 1 # Turns /\ k - 1 \in Nat
        /\ Begins(r, tt[k], x, x, c, k - 1)
    BY TurnsType
  <2> DEFINE m == IF k - 1 <= Skip THEN 0 ELSE (k - 1) - Skip
  <2>2. m \in Nat /\ m * c \in Nat /\ (m + 1) * c = m * c + c
    BY <2>1, TurnsType
  <2>3. g[k - 1] = St(x, IF k - 1 <= Skip THEN Idle(t) ELSE Running(m * c, t))
    BY <2>1
  <2>4. k - 1 >= Skip => k - Skip = m + 1
    BY <2>1, TurnsType
  <2> HIDE DEF m
  <2>5. k - 1 >= Skip => Walk(Moves(r), tt[k], g[k - 1], St(x, Running(m * c + c, t)))
    <3>1. CASE k - 1 = Skip
      <4>1. k - 1 <= Skip /\ m * c + c = c
        BY <2>1, <3>1, TurnsType DEF m
      <4>2. Runs(r, tt[k], x, x, c)
        BY <2>1, <3>1 DEF Begins
      <4> HIDE DEF g
      <4> QED BY <2>3, <4>1, <4>2 DEF Runs
    <3>2. CASE k - 1 > Skip
      <4>1. ~(k - 1 <= Skip)
        BY <2>1, <3>2, TurnsType
      <4>2. Counts(r, tt[k], x, x, c)
        BY <2>1, <3>2 DEF Begins
      <4>3. Running(m * c, t) \in Clocks
        BY <2>2, Typical
      <4>4. Plus(Running(m * c, t), c) = Running(m * c + c, t)
        BY DEF Plus, Running
      <4> HIDE DEF g
      <4> QED BY <2>3, <4>1, <4>2, <4>3, <4>4 DEF Counts
    <3> HIDE DEF g
    <3> QED BY <2>1, <3>1, <3>2, TurnsType
  <2>6. CASE k # Turns
    <3>1. ~LastOne(k - 1)
      BY <2>1, <2>6, TurnsType DEF LastOne, Turns
    <3>2. ss[k] = tt[k] \o <<>>
      BY <3>1 DEF StopOnce, Given
    <3>3. CASE k - 1 < Skip
      <4>1. k - 1 <= Skip /\ k <= Skip /\ t + 0 = t
        BY <2>1, <3>3, TurnsType
      <4>2. g[k - 1] = St(x, Idle(t)) /\ g[k] = St(x, Idle(t))
        BY <2>1, <2>6, <4>1
      <4>3. Measures(r, tt[k], x, x, 0)
        BY <2>1, <3>3 DEF Begins
      <4>4. Measures(r, ss[k], x, x, 0)
        BY <3>2, <4>3, Nothing, CalmOn
      <4> HIDE DEF g
      <4> QED BY <4>1, <4>2, <4>4 DEF Measures
    <3>4. CASE k - 1 >= Skip
      <4>1. ~(k <= Skip) /\ k - Skip = m + 1
        BY <2>1, <2>4, <3>4, TurnsType
      <4>2. g[k] = St(x, Running(m * c + c, t))
        BY <2>1, <2>2, <2>6, <4>1
      <4>3. Walk(Moves(r), tt[k], g[k - 1], g[k])
        BY <2>5, <3>4, <4>2
      <4> HIDE DEF g
      <4> QED BY <3>2, <4>3, WalkNowhere, WalkOn
    <3> HIDE DEF g
    <3> QED BY <2>1, <3>3, <3>4, TurnsType
  <2>7. CASE k = Turns
    <3>1. LastOne(k - 1) /\ k - 1 >= Skip /\ k - Skip = Iters
      BY <2>1, <2>7, TurnsType DEF LastOne, Turns
    <3>2. ss[k] = tt[k] \o (StopClock \o Sample)
      BY <3>1 DEF StopOnce, Given
    <3>3. m * c + c = Iters * c
      BY <2>2, <2>4, <3>1
    <3>4. g[k] = St(x, Idle(t + (m * c + c)))
      BY <2>7, <3>3, TurnsType
    <3>5. Walk(Moves(r), tt[k], g[k - 1], St(x, Running(m * c + c, t)))
      BY <2>5, <3>1
    <3> DEFINE n == m * c + c
    <3>6. n \in Nat
      BY <2>2
    <3> HIDE DEF g, n
    <3>7. Walk(Moves(r), StopClock \o Sample, St(x, Running(n, t)), St(x, Idle(t + n)))
      <4>1. /\ Walk(Moves(r), StopClock, St(x, Running(n, t)), St(x, Stopped(n, t)))
            /\ Walk(Moves(r), Sample, St(x, Stopped(n, t)), St(x, Idle(t + n)))
        BY <3>6, Ending
      <4> QED BY <4>1, WalkOn
    <3> QED BY <3>2, <3>4, <3>5, <3>7, WalkOn DEF n
  <2> QED BY <2>6, <2>7
<1>2. g[0] = St(x, Idle(t)) /\ g[Turns] = St(x, Idle(t + Iters * c))
  BY TurnsType
<1> HIDE DEF g
<1> QED BY <1>1, <1>2, FlattenWalk

\* Every measured iteration adds its own sample.
LEMMA LoopSampled ==
    ASSUME NEW r, NEW ss \in Seq(Seq(Calls)), Len(ss) = Turns, NEW z, NEW c \in Nat,
           \A k \in 1 .. Turns :
               Measures(r, ss[k], z[k - 1], z[k], IF Measured(k - 1) THEN c ELSE 0)
    PROVE  Measures(r, FlattenSeq(ss), z[0], z[Turns], Iters * c)
<1> DEFINE S == [k \in 0 .. Turns |-> IF k <= Skip THEN 0 ELSE (k - Skip) * c]
           d == [k \in 1 .. Turns |-> IF Measured(k - 1) THEN c ELSE 0]
<1>1. ASSUME NEW k \in 1 .. Turns
      PROVE  S[k - 1] \in Nat /\ d[k] \in Nat /\ S[k] = S[k - 1] + d[k]
  <2>1. k - 1 \in 0 .. Turns /\ k \in 0 .. Turns /\ k - 1 \in Nat /\ k \in Nat
    BY TurnsType
  <2>2. CASE k - 1 < Skip
    <3>1. k - 1 <= Skip /\ k <= Skip /\ ~Measured(k - 1)
      BY <2>1, <2>2, TurnsType DEF Measured
    <3> QED BY <2>1, <3>1
  <2>3. CASE k - 1 >= Skip
    <3>1. ~(k <= Skip) /\ Measured(k - 1)
      BY <2>1, <2>3, TurnsType DEF Measured
    <3> DEFINE m == (k - 1) - Skip
    <3>2. m \in Nat /\ k - Skip = m + 1 /\ (k - 1) - Skip = m /\ (k - 1 <= Skip => m = 0)
      BY <2>1, <2>3, TurnsType
    <3> HIDE DEF m
    <3>3. m * c \in Nat /\ (m + 1) * c = m * c + c /\ (k - 1 <= Skip => m * c = 0)
      BY <3>2
    <3>4. S[k] = m * c + c /\ d[k] = c
      BY <2>1, <3>1, <3>2, <3>3
    <3>5. S[k - 1] = m * c
      <4>1. S[k - 1] = IF k - 1 <= Skip THEN 0 ELSE ((k - 1) - Skip) * c
        BY <2>1
      <4> HIDE DEF S
      <4> QED BY <3>2, <3>3, <4>1
    <3> QED BY <3>3, <3>4, <3>5
  <2> HIDE DEF S, d
  <2> QED BY <2>1, <2>2, <2>3, TurnsType
<1>2. \A k \in 1 .. Turns : d[k] = IF Measured(k - 1) THEN c ELSE 0
  OBVIOUS
<1>3. S[0] = 0 /\ S[Turns] = Iters * c
  BY TurnsType
<1> HIDE DEF S, d
<1>4. Measures(r, FlattenSeq(ss), z[0], z[Len(ss)], S[Len(ss)])
  BY <1>1, <1>2, <1>3, MeasuresChain
<1> QED BY <1>3, <1>4

\* Whatever counts, measures, runs, halts or begins is a sequence of calls.
LEMMA AreCalls ==
    ASSUME NEW r, NEW s, NEW x, NEW y, NEW n
    PROVE  /\ Counts(r, s, x, y, n) => s \in Seq(Calls)
           /\ Measures(r, s, x, y, n) => s \in Seq(Calls)
           /\ Runs(r, s, x, y, n) => s \in Seq(Calls)
           /\ Halts(r, s, x, y, n) => s \in Seq(Calls)
           /\ \A i \in Int : Begins(r, s, x, y, n, i) => s \in Seq(Calls)
<1>1. Idle(0) \in Clocks /\ 0 \in Nat
  BY Typical
<1>2. ASSUME NEW M, NEW u, NEW w, Walk(M, s, u, w) PROVE s \in Seq(Calls)
  BY <1>2 DEF Walk
<1>3. Counts(r, s, x, y, n) => s \in Seq(Calls)
  BY <1>1, <1>2 DEF Counts
<1>4. Measures(r, s, x, y, n) => s \in Seq(Calls)
  BY <1>1, <1>2 DEF Measures
<1>5. Measures(r, s, x, y, 0) => s \in Seq(Calls)
  BY <1>1, <1>2 DEF Measures
<1>6. Runs(r, s, x, y, n) => s \in Seq(Calls)
  BY <1>1, <1>2 DEF Runs
<1>7. Halts(r, s, x, y, n) => s \in Seq(Calls)
  BY <1>1, <1>2 DEF Halts
<1>8. \A i \in Int : Begins(r, s, x, y, n, i) => s \in Seq(Calls)
  BY <1>3, <1>5, <1>6, TurnsType DEF Begins
<1> QED BY <1>3, <1>4, <1>6, <1>7, <1>8

\* Messages that are measured, replies that are not, and what waits for them.
LEMMA Transfers ==
    ASSUME NEW r, NEW x \in Outside, NEW p \in Nat, NEW tag \in Tags, NEW n \in Nat \ {0}
    PROVE  /\ Counts(r, Send(p, tag, n), x, x, 1) /\ Counts(r, Recv(p, tag, n), x, x, 1)
           /\ Counts(r, ISend(p, tag, n), x, x, 1) /\ Counts(r, IRecv(p, tag, n), x, x, 1)
           /\ Counts(r, Send(p, tag, ReplySize), x, x, 0)
           /\ Counts(r, Recv(p, tag, ReplySize), x, x, 0)
           /\ Counts(r, ISend(p, tag, ReplySize), x, x, 0)
           /\ Counts(r, IRecv(p, tag, ReplySize), x, x, 0)
<1>1. n \in Nat /\ n # ReplySize /\ ReplySize \in Nat
  BY DEF ReplySize
<1>2. /\ Counts(r, Send(p, tag, n), x, x, 1) /\ Counts(r, Recv(p, tag, n), x, x, 1)
      /\ Counts(r, ISend(p, tag, n), x, x, 1) /\ Counts(r, IRecv(p, tag, n), x, x, 1)
  BY <1>1, Messages, SendsAndReceives
<1>3. /\ Counts(r, Send(p, tag, ReplySize), x, x, 0)
      /\ Counts(r, Recv(p, tag, ReplySize), x, x, 0)
      /\ Counts(r, ISend(p, tag, ReplySize), x, x, 0)
      /\ Counts(r, IRecv(p, tag, ReplySize), x, x, 0)
  BY <1>1, Messages, SendsAndReceives
<1> QED BY <1>2, <1>3

\* The iterations are counted from 0.
LEMMA IterationsAre ==
    /\ Len(Iterations) = Turns
    /\ \A k \in 1 .. Turns : /\ Iterations[k] = k - 1
                             /\ k - 1 \in 0 .. Skip + Iters - 1 /\ k - 1 \in Nat
BY TurnsType DEF Iterations, Turns

\* Sizes and windows are positive, and no size is the one of a reply.
LEMMA SizesAre ==
    /\ Len(Sizes) \in Nat \ {0}
    /\ \A k \in 1 .. Len(Sizes) : Sizes[k] \in Nat \ {0} /\ Sizes[k] # ReplySize
    /\ Len(Windows) \in Nat \ {0}
    /\ \A k \in 1 .. Len(Windows) : Windows[k] \in Nat \ {0}
    /\ Head(Windows) \in Nat \ {0}
BY SizesAssumption, WindowsAssumption DEF ReplySize

\* Calls that an option asks for, if they count nothing.
LEMMA GivenCalls ==
    ASSUME NEW r, NEW x, NEW c, NEW s
    PROVE  /\ (c => Counts(r, s, x, x, 0)) => Counts(r, Given(c, s), x, x, 0)
           /\ (c => Measures(r, s, x, x, 0)) => Measures(r, Given(c, s), x, x, 0)
BY Nothing DEF Given

\* The same for every size.
LEMMA EverySize ==
    ASSUME NEW r, NEW ss \in Seq(Seq(Calls)), NEW x, NEW c \in Nat,
           \A k \in 1 .. Len(ss) : Measures(r, ss[k], x, x, Iters * c)
    PROVE  Measures(r, FlattenSeq(ss), x, x, Iters * Len(ss) * c)
<1>1. Iters * c \in Nat /\ Len(ss) \in Nat /\ Len(ss) * (Iters * c) = Iters * Len(ss) * c
  BY TurnsType
<1>2. Measures(r, FlattenSeq(ss), x, x, Len(ss) * (Iters * c))
  BY <1>1, MeasuresEach
<1> QED BY <1>1, <1>2

\* The exchange is repeated; only the last repetition is sampled.
LEMMA Repeated ==
    ASSUME NEW r, NEW s \in Seq(Calls), NEW x \in Outside, NEW w \in Nat, NEW c \in Nat,
           Measures(r, s, x, x, 0), Halts(r, s, x, x, c), NEW sampled \in BOOLEAN
    PROVE  Measures(r, Times(w + 1, s) \o Given(sampled, Sample), x, x, IF sampled THEN c ELSE 0)
<1> DEFINE ss == [k \in 1 .. w + 1 |-> s]
<1>1. ss \in Seq(Seq(Calls)) /\ Len(ss) = w + 1 /\ \A k \in 1 .. w + 1 : ss[k] = s
  OBVIOUS
<1>2. Times(w + 1, s) = FlattenSeq(ss)
  BY DEF Times
<1> HIDE DEF ss
<1>3. CASE ~sampled
  <2>1. Measures(r, Times(w + 1, s), x, x, 0)
    BY CalmTimes
  <2>2. Given(sampled, Sample) = <<>>
    BY <1>3 DEF Given
  <2> QED BY <1>3, <2>1, <2>2, Nothing, CalmOn
<1>4. CASE sampled
  <2>1. Halts(r, Times(w + 1, s), x, x, c)
    <3> SUFFICES ASSUME NEW t \in Nat
                 PROVE  Walk(Moves(r), FlattenSeq(ss), St(x, Idle(t)), St(x, Stopped(c, t)))
      BY <1>2 DEF Halts
    <3> DEFINE g == [k \in 0 .. w + 1 |-> IF k = w + 1 THEN St(x, Stopped(c, t)) ELSE St(x, Idle(t))]
    <3>1. ASSUME NEW k \in 1 .. w + 1 PROVE Walk(Moves(r), s, g[k - 1], g[k])
      <4>1. g[k - 1] = St(x, Idle(t)) /\ t + 0 = t
        OBVIOUS
      <4>2. CASE k = w + 1
        <5>1. g[k] = St(x, Stopped(c, t))
          BY <4>2
        <5> HIDE DEF g
        <5> QED BY <4>1, <5>1 DEF Halts
      <4>3. CASE k # w + 1
        <5>1. g[k] = St(x, Idle(t))
          BY <4>3
        <5> HIDE DEF g
        <5> QED BY <4>1, <5>1 DEF Measures
      <4> QED BY <4>2, <4>3
    <3>2. g[0] = St(x, Idle(t)) /\ g[w + 1] = St(x, Stopped(c, t))
      OBVIOUS
    <3> HIDE DEF g
    <3> QED BY <1>1, <3>1, <3>2, FlattenWalk
  <2>2. Given(sampled, Sample) = Sample
    BY <1>4 DEF Given
  <2> QED BY <1>4, <2>1, <2>2, Sampling
<1> QED BY <1>3, <1>4

\* A loop, as a sequence of what its rounds do.
IsLoop(ss, n) == ss = [k \in 1 .. n |-> ss[k]]

\* A loop is a list of sequences of calls.
LEMMA LoopType ==
    ASSUME NEW ss, NEW n \in Nat, IsLoop(ss, n), NEW H, \A k \in 1 .. n : ss[k] \in Seq(H)
    PROVE  ss \in Seq(Seq(H)) /\ Len(ss) = n
<1> DEFINE f == [k \in 1 .. n |-> ss[k]]
<1>1. f \in Seq(Seq(H)) /\ Len(f) = n
  OBVIOUS
<1> QED BY <1>1 DEF IsLoop

\* What an iteration does that ends the interval if it is the last one.
Ends(r, s, x, c, i) == \E t : Begins(r, t, x, x, c, i) /\ s = t \o StopOnce(i)

\* Stopping the clock in the last iteration is a sequence of calls.
LEMMA StopOnceType == ASSUME NEW i PROVE StopOnce(i) \in Seq(Calls)
<1>1. [op |-> "stop"] \in Calls /\ [op |-> "sample"] \in Calls
  BY DEF Calls, Plain
<1>2. StopClock \in Seq(Calls) /\ Sample \in Seq(Calls)
  BY <1>1 DEF StopClock, Sample
<1>3. StopClock \o Sample \in Seq(Calls)
  BY <1>2, ConcatProperties
<1> QED BY <1>3 DEF StopOnce, Given

\* A loop that starts the clock counts c in each measured iteration.
LEMMA StartedLoop ==
    ASSUME NEW r, NEW ss, IsLoop(ss, Len(Iterations)), NEW x, NEW y, NEW c \in Nat,
           \A k \in 1 .. Len(Iterations) :
               Begins(r, ss[k], x, y, c, Iterations[k]) /\ Begins(r, ss[k], y, y, c, Iterations[k])
    PROVE  Runs(r, FlattenSeq(ss), x, y, Iters * c)
<1>1. ASSUME NEW k \in 1 .. Turns PROVE ss[k] \in Seq(Calls)
  <2>1. k \in 1 .. Len(Iterations) /\ Iterations[k] \in Int
    BY IterationsAre
  <2> QED BY <2>1, AreCalls
<1>2. ss \in Seq(Seq(Calls)) /\ Len(ss) = Turns
  BY <1>1, IterationsAre, TurnsType, LoopType
<1>3. ASSUME NEW k \in 1 .. Turns
      PROVE  Begins(r, ss[k], x, y, c, k - 1) /\ Begins(r, ss[k], y, y, c, k - 1)
  <2>1. k \in 1 .. Len(Iterations) /\ Iterations[k] = k - 1
    BY IterationsAre
  <2> QED BY <2>1
<1> QED BY <1>2, <1>3, LoopBegins

\* A loop that also stops it adds what it has counted.
LEMMA ClosedLoop ==
    ASSUME NEW r, NEW ss, IsLoop(ss, Len(Iterations)), NEW x \in Outside, NEW c \in Nat,
           \A k \in 1 .. Len(Iterations) : Ends(r, ss[k], x, c, Iterations[k])
    PROVE  Measures(r, FlattenSeq(ss), x, x, Iters * c)
<1> DEFINE tt == [k \in 1 .. Turns |-> CHOOSE t : Begins(r, t, x, x, c, k - 1) /\ ss[k] = t \o StopOnce(k - 1)]
<1>1. \A k \in 1 .. Turns : Begins(r, tt[k], x, x, c, k - 1) /\ ss[k] = tt[k] \o StopOnce(k - 1)
  BY IterationsAre DEF Ends
<1> HIDE DEF tt
<1>2. \A k \in 1 .. Turns : ss[k] \in Seq(Calls)
  <2> SUFFICES ASSUME NEW k \in 1 .. Turns PROVE ss[k] \in Seq(Calls)
    OBVIOUS
  <2>1. k - 1 \in Int
    BY TurnsType
  <2>2. tt[k] \in Seq(Calls)
    BY <1>1, <2>1, AreCalls
  <2>3. ss[k] = tt[k] \o StopOnce(k - 1)
    BY <1>1
  <2>4. StopOnce(k - 1) \in Seq(Calls)
    BY StopOnceType
  <2>5. tt[k] \o StopOnce(k - 1) \in Seq(Calls)
    BY <2>2, <2>4, ConcatProperties
  <2> QED BY <2>3, <2>5
<1>3. ss \in Seq(Seq(Calls)) /\ Len(ss) = Turns
  BY <1>2, IterationsAre, TurnsType, LoopType
<1> QED BY <1>1, <1>3, LoopOnce

\* A loop that samples each measured iteration.
LEMMA SampledLoop ==
    ASSUME NEW r, NEW ss, IsLoop(ss, Len(Iterations)), NEW x, NEW c \in Nat,
           \A k \in 1 .. Len(Iterations) :
               Measures(r, ss[k], x, x, IF Measured(Iterations[k]) THEN c ELSE 0)
    PROVE  Measures(r, FlattenSeq(ss), x, x, Iters * c)
<1>1. \A k \in 1 .. Turns : ss[k] \in Seq(Calls)
  BY IterationsAre, AreCalls
<1>2. ss \in Seq(Seq(Calls)) /\ Len(ss) = Turns
  BY <1>1, IterationsAre, TurnsType, LoopType
<1> DEFINE z == [k \in 0 .. Turns |-> x]
<1>3. z[0] = x /\ z[Turns] = x /\ \A k \in 1 .. Turns : z[k - 1] = x /\ z[k] = x
  BY TurnsType
<1> HIDE DEF z
<1>4. \A k \in 1 .. Turns : Measures(r, ss[k], z[k - 1], z[k], IF Measured(k - 1) THEN c ELSE 0)
  BY <1>3, IterationsAre
<1>5. Measures(r, FlattenSeq(ss), z[0], z[Turns], Iters * c)
  BY <1>2, <1>4, LoopSampled
<1> QED BY <1>3, <1>5

\* A loop that adds nothing.
LEMMA CalmLoop ==
    ASSUME NEW r, NEW n \in Nat, NEW ss, IsLoop(ss, n), NEW x,
           \A k \in 1 .. n : Measures(r, ss[k], x, x, 0)
    PROVE  Measures(r, FlattenSeq(ss), x, x, 0)
<1>1. \A k \in 1 .. n : ss[k] \in Seq(Calls)
  BY AreCalls
<1>2. ss \in Seq(Seq(Calls)) /\ Len(ss) = n
  BY <1>1, LoopType
<1> QED BY <1>2, CalmEach

\* A loop whose rounds count the same.
LEMMA StillLoop ==
    ASSUME NEW r, NEW n \in Nat, NEW ss, IsLoop(ss, n), NEW x, NEW c \in Nat,
           \A k \in 1 .. n : Counts(r, ss[k], x, x, c)
    PROVE  Counts(r, FlattenSeq(ss), x, x, n * c)
<1>1. \A k \in 1 .. n : ss[k] \in Seq(Calls)
  BY AreCalls
<1>2. ss \in Seq(Seq(Calls)) /\ Len(ss) = n
  BY <1>1, LoopType
<1> QED BY <1>2, CountsEach

\* What a benchmark counts with c transfers in every measured iteration.
Total(c) == Iters * Len(Sizes) * c

\* The number of transfers a benchmark measures is a number.
LEMMA TotalType ==
    /\ \A c \in Nat : Total(c) \in Nat
    /\ Total(0) = 0
BY SizesAre, TurnsType DEF Total

\* The loop over the sizes.
LEMMA SizeLoop ==
    ASSUME NEW r, NEW ss, IsLoop(ss, Len(Sizes)), NEW x, NEW c \in Nat,
           \A k \in 1 .. Len(Sizes) : Measures(r, ss[k], x, x, Iters * c)
    PROVE  Measures(r, FlattenSeq(ss), x, x, Total(c))
<1>1. \A k \in 1 .. Len(Sizes) : ss[k] \in Seq(Calls)
  BY AreCalls
<1>2. ss \in Seq(Seq(Calls)) /\ Len(ss) = Len(Sizes)
  BY <1>1, SizesAre, LoopType
<1> QED BY <1>2, EverySize DEF Total

\* The same, when no size depends on the others.
LEMMA SizeTimes ==
    ASSUME NEW r, NEW s, NEW x, NEW c \in Nat, Measures(r, s, x, x, Iters * c)
    PROVE  Measures(r, Times(Len(Sizes), s), x, x, Total(c))
<1> DEFINE ss == [k \in 1 .. Len(Sizes) |-> s]
<1>1. IsLoop(ss, Len(Sizes)) /\ \A k \in 1 .. Len(Sizes) : ss[k] = s
  BY DEF IsLoop
<1>2. Times(Len(Sizes), s) = FlattenSeq(ss)
  BY DEF Times
<1> HIDE DEF ss
<1> QED BY <1>1, <1>2, SizeLoop

-----------------------------------------------------------------------------
(* The point-to-point benchmarks in Java. *)

\* Being alone in the rank includes being outside a collective operation.
LEMMA AloneOutside == Alone \subseteq Outside /\ Outside \subseteq Locals
BY DEF Alone, Outside

\* Filling and checking the buffers in the Java benchmarks counts nothing.
LEMMA JavaPieces ==
    ASSUME NEW r, NEW x \in Outside, NEW v \in BOOLEAN
    PROVE  Counts(r, JavaFill(v), x, x, 0) /\ Counts(r, JavaCheck(v), x, x, 0)
<1>1. 0 \in 0 .. Skip + Iters - 1
  BY TurnsType
<1> QED BY <1>1, Harmlessly, GivenCalls DEF JavaFill, JavaCheck

\* Messages that count, replies, and what waits for them.
LEMMA Talking ==
    ASSUME NEW r, NEW x \in Outside, NEW p \in Nat, NEW n \in Nat \ {0},
           NEW tag \in {"998", "100", "101", "10", "1", "", "ping", "pong"}
    PROVE  /\ Counts(r, Send(p, tag, n), x, x, 1) /\ Counts(r, Recv(p, tag, n), x, x, 1)
           /\ Counts(r, ISend(p, tag, n), x, x, 1) /\ Counts(r, IRecv(p, tag, n), x, x, 1)
           /\ Counts(r, Send(p, tag, ReplySize), x, x, 0)
           /\ Counts(r, Recv(p, tag, ReplySize), x, x, 0)
           /\ Counts(r, ISend(p, tag, ReplySize), x, x, 0)
           /\ Counts(r, IRecv(p, tag, ReplySize), x, x, 0)
           /\ Counts(r, Wait("isend"), x, x, 0) /\ Counts(r, Wait("irecv"), x, x, 0)
BY Transfers, Waits DEF Tags

\* A transfer n times is n transfers.
LEMMA OneEach ==
    ASSUME NEW r, NEW s, NEW x, NEW n \in Nat, Counts(r, s, x, x, 1)
    PROVE  Counts(r, Times(n, s), x, x, n)
<1>1. n * 1 = n
  OBVIOUS
<1>2. Counts(r, Times(n, s), x, x, n * 1)
  BY AreCalls, CountsTimes
<1> QED BY <1>1, <1>2

\* A window of n messages.
LEMMA Windowed ==
    ASSUME NEW r, NEW x \in Outside, NEW p \in Nat, NEW s \in Nat \ {0}, NEW n \in Nat,
           NEW tag \in {"998", "100", "101", "10", "1", "", "ping", "pong"}
    PROVE  /\ Counts(r, Times(n, ISend(p, tag, s)), x, x, n)
           /\ Counts(r, Times(n, IRecv(p, tag, s)), x, x, n)
<1>1. Counts(r, ISend(p, tag, s), x, x, 1) /\ Counts(r, IRecv(p, tag, s), x, x, 1)
  BY Talking
<1> QED BY <1>1, OneEach

\* The warm-up loop of the Java benchmarks adds nothing.
LEMMA JavaWarmupCalm ==
    ASSUME NEW r \in Nat, NEW x \in Outside
    PROVE  Measures(r, JavaWarmupLoop(r), x, x, 0)
<1> DEFINE s == IF r = 0 THEN Recv(1, "998", WarmupSize) \o Send(1, "998", WarmupSize)
                ELSE Send(0, "998", WarmupSize) \o Recv(0, "998", WarmupSize)
<1>1. WarmupSize \in Nat \ {0}
  BY DEF WarmupSize
<1>2. ASSUME NEW p \in Nat
      PROVE  Measures(r, Send(p, "998", WarmupSize), x, x, 0) /\ Measures(r, Recv(p, "998", WarmupSize), x, x, 0)
  BY <1>1, Talking, CountsAtRest
<1>3. Measures(r, s, x, x, 0)
  BY <1>2, CalmOn
<1> HIDE DEF s
<1>4. Measures(r, Times(InitialWarmup, s), x, x, 0)
  BY <1>3, AreCalls, CalmTimes, InitialWarmupAssumption
<1> QED BY <1>4 DEF JavaWarmupLoop, s

\* The loops that JavaSizes makes of what an iteration does.
LEMMA JavaMeasures ==
    ASSUME NEW r, NEW x \in Alone, NEW c \in Nat, NEW ss, IsLoop(ss, Len(Sizes)),
           \A k \in 1 .. Len(Sizes) : \E inner :
               /\ IsLoop(inner, Len(Iterations)) /\ ss[k] = FlattenSeq(inner) \o Barrier
               /\ \A j \in 1 .. Len(Iterations) : Ends(r, inner[j], x, c, Iterations[j])
    PROVE  Measures(r, FlattenSeq(ss), x, x, Total(c))
<1>1. Measures(r, Barrier, x, x, 0)
  BY Barriers, CountsAtRest
<1>2. ASSUME NEW k \in 1 .. Len(Sizes)
      PROVE  Measures(r, ss[k], x, x, Iters * c)
  <2>1. PICK inner : /\ IsLoop(inner, Len(Iterations)) /\ ss[k] = FlattenSeq(inner) \o Barrier
                     /\ \A j \in 1 .. Len(Iterations) : Ends(r, inner[j], x, c, Iterations[j])
    OBVIOUS
  <2>2. Measures(r, FlattenSeq(inner), x, x, Iters * c)
    BY <2>1, ClosedLoop, AloneOutside
  <2>3. Iters * c \in Nat /\ Iters * c + 0 = Iters * c
    BY TurnsType
  <2>4. Measures(r, FlattenSeq(inner) \o Barrier, x, x, Iters * c + 0)
    BY <1>1, <2>2, <2>3, MeasuresOn
  <2> QED BY <2>1, <2>3, <2>4
<1> QED BY <1>2, SizeLoop

\* What JavaSizes makes of a rank that measures nothing.
LEMMA JavaCalm ==
    ASSUME NEW r, NEW x \in Alone, NEW ss, IsLoop(ss, Len(Sizes)),
           \A k \in 1 .. Len(Sizes) : \E inner :
               /\ IsLoop(inner, Len(Iterations)) /\ ss[k] = FlattenSeq(inner) \o Barrier
               /\ \A j \in 1 .. Len(Iterations) : Measures(r, inner[j], x, x, 0)
    PROVE  Measures(r, FlattenSeq(ss), x, x, 0)
<1>1. Measures(r, Barrier, x, x, 0)
  BY Barriers, CountsAtRest
<1>2. ASSUME NEW k \in 1 .. Len(Sizes)
      PROVE  Measures(r, ss[k], x, x, 0)
  <2>1. PICK inner : /\ IsLoop(inner, Len(Iterations)) /\ ss[k] = FlattenSeq(inner) \o Barrier
                     /\ \A j \in 1 .. Len(Iterations) : Measures(r, inner[j], x, x, 0)
    OBVIOUS
  <2>2. Measures(r, FlattenSeq(inner), x, x, 0)
    BY <2>1, CalmLoop, IterationsAre, TurnsType
  <2> QED BY <1>1, <2>1, <2>2, CalmOn
<1> QED BY <1>2, CalmLoop, SizesAre

\* A call of the later iterations changes no interval that has begun.
LEMMA LaterOnly ==
    ASSUME NEW r, NEW s, NEW t, NEW x, NEW y, NEW z, NEW n \in Nat,
           Measures(r, s, x, y, 0), Measures(r, t, y, z, n)
    PROVE  Measures(r, s \o t, x, z, n)
<1>1. 0 \in Nat /\ 0 + n = n
  OBVIOUS
<1>2. Measures(r, s \o t, x, z, 0 + n)
  BY <1>1, MeasuresOn
<1> QED BY <1>1, <1>2

\* A call of the earlier iterations changes no interval.
LEMMA EarlierOnly ==
    ASSUME NEW r, NEW s, NEW t, NEW x, NEW y, NEW z, NEW n \in Nat,
           Measures(r, s, x, y, n), Measures(r, t, y, z, 0)
    PROVE  Measures(r, s \o t, x, z, n)
<1>1. 0 \in Nat /\ n + 0 = n
  OBVIOUS
<1>2. Measures(r, s \o t, x, z, n + 0)
  BY <1>1, MeasuresOn
<1> QED BY <1>1, <1>2

\* What all measured iterations count is a number.
LEMMA RoundType == \A c \in Nat : Iters * c \in Nat
BY TurnsType

\* Several calls in a row.
LEMMA BeginsThen ==
    ASSUME NEW r, NEW s, NEW t, NEW x, NEW y, NEW z, NEW i, NEW m \in Nat, NEW k \in Nat, NEW n,
           Begins(r, s, x, y, m, i), Counts(r, t, y, z, k), n = m + k
    PROVE  Begins(r, s \o t, x, z, n, i)
BY BeginsOn

\* Two sequences, the first of which begins the interval.
LEMMA BeginsTwo ==
    ASSUME NEW r, NEW s, NEW t, NEW u, NEW x, NEW i, NEW m \in Nat, NEW k \in Nat, NEW l \in Nat,
           NEW n, Begins(r, s, x, x, m, i), Counts(r, t, x, x, k), Counts(r, u, x, x, l),
           n = m + k + l
    PROVE  Begins(r, s \o t \o u, x, x, n, i)
<1>1. m + k \in Nat
  OBVIOUS
<1>2. Begins(r, s \o t, x, x, m + k, i)
  BY BeginsOn
<1> QED BY <1>1, <1>2, BeginsThen

\* Three sequences, the first of which begins the interval.
LEMMA BeginsThree ==
    ASSUME NEW r, NEW s, NEW t, NEW u, NEW v, NEW x, NEW i,
           NEW m \in Nat, NEW j \in Nat, NEW k \in Nat, NEW l \in Nat, NEW n,
           Begins(r, s, x, x, m, i), Counts(r, t, x, x, j), Counts(r, u, x, x, k),
           Counts(r, v, x, x, l), n = m + j + k + l
    PROVE  Begins(r, s \o t \o u \o v, x, x, n, i)
<1>1. m + j + k \in Nat
  OBVIOUS
<1>2. Begins(r, s \o t \o u, x, x, m + j + k, i)
  BY BeginsTwo
<1> QED BY <1>1, <1>2, BeginsThen

\* Two sequences that add nothing.
LEMMA CalmTwo ==
    ASSUME NEW r, NEW s, NEW t, NEW u, NEW x,
           Measures(r, s, x, x, 0), Measures(r, t, x, x, 0), Measures(r, u, x, x, 0)
    PROVE  Measures(r, s \o t \o u, x, x, 0)
BY CalmOn

\* Three sequences that add nothing.
LEMMA CalmThree ==
    ASSUME NEW r, NEW s, NEW t, NEW u, NEW v, NEW x, Measures(r, s, x, x, 0),
           Measures(r, t, x, x, 0), Measures(r, u, x, x, 0), Measures(r, v, x, x, 0)
    PROVE  Measures(r, s \o t \o u \o v, x, x, 0)
<1>1. Measures(r, s \o t \o u, x, x, 0)
  BY CalmTwo
<1> QED BY <1>1, CalmOn

\* An interval that ends in the last iteration only.
LEMMA EndsIf ==
    ASSUME NEW r, NEW s, NEW x, NEW c, NEW i, Begins(r, s, x, x, c, i)
    PROVE  Ends(r, s \o StopOnce(i), x, c, i)
BY DEF Ends

\* One transfer, and none.
LEMMA OneAndNone == 1 \in Nat \ {0} /\ 0 \in Nat
OBVIOUS

\* What is not measured, whatever its messages are.
LEMMA CalmTalking ==
    ASSUME NEW r, NEW x \in Outside, NEW p \in Nat, NEW s \in Nat, NEW n \in Nat,
           NEW tag \in {"998", "100", "101", "10", "1", "", "ping", "pong"}
    PROVE  /\ Measures(r, Send(p, tag, s), x, x, 0) /\ Measures(r, Recv(p, tag, s), x, x, 0)
           /\ Measures(r, ISend(p, tag, s), x, x, 0) /\ Measures(r, IRecv(p, tag, s), x, x, 0)
           /\ Measures(r, Times(n, ISend(p, tag, s)), x, x, 0)
           /\ Measures(r, Times(n, IRecv(p, tag, s)), x, x, 0)
           /\ Measures(r, Wait("isend"), x, x, 0) /\ Measures(r, Wait("irecv"), x, x, 0)
<1>1. \E k \in Nat : /\ Counts(r, Send(p, tag, s), x, x, k) /\ Counts(r, Recv(p, tag, s), x, x, k)
                    /\ Counts(r, ISend(p, tag, s), x, x, k) /\ Counts(r, IRecv(p, tag, s), x, x, k)
  <2>1. CASE s = ReplySize
    <3>1. 1 \in Nat \ {0} /\ 0 \in Nat
      BY OneAndNone
    <3>2. /\ Counts(r, Send(p, tag, ReplySize), x, x, 0)
          /\ Counts(r, Recv(p, tag, ReplySize), x, x, 0)
          /\ Counts(r, ISend(p, tag, ReplySize), x, x, 0)
          /\ Counts(r, IRecv(p, tag, ReplySize), x, x, 0)
      BY <3>1, Talking
    <3> QED BY <2>1, <3>1, <3>2
  <2>2. CASE s # ReplySize
    BY <2>2, Talking DEF ReplySize
  <2> QED BY <2>1, <2>2
<1>2. /\ Measures(r, Send(p, tag, s), x, x, 0) /\ Measures(r, Recv(p, tag, s), x, x, 0)
      /\ Measures(r, ISend(p, tag, s), x, x, 0) /\ Measures(r, IRecv(p, tag, s), x, x, 0)
  BY <1>1, CountsAtRest
<1>3. /\ Measures(r, Times(n, ISend(p, tag, s)), x, x, 0)
      /\ Measures(r, Times(n, IRecv(p, tag, s)), x, x, 0)
  BY <1>2, AreCalls, CalmTimes
<1> QED BY <1>2, <1>3, Waits, CountsAtRest

\* A program after its warm-up.
LEMMA AfterWarmup ==
    ASSUME NEW r \in Nat, NEW t, NEW x \in Alone, NEW n \in Nat, Measures(r, t, x, x, n)
    PROVE  Measures(r, JavaWarmupLoop(r) \o t, x, x, n)
<1>1. Measures(r, JavaWarmupLoop(r), x, x, 0)
  BY JavaWarmupCalm, AloneOutside
<1> QED BY <1>1, LaterOnly

\* OSULatency.java, rank 0: one transfer and its echo in each iteration.
LEMMA OSULatencyMeasures ==
    ASSUME NEW x \in Alone, NEW v \in BOOLEAN
    PROVE  Measures(0, OSULatency(0, v), x, x, Total(2))
<1>1. x \in Outside
  BY AloneOutside
<1>2. Counts(0, JavaFill(v), x, x, 0) /\ Counts(0, JavaCheck(v), x, x, 0)
  BY <1>1, JavaPieces
<1> DEFINE a(s, i) == StartOnce(i) \o JavaFill(v) \o Send(1, "998", s)
           b(s, i) == a(s, i) \o JavaFill(v) \o Recv(1, "998", s) \o JavaCheck(v)
<1>3. ASSUME NEW s \in Nat \ {0}, NEW i \in Nat
      PROVE  Ends(0, b(s, i) \o StopOnce(i), x, 2, i)
  <2>1. Counts(0, Send(1, "998", s), x, x, 1) /\ Counts(0, Recv(1, "998", s), x, x, 1)
    BY <1>1, Talking
  <2>2. Begins(0, StartOnce(i), x, x, 0, i)
    BY <1>1, StartOnceBegins
  <2>3. Begins(0, a(s, i), x, x, 1, i)
    BY <1>2, <2>1, <2>2, BeginsTwo
  <2> HIDE DEF a
  <2>4. Begins(0, b(s, i), x, x, 2, i)
    BY <1>2, <2>1, <2>3, BeginsThree
  <2> HIDE DEF b
  <2> QED BY <2>4, EndsIf
<1> DEFINE inner(s) == [j \in 1 .. Len(Iterations) |-> b(s, Iterations[j]) \o StopOnce(Iterations[j])]
           ss == [k \in 1 .. Len(Sizes) |-> FlattenSeq(inner(Sizes[k])) \o Barrier]
<1>4. OSULatency(0, v) = JavaWarmupLoop(0) \o FlattenSeq(ss)
  BY DEF OSULatency, JavaSizes, ForEach
<1> HIDE DEF b
<1>5. IsLoop(ss, Len(Sizes)) /\ \A s : IsLoop(inner(s), Len(Iterations))
  BY DEF IsLoop
<1>6. \A k \in 1 .. Len(Sizes) : \A j \in 1 .. Len(Iterations) :
          Ends(0, inner(Sizes[k])[j], x, 2, Iterations[j])
  BY <1>3, SizesAre, IterationsAre
<1>7. \A k \in 1 .. Len(Sizes) : ss[k] = FlattenSeq(inner(Sizes[k])) \o Barrier
  OBVIOUS
<1> HIDE DEF inner, ss
<1>8. Measures(0, FlattenSeq(ss), x, x, Total(2))
  BY <1>5, <1>6, <1>7, JavaMeasures
<1>9. Total(2) \in Nat
  BY TotalType
<1> QED BY <1>4, <1>8, <1>9, AfterWarmup

\* OSULatency.java, rank 1 measures nothing.
LEMMA OSULatencyCalm ==
    ASSUME NEW x \in Alone, NEW v \in BOOLEAN
    PROVE  Measures(1, OSULatency(1, v), x, x, 0)
<1>1. x \in Outside
  BY AloneOutside
<1>2. Counts(1, JavaFill(v), x, x, 0) /\ Counts(1, JavaCheck(v), x, x, 0)
  BY <1>1, JavaPieces
<1> DEFINE a(s) == JavaFill(v) \o Recv(0, "998", s) \o JavaCheck(v)
           b(s) == a(s) \o JavaFill(v) \o Send(0, "998", s)
<1>3. ASSUME NEW s \in Nat \ {0}, NEW i \in Nat
      PROVE  Measures(1, b(s), x, x, 0)
  <2>1. Measures(1, Recv(0, "998", s), x, x, 0) /\ Measures(1, Send(0, "998", s), x, x, 0)
    BY <1>1, CalmTalking
  <2>2. Measures(1, JavaFill(v), x, x, 0) /\ Measures(1, JavaCheck(v), x, x, 0)
    BY <1>2, CountsAtRest
  <2>3. Measures(1, a(s), x, x, 0)
    BY <2>1, <2>2, CalmTwo
  <2> HIDE DEF a
  <2> QED BY <2>1, <2>2, <2>3, CalmTwo
<1> DEFINE inner(s) == [j \in 1 .. Len(Iterations) |-> b(s)]
           ss == [k \in 1 .. Len(Sizes) |-> FlattenSeq(inner(Sizes[k])) \o Barrier]
<1>4. OSULatency(1, v) = JavaWarmupLoop(1) \o FlattenSeq(ss)
  BY DEF OSULatency, JavaSizes, ForEach
<1> HIDE DEF b
<1>5. IsLoop(ss, Len(Sizes)) /\ \A s : IsLoop(inner(s), Len(Iterations))
  BY DEF IsLoop
<1>6. \A k \in 1 .. Len(Sizes) : \A j \in 1 .. Len(Iterations) :
          Measures(1, inner(Sizes[k])[j], x, x, 0)
  BY <1>3, SizesAre, IterationsAre
<1>7. \A k \in 1 .. Len(Sizes) : ss[k] = FlattenSeq(inner(Sizes[k])) \o Barrier
  OBVIOUS
<1> HIDE DEF inner, ss
<1>8. Measures(1, FlattenSeq(ss), x, x, 0)
  BY <1>5, <1>6, <1>7, JavaCalm
<1>9. 0 \in Nat
  BY TotalType
<1> QED BY <1>4, <1>8, <1>9, AfterWarmup

\* OSUBandwidth.java, rank 0: a window in each iteration, without the reply.
LEMMA OSUBandwidthMeasures ==
    ASSUME NEW x \in Alone, NEW n \in Nat, NEW v \in BOOLEAN
    PROVE  Measures(0, OSUBandwidth(0, n, v), x, x, Total(n))
<1>1. x \in Outside
  BY AloneOutside
<1>2. Counts(0, JavaFill(v), x, x, 0) /\ Counts(0, JavaCheck(v), x, x, 0)
  BY <1>1, JavaPieces
<1> DEFINE a(s, i) == StartOnce(i) \o JavaFill(v) \o Times(n, ISend(1, "100", s)) \o Wait("isend")
           b(s, i) == a(s, i) \o JavaFill(v) \o Recv(1, "101", ReplySize)
<1>3. ASSUME NEW s \in Nat \ {0}, NEW i \in Nat
      PROVE  Ends(0, b(s, i) \o StopOnce(i), x, n, i)
  <2>1. /\ Counts(0, Times(n, ISend(1, "100", s)), x, x, n) /\ Counts(0, Wait("isend"), x, x, 0)
        /\ Counts(0, Recv(1, "101", ReplySize), x, x, 0)
    BY <1>1, Talking, Windowed
  <2>2. Begins(0, StartOnce(i), x, x, 0, i)
    BY <1>1, StartOnceBegins
  <2>3. Begins(0, a(s, i), x, x, n, i)
    BY <1>2, <2>1, <2>2, BeginsThree
  <2> HIDE DEF a
  <2>4. Begins(0, b(s, i), x, x, n, i)
    BY <1>2, <2>1, <2>3, BeginsTwo
  <2> HIDE DEF b
  <2> QED BY <2>4, EndsIf
<1> DEFINE inner(s) == [j \in 1 .. Len(Iterations) |-> b(s, Iterations[j]) \o StopOnce(Iterations[j])]
           ss == [k \in 1 .. Len(Sizes) |-> FlattenSeq(inner(Sizes[k])) \o Barrier]
<1>4. OSUBandwidth(0, n, v) = FlattenSeq(ss)
  BY DEF OSUBandwidth, JavaSizes, ForEach
<1> HIDE DEF b
<1>5. IsLoop(ss, Len(Sizes)) /\ \A s : IsLoop(inner(s), Len(Iterations))
  BY DEF IsLoop
<1>6. \A k \in 1 .. Len(Sizes) : \A j \in 1 .. Len(Iterations) :
          Ends(0, inner(Sizes[k])[j], x, n, Iterations[j])
  BY <1>3, SizesAre, IterationsAre
<1>7. \A k \in 1 .. Len(Sizes) : ss[k] = FlattenSeq(inner(Sizes[k])) \o Barrier
  OBVIOUS
<1> HIDE DEF inner, ss
<1>8. Measures(0, FlattenSeq(ss), x, x, Total(n))
  BY <1>5, <1>6, <1>7, JavaMeasures
<1> QED BY <1>4, <1>8

\* OSUBandwidth.java, rank 1 measures nothing.
LEMMA OSUBandwidthCalm ==
    ASSUME NEW x \in Alone, NEW n \in Nat, NEW v \in BOOLEAN
    PROVE  Measures(1, OSUBandwidth(1, n, v), x, x, 0)
<1>1. x \in Outside
  BY AloneOutside
<1>2. Counts(1, JavaFill(v), x, x, 0) /\ Counts(1, JavaCheck(v), x, x, 0)
  BY <1>1, JavaPieces
<1> DEFINE a(s) == JavaFill(v) \o Times(n, IRecv(0, "100", s)) \o Wait("irecv") \o JavaCheck(v)
           b(s) == a(s) \o JavaFill(v) \o Send(0, "101", ReplySize)
<1>3. ASSUME NEW s \in Nat \ {0}, NEW i \in Nat
      PROVE  Measures(1, b(s), x, x, 0)
  <2>1. /\ Measures(1, Times(n, IRecv(0, "100", s)), x, x, 0) /\ Measures(1, Wait("irecv"), x, x, 0)
        /\ Measures(1, Send(0, "101", ReplySize), x, x, 0)
    BY <1>1, CalmTalking DEF ReplySize
  <2>2. Measures(1, JavaFill(v), x, x, 0) /\ Measures(1, JavaCheck(v), x, x, 0)
    BY <1>2, CountsAtRest
  <2>3. Measures(1, a(s), x, x, 0)
    BY <2>1, <2>2, CalmThree
  <2> HIDE DEF a
  <2> QED BY <2>1, <2>2, <2>3, CalmTwo
<1> DEFINE inner(s) == [j \in 1 .. Len(Iterations) |-> b(s)]
           ss == [k \in 1 .. Len(Sizes) |-> FlattenSeq(inner(Sizes[k])) \o Barrier]
<1>4. OSUBandwidth(1, n, v) = FlattenSeq(ss)
  BY DEF OSUBandwidth, JavaSizes, ForEach
<1> HIDE DEF b
<1>5. IsLoop(ss, Len(Sizes)) /\ \A s : IsLoop(inner(s), Len(Iterations))
  BY DEF IsLoop
<1>6. \A k \in 1 .. Len(Sizes) : \A j \in 1 .. Len(Iterations) :
          Measures(1, inner(Sizes[k])[j], x, x, 0)
  BY <1>3, SizesAre, IterationsAre
<1>7. \A k \in 1 .. Len(Sizes) : ss[k] = FlattenSeq(inner(Sizes[k])) \o Barrier
  OBVIOUS
<1> HIDE DEF inner, ss
<1>8. Measures(1, FlattenSeq(ss), x, x, 0)
  BY <1>5, <1>6, <1>7, JavaCalm
<1> QED BY <1>4, <1>8

\* OSUBiBandwidth.java, rank 0: a window in each direction.
LEMMA OSUBiBandwidthMeasures ==
    ASSUME NEW x \in Alone, NEW n \in Nat, NEW v \in BOOLEAN
    PROVE  Measures(0, OSUBiBandwidth(0, n, v), x, x, Total(n + n))
<1>1. x \in Outside
  BY AloneOutside
<1>2. Counts(0, JavaFill(v), x, x, 0) /\ Counts(0, JavaCheck(v), x, x, 0)
  BY <1>1, JavaPieces
<1> DEFINE a(s, i) == StartOnce(i) \o JavaFill(v) \o Times(n, IRecv(1, "100", s))
                          \o Times(n, ISend(1, "101", s))
           b(s, i) == a(s, i) \o Wait("isend") \o Wait("irecv") \o JavaCheck(v)
<1>3. ASSUME NEW s \in Nat \ {0}, NEW i \in Nat
      PROVE  Ends(0, b(s, i) \o StopOnce(i), x, n + n, i)
  <2>1. /\ Counts(0, Times(n, IRecv(1, "100", s)), x, x, n)
        /\ Counts(0, Times(n, ISend(1, "101", s)), x, x, n)
        /\ Counts(0, Wait("isend"), x, x, 0) /\ Counts(0, Wait("irecv"), x, x, 0)
    BY <1>1, Talking, Windowed
  <2>2. Begins(0, StartOnce(i), x, x, 0, i)
    BY <1>1, StartOnceBegins
  <2>3. Begins(0, a(s, i), x, x, n + n, i)
    BY <1>2, <2>1, <2>2, BeginsThree
  <2> HIDE DEF a
  <2>4. Begins(0, b(s, i), x, x, n + n, i)
    BY <1>2, <2>1, <2>3, BeginsThree
  <2> HIDE DEF b
  <2> QED BY <2>4, EndsIf
<1> DEFINE inner(s) == [j \in 1 .. Len(Iterations) |-> b(s, Iterations[j]) \o StopOnce(Iterations[j])]
           ss == [k \in 1 .. Len(Sizes) |-> FlattenSeq(inner(Sizes[k])) \o Barrier]
<1>4. OSUBiBandwidth(0, n, v) = JavaWarmupLoop(0) \o FlattenSeq(ss)
  BY DEF OSUBiBandwidth, JavaSizes, ForEach
<1> HIDE DEF b
<1>5. IsLoop(ss, Len(Sizes)) /\ \A s : IsLoop(inner(s), Len(Iterations))
  BY DEF IsLoop
<1>6. \A k \in 1 .. Len(Sizes) : \A j \in 1 .. Len(Iterations) :
          Ends(0, inner(Sizes[k])[j], x, n + n, Iterations[j])
  BY <1>3, SizesAre, IterationsAre
<1>7. \A k \in 1 .. Len(Sizes) : ss[k] = FlattenSeq(inner(Sizes[k])) \o Barrier
  OBVIOUS
<1> HIDE DEF inner, ss
<1>8. Measures(0, FlattenSeq(ss), x, x, Total(n + n))
  BY <1>5, <1>6, <1>7, JavaMeasures
<1>9. Total(n + n) \in Nat
  BY TotalType
<1> QED BY <1>4, <1>8, <1>9, AfterWarmup

\* OSUBiBandwidth.java, rank 1 measures nothing.
LEMMA OSUBiBandwidthCalm ==
    ASSUME NEW x \in Alone, NEW n \in Nat, NEW v \in BOOLEAN
    PROVE  Measures(1, OSUBiBandwidth(1, n, v), x, x, 0)
<1>1. x \in Outside
  BY AloneOutside
<1>2. Counts(1, JavaFill(v), x, x, 0) /\ Counts(1, JavaCheck(v), x, x, 0)
  BY <1>1, JavaPieces
<1> DEFINE a(s) == JavaFill(v) \o Times(n, IRecv(0, "101", s)) \o Times(n, ISend(0, "100", s))
           b(s) == a(s) \o Wait("irecv") \o Wait("isend") \o JavaCheck(v)
<1>3. ASSUME NEW s \in Nat \ {0}, NEW i \in Nat
      PROVE  Measures(1, b(s), x, x, 0)
  <2>1. /\ Measures(1, Times(n, IRecv(0, "101", s)), x, x, 0)
        /\ Measures(1, Times(n, ISend(0, "100", s)), x, x, 0)
        /\ Measures(1, Wait("irecv"), x, x, 0) /\ Measures(1, Wait("isend"), x, x, 0)
    BY <1>1, CalmTalking
  <2>2. Measures(1, JavaFill(v), x, x, 0) /\ Measures(1, JavaCheck(v), x, x, 0)
    BY <1>2, CountsAtRest
  <2>3. Measures(1, a(s), x, x, 0)
    BY <2>1, <2>2, CalmTwo
  <2> HIDE DEF a
  <2> QED BY <2>1, <2>2, <2>3, CalmThree
<1> DEFINE inner(s) == [j \in 1 .. Len(Iterations) |-> b(s)]
           ss == [k \in 1 .. Len(Sizes) |-> FlattenSeq(inner(Sizes[k])) \o Barrier]
<1>4. OSUBiBandwidth(1, n, v) = JavaWarmupLoop(1) \o FlattenSeq(ss)
  BY DEF OSUBiBandwidth, JavaSizes, ForEach
<1> HIDE DEF b
<1>5. IsLoop(ss, Len(Sizes)) /\ \A s : IsLoop(inner(s), Len(Iterations))
  BY DEF IsLoop
<1>6. \A k \in 1 .. Len(Sizes) : \A j \in 1 .. Len(Iterations) :
          Measures(1, inner(Sizes[k])[j], x, x, 0)
  BY <1>3, SizesAre, IterationsAre
<1>7. \A k \in 1 .. Len(Sizes) : ss[k] = FlattenSeq(inner(Sizes[k])) \o Barrier
  OBVIOUS
<1> HIDE DEF inner, ss
<1>8. Measures(1, FlattenSeq(ss), x, x, 0)
  BY <1>5, <1>6, <1>7, JavaCalm
<1>9. 0 \in Nat
  BY TotalType
<1> QED BY <1>4, <1>8, <1>9, AfterWarmup

-----------------------------------------------------------------------------
(* The point-to-point benchmarks in Python. *)

\* Two sequences that count.
LEMMA CountsTwo ==
    ASSUME NEW r, NEW s, NEW t, NEW u, NEW x, NEW m \in Nat, NEW k \in Nat, NEW l \in Nat,
           NEW n, Counts(r, s, x, x, m), Counts(r, t, x, x, k), Counts(r, u, x, x, l),
           n = m + k + l
    PROVE  Counts(r, s \o t \o u, x, x, n)
<1>1. m + k \in Nat
  OBVIOUS
<1>2. Counts(r, s \o t, x, x, m + k)
  BY CountsOn
<1> QED BY <1>1, <1>2, CountsOn

\* Two sequences of which only the first counts.
LEMMA CountsOne ==
    ASSUME NEW r, NEW s, NEW t, NEW x, NEW m \in Nat, NEW k \in Nat, NEW n,
           Counts(r, s, x, x, m), Counts(r, t, x, x, k), n = m + k
    PROVE  Counts(r, s \o t, x, x, n)
BY CountsOn

\* An interval that ends after what it measures.
LEMMA Sampled ==
    ASSUME NEW r, NEW s, NEW x \in Outside, NEW n \in Nat, Runs(r, s, x, x, n)
    PROVE  /\ Measures(r, s \o StopClock \o Sample, x, x, n)
           /\ Measures(r, s \o (StopClock \o Sample), x, x, n)
<1>1. Measures(r, s \o StopClock \o Sample, x, x, n)
  BY Stopping, Sampling
<1>2. s \in Seq(Calls)
  BY AreCalls
<1>3. StopClock \in Seq(Calls) /\ Sample \in Seq(Calls)
  <2>1. [op |-> "stop"] \in Calls /\ [op |-> "sample"] \in Calls
    BY DEF Calls, Plain
  <2> QED BY <2>1 DEF StopClock, Sample
<1>4. s \o StopClock \o Sample = s \o (StopClock \o Sample)
  BY <1>2, <1>3, ConcatAssociative
<1> QED BY <1>1, <1>4

\* A size whose clock is started by a barrier's return.
LEMMA StartedSize ==
    ASSUME NEW r, NEW x \in Alone, NEW c \in Nat, NEW inner, IsLoop(inner, Len(Iterations)),
           \A j \in 1 .. Len(Iterations) : Begins(r, inner[j], x, x, c, Iterations[j])
    PROVE  Runs(r, Barrier \o FlattenSeq(inner), x, x, Iters * c)
<1>1. Measures(r, Barrier, x, x, 0)
  BY Barriers, CountsAtRest
<1>2. Runs(r, FlattenSeq(inner), x, x, Iters * c)
  BY StartedLoop
<1> QED BY <1>1, <1>2, RunsAfter

\* An interval that is started, counted and sampled.
LEMMA Timed ==
    ASSUME NEW r, NEW s, NEW x \in Outside, NEW c \in Nat, Counts(r, s, x, x, c), NEW i
    PROVE  Measures(r, XcclTimed(i, s), x, x, IF Measured(i) THEN c ELSE 0)
<1>1. CASE Measured(i)
  <2>1. Runs(r, StartClock, x, x, 0) /\ 0 \in Nat /\ 0 + c = c
    BY Starting
  <2>2. Runs(r, StartClock \o s, x, x, 0 + c)
    BY <2>1, RunsOn
  <2>3. Measures(r, StartClock \o s \o (StopClock \o Sample), x, x, c)
    BY <2>1, <2>2, Sampled
  <2> QED BY <1>1, <2>3 DEF XcclTimed, Given
<1>2. CASE ~Measured(i)
  <2>1. Measures(r, s, x, x, 0) /\ Measures(r, <<>>, x, x, 0)
    BY CountsAtRest, Nothing
  <2>2. Measures(r, <<>> \o s \o <<>>, x, x, 0)
    BY <2>1, CalmTwo
  <2> QED BY <1>2, <2>2 DEF XcclTimed, Given
<1> QED BY <1>1, <1>2

\* A ping-pong of the Python benchmarks.
LEMMA PythonPingPongMeasures ==
    ASSUME NEW r, NEW x \in Alone, NEW p \in Nat, NEW first \in BOOLEAN
    PROVE  Measures(r, PythonPingPong(p, first), x, x, Total(2))
<1>1. x \in Outside
  BY AloneOutside
<1> DEFINE b(s, i) == StartOnce(i) \o (IF first THEN Send(p, "1", s) \o Recv(p, "1", s)
                                               ELSE Recv(p, "1", s) \o Send(p, "1", s))
<1>2. ASSUME NEW s \in Nat \ {0}, NEW i \in Nat PROVE Begins(r, b(s, i), x, x, 2, i)
  <2>1. Counts(r, Send(p, "1", s), x, x, 1) /\ Counts(r, Recv(p, "1", s), x, x, 1)
    BY <1>1, Talking
  <2>2. Begins(r, StartOnce(i), x, x, 0, i)
    BY <1>1, StartOnceBegins
  <2>3. /\ Counts(r, Send(p, "1", s) \o Recv(p, "1", s), x, x, 2)
        /\ Counts(r, Recv(p, "1", s) \o Send(p, "1", s), x, x, 2)
    BY <2>1, CountsOne
  <2> QED BY <2>2, <2>3, BeginsThen
<1> DEFINE inner(s) == [j \in 1 .. Len(Iterations) |-> b(s, Iterations[j])]
           ss == [k \in 1 .. Len(Sizes) |-> Barrier \o FlattenSeq(inner(Sizes[k]))
                                                \o StopClock \o Sample \o Reduce]
<1>3. PythonPingPong(p, first) = FlattenSeq(ss)
  BY DEF PythonPingPong, ForEach
<1> HIDE DEF b
<1>4. IsLoop(ss, Len(Sizes)) /\ \A s : IsLoop(inner(s), Len(Iterations))
  BY DEF IsLoop
<1>5. \A s \in Nat \ {0} : \A j \in 1 .. Len(Iterations) :
          Begins(r, inner(s)[j], x, x, 2, Iterations[j])
  BY <1>2, IterationsAre
<1>6. \A k \in 1 .. Len(Sizes) : Sizes[k] \in Nat \ {0} /\
          ss[k] = Barrier \o FlattenSeq(inner(Sizes[k])) \o StopClock \o Sample \o Reduce
  BY SizesAre
<1> HIDE DEF inner, ss
<1>7. ASSUME NEW k \in 1 .. Len(Sizes) PROVE Measures(r, ss[k], x, x, Iters * 2)
  <2>1. Runs(r, Barrier \o FlattenSeq(inner(Sizes[k])), x, x, Iters * 2)
    BY <1>4, <1>5, <1>6, StartedSize
  <2>2. Measures(r, Barrier \o FlattenSeq(inner(Sizes[k])) \o StopClock \o Sample, x, x, Iters * 2)
    BY <1>1, <2>1, Sampled, RoundType
  <2>3. Measures(r, Reduce, x, x, 0)
    BY Barriers, CountsAtRest
  <2>4. Measures(r, Barrier \o FlattenSeq(inner(Sizes[k])) \o StopClock \o Sample \o Reduce, x, x, Iters * 2)
    BY <2>2, <2>3, EarlierOnly, RoundType
  <2> QED BY <1>6, <2>4
<1> QED BY <1>3, <1>4, <1>7, SizeLoop

\* osu_latency.py and its relatives, rank 0.
LEMMA PythonMeasures ==
    ASSUME NEW r, NEW x \in Alone, NEW c \in Nat, NEW ss, IsLoop(ss, Len(Sizes)),
           \A k \in 1 .. Len(Sizes) : \E inner :
               /\ IsLoop(inner, Len(Iterations))
               /\ ss[k] = Barrier \o FlattenSeq(inner) \o (StopClock \o Sample)
               /\ \A j \in 1 .. Len(Iterations) : Begins(r, inner[j], x, x, c, Iterations[j])
    PROVE  Measures(r, FlattenSeq(ss), x, x, Total(c))
<1>1. ASSUME NEW k \in 1 .. Len(Sizes)
      PROVE  Measures(r, ss[k], x, x, Iters * c)
  <2>1. PICK inner : /\ IsLoop(inner, Len(Iterations))
                     /\ ss[k] = Barrier \o FlattenSeq(inner) \o (StopClock \o Sample)
                     /\ \A j \in 1 .. Len(Iterations) : Begins(r, inner[j], x, x, c, Iterations[j])
    OBVIOUS
  <2>2. Runs(r, Barrier \o FlattenSeq(inner), x, x, Iters * c)
    BY <2>1, StartedSize
  <2> QED BY <2>1, <2>2, Sampled, RoundType, AloneOutside
<1> QED BY <1>1, SizeLoop

\* The same, rank 1.
LEMMA PythonCalm ==
    ASSUME NEW r, NEW x \in Alone, NEW ss, IsLoop(ss, Len(Sizes)),
           \A k \in 1 .. Len(Sizes) : \E inner :
               /\ IsLoop(inner, Len(Iterations))
               /\ ss[k] = Barrier \o FlattenSeq(inner) \o <<>>
               /\ \A j \in 1 .. Len(Iterations) : Measures(r, inner[j], x, x, 0)
    PROVE  Measures(r, FlattenSeq(ss), x, x, 0)
<1>1. Measures(r, Barrier, x, x, 0) /\ Measures(r, <<>>, x, x, 0)
  BY Barriers, CountsAtRest, Nothing
<1>2. ASSUME NEW k \in 1 .. Len(Sizes)
      PROVE  Measures(r, ss[k], x, x, 0)
  <2>1. PICK inner : /\ IsLoop(inner, Len(Iterations))
                     /\ ss[k] = Barrier \o FlattenSeq(inner) \o <<>>
                     /\ \A j \in 1 .. Len(Iterations) : Measures(r, inner[j], x, x, 0)
    OBVIOUS
  <2>2. Measures(r, FlattenSeq(inner), x, x, 0)
    BY <2>1, CalmLoop, IterationsAre, TurnsType
  <2> QED BY <1>1, <2>1, <2>2, CalmTwo
<1> QED BY <1>2, CalmLoop, SizesAre

\* osu_bw.py, rank 0.
LEMMA PythonBandwidthMeasures ==
    ASSUME NEW x \in Alone, NEW n \in Nat
    PROVE  Measures(0, PythonBandwidth(0, n), x, x, Total(n))
<1>1. x \in Outside
  BY AloneOutside
<1> DEFINE b(s, i) == StartOnce(i) \o Times(n, ISend(1, "100", s)) \o Wait("isend")
                          \o Recv(1, "101", ReplySize)
<1>2. ASSUME NEW s \in Nat \ {0}, NEW i \in Nat PROVE Begins(0, b(s, i), x, x, n, i)
  <2>1. /\ Counts(0, Times(n, ISend(1, "100", s)), x, x, n) /\ Counts(0, Wait("isend"), x, x, 0)
        /\ Counts(0, Recv(1, "101", ReplySize), x, x, 0)
    BY <1>1, Talking, Windowed
  <2>2. Begins(0, StartOnce(i), x, x, 0, i)
    BY <1>1, StartOnceBegins
  <2> QED BY <2>1, <2>2, BeginsThree
<1> DEFINE inner(s) == [j \in 1 .. Len(Iterations) |-> b(s, Iterations[j])]
           ss == [k \in 1 .. Len(Sizes) |-> Barrier \o FlattenSeq(inner(Sizes[k]))
                                                \o (StopClock \o Sample)]
<1>3. PythonBandwidth(0, n) = FlattenSeq(ss)
  BY DEF PythonBandwidth, ForEach, Given
<1> HIDE DEF b
<1>4. IsLoop(ss, Len(Sizes)) /\ \A s : IsLoop(inner(s), Len(Iterations))
  BY DEF IsLoop
<1>5. \A s \in Nat \ {0} : \A j \in 1 .. Len(Iterations) :
          Begins(0, inner(s)[j], x, x, n, Iterations[j])
  BY <1>2, IterationsAre
<1>6. \A k \in 1 .. Len(Sizes) : Sizes[k] \in Nat \ {0} /\
          ss[k] = Barrier \o FlattenSeq(inner(Sizes[k])) \o (StopClock \o Sample)
  BY SizesAre
<1> HIDE DEF inner, ss
<1> QED BY <1>3, <1>4, <1>5, <1>6, PythonMeasures

\* osu_bw.py, rank 1.
LEMMA PythonBandwidthCalm ==
    ASSUME NEW x \in Alone, NEW n \in Nat
    PROVE  Measures(1, PythonBandwidth(1, n), x, x, 0)
<1>1. x \in Outside
  BY AloneOutside
<1> DEFINE b(s) == Times(n, IRecv(0, "100", s)) \o Wait("irecv") \o Send(0, "101", ReplySize)
<1>2. ASSUME NEW s \in Nat \ {0} PROVE Measures(1, b(s), x, x, 0)
  <2>1. /\ Measures(1, Times(n, IRecv(0, "100", s)), x, x, 0) /\ Measures(1, Wait("irecv"), x, x, 0)
        /\ Measures(1, Send(0, "101", ReplySize), x, x, 0)
    BY <1>1, CalmTalking DEF ReplySize
  <2> QED BY <2>1, CalmTwo
<1> DEFINE inner(s) == [j \in 1 .. Len(Iterations) |-> b(s)]
           ss == [k \in 1 .. Len(Sizes) |-> Barrier \o FlattenSeq(inner(Sizes[k])) \o <<>>]
<1>3. PythonBandwidth(1, n) = FlattenSeq(ss)
  BY DEF PythonBandwidth, ForEach, Given
<1> HIDE DEF b
<1>4. IsLoop(ss, Len(Sizes)) /\ \A s : IsLoop(inner(s), Len(Iterations))
  BY DEF IsLoop
<1>5. \A s \in Nat \ {0} : \A j \in 1 .. Len(Iterations) : Measures(1, inner(s)[j], x, x, 0)
  BY <1>2
<1>6. \A k \in 1 .. Len(Sizes) : Sizes[k] \in Nat \ {0} /\
          ss[k] = Barrier \o FlattenSeq(inner(Sizes[k])) \o <<>>
  BY SizesAre
<1> HIDE DEF inner, ss
<1> QED BY <1>3, <1>4, <1>5, <1>6, PythonCalm

\* osu_bibw.py, rank 0.
LEMMA PythonBiBandwidthMeasures ==
    ASSUME NEW x \in Alone, NEW n \in Nat
    PROVE  Measures(0, PythonBiBandwidth(0, n), x, x, Total(n + n))
<1>1. x \in Outside /\ n + n \in Nat
  BY AloneOutside
<1> DEFINE a(s, i) == StartOnce(i) \o Times(n, IRecv(1, "10", s)) \o Times(n, ISend(1, "100", s))
           b(s, i) == a(s, i) \o Wait("isend") \o Wait("irecv")
<1>2. ASSUME NEW s \in Nat \ {0}, NEW i \in Nat PROVE Begins(0, b(s, i), x, x, n + n, i)
  <2>1. /\ Counts(0, Times(n, ISend(1, "100", s)), x, x, n)
        /\ Counts(0, Times(n, IRecv(1, "10", s)), x, x, n)
        /\ Counts(0, Wait("isend"), x, x, 0) /\ Counts(0, Wait("irecv"), x, x, 0)
    BY <1>1, Talking, Windowed
  <2>2. Begins(0, StartOnce(i), x, x, 0, i)
    BY <1>1, StartOnceBegins
  <2>3. Begins(0, a(s, i), x, x, n + n, i)
    BY <2>1, <2>2, BeginsTwo
  <2> HIDE DEF a
  <2> QED BY <1>1, <2>1, <2>3, BeginsTwo
<1> DEFINE inner(s) == [j \in 1 .. Len(Iterations) |-> b(s, Iterations[j])]
           ss == [k \in 1 .. Len(Sizes) |-> Barrier \o FlattenSeq(inner(Sizes[k]))
                                                \o (StopClock \o Sample)]
<1>3. PythonBiBandwidth(0, n) = FlattenSeq(ss)
  BY DEF PythonBiBandwidth, ForEach, Given
<1> HIDE DEF b
<1>4. IsLoop(ss, Len(Sizes)) /\ \A s : IsLoop(inner(s), Len(Iterations))
  BY DEF IsLoop
<1>5. \A s \in Nat \ {0} : \A j \in 1 .. Len(Iterations) :
          Begins(0, inner(s)[j], x, x, n + n, Iterations[j])
  BY <1>2, IterationsAre
<1>6. \A k \in 1 .. Len(Sizes) : Sizes[k] \in Nat \ {0} /\
          ss[k] = Barrier \o FlattenSeq(inner(Sizes[k])) \o (StopClock \o Sample)
  BY SizesAre
<1> HIDE DEF inner, ss
<1> QED BY <1>1, <1>3, <1>4, <1>5, <1>6, PythonMeasures

\* osu_bibw.py, rank 1.
LEMMA PythonBiBandwidthCalm ==
    ASSUME NEW x \in Alone, NEW n \in Nat
    PROVE  Measures(1, PythonBiBandwidth(1, n), x, x, 0)
<1>1. x \in Outside
  BY AloneOutside
<1> DEFINE b(s) == Times(n, IRecv(0, "100", s)) \o Times(n, ISend(0, "10", s))
                       \o Wait("isend") \o Wait("irecv")
<1>2. ASSUME NEW s \in Nat \ {0} PROVE Measures(1, b(s), x, x, 0)
  <2>1. /\ Measures(1, Times(n, IRecv(0, "100", s)), x, x, 0)
        /\ Measures(1, Times(n, ISend(0, "10", s)), x, x, 0)
        /\ Measures(1, Wait("irecv"), x, x, 0) /\ Measures(1, Wait("isend"), x, x, 0)
    BY <1>1, CalmTalking
  <2> QED BY <2>1, CalmThree
<1> DEFINE inner(s) == [j \in 1 .. Len(Iterations) |-> b(s)]
           ss == [k \in 1 .. Len(Sizes) |-> Barrier \o FlattenSeq(inner(Sizes[k])) \o <<>>]
<1>3. PythonBiBandwidth(1, n) = FlattenSeq(ss)
  BY DEF PythonBiBandwidth, ForEach, Given
<1> HIDE DEF b
<1>4. IsLoop(ss, Len(Sizes)) /\ \A s : IsLoop(inner(s), Len(Iterations))
  BY DEF IsLoop
<1>5. \A s \in Nat \ {0} : \A j \in 1 .. Len(Iterations) : Measures(1, inner(s)[j], x, x, 0)
  BY <1>2
<1>6. \A k \in 1 .. Len(Sizes) : Sizes[k] \in Nat \ {0} /\
          ss[k] = Barrier \o FlattenSeq(inner(Sizes[k])) \o <<>>
  BY SizesAre
<1> HIDE DEF inner, ss
<1> QED BY <1>3, <1>4, <1>5, <1>6, PythonCalm

-----------------------------------------------------------------------------
(* The point-to-point benchmarks of NCCL. *)

\* Calls that count nothing between those that do.
LEMMA CountsStill ==
    ASSUME NEW r, NEW s, NEW t, NEW x, NEW n \in Nat, Counts(r, s, x, x, n), Counts(r, t, x, x, 0)
    PROVE  Counts(r, s \o t, x, x, n)
<1>1. 0 \in Nat /\ n + 0 = n
  OBVIOUS
<1> QED BY <1>1, CountsOne

\* A rank of an NCCL point-to-point benchmark that measures.
LEMMA XcclMeasures ==
    ASSUME NEW r, NEW x \in Alone, NEW c \in Nat, NEW ss, IsLoop(ss, Len(Sizes)),
           \A k \in 1 .. Len(Sizes) : \E inner :
               /\ IsLoop(inner, Len(Iterations))
               /\ ss[k] = FlattenSeq(inner) \/ ss[k] = Barrier \o FlattenSeq(inner)
               /\ \A j \in 1 .. Len(Iterations) :
                     Measures(r, inner[j], x, x, IF Measured(Iterations[j]) THEN c ELSE 0)
    PROVE  Measures(r, FlattenSeq(ss), x, x, Total(c))
<1>1. ASSUME NEW k \in 1 .. Len(Sizes)
      PROVE  Measures(r, ss[k], x, x, Iters * c)
  <2>1. PICK inner : /\ IsLoop(inner, Len(Iterations))
                     /\ ss[k] = FlattenSeq(inner) \/ ss[k] = Barrier \o FlattenSeq(inner)
                     /\ \A j \in 1 .. Len(Iterations) :
                           Measures(r, inner[j], x, x, IF Measured(Iterations[j]) THEN c ELSE 0)
    OBVIOUS
  <2>2. Measures(r, FlattenSeq(inner), x, x, Iters * c)
    BY <2>1, SampledLoop
  <2>3. Measures(r, Barrier, x, x, 0)
    BY Barriers, CountsAtRest
  <2>4. Measures(r, Barrier \o FlattenSeq(inner), x, x, Iters * c)
    BY <2>2, <2>3, LaterOnly, RoundType
  <2> QED BY <2>1, <2>2, <2>4
<1> QED BY <1>1, SizeLoop

\* A rank of an NCCL point-to-point benchmark that does not.
LEMMA XcclCalm ==
    ASSUME NEW r, NEW x \in Alone, NEW ss, IsLoop(ss, Len(Sizes)),
           \A k \in 1 .. Len(Sizes) : \E inner :
               /\ IsLoop(inner, Len(Iterations))
               /\ ss[k] = FlattenSeq(inner) \/ ss[k] = Barrier \o FlattenSeq(inner)
               /\ \A j \in 1 .. Len(Iterations) : Measures(r, inner[j], x, x, 0)
    PROVE  Measures(r, FlattenSeq(ss), x, x, 0)
<1>1. Measures(r, Barrier, x, x, 0)
  BY Barriers, CountsAtRest
<1>2. ASSUME NEW k \in 1 .. Len(Sizes)
      PROVE  Measures(r, ss[k], x, x, 0)
  <2>1. PICK inner : /\ IsLoop(inner, Len(Iterations))
                     /\ ss[k] = FlattenSeq(inner) \/ ss[k] = Barrier \o FlattenSeq(inner)
                     /\ \A j \in 1 .. Len(Iterations) : Measures(r, inner[j], x, x, 0)
    OBVIOUS
  <2>2. Measures(r, FlattenSeq(inner), x, x, 0)
    BY <2>1, CalmLoop, IterationsAre, TurnsType
  <2> QED BY <1>1, <2>1, <2>2, CalmOn
<1> QED BY <1>2, CalmLoop, SizesAre

\* Synchronising the stream counts nothing.
LEMMA Synchronised0 ==
    ASSUME NEW r, NEW x \in Outside
    PROVE  Counts(r, SynchronizeStream, x, x, 0) /\ Measures(r, SynchronizeStream, x, x, 0)
<1>1. Counts(r, SynchronizeStream, x, x, 0)
  BY Waits, StillOn DEF SynchronizeStream
<1> QED BY <1>1, CountsAtRest, OneAndNone

\* A ping-pong on a stream.
LEMMA StreamedPingPong ==
    ASSUME NEW r, NEW x \in Outside, NEW p \in Nat, NEW s \in Nat \ {0}
    PROVE  Counts(r, ISend(p, "", s) \o SynchronizeStream \o IRecv(p, "", s) \o SynchronizeStream,
                  x, x, 2)
<1> DEFINE a == ISend(p, "", s) \o SynchronizeStream
           b == IRecv(p, "", s)
<1>1. Counts(r, SynchronizeStream, x, x, 0)
  BY Synchronised0
<1>2. Counts(r, b, x, x, 1)
  BY Talking
<1>3. Counts(r, a, x, x, 1)
  BY <1>1, Talking, CountsStill
<1> HIDE DEF a, b
<1>4. Counts(r, a \o b, x, x, 2)
  BY <1>2, <1>3, CountsOne
<1>5. Counts(r, a \o b \o SynchronizeStream, x, x, 2)
  BY <1>1, <1>4, CountsStill
<1> QED BY <1>5 DEF a, b

\* osu_xccl_latency, rank 0.
LEMMA XcclLatencyMeasures ==
    ASSUME NEW x \in Alone
    PROVE  Measures(0, XcclLatency(0), x, x, Total(2))
<1>1. x \in Outside
  BY AloneOutside
<1> DEFINE a(s) == ISend(1, "", s) \o SynchronizeStream \o IRecv(1, "", s) \o SynchronizeStream
           b(s, i) == XcclTimed(i, a(s))
<1>2. ASSUME NEW s \in Nat \ {0}, NEW i \in Nat
      PROVE  Measures(0, b(s, i), x, x, IF Measured(i) THEN 2 ELSE 0)
  <2>2. Counts(0, a(s), x, x, 2)
    BY <1>1, StreamedPingPong
  <2> HIDE DEF a
  <2> QED BY <1>1, <2>2, Timed
<1> DEFINE inner(s) == [j \in 1 .. Len(Iterations) |-> b(s, Iterations[j])]
           ss == [k \in 1 .. Len(Sizes) |-> Barrier \o FlattenSeq(inner(Sizes[k]))]
<1>3. XcclLatency(0) = FlattenSeq(ss)
  BY DEF XcclLatency, ForEach
<1> HIDE DEF b
<1>4. IsLoop(ss, Len(Sizes)) /\ \A s : IsLoop(inner(s), Len(Iterations))
  BY DEF IsLoop
<1>5. \A s \in Nat \ {0} : \A j \in 1 .. Len(Iterations) :
          Measures(0, inner(s)[j], x, x, IF Measured(Iterations[j]) THEN 2 ELSE 0)
  BY <1>2, IterationsAre
<1>6. \A k \in 1 .. Len(Sizes) : Sizes[k] \in Nat \ {0} /\
          ss[k] = Barrier \o FlattenSeq(inner(Sizes[k]))
  BY SizesAre
<1> DEFINE two == 2
<1>7. two \in Nat /\ \A s \in Nat \ {0} : \A j \in 1 .. Len(Iterations) :
          Measures(0, inner(s)[j], x, x, IF Measured(Iterations[j]) THEN two ELSE 0)
  BY <1>5
<1> HIDE DEF inner, ss, two
<1>8. Measures(0, FlattenSeq(ss), x, x, Total(two))
  BY <1>4, <1>6, <1>7, XcclMeasures
<1> QED BY <1>3, <1>8 DEF two

\* osu_xccl_latency, rank 1.
LEMMA XcclLatencyCalm ==
    ASSUME NEW x \in Alone
    PROVE  Measures(1, XcclLatency(1), x, x, 0)
<1>1. x \in Outside
  BY AloneOutside
<1> DEFINE b(s) == IRecv(0, "", s) \o SynchronizeStream \o ISend(0, "", s) \o SynchronizeStream
<1>2. ASSUME NEW s \in Nat \ {0} PROVE Measures(1, b(s), x, x, 0)
  <2>1. Measures(1, IRecv(0, "", s), x, x, 0) /\ Measures(1, ISend(0, "", s), x, x, 0)
    BY <1>1, CalmTalking
  <2> QED BY <1>1, <2>1, Synchronised0, CalmThree
<1> DEFINE inner(s) == [j \in 1 .. Len(Iterations) |-> b(s)]
           ss == [k \in 1 .. Len(Sizes) |-> Barrier \o FlattenSeq(inner(Sizes[k]))]
<1>3. XcclLatency(1) = FlattenSeq(ss)
  BY DEF XcclLatency, ForEach
<1> HIDE DEF b
<1>4. IsLoop(ss, Len(Sizes)) /\ \A s : IsLoop(inner(s), Len(Iterations))
  BY DEF IsLoop
<1>5. \A s \in Nat \ {0} : \A j \in 1 .. Len(Iterations) : Measures(1, inner(s)[j], x, x, 0)
  BY <1>2
<1>6. \A k \in 1 .. Len(Sizes) : Sizes[k] \in Nat \ {0} /\
          ss[k] = Barrier \o FlattenSeq(inner(Sizes[k]))
  BY SizesAre
<1> HIDE DEF inner, ss
<1> QED BY <1>3, <1>4, <1>5, <1>6, XcclCalm

\* osu_xccl_bw, rank 0.
LEMMA XcclBandwidthMeasures ==
    ASSUME NEW x \in Alone, NEW n \in Nat
    PROVE  Measures(0, XcclBandwidth(0, n), x, x, Total(n))
<1>1. x \in Outside
  BY AloneOutside
<1> DEFINE a(s) == Times(n, ISend(1, "", s)) \o SynchronizeStream \o IRecv(1, "", ReplySize)
           b(s, i) == XcclTimed(i, a(s))
<1>2. ASSUME NEW s \in Nat \ {0}, NEW i \in Nat
      PROVE  Measures(0, b(s, i), x, x, IF Measured(i) THEN n ELSE 0)
  <2>1. Counts(0, Times(n, ISend(1, "", s)), x, x, n) /\ Counts(0, IRecv(1, "", ReplySize), x, x, 0)
        /\ Counts(0, SynchronizeStream, x, x, 0)
    BY <1>1, Talking, Windowed, Synchronised0
  <2>3. Counts(0, Times(n, ISend(1, "", s)) \o SynchronizeStream, x, x, n)
    BY <2>1, CountsStill
  <2>2. Counts(0, a(s), x, x, n)
    BY <2>1, <2>3, CountsStill
  <2> QED BY <1>1, <2>2, Timed
<1> DEFINE inner(s) == [j \in 1 .. Len(Iterations) |-> b(s, Iterations[j])]
           ss == [k \in 1 .. Len(Sizes) |-> FlattenSeq(inner(Sizes[k]))]
<1>3. XcclBandwidth(0, n) = FlattenSeq(ss)
  BY DEF XcclBandwidth, ForEach
<1> HIDE DEF b
<1>4. IsLoop(ss, Len(Sizes)) /\ \A s : IsLoop(inner(s), Len(Iterations))
  BY DEF IsLoop
<1>5. \A s \in Nat \ {0} : \A j \in 1 .. Len(Iterations) :
          Measures(0, inner(s)[j], x, x, IF Measured(Iterations[j]) THEN n ELSE 0)
  BY <1>2, IterationsAre
<1>6. \A k \in 1 .. Len(Sizes) : Sizes[k] \in Nat \ {0} /\ ss[k] = FlattenSeq(inner(Sizes[k]))
  BY SizesAre
<1> HIDE DEF inner, ss
<1> QED BY <1>3, <1>4, <1>5, <1>6, XcclMeasures

\* osu_xccl_bw, rank 1.
LEMMA XcclBandwidthCalm ==
    ASSUME NEW x \in Alone, NEW n \in Nat
    PROVE  Measures(1, XcclBandwidth(1, n), x, x, 0)
<1>1. x \in Outside
  BY AloneOutside
<1> DEFINE b(s) == Times(n, IRecv(0, "", s)) \o SynchronizeStream \o ISend(0, "", ReplySize)
<1>2. ASSUME NEW s \in Nat \ {0} PROVE Measures(1, b(s), x, x, 0)
  <2>1. Measures(1, Times(n, IRecv(0, "", s)), x, x, 0) /\ Measures(1, ISend(0, "", ReplySize), x, x, 0)
    BY <1>1, CalmTalking DEF ReplySize
  <2> QED BY <1>1, <2>1, Synchronised0, CalmTwo
<1> DEFINE inner(s) == [j \in 1 .. Len(Iterations) |-> b(s)]
           ss == [k \in 1 .. Len(Sizes) |-> FlattenSeq(inner(Sizes[k]))]
<1>3. XcclBandwidth(1, n) = FlattenSeq(ss)
  BY DEF XcclBandwidth, ForEach
<1> HIDE DEF b
<1>4. IsLoop(ss, Len(Sizes)) /\ \A s : IsLoop(inner(s), Len(Iterations))
  BY DEF IsLoop
<1>5. \A s \in Nat \ {0} : \A j \in 1 .. Len(Iterations) : Measures(1, inner(s)[j], x, x, 0)
  BY <1>2
<1>6. \A k \in 1 .. Len(Sizes) : Sizes[k] \in Nat \ {0} /\ ss[k] = FlattenSeq(inner(Sizes[k]))
  BY SizesAre
<1> HIDE DEF inner, ss
<1> QED BY <1>3, <1>4, <1>5, <1>6, XcclCalm

\* osu_xccl_bibw, both ranks.
LEMMA XcclBiBandwidthMeasures ==
    ASSUME NEW r \in {0, 1}, NEW x \in Alone, NEW n \in Nat
    PROVE  Measures(r, XcclBiBandwidth(r, n), x, x, Total(n + n))
<1>1. x \in Outside /\ n + n \in Nat /\ 1 - r \in Nat
  BY AloneOutside
<1> DEFINE p == 1 - r
           a(s) == Times(n, IRecv(p, "", s)) \o Times(n, ISend(p, "", s))
           b(s, i) == XcclTimed(i, a(s) \o SynchronizeStream)
<1>2. ASSUME NEW s \in Nat \ {0}, NEW i \in Nat
      PROVE  Measures(r, b(s, i), x, x, IF Measured(i) THEN n + n ELSE 0)
  <2> HIDE DEF p
  <2>1. Counts(r, Times(n, ISend(p, "", s)), x, x, n) /\ Counts(r, Times(n, IRecv(p, "", s)), x, x, n)
    BY <1>1, Windowed DEF p
  <2>3. Counts(r, SynchronizeStream, x, x, 0)
    BY <1>1, Synchronised0
  <2>4. Counts(r, a(s), x, x, n + n)
    BY <2>1, CountsOne
  <2> HIDE DEF a
  <2>2. Counts(r, a(s) \o SynchronizeStream, x, x, n + n)
    BY <1>1, <2>3, <2>4, CountsStill
  <2> QED BY <1>1, <2>2, Timed
<1> DEFINE inner(s) == [j \in 1 .. Len(Iterations) |-> b(s, Iterations[j])]
           ss == [k \in 1 .. Len(Sizes) |-> FlattenSeq(inner(Sizes[k]))]
<1>3. XcclBiBandwidth(r, n) = FlattenSeq(ss)
  BY DEF XcclBiBandwidth, ForEach
<1> HIDE DEF b, p
<1>4. IsLoop(ss, Len(Sizes)) /\ \A s : IsLoop(inner(s), Len(Iterations))
  BY DEF IsLoop
<1>5. \A s \in Nat \ {0} : \A j \in 1 .. Len(Iterations) :
          Measures(r, inner(s)[j], x, x, IF Measured(Iterations[j]) THEN n + n ELSE 0)
  BY <1>2, IterationsAre
<1>6. \A k \in 1 .. Len(Sizes) : Sizes[k] \in Nat \ {0} /\ ss[k] = FlattenSeq(inner(Sizes[k]))
  BY SizesAre
<1> HIDE DEF inner, ss
<1> QED BY <1>1, <1>3, <1>4, <1>5, <1>6, XcclMeasures

OtherPt2ptRank(b, r) == r \in IF b = "py_multi_lat" THEN 0 .. 3 ELSE {0, 1}

\* The window of these benchmarks is a number of messages.
LEMMA WindowType == Head(Windows) \in Nat
BY SizesAre

\* The number of transfers that Total stands for.
LEMMA TotalIs ==
    /\ Iters * Len(Sizes) * 2 = Total(2)
    /\ \A n \in Nat : /\ Iters * Len(Sizes) * n = Total(n)
                      /\ Iters * Len(Sizes) * (2 * n) = Total(n + n)
<1>1. ASSUME NEW n \in Nat PROVE 2 * n = n + n
  OBVIOUS
<1> QED BY <1>1 DEF Total

\* What the printed value of a Java, Python or NCCL benchmark stands for.
LEMMA OtherPt2ptReports ==
    /\ OtherPt2ptReported("OSULatency") = Total(2)
    /\ OtherPt2ptReported("osu_xccl_latency") = Total(2)
    /\ \A b \in PythonLatencies : OtherPt2ptReported(b) = Total(2)
    /\ \A b \in JavaBandwidth \cup {"py_bw", "osu_xccl_bw"} :
          OtherPt2ptReported(b) = Total(Head(Windows))
    /\ \A b \in JavaBiBandwidth \cup {"py_bibw", "osu_xccl_bibw"} :
          OtherPt2ptReported(b) = Total(Head(Windows) + Head(Windows))
BY WindowType, TotalIs
   DEF OtherPt2ptReported, PythonLatencies, JavaBandwidth, JavaBiBandwidth

\* What every rank of a benchmark does, and what its clock counts.
LEMMA OtherPt2ptWalks ==
    ASSUME NEW b \in OtherPt2ptBenchmarks, NEW r, OtherPt2ptRank(b, r), NEW v \in BOOLEAN,
           NEW x \in Alone
    PROVE  \E n : /\ Measures(r, OtherPt2ptProgram(b, r, v), x, x, n)
                  /\ b \in PythonLatencies \/ r = 0 => n = OtherPt2ptReported(b)
<1> DEFINE w == Head(Windows)
<1>0. w \in Nat
  BY WindowType
<1> HIDE DEF w
<1>1. CASE b = "OSULatency"
  <2>1. OtherPt2ptProgram(b, r, v) = OSULatency(r, v) /\ r \in {0, 1}
    BY <1>1 DEF OtherPt2ptProgram, OtherPt2ptRank
  <2> QED BY <1>1, <2>1, OSULatencyMeasures, OSULatencyCalm, OtherPt2ptReports DEF PythonLatencies
<1>2. CASE b = "OSUBandwidth"
  <2>1. OtherPt2ptProgram(b, r, v) = OSUBandwidth(r, w, v) /\ r \in {0, 1}
    BY <1>2 DEF OtherPt2ptProgram, OtherPt2ptRank, w
  <2>2. OtherPt2ptReported(b) = Total(w)
    BY <1>2, OtherPt2ptReports DEF JavaBandwidth, w
  <2> QED BY <1>0, <1>2, <2>1, <2>2, OSUBandwidthMeasures, OSUBandwidthCalm DEF PythonLatencies
<1>3. CASE b = "OSUBandwidthOMPI"
  <2>1. OtherPt2ptProgram(b, r, v) = JavaWarmupLoop(r) \o OSUBandwidth(r, w, v) /\ r \in {0, 1}
    BY <1>3 DEF OtherPt2ptProgram, OSUBandwidthOMPI, OtherPt2ptRank, w
  <2>2. OtherPt2ptReported(b) = Total(w) /\ Total(w) \in Nat
    BY <1>0, <1>3, OtherPt2ptReports, TotalType DEF JavaBandwidth, w
  <2>3. /\ Measures(0, JavaWarmupLoop(0) \o OSUBandwidth(0, w, v), x, x, Total(w))
        /\ Measures(1, JavaWarmupLoop(1) \o OSUBandwidth(1, w, v), x, x, 0)
    BY <1>0, <2>2, OSUBandwidthMeasures, OSUBandwidthCalm, AfterWarmup
  <2> QED BY <1>3, <2>1, <2>2, <2>3 DEF PythonLatencies
<1>4. CASE b \in {"OSUBiBandwidth", "OSUBiBandwidthOMPI"}
  <2>1. OtherPt2ptProgram(b, r, v) = OSUBiBandwidth(r, w, v) /\ r \in {0, 1}
    BY <1>4 DEF OtherPt2ptProgram, OSUBiBandwidthOMPI, OtherPt2ptRank, w
  <2>2. OtherPt2ptReported(b) = Total(w + w)
    BY <1>4, OtherPt2ptReports DEF JavaBiBandwidth, w
  <2> QED BY <1>0, <1>4, <2>1, <2>2, OSUBiBandwidthMeasures, OSUBiBandwidthCalm DEF PythonLatencies
<1>5. CASE b = "py_latency"
  <2>1. OtherPt2ptProgram(b, r, v) = PythonPingPong(1 - r, r = 0) /\ r \in {0, 1}
    BY <1>5 DEF OtherPt2ptProgram, PythonLatency, OtherPt2ptRank
  <2>2. 1 - r \in Nat /\ (r = 0) \in BOOLEAN
    BY <2>1
  <2>3. Measures(r, PythonPingPong(1 - r, r = 0), x, x, Total(2))
    BY <2>2, PythonPingPongMeasures
  <2> QED BY <1>5, <2>1, <2>3, OtherPt2ptReports DEF PythonLatencies
<1>6. CASE b = "py_multi_lat"
  <2>1. /\ OtherPt2ptProgram(b, r, v) = PythonMultiLat(r) /\ r \in 0 .. 3
        /\ OtherPt2ptReported(b) = Total(2)
    BY <1>6, OtherPt2ptReports DEF OtherPt2ptProgram, OtherPt2ptRank, PythonLatencies
  <2>2. CASE r < 2
    <3>1. PythonMultiLat(r) = PythonPingPong(r + 2, TRUE) /\ r + 2 \in Nat
      BY <2>1, <2>2 DEF PythonMultiLat, PythonPairs
    <3> QED BY <2>1, <3>1, PythonPingPongMeasures
  <2>3. CASE ~(r < 2)
    <3>1. PythonMultiLat(r) = PythonPingPong(r - 2, FALSE) /\ r - 2 \in Nat
      BY <2>1, <2>3 DEF PythonMultiLat, PythonPairs
    <3> QED BY <2>1, <3>1, PythonPingPongMeasures
  <2> QED BY <2>2, <2>3
<1>7. CASE b = "py_bw"
  <2>1. OtherPt2ptProgram(b, r, v) = PythonBandwidth(r, w) /\ r \in {0, 1}
    BY <1>7 DEF OtherPt2ptProgram, OtherPt2ptRank, w
  <2>2. OtherPt2ptReported(b) = Total(w)
    BY <1>7, OtherPt2ptReports DEF w
  <2> QED BY <1>0, <1>7, <2>1, <2>2, PythonBandwidthMeasures, PythonBandwidthCalm DEF PythonLatencies
<1>8. CASE b = "py_bibw"
  <2>1. OtherPt2ptProgram(b, r, v) = PythonBiBandwidth(r, w) /\ r \in {0, 1}
    BY <1>8 DEF OtherPt2ptProgram, OtherPt2ptRank, w
  <2>2. OtherPt2ptReported(b) = Total(w + w)
    BY <1>8, OtherPt2ptReports DEF w
  <2> QED BY <1>0, <1>8, <2>1, <2>2, PythonBiBandwidthMeasures, PythonBiBandwidthCalm DEF PythonLatencies
<1>9. CASE b = "osu_xccl_latency"
  <2>1. OtherPt2ptProgram(b, r, v) = XcclLatency(r) /\ r \in {0, 1}
    BY <1>9 DEF OtherPt2ptProgram, OtherPt2ptRank
  <2> QED BY <1>9, <2>1, XcclLatencyMeasures, XcclLatencyCalm, OtherPt2ptReports DEF PythonLatencies
<1>10. CASE b = "osu_xccl_bw"
  <2>1. OtherPt2ptProgram(b, r, v) = XcclBandwidth(r, w) /\ r \in {0, 1}
    BY <1>10 DEF OtherPt2ptProgram, OtherPt2ptRank, w
  <2>2. OtherPt2ptReported(b) = Total(w)
    BY <1>10, OtherPt2ptReports DEF w
  <2> QED BY <1>0, <1>10, <2>1, <2>2, XcclBandwidthMeasures, XcclBandwidthCalm DEF PythonLatencies
<1>11. CASE b = "osu_xccl_bibw"
  <2>1. OtherPt2ptProgram(b, r, v) = XcclBiBandwidth(r, w) /\ r \in {0, 1}
    BY <1>11 DEF OtherPt2ptProgram, OtherPt2ptRank, w
  <2>2. OtherPt2ptReported(b) = Total(w + w)
    BY <1>11, OtherPt2ptReports DEF w
  <2> QED BY <1>0, <1>11, <2>1, <2>2, XcclBiBandwidthMeasures DEF PythonLatencies
<1>12. b \in {"OSULatency", "OSUBandwidth", "OSUBandwidthOMPI", "OSUBiBandwidth", "OSUBiBandwidthOMPI",
              "py_latency", "py_multi_lat", "py_bw", "py_bibw", "osu_xccl_latency", "osu_xccl_bw",
              "osu_xccl_bibw"}
  BY DEF OtherPt2ptBenchmarks, JavaPt2pt, JavaLatency, JavaBandwidth, JavaBiBandwidth,
         PythonPt2pt, PythonLatencies, XcclPt2pt
<1> QED BY <1>1, <1>2, <1>3, <1>4, <1>5, <1>6, <1>7, <1>8, <1>9, <1>10, <1>11, <1>12

-----------------------------------------------------------------------------
(* The point-to-point benchmarks in C. *)

\* A clock that runs through a sequence that counts.
LEMMA RunsThen ==
    ASSUME NEW r, NEW s, NEW t, NEW x, NEW m \in Nat, NEW k \in Nat, NEW n,
           Runs(r, s, x, x, m), Counts(r, t, x, x, k), n = m + k
    PROVE  Runs(r, s \o t, x, x, n)
BY RunsOn

\* A clock that runs through two sequences.
LEMMA RunsTwo ==
    ASSUME NEW r, NEW s, NEW t, NEW u, NEW x, NEW m \in Nat, NEW k \in Nat, NEW l \in Nat, NEW n,
           Runs(r, s, x, x, m), Counts(r, t, x, x, k), Counts(r, u, x, x, l), n = m + k + l
    PROVE  Runs(r, s \o t \o u, x, x, n)
<1>1. m + k \in Nat
  OBVIOUS
<1>2. Runs(r, s \o t, x, x, m + k)
  BY RunsOn
<1> QED BY <1>1, <1>2, RunsThen

\* A clock that runs through three sequences.
LEMMA RunsThree ==
    ASSUME NEW r, NEW s, NEW t, NEW u, NEW v, NEW x,
           NEW m \in Nat, NEW j \in Nat, NEW k \in Nat, NEW l \in Nat, NEW n,
           Runs(r, s, x, x, m), Counts(r, t, x, x, j), Counts(r, u, x, x, k),
           Counts(r, v, x, x, l), n = m + j + k + l
    PROVE  Runs(r, s \o t \o u \o v, x, x, n)
<1>1. m + j + k \in Nat
  OBVIOUS
<1>2. Runs(r, s \o t \o u, x, x, m + j + k)
  BY RunsTwo
<1> QED BY <1>1, <1>2, RunsThen

\* An exchange as the sender measures it: c transfers, if it is sampled.
Exchanged(r, s, x, c) == Measures(r, s, x, x, 0) /\ Halts(r, s, x, x, c)

\* An exchange that is not sampled adds nothing.
LEMMA ExchangedIf ==
    ASSUME NEW r, NEW s, NEW x \in Outside, NEW c \in Nat, Runs(r, s, x, x, c)
    PROVE  Exchanged(r, s \o StopClock, x, c)
BY Stopping DEF Exchanged

\* An exchange of a latency benchmark, sender.
LEMMA LatencySenders ==
    ASSUME NEW r, NEW x \in Outside, NEW p \in Nat, NEW s \in Nat \ {0}
    PROVE  /\ Exchanged(r, LatencySender(p, s), x, 2)
           /\ Exchanged(r, LatencySenderPersistent(p, s), x, 2)
           /\ Exchanged(r, PartitionedLatencySender(p, s), x, 2)
<1>1. /\ Counts(r, Send(p, "ping", s), x, x, 1) /\ Counts(r, Recv(p, "pong", s), x, x, 1)
      /\ Counts(r, Recv(p, "ping", s), x, x, 1)
  BY Talking
<1>2. Runs(r, StartClock, x, x, 0)
  BY Starting
<1>3. /\ Runs(r, StartClock \o Send(p, "ping", s) \o Recv(p, "pong", s), x, x, 2)
      /\ Runs(r, StartClock \o Send(p, "ping", s) \o Recv(p, "ping", s), x, x, 2)
  BY <1>1, <1>2, RunsTwo
<1> QED BY <1>3, ExchangedIf
        DEF LatencySender, LatencySenderPersistent, PartitionedLatencySender

\* An exchange of a latency benchmark, receiver.
LEMMA LatencyReceivers ==
    ASSUME NEW r, NEW x \in Outside, NEW p \in Nat, NEW s \in Nat
    PROVE  /\ Measures(r, LatencyReceiver(p, s), x, x, 0)
           /\ Measures(r, LatencyReceiverPersistent(p, s), x, x, 0)
           /\ Measures(r, PartitionedLatencyReceiver(p, s), x, x, 0)
<1>1. /\ Measures(r, Recv(p, "ping", s), x, x, 0) /\ Measures(r, Send(p, "pong", s), x, x, 0)
      /\ Measures(r, Send(p, "ping", s), x, x, 0)
  BY CalmTalking
<1> QED BY <1>1, CalmOn DEF LatencyReceiver, LatencyReceiverPersistent, PartitionedLatencyReceiver

\* An exchange of a bandwidth benchmark, sender.
LEMMA BandwidthSenders ==
    ASSUME NEW r, NEW x \in Outside, NEW p \in Nat, NEW s \in Nat \ {0}, NEW n \in Nat
    PROVE  /\ Exchanged(r, BandwidthSender(p, n, s), x, n)
           /\ Exchanged(r, BandwidthSenderPersistent(p, n, s), x, n)
<1>1. /\ Counts(r, Times(n, ISend(p, "ping", s)), x, x, n) /\ Counts(r, Wait("isend"), x, x, 0)
      /\ Counts(r, Recv(p, "pong", ReplySize), x, x, 0)
  BY Talking, Windowed
<1>2. Runs(r, StartClock, x, x, 0)
  BY Starting
<1>3. Runs(r, StartClock \o Times(n, ISend(p, "ping", s)) \o Wait("isend")
                  \o Recv(p, "pong", ReplySize), x, x, n)
  BY <1>1, <1>2, RunsThree
<1> QED BY <1>3, ExchangedIf DEF BandwidthSender, BandwidthSenderPersistent

\* An exchange of a bandwidth benchmark, receiver.
LEMMA BandwidthReceivers ==
    ASSUME NEW r, NEW x \in Outside, NEW p \in Nat, NEW s \in Nat, NEW n \in Nat
    PROVE  /\ Measures(r, BandwidthReceiver(p, n, s), x, x, 0)
           /\ Measures(r, BandwidthReceiverPersistent(p, n, s), x, x, 0)
<1>1. /\ Measures(r, Times(n, IRecv(p, "ping", s)), x, x, 0) /\ Measures(r, Wait("irecv"), x, x, 0)
      /\ Measures(r, Send(p, "pong", ReplySize), x, x, 0)
  BY CalmTalking DEF ReplySize
<1> QED BY <1>1, CalmTwo DEF BandwidthReceiver, BandwidthReceiverPersistent

\* Two transfers n times.
LEMMA TwoEach ==
    ASSUME NEW r, NEW s, NEW x, NEW n \in Nat, Counts(r, s, x, x, 2)
    PROVE  Counts(r, Times(n, s), x, x, n + n)
<1>1. n * 2 = n + n
  OBVIOUS
<1>2. Counts(r, Times(n, s), x, x, n * 2)
  BY AreCalls, CountsTimes
<1> QED BY <1>1, <1>2

\* An exchange of a bidirectional bandwidth benchmark, sender.
LEMMA BiBandwidthSenders ==
    ASSUME NEW r, NEW x \in Outside, NEW p \in Nat, NEW s \in Nat \ {0}, NEW n \in Nat
    PROVE  /\ Exchanged(r, BiBandwidthSender(p, n, s), x, n + n)
           /\ Exchanged(r, BiBandwidthSenderPersistent(p, n, s), x, n + n)
<1>1. Runs(r, StartClock, x, x, 0) /\ n + n \in Nat
  BY Starting
<1>2. Counts(r, Wait("isend"), x, x, 0) /\ Counts(r, Wait("irecv"), x, x, 0)
  BY Waits
<1> DEFINE a == Times(n, ISend(p, "ping", s) \o IRecv(p, "pong", s))
           b == Times(n, ISend(p, "ping", s))
           c == Times(n, IRecv(p, "ping", s))
<1>3. Counts(r, a, x, x, n + n)
  <2>1. Counts(r, ISend(p, "ping", s), x, x, 1) /\ Counts(r, IRecv(p, "pong", s), x, x, 1)
    BY Talking
  <2>2. Counts(r, ISend(p, "ping", s) \o IRecv(p, "pong", s), x, x, 2)
    BY <2>1, CountsOne
  <2> QED BY <2>2, TwoEach
<1>4. Counts(r, b, x, x, n) /\ Counts(r, c, x, x, n)
  BY Windowed
<1> HIDE DEF a, b, c
<1>5. Runs(r, StartClock \o a \o Wait("isend") \o Wait("irecv"), x, x, n + n)
  BY <1>1, <1>2, <1>3, RunsThree
<1>6. Runs(r, StartClock \o b \o c \o Wait("isend") \o Wait("irecv"), x, x, n + n)
  <2>1. Runs(r, StartClock \o b \o c, x, x, n + n)
    BY <1>1, <1>4, RunsTwo
  <2> QED BY <1>1, <1>2, <2>1, RunsTwo
<1>7. /\ Exchanged(r, StartClock \o a \o Wait("isend") \o Wait("irecv") \o StopClock, x, n + n)
      /\ Exchanged(r, StartClock \o b \o c \o Wait("isend") \o Wait("irecv") \o StopClock, x, n + n)
  BY <1>1, <1>5, <1>6, ExchangedIf
<1> QED BY <1>7 DEF BiBandwidthSender, BiBandwidthSenderPersistent, a, b, c

\* An exchange of a bidirectional bandwidth benchmark, receiver.
LEMMA BiBandwidthReceivers ==
    ASSUME NEW r, NEW x \in Outside, NEW p \in Nat, NEW s \in Nat, NEW n \in Nat
    PROVE  /\ Measures(r, BiBandwidthReceiver(p, n, s), x, x, 0)
           /\ Measures(r, BiBandwidthReceiverPersistent(p, n, s), x, x, 0)
<1>1. /\ Measures(r, Times(n, IRecv(p, "ping", s)), x, x, 0) /\ Measures(r, Wait("irecv"), x, x, 0)
      /\ Measures(r, Times(n, ISend(p, "ping", s)), x, x, 0) /\ Measures(r, Wait("isend"), x, x, 0)
      /\ Measures(r, IRecv(p, "ping", s), x, x, 0) /\ Measures(r, ISend(p, "pong", s), x, x, 0)
  BY CalmTalking
<1>2. Measures(r, Times(n, IRecv(p, "ping", s) \o ISend(p, "pong", s)), x, x, 0)
  <2>1. Measures(r, IRecv(p, "ping", s) \o ISend(p, "pong", s), x, x, 0)
    BY <1>1, CalmOn
  <2> QED BY <2>1, AreCalls, CalmTimes
<1>3. Measures(r, BiBandwidthReceiver(p, n, s), x, x, 0)
  BY <1>1, <1>2, CalmTwo DEF BiBandwidthReceiver
<1>4. Measures(r, BiBandwidthReceiverPersistent(p, n, s), x, x, 0)
  BY <1>1, CalmThree DEF BiBandwidthReceiverPersistent
<1> QED BY <1>3, <1>4

\* An exchange of a congestion benchmark, sender.
LEMMA CongestionSenders ==
    ASSUME NEW r, NEW x \in Outside, NEW ring \in Seq(Nat), NEW s \in Nat \ {0}, NEW n \in Nat
    PROVE  Exchanged(r, CongestionSender(ring, n, s), x, Len(ring) * n)
<1> DEFINE m == Len(ring)
           to == [k \in 1 .. m |-> Times(n, ISend(ring[k], "ping", s))]
           from == [k \in 1 .. m |-> Recv(ring[k], "pong", ReplySize)]
<1>1. CongestionSender(ring, n, s) = StartClock \o FlattenSeq(to) \o Wait("isend")
                                          \o FlattenSeq(from) \o StopClock
  BY DEF CongestionSender, ForEach
<1>2. m \in Nat /\ m * 0 = 0 /\ m * n \in Nat
  OBVIOUS
<1>3. \A k \in 1 .. m : /\ Counts(r, to[k], x, x, n) /\ Counts(r, from[k], x, x, 0)
  <2>1. \A k \in 1 .. m : ring[k] \in Nat
    OBVIOUS
  <2> QED BY <2>1, Windowed, Talking
<1>4. IsLoop(to, m) /\ IsLoop(from, m)
  BY DEF IsLoop
<1> HIDE DEF to, from
<1>5. Counts(r, FlattenSeq(to), x, x, m * n)
  BY <1>2, <1>3, <1>4, StillLoop
<1>6. Counts(r, FlattenSeq(from), x, x, 0)
  <2>1. Counts(r, FlattenSeq(from), x, x, m * 0)
    BY <1>2, <1>3, <1>4, OneAndNone, StillLoop
  <2> QED BY <1>2, <2>1
<1> DEFINE c == m * n
<1>7. c \in Nat /\ Counts(r, FlattenSeq(to), x, x, c)
  BY <1>2, <1>5
<1> HIDE DEF c
<1>8. Runs(r, StartClock, x, x, 0) /\ Counts(r, Wait("isend"), x, x, 0)
  BY Starting, Waits
<1>9. Runs(r, StartClock \o FlattenSeq(to) \o Wait("isend") \o FlattenSeq(from), x, x, c)
  BY <1>6, <1>7, <1>8, RunsThree
<1>10. Exchanged(r, StartClock \o FlattenSeq(to) \o Wait("isend") \o FlattenSeq(from) \o StopClock, x, c)
  BY <1>7, <1>9, ExchangedIf
<1> QED BY <1>1, <1>10 DEF c

\* An exchange of a congestion benchmark, receiver.
LEMMA CongestionReceivers ==
    ASSUME NEW r, NEW x \in Outside, NEW ring \in Seq(Nat), NEW s \in Nat, NEW n \in Nat
    PROVE  Measures(r, CongestionReceiver(ring, n, s), x, x, 0)
<1> DEFINE m == Len(ring)
           from == [k \in 1 .. m |-> Times(n, IRecv(ring[k], "ping", s))]
           to == [k \in 1 .. m |-> Send(ring[k], "pong", ReplySize)]
<1>1. CongestionReceiver(ring, n, s) = FlattenSeq(from) \o Wait("irecv") \o FlattenSeq(to)
  BY DEF CongestionReceiver, ForEach
<1>2. m \in Nat
  OBVIOUS
<1>3. \A k \in 1 .. m : /\ Measures(r, to[k], x, x, 0) /\ Measures(r, from[k], x, x, 0)
  <2>1. \A k \in 1 .. m : ring[k] \in Nat
    OBVIOUS
  <2> QED BY <2>1, CalmTalking DEF ReplySize
<1>4. IsLoop(to, m) /\ IsLoop(from, m)
  BY DEF IsLoop
<1> HIDE DEF to, from
<1>5. Measures(r, FlattenSeq(to), x, x, 0) /\ Measures(r, FlattenSeq(from), x, x, 0)
  BY <1>2, <1>3, <1>4, CalmLoop
<1>6. Measures(r, Wait("irecv"), x, x, 0)
  BY Waits, CountsAtRest, OneAndNone
<1> QED BY <1>1, <1>5, <1>6, CalmTwo

\* The messages of one exchange.
MessagesOf(b, n) ==
    IF b \in LatencyTest THEN 2
    ELSE IF b \in FanOut THEN (Nodes - 1) * n
    ELSE IF b \in BandwidthTest THEN n
    ELSE n + n

\* That number is positive.
LEMMA MessagesType ==
    ASSUME NEW b, NEW n \in Nat PROVE MessagesOf(b, n) \in Nat
<1>1. (Nodes - 1) * n \in Nat
  BY NodesAssumption
<1> QED BY <1>1 DEF MessagesOf

\* Ranks, partners and window sizes are numbers.
LEMMA Partners ==
    ASSUME NEW b \in CPt2pt, NEW r \in CPt2ptRanks(b)
    PROVE  /\ r \in Nat
           /\ b \notin Congestion => Partner(b, r) \in Nat
           /\ RanksQueue(r) \in Seq(Nat)
           /\ b \in Congestion /\ IsSender(b, r) => Len(RanksQueue(r)) = IF b \in FanOut THEN Nodes - 1 ELSE 1
<1>1. r \in Nat
  BY NodesAssumption DEF CPt2ptRanks, PairCount
<1>2. b \notin Congestion => Partner(b, r) \in Nat
  BY NodesAssumption DEF CPt2ptRanks, Partner, PairCount, IsSender
<1>3. RanksQueue(r) \in Seq(Nat) /\ Len(RanksQueue(r)) = IF r = 0 THEN Nodes - 1 ELSE 1
  BY NodesAssumption DEF RanksQueue
<1>4. b \in Congestion /\ IsSender(b, r) => ((b \in FanOut) <=> r = 0)
  BY DEF IsSender
<1> QED BY <1>1, <1>2, <1>3, <1>4

\* Every point-to-point benchmark is of one of the kinds.
LEMMA PtKinds ==
    ASSUME NEW b \in CPt2pt
    PROVE  \/ b \in Partitioned \/ b \in (LatencyTest \cap Persistent) \ Partitioned
           \/ b \in LatencyTest \ Persistent \/ b \in Congestion
           \/ b \in BandwidthTest \cap Persistent \/ b \in BandwidthTest \ (Persistent \cup Congestion)
           \/ b \in BiBandwidthTest \cap Persistent \/ b \in BiBandwidthTest \ Persistent
BY DEF CPt2pt

\* An exchange of any of these benchmarks, sender.
LEMMA SenderExchanges ==
    ASSUME NEW b \in CPt2pt, NEW r \in CPt2ptRanks(b), IsSender(b, r),
           NEW x \in Outside, NEW n \in Nat, NEW s \in Nat \ {0}
    PROVE  Exchanged(r, SenderExchange(b, r, n, s), x, MessagesOf(b, n))
<1> DEFINE p == Partner(b, r)
<1> USE DEF CPt2pt, LatencyTest, BandwidthTest, BiBandwidthTest, Persistent, Partitioned, Congestion, FanOut
<1>1. CASE b \in Partitioned
  <2>1. SenderExchange(b, r, n, s) = PartitionedLatencySender(p, s) /\ MessagesOf(b, n) = 2
    BY <1>1 DEF SenderExchange, MessagesOf
  <2>2. p \in Nat
    BY <1>1, Partners
  <2> HIDE DEF p
  <2> QED BY <2>1, <2>2, LatencySenders
<1>2. CASE b = "osu_latency_persistent"
  <2>1. SenderExchange(b, r, n, s) = LatencySenderPersistent(p, s) /\ MessagesOf(b, n) = 2
    BY <1>2 DEF SenderExchange, MessagesOf
  <2>2. p \in Nat
    BY <1>2, Partners
  <2> HIDE DEF p
  <2> QED BY <2>1, <2>2, LatencySenders
<1>3. CASE b \in LatencyTest \ Persistent
  <2>1. SenderExchange(b, r, n, s) = LatencySender(p, s) /\ MessagesOf(b, n) = 2
    BY <1>3 DEF SenderExchange, MessagesOf
  <2>2. p \in Nat
    BY <1>3, Partners
  <2> HIDE DEF p
  <2> QED BY <2>1, <2>2, LatencySenders
<1>4. CASE b \in Congestion
  <2>1. SenderExchange(b, r, n, s) = CongestionSender(RanksQueue(r), n, s)
    BY <1>4 DEF SenderExchange
  <2>2. RanksQueue(r) \in Seq(Nat) /\ Len(RanksQueue(r)) * n = MessagesOf(b, n)
    <3>1. /\ RanksQueue(r) \in Seq(Nat)
          /\ Len(RanksQueue(r)) = IF b \in FanOut THEN Nodes - 1 ELSE 1
      BY <1>4, Partners
    <3>2. MessagesOf(b, n) = IF b \in FanOut THEN (Nodes - 1) * n ELSE n
      BY <1>4 DEF MessagesOf
    <3>3. 1 * n = n
      OBVIOUS
    <3> QED BY <3>1, <3>2, <3>3
  <2>3. Exchanged(r, CongestionSender(RanksQueue(r), n, s), x, Len(RanksQueue(r)) * n)
    BY <2>2, CongestionSenders
  <2> QED BY <2>1, <2>2, <2>3
<1>5. CASE b = "osu_bw_persistent"
  <2>1. SenderExchange(b, r, n, s) = BandwidthSenderPersistent(p, n, s) /\ MessagesOf(b, n) = n
    BY <1>5 DEF SenderExchange, MessagesOf
  <2>2. p \in Nat
    BY <1>5, Partners
  <2> HIDE DEF p
  <2> QED BY <2>1, <2>2, BandwidthSenders
<1>6. CASE b \in {"osu_bw", "osu_mbw_mr"}
  <2>1. SenderExchange(b, r, n, s) = BandwidthSender(p, n, s) /\ MessagesOf(b, n) = n
    BY <1>6 DEF SenderExchange, MessagesOf
  <2>2. p \in Nat
    BY <1>6, Partners
  <2> HIDE DEF p
  <2> QED BY <2>1, <2>2, BandwidthSenders
<1>7. CASE b = "osu_bibw_persistent"
  <2>1. SenderExchange(b, r, n, s) = BiBandwidthSenderPersistent(p, n, s) /\ MessagesOf(b, n) = n + n
    BY <1>7 DEF SenderExchange, MessagesOf
  <2>2. p \in Nat
    BY <1>7, Partners
  <2> HIDE DEF p
  <2> QED BY <2>1, <2>2, BiBandwidthSenders
<1>8. CASE b = "osu_bibw"
  <2>1. SenderExchange(b, r, n, s) = BiBandwidthSender(p, n, s) /\ MessagesOf(b, n) = n + n
    BY <1>8 DEF SenderExchange, MessagesOf
  <2>2. p \in Nat
    BY <1>8, Partners
  <2> HIDE DEF p
  <2> QED BY <2>1, <2>2, BiBandwidthSenders
<1> QED BY <1>1, <1>2, <1>3, <1>4, <1>5, <1>6, <1>7, <1>8

\* An exchange of any of these benchmarks, receiver.
LEMMA ReceiverExchanges ==
    ASSUME NEW b \in CPt2pt, NEW r \in CPt2ptRanks(b),
           NEW x \in Outside, NEW n \in Nat, NEW s \in Nat
    PROVE  Measures(r, ReceiverExchange(b, r, n, s), x, x, 0)
<1> DEFINE p == Partner(b, r)
<1> USE DEF CPt2pt, LatencyTest, BandwidthTest, BiBandwidthTest, Persistent, Partitioned, Congestion, FanOut
<1>1. CASE b \in LatencyTest
  <2>1. ReceiverExchange(b, r, n, s) \in {PartitionedLatencyReceiver(p, s),
            LatencyReceiverPersistent(p, s), LatencyReceiver(p, s)}
    BY <1>1 DEF ReceiverExchange
  <2>2. p \in Nat
    BY <1>1, Partners
  <2> HIDE DEF p
  <2> QED BY <2>1, <2>2, LatencyReceivers
<1>2. CASE b \in Congestion
  <2>1. ReceiverExchange(b, r, n, s) = CongestionReceiver(RanksQueue(r), n, s)
    BY <1>2 DEF ReceiverExchange
  <2> QED BY <2>1, Partners, CongestionReceivers
<1>3. CASE b \in BandwidthTest \ Congestion
  <2>1. ReceiverExchange(b, r, n, s) \in {BandwidthReceiverPersistent(p, n, s), BandwidthReceiver(p, n, s)}
    BY <1>3 DEF ReceiverExchange
  <2>2. p \in Nat
    BY <1>3, Partners
  <2> HIDE DEF p
  <2> QED BY <2>1, <2>2, BandwidthReceivers
<1>4. CASE b \in BiBandwidthTest
  <2>1. ReceiverExchange(b, r, n, s) \in {BiBandwidthReceiverPersistent(p, n, s), BiBandwidthReceiver(p, n, s)}
    BY <1>4 DEF ReceiverExchange
  <2>2. p \in Nat
    BY <1>4, Partners
  <2> HIDE DEF p
  <2> QED BY <2>1, <2>2, BiBandwidthReceivers
<1> QED BY <1>1, <1>2, <1>3, <1>4

\* The threads of osu_latency_mt are not alone in their ranks.
Placed(b, x) == IF b = "osu_latency_mt" THEN x \in Outside /\ ~x.alone ELSE x \in Alone

Chosen(x) == [x EXCEPT !.phase = "chosen"]

\* Three calls that count nothing.
LEMMA ThreeCalls ==
    ASSUME NEW e, NEW c, NEW l
    PROVE  <<e>> \o (<<c>> \o <<l>>) = <<e, c, l>>
<1> DEFINE S == {e, c, l}
           u == <<c>> \o <<l>>
           v == <<e>> \o u
           w == <<e, c, l>>
<1>1. <<c>> \in Seq(S) /\ <<l>> \in Seq(S) /\ <<e>> \in Seq(S) /\ w \in Seq(S)
  OBVIOUS
<1>2. u \in Seq(S) /\ Len(u) = 2 /\ u[1] = c /\ u[2] = l
  BY <1>1
<1>3. v \in Seq(S) /\ Len(v) = 3 /\ v[1] = e /\ v[2] = u[1] /\ v[3] = u[2]
  <2> DEFINE a == <<e>>
  <2>1. a \in Seq(S) /\ Len(a) = 1 /\ a[1] = e
    BY <1>1
  <2> HIDE DEF a, u, S
  <2>4. /\ a \o u \in Seq(S) /\ Len(a \o u) = Len(a) + Len(u)
        /\ \A k \in 1 .. Len(a) + Len(u) :
              (a \o u)[k] = IF k <= Len(a) THEN a[k] ELSE u[k - Len(a)]
    BY <1>2, <2>1, ConcatProperties
  <2>2. /\ a \o u \in Seq(S) /\ Len(a \o u) = 3
        /\ \A k \in 1 .. 3 : (a \o u)[k] = IF k <= 1 THEN a[k] ELSE u[k - 1]
    BY <1>2, <2>1, <2>4
  <2>3. (a \o u)[1] = a[1] /\ (a \o u)[2] = u[2 - 1] /\ (a \o u)[3] = u[3 - 1]
    BY <2>2
  <2> QED BY <2>1, <2>2, <2>3 DEF a
<1>4. Len(w) = 3 /\ w[1] = e /\ w[2] = c /\ w[3] = l
  OBVIOUS
<1>5. \A k \in 1 .. 3 : v[k] = w[k]
  <2> HIDE DEF u, v, w, S
  <2>1. \A k \in 1 .. 3 : k = 1 \/ k = 2 \/ k = 3
    OBVIOUS
  <2> QED BY <1>2, <1>3, <1>4, <2>1
<1> HIDE DEF u, v, w, S
<1>6. v = w
  BY <1>1, <1>3, <1>4, <1>5, SeqEqual
<1> QED BY <1>6 DEF v, u, w

\* The serial thread, and the way of the other ones around what it does.
LEMMA SerialThread ==
    ASSUME NEW r, NEW x \in Outside, ~x.alone
    PROVE  Measures(r, <<[op |-> "elect", else |-> 2]>> \o Barrier, x, x, 0)
<1> DEFINE e == [op |-> "elect", else |-> 2]
           c == [op |-> "enter", kind |-> "barrier", root |-> 0, data |-> {}, form |-> "plain"]
           l == [op |-> "leave"]
<1>1. <<e>> \o Barrier = <<e, c, l>>
  <2>1. Barrier = <<c>> \o <<l>>
    BY DEF Barrier, Enter, Leave
  <2> HIDE DEF e, c, l
  <2> QED BY <2>1, ThreeCalls
<1>2. e \in Calls /\ c \in Calls /\ l \in Calls
  BY DEF Calls, Plain, CollectiveKinds, Forms
<1>3. x \in Locals /\ Chosen(x) \in Locals /\ Within(x) \in Locals /\ x.phase = "out"
  BY DEF Outside, Locals, Chosen, Within
<1>4. LocalMove(r, e, x, Chosen(x))
  BY <1>3 DEF LocalMove, LegalMove, OrderlyMove, Changed, Chosen
<1>5. LocalMove(r, c, Chosen(x), Within(x))
  <2>1. [[x EXCEPT !.phase = "chosen"] EXCEPT !.phase = "in", !.access = x.access]
          = [x EXCEPT !.phase = "in"]
    BY <1>3 DEF Locals
  <2>2. Chosen(x).phase = "chosen" /\ Chosen(x).alone = x.alone /\ Chosen(x).access = x.access
    BY <1>3 DEF Chosen, Locals
  <2>3. OrderlyMove(c, Chosen(x)) /\ LegalMove(r, c, Chosen(x))
    BY <2>2 DEF OrderlyMove, LegalMove, MayEnter, PSync
  <2>4. Within(x) = Changed(r, c, Chosen(x))
    BY <2>1, <2>2 DEF Changed, Chosen, Within
  <2> QED BY <2>3, <2>4 DEF LocalMove
<1>6. LocalMove(r, l, Within(x), x)
  <2>1. x = [[x EXCEPT !.phase = "in"] EXCEPT !.phase = "out"]
    BY <1>3 DEF Locals
  <2>2. Within(x).phase = "in"
    BY <1>3 DEF Within, Locals
  <2> QED BY <2>1, <2>2 DEF LocalMove, LegalMove, OrderlyMove, Changed, Within
<1> SUFFICES ASSUME NEW t \in Nat
             PROVE  Walk(Moves(r), <<e, c, l>>, St(x, Idle(t)), St(x, Idle(t + 0)))
  BY <1>1 DEF Measures
<1>7. Idle(t) \in Clocks /\ t + 0 = t /\ Plus(Idle(t), 1) = Idle(t)
  BY Typical DEF Plus, Idle
<1>8. ClockMove(e, Idle(t), Idle(t)) /\ ClockMove(c, Idle(t), Idle(t)) /\ ClockMove(l, Idle(t), Idle(t))
  BY <1>7 DEF ClockMove, IsCounted
<1> DEFINE f == [k \in 0 .. 3 |-> IF k = 1 THEN St(Chosen(x), Idle(t))
                                  ELSE IF k = 2 THEN St(Within(x), Idle(t))
                                  ELSE St(x, Idle(t))]
<1>9. e.op = "elect" /\ e.else = 2 /\ c.op # "elect" /\ l.op # "elect"
  OBVIOUS
<1>10. /\ <<e, St(x, Idle(t)), St(Chosen(x), Idle(t))>> \in Moves(r)
       /\ <<c, St(Chosen(x), Idle(t)), St(Within(x), Idle(t))>> \in Moves(r)
       /\ <<l, St(Within(x), Idle(t)), St(x, Idle(t))>> \in Moves(r)
  <2> HIDE DEF e, c, l
  <2> QED BY <1>2, <1>3, <1>4, <1>5, <1>6, <1>7, <1>8, OneMove
<1> HIDE DEF e, c, l
<1>11. Trace(Moves(r), <<e, c, l>>, f)
  <2>1. f[0] = St(x, Idle(t)) /\ f[1] = St(Chosen(x), Idle(t)) /\ f[2] = St(Within(x), Idle(t))
        /\ f[3] = St(x, Idle(t))
    OBVIOUS
  <2>2. Len(<<e, c, l>>) = 3 /\ <<e, c, l>>[1] = e /\ <<e, c, l>>[2] = c /\ <<e, c, l>>[3] = l
    OBVIOUS
  <2> HIDE DEF f
  <2>3. ASSUME NEW k \in 1 .. 3 PROVE k \in {1, 2, 3}
    OBVIOUS
  <2>4. f[1 - 1] = f[0] /\ f[2 - 1] = f[1] /\ f[3 - 1] = f[2] /\ 1 + 2 = 3
    OBVIOUS
  <2> DEFINE s == <<e, c, l>>
  <2> HIDE DEF s
  <2> SUFFICES ASSUME NEW k \in 1 .. 3
               PROVE  /\ <<s[k], f[k - 1], f[k]>> \in Moves(r)
                      /\ s[k].op = "elect" => k + s[k].else <= 3 /\ f[k + s[k].else] = f[k - 1]
    BY <2>2 DEF Trace, s
  <2>5. CASE k = 1
    BY <1>9, <1>10, <2>1, <2>2, <2>4, <2>5 DEF s
  <2>6. CASE k = 2
    BY <1>9, <1>10, <2>1, <2>2, <2>4, <2>6 DEF s
  <2>7. CASE k = 3
    BY <1>9, <1>10, <2>1, <2>2, <2>4, <2>7 DEF s
  <2> QED BY <2>3, <2>5, <2>6, <2>7
<1>12. f[0] = St(x, Idle(t)) /\ f[Len(<<e, c, l>>)] = St(x, Idle(t))
  OBVIOUS
<1> HIDE DEF f
<1> QED BY <1>2, <1>7, <1>11, <1>12 DEF Walk

\* The barrier of the threads, with the barrier of the ranks in its middle.
LEMMA Syncing ==
    ASSUME NEW r, NEW b, NEW x, Placed(b, x)
    PROVE  x \in Outside /\ Measures(r, SyncInterThreads(b), x, x, 0)
<1>1. CASE b = "osu_latency_mt"
  <2> DEFINE meet == <<[op |-> "meet"]>>
             elected == <<[op |-> "elect", else |-> 2]>> \o Barrier
  <2>1. Len(Barrier) = 2
    BY DEF Barrier, Enter, Leave
  <2>2. SyncInterThreads(b) = meet \o elected \o meet
    BY <1>1, <2>1 DEF SyncInterThreads
  <2>3. x \in Outside /\ ~x.alone
    BY <1>1 DEF Placed
  <2>4. [op |-> "meet"] \in Harmless /\ ~IsCounted([op |-> "meet"])
    BY DEF Harmless, Calls, Plain, IsCounted
  <2>5. Measures(r, meet, x, x, 0)
    BY <2>3, <2>4, HarmlessCounts, CountsAtRest, OneAndNone
  <2>6. Measures(r, elected, x, x, 0)
    BY <2>3, SerialThread
  <2> HIDE DEF meet, elected
  <2> QED BY <2>2, <2>3, <2>5, <2>6, CalmTwo
<1>2. CASE b # "osu_latency_mt"
  <2>1. x \in Alone
    BY <1>2 DEF Placed
  <2> QED BY <1>2, <2>1, Barriers, CountsAtRest, OneAndNone, AloneOutside DEF SyncInterThreads
<1> QED BY <1>1, <1>2

\* What a measured iteration adds to the total of a rank.
Worth(b, r, n) == IF IsSender(b, r) THEN MessagesOf(b, n) ELSE 0

\* It is a number.
LEMMA WorthType ==
    ASSUME NEW b, NEW r, NEW n \in Nat PROVE Worth(b, r, n) \in Nat /\ Iters * Worth(b, r, n) \in Nat
BY MessagesType, RoundType DEF Worth

\* The warm-up rounds of a validation are a number.
LEMMA WarmupType == \A v \in BOOLEAN : WarmupValidation(v) \in Nat
BY WarmupAssumption DEF WarmupValidation

\* The measured part of an iteration.
LEMMA Cores ==
    ASSUME NEW b \in CPt2pt, NEW r \in CPt2ptRanks(b), NEW x \in Outside, NEW n \in Nat,
           NEW s \in Nat \ {0}, NEW v \in BOOLEAN, NEW i \in Nat
    PROVE  Measures(r, IF IsSender(b, r) THEN SenderCore(b, r, n, s, v, i)
                                         ELSE ReceiverCore(b, r, n, s, v),
                    x, x, IF Measured(i) THEN Worth(b, r, n) ELSE 0)
<1>1. CASE IsSender(b, r)
  <2> DEFINE e == SenderExchange(b, r, n, s)
             c == MessagesOf(b, n)
             w == WarmupValidation(v)
             m == Measured(i)
  <2>1. Measures(r, e, x, x, 0) /\ Halts(r, e, x, x, c) /\ c \in Nat /\ w \in Nat /\ m \in BOOLEAN
    BY <1>1, SenderExchanges, MessagesType, WarmupType DEF Exchanged, Measured
  <2>2. e \in Seq(Calls)
    BY <2>1, AreCalls
  <2>3. SenderCore(b, r, n, s, v, i) = Times(w + 1, e) \o Given(m, Sample)
    BY DEF SenderCore
  <2>4. Worth(b, r, n) = c
    BY <1>1 DEF Worth
  <2> HIDE DEF e, c, w, m
  <2>5. Measures(r, Times(w + 1, e) \o Given(m, Sample), x, x, IF m THEN c ELSE 0)
    BY <2>1, <2>2, Repeated
  <2> QED BY <1>1, <2>3, <2>4, <2>5 DEF m
<1>2. CASE ~IsSender(b, r)
  <2>1. Measures(r, ReceiverExchange(b, r, n, s), x, x, 0)
    BY ReceiverExchanges
  <2>2. Measures(r, ReceiverCore(b, r, n, s, v), x, x, 0)
    <3>1. WarmupValidation(v) + 1 \in Nat
      BY WarmupType
    <3> QED BY <2>1, <3>1, AreCalls, CalmTimes DEF ReceiverCore
  <2> QED BY <1>2, <2>2 DEF Worth
<1> QED BY <1>1, <1>2

\* What separates the iterations counts nothing.
LEMMA Between ==
    ASSUME NEW r, NEW s, NEW t, NEW u, NEW x, NEW n \in Nat,
           Measures(r, s, x, x, 0), Measures(r, t, x, x, n), Measures(r, u, x, x, 0)
    PROVE  Measures(r, s \o t \o u, x, x, n)
BY LaterOnly, EarlierOnly

\* What surrounds an iteration with -c.
LEMMA Validating ==
    ASSUME NEW r, NEW b, NEW x, Placed(b, x), NEW v \in BOOLEAN, NEW i \in 0 .. Skip + Iters - 1
    PROVE  /\ Measures(r, Given(v, PrepareValidationBuffers(b, i)), x, x, 0)
           /\ Measures(r, Given(v, UpdateValidationErrors(b, r)), x, x, 0)
<1>1. x \in Outside /\ Measures(r, SyncInterThreads(b), x, x, 0)
  BY Syncing
<1>2. Measures(r, Fill(i), x, x, 0) /\ Measures(r, Check, x, x, 0) /\ Measures(r, ClearErrors, x, x, 0)
  BY <1>1, Harmlessly, CountsAtRest, OneAndNone
<1>3. Measures(r, PrepareValidationBuffers(b, i), x, x, 0)
  BY <1>1, <1>2, CalmOn DEF PrepareValidationBuffers
<1>4. Measures(r, UpdateValidationErrors(b, r), x, x, 0)
  BY <1>2 DEF UpdateValidationErrors
<1> QED BY <1>3, <1>4, GivenCalls

\* The loop of a benchmark over its iterations, for senders and receivers.
LEMMA DefaultLoops ==
    ASSUME NEW b \in CPt2pt, NEW r \in CPt2ptRanks(b), NEW x, Placed(b, x), NEW n \in Nat,
           NEW s \in Nat \ {0}, NEW v \in BOOLEAN
    PROVE  Measures(r, DefaultIterationsLoop(b, r, n, s, v), x, x, Iters * Worth(b, r, n))
<1> DEFINE core(i) == IF IsSender(b, r) THEN SenderCore(b, r, n, s, v, i)
                                        ELSE ReceiverCore(b, r, n, s, v)
           pre(i) == Given(v, PrepareValidationBuffers(b, i))
           post == Given(v, UpdateValidationErrors(b, r))
           c == Worth(b, r, n)
           ss == [k \in 1 .. Len(Iterations) |->
                     pre(Iterations[k]) \o core(Iterations[k]) \o post]
<1>1. DefaultIterationsLoop(b, r, n, s, v) = FlattenSeq(ss)
  BY DEF DefaultIterationsLoop, ForEach
<1>2. x \in Outside /\ c \in Nat
  BY Syncing, WorthType
<1>3. ASSUME NEW k \in 1 .. Len(Iterations)
      PROVE  /\ Measures(r, pre(Iterations[k]), x, x, 0) /\ Measures(r, post, x, x, 0)
             /\ Measures(r, core(Iterations[k]), x, x, IF Measured(Iterations[k]) THEN c ELSE 0)
  <2>1. Iterations[k] \in 0 .. Skip + Iters - 1 /\ Iterations[k] \in Nat
    BY IterationsAre
  <2>2. Measures(r, pre(Iterations[k]), x, x, 0) /\ Measures(r, post, x, x, 0)
    BY <2>1, Validating
  <2> QED BY <1>2, <2>1, <2>2, Cores
<1>4. IsLoop(ss, Len(Iterations)) /\ \A k \in 1 .. Len(Iterations) :
          ss[k] = pre(Iterations[k]) \o core(Iterations[k]) \o post
  BY DEF IsLoop
<1> HIDE DEF core, pre, post, c, ss
<1>5. ASSUME NEW k \in 1 .. Len(Iterations)
      PROVE  Measures(r, ss[k], x, x, IF Measured(Iterations[k]) THEN c ELSE 0)
  <2> DEFINE d == IF Measured(Iterations[k]) THEN c ELSE 0
  <2>1. d \in Nat /\ Measures(r, core(Iterations[k]), x, x, d)
    BY <1>2, <1>3
  <2> HIDE DEF d
  <2>2. Measures(r, ss[k], x, x, d)
    BY <1>3, <1>4, <2>1, Between
  <2> QED BY <2>2 DEF d
<1>6. Measures(r, FlattenSeq(ss), x, x, Iters * c)
  BY <1>2, <1>4, <1>5, SampledLoop
<1> QED BY <1>1, <1>6 DEF c

\* What partitioned_latency_overlap exchanges for its other columns.
LEMMA Overlapping ==
    ASSUME NEW b \in CPt2pt \ Congestion, NEW r \in CPt2ptRanks(b), NEW x \in Alone, NEW s \in Nat
    PROVE  Measures(r, Overlap(b, r, s), x, x, 0)
<1> DEFINE p == Partner(b, r)
           there == Send(p, "ping", s)
           back == Recv(p, "ping", s)
<1>1. p \in Nat /\ x \in Outside
  BY Partners, AloneOutside
<1>2. Measures(r, there, x, x, 0) /\ Measures(r, back, x, x, 0)
  BY <1>1, CalmTalking, OneAndNone
<1>3. Measures(r, Barrier, x, x, 0)
  BY Barriers, CountsAtRest, OneAndNone
<1>4. Overlap(b, r, s) = (IF IsSender(b, r) THEN there \o back ELSE back \o there) \o Barrier
  BY DEF Overlap
<1> HIDE DEF p, there, back
<1>5. Measures(r, there \o back, x, x, 0) /\ Measures(r, back \o there, x, x, 0)
  BY <1>2, CalmOn
<1>6. Measures(r, (there \o back) \o Barrier, x, x, 0)
      /\ Measures(r, (back \o there) \o Barrier, x, x, 0)
  BY <1>3, <1>5, CalmOn
<1> QED BY <1>4, <1>6

\* The partitioned benchmarks among the point-to-point ones.
LEMMA PartitionedAre == ASSUME NEW b \in Partitioned PROVE b \in CPt2pt \ Congestion /\ b # "osu_latency_mt"
BY DEF Partitioned, CPt2pt, LatencyTest, BandwidthTest, BiBandwidthTest, Congestion, FanOut

\* The loop of the partitioned benchmarks.
LEMMA PartitionedLoops ==
    ASSUME NEW b \in Partitioned, NEW r \in CPt2ptRanks(b), NEW x \in Alone, NEW n \in Nat,
           NEW s \in Nat \ {0}, NEW v \in BOOLEAN
    PROVE  Measures(r, PartitionedIterationLoops(b, r, n, s, v), x, x, Iters * Worth(b, r, n))
<1>0. b \in CPt2pt \ Congestion /\ Placed(b, x) /\ s \in Nat
  BY PartitionedAre DEF Placed
<1> DEFINE core == Times(WarmupValidation(v) + 1, Overlap(b, r, s))
           pre(i) == Given(v, PrepareValidationBuffers(b, i))
           post == Given(v, UpdateValidationErrors(b, r))
           first == DefaultIterationsLoop(b, r, n, s, v)
           c == Iters * Worth(b, r, n)
           ss == [k \in 1 .. Len(Iterations) |-> pre(Iterations[k]) \o core \o post]
<1>1. PartitionedIterationLoops(b, r, n, s, v) = first \o FlattenSeq(ss)
  BY DEF PartitionedIterationLoops, ForEach
<1>2. Measures(r, first, x, x, c) /\ c \in Nat
  BY <1>0, DefaultLoops, WorthType
<1>3. Measures(r, core, x, x, 0)
  <2>1. Measures(r, Overlap(b, r, s), x, x, 0)
    BY <1>0, Overlapping
  <2>2. WarmupValidation(v) + 1 \in Nat
    BY WarmupType
  <2> QED BY <2>1, <2>2, AreCalls, CalmTimes
<1>4. ASSUME NEW k \in 1 .. Len(Iterations)
      PROVE  Measures(r, pre(Iterations[k]), x, x, 0) /\ Measures(r, post, x, x, 0)
  <2>1. Iterations[k] \in 0 .. Skip + Iters - 1
    BY IterationsAre
  <2> QED BY <1>0, <2>1, Validating
<1>5. IsLoop(ss, Len(Iterations)) /\ \A k \in 1 .. Len(Iterations) :
          ss[k] = pre(Iterations[k]) \o core \o post
  BY DEF IsLoop
<1>6. Len(Iterations) \in Nat
  BY IterationsAre, TurnsType
<1> HIDE DEF core, pre, post, first, c, ss
<1>7. \A k \in 1 .. Len(Iterations) : Measures(r, ss[k], x, x, 0)
  BY <1>3, <1>4, <1>5, CalmTwo
<1>8. Measures(r, FlattenSeq(ss), x, x, 0)
  BY <1>5, <1>6, <1>7, CalmLoop
<1>9. Measures(r, first \o FlattenSeq(ss), x, x, c)
  BY <1>2, <1>8, EarlierOnly
<1> QED BY <1>1, <1>9 DEF c

\* A window size of a point-to-point benchmark.
LEMMA WindowMeasures ==
    ASSUME NEW b \in CPt2pt, NEW r \in CPt2ptRanks(b), NEW x, Placed(b, x), NEW n \in Nat,
           NEW s \in Nat \ {0}, NEW v \in BOOLEAN
    PROVE  Measures(r, WindowOfIterations(b, r, n, s, v), x, x, Iters * Worth(b, r, n))
<1> DEFINE c == Iters * Worth(b, r, n)
           loops == IF b \in Partitioned THEN PartitionedIterationLoops(b, r, n, s, v)
                                         ELSE DefaultIterationsLoop(b, r, n, s, v)
           sum == Given(v /\ b # "osu_latency_mt", SumErrors)
           reduce == Given(b # "osu_latency_mt", Reduce)
<1>1. c \in Nat /\ x \in Outside
  BY WorthType, Syncing
<1>2. Measures(r, loops, x, x, c)
  <2>1. CASE b \in Partitioned
    <3>1. x \in Alone
      BY <2>1, PartitionedAre DEF Placed
    <3> QED BY <2>1, <3>1, PartitionedLoops
  <2>2. CASE b \notin Partitioned
    BY <2>2, DefaultLoops
  <2> QED BY <2>1, <2>2
<1>3. b # "osu_latency_mt" => Measures(r, SumErrors, x, x, 0) /\ Measures(r, Reduce, x, x, 0)
  BY Barriers, CountsAtRest, OneAndNone DEF Placed
<1>4. Measures(r, sum, x, x, 0) /\ Measures(r, reduce, x, x, 0)
  BY <1>3, GivenCalls
<1>5. Measures(r, ClearErrors, x, x, 0)
  BY <1>1, Harmlessly, CountsAtRest, OneAndNone
<1>6. WindowOfIterations(b, r, n, s, v) = ClearErrors \o loops \o sum \o reduce
  BY DEF WindowOfIterations
<1> HIDE DEF c, loops, sum, reduce
<1>7. Measures(r, ClearErrors \o loops \o sum, x, x, c)
  BY <1>1, <1>2, <1>4, <1>5, Between
<1>8. Measures(r, ClearErrors \o loops \o sum \o reduce, x, x, c)
  BY <1>1, <1>4, <1>7, EarlierOnly
<1> QED BY <1>6, <1>8 DEF c

\* f adds up d.
Adds(f, d, n) == f = [k \in 0 .. n |-> IF k = 0 THEN 0 ELSE f[k - 1] + d[k]]

\* A sum of m values can be continued to m + 1.
LEMMA SumGrows ==
    ASSUME NEW d, NEW m \in Nat, NEW f, Adds(f, d, m)
    PROVE  \E h : Adds(h, d, m + 1)
<1> DEFINE h == [k \in 0 .. m + 1 |-> IF k = m + 1 THEN f[m] + d[m + 1] ELSE f[k]]
<1>1. ASSUME NEW k \in 0 .. m + 1
      PROVE  h[k] = IF k = 0 THEN 0 ELSE h[k - 1] + d[k]
  <2>1. CASE k = m + 1
    BY <2>1
  <2>2. CASE k # m + 1
    <3>1. k \in 0 .. m /\ (k # 0 => k - 1 \in 0 .. m /\ k - 1 # m + 1)
      BY <2>2
    <3>2. f[k] = IF k = 0 THEN 0 ELSE f[k - 1] + d[k]
      BY <3>1 DEF Adds
    <3> QED BY <3>1, <3>2
  <2> QED BY <2>1, <2>2
<1>2. Adds(h, d, m + 1)
  BY <1>1 DEF Adds
<1> QED BY <1>2

\* The sum exists for every number of values.
LEMMA SumDefined ==
    ASSUME NEW d, NEW n \in Nat
    PROVE  \E f : Adds(f, d, n)
<1> DEFINE S == {m \in Nat : \E f : Adds(f, d, m)}
<1>1. 0 \in S
  <2> DEFINE f == [k \in 0 .. 0 |-> 0]
  <2>1. Adds(f, d, 0)
    BY DEF Adds
  <2> QED BY <2>1
<1>2. \A m \in Nat : m \in S => m + 1 \in S
  BY SumGrows
<1> HIDE DEF S
<1>3. Nat \subseteq S
  BY <1>1, <1>2, Naturals0
<1> QED BY <1>3 DEF S

\* A sum of naturals is one.
LEMMA SumType ==
    ASSUME NEW d, NEW n \in Nat, NEW f, Adds(f, d, n), \A k \in 1 .. n : d[k] \in Nat
    PROVE  \A k \in 0 .. n : f[k] \in Nat
<1> DEFINE S == {m \in Nat : m <= n => f[m] \in Nat}
<1>1. 0 \in S
  BY DEF Adds
<1>2. ASSUME NEW m \in Nat, m \in S PROVE m + 1 \in S
  <2> SUFFICES ASSUME m + 1 <= n PROVE f[m + 1] \in Nat
    OBVIOUS
  <2>1. m + 1 \in 0 .. n /\ m + 1 # 0 /\ m + 1 - 1 = m /\ m + 1 \in 1 .. n /\ m <= n
    OBVIOUS
  <2>2. f[m + 1] = f[m] + d[m + 1]
    BY <2>1 DEF Adds
  <2> QED BY <1>2, <2>1, <2>2
<1> HIDE DEF S
<1>3. Nat \subseteq S
  BY <1>1, <1>2, Naturals0
<1> QED BY <1>3 DEF S

\* What update_measurements takes a window for.
Printed(b, n) ==
    CASE b \in LatencyTest -> 2
      [] b \in BandwidthTest -> n
      [] b \in BiBandwidthTest -> 2 * n

\* The printed value of a benchmark without windows, and of one with them.
LEMMA PrintedIs ==
    ASSUME NEW b \in CPt2pt, NEW r, NEW n \in Nat
    PROVE  /\ Printed(b, n) \in Nat
           /\ IsSender(b, r) /\ b \notin FanOut => Worth(b, r, n) = Printed(b, n)
           /\ ~IsSender(b, r) => Worth(b, r, n) = 0
<1>0. /\ b \in LatencyTest => b \notin BandwidthTest
      /\ b \in LatencyTest => b \notin BiBandwidthTest
      /\ b \in BandwidthTest => b \notin BiBandwidthTest
  BY DEF LatencyTest, BandwidthTest, BiBandwidthTest, Congestion, FanOut, Partitioned
<1>1. \/ b \in LatencyTest /\ b \notin BandwidthTest \cup BiBandwidthTest
      \/ b \in BandwidthTest /\ b \notin LatencyTest \cup BiBandwidthTest
      \/ b \in BiBandwidthTest /\ b \notin LatencyTest \cup BandwidthTest
  BY <1>0 DEF CPt2pt
<1>2. b \in BiBandwidthTest => b \notin FanOut
  BY DEF FanOut, BiBandwidthTest
<1>3. CASE b \in LatencyTest /\ b \notin BandwidthTest \cup BiBandwidthTest
  <2>1. Printed(b, n) = 2 /\ MessagesOf(b, n) = 2
    BY <1>3 DEF Printed, MessagesOf
  <2> QED BY <2>1 DEF Worth
<1>4. CASE b \in BandwidthTest /\ b \notin LatencyTest \cup BiBandwidthTest
  <2>1. Printed(b, n) = n /\ (b \notin FanOut => MessagesOf(b, n) = n)
    BY <1>4 DEF Printed, MessagesOf
  <2> QED BY <2>1 DEF Worth
<1>5. CASE b \in BiBandwidthTest /\ b \notin LatencyTest \cup BandwidthTest
  <2>1. Printed(b, n) = 2 * n /\ MessagesOf(b, n) = n + n
    BY <1>2, <1>5 DEF Printed, MessagesOf
  <2> QED BY <2>1 DEF Worth
<1> QED BY <1>1, <1>3, <1>4, <1>5

\* What the printed value of a point-to-point benchmark stands for.
LEMMA ReportedIs ==
    ASSUME NEW b, NEW f, Adds(f, [k \in 1 .. Len(WindowSizes(b)) |-> Printed(b, WindowSizes(b)[k])],
                              Len(WindowSizes(b)))
    PROVE  \E g : /\ Adds(g, [k \in 1 .. Len(WindowSizes(b)) |-> Printed(b, WindowSizes(b)[k])],
                             Len(WindowSizes(b)))
                  /\ CPt2ptReported(b) = g[Len(WindowSizes(b))] * Iters * Len(Sizes)
<1> DEFINE n == Len(WindowSizes(b))
           W == WindowSizes(b)
           F == CHOOSE g : g = [k \in 0 .. n |-> IF k = 0 THEN 0 ELSE g[k - 1] + Printed(b, W[k])]
           d == [k \in 1 .. n |-> Printed(b, W[k])]
<1>1. CPt2ptReported(b) = F[n] * Iters * Len(Sizes)
  BY Zenon DEF CPt2ptReported, Printed
<1>2. ASSUME NEW k \in 0 .. n, k # 0 PROVE d[k] = Printed(b, W[k])
  <2>1. k \in 1 .. n
    BY <1>2
  <2> QED BY <2>1
<1>3. ASSUME NEW g
      PROVE  Adds(g, d, n) <=> g = [k \in 0 .. n |-> IF k = 0 THEN 0 ELSE g[k - 1] + Printed(b, W[k])]
  <2>1. [k \in 0 .. n |-> IF k = 0 THEN 0 ELSE g[k - 1] + Printed(b, W[k])]
            = [k \in 0 .. n |-> IF k = 0 THEN 0 ELSE g[k - 1] + d[k]]
    <3> HIDE DEF d, n, W
    <3> QED BY <1>2
  <2> HIDE DEF d, n, W
  <2> QED BY <2>1 DEF Adds
<1>4. Adds(F, d, n)
  <2> HIDE DEF d, n, W
  <2>1. F = [k \in 0 .. n |-> IF k = 0 THEN 0 ELSE F[k - 1] + Printed(b, W[k])]
    BY <1>3, Zenon DEF d, n, W
  <2> HIDE DEF F
  <2> QED BY <2>1, <1>3
<1> HIDE DEF F
<1> QED BY <1>1, <1>4

\* The window sizes a point-to-point benchmark goes through.
LEMMA WindowsAre ==
    ASSUME NEW b
    PROVE  /\ Len(WindowSizes(b)) \in Nat \ {0}
           /\ \A k \in 1 .. Len(WindowSizes(b)) : WindowSizes(b)[k] \in Nat
<1>1. CASE b \in LatencyTest
  <2>1. WindowSizes(b) = <<1>>
    BY <1>1 DEF WindowSizes
  <2> QED BY <2>1
<1>2. CASE b \notin LatencyTest
  BY <1>2, SizesAre DEF WindowSizes
<1> QED BY <1>1, <1>2

\* What a sender of b counts per iteration, all window sizes taken together.
LEMMA MsgSizeMeasures ==
    ASSUME NEW b \in CPt2pt, NEW r \in CPt2ptRanks(b), NEW x, Placed(b, x), NEW v \in BOOLEAN
    PROVE  \E w \in Nat :
              /\ \A s \in Nat \ {0} : Measures(r, RunIterationsForMsgSize(b, r, s, v), x, x, Iters * w)
              /\ IsSender(b, r) /\ b \notin FanOut => CPt2ptReported(b) = w * Iters * Len(Sizes)
              /\ ~IsSender(b, r) => w = 0
<1> DEFINE W == WindowSizes(b)
           n == Len(W)
           d == [k \in 1 .. n |-> Worth(b, r, W[k])]
           e == [k \in 1 .. n |-> Printed(b, W[k])]
<1>1. n \in Nat \ {0} /\ \A k \in 1 .. n : W[k] \in Nat
  BY WindowsAre
<1>2. \A k \in 1 .. n : d[k] \in Nat /\ d[k] = Worth(b, r, W[k])
  BY <1>1, WorthType
<1>3. PICK f : Adds(f, d, n)
  BY <1>1, SumDefined
<1>4. \A k \in 0 .. n : f[k] \in Nat
  BY <1>1, <1>2, <1>3, SumType
<1>5. f[0] = 0 /\ \A k \in 1 .. n : k - 1 \in 0 .. n /\ f[k] = f[k - 1] + d[k]
  <2> HIDE DEF W, n, d, e
  <2>1. 0 \in 0 .. n /\ \A k \in 1 .. n : k \in 0 .. n /\ k # 0 /\ k - 1 \in 0 .. n
    BY <1>1
  <2> QED BY <1>3, <2>1 DEF Adds
<1>6. f[n] \in Nat
  BY <1>1, <1>4
<1>7. ASSUME NEW s \in Nat \ {0}
      PROVE  Measures(r, RunIterationsForMsgSize(b, r, s, v), x, x, Iters * f[n])
  <2> DEFINE ss == [k \in 1 .. n |-> WindowOfIterations(b, r, W[k], s, v)]
             S == [k \in 0 .. n |-> Iters * f[k]]
             D == [k \in 1 .. n |-> Iters * d[k]]
             y == [k \in 0 .. n |-> x]
  <2>1. RunIterationsForMsgSize(b, r, s, v) = FlattenSeq(ss)
    BY DEF RunIterationsForMsgSize, ForEach
  <2>2. \A k \in 1 .. n : ss[k] = WindowOfIterations(b, r, W[k], s, v)
    OBVIOUS
  <2>3. \A k \in 1 .. n : Measures(r, ss[k], x, x, Iters * d[k])
    BY <1>1, <1>2, <2>2, WindowMeasures
  <2>4. IsLoop(ss, n)
    BY DEF IsLoop
  <2> HIDE DEF W, n, d, e, ss
  <2>5. \A k \in 1 .. n : ss[k] \in Seq(Calls)
    BY <2>3, AreCalls
  <2>6. ss \in Seq(Seq(Calls)) /\ Len(ss) = n
    BY <1>1, <2>4, <2>5, LoopType
  <2>7. \A m \in Nat : Iters * m \in Nat
    BY RoundType
  <2>8. S[0] = 0 /\ S[n] = Iters * f[n]
    BY <1>1, <1>5, TurnsType
  <2>9. ASSUME NEW k \in 1 .. n
        PROVE  /\ S[k - 1] \in Nat /\ D[k] \in Nat /\ S[k] = S[k - 1] + D[k]
               /\ Measures(r, ss[k], y[k - 1], y[k], D[k])
    <3>1. k - 1 \in 0 .. n /\ k \in 0 .. n /\ f[k] = f[k - 1] + d[k]
      BY <1>1, <1>5
    <3>2. f[k - 1] \in Nat /\ d[k] \in Nat /\ Iters \in Nat
      BY <1>2, <1>4, <3>1, TurnsType
    <3>3. S[k - 1] = Iters * f[k - 1] /\ D[k] = Iters * d[k] /\ S[k] = Iters * f[k]
      BY <3>1
    <3>4. Iters * f[k] = Iters * f[k - 1] + Iters * d[k]
      BY <3>1, <3>2
    <3>5. y[k - 1] = x /\ y[k] = x
      BY <3>1
    <3> QED BY <2>3, <2>7, <3>2, <3>3, <3>4, <3>5
  <2>10. y[0] = x /\ y[n] = x
    BY <1>1
  <2> HIDE DEF S, D, y
  <2>11. Measures(r, FlattenSeq(ss), y[0], y[n], S[n])
    BY <2>6, <2>8, <2>9, MeasuresChain
  <2> QED BY <2>1, <2>8, <2>10, <2>11
<1>8. ASSUME IsSender(b, r), b \notin FanOut PROVE CPt2ptReported(b) = f[n] * Iters * Len(Sizes)
  <2>1. d = e
    BY <1>1, <1>8, PrintedIs
  <2>2. PICK g : Adds(g, e, n) /\ CPt2ptReported(b) = g[n] * Iters * Len(Sizes)
    BY <1>3, <2>1, ReportedIs
  <2>3. PICK h : h = f /\ Adds(h, e, n)
    BY <1>3, <2>1
  <2> DEFINE S == {m \in Nat : m <= n => g[m] = f[m]}
  <2> HIDE DEF W, n, d, e
  <2>4. 0 \in S
    BY <1>5, <2>2, <1>1 DEF Adds
  <2>5. ASSUME NEW m \in Nat, m \in S PROVE m + 1 \in S
    <3> SUFFICES ASSUME m + 1 <= n PROVE g[m + 1] = f[m + 1]
      OBVIOUS
    <3>1. m + 1 \in 0 .. n /\ m + 1 # 0 /\ m + 1 - 1 = m /\ m <= n
      BY <1>1
    <3>2. g[m + 1] = g[m] + e[m + 1] /\ f[m + 1] = f[m] + e[m + 1]
      BY <2>2, <2>3, <3>1 DEF Adds
    <3> QED BY <2>5, <3>1, <3>2
  <2> HIDE DEF S
  <2>6. n \in S
    BY <1>1, <2>4, <2>5, Naturals0
  <2> QED BY <1>1, <2>2, <2>6 DEF S
<1>9. ASSUME ~IsSender(b, r) PROVE f[n] = 0
  <2>1. \A k \in 1 .. n : d[k] = 0
    BY <1>1, <1>9, PrintedIs
  <2> DEFINE S == {m \in Nat : m <= n => f[m] = 0}
  <2> HIDE DEF W, n, d, e
  <2>2. 0 \in S
    BY <1>5
  <2>3. ASSUME NEW m \in Nat, m \in S PROVE m + 1 \in S
    <3> SUFFICES ASSUME m + 1 <= n PROVE f[m + 1] = 0
      OBVIOUS
    <3>1. m + 1 \in 1 .. n /\ m + 1 - 1 = m /\ m <= n
      BY <1>1
    <3> QED BY <1>5, <2>1, <2>3, <3>1
  <2> HIDE DEF S
  <2>4. n \in S
    BY <1>1, <2>2, <2>3, Naturals0
  <2> QED BY <1>1, <2>4 DEF S
<1> QED BY <1>6, <1>7, <1>8, <1>9

\* All iterations of all sizes.
LEMMA InTotal == \A w \in Nat : w * Iters * Len(Sizes) = Total(w)
<1> DEFINE m == Len(Sizes)
<1>1. m \in Nat /\ Iters \in Nat
  BY SizesAre, TurnsType
<1> HIDE DEF m
<1>2. \A w \in Nat : w * Iters * m = Iters * m * w
  BY <1>1
<1> QED BY <1>2 DEF Total, m

\* The programs of c/mpi/pt2pt: what a sender adds to its total is what the
\* printed value stands for, and a receiver adds nothing.
LEMMA CPt2ptMeasures ==
    ASSUME NEW b \in CPt2pt, NEW r \in CPt2ptRanks(b), NEW x, Placed(b, x), x.last, NEW v \in BOOLEAN
    PROVE  /\ \E n \in Nat :
              /\ Measures(r, CPt2ptProgram(b, r, v), x, x, n)
              /\ IsSender(b, r) /\ b \notin FanOut => n = CPt2ptReported(b)
              /\ ~IsSender(b, r) => n = 0
           /\ \E s \in Seq(Calls) : CPt2ptProgram(b, r, v) = s \o Report
<1>1. PICK w \in Nat :
          /\ \A s \in Nat \ {0} : Measures(r, RunIterationsForMsgSize(b, r, s, v), x, x, Iters * w)
          /\ IsSender(b, r) /\ b \notin FanOut => CPt2ptReported(b) = w * Iters * Len(Sizes)
          /\ ~IsSender(b, r) => w = 0
  BY MsgSizeMeasures
<1> DEFINE sync == SyncInterThreads(b)
           inner(s) == RunIterationsForMsgSize(b, r, s, v)
           stop == Given(v, BreakOnErrors)
           ss == [k \in 1 .. Len(Sizes) |-> sync \o inner(Sizes[k]) \o sync \o stop]
           c == Iters * w
<1>2. CPt2ptProgram(b, r, v) = FlattenSeq(ss) \o Report
  BY DEF CPt2ptProgram, ForEach
<1>3. Measures(r, sync, x, x, 0) /\ x \in Outside
  BY Syncing
<1>4. Measures(r, stop, x, x, 0)
  <2>1. Measures(r, BreakOnErrors, x, x, 0)
    BY <1>3, Breaking, CountsAtRest, OneAndNone
  <2> QED BY <2>1, GivenCalls
<1>5. Measures(r, Report, x, x, 0)
  BY <1>3, Harmlessly, CountsAtRest, OneAndNone
<1>6. \A k \in 1 .. Len(Sizes) : ss[k] = sync \o inner(Sizes[k]) \o sync \o stop
                                 /\ Measures(r, inner(Sizes[k]), x, x, c)
  BY <1>1, SizesAre
<1>7. IsLoop(ss, Len(Sizes)) /\ c \in Nat
  BY RoundType DEF IsLoop
<1> HIDE DEF sync, inner, stop, ss
<1>8. ASSUME NEW k \in 1 .. Len(Sizes) PROVE Measures(r, ss[k], x, x, c)
  <2> HIDE DEF c
  <2>1. Measures(r, sync \o inner(Sizes[k]) \o sync, x, x, c)
    BY <1>3, <1>6, <1>7, Between
  <2>2. Measures(r, sync \o inner(Sizes[k]) \o sync \o stop, x, x, c)
    BY <1>4, <1>7, <2>1, EarlierOnly
  <2> QED BY <1>6, <2>2
<1>9. Measures(r, FlattenSeq(ss), x, x, Total(w)) /\ Total(w) \in Nat
  BY <1>7, <1>8, SizeLoop, TotalType
<1>10. Measures(r, FlattenSeq(ss) \o Report, x, x, Total(w))
  BY <1>5, <1>9, EarlierOnly
<1>11. w * Iters * Len(Sizes) = Total(w) /\ Total(0) = 0
  BY InTotal, TotalType
<1>12. FlattenSeq(ss) \in Seq(Calls)
  BY <1>9, AreCalls
<1> QED BY <1>1, <1>2, <1>9, <1>10, <1>11, <1>12

-----------------------------------------------------------------------------
(* The collective benchmarks in C. *)

\* Every C collective has one of the types of the source.
LEMMA CollectiveTyped == \A b \in CCollective : CollectiveType[b] \in CollectiveTypes
<1>1. \A b \in DOMAIN Blocking : Blocking[b] \in CollectiveTypes
  BY DEF Blocking, CollectiveTypes
<1>2. \A b \in DOMAIN NonBlocking : NonBlocking[b] \in CollectiveTypes
  BY DEF NonBlocking, CollectiveTypes
<1>3. \A b \in DOMAIN PersistentColl : PersistentColl[b] \in CollectiveTypes
  BY DEF PersistentColl, CollectiveTypes
<1>4. \A b \in DOMAIN BlockingNeighborhood : BlockingNeighborhood[b] \in CollectiveTypes
  BY DEF BlockingNeighborhood, CollectiveTypes
<1>5. \A b \in DOMAIN NonBlockingNeighborhood : NonBlockingNeighborhood[b] \in CollectiveTypes
  BY DEF NonBlockingNeighborhood, CollectiveTypes
<1> QED BY <1>1, <1>2, <1>3, <1>4, <1>5 DEF CollectiveType, CCollective, Neighborhood

\* The tables of the collectives name C collectives only.
LEMMA DomainsAre ==
    /\ \A b : IsNonBlocking(b) => b \notin DOMAIN PersistentColl
    /\ DOMAIN PersistentColl \subseteq CCollective
<1>1. DOMAIN NonBlocking \cap DOMAIN PersistentColl = {}
  BY DEF NonBlocking, PersistentColl
<1>2. DOMAIN NonBlockingNeighborhood \cap DOMAIN PersistentColl = {}
  BY DEF NonBlockingNeighborhood, PersistentColl
<1> QED BY <1>1, <1>2 DEF IsNonBlocking, CCollective

\* The buffers of a rank that has not changed them, and what -l makes of them.
Unchanged0 == [send |-> "buffer", recv |-> "buffer"]

Placing(b, r, o) ==
    IF o.in_place THEN OmbApplyMpiInPlace(CollectiveType[b], 0, r, Unchanged0) ELSE Unchanged0

\* -l changes the buffers of a rank once.
LEMMA PlacingTwice ==
    ASSUME NEW b \in CCollective, NEW r, NEW o, o.in_place
    PROVE  /\ OmbApplyMpiInPlace(CollectiveType[b], 0, r, Placing(b, r, o)) = Placing(b, r, o)
           /\ OmbApplyMpiInPlace(CollectiveType[b], 0, r, Unchanged0) = Placing(b, r, o)
<1> DEFINE type == CollectiveType[b]
<1>1. type \in CollectiveTypes
  BY CollectiveTyped
<1> HIDE DEF type
<1>2. \A a \in {Unchanged0, OmbApplyMpiInPlace(type, 0, r, Unchanged0)} :
          OmbApplyMpiInPlace(type, 0, r, a) = OmbApplyMpiInPlace(type, 0, r, Unchanged0)
  <2>1. CASE type = "scatter"
    BY <2>1 DEF OmbApplyMpiInPlace, Unchanged0
  <2>2. CASE type \in {"alltoall", "all_gather", "all_reduce", "reduce_scatter"}
    BY <2>2 DEF OmbApplyMpiInPlace, Unchanged0
  <2>3. CASE type = "gather"
    BY <2>3 DEF OmbApplyMpiInPlace, Unchanged0
  <2>4. CASE type = "reduce"
    BY <2>4 DEF OmbApplyMpiInPlace, Unchanged0
  <2>5. CASE type \in {"bcast", "barrier", "nhbr_gather", "nhbr_alltoall"}
    BY <2>5 DEF OmbApplyMpiInPlace, Unchanged0
  <2> QED BY <1>1, <2>1, <2>2, <2>3, <2>4, <2>5 DEF CollectiveTypes
<1> QED BY <1>2 DEF Placing, type

\* The buffers remain buffers.
LEMMA PlacingType ==
    ASSUME NEW b \in CCollective, NEW r, NEW o
    PROVE  Placing(b, r, o) \in Buffers /\ Unchanged0 \in Buffers
<1> DEFINE type == CollectiveType[b]
<1>1. type \in CollectiveTypes
  BY CollectiveTyped
<1> HIDE DEF type
<1>2. Unchanged0 \in Buffers
  BY DEF Unchanged0, Buffers
<1>3. OmbApplyMpiInPlace(type, 0, r, Unchanged0) \in Buffers
  BY <1>1 DEF OmbApplyMpiInPlace, Unchanged0, Buffers
<1> QED BY <1>2, <1>3 DEF Placing, type

\* MPI_IN_PLACE stands only where MPI allows it: with -l the root is always 0.
LEMMA PlacingLegal ==
    ASSUME NEW b \in CCollective, NEW r, NEW o, NEW root, o.in_place => root = 0,
           o.in_place => TakesInPlace(b), NEW a \in {Unchanged0, Placing(b, r, o)}
    PROVE  LegalInPlace(KindOf(CollectiveType[b]), root, r, a)
<1> DEFINE type == CollectiveType[b]
<1>1. type \in CollectiveTypes
  BY CollectiveTyped
<1>2. o.in_place => type \notin {"bcast", "barrier", "nhbr_gather", "nhbr_alltoall"}
  BY DEF TakesInPlace
<1>3. a = Unchanged0 \/ (o.in_place /\ a = OmbApplyMpiInPlace(type, 0, r, Unchanged0))
  BY DEF Placing
<1> HIDE DEF type
<1>4. CASE a = Unchanged0
  BY <1>4 DEF LegalInPlace, Unchanged0
<1>5. CASE o.in_place /\ a = OmbApplyMpiInPlace(type, 0, r, Unchanged0)
  <2>1. CASE type = "scatter"
    <3>1. KindOf(type) = "from_root"
      BY <2>1 DEF KindOf
    <3>2. r = root \/ a.recv = "buffer"
      BY <1>5, <2>1 DEF OmbApplyMpiInPlace, Unchanged0
    <3> QED BY <3>1, <3>2 DEF LegalInPlace, type
  <2>2. CASE type \in {"alltoall", "all_gather", "all_reduce", "reduce_scatter"}
    <3>1. KindOf(type) = "all"
      BY <2>2 DEF KindOf
    <3>2. a.recv = "buffer"
      BY <1>5, <2>2 DEF OmbApplyMpiInPlace, Unchanged0
    <3> QED BY <3>1, <3>2 DEF LegalInPlace, type
  <2>3. CASE type = "gather"
    BY <1>5, <2>3 DEF OmbApplyMpiInPlace, Unchanged0, LegalInPlace, KindOf
  <2>4. CASE type = "reduce"
    BY <1>5, <2>4 DEF OmbApplyMpiInPlace, Unchanged0, LegalInPlace, KindOf
  <2> QED BY <1>1, <1>2, <1>5, <2>1, <2>2, <2>3, <2>4 DEF CollectiveTypes, type
<1> QED BY <1>3, <1>4, <1>5

\* The options of a collective are truth values.
LEMMA CollectiveOptions ==
    ASSUME NEW b \in CCollective, NEW o \in OptionsOf(b)
    PROVE  /\ o.validate \in BOOLEAN /\ o.in_place \in BOOLEAN /\ o.rotate \in BOOLEAN
           /\ o.in_place => TakesInPlace(b) /\ ~o.rotate
BY DEF OptionsOf

\* The root of an iteration is a rank.
LEMMA RootsAre ==
    ASSUME NEW b \in CCollective, NEW o \in OptionsOf(b), NEW i \in Nat, NEW k \in Nat
    PROVE  /\ RootRank(o, i) \in 0 .. Procs - 1 /\ RootOf(b, o, i) \in 0 .. Procs - 1
           /\ StaleRoot(b, o, k) \in 0 .. Procs - 1
           /\ o.in_place => /\ RootRank(o, i) = 0 /\ RootOf(b, o, i) = 0
                              /\ StaleRoot(b, o, k) = 0
<1>1. ASSUME NEW j \in Nat
      PROVE  RootRank(o, j) \in 0 .. Procs - 1 /\ (o.in_place => RootRank(o, j) = 0)
  <2>1. 0 \in 0 .. Procs - 1 /\ j % Procs \in 0 .. Procs - 1
    BY ProcsAssumption
  <2> QED BY <2>1, CollectiveOptions DEF RootRank
<1>2. 0 \in 0 .. Procs - 1
  BY ProcsAssumption
<1>3. ASSUME NEW j \in Nat
      PROVE  RootOf(b, o, j) \in 0 .. Procs - 1 /\ (o.in_place => RootOf(b, o, j) = 0)
  BY <1>1, <1>2 DEF RootOf
<1>4. Skip + Iters - 1 \in Nat
  BY TurnsType
<1> QED BY <1>1, <1>2, <1>3, <1>4 DEF StaleRoot

\* A collective benchmark calls an operation of a kind.
LEMMA KindIs ==
    ASSUME NEW b \in CCollective
    PROVE  KindOf(CollectiveType[b]) \in {"all", "neighbours", "from_root", "to_root", "barrier"}
BY CollectiveTyped DEF CollectiveTypes, KindOf

\* The buffers, and the request, of a rank are fit for the calls of the benchmark.
Fit(b, r, o, x) == x \in Alone /\ x.active \in {Unchanged0, Placing(b, r, o)}

Ready(b, r, o, x) ==
    /\ Fit(b, r, o, x)
    /\ x.strict /\ b \in DOMAIN PersistentColl =>
          /\ x.request.kind # "none"
          /\ LegalInPlace(x.request.kind, x.request.root, r, x.request.active)

\* A rank at rest: outside collective operations, and in no epoch that has to be closed.
AtRest(x) == x.phase = "out" /\ x.access \notin {"lock", "start"}

\* The ranks that receive something are numbers.
LEMMA AudiencesAre ==
    /\ Everyone \in SUBSET Nat
    /\ \A b, n : Receivers(b, n) \in SUBSET Nat
<1>1. Everyone \in SUBSET Nat
  BY DEF Everyone
<1>2. \A b, n : Receivers(b, n) \subseteq Everyone
  BY DEF Receivers
<1> QED BY <1>1, <1>2

\* The calls of a C collective, in a rank that is fit for them, count one each.
LEMMA CollectiveCalls ==
    ASSUME NEW b \in CCollective, NEW o \in OptionsOf(b), NEW r, NEW x, Ready(b, r, o, x),
           NEW root \in 0 .. Procs - 1, o.in_place => root = 0, NEW n
    PROVE  Counts(r, Call(b, root, n), x, x, 1)
<1> DEFINE kind == KindOf(CollectiveType[b])
           data == Receivers(b, n)
           form == IF b \in DOMAIN PersistentColl THEN "persistent"
                   ELSE IF CollectiveType[b] \in {"bcast", "barrier"} THEN "plain" ELSE "in_place"
<1>1. kind \in CollectiveKinds \ {"fence"} /\ kind # "sync" /\ kind # "fence"
  BY KindIs DEF CollectiveKinds
<1>2. form \in Forms /\ data \in SUBSET Nat /\ root \in Nat /\ ~PSync(form)
  BY AudiencesAre DEF Forms, PSync
<1>3. form = "in_place" => LegalInPlace(kind, root, r, x.active)
  BY CollectiveOptions, PlacingLegal DEF Ready, Fit
<1>4. form = "persistent" => b \in DOMAIN PersistentColl
  OBVIOUS
<1>5. Call(b, root, n) = Enter(kind, root, data, form) \o Leave
  BY DEF Call
<1> HIDE DEF kind, data, form
<1>6. x.strict => MayEnter(r, [op |-> "enter", kind |-> kind, root |-> root, data |-> data,
                              form |-> form], x)
  BY <1>1, <1>3, <1>4 DEF MayEnter, Ready, Fit
<1>7. x \in Alone
  BY DEF Ready, Fit
<1>8. Counts(r, Enter(kind, root, data, form) \o Leave, x, x, IF kind = "sync" THEN 0 ELSE 1)
  BY <1>1, <1>2, <1>6, <1>7, Collectives
<1> QED BY <1>1, <1>5, <1>8

\* One call that is measured.
LEMMA CollectiveSteps ==
    ASSUME NEW b \in CCollective, NEW o \in OptionsOf(b), NEW r, NEW x, Ready(b, r, o, x),
           NEW root \in 0 .. Procs - 1, o.in_place => root = 0, NEW n
    PROVE  Exchanged(r, LatencyStep(b, n)[root], x, 1) /\ Exchanged(r, OverlapStep(b, n)[root], x, 1)
<1>1. Counts(r, Call(b, root, n), x, x, 1) /\ x \in Outside
  BY CollectiveCalls, AloneOutside DEF Ready, Fit
<1>2. Runs(r, StartClock, x, x, 0)
  BY <1>1, Starting
<1>3. Runs(r, StartClock \o Call(b, root, n), x, x, 1)
  BY <1>1, <1>2, RunsThen, OneAndNone
<1>4. Exchanged(r, StartClock \o Call(b, root, n) \o StopClock, x, 1)
  BY <1>1, <1>3, ExchangedIf, OneAndNone
<1> QED BY <1>4 DEF LatencyStep, OverlapStep

\* With -l every rank has settled on its buffers after the first iteration.
Settled(b, r, o, x) == [x EXCEPT !.active = Placing(b, r, o)]

\* Applying MPI_IN_PLACE leaves the buffers that the calls are legal with.
LEMMA Settling ==
    ASSUME NEW b \in CCollective, NEW o \in OptionsOf(b), NEW r, NEW x, Fit(b, r, o, x),
           NEW root, o.in_place => root = 0
    PROVE  /\ Fit(b, r, o, Settled(b, r, o, x))
           /\ Ready(b, r, o, x) => Ready(b, r, o, Settled(b, r, o, x))
           /\ Settled(b, r, o, Settled(b, r, o, x)) = Settled(b, r, o, x)
           /\ Settled(b, r, o, x).active = Placing(b, r, o)
           /\ Settled(b, r, o, x).request = x.request
           /\ Settled(b, r, o, x).strict = x.strict /\ Settled(b, r, o, x).last = x.last
           /\ Counts(r, Given(o.in_place, InPlace(b, root)), x, Settled(b, r, o, x), 0)
<1> DEFINE a == Placing(b, r, o)
           y == Settled(b, r, o, x)
           c == [op |-> "in_place", type |-> CollectiveType[b], root |-> 0]
<1>1. x \in Locals /\ x \in Outside /\ x.alone /\ a \in Buffers
  BY AloneOutside, PlacingType DEF Fit, Alone
<1>2. y \in Alone /\ y.active = a /\ y.request = x.request /\ y.strict = x.strict
      /\ [y EXCEPT !.active = a] = y /\ y \in Locals /\ y.last = x.last
  <2> HIDE DEF a
  <2>1. y = [x EXCEPT !.active = a]
    BY DEF Settled, a
  <2> QED BY <1>1, <2>1 DEF Locals, Outside, Alone
<1>3. Fit(b, r, o, y) /\ (Ready(b, r, o, x) => Ready(b, r, o, y))
  BY <1>2 DEF Ready, Fit
<1>4. CASE o.in_place
  <2>1. c \in Calls /\ c.op = "in_place" /\ c.type = CollectiveType[b] /\ c.root = 0
    BY CollectiveTyped DEF Calls
  <2>2. OmbApplyMpiInPlace(CollectiveType[b], 0, r, x.active) = a
    BY <1>4, PlacingTwice DEF Fit
  <2>3. InPlace(b, root) = <<c>>
    BY <1>4 DEF InPlace
  <2> HIDE DEF c
  <2>4. LocalMove(r, c, x, y)
    <3>1. OrderlyMove(c, x)
      BY <1>1, <2>1 DEF OrderlyMove, Outside
    <3>2. LegalMove(r, c, x)
      BY <2>1 DEF LegalMove
    <3>3. y = Changed(r, c, x)
      BY <2>1, <2>2 DEF Changed, Settled
    <3> QED BY <3>1, <3>2, <3>3 DEF LocalMove
  <2>5. Counts(r, <<c>>, x, y, 0)
    <3>1. ~IsCounted(c)
      BY <2>1 DEF IsCounted
    <3>2. c.op \notin {"elect", "start", "stop", "sample"}
      BY <2>1
    <3> QED BY <1>1, <1>2, <2>1, <2>4, <3>1, <3>2, CallCounts
  <2> QED BY <1>2, <1>3, <1>4, <2>3, <2>5 DEF Given, Settled
<1>5. CASE ~o.in_place
  <2>1. y = x
    BY <1>1, <1>5 DEF Settled, Placing, Fit, Locals
  <2>2. Counts(r, <<>>, x, x, 0)
    BY Nothing
  <2> QED BY <1>2, <1>3, <1>5, <2>1, <2>2 DEF Given, Settled
<1> QED BY <1>4, <1>5, CollectiveOptions

\* As before; the first round finds another state than the later ones.
LEMMA SampledLoopFrom ==
    ASSUME NEW r, NEW ss, IsLoop(ss, Len(Iterations)), NEW x, NEW y, NEW c \in Nat,
           \A k \in 1 .. Len(Iterations) :
               /\ Measures(r, ss[k], x, y, IF Measured(Iterations[k]) THEN c ELSE 0)
               /\ Measures(r, ss[k], y, y, IF Measured(Iterations[k]) THEN c ELSE 0)
    PROVE  Measures(r, FlattenSeq(ss), x, y, Iters * c)
<1>1. Len(Iterations) = Turns /\ Turns \in Nat \ {0}
  BY IterationsAre, TurnsType
<1>2. \A k \in 1 .. Len(Iterations) : ss[k] \in Seq(Calls)
  BY AreCalls
<1>3. ss \in Seq(Seq(Calls)) /\ Len(ss) = Turns
  BY <1>1, <1>2, LoopType
<1> DEFINE z == [k \in 0 .. Turns |-> IF k = 0 THEN x ELSE y]
<1>4. z[0] = x /\ z[Turns] = y
  BY <1>1
<1>5. ASSUME NEW k \in 1 .. Turns
      PROVE  z[k] = y /\ z[k - 1] \in {x, y} /\ Iterations[k] = k - 1
  BY <1>1, IterationsAre
<1> HIDE DEF z
<1>6. \A k \in 1 .. Turns : Measures(r, ss[k], z[k - 1], z[k], IF Measured(k - 1) THEN c ELSE 0)
  BY <1>1, <1>5
<1> QED BY <1>3, <1>4, <1>6, LoopSampled

\* What precedes the call that is measured, the call, what follows it.
LEMMA SampledAmid ==
    ASSUME NEW r, NEW p, NEW q, NEW s, NEW t, NEW u, NEW x, NEW w, NEW y \in Outside,
           NEW c \in Nat, NEW m \in Nat,
           Measures(r, p, x, w, 0), Measures(r, q, w, y, 0), Exchanged(r, s, y, c),
           Counts(r, t, y, y, m), Counts(r, u, y, y, 0), NEW sampled \in BOOLEAN
    PROVE  Measures(r, p \o q \o s \o t \o u \o Given(sampled, Sample), x, y,
                    IF sampled THEN c ELSE 0)
<1>1. Measures(r, p \o q, x, y, 0)
  BY CalmOn
<1>2. Halts(r, p \o q \o s, x, y, c)
  BY <1>1, HaltsAfter DEF Exchanged
<1>3. Halts(r, p \o q \o s \o t, x, y, c)
  BY <1>2, HaltsOn
<1>4. Halts(r, p \o q \o s \o t \o u, x, y, c)
  BY <1>3, HaltsOn, OneAndNone
<1>5. Measures(r, p \o q \o s, x, y, 0)
  BY <1>1, CalmOn DEF Exchanged
<1>6. Measures(r, t, y, y, 0) /\ Measures(r, u, y, y, 0)
  BY CountsAtRest, OneAndNone
<1>7. Measures(r, p \o q \o s \o t \o u, x, y, 0)
  BY <1>5, <1>6, CalmOn
<1>8. CASE sampled
  BY <1>4, <1>8, Sampling DEF Given
<1>9. CASE ~sampled
  <2> DEFINE all == p \o q \o s \o t \o u
  <2>1. Measures(r, <<>>, y, y, 0)
    BY Nothing
  <2> HIDE DEF all
  <2>2. Measures(r, all \o <<>>, x, y, 0)
    BY <1>7, <2>1, CalmOn DEF all
  <2> QED BY <1>9, <2>2 DEF Given, all
<1> QED BY <1>8, <1>9

\* The loop that is measured.
LEMMA CoreMeasures ==
    ASSUME NEW b \in CCollective, NEW o \in OptionsOf(b), NEW r, NEW x, Ready(b, r, o, x),
           NEW n, NEW step \in {LatencyStep(b, n), OverlapStep(b, n)}
    PROVE  Measures(r, RunIterationsCore(b, r, n, o, step), x, Settled(b, r, o, x), Iters * 1)
<1> DEFINE y == Settled(b, r, o, x)
           root(i) == RootRank(o, i)
           called(i) == RootOf(b, o, i)
           warm(i) == Given(o.validate, RunValidationWarmups(b, called(i), i, n))
           place(i) == Given(o.in_place, InPlace(b, root(i)))
           check(i) == Given(o.validate, AccumulateLocalErrors(b, root(i), r, n))
           body(i) == warm(i) \o place(i) \o step[called(i)] \o Barrier \o check(i)
                          \o Given(Measured(i), Sample)
           ss == [k \in 1 .. Len(Iterations) |-> body(Iterations[k])]
<1>1. RunIterationsCore(b, r, n, o, step) = FlattenSeq(ss)
  BY DEF RunIterationsCore, ForEach
<1>2. IsLoop(ss, Len(Iterations)) /\ \A k \in 1 .. Len(Iterations) : ss[k] = body(Iterations[k])
  BY DEF IsLoop
<1>3. ASSUME NEW i \in 0 .. Skip + Iters - 1, NEW z, Ready(b, r, o, z),
             Settled(b, r, o, z) = y
      PROVE  Measures(r, body(i), z, y, IF Measured(i) THEN 1 ELSE 0)
  <2>1. i \in Nat /\ root(i) \in 0 .. Procs - 1 /\ called(i) \in 0 .. Procs - 1
        /\ (o.in_place => root(i) = 0 /\ called(i) = 0)
    BY TurnsType, RootsAre
  <2>2. Ready(b, r, o, y) /\ z \in Alone /\ z \in Outside /\ y \in Alone /\ y \in Outside
    BY <1>3, Settling, AloneOutside DEF Ready, Fit
  <2>3. Measures(r, warm(i), z, z, 0)
    <3>1. Exchanged(r, LatencyStep(b, n)[called(i)], z, 1)
      BY <1>3, <2>1, CollectiveSteps
    <3>2. Measures(r, Times(Warmup, LatencyStep(b, n)[called(i)]), z, z, 0)
      BY <3>1, AreCalls, CalmTimes, WarmupAssumption DEF Exchanged
    <3>3. Measures(r, Fill(i), z, z, 0) /\ Measures(r, Barrier, z, z, 0)
      BY <2>2, Harmlessly, Barriers, CountsAtRest, OneAndNone
    <3>4. Measures(r, RunValidationWarmups(b, called(i), i, n), z, z, 0)
      BY <3>2, <3>3, CalmTwo DEF RunValidationWarmups
    <3> QED BY <3>4, GivenCalls
  <2>4. Measures(r, place(i), z, y, 0)
    <3>1. Counts(r, place(i), z, y, 0)
      BY <1>3, <2>1, Settling DEF Ready
    <3> QED BY <3>1, CountsAtRest, OneAndNone
  <2>5. Exchanged(r, step[called(i)], y, 1)
    BY <2>1, <2>2, CollectiveSteps
  <2>6. Counts(r, Barrier, y, y, 1)
    BY <2>2, Barriers
  <2>7. Counts(r, check(i), y, y, 0)
    BY <2>2, Harmlessly, GivenCalls DEF AccumulateLocalErrors
  <2>8. Measured(i) \in BOOLEAN
    BY DEF Measured
  <2> HIDE DEF y, root, called, warm, place, check
  <2> QED BY <2>2, <2>3, <2>4, <2>5, <2>6, <2>7, <2>8, SampledAmid, OneAndNone
<1>4. Ready(b, r, o, y) /\ Settled(b, r, o, y) = y
  BY Settling DEF Ready
<1>5. \A k \in 1 .. Len(Iterations) : Iterations[k] \in 0 .. Skip + Iters - 1
  BY IterationsAre
<1> HIDE DEF y, body, ss
<1>6. ASSUME NEW k \in 1 .. Len(Iterations)
      PROVE  /\ Measures(r, ss[k], x, y, IF Measured(Iterations[k]) THEN 1 ELSE 0)
             /\ Measures(r, ss[k], y, y, IF Measured(Iterations[k]) THEN 1 ELSE 0)
  BY <1>2, <1>3, <1>4, <1>5 DEF y
<1>7. Measures(r, FlattenSeq(ss), x, y, Iters * 1)
  BY <1>2, <1>6, SampledLoopFrom, OneAndNone
<1> QED BY <1>1, <1>7 DEF y

NoRequest == [kind |-> "none"]

\* One of the benchmarks starts a request that it has not made.
Unmade == "osu_reduce_scatter_block_persistent"

\* The state in which a size of a blocking or persistent benchmark is measured.
Begun(b, root, y) ==
    IF b \in DOMAIN PersistentColl /\ b # Unmade
      THEN [y EXCEPT !.request = [kind |-> KindOf(CollectiveType[b]), root |-> root, active |-> y.active]]
      ELSE y

\* A persistent request is made before the loop and freed after it.
LEMMA BeginsAndEnds ==
    ASSUME NEW b \in CCollective, NEW o \in OptionsOf(b), NEW r, NEW y, Fit(b, r, o, y),
           y.active = Placing(b, r, o), y.request = NoRequest, b = Unmade => ~y.strict,
           NEW root \in 0 .. Procs - 1, o.in_place => root = 0, NEW n
    PROVE  /\ Ready(b, r, o, Begun(b, root, y))
           /\ Begun(b, root, y).active = Placing(b, r, o)
           /\ b \in DOMAIN PersistentColl => Counts(r, CollInit(b, root, n) \o Barrier, y, Begun(b, root, y),
                                                    IF b = Unmade THEN 2 ELSE 1)
           /\ b \in DOMAIN PersistentColl => Counts(r, RequestFree, Begun(b, root, y), y, 0)
           /\ b \notin DOMAIN PersistentColl => Begun(b, root, y) = y
<1> DEFINE q == Begun(b, root, y)
           kind == KindOf(CollectiveType[b])
           made == [kind |-> kind, root |-> root, active |-> y.active]
<1>0. y \in Alone /\ y \in Outside /\ y \in Locals /\ y.alone /\ y.phase = "out" /\ root \in Nat
  BY AloneOutside DEF Fit, Alone, Outside
<1>1. kind \in CollectiveKinds /\ kind # "none" /\ kind \notin {"fence", "sync"}
  BY KindIs DEF CollectiveKinds
<1>2. LegalInPlace(kind, root, r, y.active)
  BY CollectiveOptions, PlacingLegal DEF Fit
<1>3. CASE b \in DOMAIN PersistentColl /\ b # Unmade
  <2>1. q = [y EXCEPT !.request = made]
    BY <1>3 DEF Begun
  <2>2. made \in [kind : CollectiveKinds, root : Nat, active : Buffers]
        /\ made.kind = kind /\ made.root = root /\ made.active = y.active
    BY <1>0, <1>1 DEF Locals
  <2>3. q \in Alone /\ q \in Locals /\ q \in Outside /\ q.request = made /\ q.active = y.active
        /\ q.alone /\ q.phase = "out" /\ [q EXCEPT !.request = NoRequest] = y
    <3> HIDE DEF made, q
    <3> QED BY <1>0, <2>1, <2>2 DEF Locals, Outside, Alone
  <2>4. Ready(b, r, o, q)
    BY <1>1, <1>2, <2>2, <2>3 DEF Ready, Fit
  <2> DEFINE c == [op |-> "init", kind |-> kind, root |-> root]
             d == [op |-> "free"]
  <2>5. c \in Calls /\ c.op = "init" /\ c.kind = kind /\ c.root = root
        /\ d \in Calls /\ d.op = "free"
    BY <1>0, <1>1 DEF Calls, Plain
  <2>6. CollInit(b, root, n) = <<c>> /\ RequestFree = <<d>>
    BY <1>3 DEF CollInit, RequestFree, Unmade
  <2> HIDE DEF c, d
  <2>7. LocalMove(r, c, y, q)
    <3>1. OrderlyMove(c, y) /\ LegalMove(r, c, y)
      BY <1>0, <2>5 DEF OrderlyMove, LegalMove
    <3>2. q = Changed(r, c, y)
      BY <2>1, <2>5 DEF Changed
    <3> QED BY <3>1, <3>2 DEF LocalMove
  <2>8. Counts(r, <<c>>, y, q, 0)
    BY <1>0, <2>3, <2>5, <2>7, CallCounts DEF IsCounted
  <2>9. LocalMove(r, d, q, y)
    <3>1. OrderlyMove(d, q) /\ LegalMove(r, d, q)
      BY <1>1, <2>2, <2>3, <2>5 DEF OrderlyMove, LegalMove
    <3>2. y = Changed(r, d, q)
      BY <2>3, <2>5 DEF Changed, NoRequest
    <3> QED BY <3>1, <3>2 DEF LocalMove
  <2>10. Counts(r, <<d>>, q, y, 0)
    BY <1>0, <2>3, <2>5, <2>9, CallCounts DEF IsCounted
  <2>11. Counts(r, Barrier, q, q, 1)
    BY <2>3, Barriers
  <2>12. Counts(r, <<c>> \o Barrier, y, q, 0 + 1)
    BY <2>8, <2>11, CountsOn, OneAndNone
  <2> QED BY <1>3, <2>3, <2>4, <2>6, <2>10, <2>12
<1>4. CASE b \in DOMAIN PersistentColl /\ b = Unmade
  <2>1. q = y
    BY <1>4 DEF Begun
  <2>2. Ready(b, r, o, y)
    BY <1>4 DEF Ready
  <2>3. CollInit(b, root, n) = Enter("all", root, Receivers(b, n), "in_place") \o Leave
    BY <1>4 DEF CollInit, Unmade
  <2>4. Counts(r, Enter("all", root, Receivers(b, n), "in_place") \o Leave, y, y, 1)
    <3>1. "all" \in CollectiveKinds \ {"fence"} /\ "in_place" \in Forms /\ ~PSync("in_place")
      BY DEF CollectiveKinds, Forms, PSync
    <3>2. Counts(r, Enter("all", root, Receivers(b, n), "in_place") \o Leave, y, y,
                 IF "all" = "sync" THEN 0 ELSE 1)
      BY <1>0, <1>4, <3>1, AudiencesAre, Collectives
    <3> QED BY <3>2
  <2>5. Counts(r, Barrier, y, y, 1)
    BY <1>0, Barriers
  <2>6. Counts(r, CollInit(b, root, n) \o Barrier, y, y, 1 + 1)
    BY <2>3, <2>4, <2>5, CountsOn, OneAndNone
  <2> DEFINE d == [op |-> "free"]
  <2>7. d \in Calls /\ d.op = "free" /\ RequestFree = <<d>>
    BY DEF Calls, Plain, RequestFree
  <2> HIDE DEF d
  <2>8. LocalMove(r, d, y, y)
    <3>1. OrderlyMove(d, y)
      BY <1>0, <2>7 DEF OrderlyMove
    <3>2. y = Changed(r, d, y)
      BY <1>0, <2>7 DEF Changed, NoRequest, Locals
    <3> QED BY <1>4, <3>1, <3>2 DEF LocalMove
  <2>9. Counts(r, <<d>>, y, y, 0)
    BY <1>0, <2>7, <2>8, CallCounts DEF IsCounted
  <2> QED BY <1>4, <2>1, <2>2, <2>6, <2>7, <2>9
<1>5. CASE b \notin DOMAIN PersistentColl
  <2>1. q = y
    BY <1>5 DEF Begun
  <2> QED BY <1>5, <2>1 DEF Ready
<1> QED BY <1>3, <1>4, <1>5

\* A size of a blocking or a persistent collective.
LEMMA BlockingMeasures ==
    ASSUME NEW b \in CCollective, NEW o \in OptionsOf(b), NEW r, NEW x, Fit(b, r, o, x),
           x.request = NoRequest, b = Unmade => ~x.strict, NEW k \in Nat
    PROVE  Measures(r, RunBlockingForMsgSize(b, r, k, o), x, Settled(b, r, o, x), Iters * 1)
<1> DEFINE root == StaleRoot(b, o, k)
           n == Sizes[k]
           y == Settled(b, r, o, x)
           q == Begun(b, root, y)
           place == Given(o.in_place, InPlace(b, root))
           begin == Given(b \in DOMAIN PersistentColl, CollInit(b, root, n) \o Barrier)
           core == RunIterationsCore(b, r, n, o, LatencyStep(b, n))
           sum == Given(o.validate, SumErrors)
           end == Given(b \in DOMAIN PersistentColl, RequestFree)
           c == Iters * 1
<1>1. RunBlockingForMsgSize(b, r, k, o) = place \o begin \o core \o Reduce \o sum \o end \o Barrier
  BY DEF RunBlockingForMsgSize
<1>2. root \in 0 .. Procs - 1 /\ (o.in_place => root = 0) /\ c \in Nat
  BY RootsAre, RoundType, OneAndNone
<1>3. Fit(b, r, o, y) /\ y.active = Placing(b, r, o) /\ y.request = NoRequest
      /\ (b = Unmade => ~y.strict)
  <2> HIDE DEF root, n, q, place, begin, core, sum, end, c
  <2>1. /\ Fit(b, r, o, y) /\ y.active = Placing(b, r, o)
        /\ y.request = x.request /\ y.strict = x.strict
    BY <1>2, Settling
  <2> HIDE DEF y
  <2>2. y.request = NoRequest
    BY <2>1
  <2>3. b = Unmade => ~y.strict
    BY <2>1
  <2> QED BY <2>1, <2>2, <2>3
<1>4. Measures(r, place, x, y, 0)
  <2>1. Counts(r, place, x, y, 0)
    BY <1>2, Settling
  <2> QED BY <2>1, CountsAtRest, OneAndNone
<1>5. Ready(b, r, o, q) /\ q.active = Placing(b, r, o)
  BY <1>2, <1>3, BeginsAndEnds
<1>6. Measures(r, begin, y, q, 0)
  <2>1. CASE b \in DOMAIN PersistentColl
    <3>1. PICK m \in Nat : Counts(r, CollInit(b, root, n) \o Barrier, y, q, m)
      BY <1>2, <1>3, <2>1, BeginsAndEnds
    <3>2. Measures(r, CollInit(b, root, n) \o Barrier, y, q, 0)
      BY <3>1, CountsAtRest
    <3> QED BY <2>1, <3>2 DEF Given
  <2>2. CASE b \notin DOMAIN PersistentColl
    <3>1. q = y
      BY <1>2, <1>3, <2>2, BeginsAndEnds
    <3>2. Measures(r, <<>>, y, y, 0)
      BY Nothing
    <3> QED BY <2>2, <3>1, <3>2 DEF Given
  <2> QED BY <2>1, <2>2
<1>7. Measures(r, end, q, y, 0)
  <2>1. CASE b \in DOMAIN PersistentColl
    <3>1. Counts(r, RequestFree, q, y, 0)
      BY <1>2, <1>3, <2>1, BeginsAndEnds
    <3>2. Measures(r, RequestFree, q, y, 0)
      BY <3>1, CountsAtRest, OneAndNone
    <3> QED BY <2>1, <3>2 DEF Given
  <2>2. CASE b \notin DOMAIN PersistentColl
    <3>1. q = y
      BY <1>2, <1>3, <2>2, BeginsAndEnds
    <3>2. Measures(r, <<>>, y, y, 0)
      BY Nothing
    <3> QED BY <2>2, <3>1, <3>2 DEF Given
  <2> QED BY <2>1, <2>2
<1>8. q \in Alone /\ y \in Alone
  BY <1>3, <1>5 DEF Ready, Fit
<1>9. Settled(b, r, o, q) = q
  BY <1>5, <1>8, AloneOutside DEF Settled, Outside, Locals
<1>10. Measures(r, core, q, q, c)
  <2>1. Measures(r, core, q, Settled(b, r, o, q), c)
    BY <1>5, CoreMeasures
  <2> QED BY <1>9, <2>1
<1>11. Measures(r, Reduce, q, q, 0) /\ Measures(r, sum, q, q, 0) /\ Measures(r, Barrier, y, y, 0)
  <2>1. Measures(r, Reduce, q, q, 0) /\ Measures(r, SumErrors, q, q, 0) /\ Measures(r, Barrier, y, y, 0)
    BY <1>8, Barriers, CountsAtRest, OneAndNone
  <2> QED BY <2>1, GivenCalls
<1> HIDE DEF root, n, y, q, place, begin, core, sum, end, c
<1>12. Measures(r, place \o begin, x, q, 0)
  BY <1>4, <1>6, CalmOn
<1>13. Measures(r, place \o begin \o core, x, q, c)
  BY <1>2, <1>10, <1>12, LaterOnly
<1>14. Measures(r, place \o begin \o core \o Reduce, x, q, c)
  BY <1>2, <1>11, <1>13, EarlierOnly
<1>15. Measures(r, place \o begin \o core \o Reduce \o sum, x, q, c)
  BY <1>2, <1>11, <1>14, EarlierOnly
<1>16. Measures(r, place \o begin \o core \o Reduce \o sum \o end, x, y, c)
  BY <1>2, <1>7, <1>15, EarlierOnly
<1>17. Measures(r, place \o begin \o core \o Reduce \o sum \o end \o Barrier, x, y, c)
  BY <1>2, <1>11, <1>16, EarlierOnly
<1> QED BY <1>1, <1>17 DEF y, c

\* A size of a nonblocking collective: the latency, and the overlapped latency.
LEMMA NonBlockingMeasures ==
    ASSUME NEW b \in CCollective, NEW o \in OptionsOf(b), NEW r, NEW x, Fit(b, r, o, x),
           IsNonBlocking(b), NEW n
    PROVE  Measures(r, RunNonBlockingForMsgSize(b, r, n, o), x, Settled(b, r, o, x), Iters * 1 + Iters * 1)
<1> DEFINE y == Settled(b, r, o, x)
           first == RunIterationsCore(b, r, n, o, LatencyStep(b, n))
           second == RunIterationsCore(b, r, n, o, OverlapStep(b, n))
           sum == Given(o.validate, SumErrors)
           c == Iters * 1
<1>1. RunNonBlockingForMsgSize(b, r, n, o)
          = first \o sum \o Barrier \o second \o sum \o Reduce \o Barrier
  BY DEF RunNonBlockingForMsgSize
<1>2. c \in Nat
  BY RoundType, OneAndNone
<1>3. Ready(b, r, o, x)
  BY DomainsAre DEF Ready
<1>4. Ready(b, r, o, y) /\ Settled(b, r, o, y) = y /\ y \in Alone
  <2>1. 0 = 0 /\ (o.in_place => 0 = 0)
    OBVIOUS
  <2>2. Ready(b, r, o, y) /\ Settled(b, r, o, y) = y
    BY <1>3, <2>1, Settling
  <2> QED BY <2>2 DEF Ready, Fit
<1>5. Measures(r, first, x, y, c) /\ Measures(r, second, y, y, c)
  <2>1. Measures(r, second, y, Settled(b, r, o, y), c)
    BY <1>4, CoreMeasures
  <2> QED BY <1>3, <1>4, <2>1, CoreMeasures
<1>6. Measures(r, Reduce, y, y, 0) /\ Measures(r, sum, y, y, 0) /\ Measures(r, Barrier, y, y, 0)
  <2>1. Measures(r, Reduce, y, y, 0) /\ Measures(r, SumErrors, y, y, 0) /\ Measures(r, Barrier, y, y, 0)
    BY <1>4, Barriers, CountsAtRest, OneAndNone
  <2> QED BY <2>1, GivenCalls
<1> HIDE DEF y, first, second, sum, c
<1>7. Measures(r, first \o sum, x, y, c)
  BY <1>2, <1>5, <1>6, EarlierOnly
<1>8. Measures(r, first \o sum \o Barrier, x, y, c)
  BY <1>2, <1>6, <1>7, EarlierOnly
<1>9. Measures(r, first \o sum \o Barrier \o second, x, y, c + c)
  BY <1>2, <1>5, <1>8, MeasuresOn
<1>10. c + c \in Nat
  BY <1>2
<1>11. Measures(r, first \o sum \o Barrier \o second \o sum, x, y, c + c)
  BY <1>6, <1>9, <1>10, EarlierOnly
<1>12. Measures(r, first \o sum \o Barrier \o second \o sum \o Reduce, x, y, c + c)
  BY <1>6, <1>10, <1>11, EarlierOnly
<1>13. Measures(r, first \o sum \o Barrier \o second \o sum \o Reduce \o Barrier, x, y, c + c)
  BY <1>6, <1>10, <1>12, EarlierOnly
<1> QED BY <1>1, <1>13 DEF y, c

\* What an iteration of a size adds.
PerSize(b) == IF IsNonBlocking(b) THEN Iters * 1 + Iters * 1 ELSE Iters * 1

\* A size of any C collective.
LEMMA MsgSizes ==
    ASSUME NEW b \in CCollective, NEW o \in OptionsOf(b), NEW r, NEW x, Fit(b, r, o, x),
           x.request = NoRequest, b = Unmade => ~x.strict, NEW k \in Nat
    PROVE  Measures(r, RunBenchmarkForMsgSize(b, r, k, o), x, Settled(b, r, o, x), PerSize(b))
<1> DEFINE y == Settled(b, r, o, x)
           c == PerSize(b)
           run0 == IF IsNonBlocking(b) THEN RunNonBlockingForMsgSize(b, r, Sizes[k], o)
                                       ELSE RunBlockingForMsgSize(b, r, k, o)
<1>1. RunBenchmarkForMsgSize(b, r, k, o) = run0 \o Barrier
  BY DEF RunBenchmarkForMsgSize
<1>2. Measures(r, run0, x, y, c)
  BY BlockingMeasures, NonBlockingMeasures DEF PerSize
<1>3. c \in Nat
  BY RoundType, OneAndNone DEF PerSize
<1>4. Measures(r, Barrier, y, y, 0)
  <2>1. 0 = 0 /\ (o.in_place => 0 = 0)
    OBVIOUS
  <2>2. Fit(b, r, o, y)
    BY <2>1, Settling
  <2> QED BY <2>2, Barriers, CountsAtRest, OneAndNone DEF Fit
<1> HIDE DEF y, c, run0
<1>5. Measures(r, run0 \o Barrier, x, y, c)
  BY <1>2, <1>3, <1>4, EarlierOnly
<1> QED BY <1>1, <1>5 DEF y, c

\* Making the graph of a neighborhood collective counts nothing.
LEMMA DistGraph ==
    ASSUME NEW r, NEW x \in Alone
    PROVE  Measures(r, CreateDistGraph, x, x, 0)
<1> DEFINE create == Enter("all", 0, {}, "plain") \o Leave
<1>1. CreateDistGraph = create \o Barrier \o create \o Reduce
  BY DEF CreateDistGraph
<1>2. Measures(r, Barrier, x, x, 0) /\ Measures(r, Reduce, x, x, 0)
  BY Barriers, CountsAtRest, OneAndNone
<1>3. Measures(r, create, x, x, 0)
  <2>1. "all" \in CollectiveKinds \ {"fence"} /\ "plain" \in {"plain"} \cup PSyncArrays /\ 0 \in Nat
    BY DEF CollectiveKinds
  <2>2. Counts(r, create, x, x, IF "all" = "sync" THEN 0 ELSE 1)
    BY <2>1, PlainCollectives
  <2>3. (IF "all" = "sync" THEN 0 ELSE 1) = 1
    OBVIOUS
  <2> HIDE DEF create
  <2> QED BY <2>2, <2>3, CountsAtRest, OneAndNone
<1> HIDE DEF create
<1> QED BY <1>1, <1>2, <1>3, CalmThree

\* The sizes a C collective goes through.
LEMMA CollectiveSizesAre ==
    ASSUME NEW b
    PROVE  /\ Len(CollectiveSizes(b)) \in Nat \ {0}
           /\ \A k \in 1 .. Len(CollectiveSizes(b)) : CollectiveSizes(b)[k] \in Nat
<1>1. CASE CollectiveType[b] = "barrier"
  <2>1. CollectiveSizes(b) = <<1>>
    BY <1>1 DEF CollectiveSizes
  <2> QED BY <2>1
<1>2. CASE CollectiveType[b] # "barrier"
  <2>1. CollectiveSizes(b) = [k \in DOMAIN Sizes |-> k]
    BY <1>2 DEF CollectiveSizes
  <2>2. DOMAIN Sizes = 1 .. Len(Sizes) /\ Len(Sizes) \in Nat \ {0}
    BY SizesAssumption, SizesAre
  <2>3. CollectiveSizes(b) = [k \in 1 .. Len(Sizes) |-> k]
    BY <2>1, <2>2
  <2>4. CollectiveSizes(b) \in Seq(Nat) /\ Len(CollectiveSizes(b)) = Len(Sizes)
    BY <2>2, <2>3
  <2> QED BY <2>2, <2>4
<1> QED BY <1>1, <1>2

\* The programs of c/mpi/collective: every rank measures as many calls as the
\* printed value stands for.
LEMMA CCollectiveMeasures ==
    ASSUME NEW b \in CCollective, NEW o \in OptionsOf(b), NEW r, NEW x \in Alone,
           x.active = Unchanged0, x.request = NoRequest, b = Unmade => ~x.strict, x.last
    PROVE  /\ \E y : /\ Measures(r, CCollectiveProgram(b, r, o), x, y, CCollectiveReported(b))
                     /\ AtRest(x) => AtRest(y)
           /\ \E s \in Seq(Calls) : CCollectiveProgram(b, r, o) = s \o Report
<1> DEFINE y == Settled(b, r, o, x)
           create == Given(b \in Neighborhood, CreateDistGraph)
           size(k) == RunBenchmarkForMsgSize(b, r, k, o)
           S == CollectiveSizes(b)
           n == Len(S)
           ss == [k \in 1 .. n |-> Barrier \o size(S[k]) \o Barrier \o BreakOnErrors]
           c == PerSize(b)
<1>1. CCollectiveProgram(b, r, o) = create \o FlattenSeq(ss) \o Report
  BY DEF CCollectiveProgram, ForEach
<1>2. Fit(b, r, o, x)
  BY DEF Fit
<1>3. Fit(b, r, o, y) /\ y.request = NoRequest /\ (b = Unmade => ~y.strict) /\ y.last
      /\ Settled(b, r, o, y) = y
  <2> DEFINE root == 0
  <2>1. o.in_place => root = 0
    OBVIOUS
  <2> HIDE DEF root
  <2>2. Fit(b, r, o, y) /\ Settled(b, r, o, y) = y
    BY <1>2, <2>1, Settling
  <2>3. x \in Locals
    BY AloneOutside
  <2>4. y.request = NoRequest /\ (b = Unmade => ~y.strict) /\ y.last
    BY <2>3 DEF Settled, Locals
  <2> HIDE DEF y
  <2> QED BY <2>2, <2>4
<1>4. y \in Alone /\ y \in Outside /\ c \in Nat
  BY <1>3, AloneOutside, RoundType, OneAndNone DEF Fit, PerSize
<1>5. n \in Nat \ {0} /\ \A k \in 1 .. n : S[k] \in Nat
  BY CollectiveSizesAre
<1>6. Measures(r, create, x, x, 0)
  BY DistGraph, GivenCalls
<1>7. Measures(r, Report, y, y, 0) /\ Measures(r, BreakOnErrors, y, y, 0)
      /\ \A z \in Alone : Measures(r, Barrier, z, z, 0)
  BY <1>3, <1>4, Harmlessly, Breaking, Barriers, CountsAtRest, OneAndNone
<1>8. \A k \in 1 .. n : ss[k] = Barrier \o size(S[k]) \o Barrier \o BreakOnErrors
  OBVIOUS
<1>9. IsLoop(ss, n)
  BY DEF IsLoop
<1>10. \A k \in 1 .. n : Measures(r, size(S[k]), x, y, c) /\ Measures(r, size(S[k]), y, y, c)
  <2>1. \A k \in Nat : Measures(r, size(k), x, y, c)
    BY <1>2, MsgSizes
  <2>2. \A k \in Nat : Measures(r, size(k), y, Settled(b, r, o, y), c)
    BY <1>3, MsgSizes
  <2> HIDE DEF y, size, c, S, n
  <2> QED BY <1>3, <1>5, <2>1, <2>2
<1> HIDE DEF create, size, S, n, ss, c, y
<1>11. ASSUME NEW k \in 1 .. n, NEW z \in {x, y}
       PROVE  Measures(r, ss[k], z, y, c)
  <2>1. Measures(r, Barrier, z, z, 0) /\ Measures(r, size(S[k]), z, y, c) /\ Measures(r, Barrier, y, y, 0)
    BY <1>4, <1>7, <1>10
  <2>2. Measures(r, Barrier \o size(S[k]), z, y, c)
    BY <1>4, <2>1, LaterOnly
  <2>3. Measures(r, Barrier \o size(S[k]) \o Barrier, z, y, c)
    BY <1>4, <2>1, <2>2, EarlierOnly
  <2>4. Measures(r, Barrier \o size(S[k]) \o Barrier \o BreakOnErrors, z, y, c)
    BY <1>4, <1>7, <2>3, EarlierOnly
  <2> QED BY <1>8, <2>4
<1>12. ss \in Seq(Seq(Calls)) /\ Len(ss) = n
  <2>1. \A k \in 1 .. n : ss[k] \in Seq(Calls)
    BY <1>11, AreCalls
  <2> QED BY <1>5, <1>9, <2>1, LoopType
<1>13. Measures(r, FlattenSeq(ss), x, y, n * c)
  <2>1. \A k \in 1 .. Len(ss) : Measures(r, ss[k], x, y, c) /\ Measures(r, ss[k], y, y, c)
    BY <1>11, <1>12
  <2>2. Len(ss) # 0
    BY <1>5, <1>12
  <2>3. Measures(r, FlattenSeq(ss), x, y, Len(ss) * c)
    BY <1>4, <1>12, <2>1, <2>2, MeasuresEach
  <2> QED BY <1>12, <2>3
<1>14. n * c \in Nat
  BY <1>4, <1>5
<1>15. Measures(r, create \o FlattenSeq(ss) \o Report, x, y, n * c)
       /\ create \o FlattenSeq(ss) \in Seq(Calls)
  <2> DEFINE m == n * c
  <2> HIDE DEF m
  <2>1. m \in Nat /\ Measures(r, FlattenSeq(ss), x, y, m)
    BY <1>13, <1>14 DEF m
  <2>2. Measures(r, create \o FlattenSeq(ss), x, y, m)
    BY <1>6, <2>1, LaterOnly
  <2>3. Measures(r, create \o FlattenSeq(ss) \o Report, x, y, m)
    BY <1>7, <2>1, <2>2, EarlierOnly
  <2> QED BY <2>2, <2>3, AreCalls DEF m
<1>16. CCollectiveReported(b) = n * c
  <2>1. Iters \in Nat /\ n \in Nat
    BY <1>5, TurnsType
  <2>2. Iters * n * 2 = n * (Iters * 1 + Iters * 1) /\ Iters * n * 1 = n * (Iters * 1)
    BY <2>1
  <2>3. CCollectiveReported(b) = Iters * n * (IF IsNonBlocking(b) THEN 2 ELSE 1)
    BY DEF CCollectiveReported, n, S
  <2> QED BY <2>2, <2>3 DEF c, PerSize
<1>17. AtRest(x) => AtRest(y)
  <2>1. x \in Locals
    BY AloneOutside
  <2>2. y.phase = x.phase /\ y.access = x.access
    BY <2>1 DEF y, Settled, Locals
  <2> QED BY <2>2 DEF AtRest
<1> QED BY <1>1, <1>15, <1>16, <1>17

-----------------------------------------------------------------------------
(* The collective benchmarks in Java, in Python and of NCCL. *)

RootedKinds == {"all", "from_root", "to_root"}

\* A call with a root is as legal as one without.
LEMMA RootedCalls ==
    ASSUME NEW r, NEW x \in Alone, NEW kind \in RootedKinds
    PROVE  Counts(r, Collective(kind), x, x, 1)
<1>1. kind \in CollectiveKinds \ {"fence"} /\ kind # "sync" /\ 0 \in Nat
      /\ "plain" \in {"plain"} \cup PSyncArrays /\ Everyone \in SUBSET Nat
  BY AudiencesAre DEF RootedKinds, CollectiveKinds
<1>2. Counts(r, Enter(kind, 0, Everyone, "plain") \o Leave, x, x, IF kind = "sync" THEN 0 ELSE 1)
  BY <1>1, PlainCollectives
<1> QED BY <1>1, <1>2 DEF Collective

\* The loop of a Java collective.
LEMMA JavaLoopMeasures ==
    ASSUME NEW r, NEW x \in Alone, NEW call, Counts(r, call, x, x, 1), NEW v \in BOOLEAN,
           NEW checking \in BOOLEAN
    PROVE  Measures(r, JavaLoop(call, v, checking), x, x, Iters * 1)
<1>1. x \in Outside /\ (v /\ checking) \in BOOLEAN
  BY AloneOutside
<1> DEFINE fill == JavaFill(v)
           check == JavaCheck(v /\ checking)
           ss == [k \in 1 .. Len(Iterations) |->
                     StartOnce(Iterations[k]) \o fill \o call \o check \o StopOnce(Iterations[k])]
<1>2. JavaLoop(call, v, checking) = FlattenSeq(ss)
  BY DEF JavaLoop, ForEach
<1>3. Counts(r, fill, x, x, 0) /\ Counts(r, check, x, x, 0)
  BY <1>1, JavaPieces
<1>4. IsLoop(ss, Len(Iterations)) /\ \A k \in 1 .. Len(Iterations) :
          /\ ss[k] = StartOnce(Iterations[k]) \o fill \o call \o check \o StopOnce(Iterations[k])
          /\ Iterations[k] \in Nat
  BY IterationsAre DEF IsLoop
<1> HIDE DEF fill, check, ss
<1>5. ASSUME NEW k \in 1 .. Len(Iterations) PROVE Ends(r, ss[k], x, 1, Iterations[k])
  <2> DEFINE i == Iterations[k]
  <2>1. Begins(r, StartOnce(i), x, x, 0, i)
    BY <1>1, <1>4, StartOnceBegins
  <2>2. 1 = 0 + 0 + 1 + 0
    OBVIOUS
  <2> HIDE DEF i
  <2>3. Begins(r, StartOnce(i) \o fill \o call \o check, x, x, 1, i)
    BY <1>3, <2>1, <2>2, BeginsThree, OneAndNone
  <2>4. Ends(r, StartOnce(i) \o fill \o call \o check \o StopOnce(i), x, 1, i)
    BY <2>3, EndsIf
  <2> QED BY <1>4, <2>4 DEF i
<1>6. Measures(r, FlattenSeq(ss), x, x, Iters * 1)
  BY <1>1, <1>4, <1>5, ClosedLoop, OneAndNone
<1> QED BY <1>2, <1>6

\* The Java collectives, but the barrier.
LEMMA JavaProgramMeasures ==
    ASSUME NEW r, NEW x \in Alone, NEW kind \in RootedKinds, NEW v \in BOOLEAN,
           NEW checking \in BOOLEAN
    PROVE  Measures(r, JavaProgram(kind, v, checking), x, x, Total(1))
<1> DEFINE loop == JavaLoop(Collective(kind), v, checking)
           size == loop \o Reduce \o Barrier
           warm == Times(InitialWarmup, Collective(kind) \o Barrier)
           c == Iters * 1
<1>1. JavaProgram(kind, v, checking) = warm \o Times(Len(Sizes), size)
  BY DEF JavaProgram
<1>2. Counts(r, Collective(kind), x, x, 1)
  BY RootedCalls
<1>3. Measures(r, loop, x, x, c) /\ c \in Nat
  BY <1>2, JavaLoopMeasures, RoundType, OneAndNone
<1>4. Measures(r, Reduce, x, x, 0) /\ Measures(r, Barrier, x, x, 0)
      /\ Measures(r, Collective(kind), x, x, 0)
  BY <1>2, Barriers, CountsAtRest, OneAndNone
<1>5. Measures(r, warm, x, x, 0)
  <2>1. Measures(r, Collective(kind) \o Barrier, x, x, 0)
    BY <1>4, CalmOn
  <2> QED BY <2>1, AreCalls, CalmTimes, InitialWarmupAssumption
<1> HIDE DEF loop, warm, c
<1>6. Measures(r, loop \o Reduce, x, x, c)
  BY <1>3, <1>4, EarlierOnly
<1>7. Measures(r, size, x, x, c)
  BY <1>3, <1>4, <1>6, EarlierOnly
<1> HIDE DEF size
<1>8. Measures(r, Times(Len(Sizes), size), x, x, Total(1)) /\ Total(1) \in Nat
  BY <1>7, SizeTimes, TotalType, OneAndNone DEF c
<1>9. Measures(r, warm \o Times(Len(Sizes), size), x, x, Total(1))
  BY <1>5, <1>8, LaterOnly
<1> QED BY <1>1, <1>9

\* OSUBarrier.java, which has no sizes.
LEMMA OSUBarrierMeasures ==
    ASSUME NEW r, NEW x \in Alone
    PROVE  Measures(r, OSUBarrier, x, x, Iters * 1)
<1> DEFINE warm == Times(InitialWarmup, Barrier)
           loop == JavaLoop(Barrier, FALSE, FALSE)
           c == Iters * 1
<1>1. Counts(r, Barrier, x, x, 1) /\ Measures(r, Barrier, x, x, 0) /\ Measures(r, Reduce, x, x, 0)
  BY Barriers, CountsAtRest, OneAndNone
<1>2. Measures(r, warm, x, x, 0)
  BY <1>1, AreCalls, CalmTimes, InitialWarmupAssumption
<1>3. Measures(r, loop, x, x, c) /\ c \in Nat
  BY <1>1, JavaLoopMeasures, RoundType, OneAndNone
<1>4. OSUBarrier = warm \o loop \o Reduce
  BY DEF OSUBarrier
<1> HIDE DEF warm, loop, c
<1>5. Measures(r, warm \o loop \o Reduce, x, x, c)
  BY <1>1, <1>2, <1>3, Between
<1> QED BY <1>4, <1>5 DEF c

\* The loop of a Python collective.
LEMMA PythonLoopMeasures ==
    ASSUME NEW r, NEW x \in Alone, NEW call, Counts(r, call, x, x, 1)
    PROVE  Measures(r, PythonLoop(call), x, x, Iters * 1)
<1>1. x \in Outside
  BY AloneOutside
<1> DEFINE c == Iters * 1
           inner == [j \in 1 .. Len(Iterations) |-> StartOnce(Iterations[j]) \o call]
<1>2. PythonLoop(call) = Barrier \o FlattenSeq(inner) \o StopClock \o Sample \o Barrier \o Reduce
  BY DEF PythonLoop, ForEach
<1>3. IsLoop(inner, Len(Iterations)) /\ \A k \in 1 .. Len(Iterations) :
          inner[k] = StartOnce(Iterations[k]) \o call /\ Iterations[k] \in Nat
  BY IterationsAre DEF IsLoop
<1>4. c \in Nat
  BY RoundType, OneAndNone
<1> HIDE DEF inner
<1>5. ASSUME NEW k \in 1 .. Len(Iterations)
      PROVE  Begins(r, inner[k], x, x, 1, Iterations[k])
  <2>1. Begins(r, StartOnce(Iterations[k]), x, x, 0, Iterations[k])
    BY <1>1, <1>3, StartOnceBegins
  <2>2. Begins(r, StartOnce(Iterations[k]) \o call, x, x, 1, Iterations[k])
    BY <2>1, BeginsThen, OneAndNone
  <2> QED BY <1>3, <2>2
<1>6. Runs(r, Barrier \o FlattenSeq(inner), x, x, c)
  BY <1>3, <1>5, StartedSize, OneAndNone
<1>7. Measures(r, Barrier, x, x, 0) /\ Measures(r, Reduce, x, x, 0)
  BY Barriers, CountsAtRest, OneAndNone
<1> DEFINE s == Barrier \o FlattenSeq(inner)
<1> HIDE DEF c, s
<1>8. Measures(r, s \o StopClock \o Sample, x, x, c)
  BY <1>1, <1>4, <1>6, Sampled DEF s
<1>9. Measures(r, s \o StopClock \o Sample \o Barrier \o Reduce, x, x, c)
  BY <1>4, <1>7, <1>8, EarlierOnly
<1> QED BY <1>2, <1>9 DEF s, c

\* The Python collectives.
LEMMA PythonProgramMeasures ==
    ASSUME NEW r, NEW x \in Alone, NEW kind \in RootedKinds
    PROVE  Measures(r, PythonProgram(kind), x, x, Total(1))
BY RootedCalls, PythonLoopMeasures, SizeTimes, OneAndNone DEF PythonProgram

\* The loop of an NCCL collective.
LEMMA XcclLoopMeasures ==
    ASSUME NEW r, NEW x \in Alone, NEW kind \in RootedKinds
    PROVE  Measures(r, XcclLoop(kind), x, x, Iters * 1)
<1>1. x \in Outside /\ Counts(r, Collective(kind), x, x, 1) /\ Measures(r, Barrier, x, x, 0)
  BY AloneOutside, RootedCalls, Barriers, CountsAtRest, OneAndNone
<1> DEFINE e == StartClock \o Collective(kind) \o StopClock
           ss == [k \in 1 .. Len(Iterations) |-> e \o Given(Measured(Iterations[k]), Sample) \o Barrier]
<1>2. XcclLoop(kind) = FlattenSeq(ss)
  BY DEF XcclLoop, ForEach
<1>3. IsLoop(ss, Len(Iterations)) /\ \A k \in 1 .. Len(Iterations) :
          ss[k] = e \o Given(Measured(Iterations[k]), Sample) \o Barrier
  BY DEF IsLoop
<1>4. Exchanged(r, e, x, 1)
  <2>1. Runs(r, StartClock, x, x, 0)
    BY <1>1, Starting
  <2>2. Runs(r, StartClock \o Collective(kind), x, x, 1)
    BY <1>1, <2>1, RunsThen, OneAndNone
  <2> QED BY <1>1, <2>2, ExchangedIf, OneAndNone
<1> HIDE DEF e, ss
<1>5. ASSUME NEW m \in BOOLEAN
      PROVE  Measures(r, e \o Given(m, Sample), x, x, IF m THEN 1 ELSE 0)
  <2>1. CASE m
    BY <1>1, <1>4, <2>1, Sampling, OneAndNone DEF Given, Exchanged
  <2>2. CASE ~m
    <3>1. Measures(r, <<>>, x, x, 0)
      BY Nothing
    <3> QED BY <1>4, <2>2, <3>1, CalmOn DEF Given, Exchanged
  <2> QED BY <2>1, <2>2
<1>6. ASSUME NEW k \in 1 .. Len(Iterations)
      PROVE  Measures(r, ss[k], x, x, IF Measured(Iterations[k]) THEN 1 ELSE 0)
  <2> DEFINE m == Measured(Iterations[k])
             d == IF m THEN 1 ELSE 0
  <2>1. m \in BOOLEAN /\ d \in Nat
    BY DEF Measured
  <2> HIDE DEF m
  <2>2. Measures(r, e \o Given(m, Sample), x, x, d)
    BY <1>5, <2>1
  <2> HIDE DEF d
  <2>3. Measures(r, e \o Given(m, Sample) \o Barrier, x, x, d)
    BY <1>1, <2>1, <2>2, EarlierOnly
  <2> QED BY <1>3, <2>3 DEF d, m
<1> QED BY <1>2, <1>3, <1>6, SampledLoop, OneAndNone

\* The NCCL collectives.
LEMMA XcclProgramMeasures ==
    ASSUME NEW r, NEW x \in Alone, NEW kind \in RootedKinds
    PROVE  /\ Measures(r, XcclProgram(kind), x, x, Total(1))
           /\ Measures(r, XcclProgramShort(kind), x, x, Total(1))
<1> DEFINE loop == XcclLoop(kind)
           c == Iters * 1
           long == Barrier \o loop \o Barrier \o Reduce \o Barrier
           short == Barrier \o loop \o Reduce \o Barrier
<1>1. Measures(r, loop, x, x, c) /\ c \in Nat
  BY XcclLoopMeasures, RoundType, OneAndNone
<1>2. Measures(r, Barrier, x, x, 0) /\ Measures(r, Reduce, x, x, 0)
  BY Barriers, CountsAtRest, OneAndNone
<1>3. XcclProgram(kind) = Times(Len(Sizes), long) /\ XcclProgramShort(kind) = Times(Len(Sizes), short)
  BY DEF XcclProgram, XcclProgramShort
<1> HIDE DEF loop, c
<1>4. Measures(r, Barrier \o loop, x, x, c)
  BY <1>1, <1>2, LaterOnly
<1>5. Measures(r, Barrier \o loop \o Barrier, x, x, c) /\ Measures(r, Barrier \o loop \o Reduce, x, x, c)
  BY <1>1, <1>2, <1>4, EarlierOnly
<1>6. Measures(r, Barrier \o loop \o Barrier \o Reduce, x, x, c)
  BY <1>1, <1>2, <1>5, EarlierOnly
<1>7. Measures(r, long, x, x, c) /\ Measures(r, short, x, x, c)
  BY <1>1, <1>2, <1>5, <1>6, EarlierOnly
<1> HIDE DEF long, short
<1> QED BY <1>3, <1>7, SizeTimes, OneAndNone DEF c

\* Measuring one call per iteration.
LEMMA TotalOnce ==
    /\ Total(1) = Iters * Len(Sizes) /\ Iters * 1 = Iters /\ Iters * Len(Sizes) \in Nat
BY SizesAre, ItersAssumption DEF Total

\* Every rank of a collective benchmark in Java, in Python or of NCCL.
LEMMA OtherCollectiveMeasures ==
    ASSUME NEW b \in OtherCollectiveBenchmarks, NEW r, NEW v \in BOOLEAN, NEW x \in Alone
    PROVE  Measures(r, OtherCollectiveProgram(b, r, v), x, x, OtherCollectiveReported(b))
<1>0. /\ "all" \in RootedKinds /\ "from_root" \in RootedKinds /\ "to_root" \in RootedKinds
      /\ TRUE \in BOOLEAN /\ (r = 0) \in BOOLEAN
  BY DEF RootedKinds
<1>1. CASE b \in JavaCollective
  <2>1. OtherCollectiveProgram(b, r, v) = JavaCollectiveProgram(b, r, v)
    <3>1. b \notin PythonCollective /\ b \notin XcclCollective
      BY <1>1 DEF JavaCollective, PythonCollective, XcclCollective
    <3> QED BY <1>1, <3>1, Zenon DEF OtherCollectiveProgram
  <2>2. CASE b = "OSUBarrier"
    <3>1. JavaCollectiveProgram(b, r, v) = OSUBarrier
      BY <2>2 DEF JavaCollectiveProgram
    <3>2. OtherCollectiveReported(b) = Iters * 1
      <4>1. b \in {"OSUBarrier", "py_barrier"}
        BY <2>2
      <4> QED BY <4>1, Zenon DEF OtherCollectiveReported
    <3> QED BY <2>1, <3>1, <3>2, OSUBarrierMeasures
  <2>3. CASE b # "OSUBarrier"
    <3>1. \E kind \in RootedKinds : \E checking \in BOOLEAN :
              JavaCollectiveProgram(b, r, v) = JavaProgram(kind, v, checking)
      BY <1>0, <1>1, <2>3
         DEF JavaCollective, JavaCollectiveProgram, OSUAllReduce, OSUAllgather, OSUAllgatherv,
             OSUAlltoall, OSUAlltoallv, OSUBcast, OSUGather, OSUGatherv, OSUReduce,
             OSUReduceScatter, OSUScatter, OSUScatterv
    <3>2. OtherCollectiveReported(b) = Total(1)
      BY <1>1, <2>3, TotalOnce DEF OtherCollectiveReported, JavaCollective
    <3> QED BY <2>1, <3>1, <3>2, JavaProgramMeasures
  <2> QED BY <2>2, <2>3
<1>2. CASE b \in PythonCollective
  <2>1. OtherCollectiveProgram(b, r, v) = PythonCollectiveProgram(b)
    <3>1. b \notin JavaCollective /\ b \notin XcclCollective
      BY <1>2 DEF JavaCollective, PythonCollective, XcclCollective
    <3> QED BY <1>2, <3>1, Zenon DEF OtherCollectiveProgram
  <2>2. CASE b = "py_barrier"
    <3>1. PythonCollectiveProgram(b) = PythonLoop(Barrier)
      BY <2>2 DEF PythonCollectiveProgram, PyBarrier
    <3>2. OtherCollectiveReported(b) = Iters * 1
      <4>1. b \in {"OSUBarrier", "py_barrier"}
        BY <2>2
      <4> QED BY <4>1, Zenon DEF OtherCollectiveReported
    <3>3. Counts(r, Barrier, x, x, 1)
      BY Barriers
    <3> QED BY <2>1, <3>1, <3>2, <3>3, PythonLoopMeasures
  <2>3. CASE b # "py_barrier"
    <3>1. \E kind \in RootedKinds : PythonCollectiveProgram(b) = PythonProgram(kind)
      BY <1>0, <1>2, <2>3
         DEF PythonCollective, PythonCollectiveProgram, PyAllgather, PyAllgatherv, PyAllreduce,
             PyAlltoall, PyAlltoallv, PyReduceScatter, PyBcast, PyScatter, PyScatterv, PyGather,
             PyGatherv, PyReduce
    <3>2. OtherCollectiveReported(b) = Total(1)
      BY <1>2, <2>3, TotalOnce DEF OtherCollectiveReported, PythonCollective
    <3> QED BY <2>1, <3>1, <3>2, PythonProgramMeasures
  <2> QED BY <2>2, <2>3
<1>3. CASE b \in XcclCollective
  <2>1. OtherCollectiveProgram(b, r, v) = XcclCollectiveProgram(b)
    BY <1>3 DEF OtherCollectiveProgram, JavaCollective, PythonCollective, XcclCollective
  <2>2. \E kind \in RootedKinds : XcclCollectiveProgram(b) \in {XcclProgram(kind), XcclProgramShort(kind)}
    BY <1>0, <1>3
       DEF XcclCollective, XcclCollectiveProgram, XcclAllgather, XcclAllreduce, XcclAlltoall,
           XcclReduceScatter, XcclBcast, XcclReduce
  <2>3. OtherCollectiveReported(b) = Total(1)
    BY <1>3, TotalOnce DEF OtherCollectiveReported, XcclCollective
  <2> QED BY <2>1, <2>2, <2>3, XcclProgramMeasures
<1> QED BY <1>1, <1>2, <1>3 DEF OtherCollectiveBenchmarks

-----------------------------------------------------------------------------
(* The one-sided benchmarks in C. *)

SyncKinds == Locking \cup Flushing \cup Active

\* How the access epoch of a rank stands before a loop and within it, when it
\* may use the window, and what a loop leaves.
Fresh(y, x) == x.access = "closed" \/ (y = "fence" /\ x.access = "fence")
Kept(y, z)  == IF y \in Flushing THEN z.access = "lock" ELSE Fresh(y, z)

Held(y, x)   == IF y \in Flushing THEN Accessing(x, "lock") ELSE x
During(y, z) == CASE y \in Locking -> Accessing(z, "lock")
                  [] y \in Flushing -> z
                  [] y = "pscw" -> Accessing(z, "start")
                  [] y = "fence" -> Fencing(z)
After(y, z)  == IF y = "fence" THEN Fencing(z) ELSE z

\* Those states are states in which a rank is alone.
LEMMA AccessStates ==
    ASSUME NEW y \in SyncKinds, NEW z \in Alone
    PROVE  /\ After(y, z) \in Alone /\ After(y, After(y, z)) = After(y, z)
           /\ Held(y, z) \in Alone /\ During(y, z) \in Alone
           /\ Kept(y, z) => Kept(y, After(y, z)) /\ During(y, z).access # "closed"
                            /\ During(y, After(y, z)) = During(y, z)
           /\ Fresh(y, z) => Kept(y, Held(y, z)) /\ Fresh(y, After(y, z))
           /\ y \in Active => (Fresh(y, z) <=> Kept(y, z))
<1>1. y \in {"lock", "lock_all", "flush", "flush_local", "pscw", "fence"}
  BY DEF SyncKinds, Locking, Flushing, Active
<1>2. Fencing(z) \in Alone /\ Fencing(z).access = "fence" /\ Fencing(Fencing(z)) = Fencing(z)
  BY DEF Fencing, Alone, Outside, Locals
<1>3. \A kind \in {"lock", "start"} :
          Accessing(z, kind) \in Alone /\ Accessing(z, kind).access = kind
  BY DEF Accessing, Alone, Outside, Locals
<1>4. CASE y \in Locking
  <2>1. y \notin Flushing /\ y # "fence" /\ y # "pscw" /\ y \notin Active
    BY <1>4 DEF Locking, Flushing, Active
  <2>2. During(y, z) = Accessing(z, "lock") /\ After(y, z) = z /\ Held(y, z) = z
    BY <1>4, <2>1 DEF During, After, Held
  <2> QED BY <1>3, <2>1, <2>2 DEF Kept, Fresh
<1>5. CASE y \in Flushing
  <2>1. y \notin Locking /\ y # "fence" /\ y # "pscw" /\ y \notin Active
    BY <1>5 DEF Locking, Flushing, Active
  <2>2. During(y, z) = z /\ After(y, z) = z /\ Held(y, z) = Accessing(z, "lock")
    BY <1>5, <2>1 DEF During, After, Held, Locking, Flushing
  <2> QED BY <1>3, <1>5, <2>1, <2>2 DEF Kept, Fresh
<1>6. CASE y = "pscw"
  <2>1. y \notin Flushing /\ y \notin Locking /\ y # "fence"
    BY <1>6 DEF Locking, Flushing
  <2>2. During(y, z) = Accessing(z, "start") /\ After(y, z) = z /\ Held(y, z) = z
    BY <1>6, <2>1 DEF During, After, Held
  <2> QED BY <1>3, <2>1, <2>2 DEF Kept, Fresh
<1>7. CASE y = "fence"
  <2>1. y \notin Flushing /\ y \notin Locking /\ y # "pscw"
    BY <1>7 DEF Locking, Flushing
  <2>2. During(y, z) = Fencing(z) /\ After(y, z) = Fencing(z) /\ Held(y, z) = z
    BY <1>7, <2>1 DEF During, After, Held
  <2>3. During(y, Fencing(z)) = Fencing(Fencing(z)) /\ After(y, Fencing(z)) = Fencing(Fencing(z))
    BY <1>7, <2>1 DEF During, After
  <2> QED BY <1>2, <1>7, <2>1, <2>2, <2>3 DEF Kept, Fresh
<1> QED BY <1>1, <1>4, <1>5, <1>6, <1>7 DEF Locking, Flushing

\* What comes before the operations and after them.
LEMMA OpSyncs ==
    ASSUME NEW r, NEW y \in SyncKinds, NEW z \in Alone, Kept(y, z)
    PROVE  /\ Counts(r, OpPreSync(y), z, During(y, z), 0)
           /\ Counts(r, OpPostSync(y), During(y, z), After(y, z), 0)
<1>1. y \in {"lock", "lock_all", "flush", "flush_local", "pscw", "fence"}
  BY DEF SyncKinds, Locking, Flushing, Active
<1>2. CASE y \in Locking
  <2>1. y \notin Flushing /\ y # "fence" /\ y # "pscw"
    BY <1>2 DEF Locking, Flushing
  <2>2. During(y, z) = Accessing(z, "lock") /\ After(y, z) = z /\ z.access = "closed"
    BY <1>2, <2>1 DEF During, After, Kept, Fresh
  <2>3. OpPreSync(y) = OpenEpoch("lock") /\ OpPostSync(y) = CloseEpoch("lock")
    BY <1>2 DEF OpPreSync, OpPostSync, Locking, Flushing
  <2> QED BY <2>2, <2>3, Epochs
<1>3. CASE y \in Flushing
  <2>1. y \notin Locking /\ y # "fence" /\ y # "pscw" /\ y \in {"flush", "flush_local"}
    BY <1>3 DEF Locking, Flushing
  <2>2. During(y, z) = z /\ After(y, z) = z
    BY <1>3, <2>1 DEF During, After
  <2>3. OpPreSync(y) = <<>> /\ \E which \in {"all", "fetched"} : OpPostSync(y) = Flush(which)
    BY <1>3, <2>1 DEF OpPreSync, OpPostSync
  <2> QED BY <2>2, <2>3, Nothing, Harmlessly, AloneOutside
<1>4. CASE y = "pscw"
  <2>1. y \notin Flushing /\ y \notin Locking /\ y # "fence" /\ y # "flush" /\ y # "flush_local"
    BY <1>4 DEF Locking, Flushing
  <2>2. During(y, z) = Accessing(z, "start") /\ After(y, z) = z /\ z.access = "closed"
    BY <1>4, <2>1 DEF During, After, Kept, Fresh
  <2>3. OpPreSync(y) = OpenEpoch("start") /\ OpPostSync(y) = CloseEpoch("start")
    BY <1>4, <2>1 DEF OpPreSync, OpPostSync
  <2> QED BY <2>2, <2>3, Epochs
<1>5. CASE y = "fence"
  <2>1. y \notin Flushing /\ y \notin Locking /\ y # "pscw" /\ y # "flush" /\ y # "flush_local"
    BY <1>5 DEF Locking, Flushing
  <2>2. During(y, z) = Fencing(z) /\ After(y, z) = Fencing(z) /\ z.access \in {"closed", "fence"}
    BY <1>5, <2>1 DEF During, After, Kept, Fresh
  <2>3. OpPreSync(y) = Fence /\ OpPostSync(y) = Fence
    BY <1>5, <2>1 DEF OpPreSync, OpPostSync
  <2>4. Fencing(z) \in Alone /\ Fencing(z).access = "fence" /\ Fencing(Fencing(z)) = Fencing(z)
    BY DEF Fencing, Alone, Outside, Locals
  <2>5. Counts(r, Fence, z, Fencing(z), 0) /\ Counts(r, Fence, Fencing(z), Fencing(z), 0)
    BY <2>2, <2>4, Fences
  <2> QED BY <2>2, <2>3, <2>5
<1> QED BY <1>1, <1>2, <1>3, <1>4, <1>5 DEF Locking, Flushing

\* The lock around the loop of a benchmark that flushes.
LEMMA LoopLocks ==
    ASSUME NEW r, NEW y \in SyncKinds, NEW x \in Alone, Fresh(y, x)
    PROVE  /\ Counts(r, LoopLock(y), x, Held(y, x), 0)
           /\ Counts(r, LoopUnlock(y), After(y, Held(y, x)), After(y, x), 0)
<1>1. CASE y \in Flushing
  <2>1. y # "fence"
    BY <1>1 DEF Flushing
  <2>2. x.access = "closed" /\ Held(y, x) = Accessing(x, "lock")
    BY <1>1, <2>1 DEF Held, Fresh
  <2>3. After(y, Held(y, x)) = Accessing(x, "lock") /\ After(y, x) = x
    BY <2>1, <2>2 DEF After
  <2>4. LoopLock(y) = OpenEpoch("lock") /\ LoopUnlock(y) = CloseEpoch("lock")
    BY <1>1 DEF LoopLock, LoopUnlock, Given
  <2> QED BY <2>2, <2>3, <2>4, Epochs
<1>2. CASE y \notin Flushing
  <2>1. LoopLock(y) = <<>> /\ LoopUnlock(y) = <<>> /\ Held(y, x) = x
    BY <1>2 DEF LoopLock, LoopUnlock, Given, Held
  <2> QED BY <2>1, Nothing
<1> QED BY <1>1, <1>2

\* The empty sequence adds nothing on either side.
LEMMA EmptyBefore == \A s \in Seq(Calls) : <<>> \o s = s /\ s \o <<>> = s
OBVIOUS

\* The target's part of an epoch, and the answer.
LEMMA Answers ==
    ASSUME NEW r, NEW y \in SyncKinds, NEW z \in Alone, NEW p \in Nat
    PROVE  /\ Fresh(y, z) => /\ Counts(r, NonOpPreSync(y), z, After(y, z), 0)
                             /\ Counts(r, NonOpPostSync(y, p), After(y, z), After(y, z), 0)
           /\ Kept(y, z) => Counts(r, Ping(y, p), After(y, z), After(y, z), 0)
<1>1. z \in Outside /\ Counts(r, Post, z, z, 0) /\ Counts(r, Await(p), z, z, 0)
  BY AloneOutside, Harmlessly
<1>2. Counts(r, <<>>, z, z, 0)
  BY Nothing
<1>3. CASE y = "fence"
  <2>1. After(y, z) = Fencing(z) /\ y # "pscw" /\ y \notin Flushing
    BY <1>3 DEF After, Flushing
  <2>2. Fencing(z) \in Alone /\ Fencing(z).access = "fence" /\ Fencing(Fencing(z)) = Fencing(z)
    BY DEF Fencing, Alone, Outside, Locals
  <2>3. /\ Fresh(y, z) => Counts(r, Fence, z, Fencing(z), 0)
        /\ Counts(r, Fence, Fencing(z), Fencing(z), 0)
    BY <2>2, Fences DEF Fresh
  <2>4. Counts(r, <<>>, Fencing(z), Fencing(z), 0)
    BY Nothing
  <2>5. /\ NonOpPreSync(y) = <<>> \o Fence /\ NonOpPostSync(y, p) = <<>> \o Fence
        /\ Ping(y, p) = <<>> \o Fence
    BY <1>3, <2>1 DEF NonOpPreSync, NonOpPostSync, Ping, Given
  <2> QED BY <1>2, <2>1, <2>3, <2>4, <2>5, StillOn
<1>4. CASE y = "pscw"
  <2>1. After(y, z) = z /\ y # "fence"
    BY <1>4 DEF After
  <2>2. /\ NonOpPreSync(y) = Post \o <<>> /\ NonOpPostSync(y, p) = Await(p) \o <<>>
        /\ Ping(y, p) = (Post \o Await(p)) \o <<>>
    BY <1>4, <2>1 DEF NonOpPreSync, NonOpPostSync, Ping, Given
  <2>3. Counts(r, Post \o Await(p), z, z, 0)
    BY <1>1, StillOn
  <2> QED BY <1>1, <1>2, <2>1, <2>2, <2>3, StillOn
<1>5. CASE y # "pscw" /\ y # "fence"
  <2>1. After(y, z) = z
    BY <1>5 DEF After
  <2>2. /\ NonOpPreSync(y) = <<>> \o <<>> /\ NonOpPostSync(y, p) = <<>> \o <<>>
        /\ Ping(y, p) = <<>> \o <<>>
    BY <1>5 DEF NonOpPreSync, NonOpPostSync, Ping, Given
  <2> QED BY <1>2, <2>1, <2>2, StillOn
<1> QED BY <1>3, <1>4, <1>5

\* What a rank of osu_put_bibw does around its operations.
LEMMA BibwSyncs ==
    ASSUME NEW r, NEW y \in Active, NEW z \in Alone, Kept(y, z), NEW p \in Nat
    PROVE  /\ Counts(r, BibwPreSync(y), z, During(y, z), 0)
           /\ Counts(r, BibwPostSync(y, p), During(y, z), After(y, z), 0)
<1>0. y \in SyncKinds /\ y \in {"pscw", "fence"}
  BY DEF SyncKinds, Active
<1>1. /\ z \in Outside /\ Counts(r, Post, z, z, 0) /\ Counts(r, Await(p), z, z, 0)
      /\ Counts(r, OpPreSync(y), z, During(y, z), 0)
      /\ Counts(r, OpPostSync(y), During(y, z), After(y, z), 0)
  BY <1>0, AloneOutside, Harmlessly, OpSyncs
<1>2. \A u : Counts(r, <<>>, u, u, 0)
  BY Nothing
<1>3. CASE y = "fence"
  <2>1. y # "pscw" /\ y \notin Locking \cup Flushing
    BY <1>3 DEF Locking, Flushing
  <2>2. BibwPreSync(y) = <<>> \o OpPreSync(y) /\ BibwPostSync(y, p) = <<>> \o OpPostSync(y)
    BY <1>3, <2>1 DEF BibwPreSync, BibwPostSync, OpPreSync, OpPostSync, Given
  <2> QED BY <1>1, <1>2, <2>2, StillOn
<1>4. CASE y = "pscw"
  <2>1. y # "fence" /\ y \notin Locking \cup Flushing /\ y # "flush" /\ y # "flush_local"
    BY <1>4 DEF Locking, Flushing
  <2>2. /\ BibwPreSync(y) = (Post \o OpPreSync(y)) \o <<>>
        /\ BibwPostSync(y, p) = (OpPostSync(y) \o Await(p)) \o <<>>
    BY <1>4, <2>1 DEF BibwPreSync, BibwPostSync, OpPreSync, OpPostSync, Given
  <2>3. After(y, z) = z
    BY <2>1 DEF After
  <2>4. Counts(r, Post \o OpPreSync(y), z, During(y, z), 0)
    BY <1>1, StillOn
  <2>5. Counts(r, OpPostSync(y) \o Await(p), During(y, z), After(y, z), 0)
    BY <1>1, <2>3, StillOn
  <2> QED BY <1>2, <2>2, <2>4, <2>5, StillOn
<1> QED BY <1>0, <1>3, <1>4

\* Operations in an epoch.
LEMMA Operations ==
    ASSUME NEW r, NEW b, NEW p \in Nat, NEW z \in Alone, z.access # "closed", NEW n \in Nat
    PROVE  /\ Counts(r, OpPtr(b, p), z, z, 1)
           /\ Counts(r, Times(n, OpPtr(b, p)), z, z, n)
<1> DEFINE fetch == b \notin {"osu_put_bw", "osu_put_bibw", "osu_put_latency", "osu_acc_latency"}
<1>1. fetch \in BOOLEAN /\ z \in Outside /\ TRUE \in BOOLEAN
  BY AloneOutside
<1>2. OpPtr(b, p) = RmaWithin(p, fetch, TRUE)
  BY DEF OpPtr, Rma
<1> HIDE DEF fetch
<1>3. Counts(r, OpPtr(b, p), z, z, 1)
  BY <1>1, <1>2, Accesses
<1> QED BY <1>3, OneEach

\* The answer of osu_put_latency and its relatives.
LEMMA Pongs ==
    ASSUME NEW r, NEW y \in SyncKinds, NEW z \in Alone, Fresh(y, z), NEW b, NEW p \in Nat
    PROVE  Measures(r, Pong(y, OpPtr(b, p)), After(y, z), After(y, z), 0)
<1> DEFINE op == OpPtr(b, p)
<1>1. \A u : Measures(r, <<>>, u, u, 0)
  BY Nothing
<1>2. CASE y = "fence"
  <2>1. After(y, z) = Fencing(z) /\ y # "pscw" /\ y \notin Locking \cup Flushing
        /\ y # "flush" /\ y # "flush_local"
    BY <1>2 DEF After, Flushing, Locking
  <2>2. Fencing(z) \in Alone /\ Fencing(z).access = "fence" /\ Fencing(Fencing(z)) = Fencing(z)
    BY DEF Fencing, Alone, Outside, Locals
  <2>3. Counts(r, Fence, Fencing(z), Fencing(z), 0) /\ Counts(r, op, Fencing(z), Fencing(z), 1)
    BY <2>2, Fences, Operations, OneAndNone
  <2> HIDE DEF op
  <2>4. Measures(r, op \o Fence, Fencing(z), Fencing(z), 0)
    BY <2>3, CountsAtRest, CalmOn, OneAndNone
  <2>5. Pong(y, op) = <<>> \o (op \o Fence)
    BY <1>2, <2>1 DEF Pong, OpPostSync, Given
  <2> QED BY <1>1, <2>1, <2>4, <2>5, CalmOn DEF op
<1>3. CASE y = "pscw"
  <2>1. After(y, z) = z /\ y # "fence" /\ Kept(y, z)
    BY <1>3 DEF After, Kept, Flushing
  <2>2. During(y, z) \in Alone /\ During(y, z).access # "closed"
    BY <2>1, AccessStates
  <2>3. /\ Counts(r, OpPreSync(y), z, During(y, z), 0)
        /\ Counts(r, op, During(y, z), During(y, z), 1)
        /\ Counts(r, OpPostSync(y), During(y, z), z, 0)
    BY <2>1, <2>2, Operations, OpSyncs, OneAndNone
  <2> HIDE DEF op
  <2>4. Measures(r, OpPreSync(y) \o op \o OpPostSync(y), z, z, 0)
    BY <2>3, CountsAtRest, CalmOn, OneAndNone
  <2>5. Pong(y, op) = (OpPreSync(y) \o op \o OpPostSync(y)) \o <<>>
    BY <1>3, <2>1 DEF Pong, Given
  <2> QED BY <1>1, <2>1, <2>4, <2>5, CalmOn DEF op
<1>4. CASE y # "pscw" /\ y # "fence"
  <2>1. Pong(y, op) = <<>> \o <<>>
    BY <1>4 DEF Pong, Given
  <2> QED BY <1>1, <2>1, CalmOn
<1> QED BY <1>2, <1>3, <1>4

\* One iteration: b starts the clock, s is what is measured.
LEMMA OpTurn ==
    ASSUME NEW r, NEW y \in SyncKinds, NEW z \in Alone, Kept(y, z), NEW i, NEW b, NEW s,
           NEW c \in Nat, Begins(r, b, z, z, 0, i), Counts(r, s, During(y, z), During(y, z), c)
    PROVE  Begins(r, b \o OpPreSync(y) \o s \o OpPostSync(y), z, After(y, z), c, i)
<1> DEFINE u == During(y, z)
           e == After(y, z)
<1>1. Counts(r, OpPreSync(y), z, u, 0) /\ Counts(r, OpPostSync(y), u, e, 0)
  BY OpSyncs
<1>2. 0 \in Nat /\ 0 + c = c
  OBVIOUS
<1> HIDE DEF u, e
<1>3. Begins(r, b \o OpPreSync(y), z, u, 0, i)
  BY <1>1, <1>2, BeginsStill
<1>4. Begins(r, b \o OpPreSync(y) \o s, z, u, c, i)
  BY <1>2, <1>3, BeginsThen DEF u
<1>5. Begins(r, b \o OpPreSync(y) \o s \o OpPostSync(y), z, e, c, i)
  BY <1>1, <1>4, BeginsStill
<1> QED BY <1>5 DEF e

\* What the origin does of a size, body being the lock and the loop.
LEMMA OriginSize ==
    ASSUME NEW r, NEW y \in SyncKinds, NEW x \in Alone, Fresh(y, x), NEW n \in Nat, NEW body,
           Runs(r, body, x, After(y, Held(y, x)), n)
    PROVE  Measures(r, Barrier \o (body \o StopClock \o Sample \o LoopUnlock(y)) \o Barrier,
                    x, After(y, x), n)
<1> DEFINE h == After(y, Held(y, x))
           e == After(y, x)
<1>1. h \in Alone /\ h \in Outside /\ e \in Alone
  BY AccessStates, AloneOutside
<1>2. Measures(r, LoopUnlock(y), h, e, 0)
  BY LoopLocks, CountsAtRest, OneAndNone
<1>3. Measures(r, Barrier, x, x, 0) /\ Measures(r, Barrier, e, e, 0)
  BY <1>1, Barriers, CountsAtRest, OneAndNone
<1> HIDE DEF h, e
<1>4. Measures(r, body \o StopClock \o Sample, x, h, n)
  BY <1>1, Stopping, Sampling DEF h
<1>5. Measures(r, body \o StopClock \o Sample \o LoopUnlock(y), x, e, n)
  BY <1>2, <1>4, EarlierOnly
<1> DEFINE t == body \o StopClock \o Sample \o LoopUnlock(y)
<1>6. Measures(r, t, x, e, n)
  BY <1>5
<1> HIDE DEF t
<1>7. Measures(r, Barrier \o t, x, e, n)
  BY <1>3, <1>6, LaterOnly
<1>8. Measures(r, Barrier \o t \o Barrier, x, e, n)
  BY <1>3, <1>7, EarlierOnly
<1> QED BY <1>8 DEF t, e

\* The loop of the origin, whose rounds end with what the benchmark adds.
LEMMA OriginLoop ==
    ASSUME NEW r, NEW y \in SyncKinds, NEW x \in Alone, Fresh(y, x), NEW c \in Nat, NEW inner,
           IsLoop(inner, Len(Iterations)), NEW mid,
           Measures(r, mid, Held(y, x), Held(y, x), 0),
           \A z \in Alone : Kept(y, z) => \A k \in 1 .. Len(Iterations) :
               Begins(r, inner[k], z, After(y, z), c, Iterations[k])
    PROVE  /\ Runs(r, LoopLock(y) \o FlattenSeq(inner), x, After(y, Held(y, x)), Iters * c)
           /\ Runs(r, LoopLock(y) \o mid \o FlattenSeq(inner), x, After(y, Held(y, x)), Iters * c)
<1> DEFINE z == Held(y, x)
           h == After(y, z)
<1>1. z \in Alone /\ Kept(y, z)
  BY AccessStates
<1>2. h \in Alone /\ Kept(y, h) /\ After(y, h) = h
  BY <1>1, AccessStates
<1>3. Measures(r, LoopLock(y), x, z, 0)
  BY LoopLocks, CountsAtRest, OneAndNone
<1>4. \A k \in 1 .. Len(Iterations) :
          Begins(r, inner[k], z, h, c, Iterations[k]) /\ Begins(r, inner[k], h, h, c, Iterations[k])
  BY <1>1, <1>2
<1>9. Measures(r, mid, z, z, 0)
  OBVIOUS
<1> HIDE DEF z, h
<1>5. Runs(r, FlattenSeq(inner), z, h, Iters * c)
  BY <1>4, StartedLoop
<1>6. Measures(r, LoopLock(y) \o mid, x, z, 0)
  BY <1>3, <1>9, CalmOn
<1>7. /\ Runs(r, LoopLock(y) \o FlattenSeq(inner), x, h, Iters * c)
      /\ Runs(r, LoopLock(y) \o mid \o FlattenSeq(inner), x, h, Iters * c)
  BY <1>3, <1>5, <1>6, RunsAfter
<1> QED BY <1>7 DEF h, z

\* What the target does of a size.
LEMMA TargetSize ==
    ASSUME NEW r, NEW y \in SyncKinds, NEW x \in Alone, Fresh(y, x), NEW body,
           Measures(r, body, x, After(y, x), 0)
    PROVE  Measures(r, Barrier \o body \o Barrier, x, After(y, x), 0)
<1> DEFINE e == After(y, x)
<1>1. e \in Alone
  BY AccessStates
<1>2. Measures(r, Barrier, x, x, 0) /\ Measures(r, Barrier, e, e, 0)
  BY <1>1, Barriers, CountsAtRest, OneAndNone
<1> HIDE DEF e
<1>3. Measures(r, body, x, e, 0)
  BY DEF e
<1>4. Measures(r, Barrier \o body \o Barrier, x, e, 0)
  BY <1>2, <1>3, CalmOn
<1> QED BY <1>4 DEF e

\* A loop of the target.
LEMMA TargetLoop ==
    ASSUME NEW r, NEW y \in SyncKinds, NEW x \in Alone, Fresh(y, x), NEW inner,
           IsLoop(inner, Turns),
           \A z \in Alone : Fresh(y, z) => \A k \in 1 .. Turns :
               Measures(r, inner[k], z, After(y, z), 0)
    PROVE  Measures(r, FlattenSeq(inner), x, After(y, x), 0)
<1> DEFINE e == After(y, x)
<1>1. e \in Alone /\ Fresh(y, e) /\ After(y, e) = e
  BY AccessStates
<1>2. \A k \in 1 .. Turns : Measures(r, inner[k], x, e, 0) /\ Measures(r, inner[k], e, e, 0)
  BY <1>1
<1> HIDE DEF e
<1>3. \A k \in 1 .. Turns : inner[k] \in Seq(Calls)
  BY <1>2, AreCalls
<1>4. inner \in Seq(Seq(Calls)) /\ Len(inner) = Turns /\ Turns # 0
  BY <1>3, LoopType, TurnsType
<1>5. Measures(r, FlattenSeq(inner), x, e, Len(inner) * 0)
  BY <1>2, <1>4, MeasuresEach, OneAndNone
<1>6. Len(inner) * 0 = 0
  BY <1>4, TurnsType
<1> QED BY <1>5, <1>6 DEF e

\* Nor does it over all sizes.
LEMMA TargetTimes ==
    ASSUME NEW r, NEW y \in SyncKinds, NEW x \in Alone, Fresh(y, x), NEW s,
           \A z \in Alone : Fresh(y, z) => Measures(r, s, z, After(y, z), 0)
    PROVE  Measures(r, Times(Skip + Iters, s), x, After(y, x), 0)
<1> DEFINE inner == [k \in 1 .. Turns |-> s]
<1>1. IsLoop(inner, Turns) /\ \A k \in 1 .. Turns : inner[k] = s
  BY DEF IsLoop
<1>2. Times(Skip + Iters, s) = FlattenSeq(inner)
  BY DEF Times, Turns
<1> HIDE DEF inner
<1> QED BY <1>1, <1>2, TargetLoop

\* The target, for every way of synchronising.
LEMMA Targets ==
    ASSUME NEW r, NEW y \in SyncKinds, NEW z \in Alone, Fresh(y, z), NEW p \in Nat, NEW b
    PROVE  /\ Measures(r, NonOpPreSync(y) \o NonOpPostSync(y, p), z, After(y, z), 0)
           /\ Measures(r, NonOpPreSync(y) \o NonOpPostSync(y, p) \o Pong(y, OpPtr(b, p)),
                       z, After(y, z), 0)
<1> DEFINE e == After(y, z)
<1>1. Measures(r, NonOpPreSync(y), z, e, 0) /\ Measures(r, NonOpPostSync(y, p), e, e, 0)
  BY Answers, CountsAtRest, OneAndNone
<1>2. Measures(r, Pong(y, OpPtr(b, p)), e, e, 0)
  BY Pongs
<1> HIDE DEF e
<1>3. Measures(r, NonOpPreSync(y) \o NonOpPostSync(y, p), z, e, 0)
  BY <1>1, CalmOn
<1>4. Measures(r, NonOpPreSync(y) \o NonOpPostSync(y, p) \o Pong(y, OpPtr(b, p)), z, e, 0)
  BY <1>2, <1>3, CalmOn
<1> QED BY <1>3, <1>4 DEF e

\* What a rank does of a size of a one-sided benchmark.
Sided(r, s, y, x, n) == Measures(r, s, x, After(y, x), IF r = 0 THEN Iters * n ELSE 0)

\* The bandwidth benchmarks: a window of operations in each iteration.
LEMMA BwMeasures ==
    ASSUME NEW b, NEW r, NEW y \in SyncKinds, NEW x \in Alone, Fresh(y, x), NEW p \in Nat, NEW n \in Nat
    PROVE  Sided(r, RunOpBw(y, r, p, OpPtr(b, p), n), y, x, n)
<1> DEFINE op == OpPtr(b, p)
           inner == [k \in 1 .. Len(Iterations) |->
                        StartOnce(Iterations[k]) \o OpPreSync(y) \o Times(n, op) \o OpPostSync(y)]
           s == NonOpPreSync(y) \o NonOpPostSync(y, p)
<1>1. CASE r = 0
  <2>1. RunOpBw(y, r, p, op, n)
            = Barrier \o (LoopLock(y) \o FlattenSeq(inner) \o StopClock \o Sample \o LoopUnlock(y))
                      \o Barrier
    BY <1>1 DEF RunOpBw, ForEach
  <2>2. IsLoop(inner, Len(Iterations))
    BY DEF IsLoop
  <2>3. ASSUME NEW z \in Alone, Kept(y, z), NEW k \in 1 .. Len(Iterations)
        PROVE  Begins(r, inner[k], z, After(y, z), n, Iterations[k])
    <3> DEFINE i == Iterations[k]
    <3>1. i \in Nat /\ inner[k] = StartOnce(i) \o OpPreSync(y) \o Times(n, op) \o OpPostSync(y)
      BY IterationsAre
    <3>2. During(y, z) \in Alone /\ During(y, z).access # "closed" /\ z \in Outside
      BY <2>3, AccessStates, AloneOutside
    <3>3. Counts(r, Times(n, op), During(y, z), During(y, z), n)
      BY <3>2, Operations
    <3> HIDE DEF i, op, inner
    <3>4. Begins(r, StartOnce(i), z, z, 0, i)
      BY <3>1, <3>2, StartOnceBegins
    <3> QED BY <2>3, <3>1, <3>3, <3>4, OpTurn DEF i
  <2>4. Measures(r, <<>>, Held(y, x), Held(y, x), 0) /\ Iters * n \in Nat
    BY Nothing, RoundType
  <2> HIDE DEF inner, op
  <2>5. Runs(r, LoopLock(y) \o FlattenSeq(inner), x, After(y, Held(y, x)), Iters * n)
    BY <2>2, <2>3, <2>4, OriginLoop
  <2> QED BY <1>1, <2>1, <2>4, <2>5, OriginSize DEF Sided, op
<1>2. CASE r # 0
  <2>1. RunOpBw(y, r, p, op, n) = Barrier \o Times(Skip + Iters, s) \o Barrier
    BY <1>2 DEF RunOpBw
  <2>2. \A z \in Alone : Fresh(y, z) => Measures(r, s, z, After(y, z), 0)
    BY Targets
  <2> HIDE DEF s, op
  <2>3. Measures(r, Times(Skip + Iters, s), x, After(y, x), 0)
    BY <2>2, TargetTimes
  <2> QED BY <1>2, <2>1, <2>3, TargetSize DEF Sided, op
<1> QED BY <1>1, <1>2

\* A latency: the loop with the answer, b being what precedes the epoch.
LEMMA LatTurn ==
    ASSUME NEW r, NEW y \in SyncKinds, NEW z \in Alone, Kept(y, z), NEW i, NEW b, NEW p \in Nat,
           NEW s, Begins(r, s, z, z, 0, i)
    PROVE  Begins(r, s \o OpPreSync(y) \o OpPtr(b, p) \o OpPostSync(y) \o Ping(y, p),
                  z, After(y, z), 1, i)
<1>1. During(y, z) \in Alone /\ During(y, z).access # "closed"
  BY AccessStates
<1>2. Counts(r, OpPtr(b, p), During(y, z), During(y, z), 1)
  BY <1>1, Operations, OneAndNone
<1>3. Begins(r, s \o OpPreSync(y) \o OpPtr(b, p) \o OpPostSync(y), z, After(y, z), 1, i)
  BY <1>2, OpTurn, OneAndNone
<1>4. Counts(r, Ping(y, p), After(y, z), After(y, z), 0)
  BY Answers
<1> QED BY <1>3, <1>4, BeginsStill, OneAndNone

\* The latency benchmarks.
LEMMA LatMeasures ==
    ASSUME NEW b, NEW r, NEW y \in SyncKinds, NEW x \in Alone, Fresh(y, x), NEW p \in Nat
    PROVE  Sided(r, RunOpLat(y, r, p, OpPtr(b, p)), y, x, 1)
<1> DEFINE op == OpPtr(b, p)
           inner == [k \in 1 .. Len(Iterations) |->
                        StartOnce(Iterations[k]) \o OpPreSync(y) \o op \o OpPostSync(y) \o Ping(y, p)]
           s == NonOpPreSync(y) \o NonOpPostSync(y, p) \o Pong(y, op)
<1>1. CASE r = 0
  <2>1. RunOpLat(y, r, p, op)
            = Barrier \o (LoopLock(y) \o FlattenSeq(inner) \o StopClock \o Sample \o LoopUnlock(y))
                      \o Barrier
    BY <1>1 DEF RunOpLat, ForEach
  <2>2. IsLoop(inner, Len(Iterations))
    BY DEF IsLoop
  <2>3. ASSUME NEW z \in Alone, Kept(y, z), NEW k \in 1 .. Len(Iterations)
        PROVE  Begins(r, inner[k], z, After(y, z), 1, Iterations[k])
    <3> DEFINE i == Iterations[k]
    <3>1. i \in Nat
          /\ inner[k] = StartOnce(i) \o OpPreSync(y) \o op \o OpPostSync(y) \o Ping(y, p)
      BY IterationsAre
    <3> HIDE DEF i, inner
    <3>2. Begins(r, StartOnce(i), z, z, 0, i)
      BY <3>1, StartOnceBegins, AloneOutside
    <3> QED BY <2>3, <3>1, <3>2, LatTurn DEF i
  <2>4. Measures(r, <<>>, Held(y, x), Held(y, x), 0) /\ Iters * 1 \in Nat
    BY Nothing, RoundType, OneAndNone
  <2> HIDE DEF inner, op
  <2>5. Runs(r, LoopLock(y) \o FlattenSeq(inner), x, After(y, Held(y, x)), Iters * 1)
    BY <2>2, <2>3, <2>4, OriginLoop, OneAndNone
  <2> QED BY <1>1, <2>1, <2>4, <2>5, OriginSize DEF Sided, op
<1>2. CASE r # 0
  <2>1. RunOpLat(y, r, p, op) = Barrier \o Times(Skip + Iters, s) \o Barrier
    BY <1>2 DEF RunOpLat
  <2>2. \A z \in Alone : Fresh(y, z) => Measures(r, s, z, After(y, z), 0)
    BY Targets
  <2> HIDE DEF s, op
  <2>3. Measures(r, Times(Skip + Iters, s), x, After(y, x), 0)
    BY <2>2, TargetTimes
  <2> QED BY <1>2, <2>1, <2>3, TargetSize DEF Sided, op
<1> QED BY <1>1, <1>2

\* osu_put_bibw: both ranks access each other.
LEMMA BibwMeasures ==
    ASSUME NEW b, NEW r, NEW y \in Active, NEW x \in Alone, Fresh(y, x), NEW p \in Nat, NEW n \in Nat
    PROVE  Sided(r, RunOpBibw(y, r, p, OpPtr(b, p), n), y, x, n)
<1> DEFINE op == OpPtr(b, p)
           turn == BibwPreSync(y) \o Times(n, op) \o BibwPostSync(y, p)
           first == [k \in 1 .. Len(Iterations) |-> StartOnce(Iterations[k]) \o turn]
           second == [k \in 1 .. Len(Iterations) |-> turn]
<1>0. y \in SyncKinds /\ y \notin Flushing
  BY DEF SyncKinds, Active, Flushing
<1>1. ASSUME NEW z \in Alone, Kept(y, z)
      PROVE  Counts(r, turn, z, After(y, z), n)
  <2> DEFINE u == During(y, z)
             e == After(y, z)
  <2>1. u \in Alone /\ u.access # "closed"
    BY <1>0, <1>1, AccessStates
  <2>2. Counts(r, Times(n, op), u, u, n)
    BY <2>1, Operations
  <2>3. Counts(r, BibwPreSync(y), z, u, 0) /\ Counts(r, BibwPostSync(y, p), u, e, 0)
    BY <1>1, BibwSyncs
  <2> HIDE DEF op, u, e
  <2>4. 0 + n = n /\ n + 0 = n /\ 0 \in Nat
    OBVIOUS
  <2>5. Counts(r, BibwPreSync(y) \o Times(n, op), z, u, n)
    BY <2>2, <2>3, <2>4, CountsOn
  <2>6. Counts(r, turn, z, e, n)
    BY <2>3, <2>4, <2>5, CountsOn
  <2> QED BY <2>6 DEF e
<1>2. IsLoop(first, Len(Iterations)) /\ IsLoop(second, Turns)
  BY IterationsAre DEF IsLoop
<1>3. CASE r = 0
  <2>1. RunOpBibw(y, r, p, op, n)
            = Barrier \o (FlattenSeq(first) \o StopClock \o Sample) \o Barrier
    BY <1>3 DEF RunOpBibw, ForEach
  <2>2. \A k \in 1 .. Len(Iterations) : Iterations[k] \in Nat /\ first[k] = StartOnce(Iterations[k]) \o turn
    BY IterationsAre
  <2> HIDE DEF first, turn, op
  <2>3. ASSUME NEW z \in Alone, Kept(y, z), NEW k \in 1 .. Len(Iterations)
        PROVE  Begins(r, first[k], z, After(y, z), n, Iterations[k])
    <3> DEFINE i == Iterations[k]
    <3>1. i \in Nat /\ first[k] = StartOnce(i) \o turn /\ 0 + n = n /\ 0 \in Nat
      BY <2>2
    <3>2. Begins(r, StartOnce(i), z, z, 0, i)
      BY <3>1, StartOnceBegins, AloneOutside
    <3>3. Begins(r, StartOnce(i) \o turn, z, After(y, z), n, i)
      BY <1>1, <2>3, <3>1, <3>2, BeginsThen
    <3> QED BY <3>1, <3>3
  <2>4. LoopLock(y) = <<>> /\ LoopUnlock(y) = <<>>
    BY <1>0 DEF LoopLock, LoopUnlock, Given
  <2>5. Measures(r, <<>>, Held(y, x), Held(y, x), 0) /\ Iters * n \in Nat
    BY Nothing, RoundType
  <2>6. Runs(r, LoopLock(y) \o FlattenSeq(first), x, After(y, Held(y, x)), Iters * n)
    BY <1>0, <1>2, <2>3, <2>5, OriginLoop
  <2>7. FlattenSeq(first) \in Seq(Calls)
    <3>1. \A k \in 1 .. Len(Iterations) : first[k] \in Seq(Calls)
      <4> SUFFICES ASSUME NEW k \in 1 .. Len(Iterations) PROVE first[k] \in Seq(Calls)
        OBVIOUS
      <4>1. x \in Alone /\ Kept(y, x) /\ Iterations[k] \in Int
        BY <1>0, <2>2 DEF Kept
      <4> QED BY <2>3, <4>1, AreCalls
    <3>2. first \in Seq(Seq(Calls))
      BY <1>2, <3>1, LoopType, IterationsAre, TurnsType
    <3> QED BY <3>2, FlattenIn
  <2>8. /\ LoopLock(y) \o FlattenSeq(first) = FlattenSeq(first)
        /\ FlattenSeq(first) \o StopClock \o Sample \in Seq(Calls)
    <3>1. [op |-> "stop"] \in Calls /\ [op |-> "sample"] \in Calls
      BY DEF Calls, Plain
    <3>2. StopClock \in Seq(Calls) /\ Sample \in Seq(Calls)
      BY <3>1 DEF StopClock, Sample
    <3>3. LoopLock(y) \o FlattenSeq(first) = FlattenSeq(first)
      BY <2>4, <2>7, EmptyBefore
    <3>4. FlattenSeq(first) \o StopClock \in Seq(Calls)
      BY <2>7, <3>2
    <3> QED BY <3>2, <3>3, <3>4
  <2>9. FlattenSeq(first) \o StopClock \o Sample \o LoopUnlock(y) = FlattenSeq(first) \o StopClock \o Sample
    BY <2>4, <2>8, EmptyBefore
  <2> QED BY <1>0, <1>3, <2>1, <2>5, <2>6, <2>8, <2>9, OriginSize DEF Sided, op
<1>4. CASE r # 0
  <2>1. RunOpBibw(y, r, p, op, n) = Barrier \o FlattenSeq(second) \o Barrier
    BY <1>4 DEF RunOpBibw, ForEach
  <2>2. \A k \in 1 .. Turns : second[k] = turn
    BY IterationsAre
  <2> HIDE DEF second, turn, op
  <2>3. ASSUME NEW z \in Alone, Fresh(y, z) PROVE Measures(r, turn, z, After(y, z), 0)
    <3>1. Kept(y, z)
      BY <1>0, <2>3 DEF Kept
    <3> QED BY <1>1, <3>1, CountsAtRest
  <2>4. Measures(r, FlattenSeq(second), x, After(y, x), 0)
    BY <1>0, <1>2, <2>2, <2>3, TargetLoop
  <2> QED BY <1>0, <1>4, <2>1, <2>4, TargetSize DEF Sided, op
<1> QED BY <1>3, <1>4

\* A reply and its barrier, with -c.
LEMMA Flags ==
    ASSUME NEW r, NEW x \in Alone, NEW p \in Nat
    PROVE  /\ Counts(r, Sync \o Recv(p, "flag", ReplySize), x, x, 0)
           /\ Counts(r, Sync \o Touch \o Send(p, "flag", ReplySize), x, x, 0)
           /\ Counts(r, Touch, x, x, 0)
<1>1. "flag" \in Tags /\ 1 \in Nat \ {0} /\ x \in Outside
  BY AloneOutside DEF Tags
<1>2. /\ Counts(r, Recv(p, "flag", ReplySize), x, x, 0)
      /\ Counts(r, Send(p, "flag", ReplySize), x, x, 0)
  BY <1>1, Transfers
<1>3. Counts(r, Sync, x, x, 0) /\ Counts(r, Touch, x, x, 0)
  BY <1>1, Barriers, Harmlessly
<1> QED BY <1>2, <1>3, StillOn

\* The accumulate benchmarks.
LEMMA AccMeasures ==
    ASSUME NEW b, NEW r, NEW y \in SyncKinds, NEW x \in Alone, Fresh(y, x), NEW p \in Nat,
           NEW v \in BOOLEAN
    PROVE  Sided(r, RunOpAcc(y, r, p, OpPtr(b, p), v), y, x, 1)
<1> DEFINE op == OpPtr(b, p)
           inner == [k \in 1 .. Len(Iterations) |->
                        StartOnce(Iterations[k]) \o OpPreSync(y) \o op \o OpPostSync(y) \o Ping(y, p)]
           s == NonOpPreSync(y) \o NonOpPostSync(y, p) \o Pong(y, op)
           mid == Given(v, Barrier)
           end == Given(v, Sync \o Recv(p, "flag", ReplySize))
           before == Given(v, Touch \o Barrier)
           tail == Given(v, Sync \o Touch \o Send(p, "flag", ReplySize))
<1>1. CASE r = 0
  <2> DEFINE h == After(y, Held(y, x))
  <2>1. RunOpAcc(y, r, p, op, v)
            = Barrier \o (LoopLock(y) \o mid \o FlattenSeq(inner) \o end \o StopClock \o Sample
                            \o LoopUnlock(y))
                      \o Barrier
    BY <1>1 DEF RunOpAcc, ForEach
  <2>2. IsLoop(inner, Len(Iterations))
    BY DEF IsLoop
  <2>3. ASSUME NEW z \in Alone, Kept(y, z), NEW k \in 1 .. Len(Iterations)
        PROVE  Begins(r, inner[k], z, After(y, z), 1, Iterations[k])
    <3> DEFINE i == Iterations[k]
    <3>1. i \in Nat
          /\ inner[k] = StartOnce(i) \o OpPreSync(y) \o op \o OpPostSync(y) \o Ping(y, p)
      BY IterationsAre
    <3> HIDE DEF i, inner
    <3>2. Begins(r, StartOnce(i), z, z, 0, i)
      BY <3>1, StartOnceBegins, AloneOutside
    <3> QED BY <2>3, <3>1, <3>2, LatTurn DEF i
  <2>4. Held(y, x) \in Alone /\ h \in Alone /\ Iters * 1 \in Nat
    BY AccessStates, RoundType, OneAndNone
  <2>5. Measures(r, mid, Held(y, x), Held(y, x), 0)
    BY <2>4, Barriers, CountsAtRest, GivenCalls, OneAndNone
  <2>6. Counts(r, end, h, h, 0)
    BY <2>4, Flags, GivenCalls
  <2> HIDE DEF inner, op, mid, end, h
  <2>7. Runs(r, LoopLock(y) \o mid \o FlattenSeq(inner), x, h, Iters * 1)
    BY <2>2, <2>3, <2>5, OriginLoop, OneAndNone DEF h
  <2>8. Iters * 1 + 0 = Iters * 1 /\ 0 \in Nat
    BY <2>4
  <2>9. Runs(r, LoopLock(y) \o mid \o FlattenSeq(inner) \o end, x, h, Iters * 1)
    BY <2>4, <2>6, <2>7, <2>8, RunsOn
  <2> QED BY <1>1, <2>1, <2>4, <2>9, OriginSize DEF Sided, op, h
<1>2. CASE r # 0
  <2> DEFINE loop == Times(Skip + Iters, s)
             e == After(y, x)
  <2>1. RunOpAcc(y, r, p, op, v) = Barrier \o (before \o loop \o tail) \o Barrier
    BY <1>2 DEF RunOpAcc
  <2>2. \A z \in Alone : Fresh(y, z) => Measures(r, s, z, After(y, z), 0)
    BY Targets
  <2>3. e \in Alone
    BY AccessStates
  <2>4. Measures(r, before, x, x, 0)
    <3>1. Measures(r, Touch \o Barrier, x, x, 0)
      BY Barriers, Flags, CountsAtRest, CalmOn, OneAndNone
    <3> QED BY <3>1, GivenCalls
  <2>5. Measures(r, tail, e, e, 0)
    BY <2>3, Flags, CountsAtRest, GivenCalls, OneAndNone
  <2>6. Measures(r, loop, x, e, 0)
    BY <2>2, TargetTimes
  <2> HIDE DEF loop, op, before, tail, e
  <2>7. Measures(r, before \o loop \o tail, x, e, 0)
    BY <2>4, <2>5, <2>6, CalmOn
  <2> QED BY <1>2, <2>1, <2>7, TargetSize DEF Sided, op, e
<1> QED BY <1>1, <1>2

\* The atomic benchmarks.
LEMMA CasMeasures ==
    ASSUME NEW b, NEW r, NEW y \in SyncKinds, NEW x \in Alone, Fresh(y, x), NEW p \in Nat,
           NEW v \in BOOLEAN
    PROVE  Sided(r, RunOpCas(y, r, p, OpPtr(b, p), v), y, x, 1)
<1> DEFINE op == OpPtr(b, p)
           prepare(i) == Given(v /\ Measured(i), Touch)
           first == [k \in 1 .. Len(Iterations) |->
                        StartOnce(Iterations[k]) \o prepare(Iterations[k]) \o OpPreSync(y) \o op
                          \o OpPostSync(y) \o Ping(y, p)]
           second == [k \in 1 .. Len(Iterations) |->
                        prepare(Iterations[k]) \o NonOpPreSync(y) \o NonOpPostSync(y, p) \o Pong(y, op)
                          \o prepare(Iterations[k])]
<1>0. ASSUME NEW z \in Alone, NEW i PROVE Counts(r, prepare(i), z, z, 0)
  BY Flags, GivenCalls
<1>1. CASE r = 0
  <2>1. RunOpCas(y, r, p, op, v)
            = Barrier \o (LoopLock(y) \o FlattenSeq(first) \o StopClock \o Sample \o LoopUnlock(y))
                      \o Barrier
    BY <1>1 DEF RunOpCas, ForEach
  <2>2. IsLoop(first, Len(Iterations))
    BY DEF IsLoop
  <2>3. ASSUME NEW z \in Alone, Kept(y, z), NEW k \in 1 .. Len(Iterations)
        PROVE  Begins(r, first[k], z, After(y, z), 1, Iterations[k])
    <3> DEFINE i == Iterations[k]
    <3>1. i \in Nat /\ first[k] = StartOnce(i) \o prepare(i) \o OpPreSync(y) \o op
                                    \o OpPostSync(y) \o Ping(y, p)
      BY IterationsAre
    <3>2. Counts(r, prepare(i), z, z, 0)
      BY <1>0
    <3> HIDE DEF i, first, prepare
    <3>3. Begins(r, StartOnce(i), z, z, 0, i)
      BY <3>1, StartOnceBegins, AloneOutside
    <3>4. Begins(r, StartOnce(i) \o prepare(i), z, z, 0, i)
      BY <3>2, <3>3, BeginsStill, OneAndNone
    <3> QED BY <2>3, <3>1, <3>4, LatTurn DEF i
  <2>4. Measures(r, <<>>, Held(y, x), Held(y, x), 0) /\ Iters * 1 \in Nat
    BY Nothing, RoundType, OneAndNone
  <2> HIDE DEF first, op
  <2>5. Runs(r, LoopLock(y) \o FlattenSeq(first), x, After(y, Held(y, x)), Iters * 1)
    BY <2>2, <2>3, <2>4, OriginLoop, OneAndNone
  <2> QED BY <1>1, <2>1, <2>4, <2>5, OriginSize DEF Sided, op
<1>2. CASE r # 0
  <2>1. RunOpCas(y, r, p, op, v) = Barrier \o FlattenSeq(second) \o Barrier
    BY <1>2 DEF RunOpCas, ForEach
  <2>2. IsLoop(second, Turns)
    BY IterationsAre DEF IsLoop
  <2>3. ASSUME NEW z \in Alone, Fresh(y, z), NEW k \in 1 .. Turns
        PROVE  Measures(r, second[k], z, After(y, z), 0)
    <3> DEFINE q == prepare(Iterations[k])
               e == After(y, z)
    <3>1. second[k] = q \o NonOpPreSync(y) \o NonOpPostSync(y, p) \o Pong(y, op) \o q
      BY IterationsAre
    <3>2. e \in Alone
      BY AccessStates
    <3>3. Measures(r, q, z, z, 0) /\ Measures(r, q, e, e, 0)
      BY <1>0, <3>2, CountsAtRest, OneAndNone
    <3>4. /\ Measures(r, NonOpPreSync(y), z, e, 0) /\ Measures(r, NonOpPostSync(y, p), e, e, 0)
          /\ Measures(r, Pong(y, op), e, e, 0)
      BY <2>3, Answers, Pongs, CountsAtRest, OneAndNone
    <3> HIDE DEF q, e, op, second
    <3>5. Measures(r, q \o NonOpPreSync(y), z, e, 0)
      BY <3>3, <3>4, CalmOn
    <3>6. Measures(r, q \o NonOpPreSync(y) \o NonOpPostSync(y, p), z, e, 0)
      BY <3>4, <3>5, CalmOn
    <3>7. Measures(r, q \o NonOpPreSync(y) \o NonOpPostSync(y, p) \o Pong(y, op), z, e, 0)
      BY <3>4, <3>6, CalmOn
    <3>8. Measures(r, second[k], z, e, 0)
      BY <3>1, <3>3, <3>7, CalmOn
    <3> QED BY <3>8 DEF e
  <2> HIDE DEF second, op
  <2>4. Measures(r, FlattenSeq(second), x, After(y, x), 0)
    BY <2>2, <2>3, TargetLoop
  <2> QED BY <1>2, <2>1, <2>4, TargetSize DEF Sided, op
<1> QED BY <1>1, <1>2

\* Every rank of a one-sided benchmark.
LEMMA OneSidedMeasures ==
    ASSUME NEW b \in OneSidedBenchmarks, NEW y \in ValidateSyncType(b), NEW r \in {0, 1},
           NEW v \in BOOLEAN, NEW x \in Alone, x.access = "closed"
    PROVE  \E z : \E n \in Nat :
              /\ Measures(r, OneSidedProgram(b, y, r, Head(Windows), v), x, z, n) /\ AtRest(z)
              /\ r = 0 => n = OneSidedReported(b, Head(Windows))
<1> DEFINE w == Head(Windows)
           d == IF b \in OneSidedBandwidth \cup {"osu_put_bibw"} THEN w ELSE 1
           p == 1 - r
           c == IF r = 0 THEN Iters * d ELSE 0
           n == IF r = 0 THEN Total(d) ELSE 0
           exchange == OneSidedExchange(b, y, r, w, v)
           s == AllocateOneSidedMemory \o exchange \o FreeOneSidedMemory
           e == After(y, x)
<1>1. /\ y \in SyncKinds /\ p \in Nat /\ w \in Nat /\ d \in Nat
      /\ b = "osu_put_bibw" => y \in Active
  BY WindowType, OneAndNone DEF ValidateSyncType, SyncKinds
<1>2. c \in Nat /\ n \in Nat
  BY <1>1, RoundType, TotalType
<1>3. ASSUME NEW z \in Alone, Fresh(y, z) PROVE Sided(r, exchange, y, z, d)
  <2>1. CASE b \in {"osu_put_bw", "osu_get_bw"}
    <3>1. exchange = RunOpBw(y, r, p, OpPtr(b, p), w)
      BY <2>1 DEF OneSidedExchange, OneSidedBandwidth, OneSidedLatency
    <3>2. d = w
      BY <2>1 DEF OneSidedBandwidth
    <3> HIDE DEF exchange, d, p, w
    <3> QED BY <1>1, <1>3, <2>1, <3>1, <3>2, BwMeasures
  <2>2. CASE b \in {"osu_put_bibw"}
    <3>1. exchange = RunOpBibw(y, r, p, OpPtr(b, p), w)
      BY <2>2 DEF OneSidedExchange, OneSidedBandwidth, OneSidedLatency
    <3>2. d = w
      BY <2>2 DEF OneSidedBandwidth
    <3> HIDE DEF exchange, d, p, w
    <3> QED BY <1>1, <1>3, <2>2, <3>1, <3>2, BibwMeasures
  <2>3. CASE b \in {"osu_put_latency", "osu_get_latency", "osu_get_acc_latency"}
    <3>1. exchange = RunOpLat(y, r, p, OpPtr(b, p))
      BY <2>3 DEF OneSidedExchange, OneSidedBandwidth, OneSidedLatency, RunOpGetAcc
    <3>2. d = 1
      BY <2>3 DEF OneSidedBandwidth
    <3> HIDE DEF exchange, d, p, w
    <3> QED BY <1>1, <1>3, <2>3, <3>1, <3>2, LatMeasures
  <2>4. CASE b \in {"osu_acc_latency"}
    <3>1. exchange = RunOpAcc(y, r, p, OpPtr(b, p), v)
      BY <2>4 DEF OneSidedExchange, OneSidedBandwidth, OneSidedLatency
    <3>2. d = 1
      BY <2>4 DEF OneSidedBandwidth
    <3> HIDE DEF exchange, d, p, w
    <3> QED BY <1>1, <1>3, <2>4, <3>1, <3>2, AccMeasures
  <2>5. CASE b \in {"osu_cas_latency", "osu_fop_latency"}
    <3>1. exchange = RunOpCas(y, r, p, OpPtr(b, p), v)
      BY <2>5 DEF OneSidedExchange, OneSidedBandwidth, OneSidedLatency, RunOpFop
    <3>2. d = 1
      BY <2>5 DEF OneSidedBandwidth
    <3> HIDE DEF exchange, d, p, w
    <3> QED BY <1>1, <1>3, <2>5, <3>1, <3>2, CasMeasures
  <2> QED BY <2>1, <2>2, <2>3, <2>4, <2>5
          DEF OneSidedBenchmarks, OneSidedBandwidth, OneSidedLatency, OneSidedAtomics
<1>4. ASSUME NEW z \in Alone, Fresh(y, z) PROVE Measures(r, s, z, After(y, z), c)
  <2>1. Measures(r, exchange, z, After(y, z), c)
    BY <1>3, <1>4 DEF Sided
  <2>2. After(y, z) \in Alone
    BY <1>1, AccessStates
  <2>3. /\ Measures(r, AllocateOneSidedMemory, z, z, 0)
        /\ Measures(r, FreeOneSidedMemory, After(y, z), After(y, z), 0)
    BY <2>2, Barriers, CountsAtRest, OneAndNone DEF AllocateOneSidedMemory, FreeOneSidedMemory
  <2> HIDE DEF exchange, c
  <2>4. Measures(r, AllocateOneSidedMemory \o exchange, z, After(y, z), c)
    BY <1>2, <2>1, <2>3, LaterOnly
  <2> QED BY <1>2, <2>3, <2>4, EarlierOnly
<1>5. e \in Alone /\ Fresh(y, e) /\ After(y, e) = e /\ Fresh(y, x)
  BY <1>1, AccessStates DEF Fresh
<1>6. Measures(r, s, x, e, c) /\ Measures(r, s, e, e, c)
  BY <1>4, <1>5
<1>7. Len(Sizes) * c = n
  <2>1. Len(Sizes) * (Iters * d) = Iters * Len(Sizes) * d
    BY <1>1, SizesAre, ItersAssumption
  <2> QED BY <2>1, SizesAre DEF Total
<1>8. OneSidedProgram(b, y, r, w, v) = Times(Len(Sizes), s)
  BY DEF OneSidedProgram
<1>9. r = 0 => n = OneSidedReported(b, w)
  BY DEF OneSidedReported, Total
<1> HIDE DEF w, d, p, c, n, s, e
<1>10. Measures(r, Times(Len(Sizes), s), x, e, n)
  BY <1>2, <1>6, <1>7, SizesAre, AreCalls, MeasuresTimes
<1>11. AtRest(e)
  <2>1. e.phase = "out"
    BY <1>5, AloneOutside DEF Outside, Alone
  <2> QED BY <1>5, <2>1 DEF AtRest, Fresh
<1> QED BY <1>2, <1>8, <1>9, <1>10, <1>11 DEF w

-----------------------------------------------------------------------------
(* The PGAS benchmarks, and striding. *)

\* A rank of a PGAS program, which needs no epochs.
Sharing == {x \in Alone : x.access = "open"}

\* Puts, gets and synchronisation of a PGAS program.
LEMMA SharedCalls ==
    ASSUME NEW r, NEW x \in Sharing, NEW p \in Nat, NEW fetch \in BOOLEAN
    PROVE  /\ Counts(r, Rma(p, fetch), x, x, 1)
           /\ Counts(r, Flush("all"), x, x, 0) /\ Counts(r, Flush("fetched"), x, x, 0)
           /\ Counts(r, Touch, x, x, 0) /\ Counts(r, Sync, x, x, 0)
           /\ Counts(r, Quiet, x, x, 0) /\ Counts(r, BarrierAll, x, x, 0)
           /\ Counts(r, UpcBarrier, x, x, 0) /\ Counts(r, AsyncWait, x, x, 0)
<1>1. x \in Alone /\ x \in Outside /\ x.access # "closed" /\ TRUE \in BOOLEAN
  BY AloneOutside DEF Sharing
<1>2. Counts(r, RmaWithin(p, fetch, TRUE), x, x, 1)
  BY <1>1, Accesses
<1>3. /\ Counts(r, Flush("all"), x, x, 0) /\ Counts(r, Flush("fetched"), x, x, 0)
      /\ Counts(r, Touch, x, x, 0) /\ Counts(r, Sync, x, x, 0)
  BY <1>1, Harmlessly, Barriers
<1>4. Counts(r, Flush("all") \o Sync, x, x, 0)
  BY <1>3, StillOn
<1> QED BY <1>2, <1>3, <1>4 DEF Rma, Quiet, BarrierAll, UpcBarrier, AsyncWait

\* n of them count n.
LEMMA SharedOperations ==
    ASSUME NEW r, NEW x \in Sharing, NEW p \in Nat
    PROVE  /\ Counts(r, PutMem(p), x, x, 1) /\ Counts(r, PutMemNbi(p), x, x, 1)
           /\ Counts(r, GetMem(p), x, x, 1) /\ Counts(r, GetMemNbi(p), x, x, 1)
           /\ Counts(r, PutMem(p) \o Quiet, x, x, 1) /\ Counts(r, PutMemNbi(p) \o Quiet, x, x, 1)
           /\ Counts(r, GetMemNbi(p) \o Quiet, x, x, 1)
           /\ Counts(r, Rma(p, TRUE) \o Flush("fetched"), x, x, 1)
           /\ Counts(r, Rma(p, FALSE) \o Flush("all"), x, x, 1)
<1>1. /\ Counts(r, Rma(p, TRUE), x, x, 1) /\ Counts(r, Rma(p, FALSE), x, x, 1)
      /\ Counts(r, Flush("all"), x, x, 0) /\ Counts(r, Flush("fetched"), x, x, 0)
      /\ Counts(r, Quiet, x, x, 0)
  BY SharedCalls
<1>2. 1 \in Nat /\ 0 \in Nat /\ 1 = 1 + 0
  OBVIOUS
<1>3. Counts(r, Rma(p, TRUE) \o Flush("fetched"), x, x, 1)
  BY <1>1, <1>2, CountsOne
<1>4. Counts(r, Rma(p, FALSE) \o Flush("all"), x, x, 1)
  BY <1>1, <1>2, CountsOne
<1>5. Counts(r, Rma(p, TRUE) \o Quiet, x, x, 1) /\ Counts(r, Rma(p, FALSE) \o Quiet, x, x, 1)
  BY <1>1, <1>2, CountsOne
<1> QED BY <1>1, <1>3, <1>4, <1>5 DEF PutMem, PutMemNbi, GetMem, GetMemNbi

\* What a rank does that does not measure.
LEMMA SharedCalm ==
    ASSUME NEW r, NEW x \in Sharing
    PROVE  /\ Measures(r, Touch, x, x, 0) /\ Measures(r, Sync, x, x, 0)
           /\ Measures(r, Quiet, x, x, 0) /\ Measures(r, BarrierAll, x, x, 0)
           /\ Measures(r, UpcBarrier, x, x, 0) /\ Measures(r, AsyncWait, x, x, 0)
BY SharedCalls, CountsAtRest, OneAndNone

\* An interval around a call, sampled or not; b starts the clock.
LEMMA Interval ==
    ASSUME NEW r, NEW x \in Outside, NEW b, NEW call, NEW m \in BOOLEAN,
           Runs(r, b, x, x, 0), Counts(r, call, x, x, 1)
    PROVE  Measures(r, b \o call \o StopClock \o Given(m, Sample), x, x, IF m THEN 1 ELSE 0)
<1> DEFINE e == b \o call \o StopClock
<1>1. Exchanged(r, e, x, 1)
  <2>1. Runs(r, b \o call, x, x, 1)
    BY RunsThen, OneAndNone
  <2> QED BY <2>1, ExchangedIf, OneAndNone
<1> HIDE DEF e
<1>2. CASE m
  BY <1>1, <1>2, Sampling, OneAndNone DEF Given, Exchanged, e
<1>3. CASE ~m
  <2>1. Measures(r, <<>>, x, x, 0)
    BY Nothing
  <2> QED BY <1>1, <1>3, <2>1, CalmOn DEF Given, Exchanged, e
<1> QED BY <1>2, <1>3

\* Such intervals, one in each iteration; after is what separates them.
LEMMA Intervals ==
    ASSUME NEW r, NEW x \in Outside, NEW ss, IsLoop(ss, Len(Iterations)),
           NEW b, NEW call, NEW after, Measures(r, after, x, x, 0),
           \A k \in 1 .. Len(Iterations) :
              /\ Runs(r, b[k], x, x, 0) /\ Counts(r, call[k], x, x, 1)
              /\ \/ ss[k] = b[k] \o call[k] \o StopClock \o Given(Measured(Iterations[k]), Sample)
                 \/ ss[k] = b[k] \o call[k] \o StopClock \o Given(Measured(Iterations[k]), Sample)
                              \o after
    PROVE  Measures(r, FlattenSeq(ss), x, x, Iters * 1)
<1>1. ASSUME NEW k \in 1 .. Len(Iterations)
      PROVE  Measures(r, ss[k], x, x, IF Measured(Iterations[k]) THEN 1 ELSE 0)
  <2> DEFINE m == Measured(Iterations[k])
             d == IF m THEN 1 ELSE 0
             s == b[k] \o call[k] \o StopClock \o Given(m, Sample)
  <2>1. m \in BOOLEAN /\ d \in Nat
    BY DEF Measured
  <2>2. Runs(r, b[k], x, x, 0) /\ Counts(r, call[k], x, x, 1) /\ ss[k] \in {s, s \o after}
    OBVIOUS
  <2> HIDE DEF m
  <2>3. Measures(r, s, x, x, d)
    BY <2>1, <2>2, Interval
  <2> HIDE DEF d, s
  <2>4. Measures(r, s \o after, x, x, d)
    BY <2>1, <2>3, EarlierOnly
  <2> QED BY <2>2, <2>3, <2>4 DEF d, m
<1> QED BY <1>1, SampledLoop, OneAndNone

\* The same over the sizes.
LEMMA RepeatedIntervals ==
    ASSUME NEW r, NEW x \in Outside, NEW call, Counts(r, call, x, x, 1)
    PROVE  Measures(r, InRepeatedIntervals(call), x, x, Iters * 1)
<1> DEFINE ss == [k \in 1 .. Len(Iterations) |->
                     StartClock \o call \o StopClock \o Given(Measured(Iterations[k]), Sample)]
           b == [k \in 1 .. Len(Iterations) |-> StartClock]
           c == [k \in 1 .. Len(Iterations) |-> call]
<1>1. InRepeatedIntervals(call) = FlattenSeq(ss)
  BY DEF InRepeatedIntervals, ForEach
<1>2. IsLoop(ss, Len(Iterations)) /\ Measures(r, <<>>, x, x, 0) /\ Runs(r, StartClock, x, x, 0)
  BY Nothing, Starting DEF IsLoop
<1>3. \A k \in 1 .. Len(Iterations) :
         /\ b[k] = StartClock /\ c[k] = call
         /\ ss[k] = StartClock \o call \o StopClock \o Given(Measured(Iterations[k]), Sample)
  OBVIOUS
<1> HIDE DEF ss, b, c
<1>4. \A k \in 1 .. Len(Iterations) :
          /\ Runs(r, b[k], x, x, 0) /\ Counts(r, c[k], x, x, 1)
          /\ \/ ss[k] = b[k] \o c[k] \o StopClock \o Given(Measured(Iterations[k]), Sample)
             \/ ss[k] = b[k] \o c[k] \o StopClock \o Given(Measured(Iterations[k]), Sample) \o <<>>
  BY <1>2, <1>3
<1> QED BY <1>1, <1>2, <1>4, Intervals

\* The loop of the benchmarks of puts and gets.
LEMMA OshmLoopMeasures ==
    ASSUME NEW r, NEW x \in Outside, NEW call, Counts(r, call, x, x, 1)
    PROVE  Measures(r, OshmLoop(call), x, x, Iters * 1)
<1> DEFINE ss == [k \in 1 .. Len(Iterations) |-> StartOnce(Iterations[k]) \o call]
<1>1. OshmLoop(call) = FlattenSeq(ss) \o StopClock \o Sample
  BY DEF OshmLoop, ForEach
<1>2. IsLoop(ss, Len(Iterations)) /\ \A k \in 1 .. Len(Iterations) :
          Iterations[k] \in Nat /\ ss[k] = StartOnce(Iterations[k]) \o call
  BY IterationsAre DEF IsLoop
<1> HIDE DEF ss
<1>3. ASSUME NEW k \in 1 .. Len(Iterations) PROVE Begins(r, ss[k], x, x, 1, Iterations[k])
  <2> DEFINE i == Iterations[k]
  <2>1. Begins(r, StartOnce(i), x, x, 0, i) /\ 1 = 0 + 1 /\ 0 \in Nat /\ 1 \in Nat
    BY <1>2, StartOnceBegins
  <2> HIDE DEF i
  <2>2. Begins(r, StartOnce(i) \o call, x, x, 1, i)
    BY <2>1, BeginsThen
  <2> QED BY <1>2, <2>2 DEF i
<1>4. Runs(r, FlattenSeq(ss), x, x, Iters * 1) /\ Iters * 1 \in Nat
  BY <1>2, <1>3, StartedLoop, RoundType, OneAndNone
<1> QED BY <1>1, <1>4, Sampled

\* No transfer per iteration is none at all.
LEMMA NoneRound == Iters * 0 = 0
BY TurnsType

\* Only rank 0 measures.
LEMMA OshmSizesMeasure ==
    ASSUME NEW r, NEW x \in Sharing, NEW measure, NEW c \in Nat,
           r = 0 => Measures(r, measure, x, x, Iters * c)
    PROVE  \E n \in Nat : Measures(r, OshmSizes(r, measure), x, x, n) /\ (r = 0 => n = Total(c))
<1> DEFINE d == IF r = 0 THEN c ELSE 0
           part == Given(r = 0, measure)
           s == Touch \o BarrierAll \o part \o BarrierAll
<1>1. Measures(r, part, x, x, Iters * d) /\ d \in Nat /\ Iters * d \in Nat /\ (r = 0 => d = c)
  <2>1. Measures(r, <<>>, x, x, 0)
    BY Nothing
  <2> QED BY <2>1, NoneRound, RoundType DEF Given
<1>2. Measures(r, Touch, x, x, 0) /\ Measures(r, BarrierAll, x, x, 0)
  BY SharedCalm
<1>3. OshmSizes(r, measure) = Times(Len(Sizes), s) \o BarrierAll \o BarrierAll
  BY DEF OshmSizes
<1> HIDE DEF d, part
<1>4. Measures(r, Touch \o BarrierAll, x, x, 0)
  BY <1>2, CalmOn
<1>5. Measures(r, s, x, x, Iters * d)
  BY <1>1, <1>2, <1>4, Between
<1> HIDE DEF s
<1>6. Measures(r, Times(Len(Sizes), s), x, x, Total(d)) /\ Total(d) \in Nat
  BY <1>1, <1>5, SizeTimes, TotalType
<1>7. Measures(r, Times(Len(Sizes), s) \o BarrierAll \o BarrierAll, x, x, Total(d))
  BY <1>2, <1>6, EarlierOnly
<1> QED BY <1>1, <1>3, <1>6, <1>7

\* The OpenSHMEM benchmarks of puts and gets.
LEMMA OshmPt2ptMeasures ==
    ASSUME NEW b \in OshmPt2pt, NEW r, NEW x \in Sharing
    PROVE  \E n \in Nat : Measures(r, PgasProgram(b, r), x, x, n) /\ (r = 0 => n = PgasReported(b))
<1>1. x \in Outside /\ 1 \in Nat /\ 2 \in Nat
  BY AloneOutside DEF Sharing
<1>2. /\ Counts(r, PutMem(1), x, x, 1) /\ Counts(r, PutMemNbi(1), x, x, 1)
      /\ Counts(r, GetMem(1), x, x, 1) /\ Counts(r, GetMemNbi(1), x, x, 1)
      /\ Counts(r, PutMem(1) \o Quiet, x, x, 1) /\ Counts(r, PutMemNbi(1) \o Quiet, x, x, 1)
      /\ Counts(r, GetMemNbi(1) \o Quiet, x, x, 1)
  BY <1>1, SharedOperations
<1> DEFINE transfers == {PutMem(1), GetMem(1), PutMem(1) \o Quiet, PutMemNbi(1) \o Quiet,
                     GetMemNbi(1) \o Quiet}
<1>3. CASE b \in {"osu_oshm_put_overlap", "osu_oshm_get_overlap"}
  <2> DEFINE twice(call, other) == InRepeatedIntervals(call) \o InRepeatedIntervals(other)
  <2>1. \E call \in transfers, other \in transfers : PgasProgram(b, r) = OshmSizes(r, twice(call, other))
    BY <1>3 DEF PgasProgram, OshmPutOverlap, OshmGetOverlap
  <2>2. PICK call \in transfers, other \in transfers : PgasProgram(b, r) = OshmSizes(r, twice(call, other))
    BY <2>1
  <2>3. Counts(r, call, x, x, 1) /\ Counts(r, other, x, x, 1)
    BY <1>2, <2>2
  <2>4. Measures(r, twice(call, other), x, x, Iters * 1 + Iters * 1)
    BY <1>1, <2>3, RepeatedIntervals, MeasuresOn, RoundType
  <2>5. Iters * 1 + Iters * 1 = Iters * 2
    BY TurnsType
  <2>6. PgasReported(b) = Total(2)
    <3>1. b \notin {"osu_oshm_barrier", "osu_upc_all_barrier"} /\ b # "osu_oshm_atomics"
      BY <1>3
    <3>2. PgasReported(b) = 2 * Iters * Len(Sizes)
      BY <1>3, <3>1, Zenon DEF PgasReported
    <3> QED BY <3>2, SizesAre, TurnsType DEF Total
  <2> HIDE DEF twice, transfers
  <2>7. Measures(r, twice(call, other), x, x, Iters * 2)
    BY <2>4, <2>5
  <2> QED BY <1>1, <2>2, <2>6, <2>7, OshmSizesMeasure
<1>4. CASE b \notin {"osu_oshm_put_overlap", "osu_oshm_get_overlap"}
  <2>1. \E call \in transfers : PgasProgram(b, r) = OshmSizes(r, OshmLoop(call))
    BY <1>4 DEF OshmPt2pt, PgasProgram, OshmPut, OshmPutNb, OshmGet, OshmGetNb, OshmPutBw,
                OshmPutNbBw, OshmGetBw, OshmGetNbBw
  <2>2. PICK call \in transfers : PgasProgram(b, r) = OshmSizes(r, OshmLoop(call))
    BY <2>1
  <2>3. Counts(r, call, x, x, 1)
    BY <1>2, <2>2
  <2> HIDE DEF transfers
  <2>4. Measures(r, OshmLoop(call), x, x, Iters * 1)
    BY <1>1, <2>3, OshmLoopMeasures
  <2>5. PgasReported(b) = Total(1)
    <3>1. /\ b \notin {"osu_oshm_barrier", "osu_upc_all_barrier"} /\ b # "osu_oshm_atomics"
          /\ b \notin {"osu_oshm_put_overlap", "osu_oshm_get_overlap"}
      BY <1>4 DEF OshmPt2pt
    <3>2. PgasReported(b) = Iters * Len(Sizes)
      BY <3>1, Zenon DEF PgasReported
    <3> QED BY <3>2, TotalOnce
  <2> QED BY <1>1, <2>2, <2>4, <2>5, OshmSizesMeasure
<1> QED BY <1>3, <1>4

\* The transfers of UPC and UPC++.
LEMMA UpcTransfersMeasure ==
    ASSUME NEW r, NEW x \in Sharing, NEW barrier, Measures(r, barrier, x, x, 0), NEW call,
           Counts(r, barrier, x, x, 0),
           Counts(r, call, x, x, 1), NEW end, Counts(r, end, x, x, 0)
    PROVE  \E n \in Nat : /\ Measures(r, UpcTransfers(r, barrier, call, end), x, x, n)
                          /\ r = 0 => n = Total(1)
<1> DEFINE ss == [k \in 1 .. Len(Iterations) |->
                     Given(Iterations[k] = Skip, barrier \o StartClock) \o call]
           measure == FlattenSeq(ss) \o end \o barrier \o StopClock \o Sample
           part == IF r = 0 THEN measure ELSE barrier \o barrier
           d == IF r = 0 THEN 1 ELSE 0
           s == Touch \o barrier \o part
<1>1. UpcTransfers(r, barrier, call, end) = Times(Len(Sizes), s)
  BY DEF UpcTransfers, ForEach
<1>2. x \in Outside /\ 1 \in Nat /\ 0 \in Nat /\ 1 = 0 + 1
  BY AloneOutside DEF Sharing
<1>3. IsLoop(ss, Len(Iterations)) /\ \A k \in 1 .. Len(Iterations) :
          /\ Iterations[k] \in Nat
          /\ ss[k] = Given(Iterations[k] = Skip, barrier \o StartClock) \o call
  BY IterationsAre DEF IsLoop
<1>4. Measures(r, measure, x, x, Iters * 1) /\ Iters * 1 \in Nat
  <2> HIDE DEF ss
  <2>1. Runs(r, barrier \o StartClock, x, x, 0)
    BY <1>2, Starting, RunsAfter
  <2>2. ASSUME NEW k \in 1 .. Len(Iterations) PROVE Begins(r, ss[k], x, x, 1, Iterations[k])
    <3> DEFINE i == Iterations[k]
               b == Given(i = Skip, barrier \o StartClock)
    <3>1. Begins(r, b, x, x, 0, i)
      <4>1. CASE i = Skip
        BY <2>1, <4>1, TurnsType DEF Begins, Given
      <4>2. CASE i # Skip
        BY <4>2, Nothing DEF Begins, Given
      <4> QED BY <4>1, <4>2
    <3>2. ss[k] = b \o call
      BY <1>3
    <3> HIDE DEF b, i
    <3>3. Begins(r, b \o call, x, x, 1, i)
      BY <1>2, <3>1, BeginsThen
    <3> QED BY <3>2, <3>3 DEF i
  <2>3. Runs(r, FlattenSeq(ss), x, x, Iters * 1) /\ Iters * 1 \in Nat
    BY <1>2, <1>3, <2>2, StartedLoop, RoundType
  <2>4. Iters * 1 + 0 + 0 = Iters * 1
    BY <2>3
  <2>5. Runs(r, FlattenSeq(ss) \o end \o barrier, x, x, Iters * 1)
    BY <1>2, <2>3, <2>4, RunsTwo
  <2> QED BY <1>2, <2>3, <2>5, Sampled
<1>5. Measures(r, part, x, x, Iters * d) /\ d \in Nat /\ Iters * d \in Nat /\ (r = 0 => d = 1)
  <2>1. Measures(r, barrier \o barrier, x, x, 0)
    BY CalmOn
  <2> HIDE DEF measure
  <2> QED BY <1>4, <2>1, NoneRound, RoundType
<1> HIDE DEF d, part
<1>6. Measures(r, Touch \o barrier, x, x, 0)
  BY SharedCalm, CalmOn
<1>7. Measures(r, s, x, x, Iters * d)
  BY <1>5, <1>6, LaterOnly
<1> HIDE DEF s
<1>8. Measures(r, Times(Len(Sizes), s), x, x, Total(d)) /\ Total(d) \in Nat
  BY <1>5, <1>7, SizeTimes, TotalType
<1> QED BY <1>1, <1>5, <1>8

\* The UPC and UPC++ benchmarks of puts and gets.
LEMMA UpcPt2ptMeasures ==
    ASSUME NEW b \in UpcPt2pt \cup UpcxxPt2pt, NEW r, NEW x \in Sharing
    PROVE  \E n \in Nat : Measures(r, PgasProgram(b, r), x, x, n) /\ (r = 0 => n = PgasReported(b))
<1>1. /\ Counts(r, Rma(1, TRUE), x, x, 1) /\ Counts(r, Rma(1, FALSE), x, x, 1)
      /\ Counts(r, UpcBarrier, x, x, 0) /\ Counts(r, AsyncWait, x, x, 0)
      /\ Counts(r, Sync, x, x, 0) /\ Counts(r, <<>>, x, x, 0)
  BY SharedCalls, Nothing, OneAndNone
<1>2. /\ Counts(r, Rma(1, TRUE) \o Flush("fetched"), x, x, 1)
      /\ Counts(r, Rma(1, FALSE) \o Flush("all"), x, x, 1)
  BY SharedOperations, OneAndNone
<1>3. Measures(r, UpcBarrier, x, x, 0) /\ Measures(r, Sync, x, x, 0)
  BY SharedCalm
<1>4. PgasReported(b) = Total(1)
  <2>1. /\ b \notin {"osu_oshm_barrier", "osu_upc_all_barrier"} /\ b # "osu_oshm_atomics"
        /\ b \notin {"osu_oshm_put_overlap", "osu_oshm_get_overlap"}
    BY DEF UpcPt2pt, UpcxxPt2pt
  <2>2. PgasReported(b) = Iters * Len(Sizes)
    BY <2>1, Zenon DEF PgasReported
  <2> QED BY <2>2, TotalOnce
<1>5. CASE b \in UpcPt2pt
  <2>1. \E call \in {Rma(1, TRUE) \o Flush("fetched"), Rma(1, FALSE) \o Flush("all")} :
            PgasProgram(b, r) = UpcTransfers(r, UpcBarrier, call, <<>>)
    BY <1>5 DEF UpcPt2pt, PgasProgram, UpcMemget, UpcMemput
  <2>2. PICK call \in {Rma(1, TRUE) \o Flush("fetched"), Rma(1, FALSE) \o Flush("all")} :
            PgasProgram(b, r) = UpcTransfers(r, UpcBarrier, call, <<>>)
    BY <2>1
  <2>3. Counts(r, call, x, x, 1)
    BY <1>2, <2>2
  <2> QED BY <1>1, <1>3, <1>4, <2>2, <2>3, UpcTransfersMeasure
<1>6. CASE b \in UpcxxPt2pt
  <2>1. \E call \in {Rma(1, TRUE), Rma(1, FALSE)} :
            PgasProgram(b, r) = Sync \o Sync \o UpcTransfers(r, Sync, call, AsyncWait) \o Sync
    BY <1>6 DEF UpcxxPt2pt, PgasProgram, UpcxxAsyncCopyGet, UpcxxAsyncCopyPut
  <2>2. PICK call \in {Rma(1, TRUE), Rma(1, FALSE)} :
            PgasProgram(b, r) = Sync \o Sync \o UpcTransfers(r, Sync, call, AsyncWait) \o Sync
    BY <2>1
  <2> DEFINE t == UpcTransfers(r, Sync, call, AsyncWait)
  <2>3. Counts(r, call, x, x, 1)
    BY <1>1, <2>2
  <2>4. PICK n \in Nat : Measures(r, t, x, x, n) /\ (r = 0 => n = Total(1))
    BY <1>1, <1>3, <2>3, UpcTransfersMeasure
  <2>5. Measures(r, Sync \o Sync, x, x, 0)
    BY <1>3, CalmOn
  <2>6. PgasProgram(b, r) = Sync \o Sync \o t \o Sync
    BY <2>2
  <2> HIDE DEF t
  <2>7. Measures(r, Sync \o Sync \o t \o Sync, x, x, n)
    BY <1>3, <2>4, <2>5, Between
  <2> QED BY <1>4, <2>4, <2>6, <2>7
<1> QED BY <1>5, <1>6

\* The reductions of OpenSHMEM.
LEMMA ToAllCalls ==
    ASSUME NEW r, NEW x \in Sharing, x.arrays, NEW psync \in PSyncArrays
    PROVE  Counts(r, ToAll(psync), x, x, 1) /\ Measures(r, ToAll(psync), x, x, 0)
<1>1. "all" \in CollectiveKinds \ {"fence"} /\ "all" # "sync" /\ 0 \in Nat /\ {} \in SUBSET Nat
      /\ psync \in {"plain"} \cup PSyncArrays /\ x \in Alone
  BY DEF CollectiveKinds, Sharing
<1>2. Counts(r, Enter("all", 0, {}, psync) \o Leave, x, x, IF "all" = "sync" THEN 0 ELSE 1)
  BY <1>1, PlainCollectives
<1>3. Counts(r, ToAll(psync), x, x, 1)
  BY <1>1, <1>2 DEF ToAll
<1> QED BY <1>3, CountsAtRest, OneAndNone

\* Iters transfers between two readings of the clock.
LEMMA OneInterval ==
    ASSUME NEW r, NEW x \in Outside, NEW call, Counts(r, call, x, x, 1), NEW quiet,
           Counts(r, quiet, x, x, 0)
    PROVE  /\ Measures(r, StartClock \o Times(Iters, call) \o StopClock \o Sample, x, x, Iters)
           /\ Measures(r, StartClock \o Times(Iters, call) \o quiet \o StopClock \o Sample, x, x, Iters)
<1>1. Iters \in Nat /\ Iters * 1 = Iters /\ 0 + Iters = Iters /\ Iters + 0 = Iters /\ 0 \in Nat
  BY TurnsType
<1>2. Counts(r, Times(Iters, call), x, x, Iters)
  BY <1>1, OneEach
<1>3. Runs(r, StartClock, x, x, 0)
  BY Starting
<1>4. Runs(r, StartClock \o Times(Iters, call), x, x, Iters)
  BY <1>1, <1>2, <1>3, RunsThen
<1>5. Runs(r, StartClock \o Times(Iters, call) \o quiet, x, x, Iters)
  BY <1>1, <1>4, RunsThen
<1> QED BY <1>1, <1>4, <1>5, Sampled

\* The partner of a rank is a rank.
LEMMA NxtPeType == \A r \in 0 .. 3 : NxtPe(r, 2) \in Nat
BY DEF NxtPe

\* The message rate benchmarks of OpenSHMEM.
LEMMA RateMeasures ==
    ASSUME NEW r \in 0 .. 3, NEW x \in Sharing, x.arrays, NEW call, Counts(r, call, x, x, 1)
    PROVE  \E n \in Nat : /\ Measures(r, RateBenchmark(r, 2, call), x, x, n)
                          /\ r < 2 => n = Total(1)
<1> DEFINE d == IF r < 2 THEN 1 ELSE 0
           interval == StartClock \o Times(Iters, call) \o Quiet \o StopClock \o Sample
           part == Given(r < 2, interval)
           s == Touch \o BarrierAll \o part \o ToAll("psync")
           put == Given(r < 2, PutMem(NxtPe(r, 2)))
<1>1. x \in Outside /\ 1 \in Nat /\ 0 \in Nat
  BY AloneOutside DEF Sharing
<1>2. Measures(r, part, x, x, Iters * d) /\ d \in Nat /\ Iters * d \in Nat /\ (r < 2 => d = 1)
  <2>1. Counts(r, Quiet, x, x, 0) /\ Measures(r, <<>>, x, x, 0) /\ Iters * 1 = Iters
    <3>1. TRUE \in BOOLEAN
      OBVIOUS
    <3>2. Counts(r, Quiet, x, x, 0)
      BY <3>1, SharedCalls, OneAndNone
    <3> QED BY <3>2, Nothing, TurnsType
  <2>2. Measures(r, interval, x, x, Iters)
    BY <1>1, <2>1, OneInterval
  <2> HIDE DEF interval
  <2> QED BY <2>1, <2>2, NoneRound, RoundType DEF Given
<1>3. /\ Measures(r, Touch, x, x, 0) /\ Measures(r, BarrierAll, x, x, 0)
      /\ Measures(r, ToAll("psync"), x, x, 0)
  BY SharedCalm, ToAllCalls DEF PSyncArrays
<1>4. Measures(r, put, x, x, 0)
  BY NxtPeType, SharedOperations, CountsAtRest, GivenCalls, OneAndNone
<1>5. RateBenchmark(r, 2, call) = Touch \o put \o BarrierAll \o Times(Len(Sizes), s) \o BarrierAll
  <2>1. Touch \o BarrierAll \o part \in Seq(Calls) /\ ToAll("psync") \in Seq(Calls)
    BY <1>2, <1>3, AreCalls
  <2> QED BY DEF RateBenchmark, MessageRate
<1> HIDE DEF d, part, put
<1>6. Measures(r, Touch \o BarrierAll, x, x, 0)
  BY <1>3, CalmOn
<1>7. Measures(r, s, x, x, Iters * d)
  BY <1>2, <1>3, <1>6, Between
<1> HIDE DEF s
<1>8. Measures(r, Times(Len(Sizes), s), x, x, Total(d)) /\ Total(d) \in Nat
  BY <1>2, <1>7, SizeTimes, TotalType
<1>9. Measures(r, Touch \o put \o BarrierAll, x, x, 0)
  BY <1>3, <1>4, CalmTwo
<1>10. Measures(r, Touch \o put \o BarrierAll \o Times(Len(Sizes), s) \o BarrierAll, x, x, Total(d))
  BY <1>3, <1>8, <1>9, Between
<1> QED BY <1>2, <1>5, <1>8, <1>10

\* One of the tests of the atomic operations.
LEMMA AtomicMeasures ==
    ASSUME NEW r \in 0 .. 3, NEW x \in Sharing, x.arrays
    PROVE  /\ Measures(r, Fetching(r, 2), x, x, IF r < 2 THEN Iters ELSE 0)
           /\ Measures(r, NotFetching(r, 2), x, x, IF r < 2 THEN Iters ELSE 0)
<1> DEFINE d == IF r < 2 THEN Iters ELSE 0
<1>1. x \in Outside /\ d \in Nat /\ NxtPe(r, 2) \in Nat
  BY AloneOutside, TurnsType, NxtPeType DEF Sharing
<1>2. /\ Measures(r, Touch, x, x, 0) /\ Measures(r, BarrierAll, x, x, 0)
      /\ Measures(r, ToAll("psync1"), x, x, 0) /\ Measures(r, ToAll("psync2"), x, x, 0)
  BY SharedCalm, ToAllCalls DEF PSyncArrays
<1>3. ASSUME NEW call, Counts(r, call, x, x, 1)
      PROVE  Measures(r, AtomicTest(r, 2, call), x, x, d)
  <2> DEFINE interval == StartClock \o Times(Iters, call) \o StopClock \o Sample
             part == Given(r < 2, interval)
  <2>1. Measures(r, part, x, x, d)
    <3>1. Measures(r, interval, x, x, Iters) /\ Measures(r, <<>>, x, x, 0)
      BY <1>1, <1>3, OneInterval, Nothing
    <3> HIDE DEF interval
    <3> QED BY <3>1 DEF Given
  <2>2. AtomicTest(r, 2, call) = Touch \o BarrierAll \o part \o ToAll("psync1") \o ToAll("psync2")
    BY DEF AtomicTest
  <2> HIDE DEF part, d
  <2>3. Measures(r, Touch \o BarrierAll, x, x, 0)
    BY <1>2, CalmOn
  <2>4. Measures(r, Touch \o BarrierAll \o part \o ToAll("psync1"), x, x, d)
    BY <1>1, <1>2, <2>1, <2>3, Between
  <2> QED BY <1>1, <1>2, <2>2, <2>4, EarlierOnly
<1>4. /\ Counts(r, Rma(NxtPe(r, 2), TRUE) \o Flush("fetched"), x, x, 1)
      /\ Counts(r, Rma(NxtPe(r, 2), FALSE), x, x, 1)
  BY <1>1, SharedOperations, SharedCalls
<1> QED BY <1>3, <1>4 DEF Fetching, NotFetching

\* All the tests of osu_oshm_atomics.
LEMMA AtomicsMeasure ==
    ASSUME NEW r \in 0 .. 3, NEW x \in Sharing, x.arrays
    PROVE  \E n \in Nat : Measures(r, OshmAtomics(r, 2), x, x, n) /\ (r < 2 => n = 16 * Iters)
<1> DEFINE d == IF r < 2 THEN Iters ELSE 0
           f == Fetching(r, 2)
           g == NotFetching(r, 2)
           put == Given(r < 2, PutMem(NxtPe(r, 2)))
           four == f \o f \o g \o g
<1>1. d \in Nat /\ Measures(r, f, x, x, d) /\ Measures(r, g, x, x, d)
  BY AtomicMeasures, TurnsType
<1>2. Measures(r, put, x, x, 0)
  BY NxtPeType, SharedOperations, CountsAtRest, GivenCalls, OneAndNone
<1>3. Measures(r, Touch, x, x, 0) /\ Measures(r, BarrierAll, x, x, 0)
  BY SharedCalm
<1>4. OshmAtomics(r, 2)
          = BarrierAll \o Touch \o put \o f \o f \o g \o g \o f \o f \o g \o f \o f \o f \o g \o g
                \o f \o f \o g \o f \o BarrierAll
  BY DEF OshmAtomics, BenchmarkFadd, BenchmarkFinc, BenchmarkAdd, BenchmarkInc, BenchmarkCswap,
         BenchmarkSwap, BenchmarkSet, BenchmarkFetch, BenchmarkFaddLonglong, BenchmarkFincLonglong,
         BenchmarkAddLonglong, BenchmarkIncLonglong, BenchmarkCswapLonglong, BenchmarkSwapLonglong,
         BenchmarkSetLonglong, BenchmarkFetchLonglong
<1>5. ASSUME NEW s, NEW m \in Nat, Measures(r, s, x, x, m),
             NEW t \in {f, g}
      PROVE  Measures(r, s \o t, x, x, m + d) /\ m + d \in Nat
  <2> HIDE DEF d, f, g
  <2>1. Measures(r, t, x, x, d) /\ m + d \in Nat
    BY <1>1, <1>5
  <2> QED BY <1>1, <1>5, <2>1, MeasuresOn
<1> DEFINE s0 == BarrierAll \o Touch \o put
           s4 == s0 \o f \o f \o g \o g
           s8 == s4 \o f \o f \o g \o f
           s12 == s8 \o f \o f \o g \o g
           s16 == s12 \o f \o f \o g \o f
<1>6. OshmAtomics(r, 2) = s16 \o BarrierAll
  BY <1>4
<1>7. r < 2 => d = Iters
  OBVIOUS
<1> HIDE DEF d, f, g, put, s0, s4, s8, s12, s16
<1>8. Measures(r, s0, x, x, 0)
  BY <1>2, <1>3, CalmTwo DEF s0
<1>9. ASSUME NEW s, NEW m \in Nat, Measures(r, s, x, x, m)
      PROVE  /\ Measures(r, s \o f \o f \o g \o g, x, x, m + d + d + d + d)
             /\ Measures(r, s \o f \o f \o g \o f, x, x, m + d + d + d + d)
             /\ m + d + d + d + d \in Nat
  <2>1. Measures(r, s \o f, x, x, m + d) /\ m + d \in Nat
    BY <1>5, <1>9
  <2>2. Measures(r, s \o f \o f, x, x, m + d + d) /\ m + d + d \in Nat
    BY <1>5, <2>1
  <2>3. Measures(r, s \o f \o f \o g, x, x, m + d + d + d) /\ m + d + d + d \in Nat
    BY <1>5, <2>2
  <2> QED BY <1>5, <2>3
<1> DEFINE k(m) == m + d + d + d + d
<1>10. Measures(r, s4, x, x, k(0)) /\ k(0) \in Nat
  BY <1>8, <1>9, OneAndNone DEF s4
<1>11. Measures(r, s8, x, x, k(k(0))) /\ k(k(0)) \in Nat
  <2> DEFINE a == k(0)
  <2>1. Measures(r, s4, x, x, a) /\ a \in Nat
    BY <1>10
  <2> HIDE DEF a
  <2>2. Measures(r, s8, x, x, k(a)) /\ k(a) \in Nat
    BY <1>9, <2>1 DEF s8
  <2> QED BY <2>2 DEF a
<1>12. Measures(r, s12, x, x, k(k(k(0)))) /\ k(k(k(0))) \in Nat
  <2> DEFINE a == k(k(0))
  <2>1. Measures(r, s8, x, x, a) /\ a \in Nat
    BY <1>11
  <2> HIDE DEF a
  <2>2. Measures(r, s12, x, x, k(a)) /\ k(a) \in Nat
    BY <1>9, <2>1 DEF s12
  <2> QED BY <2>2 DEF a
<1>13. Measures(r, s16, x, x, k(k(k(k(0))))) /\ k(k(k(k(0)))) \in Nat
  <2> DEFINE a == k(k(k(0)))
  <2>1. Measures(r, s12, x, x, a) /\ a \in Nat
    BY <1>12
  <2> HIDE DEF a
  <2>2. Measures(r, s16, x, x, k(a)) /\ k(a) \in Nat
    BY <1>9, <2>1 DEF s16
  <2> QED BY <2>2 DEF a
<1>14. k(k(k(k(0)))) = 16 * d
  BY <1>1
<1>15. Measures(r, s16 \o BarrierAll, x, x, 16 * d) /\ 16 * d \in Nat
  BY <1>3, <1>13, <1>14, EarlierOnly
<1> QED BY <1>6, <1>7, <1>15

\* The benchmarks of rates.
LEMMA OshmRateMeasures ==
    ASSUME NEW b \in OshmRate, NEW r \in 0 .. 3, NEW x \in Sharing, x.arrays
    PROVE  \E n \in Nat : Measures(r, PgasProgram(b, r), x, x, n) /\ (r < 2 => n = PgasReported(b))
<1>1. PgasPairs(b) = 2 /\ NxtPe(r, 2) \in Nat
  BY NxtPeType DEF PgasPairs
<1>2. /\ Counts(r, PutMem(NxtPe(r, 2)), x, x, 1) /\ Counts(r, PutMemNbi(NxtPe(r, 2)), x, x, 1)
      /\ Counts(r, GetMemNbi(NxtPe(r, 2)), x, x, 1)
  BY <1>1, SharedOperations
<1>3. CASE b = "osu_oshm_atomics"
  <2>1. PgasProgram(b, r) = OshmAtomics(r, 2) /\ PgasReported(b) = 16 * Iters
    BY <1>1, <1>3 DEF PgasProgram, PgasReported
  <2> QED BY <2>1, AtomicsMeasure
<1>4. CASE b # "osu_oshm_atomics"
  <2> DEFINE transfers == {PutMem(NxtPe(r, 2)), PutMemNbi(NxtPe(r, 2)), GetMemNbi(NxtPe(r, 2))}
  <2>1. \E call \in transfers : PgasProgram(b, r) = RateBenchmark(r, 2, call)
    BY <1>1, <1>4 DEF OshmRate, PgasProgram, OshmPutMr, OshmPutMrNb, OshmGetMrNb
  <2>2. PICK call \in transfers : PgasProgram(b, r) = RateBenchmark(r, 2, call)
    BY <2>1
  <2>3. Counts(r, call, x, x, 1)
    BY <1>2, <2>2
  <2>4. PgasReported(b) = Total(1)
    <3>1. /\ b \notin {"osu_oshm_barrier", "osu_upc_all_barrier"} /\ b # "osu_oshm_atomics"
          /\ b \notin {"osu_oshm_put_overlap", "osu_oshm_get_overlap"}
      BY <1>4 DEF OshmRate
    <3>2. PgasReported(b) = Iters * Len(Sizes)
      BY <3>1, Zenon DEF PgasReported
    <3> QED BY <3>2, TotalOnce
  <2> HIDE DEF transfers
  <2> QED BY <2>2, <2>3, <2>4, RateMeasures
<1> QED BY <1>3, <1>4

\* A collective operation of a PGAS program, with the pSync array it is given.
LEMMA SharedCollectives ==
    ASSUME NEW r, NEW x \in Sharing, NEW kind \in RootedKinds,
           NEW form \in {"plain"} \cup PSyncArrays, form # "plain" => x.arrays
    PROVE  /\ Counts(r, Enter(kind, 0, Everyone, form) \o Leave, x, x, 1)
           /\ Measures(r, Enter(kind, 0, Everyone, form) \o Leave, x, x, 0)
<1>1. kind \in CollectiveKinds \ {"fence"} /\ kind # "sync" /\ 0 \in Nat /\ Everyone \in SUBSET Nat
      /\ x \in Alone
  BY AudiencesAre DEF RootedKinds, CollectiveKinds, Sharing
<1>2. Counts(r, Enter(kind, 0, Everyone, form) \o Leave, x, x, IF kind = "sync" THEN 0 ELSE 1)
  BY <1>1, PlainCollectives
<1>3. Counts(r, Enter(kind, 0, Everyone, form) \o Leave, x, x, 1)
  BY <1>1, <1>2
<1> QED BY <1>3, CountsAtRest, OneAndNone

\* The loop of an OpenSHMEM collective.
LEMMA OshmIterationsMeasure ==
    ASSUME NEW r, NEW x \in Sharing, x.arrays, NEW kind \in RootedKinds, NEW odd \in PSyncArrays,
           NEW even \in PSyncArrays, NEW between, Measures(r, between, x, x, 0)
    PROVE  Measures(r, OshmIterations(kind, odd, even, between), x, x, Iters * 1)
<1> DEFINE form(i) == InTurn(i, odd, even)
           ss == [k \in 1 .. Len(Iterations) |->
                     StartClock \o OshmCall(kind, form(Iterations[k])) \o StopClock
                       \o Given(Measured(Iterations[k]), Sample) \o between]
           b == [k \in 1 .. Len(Iterations) |-> StartClock]
           c == [k \in 1 .. Len(Iterations) |-> OshmCall(kind, form(Iterations[k]))]
<1>1. OshmIterations(kind, odd, even, between) = FlattenSeq(ss)
  BY DEF OshmIterations, ForEach
<1>2. x \in Outside /\ IsLoop(ss, Len(Iterations)) /\ Runs(r, StartClock, x, x, 0)
  BY AloneOutside, Starting DEF IsLoop, Sharing
<1>3. \A k \in 1 .. Len(Iterations) :
         /\ b[k] = StartClock /\ c[k] = OshmCall(kind, form(Iterations[k]))
         /\ ss[k] = StartClock \o OshmCall(kind, form(Iterations[k])) \o StopClock
                       \o Given(Measured(Iterations[k]), Sample) \o between
  OBVIOUS
<1>4. ASSUME NEW k \in 1 .. Len(Iterations) PROVE Counts(r, c[k], x, x, 1)
  <2>1. form(Iterations[k]) \in {"plain"} \cup PSyncArrays
    BY DEF InTurn
  <2> HIDE DEF form, c
  <2> QED BY <1>3, <2>1, SharedCollectives DEF OshmCall
<1> HIDE DEF ss, b, c, form
<1>5. \A k \in 1 .. Len(Iterations) :
          /\ Runs(r, b[k], x, x, 0) /\ Counts(r, c[k], x, x, 1)
          /\ \/ ss[k] = b[k] \o c[k] \o StopClock \o Given(Measured(Iterations[k]), Sample)
             \/ ss[k] = b[k] \o c[k] \o StopClock \o Given(Measured(Iterations[k]), Sample) \o between
  BY <1>2, <1>3, <1>4
<1> QED BY <1>1, <1>2, <1>5, Intervals

\* The loop of a UPC collective.
LEMMA UpcIterationsMeasure ==
    ASSUME NEW r, NEW x \in Sharing, NEW before, Measures(r, before, x, x, 0)
    PROVE  Measures(r, UpcIterations(before), x, x, Iters * 1)
<1> DEFINE ss == [k \in 1 .. Len(Iterations) |->
                     before \o StartClock \o UpcCall \o StopClock
                       \o Given(Measured(Iterations[k]), Sample) \o UpcBarrier]
           b == [k \in 1 .. Len(Iterations) |-> before \o StartClock]
           c == [k \in 1 .. Len(Iterations) |-> UpcCall]
<1>1. UpcIterations(before) = FlattenSeq(ss)
  BY DEF UpcIterations, ForEach
<1>2. x \in Outside /\ IsLoop(ss, Len(Iterations)) /\ Runs(r, StartClock, x, x, 0)
  BY AloneOutside, Starting DEF IsLoop, Sharing
<1>3. Runs(r, before \o StartClock, x, x, 0) /\ Measures(r, UpcBarrier, x, x, 0)
      /\ Counts(r, UpcCall, x, x, 1)
  <2>1. "all" \in RootedKinds /\ "plain" \in {"plain"} \cup PSyncArrays
    BY DEF RootedKinds
  <2>2. Counts(r, UpcCall, x, x, 1)
    BY <2>1, SharedCollectives DEF UpcCall
  <2> QED BY <1>2, <2>2, RunsAfter, SharedCalm
<1>4. \A k \in 1 .. Len(Iterations) :
         /\ b[k] = before \o StartClock /\ c[k] = UpcCall
         /\ ss[k] = before \o StartClock \o UpcCall \o StopClock
                       \o Given(Measured(Iterations[k]), Sample) \o UpcBarrier
  OBVIOUS
<1> HIDE DEF ss, b, c
<1>5. \A k \in 1 .. Len(Iterations) :
          /\ Runs(r, b[k], x, x, 0) /\ Counts(r, c[k], x, x, 1)
          /\ \/ ss[k] = b[k] \o c[k] \o StopClock \o Given(Measured(Iterations[k]), Sample)
             \/ ss[k] = b[k] \o c[k] \o StopClock \o Given(Measured(Iterations[k]), Sample)
                          \o UpcBarrier
  BY <1>3, <1>4
<1> QED BY <1>1, <1>2, <1>3, <1>5, Intervals

\* The loop of a UPC++ collective.
LEMMA UpcxxIterations ==
    ASSUME NEW r, NEW x \in Sharing, NEW kind \in RootedKinds
    PROVE  Measures(r, UpcxxProgram(kind), x, x, Total(1))
<1> DEFINE ss == [k \in 1 .. Len(Iterations) |->
                     StartClock \o UpcxxCall(kind) \o StopClock
                       \o Given(Measured(Iterations[k]), Sample) \o Sync]
           b == [k \in 1 .. Len(Iterations) |-> StartClock]
           c == [k \in 1 .. Len(Iterations) |-> UpcxxCall(kind)]
           s == FlattenSeq(ss) \o Sync \o UpcxxStatistics \o Sync
           n == Iters * 1
<1>1. UpcxxProgram(kind) = Sync \o Times(Len(Sizes), s)
  BY DEF UpcxxProgram, ForEach
<1>2. x \in Outside /\ IsLoop(ss, Len(Iterations)) /\ Runs(r, StartClock, x, x, 0)
  BY AloneOutside, Starting DEF IsLoop, Sharing
<1>3. /\ Measures(r, Sync, x, x, 0) /\ Counts(r, UpcxxCall(kind), x, x, 1)
      /\ Measures(r, UpcxxStatistics, x, x, 0)
  <2>1. "to_root" \in RootedKinds /\ "plain" \in {"plain"} \cup PSyncArrays
    BY DEF RootedKinds
  <2>2. Counts(r, UpcxxCall(kind), x, x, 1) /\ Measures(r, UpcxxCall("to_root"), x, x, 0)
    BY <2>1, SharedCollectives DEF UpcxxCall
  <2>3. Measures(r, Times(3, UpcxxCall("to_root")), x, x, 0)
    BY <2>2, AreCalls, CalmTimes
  <2> QED BY <2>2, <2>3, SharedCalm DEF UpcxxStatistics
<1>4. \A k \in 1 .. Len(Iterations) :
         /\ b[k] = StartClock /\ c[k] = UpcxxCall(kind)
         /\ ss[k] = StartClock \o UpcxxCall(kind) \o StopClock
                       \o Given(Measured(Iterations[k]), Sample) \o Sync
  OBVIOUS
<1> HIDE DEF ss, b, c, s
<1>5. \A k \in 1 .. Len(Iterations) :
          /\ Runs(r, b[k], x, x, 0) /\ Counts(r, c[k], x, x, 1)
          /\ \/ ss[k] = b[k] \o c[k] \o StopClock \o Given(Measured(Iterations[k]), Sample)
             \/ ss[k] = b[k] \o c[k] \o StopClock \o Given(Measured(Iterations[k]), Sample) \o Sync
  BY <1>2, <1>3, <1>4
<1>6. Measures(r, FlattenSeq(ss), x, x, n)
  BY <1>2, <1>3, <1>5, Intervals
<1>60. n \in Nat
  BY RoundType, OneAndNone
<1> HIDE DEF n
<1>7. Measures(r, FlattenSeq(ss) \o Sync, x, x, n)
  BY <1>3, <1>6, <1>60, EarlierOnly
<1>8. Measures(r, FlattenSeq(ss) \o Sync \o UpcxxStatistics, x, x, n)
  BY <1>3, <1>60, <1>7, EarlierOnly
<1>9. Measures(r, s, x, x, n)
  BY <1>3, <1>60, <1>8, EarlierOnly DEF s
<1>10. Measures(r, Times(Len(Sizes), s), x, x, Total(1)) /\ Total(1) \in Nat
  BY <1>9, SizeTimes, TotalType, OneAndNone DEF n
<1> QED BY <1>1, <1>3, <1>10, LaterOnly

\* The UPC++ collectives.
LEMMA UpcxxMeasures ==
    ASSUME NEW b \in UpcxxCollective, NEW r, NEW x \in Sharing
    PROVE  Measures(r, PgasProgram(b, r), x, x, PgasReported(b))
<1>0. "all" \in RootedKinds /\ "from_root" \in RootedKinds /\ "to_root" \in RootedKinds
  BY DEF RootedKinds
<1>1. \E kind \in RootedKinds : PgasProgram(b, r) = UpcxxProgram(kind)
  BY <1>0 DEF UpcxxCollective, PgasProgram, UpcxxAllgather, UpcxxAlltoall, UpcxxBcast,
              UpcxxScatter, UpcxxGather, UpcxxReduce
<1>2. PgasReported(b) = Total(1)
  <2>1. /\ b \notin {"osu_oshm_barrier", "osu_upc_all_barrier"} /\ b # "osu_oshm_atomics"
        /\ b \notin {"osu_oshm_put_overlap", "osu_oshm_get_overlap"}
    BY DEF UpcxxCollective
  <2>2. PgasReported(b) = Iters * Len(Sizes)
    BY <2>1, Zenon DEF PgasReported
  <2> QED BY <2>2, TotalOnce
<1> QED BY <1>1, <1>2, UpcxxIterations

\* The OpenSHMEM collectives.
LEMMA OshmCollectiveMeasures ==
    ASSUME NEW b \in OshmCollective, NEW r, NEW x \in Sharing, x.arrays
    PROVE  Measures(r, PgasProgram(b, r), x, x, PgasReported(b))
<1> DEFINE n == Iters * 1
           barrier == OshmIterations("all", "pSyncBarrier1", "pSyncBarrier2", <<>>)
           broadcast == OshmIterations("from_root", "pSyncBcast1", "pSyncBcast2", BarrierAll)
           collect == OshmIterations("all", "pSyncCollect1", "pSyncCollect2", BarrierAll)
           reduce == OshmIterations("all", "pSyncRed1", "pSyncRed2", BarrierAll)
<1>1. /\ Measures(r, BarrierAll, x, x, 0) /\ Measures(r, <<>>, x, x, 0)
      /\ Measures(r, OshmStatistics, x, x, 0) /\ n \in Nat
  <2>1. Measures(r, ToAll("pSyncRed1"), x, x, 0) /\ Measures(r, ToAll("pSyncRed2"), x, x, 0)
    BY ToAllCalls DEF PSyncArrays
  <2> QED BY <2>1, SharedCalm, Nothing, CalmTwo, RoundType, OneAndNone DEF OshmStatistics
<1>2. /\ Measures(r, barrier, x, x, n) /\ Measures(r, broadcast, x, x, n)
      /\ Measures(r, collect, x, x, n) /\ Measures(r, reduce, x, x, n)
  <2>1. "all" \in RootedKinds /\ "from_root" \in RootedKinds
    BY DEF RootedKinds
  <2>2. {"pSyncBarrier1", "pSyncBarrier2", "pSyncBcast1", "pSyncBcast2", "pSyncCollect1",
         "pSyncCollect2", "pSyncRed1", "pSyncRed2"} \subseteq PSyncArrays
    BY DEF PSyncArrays
  <2> QED BY <1>1, <2>1, <2>2, OshmIterationsMeasure
<1>3. ASSUME NEW s, Measures(r, s, x, x, n)
      PROVE  Measures(r, Times(Len(Sizes), s), x, x, Total(1)) /\ Total(1) \in Nat
  BY <1>3, SizeTimes, TotalType, OneAndNone
<1>4. CASE b = "osu_oshm_barrier"
  <2>1. PgasProgram(b, r) = barrier \o BarrierAll \o OshmStatistics
    BY <1>4 DEF PgasProgram, OshmBarrier
  <2>2. PgasReported(b) = n
    BY <1>4, TotalOnce DEF PgasReported
  <2> HIDE DEF barrier, n
  <2>3. Measures(r, barrier \o BarrierAll \o OshmStatistics, x, x, n)
    BY <1>1, <1>2, EarlierOnly
  <2> QED BY <2>1, <2>2, <2>3
<1>5. CASE b # "osu_oshm_barrier"
  <2>1. PgasReported(b) = Total(1)
    <3>1. /\ b \notin {"osu_oshm_barrier", "osu_upc_all_barrier"} /\ b # "osu_oshm_atomics"
          /\ b \notin {"osu_oshm_put_overlap", "osu_oshm_get_overlap"}
      BY <1>5 DEF OshmCollective
    <3>2. PgasReported(b) = Iters * Len(Sizes)
      BY <3>1, Zenon DEF PgasReported
    <3> QED BY <3>2, TotalOnce
  <2>2. CASE b = "osu_oshm_broadcast"
    <3>1. PgasProgram(b, r) = Times(Len(Sizes), broadcast \o BarrierAll \o OshmStatistics)
      BY <2>2 DEF PgasProgram, OshmBroadcast
    <3> HIDE DEF broadcast, n
    <3>2. Measures(r, broadcast \o BarrierAll \o OshmStatistics, x, x, n)
      BY <1>1, <1>2, EarlierOnly
    <3> QED BY <1>3, <2>1, <3>1, <3>2
  <2>3. CASE b \in {"osu_oshm_collect", "osu_oshm_fcollect"}
    <3> DEFINE s == BarrierAll \o collect \o BarrierAll \o OshmStatistics
    <3>1. PgasProgram(b, r) = Times(Len(Sizes), s) \o BarrierAll
      BY <2>3 DEF PgasProgram, OshmCollect, OshmFcollect
    <3> HIDE DEF collect, n
    <3>2. Measures(r, BarrierAll \o collect \o BarrierAll, x, x, n)
      BY <1>1, <1>2, Between
    <3>3. Measures(r, s, x, x, n)
      BY <1>1, <3>2, EarlierOnly
    <3> HIDE DEF s
    <3> QED BY <1>1, <1>3, <2>1, <3>1, <3>3, EarlierOnly
  <2>4. CASE b = "osu_oshm_reduce"
    <3> DEFINE s == BarrierAll \o reduce \o OshmStatistics \o BarrierAll
    <3>1. PgasProgram(b, r) = Times(Len(Sizes), s) \o BarrierAll
      BY <2>4 DEF PgasProgram, OshmReduce
    <3> HIDE DEF reduce, n
    <3>2. Measures(r, BarrierAll \o reduce \o OshmStatistics, x, x, n)
      BY <1>1, <1>2, Between
    <3>3. Measures(r, s, x, x, n)
      BY <1>1, <3>2, EarlierOnly
    <3> HIDE DEF s
    <3> QED BY <1>1, <1>3, <2>1, <3>1, <3>3, EarlierOnly
  <2> QED BY <1>5, <2>2, <2>3, <2>4 DEF OshmCollective
<1> QED BY <1>4, <1>5

\* The sizes of a UPC collective.
LEMMA UpcSizesMeasure ==
    ASSUME NEW r, NEW x \in Sharing, NEW before, Measures(r, before, x, x, 0)
    PROVE  Measures(r, UpcSizes(before), x, x, Total(1)) /\ Measures(r, UpcStatistics, x, x, 0)
<1> DEFINE n == Iters * 1
           s == UpcIterations(before) \o UpcBarrier \o UpcStatistics
<1>1. Measures(r, UpcStatistics, x, x, 0)
  <2>1. "all" \in RootedKinds /\ "plain" \in {"plain"} \cup PSyncArrays
    BY DEF RootedKinds
  <2>2. Measures(r, UpcCall, x, x, 0)
    BY <2>1, SharedCollectives DEF UpcCall
  <2>3. Measures(r, Times(3, UpcCall), x, x, 0)
    BY <2>2, AreCalls, CalmTimes
  <2> QED BY <2>3 DEF UpcStatistics
<1>2. Measures(r, UpcIterations(before), x, x, n)
  BY UpcIterationsMeasure
<1>3. Measures(r, UpcBarrier, x, x, 0)
  BY SharedCalm
<1>4. n \in Nat
  BY RoundType, OneAndNone
<1>5. UpcSizes(before) = Times(Len(Sizes), s)
  BY DEF UpcSizes
<1> HIDE DEF n
<1>6. Measures(r, UpcIterations(before) \o UpcBarrier, x, x, n)
  BY <1>2, <1>3, <1>4, EarlierOnly
<1>7. Measures(r, s, x, x, n)
  BY <1>1, <1>4, <1>6, EarlierOnly
<1> HIDE DEF s
<1>8. Measures(r, Times(Len(Sizes), s), x, x, Total(1))
  BY <1>7, SizeTimes, OneAndNone DEF n
<1> QED BY <1>1, <1>5, <1>8

\* The UPC collectives.
LEMMA UpcCollectiveMeasures ==
    ASSUME NEW b \in UpcCollective, NEW r, NEW x \in Sharing
    PROVE  Measures(r, PgasProgram(b, r), x, x, PgasReported(b))
<1> DEFINE plain == UpcSizes(<<>>)
           synced == UpcSizes(UpcBarrier)
<1>1. /\ Measures(r, UpcBarrier, x, x, 0) /\ Measures(r, <<>>, x, x, 0)
      /\ 1 \in Nat /\ Total(1) \in Nat
  BY SharedCalm, Nothing, TotalType, OneAndNone
<1>2. /\ Measures(r, plain, x, x, Total(1)) /\ Measures(r, synced, x, x, Total(1))
      /\ Measures(r, UpcStatistics, x, x, 0)
  BY <1>1, UpcSizesMeasure
<1>3. CASE b = "osu_upc_all_barrier"
  <2> DEFINE n == Iters * 1
             loop == InRepeatedIntervals(UpcCall)
  <2>1. PgasProgram(b, r) = UpcBarrier \o loop \o UpcBarrier \o UpcStatistics \o UpcBarrier
    BY <1>3 DEF PgasProgram, UpcAllBarrier
  <2>2. PgasReported(b) = n
    BY <1>3, TotalOnce DEF PgasReported
  <2>3. Measures(r, loop, x, x, n) /\ n \in Nat
    <3>1. "all" \in RootedKinds /\ "plain" \in {"plain"} \cup PSyncArrays
      BY DEF RootedKinds
    <3>2. x \in Outside /\ Counts(r, UpcCall, x, x, 1)
      BY <3>1, SharedCollectives, AloneOutside DEF UpcCall, Sharing
    <3> QED BY <3>2, RepeatedIntervals, RoundType, OneAndNone
  <2> HIDE DEF loop, n
  <2>4. Measures(r, UpcBarrier \o loop \o UpcBarrier, x, x, n)
    BY <1>1, <2>3, Between
  <2>5. Measures(r, UpcBarrier \o loop \o UpcBarrier \o UpcStatistics, x, x, n)
    BY <1>2, <2>3, <2>4, EarlierOnly
  <2>6. Measures(r, UpcBarrier \o loop \o UpcBarrier \o UpcStatistics \o UpcBarrier, x, x, n)
    BY <1>1, <2>3, <2>5, EarlierOnly
  <2> QED BY <2>1, <2>2, <2>6
<1>4. CASE b # "osu_upc_all_barrier"
  <2>1. PgasReported(b) = Total(1)
    <3>1. /\ b \notin {"osu_oshm_barrier", "osu_upc_all_barrier"} /\ b # "osu_oshm_atomics"
          /\ b \notin {"osu_oshm_put_overlap", "osu_oshm_get_overlap"}
      BY <1>4 DEF UpcCollective
    <3>2. PgasReported(b) = Iters * Len(Sizes)
      BY <3>1, Zenon DEF PgasReported
    <3> QED BY <3>2, TotalOnce
  <2>2. \/ PgasProgram(b, r) = plain
        \/ PgasProgram(b, r) = UpcBarrier \o plain \o UpcBarrier
        \/ PgasProgram(b, r) = UpcBarrier \o plain
        \/ PgasProgram(b, r) = synced
    BY <1>4 DEF UpcCollective, PgasProgram, UpcAllBroadcast, UpcAllExchange, UpcAllGather,
                UpcAllGatherAll, UpcAllReduce, UpcAllScatter
  <2> HIDE DEF plain, synced
  <2>3. /\ Measures(r, UpcBarrier \o plain \o UpcBarrier, x, x, Total(1))
        /\ Measures(r, UpcBarrier \o plain, x, x, Total(1))
    BY <1>1, <1>2, Between, LaterOnly
  <2> QED BY <1>2, <2>1, <2>2, <2>3
<1> QED BY <1>3, <1>4

\* The words of the strided types.
LEMMA StridesFit ==
    \A k \in 1 .. Len(BlockSizes) :
        {NumBlocks(BlockSizes[k]) * BlockSizes[k], EndOfType(BlockSizes[k])} \subseteq 0 .. WINDOW_SIZE
<1>1. Len(BlockSizes) = 7 /\ \A k \in 1 .. 7 : BlockSizes[k] = k
  BY DEF BlockSizes
<1> DEFINE fits(b) == {NumBlocks(b) * b, EndOfType(b)} \subseteq 0 .. WINDOW_SIZE
<1>2. \A b : NumBlocks(b) = 8192 \div (2 * b) /\ EndOfType(b) = (NumBlocks(b) - 1) * 2 * b + b
        /\ WINDOW_SIZE = 8192
  BY DEF NumBlocks, EndOfType, WINDOW_SIZE
<1>3. fits(1)
  <2>1. NumBlocks(1) = 4096
    BY <1>2
  <2> QED BY <1>2, <2>1
<1>4. fits(2)
  <2>1. NumBlocks(2) = 2048
    BY <1>2
  <2> QED BY <1>2, <2>1
<1>5. fits(3)
  <2>1. NumBlocks(3) = 1365
    BY <1>2
  <2> QED BY <1>2, <2>1
<1>6. fits(4)
  <2>1. NumBlocks(4) = 1024
    BY <1>2
  <2> QED BY <1>2, <2>1
<1>7. fits(5)
  <2>1. NumBlocks(5) = 819
    BY <1>2
  <2> QED BY <1>2, <2>1
<1>8. fits(6)
  <2>1. NumBlocks(6) = 682
    BY <1>2
  <2> QED BY <1>2, <2>1
<1>9. fits(7)
  <2>1. NumBlocks(7) = 585
    BY <1>2
  <2> QED BY <1>2, <2>1
<1>10. \A k \in 1 .. 7 : k \in {1, 2, 3, 4, 5, 6, 7}
  OBVIOUS
<1> HIDE DEF fits
<1>11. \A k \in 1 .. 7 : fits(k)
  BY <1>3, <1>4, <1>5, <1>6, <1>7, <1>8, <1>9, <1>10, Zenon
<1>12. \A k \in 1 .. Len(BlockSizes) : fits(BlockSizes[k])
  BY <1>1, <1>11
<1> QED BY <1>12 DEF fits

\* Its sections of blocked accesses.
LEMMA StridingSections ==
    ASSUME NEW r, NEW x \in Outside, x.access # "closed", NEW n \in Nat, NEW k \in 1 .. Len(BlockSizes)
    PROVE  Measures(r, Section(BlockSizes[k], n), x, x, n)
<1> DEFINE get == Get(BlockSizes[k])
           reads == Times(n, get)
<1>1. Counts(r, get, x, x, 1)
  <2>1. {NumBlocks(BlockSizes[k]) * BlockSizes[k], EndOfType(BlockSizes[k])} \subseteq 0 .. WINDOW_SIZE
    BY StridesFit
  <2>2. get = RmaWithin(0, TRUE, TRUE)
    BY <2>1 DEF Get
  <2>3. TRUE \in BOOLEAN /\ 0 \in Nat
    OBVIOUS
  <2> HIDE DEF get
  <2> QED BY <2>2, <2>3, Accesses
<1>2. Section(BlockSizes[k], n) = StartClock \o reads \o Flush("all") \o StopClock \o Sample
  BY DEF Section
<1> HIDE DEF get
<1>3. Counts(r, reads, x, x, n)
  <2>1. n * 1 = n /\ 1 \in Nat
    OBVIOUS
  <2>2. Counts(r, reads, x, x, n * 1)
    BY <1>1, <2>1, AreCalls, CountsTimes
  <2> QED BY <2>1, <2>2
<1> HIDE DEF reads
<1>4. Runs(r, StartClock, x, x, 0) /\ Counts(r, Flush("all"), x, x, 0)
  BY Starting, Harmlessly
<1>5. Runs(r, StartClock \o reads, x, x, n)
  BY <1>3, <1>4, OneAndNone, RunsThen
<1>6. Runs(r, StartClock \o reads \o Flush("all"), x, x, n)
  BY <1>4, <1>5, OneAndNone, RunsThen
<1>7. Halts(r, StartClock \o reads \o Flush("all") \o StopClock, x, x, n)
  BY <1>6, Stopping
<1> QED BY <1>2, <1>7, Sampling

\* The striding program.
LEMMA StridingMeasures ==
    ASSUME NEW r, NEW x \in Alone, x.access = "closed"
    PROVE  \E n \in Nat :
              /\ Measures(r, StridingProgram(r, Head(Windows)), x, x, n)
              /\ r # 0 => n = StridingReported(Head(Windows))
<1> DEFINE w == Head(Windows)
           y == Accessing(x, "lock")
           ss == [k \in 1 .. Len(BlockSizes) |-> Section(BlockSizes[k], w)]
           sections == FlattenSeq(ss)
           reads == Times(NTimes, sections)
           n == IF r # 0 THEN NTimes * (Len(BlockSizes) * w) ELSE 0
           c == Len(BlockSizes) * w
<1>1. /\ StridingProgram(r, w) = Sync \o Given(r = 0, Touch) \o Sync \o OpenEpoch("lock")
                                     \o Given(r # 0, reads) \o CloseEpoch("lock") \o Sync
      /\ w \in Nat /\ Len(BlockSizes) = 7
  BY SizesAre DEF StridingProgram, ForEach, BlockSizes
<1>2. /\ y \in Alone /\ y.access = "lock" /\ Counts(r, OpenEpoch("lock"), x, y, 0)
      /\ Counts(r, CloseEpoch("lock"), y, x, 0)
  BY Epochs
<1> HIDE DEF y
<1>3. Measures(r, OpenEpoch("lock"), x, y, 0) /\ Measures(r, CloseEpoch("lock"), y, x, 0)
  BY <1>2, OneAndNone, CountsAtRest
<1>4. /\ x \in Outside /\ y \in Outside
      /\ Measures(r, Sync, x, x, 0) /\ Measures(r, Given(r = 0, Touch), x, x, 0)
  <2>1. x \in Outside /\ y \in Outside
    BY <1>2, AloneOutside
  <2>2. Counts(r, Sync, x, x, 0) /\ Counts(r, Touch, x, x, 0)
    BY <2>1, Barriers, Harmlessly
  <2>3. Measures(r, Sync, x, x, 0) /\ Measures(r, Touch, x, x, 0)
    BY <2>2, OneAndNone, CountsAtRest
  <2> QED BY <2>1, <2>3, GivenCalls
<1>5. \A k \in 1 .. Len(BlockSizes) : Measures(r, ss[k], y, y, w)
  BY <1>1, <1>2, <1>4, StridingSections
<1>6. ss \in Seq(Seq(Calls)) /\ Len(ss) = Len(BlockSizes)
  <2>1. IsLoop(ss, Len(BlockSizes)) /\ Len(BlockSizes) \in Nat
    BY <1>1 DEF IsLoop
  <2>2. \A k \in 1 .. Len(BlockSizes) : ss[k] \in Seq(Calls)
    BY <1>5, AreCalls
  <2> HIDE DEF ss
  <2> QED BY <2>1, <2>2, LoopType
<1> HIDE DEF ss, w
<1>7. Measures(r, sections, y, y, c) /\ c \in Nat
  <2>1. Measures(r, sections, y, y, Len(ss) * w)
    BY <1>1, <1>5, <1>6, MeasuresEach
  <2> QED BY <1>1, <1>6, <2>1
<1> HIDE DEF sections, c
<1>8. Measures(r, reads, y, y, NTimes * c) /\ NTimes * c \in Nat
  <2>1. sections \in Seq(Calls) /\ NTimes \in Nat
    BY <1>7, AreCalls, NTimesAssumption
  <2> QED BY <1>7, <2>1, MeasuresTimes
<1>9. Measures(r, Given(r # 0, reads), y, y, n) /\ n \in Nat
  <2>1. Measures(r, <<>>, y, y, 0)
    BY Nothing
  <2> HIDE DEF reads
  <2> QED BY <1>8, <2>1 DEF Given, c
<1>10. r # 0 => n = StridingReported(w)
  BY <1>1, NTimesAssumption DEF StridingReported
<1> HIDE DEF n, reads
<1>11. Measures(r, Sync \o Given(r = 0, Touch), x, x, 0)
  BY <1>4, CalmOn
<1>12. Measures(r, Sync \o Given(r = 0, Touch) \o Sync, x, x, 0)
  BY <1>4, <1>11, CalmOn
<1>13. Measures(r, Sync \o Given(r = 0, Touch) \o Sync \o OpenEpoch("lock"), x, y, 0)
  BY <1>3, <1>12, CalmOn
<1>14. Measures(r, Sync \o Given(r = 0, Touch) \o Sync \o OpenEpoch("lock")
                     \o Given(r # 0, reads), x, y, n)
  BY <1>9, <1>13, LaterOnly
<1>15. Measures(r, Sync \o Given(r = 0, Touch) \o Sync \o OpenEpoch("lock")
                     \o Given(r # 0, reads) \o CloseEpoch("lock"), x, x, n)
  BY <1>3, <1>9, <1>14, EarlierOnly
<1>16. Measures(r, Sync \o Given(r = 0, Touch) \o Sync \o OpenEpoch("lock")
                     \o Given(r # 0, reads) \o CloseEpoch("lock") \o Sync, x, x, n)
  BY <1>4, <1>9, <1>15, EarlierOnly
<1> QED BY <1>1, <1>9, <1>10, <1>16 DEF w

-----------------------------------------------------------------------------
(* All benchmarks. *)

\* No benchmark is of two families.
LEMMA Apart ==
    /\ CPt2pt \cap OtherPt2ptBenchmarks = {}
    /\ CPt2pt \cap CCollective = {}
    /\ CPt2pt \cap OtherCollectiveBenchmarks = {}
    /\ CPt2pt \cap OneSidedBenchmarks = {}
    /\ CPt2pt \cap PgasBenchmarks = {}
    /\ CPt2pt \cap {"striding"} = {}
    /\ OtherPt2ptBenchmarks \cap CCollective = {}
    /\ OtherPt2ptBenchmarks \cap OtherCollectiveBenchmarks = {}
    /\ OtherPt2ptBenchmarks \cap OneSidedBenchmarks = {}
    /\ OtherPt2ptBenchmarks \cap PgasBenchmarks = {}
    /\ OtherPt2ptBenchmarks \cap {"striding"} = {}
    /\ CCollective \cap OtherCollectiveBenchmarks = {}
    /\ CCollective \cap OneSidedBenchmarks = {}
    /\ CCollective \cap PgasBenchmarks = {}
    /\ CCollective \cap {"striding"} = {}
    /\ OtherCollectiveBenchmarks \cap OneSidedBenchmarks = {}
    /\ OtherCollectiveBenchmarks \cap PgasBenchmarks = {}
    /\ OtherCollectiveBenchmarks \cap {"striding"} = {}
    /\ OneSidedBenchmarks \cap PgasBenchmarks = {}
    /\ OneSidedBenchmarks \cap {"striding"} = {}
    /\ PgasBenchmarks \cap {"striding"} = {}
<1>1. CPt2pt \cap OtherPt2ptBenchmarks = {}
  BY DEF CPt2pt, LatencyTest, BandwidthTest, BiBandwidthTest, Partitioned, Congestion, FanOut, OtherPt2ptBenchmarks, JavaPt2pt, JavaLatency, JavaBandwidth, JavaBiBandwidth, PythonPt2pt, PythonLatencies, XcclPt2pt
<1>2. CPt2pt \cap CCollective = {}
  BY DEF CPt2pt, LatencyTest, BandwidthTest, BiBandwidthTest, Partitioned, Congestion, FanOut, CCollective, Neighborhood, Blocking, NonBlocking, PersistentColl, BlockingNeighborhood, NonBlockingNeighborhood
<1>3. CPt2pt \cap OtherCollectiveBenchmarks = {}
  BY DEF CPt2pt, LatencyTest, BandwidthTest, BiBandwidthTest, Partitioned, Congestion, FanOut, OtherCollectiveBenchmarks, JavaCollective, PythonCollective, XcclCollective
<1>4. CPt2pt \cap OneSidedBenchmarks = {}
  BY DEF CPt2pt, LatencyTest, BandwidthTest, BiBandwidthTest, Partitioned, Congestion, FanOut, OneSidedBenchmarks, OneSidedBandwidth, OneSidedLatency, OneSidedAtomics
<1>5. CPt2pt \cap PgasBenchmarks = {}
  BY DEF CPt2pt, LatencyTest, BandwidthTest, BiBandwidthTest, Partitioned, Congestion, FanOut, PgasBenchmarks, PgasPt2pt, OshmRate, PgasCollective, OshmPt2pt, UpcPt2pt, UpcxxPt2pt, OshmCollective, UpcCollective, UpcxxCollective
<1>6. CPt2pt \cap {"striding"} = {}
  BY DEF CPt2pt, LatencyTest, BandwidthTest, BiBandwidthTest, Partitioned, Congestion, FanOut
<1>7. OtherPt2ptBenchmarks \cap CCollective = {}
  BY DEF OtherPt2ptBenchmarks, JavaPt2pt, JavaLatency, JavaBandwidth, JavaBiBandwidth, PythonPt2pt, PythonLatencies, XcclPt2pt, CCollective, Neighborhood, Blocking, NonBlocking, PersistentColl, BlockingNeighborhood, NonBlockingNeighborhood
<1>8. OtherPt2ptBenchmarks \cap OtherCollectiveBenchmarks = {}
  BY DEF OtherPt2ptBenchmarks, JavaPt2pt, JavaLatency, JavaBandwidth, JavaBiBandwidth, PythonPt2pt, PythonLatencies, XcclPt2pt, OtherCollectiveBenchmarks, JavaCollective, PythonCollective, XcclCollective
<1>9. OtherPt2ptBenchmarks \cap OneSidedBenchmarks = {}
  BY DEF OtherPt2ptBenchmarks, JavaPt2pt, JavaLatency, JavaBandwidth, JavaBiBandwidth, PythonPt2pt, PythonLatencies, XcclPt2pt, OneSidedBenchmarks, OneSidedBandwidth, OneSidedLatency, OneSidedAtomics
<1>10. OtherPt2ptBenchmarks \cap PgasBenchmarks = {}
  BY DEF OtherPt2ptBenchmarks, JavaPt2pt, JavaLatency, JavaBandwidth, JavaBiBandwidth, PythonPt2pt, PythonLatencies, XcclPt2pt, PgasBenchmarks, PgasPt2pt, OshmRate, PgasCollective, OshmPt2pt, UpcPt2pt, UpcxxPt2pt, OshmCollective, UpcCollective, UpcxxCollective
<1>11. OtherPt2ptBenchmarks \cap {"striding"} = {}
  BY DEF OtherPt2ptBenchmarks, JavaPt2pt, JavaLatency, JavaBandwidth, JavaBiBandwidth, PythonPt2pt, PythonLatencies, XcclPt2pt
<1>12. CCollective \cap OtherCollectiveBenchmarks = {}
  BY DEF CCollective, Neighborhood, Blocking, NonBlocking, PersistentColl, BlockingNeighborhood, NonBlockingNeighborhood, OtherCollectiveBenchmarks, JavaCollective, PythonCollective, XcclCollective
<1>13. CCollective \cap OneSidedBenchmarks = {}
  BY DEF CCollective, Neighborhood, Blocking, NonBlocking, PersistentColl, BlockingNeighborhood, NonBlockingNeighborhood, OneSidedBenchmarks, OneSidedBandwidth, OneSidedLatency, OneSidedAtomics
<1>14. CCollective \cap PgasBenchmarks = {}
  BY DEF CCollective, Neighborhood, Blocking, NonBlocking, PersistentColl, BlockingNeighborhood, NonBlockingNeighborhood, PgasBenchmarks, PgasPt2pt, OshmRate, PgasCollective, OshmPt2pt, UpcPt2pt, UpcxxPt2pt, OshmCollective, UpcCollective, UpcxxCollective
<1>15. CCollective \cap {"striding"} = {}
  BY DEF CCollective, Neighborhood, Blocking, NonBlocking, PersistentColl, BlockingNeighborhood, NonBlockingNeighborhood
<1>16. OtherCollectiveBenchmarks \cap OneSidedBenchmarks = {}
  BY DEF OtherCollectiveBenchmarks, JavaCollective, PythonCollective, XcclCollective, OneSidedBenchmarks, OneSidedBandwidth, OneSidedLatency, OneSidedAtomics
<1>17. OtherCollectiveBenchmarks \cap PgasBenchmarks = {}
  BY DEF OtherCollectiveBenchmarks, JavaCollective, PythonCollective, XcclCollective, PgasBenchmarks, PgasPt2pt, OshmRate, PgasCollective, OshmPt2pt, UpcPt2pt, UpcxxPt2pt, OshmCollective, UpcCollective, UpcxxCollective
<1>18. OtherCollectiveBenchmarks \cap {"striding"} = {}
  BY DEF OtherCollectiveBenchmarks, JavaCollective, PythonCollective, XcclCollective
<1>19. OneSidedBenchmarks \cap PgasBenchmarks = {}
  BY DEF OneSidedBenchmarks, OneSidedBandwidth, OneSidedLatency, OneSidedAtomics, PgasBenchmarks, PgasPt2pt, OshmRate, PgasCollective, OshmPt2pt, UpcPt2pt, UpcxxPt2pt, OshmCollective, UpcCollective, UpcxxCollective
<1>20. OneSidedBenchmarks \cap {"striding"} = {}
  BY DEF OneSidedBenchmarks, OneSidedBandwidth, OneSidedLatency, OneSidedAtomics
<1>21. PgasBenchmarks \cap {"striding"} = {}
  BY DEF PgasBenchmarks, PgasPt2pt, OshmRate, PgasCollective, OshmPt2pt, UpcPt2pt, UpcxxPt2pt, OshmCollective, UpcCollective, UpcxxCollective
<1> QED BY <1>1, <1>2, <1>3, <1>4, <1>5, <1>6, <1>7, <1>8, <1>9, <1>10, <1>11, <1>12, <1>13, <1>14, <1>15, <1>16, <1>17, <1>18, <1>19, <1>20, <1>21

\* Nor of two families of PGAS programs.
LEMMA PgasApart ==
    /\ PgasPt2pt \cap OshmRate = {} /\ PgasPt2pt \cap PgasCollective = {}
    /\ OshmRate \cap PgasCollective = {}
    /\ "py_multi_lat" \in OtherPt2ptBenchmarks /\ PythonLatencies \subseteq OtherPt2ptBenchmarks
    /\ PgasPt2pt \cup OshmRate \cup PgasCollective = PgasBenchmarks
<1>1. PgasPt2pt \cap OshmRate = {} /\ PgasPt2pt \cap PgasCollective = {}
  BY DEF PgasPt2pt, OshmRate, PgasCollective, OshmPt2pt, UpcPt2pt, UpcxxPt2pt, OshmCollective,
         UpcCollective, UpcxxCollective
<1>2. OshmRate \cap PgasCollective = {}
  BY DEF OshmRate, PgasCollective, OshmCollective, UpcCollective, UpcxxCollective
<1> QED BY <1>1, <1>2 DEF OtherPt2ptBenchmarks, PythonPt2pt, PythonLatencies, PgasBenchmarks

\* Table enumerates a function and changes nothing.
LEMMA Tables == ASSUME NEW f PROVE Table(f) = f
BY DEF Table

\* The actors of a benchmark: its ranks, and the threads of osu_latency_mt.
LEMMA ActorsAre ==
    ASSUME NEW b \in Benchmarks
    PROVE  /\ b \in CPt2pt => Actors[b] = CPt2ptActors(b)
           /\ b = "py_multi_lat" => Actors[b] = (0 .. 3) \X {0}
           /\ b \in (OtherPt2ptBenchmarks \ {"py_multi_lat"}) \cup OneSidedBenchmarks \cup PgasPt2pt
                  => Actors[b] = {0, 1} \X {0}
           /\ b \in OshmRate => Actors[b] = (0 .. 3) \X {0}
           /\ b \in CCollective \cup OtherCollectiveBenchmarks \cup PgasCollective \cup {"striding"}
                  => Actors[b] = (0 .. Procs - 1) \X {0}
<1> DEFINE pairs == (OtherPt2ptBenchmarks \ {"py_multi_lat"}) \cup OneSidedBenchmarks \cup PgasPt2pt
           python == (0 .. 2 * PythonPairs - 1) \X {0}
           rate == (0 .. 2 * PgasPairs(b) - 1) \X {0}
           two == {0, 1} \X {0}
           all == (0 .. Procs - 1) \X {0}
<1> DEFINE F == [c \in Benchmarks |->
        CASE c \in CPt2pt -> CPt2ptActors(c)
          [] c = "py_multi_lat" -> (0 .. 2 * PythonPairs - 1) \X {0}
          [] c \in (OtherPt2ptBenchmarks \ {"py_multi_lat"}) \cup OneSidedBenchmarks \cup PgasPt2pt
                -> {0, 1} \X {0}
          [] c \in OshmRate -> (0 .. 2 * PgasPairs(c) - 1) \X {0}
          [] OTHER -> (0 .. Procs - 1) \X {0}]
<1>0. Actors = F
  <2>1. Actors = Table(F)
    BY DEF Actors
  <2> HIDE DEF F
  <2> QED BY <2>1, Tables
<1>1. Actors[b] =
        CASE b \in CPt2pt -> CPt2ptActors(b)
          [] b = "py_multi_lat" -> python
          [] b \in pairs -> two
          [] b \in OshmRate -> rate
          [] OTHER -> all
  BY <1>0
<1>2. python = (0 .. 3) \X {0} /\ (b \in OshmRate => rate = (0 .. 3) \X {0})
  BY DEF PythonPairs, PgasPairs
<1>3. "py_multi_lat" \notin pairs /\ pairs \cap OshmRate = {} /\ "py_multi_lat" \notin OshmRate
      /\ CPt2pt \cap pairs = {} /\ CPt2pt \cap OshmRate = {} /\ "py_multi_lat" \notin CPt2pt
  BY Apart, PgasApart
<1>4. b \in CCollective \cup OtherCollectiveBenchmarks \cup PgasCollective \cup {"striding"}
          => b \notin CPt2pt \cup pairs \cup OshmRate \cup {"py_multi_lat"}
  BY Apart, PgasApart
<1> HIDE DEF F, pairs, python, rate, two, all
<1>5. /\ b \in CPt2pt => Actors[b] = CPt2ptActors(b)
      /\ b = "py_multi_lat" => Actors[b] = python
      /\ b \in pairs => Actors[b] = two
      /\ b \in OshmRate => Actors[b] = rate
      /\ b \notin CPt2pt \cup pairs \cup OshmRate \cup {"py_multi_lat"} => Actors[b] = all
  <2>1. CASE b \in CPt2pt
    <3>1. b # "py_multi_lat" /\ b \notin pairs /\ b \notin OshmRate
      BY <1>3, <2>1
    <3> QED BY <1>1, <2>1, <3>1
  <2>2. CASE b = "py_multi_lat"
    <3>1. b \notin CPt2pt /\ b \notin pairs /\ b \notin OshmRate
      BY <1>3, <2>2
    <3> QED BY <1>1, <2>2, <3>1
  <2>3. CASE b \in pairs
    <3>1. b \notin CPt2pt /\ b # "py_multi_lat" /\ b \notin OshmRate
      BY <1>3, <2>3
    <3> QED BY <1>1, <2>3, <3>1
  <2>4. CASE b \in OshmRate
    <3>1. b \notin CPt2pt /\ b # "py_multi_lat" /\ b \notin pairs
      BY <1>3, <2>4
    <3> QED BY <1>1, <2>4, <3>1
  <2>5. CASE b \notin CPt2pt \cup pairs \cup OshmRate \cup {"py_multi_lat"}
    <3>1. b \notin CPt2pt /\ b # "py_multi_lat" /\ b \notin pairs /\ b \notin OshmRate
      BY <2>5
    <3> QED BY <1>1, <2>5, <3>1
  <2> QED BY <2>1, <2>2, <2>3, <2>4, <2>5
<1> QED BY <1>2, <1>4, <1>5 DEF pairs, two, all

\* Every benchmark is of one of the families.
LEMMA BenchmarkKinds ==
    ASSUME NEW b \in Benchmarks
    PROVE  b \in CPt2pt \cup OtherPt2ptBenchmarks \cup CCollective \cup OtherCollectiveBenchmarks
                   \cup OneSidedBenchmarks \cup PgasBenchmarks \cup {"striding"}
BY BenchmarksAssumption

\* The ranks and their threads.
LEMMA ActorType ==
    ASSUME NEW b \in Benchmarks, NEW a \in Actors[b]
    PROVE  /\ a = <<a[1], a[2]>> /\ a[1] \in Nat /\ a[2] \in 0 .. SenderThreads + ReceiverThreads
           /\ b # "osu_latency_mt" => a[2] = 0
           /\ a[1] \in Ranks[b] /\ a[2] \in Threads(b, a[1])
<1>1. a[1] \in Ranks[b] /\ a[2] \in Threads(b, a[1])
  BY Tables DEF Ranks, Threads
<1>2. 0 \in 0 .. SenderThreads + ReceiverThreads /\ Procs \in Nat
  BY ThreadsAssumption, ProcsAssumption
<1>3. CASE b \in CPt2pt
  <2>1. a \in CPt2ptActors(b)
    BY <1>3, ActorsAre
  <2>2. a \in CPt2ptRanks(b) \X (0 .. SenderThreads + ReceiverThreads) /\ a[2] < ThreadCount(b, a[1])
    BY <2>1 DEF CPt2ptActors
  <2>3. a = <<a[1], a[2]>> /\ a[1] \in CPt2ptRanks(b) /\ a[2] \in 0 .. SenderThreads + ReceiverThreads
    BY <2>2
  <2>4. a[1] \in Nat
    BY <2>3 DEF CPt2ptRanks
  <2>5. b # "osu_latency_mt" => a[2] = 0
    BY <2>2, <2>3 DEF ThreadCount
  <2> QED BY <1>1, <2>3, <2>4, <2>5
<1>4. CASE b \notin CPt2pt
  <2>1. \E S \in SUBSET Nat : Actors[b] = S \X {0}
    <3>1. 0 .. 3 \in SUBSET Nat /\ {0, 1} \in SUBSET Nat /\ 0 .. Procs - 1 \in SUBSET Nat
      BY <1>2
    <3>2. \/ b = "py_multi_lat" \/ b \in OshmRate
          \/ b \in (OtherPt2ptBenchmarks \ {"py_multi_lat"}) \cup OneSidedBenchmarks \cup PgasPt2pt
          \/ b \in CCollective \cup OtherCollectiveBenchmarks \cup PgasCollective \cup {"striding"}
      BY <1>4, BenchmarkKinds, PgasApart
    <3> QED BY <3>1, <3>2, ActorsAre
  <2>2. a = <<a[1], a[2]>> /\ a[1] \in Nat /\ a[2] = 0
    BY <2>1
  <2> QED BY <1>1, <1>2, <2>2
<1> QED BY <1>3, <1>4

\* A rank is a number.
LEMMA RankType ==
    ASSUME NEW b \in Benchmarks, NEW r \in Ranks[b]
    PROVE  \E a \in Actors[b] : a[1] = r
BY Tables DEF Ranks

\* The ranks of a benchmark are those of its actors.
LEMMA RanksAre ==
    ASSUME NEW b \in Benchmarks, NEW r \in Ranks[b]
    PROVE  /\ b \in CPt2pt => r \in CPt2ptRanks(b)
           /\ b \in OtherPt2ptBenchmarks => OtherPt2ptRank(b, r)
           /\ b \in OneSidedBenchmarks \cup PgasPt2pt => r \in {0, 1}
           /\ b \in OshmRate => r \in 0 .. 3
<1>1. PICK a \in Actors[b] : a[1] = r
  BY RankType
<1>2. b \in CPt2pt => r \in CPt2ptRanks(b)
  <2> SUFFICES ASSUME b \in CPt2pt PROVE r \in CPt2ptRanks(b)
    OBVIOUS
  <2>1. a \in CPt2ptRanks(b) \X (0 .. SenderThreads + ReceiverThreads)
    BY <1>1, ActorsAre DEF CPt2ptActors
  <2> QED BY <1>1, <2>1
<1>3. b \in OtherPt2ptBenchmarks => OtherPt2ptRank(b, r)
  <2>1. CASE b = "py_multi_lat"
    <3>1. a \in (0 .. 3) \X {0}
      BY <2>1, ActorsAre
    <3> QED BY <1>1, <2>1, <3>1 DEF OtherPt2ptRank
  <2>2. CASE b # "py_multi_lat" /\ b \in OtherPt2ptBenchmarks
    <3>1. a \in {0, 1} \X {0}
      BY <2>2, ActorsAre
    <3> QED BY <1>1, <2>2, <3>1 DEF OtherPt2ptRank
  <2> QED BY <2>1, <2>2
<1>4. b \in OneSidedBenchmarks \cup PgasPt2pt => r \in {0, 1}
  <2> SUFFICES ASSUME b \in OneSidedBenchmarks \cup PgasPt2pt PROVE r \in {0, 1}
    OBVIOUS
  <2>1. a \in {0, 1} \X {0}
    BY <1>1, ActorsAre
  <2> QED BY <1>1, <2>1
<1>5. b \in OshmRate => r \in 0 .. 3
  <2> SUFFICES ASSUME b \in OshmRate PROVE r \in 0 .. 3
    OBVIOUS
  <2>1. a \in (0 .. 3) \X {0}
    BY <1>1, ActorsAre
  <2> QED BY <1>1, <2>1
<1> QED BY <1>2, <1>3, <1>4, <1>5

\* The script of a rank is its program.
LEMMA ScriptsAre ==
    ASSUME NEW b \in Benchmarks
    PROVE  /\ DOMAIN Scripts[b] = OptionsOf(b)
           /\ \A o \in OptionsOf(b), r \in Ranks[b] : Scripts[b][o][r] = Program(b, r, o)
<1> DEFINE scripts(c) == [o \in OptionsOf(c) |-> Table([r \in Ranks[c] |-> Program(c, r, o)])]
<1>1. Scripts = [c \in Benchmarks |-> Table(scripts(c))]
  BY Tables, ProgramsAssumption DEF Scripts, SuiteScripts
<1>2. Scripts[b] = scripts(b)
  BY <1>1, Tables
<1>3. \A o \in OptionsOf(b) : scripts(b)[o] = [r \in Ranks[b] |-> Program(b, r, o)]
  BY Tables
<1> HIDE DEF scripts
<1>4. \A o \in OptionsOf(b) : Scripts[b][o] = [r \in Ranks[b] |-> Program(b, r, o)]
  BY <1>2, <1>3
<1>5. DOMAIN Scripts[b] = OptionsOf(b)
  BY <1>2 DEF scripts
<1> QED BY <1>4, <1>5

\* The benchmarks that a run picks are benchmarks.
LEMMA RepresentativesAre == Representatives \subseteq Benchmarks
<1>1. \A b \in Benchmarks : (CHOOSE c \in Benchmarks : Scripts[c] = Scripts[b]) \in Benchmarks
  OBVIOUS
<1> QED BY <1>1 DEF Representatives

\* What an actor of a benchmark starts with, and which ranks have a clock.
Beginning(b) ==
    [access |-> IF b \in PgasBenchmarks THEN "open" ELSE "closed",
     active |-> Unchanged0, request |-> NoRequest, phase |-> "out",
     strict |-> b # Unmade, alone |-> b # "osu_latency_mt", last |-> b \in CPt2pt \cup CCollective,
     arrays |-> b \in OshmRate \cup OshmCollective]

Clocked(b, r) ==
    CASE b \in CPt2pt -> IsSender(b, r)
      [] b \in PythonLatencies -> TRUE
      [] b \in (OtherPt2ptBenchmarks \ PythonLatencies) \cup OneSidedBenchmarks \cup PgasPt2pt
            -> r = 0
      [] b \in OshmRate -> r < PgasPairs(b)
      [] b = "striding" -> r # 0
      [] OTHER -> TRUE

\* It is a state in which calls are legal.
LEMMA BeginningType ==
    ASSUME NEW b
    PROVE  /\ Beginning(b) \in Outside
           /\ b # "osu_latency_mt" => Beginning(b) \in Alone
           /\ b \in PgasBenchmarks => Beginning(b).access = "open"
           /\ b \notin PgasBenchmarks => Beginning(b).access = "closed"
           /\ Beginning(b).active = Unchanged0 /\ Beginning(b).request = NoRequest
           /\ Beginning(b).strict = (b # Unmade) /\ Beginning(b).alone = (b # "osu_latency_mt")
           /\ Beginning(b).last = (b \in CPt2pt \cup CCollective)
           /\ Beginning(b).arrays = (b \in OshmRate \cup OshmCollective)
           /\ Beginning(b).phase = "out"
<1> DEFINE x == Beginning(b)
<1>1. Unchanged0 \in Buffers /\ NoRequest \in [kind : {"none"}] /\ x.active = Unchanged0
      /\ x.request = NoRequest /\ x.strict = (b # Unmade) /\ x.alone = (b # "osu_latency_mt")
      /\ x.last = (b \in CPt2pt \cup CCollective) /\ x.phase = "out"
      /\ x.arrays = (b \in OshmRate \cup OshmCollective)
      /\ (b \in PgasBenchmarks => x.access = "open")
      /\ (b \notin PgasBenchmarks => x.access = "closed")
  BY DEF Beginning, Unchanged0, Buffers, NoRequest
<1>2. x \in Locals
  <2>1. (b # Unmade) \in BOOLEAN /\ (b # "osu_latency_mt") \in BOOLEAN
        /\ (b \in CPt2pt \cup CCollective) \in BOOLEAN /\ (b \in OshmRate \cup OshmCollective) \in BOOLEAN
    OBVIOUS
  <2>2. (IF b \in PgasBenchmarks THEN "open" ELSE "closed") \in {"open", "closed", "lock", "start", "fence"}
    OBVIOUS
  <2>3. Unchanged0 \in Buffers /\ NoRequest \in [kind : {"none"}] \cup [kind : CollectiveKinds, root : Nat, active : Buffers]
    BY <1>1
  <2> QED BY <2>1, <2>2, <2>3 DEF Beginning, Locals
<1> HIDE DEF x
<1> QED BY <1>1, <1>2 DEF Outside, Alone, x

\* Family by family.
LEMMA ClockedIs ==
    ASSUME NEW b, NEW r
    PROVE  /\ b \in CPt2pt => Clocked(b, r) = IsSender(b, r)
           /\ b \in OtherPt2ptBenchmarks /\ b \notin PythonLatencies => (Clocked(b, r) = (r = 0))
           /\ b \in OneSidedBenchmarks \cup PgasPt2pt => (Clocked(b, r) = (r = 0))
           /\ b \in OshmRate => (Clocked(b, r) = (r < 2))
           /\ b = "striding" => (Clocked(b, r) = (r # 0))
<1> DEFINE zero == (OtherPt2ptBenchmarks \ PythonLatencies) \cup OneSidedBenchmarks \cup PgasPt2pt
<1>1. Clocked(b, r) =
        CASE b \in CPt2pt -> IsSender(b, r)
          [] b \in PythonLatencies -> TRUE
          [] b \in zero -> r = 0
          [] b \in OshmRate -> r < PgasPairs(b)
          [] b = "striding" -> r # 0
          [] OTHER -> TRUE
  BY DEF Clocked
<1>2. CASE b \in CPt2pt
  <2>1. /\ b \notin PythonLatencies /\ b \notin zero /\ b \notin OshmRate /\ b # "striding"
        /\ b \notin OtherPt2ptBenchmarks /\ b \notin OneSidedBenchmarks \cup PgasPt2pt
    BY <1>2, Apart, PgasApart
  <2> HIDE DEF zero
  <2> QED BY <1>1, <1>2, <2>1
<1>3. CASE b \in zero
  <2>1. /\ b \notin CPt2pt /\ b \notin PythonLatencies /\ b \notin OshmRate /\ b # "striding"
    BY <1>3, Apart, PgasApart
  <2> HIDE DEF zero
  <2> QED BY <1>1, <1>3, <2>1
<1>4. CASE b \in OshmRate
  <2>1. /\ b \notin PythonLatencies /\ b \notin zero /\ b \notin CPt2pt /\ b # "striding"
        /\ b \notin OtherPt2ptBenchmarks /\ b \notin OneSidedBenchmarks \cup PgasPt2pt
    BY <1>4, Apart, PgasApart
  <2>2. PgasPairs(b) = 2
    BY <1>4 DEF PgasPairs
  <2> HIDE DEF zero
  <2> QED BY <1>1, <1>4, <2>1, <2>2
<1>5. CASE b = "striding"
  <2>1. /\ b \notin PythonLatencies /\ b \notin zero /\ b \notin OshmRate /\ b \notin CPt2pt
        /\ b \notin OtherPt2ptBenchmarks /\ b \notin OneSidedBenchmarks \cup PgasPt2pt
    BY <1>5, Apart, PgasApart
  <2> HIDE DEF zero
  <2> QED BY <1>1, <1>5, <2>1
<1> QED BY <1>2, <1>3, <1>4, <1>5

\* The program of a rank, and the printed value, family by family.
LEMMA ProgramsAre ==
    ASSUME NEW b, NEW r, NEW o
    PROVE  /\ b \in CPt2pt => Program(b, r, o) = CPt2ptProgram(b, r, o.validate) /\ Reported(b) = CPt2ptReported(b)
           /\ b \in OtherPt2ptBenchmarks => Program(b, r, o) = OtherPt2ptProgram(b, r, o.validate) /\ Reported(b) = OtherPt2ptReported(b)
           /\ b \in CCollective => Program(b, r, o) = CCollectiveProgram(b, r, o) /\ Reported(b) = CCollectiveReported(b)
           /\ b \in OtherCollectiveBenchmarks => Program(b, r, o) = OtherCollectiveProgram(b, r, o.validate) /\ Reported(b) = OtherCollectiveReported(b)
           /\ b \in OneSidedBenchmarks => Program(b, r, o) = OneSidedProgram(b, o.sync, r, Head(Windows), o.validate) /\ Reported(b) = OneSidedReported(b, Head(Windows))
           /\ b \in PgasBenchmarks => Program(b, r, o) = PgasProgram(b, r) /\ Reported(b) = PgasReported(b)
           /\ b = "striding" => Program(b, r, o) = StridingProgram(r, Head(Windows)) /\ Reported(b) = StridingReported(Head(Windows))
<1>1. CASE b \in CPt2pt
  <2>1. b \notin OtherPt2ptBenchmarks /\ b \notin CCollective /\ b \notin OtherCollectiveBenchmarks
        /\ b \notin OneSidedBenchmarks /\ b \notin PgasBenchmarks /\ b # "striding"
    BY <1>1, Apart
  <2>2. Program(b, r, o) = CPt2ptProgram(b, r, o.validate)
    BY <1>1, <2>1, Zenon DEF Program
  <2>3. Reported(b) = CPt2ptReported(b)
    BY <1>1, <2>1, Zenon DEF Reported
  <2> QED BY <1>1, <2>1, <2>2, <2>3
<1>2. CASE b \in OtherPt2ptBenchmarks
  <2>1. b \notin CPt2pt /\ b \notin CCollective /\ b \notin OtherCollectiveBenchmarks
        /\ b \notin OneSidedBenchmarks /\ b \notin PgasBenchmarks /\ b # "striding"
    BY <1>2, Apart
  <2>2. Program(b, r, o) = OtherPt2ptProgram(b, r, o.validate)
    BY <1>2, <2>1, Zenon DEF Program
  <2>3. Reported(b) = OtherPt2ptReported(b)
    BY <1>2, <2>1, Zenon DEF Reported
  <2> QED BY <1>2, <2>1, <2>2, <2>3
<1>3. CASE b \in CCollective
  <2>1. b \notin CPt2pt /\ b \notin OtherPt2ptBenchmarks /\ b \notin OtherCollectiveBenchmarks
        /\ b \notin OneSidedBenchmarks /\ b \notin PgasBenchmarks /\ b # "striding"
    BY <1>3, Apart
  <2>2. Program(b, r, o) = CCollectiveProgram(b, r, o)
    BY <1>3, <2>1, Zenon DEF Program
  <2>3. Reported(b) = CCollectiveReported(b)
    BY <1>3, <2>1, Zenon DEF Reported
  <2> QED BY <1>3, <2>1, <2>2, <2>3
<1>4. CASE b \in OtherCollectiveBenchmarks
  <2>1. b \notin CPt2pt /\ b \notin OtherPt2ptBenchmarks /\ b \notin CCollective
        /\ b \notin OneSidedBenchmarks /\ b \notin PgasBenchmarks /\ b # "striding"
    BY <1>4, Apart
  <2>2. Program(b, r, o) = OtherCollectiveProgram(b, r, o.validate)
    BY <1>4, <2>1, Zenon DEF Program
  <2>3. Reported(b) = OtherCollectiveReported(b)
    BY <1>4, <2>1, Zenon DEF Reported
  <2> QED BY <1>4, <2>1, <2>2, <2>3
<1>5. CASE b \in OneSidedBenchmarks
  <2>1. b \notin CPt2pt /\ b \notin OtherPt2ptBenchmarks /\ b \notin CCollective
        /\ b \notin OtherCollectiveBenchmarks /\ b \notin PgasBenchmarks /\ b # "striding"
    BY <1>5, Apart
  <2>2. Program(b, r, o) = OneSidedProgram(b, o.sync, r, Head(Windows), o.validate)
    BY <1>5, <2>1, Zenon DEF Program
  <2>3. Reported(b) = OneSidedReported(b, Head(Windows))
    BY <1>5, <2>1, Zenon DEF Reported
  <2> QED BY <1>5, <2>1, <2>2, <2>3
<1>6. CASE b \in PgasBenchmarks
  <2>1. b \notin CPt2pt /\ b \notin OtherPt2ptBenchmarks /\ b \notin CCollective
        /\ b \notin OtherCollectiveBenchmarks /\ b \notin OneSidedBenchmarks /\ b # "striding"
    BY <1>6, Apart
  <2>2. Program(b, r, o) = PgasProgram(b, r)
    BY <1>6, <2>1, Zenon DEF Program
  <2>3. Reported(b) = PgasReported(b)
    BY <1>6, <2>1, Zenon DEF Reported
  <2> QED BY <1>6, <2>1, <2>2, <2>3
<1>7. CASE b = "striding"
  <2>1. b \notin CPt2pt /\ b \notin OtherPt2ptBenchmarks /\ b \notin CCollective
        /\ b \notin OtherCollectiveBenchmarks /\ b \notin OneSidedBenchmarks /\ b \notin PgasBenchmarks
    BY <1>7, Apart
  <2>2. Program(b, r, o) = StridingProgram(r, Head(Windows))
    BY <1>7, <2>1, Zenon DEF Program
  <2>3. Reported(b) = StridingReported(Head(Windows))
    BY <1>7, <2>1, Zenon DEF Reported
  <2> QED BY <1>7, <2>1, <2>2, <2>3
<1> QED BY <1>1, <1>2, <1>3, <1>4, <1>5, <1>6, <1>7

\* The options that every benchmark has.
LEMMA OptionsAre ==
    ASSUME NEW b, NEW o \in OptionsOf(b)
    PROVE  o.validate \in BOOLEAN /\ (b \in OneSidedBenchmarks => o.sync \in ValidateSyncType(b))
BY DEF OptionsOf, SyncTypes

\* The printed value stands for a number of transfers.
LEMMA ReportedType == ASSUME NEW b \in Benchmarks, b \notin CPt2pt PROVE Reported(b) \in Nat
<1>0. /\ Head(Windows) \in Nat /\ Iters \in Nat /\ Len(Sizes) \in Nat /\ Iters * Len(Sizes) \in Nat
      /\ Iters * 1 = Iters
  BY SizesAre, ItersAssumption
<1>1. CASE b \in OtherPt2ptBenchmarks
  <2>1. Total(2) \in Nat /\ Total(Head(Windows)) \in Nat /\ Total(Head(Windows) + Head(Windows)) \in Nat
    <3>1. 2 \in Nat /\ Head(Windows) + Head(Windows) \in Nat
      BY <1>0
    <3> QED BY <1>0, <3>1, TotalType
  <2>2. \/ b \in {"OSULatency", "osu_xccl_latency"} \cup PythonLatencies
        \/ b \in JavaBandwidth \cup {"py_bw", "osu_xccl_bw"}
        \/ b \in JavaBiBandwidth \cup {"py_bibw", "osu_xccl_bibw"}
    BY <1>1 DEF OtherPt2ptBenchmarks, JavaPt2pt, JavaLatency, PythonPt2pt, XcclPt2pt
  <2> QED BY <1>1, <2>1, <2>2, OtherPt2ptReports, ProgramsAre
<1>2. CASE b \in CCollective
  <2> DEFINE k == IF IsNonBlocking(b) THEN 2 ELSE 1
             m == Len(CollectiveSizes(b))
  <2>1. k \in Nat /\ m \in Nat
    BY CollectiveSizesAre
  <2>2. Reported(b) = Iters * m * k
    BY <1>2, ProgramsAre DEF CCollectiveReported
  <2> HIDE DEF k, m
  <2>3. Iters * m \in Nat
    BY <1>0, <2>1
  <2> QED BY <2>1, <2>2, <2>3
<1>3. CASE b \in OtherCollectiveBenchmarks
  <2>1. OtherCollectiveReported(b) \in Nat
    BY <1>0 DEF OtherCollectiveReported
  <2> QED BY <1>3, <2>1, ProgramsAre
<1>4. CASE b \in OneSidedBenchmarks
  <2>1. Reported(b) = OneSidedReported(b, Head(Windows))
    BY <1>4, ProgramsAre
  <2> DEFINE k == IF b \in OneSidedBandwidth \cup {"osu_put_bibw"} THEN Head(Windows) ELSE 1
             m == Iters * Len(Sizes)
  <2>2. k \in Nat /\ m \in Nat
    BY <1>0
  <2>3. Reported(b) = m * k
    BY <2>1 DEF OneSidedReported
  <2> HIDE DEF k, m
  <2> QED BY <2>2, <2>3
<1>5. CASE b \in PgasBenchmarks
  <2>1. PgasReported(b) \in Nat
    <3>1. 2 * Iters * Len(Sizes) \in Nat
      BY <1>0
    <3> QED BY <1>0, <3>1 DEF PgasReported
  <2> QED BY <1>5, <2>1, ProgramsAre
<1>6. CASE b = "striding"
  <2>1. StridingReported(Head(Windows)) \in Nat
    BY <1>0, NTimesAssumption DEF StridingReported, BlockSizes
  <2> QED BY <1>6, <2>1, ProgramsAre
<1> QED BY <1>1, <1>2, <1>3, <1>4, <1>5, <1>6, BenchmarkKinds

\* The program of a rank: where it begins, its calls are legal and orderly, and
\* what its clock counts is what the line that is printed stands for.
LEMMA ProgramMeasures ==
    ASSUME NEW b \in Benchmarks, NEW o \in OptionsOf(b), NEW r \in Ranks[b]
    PROVE  \E y, n :
              /\ Measures(r, Program(b, r, o), Beginning(b), y, n) /\ AtRest(y)
              /\ Clocked(b, r) /\ b \notin FanOut => n = Reported(b) /\ n \in Nat
<1> DEFINE x == Beginning(b)
<1>1. /\ x \in Outside /\ (b # "osu_latency_mt" => x \in Alone)
      /\ (b \in PgasBenchmarks => x.access = "open")
      /\ (b \notin PgasBenchmarks => x.access = "closed")
      /\ x.active = Unchanged0 /\ x.request = NoRequest
      /\ (b = Unmade => ~x.strict) /\ (b \in CPt2pt \cup CCollective => x.last)
      /\ (b = "osu_latency_mt" => ~x.alone) /\ (b \in OshmRate \cup OshmCollective => x.arrays)
      /\ AtRest(x)
  BY BeginningType DEF AtRest
<1>2. "osu_latency_mt" \in CPt2pt
  BY DEF CPt2pt, LatencyTest
<1> HIDE DEF x
<1>3. CASE b \in CPt2pt
  <2>1. Placed(b, x) /\ x.last /\ r \in CPt2ptRanks(b) /\ o.validate \in BOOLEAN
    BY <1>1, <1>3, RanksAre, OptionsAre DEF Placed
  <2>2. Program(b, r, o) = CPt2ptProgram(b, r, o.validate) /\ Reported(b) = CPt2ptReported(b)
        /\ Clocked(b, r) = IsSender(b, r)
    BY <1>3, ProgramsAre, ClockedIs
  <2> DEFINE v == o.validate
  <2> HIDE DEF v
  <2>3. \E n \in Nat : /\ Measures(r, CPt2ptProgram(b, r, v), x, x, n)
                       /\ IsSender(b, r) /\ b \notin FanOut => n = CPt2ptReported(b)
    BY <1>3, <2>1, CPt2ptMeasures DEF v
  <2> QED BY <1>1, <2>2, <2>3 DEF v, x
<1>4. CASE b \in OtherPt2ptBenchmarks
  <2>1. x \in Alone /\ OtherPt2ptRank(b, r) /\ o.validate \in BOOLEAN
    BY <1>1, <1>2, <1>4, RanksAre, OptionsAre, Apart
  <2>2. Program(b, r, o) = OtherPt2ptProgram(b, r, o.validate)
        /\ Reported(b) = OtherPt2ptReported(b)
        /\ (b \notin PythonLatencies => Clocked(b, r) = (r = 0))
    BY <1>4, ProgramsAre, ClockedIs
  <2> DEFINE v == o.validate
  <2> HIDE DEF v
  <2>3. \E n : /\ Measures(r, OtherPt2ptProgram(b, r, v), x, x, n)
               /\ b \in PythonLatencies \/ r = 0 => n = OtherPt2ptReported(b)
    BY <1>4, <2>1, OtherPt2ptWalks DEF v
  <2>4. Reported(b) \in Nat
    BY <1>4, ReportedType, Apart
  <2> QED BY <1>1, <2>2, <2>3, <2>4 DEF v, x
<1>5. CASE b \in CCollective
  <2>1. x \in Alone /\ x.last
    BY <1>1, <1>2, <1>5, Apart
  <2>2. \E y : Measures(r, CCollectiveProgram(b, r, o), x, y, CCollectiveReported(b)) /\ AtRest(y)
    <3>1. /\ x.active = Unchanged0 /\ x.request = NoRequest /\ (b = Unmade => ~x.strict) /\ x.last
          /\ x \in Alone /\ AtRest(x)
      BY <1>1, <2>1
    <3>2. \E y : /\ Measures(r, CCollectiveProgram(b, r, o), x, y, CCollectiveReported(b))
                 /\ AtRest(x) => AtRest(y)
      BY <1>5, <3>1, CCollectiveMeasures
    <3> QED BY <3>1, <3>2
  <2>3. Program(b, r, o) = CCollectiveProgram(b, r, o) /\ Reported(b) = CCollectiveReported(b)
    BY <1>5, ProgramsAre
  <2>4. Reported(b) \in Nat
    BY <1>5, ReportedType, Apart
  <2> QED BY <2>2, <2>3, <2>4 DEF x
<1>6. CASE b \in OtherCollectiveBenchmarks
  <2>1. x \in Alone /\ o.validate \in BOOLEAN
    BY <1>1, <1>2, <1>6, OptionsAre, Apart
  <2>2. Program(b, r, o) = OtherCollectiveProgram(b, r, o.validate)
        /\ Reported(b) = OtherCollectiveReported(b)
    BY <1>6, ProgramsAre
  <2> DEFINE v == o.validate
  <2> HIDE DEF v
  <2>3. Measures(r, OtherCollectiveProgram(b, r, v), x, x, OtherCollectiveReported(b))
    BY <1>6, <2>1, OtherCollectiveMeasures DEF v
  <2>4. Reported(b) \in Nat
    BY <1>6, ReportedType, Apart
  <2> QED BY <1>1, <2>2, <2>3, <2>4 DEF v, x
<1>7. CASE b \in OneSidedBenchmarks
  <2>1. x \in Alone /\ x.access = "closed" /\ o.validate \in BOOLEAN /\ r \in {0, 1}
        /\ o.sync \in ValidateSyncType(b)
    BY <1>1, <1>2, <1>7, OptionsAre, RanksAre, Apart
  <2>2. Program(b, r, o) = OneSidedProgram(b, o.sync, r, Head(Windows), o.validate)
        /\ Reported(b) = OneSidedReported(b, Head(Windows))
        /\ Clocked(b, r) = (r = 0)
    BY <1>7, ProgramsAre, ClockedIs
  <2> DEFINE v == o.validate
             y == o.sync
  <2> HIDE DEF v, y
  <2>3. \E z : \E n \in Nat :
            /\ Measures(r, OneSidedProgram(b, y, r, Head(Windows), v), x, z, n) /\ AtRest(z)
            /\ r = 0 => n = OneSidedReported(b, Head(Windows))
    BY <1>7, <2>1, OneSidedMeasures DEF v, y
  <2> QED BY <2>2, <2>3 DEF v, y, x
<1>8. CASE b \in PgasBenchmarks
  <2>1. x \in Sharing
    BY <1>1, <1>2, <1>8, Apart DEF Sharing
  <2>2. Program(b, r, o) = PgasProgram(b, r) /\ Reported(b) = PgasReported(b)
    BY <1>8, ProgramsAre
  <2>3. CASE b \in PgasPt2pt
    <3>1. Clocked(b, r) = (r = 0)
      BY <2>3, ClockedIs
    <3>2. \E n \in Nat : Measures(r, PgasProgram(b, r), x, x, n) /\ (r = 0 => n = PgasReported(b))
      BY <2>1, <2>3, OshmPt2ptMeasures, UpcPt2ptMeasures DEF PgasPt2pt
    <3> QED BY <1>1, <2>2, <3>1, <3>2 DEF x
  <2>4. CASE b \in OshmRate
    <3>1. Clocked(b, r) = (r < 2) /\ r \in 0 .. 3
      BY <2>4, ClockedIs, RanksAre
    <3>2. \E n \in Nat : Measures(r, PgasProgram(b, r), x, x, n) /\ (r < 2 => n = PgasReported(b))
      BY <1>1, <2>1, <2>4, <3>1, OshmRateMeasures
    <3> QED BY <1>1, <2>2, <3>1, <3>2 DEF x
  <2>5. CASE b \in PgasCollective
    <3>1. Measures(r, PgasProgram(b, r), x, x, PgasReported(b))
      BY <1>1, <2>1, <2>5, OshmCollectiveMeasures, UpcCollectiveMeasures, UpcxxMeasures DEF PgasCollective
    <3>2. Reported(b) \in Nat
      BY <1>8, ReportedType, Apart
    <3> QED BY <1>1, <2>2, <3>1, <3>2 DEF x
  <2> QED BY <1>8, <2>3, <2>4, <2>5, PgasApart
<1>9. CASE b = "striding"
  <2>1. x \in Alone /\ x.access = "closed"
    BY <1>1, <1>9, Apart
  <2>2. Program(b, r, o) = StridingProgram(r, Head(Windows))
        /\ Reported(b) = StridingReported(Head(Windows)) /\ Clocked(b, r) = (r # 0)
    BY <1>9, ProgramsAre, ClockedIs
  <2>3. \E n \in Nat :
            /\ Measures(r, StridingProgram(r, Head(Windows)), x, x, n)
            /\ r # 0 => n = StridingReported(Head(Windows))
    BY <2>1, StridingMeasures
  <2> QED BY <1>1, <2>2, <2>3 DEF x
<1> QED BY <1>3, <1>4, <1>5, <1>6, <1>7, <1>8, <1>9, BenchmarkKinds

-----------------------------------------------------------------------------
(* What the two sides of an agreement read of a program. *)

\* The stamps that buffers are filled with.
Stamps == 0 .. Skip + Iters - 1

\* The arguments of a call.
LEMMA CallTypes ==
    ASSUME NEW c \in Calls
    PROVE  /\ c.op \in {"isend", "irecv"} => c.peer \in Nat /\ c.tag \in Tags /\ c.size \in Nat
           /\ c.op = "wait" => c.kind \in {"isend", "irecv"}
           /\ c.op = "enter" => /\ c.kind \in CollectiveKinds /\ c.root \in Nat
                                /\ c.data \in SUBSET Nat /\ c.form \in Forms
           /\ c.op = "fill" => c.stamp \in Stamps
           /\ c.op = "elect" => c.else \in Nat
           /\ c.op = "in_place" => c.type \in CollectiveTypes /\ c.root \in Nat
           /\ c.op = "init" => c.kind \in CollectiveKinds /\ c.root \in Nat
           /\ c.op = "rma" => c.peer \in Nat /\ c.fetch \in BOOLEAN /\ c.within \in BOOLEAN
           /\ c.op = "flush" => c.which \in {"all", "fetched"}
           /\ c.op \in {"open", "close"} => c.kind \in {"lock", "start"}
           /\ c.op = "await" => c.peer \in Nat
BY DEF Calls, Plain, Stamps

-----------------------------------------------------------------------------
(* What a reading of the calls says of a sequence of them. *)

Builds(g, ss, n) == g[1] = ss[1] /\ \A k \in 2 .. n : g[k] = g[k - 1] \o ss[k]

\* Two ways to put the first n sequences of a list together are one.
LEMMA FlatUnique ==
    ASSUME NEW ss, NEW n \in Nat, NEW g, NEW h, Builds(g, ss, n), Builds(h, ss, n)
    PROVE  \A k \in 1 .. n : g[k] = h[k]
<1> DEFINE S == {m \in Nat : m \in 1 .. n => g[m] = h[m]}
<1>1. 0 \in S
  OBVIOUS
<1>2. ASSUME NEW m \in Nat, m \in S PROVE m + 1 \in S
  <2> SUFFICES ASSUME m + 1 \in 1 .. n PROVE g[m + 1] = h[m + 1]
    OBVIOUS
  <2>1. CASE m = 0
    BY <2>1 DEF Builds
  <2>2. CASE m # 0
    <3> DEFINE k == m + 1
    <3>1. m \in 1 .. n /\ g[m] = h[m] /\ k \in 2 .. n /\ k - 1 = m
      BY <1>2, <2>2
    <3> HIDE DEF k
    <3>2. g[k] = g[k - 1] \o ss[k] /\ h[k] = h[k - 1] \o ss[k]
      BY <3>1 DEF Builds
    <3>3. g[k] = h[k]
      BY <3>1, <3>2
    <3> QED BY <3>3 DEF k
  <2> QED BY <2>1, <2>2
<1>3. Nat \subseteq S
  <2> HIDE DEF S
  <2> QED BY <1>1, <1>2, Naturals0
<1> QED BY <1>3

\* Nothing is put together from nothing.
LEMMA FlattenNone == ASSUME NEW Z, NEW ss \in Seq(Z), Len(ss) = 0 PROVE FlattenSeq(ss) = <<>>
<1>1. FlattenSeq(ss) = ss /\ ss = <<>>
  BY Zenon, EmptySeq DEF FlattenSeq
<1> QED BY <1>1

\* One more sequence is added at the end.
LEMMA FlattenAppend ==
    ASSUME NEW C, NEW ss \in Seq(Seq(C)), NEW s \in Seq(C)
    PROVE  FlattenSeq(Append(ss, s)) = FlattenSeq(ss) \o s
<1> DEFINE n == Len(ss)
           tt == Append(ss, s)
<1>1. /\ n \in Nat /\ tt \in Seq(Seq(C)) /\ Len(tt) = n + 1 /\ tt[n + 1] = s
      /\ \A k \in 1 .. n : tt[k] = ss[k]
  OBVIOUS
<1> HIDE DEF tt, n
<1>2. PICK h : /\ h[1] = tt[1]
               /\ \A k \in 2 .. Len(tt) : h[k] = h[k - 1] \o tt[k]
               /\ FlattenSeq(tt) = h[Len(tt)]
  <2>1. Len(tt) # 0
    BY <1>1
  <2> QED BY <1>1, <2>1, FlattenDefined
<1>3. CASE n = 0
  <2>2. FlattenSeq(ss) = <<>>
    BY <1>3, FlattenNone DEF n
  <2>3. FlattenSeq(tt) = s
    BY <1>1, <1>2, <1>3
  <2> QED BY <2>2, <2>3, ConcatEmptySeq DEF tt
<1>4. CASE n # 0
  <2>1. PICK g : /\ g[1] = ss[1]
                 /\ \A k \in 2 .. Len(ss) : g[k] = g[k - 1] \o ss[k]
                 /\ FlattenSeq(ss) = g[Len(ss)]
    BY <1>4, FlattenDefined DEF n
  <2>2. h[1] = ss[1]
    BY <1>1, <1>2, <1>4
  <2>3. ASSUME NEW k \in 2 .. n PROVE h[k] = h[k - 1] \o ss[k]
    <3>1. k \in 2 .. Len(tt) /\ tt[k] = ss[k]
      BY <1>1
    <3> QED BY <1>2, <3>1
  <2>4. \A k \in 1 .. n : g[k] = h[k]
    <3>1. Builds(g, ss, n)
      BY <2>1 DEF n, Builds
    <3>2. Builds(h, ss, n)
      BY <2>2, <2>3 DEF Builds
    <3> QED BY <1>1, <3>1, <3>2, FlatUnique
  <2>5. g[n] = h[n]
    <3>1. n \in 1 .. n
      BY <1>1, <1>4
    <3> QED BY <2>4, <3>1
  <2>6. h[n + 1] = h[n] \o s
    <3> DEFINE k == n + 1
    <3>1. k \in 2 .. Len(tt) /\ k - 1 = n /\ tt[k] = s
      BY <1>1, <1>4
    <3> HIDE DEF k
    <3>2. h[k] = h[k - 1] \o tt[k]
      BY <1>2, <3>1
    <3> QED BY <3>1, <3>2 DEF k
  <2>7. FlattenSeq(tt) = h[n + 1]
    BY <1>1, <1>2
  <2> QED BY <2>1, <2>5, <2>6, <2>7 DEF n, tt
<1> QED BY <1>3, <1>4

\* The letters of what is read: what is to agree of a collective operation, or
\* the size of a message.
Agreements == CollectiveKinds \X Nat \X (Forms \cup {"none"})
Letters == Agreements \cup Nat

\* A reading says of each call which letters it contributes.
Views == [Calls -> Seq(Letters)]

Seen(K, s) == FlattenSeq([k \in 1 .. Len(s) |-> K[s[k]]])

\* Nothing is read where there are no calls.
LEMMA SeenNothing == ASSUME NEW K PROVE Seen(K, <<>>) = <<>>
<1> DEFINE ss == [k \in 1 .. Len(<<>>) |-> K[(<<>>)[k]]]
<1>1. ss \in Seq({}) /\ Len(ss) = 0
  OBVIOUS
<1> HIDE DEF ss
<1>2. FlattenSeq(ss) = <<>>
  BY <1>1, FlattenNone
<1> QED BY <1>2 DEF Seen, ss

\* The last call is read last.
LEMMA SeenAppend ==
    ASSUME NEW K \in Views, NEW s \in Seq(Calls), NEW c \in Calls
    PROVE  Seen(K, s) \in Seq(Letters) /\ Seen(K, Append(s, c)) = Seen(K, s) \o K[c]
<1> DEFINE ss == [k \in 1 .. Len(s) |-> K[s[k]]]
           t == Append(s, c)
           tt == [k \in 1 .. Len(t) |-> K[t[k]]]
<1>1. ss \in Seq(Seq(Letters)) /\ K[c] \in Seq(Letters)
  BY DEF Views
<1>2. tt = Append(ss, K[c])
  <2>1. /\ t \in Seq(Calls) /\ Len(t) = Len(s) + 1 /\ t[Len(s) + 1] = c /\ Len(s) \in Nat
        /\ \A k \in 1 .. Len(s) : t[k] = s[k]
    OBVIOUS
  <2> HIDE DEF t
  <2>2. tt \in Seq(Seq(Letters)) /\ Len(tt) = Len(s) + 1
    BY <2>1 DEF Views
  <2>3. Append(ss, K[c]) \in Seq(Seq(Letters)) /\ Len(Append(ss, K[c])) = Len(s) + 1
    BY <1>1
  <2>4. ASSUME NEW k \in 1 .. Len(s) + 1 PROVE tt[k] = Append(ss, K[c])[k]
    <3>1. CASE k \in 1 .. Len(s)
      BY <2>1, <3>1
    <3>2. CASE k = Len(s) + 1
      BY <2>1, <3>2
    <3> QED BY <2>1, <3>1, <3>2
  <2> HIDE DEF ss, tt
  <2> QED BY <2>2, <2>3, <2>4, SeqEqual
<1> HIDE DEF ss, tt
<1>3. FlattenSeq(tt) = FlattenSeq(ss) \o K[c]
  BY <1>1, <1>2, FlattenAppend
<1>4. FlattenSeq(ss) \in Seq(Letters)
  BY <1>1, FlattenIn
<1> QED BY <1>3, <1>4 DEF Seen, ss, tt, t

\* A reading is a sequence of letters.
LEMMA SeenType == ASSUME NEW K \in Views, NEW s \in Seq(Calls) PROVE Seen(K, s) \in Seq(Letters)
<1> DEFINE ss == [k \in 1 .. Len(s) |-> K[s[k]]]
<1>1. ss \in Seq(Seq(Letters))
  BY DEF Views
<1> HIDE DEF ss
<1>2. FlattenSeq(ss) \in Seq(Letters)
  BY <1>1, FlattenIn
<1> QED BY <1>2 DEF Seen, ss

\* What is read of one call.
LEMMA SeenOne ==
    ASSUME NEW K \in Views, NEW c \in Calls
    PROVE  Seen(K, <<c>>) = K[c]
<1>1. <<c>> = Append(<<>>, c) /\ <<>> \in Seq(Calls)
  OBVIOUS
<1>2. Seen(K, <<c>>) = Seen(K, <<>>) \o K[c]
  BY <1>1, SeenAppend
<1>3. K[c] \in Seq(Letters)
  BY DEF Views
<1> QED BY <1>2, <1>3, SeenNothing, ConcatEmptySeq

\* What is read of one sequence of calls after the other.
LEMMA SeenOn ==
    ASSUME NEW K \in Views, NEW s \in Seq(Calls), NEW t \in Seq(Calls)
    PROVE  s \o t \in Seq(Calls) /\ Seen(K, s \o t) = Seen(K, s) \o Seen(K, t)
<1> DEFINE S == {m \in Nat : \A u \in Seq(Calls) :
                    Len(u) = m => Seen(K, s \o u) = Seen(K, s) \o Seen(K, u)}
<1>1. 0 \in S
  <2> SUFFICES ASSUME NEW u \in Seq(Calls), Len(u) = 0
               PROVE  Seen(K, s \o u) = Seen(K, s) \o Seen(K, u)
    OBVIOUS
  <2>1. u = <<>> /\ s \o u = s
    BY EmptySeq, ConcatEmptySeq
  <2>2. Seen(K, s) \o <<>> = Seen(K, s)
    BY SeenType, ConcatEmptySeq
  <2> QED BY <2>1, <2>2, SeenNothing
<1>2. ASSUME NEW m \in Nat, m \in S PROVE m + 1 \in S
  <2> SUFFICES ASSUME NEW u \in Seq(Calls), Len(u) = m + 1
               PROVE  Seen(K, s \o u) = Seen(K, s) \o Seen(K, u)
    OBVIOUS
  <2>1. u # <<>>
    OBVIOUS
  <2>2. PICK w \in Seq(Calls), c \in Calls : u = Append(w, c)
    BY <2>1, SequenceEmptyOrAppend
  <2>3. Len(w) = m
    BY <2>2
  <2>4. Seen(K, s \o w) = Seen(K, s) \o Seen(K, w)
    BY <1>2, <2>3
  <2>5. s \o u = Append(s \o w, c) /\ s \o w \in Seq(Calls)
    <3>1. <<c>> \in Seq(Calls) /\ u = w \o <<c>>
      BY <2>2, AppendIsConcat
    <3>2. (s \o w) \o <<c>> = s \o (w \o <<c>>)
      BY <3>1, ConcatAssociative
    <3>3. s \o w \in Seq(Calls)
      BY ConcatProperties
    <3>4. Append(s \o w, c) = (s \o w) \o <<c>>
      BY <3>3, AppendIsConcat
    <3>5. s \o u = s \o (w \o <<c>>)
      BY <3>1
    <3>6. s \o u = Append(s \o w, c)
      BY <3>2, <3>4, <3>5, Zenon
    <3> HIDE DEF S
    <3> QED BY <3>3, <3>6
  <2>6. Seen(K, s \o u) = (Seen(K, s) \o Seen(K, w)) \o K[c]
    BY <2>4, <2>5, SeenAppend
  <2>7. Seen(K, u) = Seen(K, w) \o K[c]
    BY <2>2, SeenAppend
  <2>8. K[c] \in Seq(Letters) /\ Seen(K, s) \in Seq(Letters) /\ Seen(K, w) \in Seq(Letters)
    BY SeenType DEF Views
  <2>9. (Seen(K, s) \o Seen(K, w)) \o K[c] = Seen(K, s) \o (Seen(K, w) \o K[c])
    <3> DEFINE e == Seen(K, s)
               f == Seen(K, w)
               g == K[c]
    <3>1. e \in Seq(Letters) /\ f \in Seq(Letters) /\ g \in Seq(Letters)
      BY <2>8
    <3> HIDE DEF e, f, g, S
    <3>2. (e \o f) \o g = e \o (f \o g)
      BY <3>1, ConcatAssociative
    <3> QED BY <3>2 DEF e, f, g
  <2> HIDE DEF S
  <2> QED BY <2>6, <2>7, <2>9, Zenon
<1>3. Len(t) \in S
  <2> HIDE DEF S
  <2>1. Len(t) \in Nat
    OBVIOUS
  <2> QED BY <1>1, <1>2, <2>1, Naturals0
<1> QED BY <1>3

\* What the ranks have to agree on in a collective call.
Agreed == [c \in Calls |->
    IF c.op = "enter" THEN << <<c.kind, c.root, IF PSync(c.form) THEN c.form ELSE "none">> >>
    ELSE <<>>]

\* The sizes of the messages to q, and from q, with a tag.
To(q, tag) == [c \in Calls |->
    IF c.op = "isend" THEN IF c.peer = q /\ c.tag = tag THEN <<c.size>> ELSE <<>> ELSE <<>>]
From(q, tag) == [c \in Calls |->
    IF c.op = "irecv" THEN IF c.peer = q /\ c.tag = tag THEN <<c.size>> ELSE <<>> ELSE <<>>]

\* They are views.
LEMMA AreViews ==
    /\ Agreed \in Views
    /\ \A q, tag : To(q, tag) \in Views /\ From(q, tag) \in Views
<1>1. ASSUME NEW c \in Calls PROVE Agreed[c] \in Seq(Letters)
  <2>1. CASE c.op = "enter"
    <3>1. c.kind \in CollectiveKinds /\ c.root \in Nat /\ c.form \in Forms
      BY <2>1, CallTypes
    <3> DEFINE x == <<c.kind, c.root, IF PSync(c.form) THEN c.form ELSE "none">>
    <3>2. x \in Letters
      BY <3>1 DEF Letters, Agreements
    <3>3. Agreed[c] = <<x>>
      BY <2>1 DEF Agreed
    <3> HIDE DEF x
    <3> QED BY <3>2, <3>3
  <2>2. CASE c.op # "enter"
    <3>1. Agreed[c] = <<>>
      BY <2>2 DEF Agreed
    <3> QED BY <3>1
  <2> QED BY <2>1, <2>2
<1>2. ASSUME NEW c \in Calls, NEW q, NEW tag
      PROVE  To(q, tag)[c] \in Seq(Letters) /\ From(q, tag)[c] \in Seq(Letters)
  <2>1. c.op \in {"isend", "irecv"} => <<c.size>> \in Seq(Letters)
    BY CallTypes DEF Letters
  <2>2. <<>> \in Seq(Letters)
    OBVIOUS
  <2>3. To(q, tag)[c] \in Seq(Letters)
    BY <2>1, <2>2 DEF To
  <2>4. From(q, tag)[c] \in Seq(Letters)
    BY <2>1, <2>2 DEF From
  <2> QED BY <2>3, <2>4
<1>3. Agreed \in Views
  BY <1>1 DEF Views, Agreed
<1>4. \A q, tag : To(q, tag) \in Views /\ From(q, tag) \in Views
  BY <1>2 DEF Views, To, From
<1> QED BY <1>3, <1>4

\* Which view of the calls of rank r has to be the same as which of those of q.
Couples(r, q) ==
    {<<Agreed, Agreed>>} \cup {<<To(q, tag), From(r, tag)>> : tag \in Tags}
                        \cup {<<From(q, tag), To(r, tag)>> : tag \in Tags}

Fits(r, q, s, t) ==
    /\ s \in Seq(Calls) /\ t \in Seq(Calls)
    /\ \A v \in Couples(r, q) : Seen(v[1], s) = Seen(v[2], t)

\* Both sides of such a pair are readings of calls.
LEMMA PairsOfViews ==
    ASSUME NEW r, NEW q, NEW v \in Couples(r, q) PROVE v[1] \in Views /\ v[2] \in Views
BY AreViews DEF Couples

\* No calls fit no calls.
LEMMA FitsNothing == \A r, q : Fits(r, q, <<>>, <<>>)
<1> SUFFICES ASSUME NEW r, NEW q PROVE Fits(r, q, <<>>, <<>>)
  OBVIOUS
<1>1. <<>> \in Seq(Calls)
  OBVIOUS
<1> QED BY <1>1, SeenNothing DEF Fits

\* Calls that fit after calls that fit.
LEMMA FitsOn ==
    \A r, q, s, t, u, w : Fits(r, q, s, t) /\ Fits(r, q, u, w) => Fits(r, q, s \o u, t \o w)
<1> SUFFICES ASSUME NEW r, NEW q, NEW s, NEW t, NEW u, NEW w, Fits(r, q, s, t), Fits(r, q, u, w)
             PROVE  Fits(r, q, s \o u, t \o w)
  OBVIOUS
<1>1. s \in Seq(Calls) /\ t \in Seq(Calls) /\ u \in Seq(Calls) /\ w \in Seq(Calls)
  BY DEF Fits
<1>2. ASSUME NEW v \in Couples(r, q) PROVE Seen(v[1], s \o u) = Seen(v[2], t \o w)
  <2>1. v[1] \in Views /\ v[2] \in Views
    BY PairsOfViews
  <2>2. Seen(v[1], s) = Seen(v[2], t) /\ Seen(v[1], u) = Seen(v[2], w)
    BY DEF Fits
  <2>3. Seen(v[1], s \o u) = Seen(v[1], s) \o Seen(v[1], u)
    BY <1>1, <2>1, SeenOn
  <2>4. Seen(v[2], t \o w) = Seen(v[2], t) \o Seen(v[2], w)
    BY <1>1, <2>1, SeenOn
  <2> QED BY <2>2, <2>3, <2>4
<1>3. s \o u \in Seq(Calls) /\ t \o w \in Seq(Calls)
  BY <1>1, ConcatProperties
<1> QED BY <1>2, <1>3 DEF Fits

\* Calls that nobody has to agree with, before or after the others.
LEMMA FitsAside ==
    \A r, q, s, t, u :
        /\ Fits(r, q, s, t) /\ Fits(r, q, u, <<>>) => Fits(r, q, s \o u, t) /\ Fits(r, q, u \o s, t)
        /\ Fits(r, q, s, t) /\ Fits(r, q, <<>>, u) => Fits(r, q, s, t \o u) /\ Fits(r, q, s, u \o t)
<1> SUFFICES ASSUME NEW r, NEW q, NEW s, NEW t, NEW u, Fits(r, q, s, t)
             PROVE  /\ Fits(r, q, u, <<>>) => Fits(r, q, s \o u, t) /\ Fits(r, q, u \o s, t)
                    /\ Fits(r, q, <<>>, u) => Fits(r, q, s, t \o u) /\ Fits(r, q, s, u \o t)
  OBVIOUS
<1>1. s \in Seq(Calls) /\ t \in Seq(Calls)
  BY DEF Fits
<1>2. /\ s \o <<>> = s /\ <<>> \o s = s /\ t \o <<>> = t /\ <<>> \o t = t
  BY <1>1, ConcatEmptySeq
<1>3. ASSUME Fits(r, q, u, <<>>) PROVE Fits(r, q, s \o u, t) /\ Fits(r, q, u \o s, t)
  <2>1. Fits(r, q, s \o u, t \o <<>>) /\ Fits(r, q, u \o s, <<>> \o t)
    BY <1>3, FitsOn
  <2> QED BY <1>2, <2>1
<1>4. ASSUME Fits(r, q, <<>>, u) PROVE Fits(r, q, s, t \o u) /\ Fits(r, q, s, u \o t)
  <2>1. Fits(r, q, s \o <<>>, t \o u) /\ Fits(r, q, <<>> \o s, u \o t)
    BY <1>4, FitsOn
  <2> QED BY <1>2, <2>1
<1> QED BY <1>3, <1>4

\* The same from the other side.
LEMMA FitsBack == \A r, q, s, t : Fits(r, q, s, t) => Fits(q, r, t, s)
<1> SUFFICES ASSUME NEW r, NEW q, NEW s, NEW t, Fits(r, q, s, t) PROVE Fits(q, r, t, s)
  OBVIOUS
<1>1. ASSUME NEW v \in Couples(q, r) PROVE Seen(v[1], t) = Seen(v[2], s)
  <2>1. <<v[2], v[1]>> \in Couples(r, q)
    BY DEF Couples
  <2>2. <<v[2], v[1]>>[1] = v[2] /\ <<v[2], v[1]>>[2] = v[1]
    OBVIOUS
  <2> QED BY <2>1, <2>2 DEF Fits
<1> QED BY <1>1 DEF Fits

\* Lists of calls that fit one by one.
LEMMA FitsEach ==
    ASSUME NEW r, NEW q, NEW ss \in Seq(Seq(Calls)), NEW tt \in Seq(Seq(Calls)), Len(ss) = Len(tt),
           \A k \in 1 .. Len(ss) : Fits(r, q, ss[k], tt[k])
    PROVE  Fits(r, q, FlattenSeq(ss), FlattenSeq(tt))
<1> DEFINE Alike(uu, ww, m) == /\ Len(uu) = m /\ Len(ww) = m
                               /\ \A k \in 1 .. m : Fits(r, q, uu[k], ww[k])
           S == {m \in Nat : \A uu, ww \in Seq(Seq(Calls)) :
                    Alike(uu, ww, m) => Fits(r, q, FlattenSeq(uu), FlattenSeq(ww))}
<1>1. 0 \in S
  <2> SUFFICES ASSUME NEW uu \in Seq(Seq(Calls)), NEW ww \in Seq(Seq(Calls)), Alike(uu, ww, 0)
               PROVE  Fits(r, q, FlattenSeq(uu), FlattenSeq(ww))
    OBVIOUS
  <2>1. FlattenSeq(uu) = <<>> /\ FlattenSeq(ww) = <<>>
    BY FlattenNone
  <2> QED BY <2>1, FitsNothing
<1>2. ASSUME NEW m \in Nat, m \in S PROVE m + 1 \in S
  <2> SUFFICES ASSUME NEW uu \in Seq(Seq(Calls)), NEW ww \in Seq(Seq(Calls)), Alike(uu, ww, m + 1)
               PROVE  Fits(r, q, FlattenSeq(uu), FlattenSeq(ww))
    OBVIOUS
  <2>1. uu # <<>> /\ ww # <<>>
    OBVIOUS
  <2>2. PICK u1 \in Seq(Seq(Calls)), s \in Seq(Calls) : uu = Append(u1, s)
    BY <2>1, SequenceEmptyOrAppend
  <2>3. PICK w1 \in Seq(Seq(Calls)), t \in Seq(Calls) : ww = Append(w1, t)
    BY <2>1, SequenceEmptyOrAppend
  <2>4. Len(u1) = m /\ Len(w1) = m /\ uu[m + 1] = s /\ ww[m + 1] = t
        /\ \A k \in 1 .. m : uu[k] = u1[k] /\ ww[k] = w1[k]
    BY <2>2, <2>3
  <2>5. Alike(u1, w1, m)
    BY <2>4
  <2>6. Fits(r, q, s, t)
    <3>1. m + 1 \in 1 .. m + 1
      OBVIOUS
    <3> QED BY <2>4, <3>1
  <2>7. Fits(r, q, FlattenSeq(u1), FlattenSeq(w1))
    <3> HIDE DEF Alike
    <3> QED BY <1>2, <2>5
  <2>8. FlattenSeq(uu) = FlattenSeq(u1) \o s /\ FlattenSeq(ww) = FlattenSeq(w1) \o t
    BY <2>2, <2>3, FlattenAppend
  <2> QED BY <2>6, <2>7, <2>8, FitsOn
<1>3. Len(ss) \in S
  <2>1. Len(ss) \in Nat
    OBVIOUS
  <2> HIDE DEF S
  <2> QED BY <1>1, <1>2, <2>1, Naturals0
<1>4. Alike(ss, tt, Len(ss))
  OBVIOUS
<1> HIDE DEF Alike
<1> QED BY <1>3, <1>4

\* Loops whose rounds fit.
LEMMA FitsLoop ==
    ASSUME NEW r, NEW q, NEW n \in Nat, NEW ss, IsLoop(ss, n), NEW tt, IsLoop(tt, n),
           \A k \in 1 .. n : Fits(r, q, ss[k], tt[k])
    PROVE  Fits(r, q, FlattenSeq(ss), FlattenSeq(tt))
<1>1. \A k \in 1 .. n : ss[k] \in Seq(Calls) /\ tt[k] \in Seq(Calls)
  BY DEF Fits
<1>2. ss \in Seq(Seq(Calls)) /\ tt \in Seq(Seq(Calls)) /\ Len(ss) = n /\ Len(tt) = n
  BY <1>1, LoopType
<1> QED BY <1>2, FitsEach

\* Calls that fit, repeated equally often on both sides.
LEMMA FitsTimes ==
    \A r, q, s, t : \A n \in Nat : Fits(r, q, s, t) => Fits(r, q, Times(n, s), Times(n, t))
<1> SUFFICES ASSUME NEW r, NEW q, NEW s, NEW t, NEW n \in Nat, Fits(r, q, s, t)
             PROVE  Fits(r, q, Times(n, s), Times(n, t))
  OBVIOUS
<1> DEFINE ss == [k \in 1 .. n |-> s]
           tt == [k \in 1 .. n |-> t]
<1>1. IsLoop(ss, n) /\ IsLoop(tt, n) /\ \A k \in 1 .. n : ss[k] = s /\ tt[k] = t
  BY DEF IsLoop
<1> HIDE DEF ss, tt
<1>2. Fits(r, q, FlattenSeq(ss), FlattenSeq(tt))
  BY <1>1, FitsLoop
<1> QED BY <1>2 DEF Times, ss, tt

\* Nothing, any number of times, is nothing.
LEMMA NoTimes == \A n \in Nat : Times(n, <<>>) = <<>>
<1> SUFFICES ASSUME NEW n \in Nat PROVE Times(n, <<>>) = <<>>
  OBVIOUS
<1> DEFINE ss == [k \in 1 .. n |-> <<>>]
           Q == [k \in 0 .. n |-> {<<>>}]
<1>1. ss \in Seq(Seq({})) /\ Len(ss) = n
  OBVIOUS
<1>2. <<>> \in Q[0] /\ Q[n] = {<<>>} /\ \A k \in 1 .. Len(ss) : \A s \in Q[k - 1] : s \o ss[k] \in Q[k]
  <2>1. <<>> \o <<>> = <<>>
    OBVIOUS
  <2> QED BY <1>1, <2>1
<1> HIDE DEF ss, Q
<1>3. FlattenSeq(ss) \in Q[n]
  BY <1>1, <1>2, FlattenRule
<1> QED BY <1>2, <1>3 DEF Times, ss

\* A loop, or a repetition, of calls that nobody has to agree with.
LEMMA AsideTimes ==
    \A r, q, s : \A n \in Nat :
        /\ Fits(r, q, s, <<>>) => Fits(r, q, Times(n, s), <<>>)
        /\ Fits(r, q, <<>>, s) => Fits(r, q, <<>>, Times(n, s))
BY FitsTimes, NoTimes

\* Calls that both sides make on the same condition.
LEMMA FitsGiven ==
    \A r, q, c, s, t : (c => Fits(r, q, s, t)) => Fits(r, q, Given(c, s), Given(c, t))
BY FitsNothing DEF Given

\* Conditional calls that nobody has to agree with.
LEMMA AsideGiven ==
    \A r, q, c, s :
        /\ (c => Fits(r, q, s, <<>>)) => Fits(r, q, Given(c, s), <<>>)
        /\ (c => Fits(r, q, <<>>, s)) => Fits(r, q, <<>>, Given(c, s))
BY FitsNothing DEF Given

-----------------------------------------------------------------------------
(* The calls, and which of them fit. *)

\* What one call contributes.
LEMMA OneFits ==
    ASSUME NEW r, NEW q, NEW c \in Calls, NEW d \in Calls,
           \A v \in Couples(r, q) : v[1][c] = v[2][d]
    PROVE  Fits(r, q, <<c>>, <<d>>)
<1>1. \A v \in Couples(r, q) : Seen(v[1], <<c>>) = v[1][c] /\ Seen(v[2], <<d>>) = v[2][d]
  BY PairsOfViews, SeenOne
<1>2. <<c>> \in Seq(Calls) /\ <<d>> \in Seq(Calls)
  OBVIOUS
<1> QED BY <1>1, <1>2 DEF Fits

\* A call of which none of the views has anything.
LEMMA OneAside ==
    ASSUME NEW r, NEW q, NEW c \in Calls, \A v \in Couples(r, q) : v[1][c] = <<>>
    PROVE  Fits(r, q, <<c>>, <<>>)
<1>1. \A v \in Couples(r, q) : Seen(v[1], <<c>>) = v[1][c] /\ Seen(v[2], <<>>) = <<>>
  BY PairsOfViews, SeenOne, SeenNothing
<1>2. <<c>> \in Seq(Calls) /\ <<>> \in Seq(Calls)
  OBVIOUS
<1> QED BY <1>1, <1>2 DEF Fits

\* Calls that have to do with the own rank alone fit nothing, and collective
\* calls fit their like.
LEMMA OwnCalls ==
    ASSUME NEW r, NEW q, NEW c \in Calls, c.op \notin {"isend", "irecv", "enter"}
    PROVE  Fits(r, q, <<c>>, <<>>) /\ Fits(r, q, <<>>, <<c>>)
<1>1. ASSUME NEW r1, NEW q1 PROVE Fits(r1, q1, <<c>>, <<>>)
  <2>1. \A v \in Couples(r1, q1) : v[1][c] = <<>>
    BY DEF Couples, Agreed, To, From
  <2> QED BY <2>1, OneAside
<1> QED BY <1>1, FitsBack

\* A call that is no message fits itself.
LEMMA AgreedCalls ==
    ASSUME NEW r, NEW q, NEW c \in Calls, c.op \notin {"isend", "irecv"}
    PROVE  Fits(r, q, <<c>>, <<c>>)
<1>1. \A v \in Couples(r, q) : v[1][c] = v[2][c]
  BY DEF Couples, Agreed, To, From
<1> QED BY <1>1, OneFits

\* A message to rank q fits its receive from rank r.
LEMMA MessagesFit ==
    \A r, q \in Nat : \A tag \in Tags : \A n \in Nat :
        /\ Fits(r, q, ISend(q, tag, n), IRecv(r, tag, n))
        /\ Fits(r, q, IRecv(q, tag, n), ISend(r, tag, n))
<1> SUFFICES ASSUME NEW r \in Nat, NEW q \in Nat, NEW tag \in Tags, NEW n \in Nat
             PROVE  Fits(r, q, ISend(q, tag, n), IRecv(r, tag, n))
  BY FitsBack
<1> DEFINE c == [op |-> "isend", peer |-> q, tag |-> tag, size |-> n]
           d == [op |-> "irecv", peer |-> r, tag |-> tag, size |-> n]
<1>1. c \in Calls /\ d \in Calls
  BY DEF Calls
<1>2. \A v \in Couples(r, q) : v[1][c] = v[2][d]
  <2>1. Agreed[c] = <<>> /\ Agreed[d] = <<>>
    BY <1>1 DEF Agreed
  <2>2. \A t \in Tags : To(q, t)[c] = From(r, t)[d]
    BY <1>1 DEF To, From
  <2>3. \A t \in Tags : From(q, t)[c] = <<>> /\ To(r, t)[d] = <<>>
    BY <1>1 DEF To, From
  <2> HIDE DEF c, d
  <2> QED BY <2>1, <2>2, <2>3 DEF Couples
<1> HIDE DEF c, d
<1>3. Fits(r, q, <<c>>, <<d>>)
  BY <1>1, <1>2, OneFits
<1> QED BY <1>3 DEF c, d, ISend, IRecv

\* A message to or from another rank does not matter to q.
LEMMA MessagesElsewhere ==
    \A r, q : \A p \in Nat \ {q} : \A tag \in Tags : \A n \in Nat :
        /\ Fits(r, q, ISend(p, tag, n), <<>>) /\ Fits(r, q, IRecv(p, tag, n), <<>>)
        /\ Fits(q, r, <<>>, ISend(p, tag, n)) /\ Fits(q, r, <<>>, IRecv(p, tag, n))
<1> SUFFICES ASSUME NEW r, NEW q, NEW p \in Nat \ {q}, NEW tag \in Tags, NEW n \in Nat
             PROVE  Fits(r, q, ISend(p, tag, n), <<>>) /\ Fits(r, q, IRecv(p, tag, n), <<>>)
  BY FitsBack
<1>1. ASSUME NEW o \in {"isend", "irecv"}
      PROVE  Fits(r, q, <<[op |-> o, peer |-> p, tag |-> tag, size |-> n]>>, <<>>)
  <2> DEFINE c == [op |-> o, peer |-> p, tag |-> tag, size |-> n]
  <2>1. c \in Calls
    BY DEF Calls
  <2>2. \A v \in Couples(r, q) : v[1][c] = <<>>
    BY <2>1 DEF Couples, Agreed, To, From
  <2> HIDE DEF c
  <2>3. Fits(r, q, <<c>>, <<>>)
    BY <2>1, <2>2, OneAside
  <2> QED BY <2>3 DEF c
<1> QED BY <1>1 DEF ISend, IRecv

\* Sequences of calls that have to do with the own rank alone.
OwnCall == {c \in Calls : c.op \notin {"isend", "irecv", "enter"}}
Own(s) == s \in Seq(OwnCall)

\* Sequences without messages.
CommonCall == {c \in Calls : c.op \notin {"isend", "irecv"}}
Common(s) == s \in Seq(CommonCall)

\* Sequences that say nothing to rank q.
AsideCall(q) == {c \in Calls : c.op # "enter" /\ (c.op \in {"isend", "irecv"} => c.peer # q)}
Aside(q, s) == s \in Seq(AsideCall(q))

\* Nothing is read of calls that contribute nothing.
LEMMA SeenNone ==
    ASSUME NEW K, NEW s, \A k \in 1 .. Len(s) : K[s[k]] = <<>>, Len(s) \in Nat
    PROVE  Seen(K, s) = <<>>
<1>1. [k \in 1 .. Len(s) |-> K[s[k]]] = [k \in 1 .. Len(s) |-> <<>>]
  OBVIOUS
<1>2. FlattenSeq([k \in 1 .. Len(s) |-> <<>>]) = <<>>
  BY NoTimes DEF Times
<1> QED BY <1>1, <1>2 DEF Seen

\* What says nothing to q fits no calls of q.
LEMMA AsideFits ==
    \A r, q, s : Aside(q, s) => Fits(r, q, s, <<>>) /\ Fits(q, r, <<>>, s)
<1> SUFFICES ASSUME NEW r, NEW q, NEW s, Aside(q, s) PROVE Fits(r, q, s, <<>>)
  BY FitsBack
<1>1. s \in Seq(Calls) /\ Len(s) \in Nat /\ \A k \in 1 .. Len(s) : s[k] \in AsideCall(q)
  BY DEF Aside, AsideCall
<1>2. ASSUME NEW v \in Couples(r, q) PROVE Seen(v[1], s) = Seen(v[2], <<>>)
  <2>1. ASSUME NEW k \in 1 .. Len(s) PROVE v[1][s[k]] = <<>>
    <3>1. s[k] \in AsideCall(q)
      BY <1>1
    <3> QED BY <3>1 DEF AsideCall, Couples, Agreed, To, From
  <2> QED BY <1>1, <2>1, SeenNone, SeenNothing
<1>3. <<>> \in Seq(Calls)
  OBVIOUS
<1> QED BY <1>1, <1>2, <1>3 DEF Fits

\* Without messages, both sides may make the same calls.
LEMMA CommonFits == \A r, q, s : Common(s) => Fits(r, q, s, s)
<1> SUFFICES ASSUME NEW r, NEW q, NEW s, Common(s) PROVE Fits(r, q, s, s)
  OBVIOUS
<1>1. s \in Seq(Calls) /\ Len(s) \in Nat /\ \A k \in 1 .. Len(s) : s[k] \in CommonCall
  BY DEF Common, CommonCall
<1>2. ASSUME NEW v \in Couples(r, q) PROVE Seen(v[1], s) = Seen(v[2], s)
  <2>1. ASSUME NEW k \in 1 .. Len(s) PROVE v[1][s[k]] = v[2][s[k]]
    <3>1. s[k] \in CommonCall
      BY <1>1
    <3> QED BY <3>1 DEF CommonCall, Couples, Agreed, To, From
  <2>2. [k \in 1 .. Len(s) |-> v[1][s[k]]] = [k \in 1 .. Len(s) |-> v[2][s[k]]]
    BY <2>1
  <2> QED BY <2>2 DEF Seen
<1> QED BY <1>1, <1>2 DEF Fits

\* Calls of the own rank are without messages, and say nothing to anybody.
LEMMA OwnIs == \A s : Own(s) => Common(s) /\ \A q : Aside(q, s)
<1> SUFFICES ASSUME NEW s, Own(s) PROVE Common(s) /\ \A q : Aside(q, s)
  OBVIOUS
<1>1. OwnCall \subseteq CommonCall
  BY DEF OwnCall, CommonCall
<1>2. \A q : OwnCall \subseteq AsideCall(q)
  BY DEF OwnCall, AsideCall
<1>3. ASSUME NEW C, OwnCall \subseteq C PROVE s \in Seq(C)
  BY <1>3 DEF Own
<1> QED BY <1>1, <1>2, <1>3 DEF Common, Aside

\* Calls of the own rank go with whatever fits.
LEMMA OwnFits ==
    \A r, q, s, t, u :
        /\ Own(u) => Fits(r, q, u, <<>>) /\ Fits(r, q, <<>>, u)
        /\ Own(u) /\ Fits(r, q, s, t) =>
              /\ Fits(r, q, s \o u, t) /\ Fits(r, q, u \o s, t)
              /\ Fits(r, q, s, t \o u) /\ Fits(r, q, s, u \o t)
<1> SUFFICES ASSUME NEW r, NEW q, NEW s, NEW t, NEW u, Own(u)
             PROVE  /\ Fits(r, q, u, <<>>) /\ Fits(r, q, <<>>, u)
                    /\ Fits(r, q, s, t) => /\ Fits(r, q, s \o u, t) /\ Fits(r, q, u \o s, t)
                                           /\ Fits(r, q, s, t \o u) /\ Fits(r, q, s, u \o t)
  OBVIOUS
<1>1. Fits(r, q, u, <<>>) /\ Fits(r, q, <<>>, u)
  BY OwnIs, AsideFits
<1> QED BY <1>1, FitsAside

\* Sequences of calls from a set, put together.
LEMMA Within0 ==
    \A C :
        /\ <<>> \in Seq(C)
        /\ \A s, t : s \in Seq(C) /\ t \in Seq(C) => s \o t \in Seq(C)
        /\ \A c, s : (c => s \in Seq(C)) => Given(c, s) \in Seq(C)
        /\ \A n \in Nat : \A s : s \in Seq(C) => Times(n, s) \in Seq(C)
<1> SUFFICES ASSUME NEW C
             PROVE  /\ <<>> \in Seq(C)
                    /\ \A s, t : s \in Seq(C) /\ t \in Seq(C) => s \o t \in Seq(C)
                    /\ \A c, s : (c => s \in Seq(C)) => Given(c, s) \in Seq(C)
                    /\ \A n \in Nat : \A s : s \in Seq(C) => Times(n, s) \in Seq(C)
  OBVIOUS
<1>1. <<>> \in Seq(C)
  OBVIOUS
<1>2. ASSUME NEW s \in Seq(C), NEW t \in Seq(C) PROVE s \o t \in Seq(C)
  BY ConcatProperties
<1>3. ASSUME NEW n \in Nat, NEW s \in Seq(C) PROVE Times(n, s) \in Seq(C)
  <2> DEFINE ss == [k \in 1 .. n |-> s]
  <2>1. ss \in Seq(Seq(C))
    OBVIOUS
  <2> HIDE DEF ss
  <2>2. FlattenSeq(ss) \in Seq(C)
    BY <2>1, FlattenIn
  <2> QED BY <2>2 DEF Times, ss
<1> QED BY <1>1, <1>2, <1>3 DEF Given

\* A loop whose rounds are sequences of calls from a set.
LEMMA LoopWithin ==
    ASSUME NEW C, NEW n \in Nat, NEW ss, IsLoop(ss, n), \A k \in 1 .. n : ss[k] \in Seq(C)
    PROVE  FlattenSeq(ss) \in Seq(C)
BY LoopType, FlattenIn

\* Calls of the own rank, one after the other, conditional or repeated.
LEMMA OwnOn ==
    /\ Own(<<>>)
    /\ \A s, t : Own(s) /\ Own(t) => Own(s \o t)
    /\ \A c, s : (c => Own(s)) => Own(Given(c, s))
    /\ \A n \in Nat : \A s : Own(s) => Own(Times(n, s))
BY Within0 DEF Own

\* Calls without messages, one after the other, conditional or repeated.
LEMMA CommonOn ==
    /\ \A s, t : Common(s) /\ Common(t) => Common(s \o t)
    /\ \A c, s : (c => Common(s)) => Common(Given(c, s))
    /\ \A n \in Nat : \A s : Common(s) => Common(Times(n, s))
BY Within0 DEF Common

\* Calls that say nothing to q, one after the other, conditional or repeated.
LEMMA AsideOn ==
    \A q : /\ \A s, t : Aside(q, s) /\ Aside(q, t) => Aside(q, s \o t)
           /\ \A c, s : (c => Aside(q, s)) => Aside(q, Given(c, s))
           /\ \A n \in Nat : \A s : Aside(q, s) => Aside(q, Times(n, s))
BY Within0 DEF Aside

\* The calls of the own rank.
LEMMA OneOwn == ASSUME NEW c \in Calls, c.op \notin {"isend", "irecv", "enter"} PROVE Own(<<c>>)
<1>1. c \in OwnCall
  BY DEF OwnCall
<1> QED BY <1>1 DEF Own

\* A call without arguments has to do with the own rank alone.
LEMMA OwnNamed == \A o \in Plain : Own(<<[op |-> o]>>)
<1> SUFFICES ASSUME NEW o \in Plain PROVE Own(<<[op |-> o]>>)
  OBVIOUS
<1>1. [op |-> o] \in Calls /\ [op |-> o].op \notin {"isend", "irecv", "enter"}
  BY DEF Calls, Plain
<1> QED BY <1>1, OneOwn

\* The pieces of the programs that have to do with the own rank alone.
LEMMA OwnPieces ==
    /\ Own(Wait("isend")) /\ Own(Wait("irecv")) /\ Own(Leave)
    /\ Own(StartClock) /\ Own(StopClock) /\ Own(Sample)
    /\ \A i : Own(StartOnce(i)) /\ Own(StopOnce(i))
    /\ \A i \in 0 .. Turns - 1 : Own(Fill(i))
    /\ Own(Check) /\ Own(ClearErrors) /\ Own(BreakOnErrors) /\ Own(Report)
    /\ Own(Touch) /\ Own(Post) /\ \A p \in Nat : Own(Await(p))
    /\ Own(SynchronizeStream) /\ \A v : Own(JavaFill(v)) /\ Own(JavaCheck(v))
<1>1. /\ Own(Leave) /\ Own(StartClock) /\ Own(StopClock) /\ Own(Sample)
      /\ Own(Check) /\ Own(ClearErrors) /\ Own(BreakOnErrors) /\ Own(Report)
      /\ Own(Touch) /\ Own(Post)
  BY OwnNamed DEF Plain, Leave, StartClock, StopClock, Sample, Check, ClearErrors, BreakOnErrors,
                  Report, Touch, Post
<1>2. ASSUME NEW k \in {"isend", "irecv"} PROVE Own(Wait(k))
  <2>1. [op |-> "wait", kind |-> k] \in Calls
    BY DEF Calls
  <2> QED BY <2>1, OneOwn DEF Wait
<1>3. ASSUME NEW i \in 0 .. Turns - 1 PROVE Own(Fill(i))
  <2> DEFINE c == [op |-> "fill", stamp |-> i]
  <2>1. i \in 0 .. Skip + Iters - 1
    BY TurnsType DEF Turns
  <2>2. c \in Calls
    BY <2>1 DEF Calls
  <2>3. c.op = "fill"
    OBVIOUS
  <2> HIDE DEF c
  <2>4. Own(<<c>>)
    BY <2>2, <2>3, OneOwn
  <2> QED BY <2>4 DEF Fill, c
<1>4. ASSUME NEW p \in Nat PROVE Own(Await(p))
  <2>1. [op |-> "await", peer |-> p] \in Calls
    BY DEF Calls
  <2> QED BY <2>1, OneOwn DEF Await
<1>5. \A i : Own(StartOnce(i)) /\ Own(StopOnce(i))
  BY <1>1, OwnOn DEF StartOnce, StopOnce
<1>6. Own(SynchronizeStream)
  BY <1>2, OwnOn DEF SynchronizeStream
<1>7. \A v : Own(JavaFill(v)) /\ Own(JavaCheck(v))
  <2>1. 0 \in 0 .. Turns - 1
    BY TurnsType
  <2> QED BY <1>1, <1>3, <2>1, OwnOn DEF JavaFill, JavaCheck
<1> QED BY <1>1, <1>2, <1>3, <1>4, <1>5, <1>6, <1>7

\* Remote accesses and epochs are nothing that two ranks have to agree on.
LEMMA OwnAccesses ==
    /\ \A p \in Nat : \A f, w \in BOOLEAN : Own(RmaWithin(p, f, w)) /\ Own(Rma(p, f))
    /\ Own(Flush("all")) /\ Own(Flush("fetched")) /\ Own(OpenEpoch("lock")) /\ Own(OpenEpoch("start"))
    /\ Own(CloseEpoch("lock")) /\ Own(CloseEpoch("start"))
<1>1. ASSUME NEW p \in Nat, NEW f \in BOOLEAN, NEW w \in BOOLEAN PROVE Own(RmaWithin(p, f, w))
  <2>1. [op |-> "rma", peer |-> p, fetch |-> f, within |-> w] \in Calls
    BY DEF Calls
  <2> QED BY <2>1, OneOwn DEF RmaWithin
<1>2. ASSUME NEW w \in {"all", "fetched"} PROVE Own(Flush(w))
  <2>1. [op |-> "flush", which |-> w] \in Calls
    BY DEF Calls
  <2> QED BY <2>1, OneOwn DEF Flush
<1>3. ASSUME NEW k \in {"lock", "start"} PROVE Own(OpenEpoch(k)) /\ Own(CloseEpoch(k))
  <2>1. [op |-> "open", kind |-> k] \in Calls /\ [op |-> "close", kind |-> k] \in Calls
    BY DEF Calls
  <2>2. Own(<<[op |-> "open", kind |-> k]>>) /\ Own(<<[op |-> "close", kind |-> k]>>)
    BY <2>1, OneOwn
  <2> QED BY <1>2, <2>2, OwnOn DEF OpenEpoch, CloseEpoch
<1> QED BY <1>1, <1>2, <1>3 DEF Rma

\* The collective calls of the suite have no messages.
LEMMA CommonCalls ==
    /\ \A k \in CollectiveKinds : \A root \in Nat : \A d \in SUBSET Nat : \A f \in Forms :
          Common(Enter(k, root, d, f) \o Leave)
    /\ Common(Barrier) /\ Common(Reduce) /\ Common(Sync) /\ Common(SumErrors) /\ Common(Fence)
<1>1. ASSUME NEW k \in CollectiveKinds, NEW root \in Nat, NEW d \in SUBSET Nat, NEW f \in Forms
      PROVE  Common(Enter(k, root, d, f) \o Leave)
  <2> DEFINE c == [op |-> "enter", kind |-> k, root |-> root, data |-> d, form |-> f]
  <2>1. c \in CommonCall
    BY DEF Calls, CommonCall
  <2> HIDE DEF c
  <2>2. Common(<<c>>)
    BY <2>1 DEF Common
  <2>3. Common(Enter(k, root, d, f))
    BY <2>2 DEF Enter, c
  <2> QED BY <2>3, OwnPieces, OwnIs, CommonOn
<1>2. {"barrier", "to_root", "sync", "sum_errors", "fence"} \subseteq CollectiveKinds /\ 0 \in Nat
      /\ {} \in SUBSET Nat /\ "plain" \in Forms
  BY DEF CollectiveKinds, Forms
<1> QED BY <1>1, <1>2 DEF Barrier, Reduce, Sync, SumErrors, Fence

\* The collective operations that all ranks call alike.
LEMMA BarriersFit ==
    \A r, q : /\ Fits(r, q, Barrier, Barrier) /\ Fits(r, q, Reduce, Reduce)
              /\ Fits(r, q, Sync, Sync) /\ Fits(r, q, SumErrors, SumErrors)
              /\ Fits(r, q, Fence, Fence)
BY CommonCalls, CommonFits

\* Messages to another rank.
LEMMA MessagesAside ==
    \A q : \A p \in Nat \ {q} : \A tag \in Tags : \A n \in Nat :
        /\ Aside(q, ISend(p, tag, n)) /\ Aside(q, IRecv(p, tag, n))
        /\ Aside(q, Send(p, tag, n)) /\ Aside(q, Recv(p, tag, n))
<1> SUFFICES ASSUME NEW q, NEW p \in Nat \ {q}, NEW tag \in Tags, NEW n \in Nat
             PROVE  /\ Aside(q, ISend(p, tag, n)) /\ Aside(q, IRecv(p, tag, n))
                    /\ Aside(q, Send(p, tag, n)) /\ Aside(q, Recv(p, tag, n))
  OBVIOUS
<1>1. ASSUME NEW o \in {"isend", "irecv"}
      PROVE  Aside(q, <<[op |-> o, peer |-> p, tag |-> tag, size |-> n]>>)
  <2> DEFINE c == [op |-> o, peer |-> p, tag |-> tag, size |-> n]
  <2>1. c \in AsideCall(q)
    BY DEF Calls, AsideCall
  <2> HIDE DEF c
  <2>2. Aside(q, <<c>>)
    BY <2>1 DEF Aside
  <2> QED BY <2>2 DEF c
<1>2. Aside(q, ISend(p, tag, n)) /\ Aside(q, IRecv(p, tag, n))
  BY <1>1 DEF ISend, IRecv
<1>3. Aside(q, Wait("isend")) /\ Aside(q, Wait("irecv"))
  BY OwnPieces, OwnIs
<1> QED BY <1>2, <1>3, AsideOn DEF Send, Recv

\* Blocking messages fit like the others.
LEMMA SendsFit ==
    \A r, q \in Nat : \A tag \in Tags : \A n \in Nat :
        /\ Fits(r, q, Send(q, tag, n), Recv(r, tag, n))
        /\ Fits(r, q, Recv(q, tag, n), Send(r, tag, n))
        /\ Fits(r, q, ISend(q, tag, n), Recv(r, tag, n))
        /\ Fits(r, q, IRecv(q, tag, n), Send(r, tag, n))
        /\ Fits(r, q, Recv(q, tag, n), ISend(r, tag, n))
        /\ Fits(r, q, Send(q, tag, n), IRecv(r, tag, n))
<1> SUFFICES ASSUME NEW r \in Nat, NEW q \in Nat, NEW tag \in Tags, NEW n \in Nat
             PROVE  /\ Fits(r, q, Send(q, tag, n), Recv(r, tag, n))
                    /\ Fits(r, q, Recv(q, tag, n), Send(r, tag, n))
                    /\ Fits(r, q, ISend(q, tag, n), Recv(r, tag, n))
                    /\ Fits(r, q, IRecv(q, tag, n), Send(r, tag, n))
                    /\ Fits(r, q, Recv(q, tag, n), ISend(r, tag, n))
                    /\ Fits(r, q, Send(q, tag, n), IRecv(r, tag, n))
  OBVIOUS
<1>1. Fits(r, q, ISend(q, tag, n), IRecv(r, tag, n)) /\ Fits(r, q, IRecv(q, tag, n), ISend(r, tag, n))
  BY MessagesFit
<1>2. Own(Wait("isend")) /\ Own(Wait("irecv"))
  BY OwnPieces
<1>3. /\ Fits(r, q, ISend(q, tag, n), Recv(r, tag, n)) /\ Fits(r, q, IRecv(q, tag, n), Send(r, tag, n))
  BY <1>1, <1>2, OwnFits DEF Send, Recv
<1>4. /\ Fits(r, q, Recv(q, tag, n), ISend(r, tag, n)) /\ Fits(r, q, Send(q, tag, n), IRecv(r, tag, n))
  BY <1>1, <1>2, OwnFits DEF Send, Recv
<1>5. /\ Fits(r, q, Send(q, tag, n), Recv(r, tag, n))
  BY <1>2, <1>3, OwnFits DEF Send
<1>6. /\ Fits(r, q, Recv(q, tag, n), Send(r, tag, n))
  BY <1>2, <1>3, OwnFits DEF Recv
<1> QED BY <1>3, <1>4, <1>5, <1>6

-----------------------------------------------------------------------------
(* The point-to-point benchmarks in C. *)

\* A ping and its pong, blocking and with persistent requests.
LEMMA LatencyFits ==
    \A r, q \in Nat : \A s \in Nat :
        /\ Fits(r, q, LatencySender(q, s), LatencyReceiver(r, s))
        /\ Fits(r, q, LatencySenderPersistent(q, s), LatencyReceiverPersistent(r, s))
<1> SUFFICES ASSUME NEW r \in Nat, NEW q \in Nat, NEW s \in Nat
             PROVE  /\ Fits(r, q, LatencySender(q, s), LatencyReceiver(r, s))
                    /\ Fits(r, q, LatencySenderPersistent(q, s), LatencyReceiverPersistent(r, s))
  OBVIOUS
<1>1. \A tag \in Tags : /\ Fits(r, q, Send(q, tag, s), Recv(r, tag, s))
                        /\ Fits(r, q, Recv(q, tag, s), Send(r, tag, s))
  BY SendsFit
<1>2. "ping" \in Tags /\ "pong" \in Tags
  BY DEF Tags
<1> QED BY <1>1, <1>2, OwnPieces, OwnFits, FitsOn DEF LatencySender, LatencyReceiver, LatencySenderPersistent, LatencyReceiverPersistent

\* Two sides that have nothing to do with each other.
LEMMA BothAside == \A r, q, s, t : Aside(q, s) /\ Aside(r, t) => Fits(r, q, s, t)
<1> SUFFICES ASSUME NEW r, NEW q, NEW s, NEW t, Aside(q, s), Aside(r, t) PROVE Fits(r, q, s, t)
  OBVIOUS
<1>1. Fits(r, q, s, <<>>) /\ Fits(r, q, <<>>, t)
  BY AsideFits
<1>2. <<>> \o t = t
  BY <1>1, ConcatEmptySeq DEF Fits
<1>3. Fits(r, q, s, <<>> \o t)
  BY <1>1, FitsAside
<1> QED BY <1>2, <1>3

\* A loop with one round that does anything.
LEMMA FlattenOnce ==
    ASSUME NEW n \in Nat, NEW j \in 1 .. n, NEW t \in Seq(Calls)
    PROVE  FlattenSeq([k \in 1 .. n |-> IF k = j THEN t ELSE <<>>]) = t
<1> DEFINE ss == [k \in 1 .. n |-> IF k = j THEN t ELSE <<>>]
           Q == [k \in 0 .. n |-> IF k < j THEN {<<>>} ELSE {t}]
<1>1. ss \in Seq(Seq(Calls)) /\ Len(ss) = n
  <2>1. <<>> \in Seq(Calls)
    OBVIOUS
  <2> QED BY <2>1
<1>2. <<>> \in Q[0] /\ Q[n] = {t}
  OBVIOUS
<1>3. ASSUME NEW k \in 1 .. n, NEW s \in Q[k - 1] PROVE s \o ss[k] \in Q[k]
  <2>1. CASE k < j
    <3>1. s = <<>> /\ ss[k] = <<>> /\ Q[k] = {<<>>}
      BY <2>1
    <3>2. <<>> \o <<>> = <<>>
      OBVIOUS
    <3> QED BY <3>1, <3>2
  <2>2. CASE k = j
    <3>1. s = <<>> /\ ss[k] = t /\ Q[k] = {t}
      BY <2>2
    <3> QED BY <3>1, ConcatEmptySeq
  <2>3. CASE k > j
    <3>1. s = t /\ ss[k] = <<>> /\ Q[k] = {t}
      BY <2>3
    <3> QED BY <3>1, ConcatEmptySeq
  <2> QED BY <2>1, <2>2, <2>3
<1> HIDE DEF ss, Q
<1>4. FlattenSeq(ss) \in Q[n]
  BY <1>1, <1>2, <1>3, FlattenRule
<1> QED BY <1>2, <1>4 DEF ss

\* A loop of which q knows one round.
LEMMA FitsOnce ==
    ASSUME NEW r, NEW q, NEW n \in Nat, NEW ss, IsLoop(ss, n), NEW j \in 1 .. n, NEW t,
           Fits(r, q, ss[j], t), \A k \in 1 .. n : k # j => Fits(r, q, ss[k], <<>>)
    PROVE  Fits(r, q, FlattenSeq(ss), t) /\ Fits(q, r, t, FlattenSeq(ss))
<1> DEFINE tt == [k \in 1 .. n |-> IF k = j THEN t ELSE <<>>]
<1>1. IsLoop(tt, n) /\ \A k \in 1 .. n : tt[k] = IF k = j THEN t ELSE <<>>
  BY DEF IsLoop
<1>2. FlattenSeq(tt) = t
  BY FlattenOnce DEF Fits
<1> HIDE DEF tt
<1>3. \A k \in 1 .. n : Fits(r, q, ss[k], tt[k])
  BY <1>1
<1>4. Fits(r, q, FlattenSeq(ss), FlattenSeq(tt))
  BY <1>1, <1>3, FitsLoop
<1> QED BY <1>2, <1>4, FitsBack

\* A loop whose rounds all say nothing to q.
LEMMA AsideLoop ==
    ASSUME NEW q, NEW n \in Nat, NEW ss, IsLoop(ss, n), \A k \in 1 .. n : Aside(q, ss[k])
    PROVE  Aside(q, FlattenSeq(ss))
BY LoopWithin DEF Aside

\* A window of messages.
LEMMA WindowsFit ==
    \A r, q \in Nat : \A tag \in Tags : \A n, s \in Nat :
        /\ Fits(r, q, Times(n, ISend(q, tag, s)), Times(n, IRecv(r, tag, s)))
        /\ Fits(r, q, Times(n, IRecv(q, tag, s)), Times(n, ISend(r, tag, s)))
BY MessagesFit, FitsTimes

\* A window of messages with p says nothing to q.
LEMMA WindowsAside ==
    \A q : \A p \in Nat \ {q} : \A tag \in Tags : \A n, s \in Nat :
        Aside(q, Times(n, ISend(p, tag, s))) /\ Aside(q, Times(n, IRecv(p, tag, s)))
BY MessagesAside, AsideOn

\* A window of messages and its reply, in one and in both directions.
LEMMA BandwidthFits ==
    \A r, q \in Nat : \A n, s \in Nat :
        /\ Fits(r, q, BandwidthSender(q, n, s), BandwidthReceiver(r, n, s))
        /\ Fits(r, q, BiBandwidthSender(q, n, s), BiBandwidthReceiver(r, n, s))
        /\ Fits(r, q, BiBandwidthSenderPersistent(q, n, s), BiBandwidthReceiverPersistent(r, n, s))
<1> SUFFICES ASSUME NEW r \in Nat, NEW q \in Nat, NEW n \in Nat, NEW s \in Nat
             PROVE  /\ Fits(r, q, BandwidthSender(q, n, s), BandwidthReceiver(r, n, s))
                    /\ Fits(r, q, BiBandwidthSender(q, n, s), BiBandwidthReceiver(r, n, s))
                    /\ Fits(r, q, BiBandwidthSenderPersistent(q, n, s),
                                  BiBandwidthReceiverPersistent(r, n, s))
  OBVIOUS
<1>1. \A tag \in Tags : \A m \in Nat :
          /\ Fits(r, q, Recv(q, tag, m), Send(r, tag, m))
          /\ Fits(r, q, ISend(q, tag, m), IRecv(r, tag, m))
          /\ Fits(r, q, IRecv(q, tag, m), ISend(r, tag, m))
          /\ Fits(r, q, Times(n, ISend(q, tag, m)), Times(n, IRecv(r, tag, m)))
          /\ Fits(r, q, Times(n, IRecv(q, tag, m)), Times(n, ISend(r, tag, m)))
  BY SendsFit, MessagesFit, WindowsFit
<1>2. "ping" \in Tags /\ "pong" \in Tags /\ ReplySize \in Nat
  BY DEF Tags, ReplySize
<1>3. Fits(r, q, BandwidthSender(q, n, s), BandwidthReceiver(r, n, s))
  BY <1>1, <1>2, OwnPieces, OwnFits, FitsOn DEF BandwidthSender, BandwidthReceiver
<1>4. Fits(r, q, BiBandwidthSender(q, n, s), BiBandwidthReceiver(r, n, s))
  <2>1. Fits(r, q, ISend(q, "ping", s) \o IRecv(q, "pong", s), IRecv(r, "ping", s) \o ISend(r, "pong", s))
    BY <1>1, <1>2, FitsOn
  <2>2. Fits(r, q, Times(n, ISend(q, "ping", s) \o IRecv(q, "pong", s)),
                   Times(n, IRecv(r, "ping", s) \o ISend(r, "pong", s)))
    BY <2>1, FitsTimes
  <2> QED BY <2>2, OwnPieces, OwnFits DEF BiBandwidthSender, BiBandwidthReceiver
<1>5. Fits(r, q, BiBandwidthSenderPersistent(q, n, s), BiBandwidthReceiverPersistent(r, n, s))
  BY <1>1, <1>2, OwnPieces, OwnFits, FitsOn
     DEF BiBandwidthSenderPersistent, BiBandwidthReceiverPersistent
<1> QED BY <1>3, <1>4, <1>5

\* What all of them say to others than the partner.
LEMMA ExchangesAside ==
    \A q : \A p \in Nat \ {q} : \A n, s \in Nat :
        /\ Aside(q, LatencySender(p, s)) /\ Aside(q, LatencyReceiver(p, s))
        /\ Aside(q, LatencySenderPersistent(p, s)) /\ Aside(q, LatencyReceiverPersistent(p, s))
        /\ Aside(q, BandwidthSender(p, n, s)) /\ Aside(q, BandwidthReceiver(p, n, s))
        /\ Aside(q, BiBandwidthSender(p, n, s)) /\ Aside(q, BiBandwidthReceiver(p, n, s))
        /\ Aside(q, BiBandwidthSenderPersistent(p, n, s))
        /\ Aside(q, BiBandwidthReceiverPersistent(p, n, s))
<1> SUFFICES ASSUME NEW q, NEW p \in Nat \ {q}, NEW n \in Nat, NEW s \in Nat
             PROVE  /\ Aside(q, LatencySender(p, s)) /\ Aside(q, LatencyReceiver(p, s))
                    /\ Aside(q, LatencySenderPersistent(p, s)) /\ Aside(q, LatencyReceiverPersistent(p, s))
                    /\ Aside(q, BandwidthSender(p, n, s)) /\ Aside(q, BandwidthReceiver(p, n, s))
                    /\ Aside(q, BiBandwidthSender(p, n, s)) /\ Aside(q, BiBandwidthReceiver(p, n, s))
                    /\ Aside(q, BiBandwidthSenderPersistent(p, n, s))
                    /\ Aside(q, BiBandwidthReceiverPersistent(p, n, s))
  OBVIOUS
<1>1. \A tag \in Tags : \A m \in Nat :
          /\ Aside(q, Send(p, tag, m)) /\ Aside(q, Recv(p, tag, m))
          /\ Aside(q, ISend(p, tag, m)) /\ Aside(q, IRecv(p, tag, m))
          /\ Aside(q, Times(n, ISend(p, tag, m))) /\ Aside(q, Times(n, IRecv(p, tag, m)))
  BY MessagesAside, WindowsAside
<1>2. "ping" \in Tags /\ "pong" \in Tags /\ ReplySize \in Nat
  BY DEF Tags, ReplySize
<1>3. /\ Aside(q, StartClock) /\ Aside(q, StopClock)
      /\ Aside(q, Wait("isend")) /\ Aside(q, Wait("irecv"))
  BY OwnPieces, OwnIs
<1>4. /\ Aside(q, LatencySender(p, s)) /\ Aside(q, LatencyReceiver(p, s))
      /\ Aside(q, LatencySenderPersistent(p, s)) /\ Aside(q, LatencyReceiverPersistent(p, s))
  BY <1>1, <1>2, <1>3, AsideOn DEF LatencySender, LatencyReceiver, LatencySenderPersistent,
                                   LatencyReceiverPersistent
<1>5. Aside(q, BandwidthSender(p, n, s)) /\ Aside(q, BandwidthReceiver(p, n, s))
  BY <1>1, <1>2, <1>3, AsideOn DEF BandwidthSender, BandwidthReceiver
<1>6. Aside(q, BiBandwidthSender(p, n, s)) /\ Aside(q, BiBandwidthReceiver(p, n, s))
  BY <1>1, <1>2, <1>3, AsideOn DEF BiBandwidthSender, BiBandwidthReceiver
<1>7. /\ Aside(q, BiBandwidthSenderPersistent(p, n, s)) /\ Aside(q, BiBandwidthReceiverPersistent(p, n, s))
  BY <1>1, <1>2, <1>3, AsideOn DEF BiBandwidthSenderPersistent, BiBandwidthReceiverPersistent
<1> QED BY <1>4, <1>5, <1>6, <1>7

\* What a rank exchanges in an iteration.
Exchange(b, r, n, s) == IF IsSender(b, r) THEN SenderExchange(b, r, n, s) ELSE ReceiverExchange(b, r, n, s)

\* Partners are each other's, and on the two sides.
LEMMA PartnersMeet ==
    ASSUME NEW b \in CPt2pt \ Congestion, NEW r \in CPt2ptRanks(b), NEW q \in CPt2ptRanks(b)
    PROVE  /\ r \in Nat /\ q \in Nat /\ Partner(b, r) \in Nat
           /\ Partner(b, r) = q => Partner(b, q) = r /\ (IsSender(b, r) <=> ~IsSender(b, q))
<1>1. r \in Nat /\ q \in Nat /\ Partner(b, r) \in Nat
  BY Partners
<1>2. Partner(b, r) = q => Partner(b, q) = r /\ (IsSender(b, r) <=> ~IsSender(b, q))
  BY DEF CPt2ptRanks, Partner, PairCount, IsSender
<1> QED BY <1>1, <1>2

\* Two sides that fit when they are partners, and say nothing to others.
LEMMA PairKind ==
    ASSUME NEW b \in CPt2pt \ Congestion, NEW r \in CPt2ptRanks(b), NEW q \in CPt2ptRanks(b),
           NEW X, NEW Y,
           \A x \in Nat : \A p \in Nat \ {x} : Aside(x, X[p]) /\ Aside(x, Y[p]),
           \A x, y \in Nat : Fits(x, y, X[y], Y[x])
    PROVE  Fits(r, q, IF IsSender(b, r) THEN X[Partner(b, r)] ELSE Y[Partner(b, r)],
                      IF IsSender(b, q) THEN X[Partner(b, q)] ELSE Y[Partner(b, q)])
<1>1. /\ r \in Nat /\ q \in Nat /\ Partner(b, r) \in Nat /\ Partner(b, q) \in Nat
      /\ Partner(b, r) = q => Partner(b, q) = r /\ (IsSender(b, r) <=> ~IsSender(b, q))
      /\ Partner(b, q) = r => Partner(b, r) = q
  BY PartnersMeet
<1>2. CASE Partner(b, r) # q
  BY <1>1, <1>2, BothAside
<1>3. CASE Partner(b, r) = q
  BY <1>1, <1>3, FitsBack
<1> QED BY <1>2, <1>3

\* The exchange of an iteration, where everybody has one partner.
LEMMA PairsFit ==
    ASSUME NEW b \in CPt2pt \ Congestion, NEW r \in CPt2ptRanks(b), NEW q \in CPt2ptRanks(b),
           NEW n \in Nat, NEW s \in Nat
    PROVE  Fits(r, q, Exchange(b, r, n, s), Exchange(b, q, n, s))
<1>0. \A x \in {r, q} : Partner(b, x) \in Nat
  BY PartnersMeet
<1> USE DEF CPt2pt, LatencyTest, BandwidthTest, BiBandwidthTest, Persistent, Partitioned, Congestion, FanOut
<1>1. CASE b \in LatencyTest \ Persistent
  <2> DEFINE X == [p \in Nat |-> LatencySender(p, s)]
             Y == [p \in Nat |-> LatencyReceiver(p, s)]
  <2>1. \A x \in {r, q} : Exchange(b, x, n, s) = IF IsSender(b, x) THEN X[Partner(b, x)] ELSE Y[Partner(b, x)]
    BY <1>0, <1>1 DEF Exchange, SenderExchange, ReceiverExchange
  <2>2. /\ \A x \in Nat : \A p \in Nat \ {x} : Aside(x, X[p]) /\ Aside(x, Y[p])
        /\ \A x, y \in Nat : Fits(x, y, X[y], Y[x])
    BY ExchangesAside, LatencyFits
  <2> HIDE DEF X, Y
  <2>3. Fits(r, q, IF IsSender(b, r) THEN X[Partner(b, r)] ELSE Y[Partner(b, r)],
                   IF IsSender(b, q) THEN X[Partner(b, q)] ELSE Y[Partner(b, q)])
    BY <2>2, PairKind
  <2> QED BY <2>1, <2>3
<1>2. CASE b \in LatencyTest \cap Persistent
  <2> DEFINE X == [p \in Nat |-> LatencySenderPersistent(p, s)]
             Y == [p \in Nat |-> LatencyReceiverPersistent(p, s)]
  <2>1. \A x \in {r, q} : Exchange(b, x, n, s) = IF IsSender(b, x) THEN X[Partner(b, x)] ELSE Y[Partner(b, x)]
    BY <1>0, <1>2 DEF Exchange, SenderExchange, ReceiverExchange, PartitionedLatencySender,
       PartitionedLatencyReceiver, LatencySenderPersistent, LatencyReceiverPersistent
  <2>2. /\ \A x \in Nat : \A p \in Nat \ {x} : Aside(x, X[p]) /\ Aside(x, Y[p])
        /\ \A x, y \in Nat : Fits(x, y, X[y], Y[x])
    BY ExchangesAside, LatencyFits
  <2> HIDE DEF X, Y
  <2>3. Fits(r, q, IF IsSender(b, r) THEN X[Partner(b, r)] ELSE Y[Partner(b, r)],
                   IF IsSender(b, q) THEN X[Partner(b, q)] ELSE Y[Partner(b, q)])
    BY <2>2, PairKind
  <2> QED BY <2>1, <2>3
<1>3. CASE b \in BandwidthTest
  <2> DEFINE X == [p \in Nat |-> BandwidthSender(p, n, s)]
             Y == [p \in Nat |-> BandwidthReceiver(p, n, s)]
  <2>1. \A x \in {r, q} : Exchange(b, x, n, s) = IF IsSender(b, x) THEN X[Partner(b, x)] ELSE Y[Partner(b, x)]
    <3>1. CASE b \in Persistent
      BY <1>0, <1>3, <3>1 DEF Exchange, SenderExchange, ReceiverExchange,
         BandwidthSenderPersistent, BandwidthReceiverPersistent
    <3>2. CASE b \notin Persistent
      BY <1>0, <1>3, <3>2 DEF Exchange, SenderExchange, ReceiverExchange
    <3> QED BY <3>1, <3>2
  <2>2. /\ \A x \in Nat : \A p \in Nat \ {x} : Aside(x, X[p]) /\ Aside(x, Y[p])
        /\ \A x, y \in Nat : Fits(x, y, X[y], Y[x])
    BY ExchangesAside, BandwidthFits
  <2> HIDE DEF X, Y
  <2>3. Fits(r, q, IF IsSender(b, r) THEN X[Partner(b, r)] ELSE Y[Partner(b, r)],
                   IF IsSender(b, q) THEN X[Partner(b, q)] ELSE Y[Partner(b, q)])
    BY <2>2, PairKind
  <2> QED BY <2>1, <2>3
<1>4. CASE b \in BiBandwidthTest \ Persistent
  <2> DEFINE X == [p \in Nat |-> BiBandwidthSender(p, n, s)]
             Y == [p \in Nat |-> BiBandwidthReceiver(p, n, s)]
  <2>1. \A x \in {r, q} : Exchange(b, x, n, s) = IF IsSender(b, x) THEN X[Partner(b, x)] ELSE Y[Partner(b, x)]
    BY <1>0, <1>4 DEF Exchange, SenderExchange, ReceiverExchange
  <2>2. /\ \A x \in Nat : \A p \in Nat \ {x} : Aside(x, X[p]) /\ Aside(x, Y[p])
        /\ \A x, y \in Nat : Fits(x, y, X[y], Y[x])
    BY ExchangesAside, BandwidthFits
  <2> HIDE DEF X, Y
  <2>3. Fits(r, q, IF IsSender(b, r) THEN X[Partner(b, r)] ELSE Y[Partner(b, r)],
                   IF IsSender(b, q) THEN X[Partner(b, q)] ELSE Y[Partner(b, q)])
    BY <2>2, PairKind
  <2> QED BY <2>1, <2>3
<1>5. CASE b \in BiBandwidthTest \cap Persistent
  <2> DEFINE X == [p \in Nat |-> BiBandwidthSenderPersistent(p, n, s)]
             Y == [p \in Nat |-> BiBandwidthReceiverPersistent(p, n, s)]
  <2>1. \A x \in {r, q} : Exchange(b, x, n, s) = IF IsSender(b, x) THEN X[Partner(b, x)] ELSE Y[Partner(b, x)]
    BY <1>0, <1>5 DEF Exchange, SenderExchange, ReceiverExchange
  <2>2. /\ \A x \in Nat : \A p \in Nat \ {x} : Aside(x, X[p]) /\ Aside(x, Y[p])
        /\ \A x, y \in Nat : Fits(x, y, X[y], Y[x])
    BY ExchangesAside, BandwidthFits
  <2> HIDE DEF X, Y
  <2>3. Fits(r, q, IF IsSender(b, r) THEN X[Partner(b, r)] ELSE Y[Partner(b, r)],
                   IF IsSender(b, q) THEN X[Partner(b, q)] ELSE Y[Partner(b, q)])
    BY <2>2, PairKind
  <2> QED BY <2>1, <2>3
<1> QED BY <1>1, <1>2, <1>3, <1>4, <1>5

=============================================================================
