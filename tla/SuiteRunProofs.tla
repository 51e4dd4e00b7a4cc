--------------------------- MODULE SuiteRunProofs ---------------------------
(***************************************************************************)
(* More of what holds of the benchmarks as they run, each with what it     *)
(* needs beside the invariant of BenchmarkSuiteProofs: that the pSync      *)
(* arrays of OpenSHMEM are never reused too soon, that nothing is left on  *)
(* the network or in the transfer ledger when all ranks have finished, and *)
(* that an error one process has met is in the exit code of all of them.   *)
(***************************************************************************)
EXTENDS BenchmarkSuiteProofs

-----------------------------------------------------------------------------
(* The pSync arrays of OpenSHMEM in what all ranks agree on. *)
\* A letter of what all agree on.  Nobody leaves an operation of these kinds
\* before all have entered it.
Meetings == {"all", "sum_errors", "barrier", "sync", "fence"}
Met(w, j, k) == \E i \in j .. k : w[i][1] \in Meetings

\* Calls that use no array again before all have met: when they begin, the arrays
\* x may be in use since the last meeting, when they end, those of y.
Spaced(w, x, y) ==
    /\ \A k \in 1 .. Len(w) : w[k][3] # "none" =>
          /\ w[k][3] \in x => Met(w, 1, k - 1)
          /\ \A j \in 1 .. k - 1 : w[j][3] = w[k][3] => Met(w, j + 1, k - 1)
          /\ w[k][3] \in y \/ Met(w, k + 1, Len(w))
    /\ x \subseteq y \/ Met(w, 1, Len(w))
Using(s, x, y) == s \in Seq(Calls) /\ Spaced(Seen(Agreed, s), x, y)

\* Words, one after the other.
LEMMA SpacedOn ==
    ASSUME NEW u \in Seq(Letters), NEW v \in Seq(Letters), NEW x, NEW y, NEW z,
           Spaced(u, x, y), Spaced(v, y, z)
    PROVE  Spaced(u \o v, x, z)
<1> DEFINE w == u \o v
           n == Len(u)
           m == Len(v)
<1>1. n \in Nat /\ m \in Nat /\ Len(w) = n + m
  OBVIOUS
<1>2. /\ \A k \in 1 .. n : w[k] = u[k]
      /\ \A k \in 1 .. m : w[n + k] = v[k]
  <2>1. \A k \in 1 .. n + m : w[k] = IF k <= n THEN u[k] ELSE v[k - n]
    BY ConcatProperties
  <2>2. \A k \in 1 .. m : n + k \in 1 .. n + m /\ ~(n + k <= n) /\ (n + k) - n = k
    BY <1>1
  <2>3. \A k \in 1 .. n : k \in 1 .. n + m /\ k <= n
    BY <1>1
  <2> HIDE DEF w, n, m
  <2> QED BY <2>1, <2>2, <2>3
<1>u. /\ \A k \in 1 .. n : u[k][3] # "none" =>
            /\ u[k][3] \in x => Met(u, 1, k - 1)
            /\ \A j \in 1 .. k - 1 : u[j][3] = u[k][3] => Met(u, j + 1, k - 1)
            /\ u[k][3] \in y \/ Met(u, k + 1, n)
      /\ x \subseteq y \/ Met(u, 1, n)
  BY DEF Spaced
<1>v. /\ \A k \in 1 .. m : v[k][3] # "none" =>
            /\ v[k][3] \in y => Met(v, 1, k - 1)
            /\ \A j \in 1 .. k - 1 : v[j][3] = v[k][3] => Met(v, j + 1, k - 1)
            /\ v[k][3] \in z \/ Met(v, k + 1, m)
      /\ y \subseteq z \/ Met(v, 1, m)
  BY DEF Spaced
<1> HIDE DEF w, n, m
\* Meetings in u and v are meetings in w.
<1>3. \A j, k, l \in Int : j >= 1 /\ k <= n /\ k <= l /\ Met(u, j, k) => Met(w, j, l)
  <2> SUFFICES ASSUME NEW j \in Int, NEW k \in Int, NEW l \in Int, j >= 1, k <= n, k <= l, Met(u, j, k)
               PROVE  Met(w, j, l)
    OBVIOUS
  <2>1. PICK i \in j .. k : u[i][1] \in Meetings
    BY DEF Met
  <2>2. i \in 1 .. n /\ i \in j .. l
    BY <1>1
  <2> QED BY <1>2, <2>1, <2>2 DEF Met
<1>4. \A j, k, l \in Int : l >= 1 /\ j <= n + l /\ k <= m /\ Met(v, l, k) => Met(w, j, n + k)
  <2> SUFFICES ASSUME NEW j \in Int, NEW k \in Int, NEW l \in Int, l >= 1, j <= n + l, k <= m, Met(v, l, k)
               PROVE  Met(w, j, n + k)
    OBVIOUS
  <2>1. PICK i \in l .. k : v[i][1] \in Meetings
    BY DEF Met
  <2>2. i \in 1 .. m /\ n + i \in j .. n + k
    BY <1>1
  <2> QED BY <1>2, <2>1, <2>2 DEF Met
<1>5. x \subseteq z \/ Met(w, 1, n + m)
  <2>1. 1 <= n + 1 /\ n <= n + m
    BY <1>1
  <2> QED BY <1>1, <1>u, <1>v, <1>3, <1>4, <2>1
<1>6. ASSUME NEW k \in 1 .. n + m, w[k][3] # "none"
      PROVE  /\ w[k][3] \in x => Met(w, 1, k - 1)
             /\ \A j \in 1 .. k - 1 : w[j][3] = w[k][3] => Met(w, j + 1, k - 1)
             /\ w[k][3] \in z \/ Met(w, k + 1, n + m)
  <2>1. CASE k \in 1 .. n
    <3>1. w[k] = u[k]
      BY <1>2, <2>1
    <3>2. w[k][3] \in x => Met(w, 1, k - 1)
      BY <1>1, <1>u, <1>3, <1>6, <2>1, <3>1
    <3>3. ASSUME NEW j \in 1 .. k - 1, w[j][3] = w[k][3] PROVE Met(w, j + 1, k - 1)
      <4>1. j \in 1 .. n /\ w[j] = u[j]
        BY <1>1, <1>2, <2>1
      <4>2. Met(u, j + 1, k - 1)
        BY <1>u, <1>6, <2>1, <3>1, <3>3, <4>1
      <4>3. j + 1 \in Int /\ k - 1 \in Int /\ j + 1 >= 1 /\ k - 1 <= n
        BY <1>1, <2>1
      <4> QED BY <1>3, <4>2, <4>3
    <3>4. w[k][3] \in z \/ Met(w, k + 1, n + m)
      <4>1. k + 1 >= 1 /\ n <= n + m /\ k + 1 <= n + 1 /\ k + 1 \in Int /\ n \in Int /\ n + m \in Int
        BY <1>1, <2>1
      <4>2. CASE Met(u, k + 1, n)
        BY <1>3, <4>1, <4>2
      <4>3. CASE w[k][3] \in y
        <5>1. w[k][3] \in z \/ Met(v, 1, m)
          BY <1>v, <4>3
        <5> QED BY <1>1, <1>4, <4>1, <5>1
      <4> QED BY <1>u, <1>6, <2>1, <3>1, <4>2, <4>3
    <3> QED BY <3>2, <3>3, <3>4
  <2>2. CASE k \notin 1 .. n
    <3>0. PICK l \in 1 .. m : k = n + l
      <4>1. k - n \in 1 .. m /\ k = n + (k - n)
        BY <1>1, <2>2
      <4> QED BY <4>1
    <3>1. w[k] = v[l]
      BY <1>2, <3>0
    <3>a. /\ n + l - 1 = n + (l - 1) /\ l - 1 <= m /\ l - 1 \in Int /\ 1 \in Int /\ 1 <= n + 1
          /\ k - 1 = n + (l - 1) /\ n <= k - 1 /\ n + 1 \in Int
      BY <1>1, <3>0
    <3>2. w[k][3] \in x => Met(w, 1, k - 1)
      <4>1. w[k][3] \in x => Met(u, 1, n) \/ v[l][3] \in y
        BY <1>u, <3>1
      <4>2. Met(u, 1, n) => Met(w, 1, k - 1)
        BY <1>1, <1>3, <3>a
      <4>3. v[l][3] \in y => Met(w, 1, k - 1)
        BY <1>1, <1>v, <1>4, <1>6, <3>1, <3>a
      <4> QED BY <4>1, <4>2, <4>3
    <3>3. ASSUME NEW j \in 1 .. k - 1, w[j][3] = w[k][3] PROVE Met(w, j + 1, k - 1)
      <4>1. CASE j \in 1 .. n
        <5>1. w[j] = u[j]
          BY <1>2, <4>1
        <5>2. u[j][3] \in y \/ Met(u, j + 1, n)
          BY <1>u, <1>6, <3>3, <4>1, <5>1
        <5>3. CASE Met(u, j + 1, n)
          <6>1. j + 1 \in Int /\ n \in Int /\ k - 1 \in Int /\ j + 1 >= 1
            BY <1>1, <3>a, <4>1
          <6> QED BY <1>3, <3>a, <5>3, <6>1
        <5>4. CASE u[j][3] \in y
          <6>1. Met(v, 1, l - 1)
            BY <1>v, <1>6, <3>1, <3>3, <5>1, <5>4
          <6>2. j + 1 \in Int /\ j + 1 <= n + 1
            BY <1>1, <4>1
          <6> QED BY <1>4, <3>a, <6>1, <6>2
        <5> QED BY <5>2, <5>3, <5>4
      <4>2. CASE j \notin 1 .. n
        <5>1. PICK i \in 1 .. l - 1 : j = n + i
          <6>1. j - n \in 1 .. l - 1 /\ j = n + (j - n)
            BY <1>1, <3>a, <4>2
          <6> QED BY <6>1
        <5>2. i \in 1 .. m /\ w[j] = v[i]
          BY <1>1, <1>2, <5>1
        <5>3. Met(v, i + 1, l - 1)
          BY <1>v, <1>6, <3>1, <3>3, <5>1, <5>2
        <5>4. i + 1 \in Int /\ i + 1 >= 1 /\ j + 1 \in Int /\ j + 1 <= n + (i + 1)
          BY <1>1, <5>1
        <5> QED BY <1>4, <3>a, <5>3, <5>4
      <4> QED BY <4>1, <4>2
    <3>4. w[k][3] \in z \/ Met(w, k + 1, n + m)
      <4>1. k + 1 \in Int /\ l + 1 \in Int /\ l + 1 >= 1 /\ k + 1 <= n + (l + 1) /\ m \in Int /\ m <= m
        BY <1>1, <3>0
      <4>2. v[l][3] \in z \/ Met(v, l + 1, m)
        BY <1>v, <1>6, <3>1
      <4> QED BY <1>4, <3>1, <4>1, <4>2
    <3> QED BY <3>2, <3>3, <3>4
  <2> QED BY <2>1, <2>2
<1> QED BY <1>1, <1>5, <1>6 DEF Spaced, w

\* Calls, one after the other.
LEMMA UsingOn ==
    \A s, t, x, y, z : Using(s, x, y) /\ Using(t, y, z) => Using(s \o t, x, z)
<1> SUFFICES ASSUME NEW s, NEW t, NEW x, NEW y, NEW z, Using(s, x, y), Using(t, y, z)
             PROVE  Using(s \o t, x, z)
  OBVIOUS
<1> DEFINE u == Seen(Agreed, s)
           v == Seen(Agreed, t)
<1>1. s \in Seq(Calls) /\ t \in Seq(Calls) /\ Spaced(u, x, y) /\ Spaced(v, y, z)
  BY DEF Using
<1>2. u \in Seq(Letters) /\ v \in Seq(Letters) /\ Seen(Agreed, s \o t) = u \o v /\ s \o t \in Seq(Calls)
  BY <1>1, AreViews, SeenType, SeenOn, ConcatProperties
<1> HIDE DEF u, v
<1> QED BY <1>1, <1>2, SpacedOn DEF Using

\* Calls of the own rank use no array.
LEMMA UsingOwn == \A s, x : Own(s) => Using(s, x, x)
<1> SUFFICES ASSUME NEW s, NEW x, Own(s) PROVE Using(s, x, x)
  OBVIOUS
<1>1. s \in Seq(Calls) /\ Len(s) \in Nat /\ \A k \in 1 .. Len(s) : s[k] \in OwnCall
  BY DEF Own, OwnCall
<1>2. \A c \in OwnCall : Agreed[c] = <<>>
  BY DEF OwnCall, Agreed
<1>3. Seen(Agreed, s) = <<>>
  BY <1>1, <1>2, SeenNone
<1>4. Spaced(<<>>, x, x)
  BY DEF Spaced
<1> QED BY <1>1, <1>3, <1>4 DEF Using

\* An operation over an array that is not in use.
LEMMA UsingOnce ==
    ASSUME NEW kind \in CollectiveKinds, NEW form \in Forms, NEW data \in SUBSET Nat, NEW x, NEW y,
           PSync(form) => form \notin x /\ form \in y,
           x \subseteq y \/ kind \in Meetings
    PROVE  Using(Enter(kind, 0, data, form) \o Leave, x, y)
<1> DEFINE array == IF PSync(form) THEN form ELSE "none"
           w == << <<kind, 0, array>> >>
           s == Enter(kind, 0, data, form)
<1>1. array = IF PSync(form) THEN form ELSE "none"
  OBVIOUS
<1> HIDE DEF array
<1>2. s \in Seq(Calls) /\ Seen(Agreed, s) = w
  <2> DEFINE c == [op |-> "enter", kind |-> kind, root |-> 0, data |-> data, form |-> form]
  <2>1. s = <<c>> /\ c \in Calls
    BY <1>1 DEF Enter, Calls
  <2>2. Agreed[c] = w
    BY <1>1, <2>1 DEF Agreed
  <2>3. <<c>> \in Seq(Calls)
    BY <2>1
  <2> HIDE DEF c, w, s
  <2>4. Seen(Agreed, <<c>>) = Agreed[c]
    BY <2>1, AreViews, SeenOne
  <2> QED BY <2>1, <2>2, <2>3, <2>4
<1>3. Spaced(w, x, y)
  <2>1. Len(w) = 1 /\ w[1][1] = kind /\ w[1][3] = array
    OBVIOUS
  <2>2. array # "none" => array \notin x /\ array \in y
    BY <1>1
  <2> HIDE DEF w
  <2>3. x \subseteq y \/ Met(w, 1, 1)
    BY <2>1 DEF Met
  <2> QED BY <2>1, <2>2, <2>3 DEF Spaced
<1>4. Using(s, x, y)
  BY <1>2, <1>3 DEF Using
<1>5. Using(Leave, y, y)
  BY OwnPieces, UsingOwn
<1> HIDE DEF s
<1>6. Using(s \o Leave, x, y)
  BY <1>4, <1>5, UsingOn
<1> QED BY <1>6 DEF s

\* A barrier lets any array be used again.
LEMMA UsingBarrier == \A x, y : Using(BarrierAll, x, y)
<1> DEFINE no == {}
           form == "plain"
           u == << <<"sync", 0, "none">> >>
<1>1. no \in SUBSET Nat /\ form \in Forms /\ ~PSync(form) /\ "sync" \in Meetings
  BY DEF Forms, PSync, Meetings
<1> DEFINE c == [op |-> "enter", kind |-> "sync", root |-> 0, data |-> no, form |-> form]
<1>2. c \in Calls /\ Agreed[c] = u
  <2>1. c \in Calls
    BY <1>1 DEF Calls, CollectiveKinds
  <2> QED BY <1>1, <2>1 DEF Agreed
<1>3. Sync = <<c>> \o Leave
  BY DEF Sync, Enter
<1> HIDE DEF c
<1>4. <<c>> \in Seq(Calls) /\ Seen(Agreed, <<c>>) = u
  <2>1. <<c>> \in Seq(Calls)
    BY <1>2
  <2>2. Seen(Agreed, <<c>>) = Agreed[c]
    BY <1>2, AreViews, SeenOne
  <2> QED BY <1>2, <2>1, <2>2
<1>5. ASSUME NEW x, NEW y PROVE Spaced(u, x, y)
  <2>1. Len(u) = 1 /\ u[1][1] = "sync" /\ u[1][3] = "none"
    OBVIOUS
  <2> HIDE DEF u
  <2>2. Met(u, 1, 1)
    BY <1>1, <2>1 DEF Met
  <2> QED BY <2>1, <2>2 DEF Spaced
<1>6. ASSUME NEW x, NEW y PROVE Using(BarrierAll, x, y)
  <2>1. Using(<<c>>, x, y)
    BY <1>4, <1>5 DEF Using
  <2>2. Using(Quiet, x, x) /\ Using(Leave, y, y)
    BY OwnPieces, SharedPieces, UsingOwn
  <2>3. Using(Quiet \o (<<c>> \o Leave), x, y)
    BY <2>1, <2>2, UsingOn
  <2> QED BY <1>3, <2>3 DEF BarrierAll
<1> QED BY <1>6

\* Loops, whatever is in use after the rounds.
LEMMA UsingLoop ==
    ASSUME NEW n \in Nat, NEW ss, IsLoop(ss, n), NEW X, \A k \in 1 .. n : Using(ss[k], X[k - 1], X[k])
    PROVE  Using(FlattenSeq(ss), X[0], X[n])
<1> DEFINE Q == [k \in 0 .. n |-> {s \in Seq(Calls) : Using(s, X[0], X[k])}]
<1>1. ss \in Seq(Seq(Calls)) /\ Len(ss) = n
  <2>1. \A k \in 1 .. n : ss[k] \in Seq(Calls)
    BY DEF Using
  <2> QED BY <2>1, LoopType
<1>2. <<>> \in Q[0]
  BY OwnOn, UsingOwn DEF Using
<1>3. ASSUME NEW k \in 1 .. n, NEW s \in Q[k - 1] PROVE s \o ss[k] \in Q[k]
  <2>1. k - 1 \in 0 .. n /\ k \in 0 .. n
    OBVIOUS
  <2>2. Using(s, X[0], X[k - 1])
    BY <2>1
  <2>3. Using(s \o ss[k], X[0], X[k])
    BY <2>2, UsingOn
  <2> QED BY <2>1, <2>3 DEF Using
<1>4. \A s : s \in Q[n] => Using(s, X[0], X[n])
  OBVIOUS
<1> HIDE DEF Q
<1>5. FlattenSeq(ss) \in Q[Len(ss)]
  BY <1>1, <1>2, <1>3, FlattenRule
<1> QED BY <1>1, <1>4, <1>5

LEMMA UsingTimes == \A n \in Nat : \A s, x : Using(s, x, x) => Using(Times(n, s), x, x)
<1> SUFFICES ASSUME NEW n \in Nat, NEW s, NEW x, Using(s, x, x) PROVE Using(Times(n, s), x, x)
  OBVIOUS
<1> DEFINE ss == [k \in 1 .. n |-> s]
           X == [k \in 0 .. n |-> x]
<1>1. IsLoop(ss, n) /\ \A k \in 1 .. n : Using(ss[k], X[k - 1], X[k])
  BY DEF IsLoop
<1>2. X[0] = x /\ X[n] = x /\ Times(n, s) = FlattenSeq(ss)
  BY DEF Times
<1> HIDE DEF ss, X
<1> QED BY <1>1, <1>2, UsingLoop

\* A reduction to all over an array that is not in use leaves only this one in use.
LEMMA UsingToAll ==
    \A form \in PSyncArrays : \A x, y : form \notin x /\ form \in y => Using(ToAll(form), x, y)
<1> SUFFICES ASSUME NEW form \in PSyncArrays, NEW x, NEW y, form \notin x, form \in y
             PROVE  Using(ToAll(form), x, y)
  OBVIOUS
<1>1. "all" \in CollectiveKinds /\ form \in Forms /\ "all" \in Meetings
  BY DEF CollectiveKinds, Forms, Meetings
<1>2. {} \in SUBSET Nat
  OBVIOUS
<1> QED BY <1>1, <1>2, UsingOnce DEF ToAll

\* The message rate benchmarks.
LEMMA RatesUse ==
    ASSUME NEW r, NEW n, NEW c, NEW e, Own(c), Own(e)
    PROVE  Using(Touch \o Given(r < n, e) \o BarrierAll
                   \o Times(Len(Sizes), MessageRate(r, n, c) \o ToAll("psync")) \o BarrierAll, {}, {})
<1> DEFINE i == Given(r < n, StartClock \o Times(Iters, c) \o Quiet \o StopClock \o Sample)
           g == Given(r < n, e)
           all == ToAll("psync")
           s == Touch \o BarrierAll \o i \o all
           p == {"psync"}
<1>1. Own(Touch \o g) /\ Own(Touch) /\ Own(i)
  <2>1. Own(StartClock) /\ Own(StopClock) /\ Own(Sample) /\ Own(Quiet) /\ Own(Touch) /\ Iters \in Nat
    BY OwnPieces, SharedPieces, TurnsType
  <2>2. Own(StartClock \o Times(Iters, c) \o Quiet \o StopClock \o Sample)
    BY <2>1, OwnOn
  <2> QED BY <2>1, <2>2, OwnOn
<1>2. Using(all, {}, p)
  <2>1. "psync" \in PSyncArrays
    BY DEF PSyncArrays
  <2> QED BY <2>1, UsingToAll
<1>3. MessageRate(r, n, c) \o ToAll("psync") = s
  BY DEF MessageRate
<1> HIDE DEF i, g, all, p
<1>4. Using(s, p, p)
  BY <1>1, <1>2, UsingOwn, UsingBarrier, UsingOn
<1> HIDE DEF s
<1>5. Using(Times(Len(Sizes), s), p, p)
  BY <1>4, SizesAre, UsingTimes
<1>6. Using(Touch \o g \o BarrierAll \o Times(Len(Sizes), s) \o BarrierAll, {}, {})
  BY <1>1, <1>5, UsingOwn, UsingBarrier, UsingOn
<1> QED BY <1>3, <1>6 DEF g

\* The tests of the atomic operations.
LEMMA AtomicsUse ==
    ASSUME NEW r, NEW n, NEW c, Own(c)
    PROVE  Using(AtomicTest(r, n, c), {"psync2"}, {"psync2"})
<1> DEFINE i == Given(r < n, StartClock \o Times(Iters, c) \o StopClock \o Sample)
           one == ToAll("psync1")
           two == ToAll("psync2")
           p == {"psync1"}
           q == {"psync2"}
<1>1. Own(Touch) /\ Own(i)
  <2>1. Own(StartClock) /\ Own(StopClock) /\ Own(Sample) /\ Own(Touch) /\ Iters \in Nat
    BY OwnPieces, TurnsType
  <2>2. Own(StartClock \o Times(Iters, c) \o StopClock \o Sample)
    BY <2>1, OwnOn
  <2> QED BY <2>1, <2>2, OwnOn
<1>2. Using(one, {}, p) /\ Using(two, p, q)
  <2>1. "psync1" \in PSyncArrays /\ "psync2" \in PSyncArrays
    BY DEF PSyncArrays
  <2> QED BY <2>1, UsingToAll
<1>3. AtomicTest(r, n, c) = Touch \o BarrierAll \o i \o one \o two
  BY DEF AtomicTest
<1> HIDE DEF i, one, two, p, q
<1>4. Using(Touch \o BarrierAll \o i \o one \o two, q, q)
  BY <1>1, <1>2, UsingOwn, UsingBarrier, UsingOn
<1> QED BY <1>3, <1>4 DEF q

\* The message rate and atomics benchmarks in OpenSHMEM.
LEMMA OshmRateUses ==
    ASSUME NEW b \in OshmRate, NEW r \in 0 .. 3 PROVE \E x : Using(PgasProgram(b, r), x, x)
<1> DEFINE c == NxtPe(r, 2)
<1>1. PgasPairs(b) = 2 /\ c \in Nat
  BY NxtPeType DEF PgasPairs
<1>2. /\ Own(PutMem(c)) /\ Own(PutMemNbi(c)) /\ Own(GetMemNbi(c))
      /\ Own(Rma(c, TRUE)) /\ Own(Rma(c, FALSE)) /\ Own(Flush("fetched"))
  BY <1>1, SharedPieces, OwnAccesses
<1>3. CASE b = "osu_oshm_atomics"
  <2> DEFINE f == Fetching(r, 2)
             g == NotFetching(r, 2)
             p == Given(r < 2, PutMem(NxtPe(r, 2)))
             z == {"psync2"}
  <2>1. PgasProgram(b, r)
            = BarrierAll \o Touch \o p \o f \o f \o g \o g \o f \o f \o g \o f
                  \o f \o f \o g \o g \o f \o f \o g \o f \o BarrierAll
    BY <1>1, <1>3 DEF PgasProgram, OshmAtomics, BenchmarkFadd, BenchmarkFinc, BenchmarkAdd, BenchmarkInc,
       BenchmarkCswap, BenchmarkSwap, BenchmarkSet, BenchmarkFetch, BenchmarkFaddLonglong,
       BenchmarkFincLonglong, BenchmarkAddLonglong, BenchmarkIncLonglong, BenchmarkCswapLonglong,
       BenchmarkSwapLonglong, BenchmarkSetLonglong, BenchmarkFetchLonglong
  <2>2. Using(f, z, z) /\ Using(g, z, z)
    <3>1. Own(Rma(c, TRUE) \o Flush("fetched"))
      BY <1>2, OwnOn
    <3> QED BY <1>2, <3>1, AtomicsUse DEF Fetching, NotFetching
  <2>3. Using(Touch \o p, z, z)
    BY <1>2, OwnOn, OwnPieces, UsingOwn
  <2>4. Using(p, z, z) /\ Using(Touch, z, z) /\ Using(BarrierAll, z, z)
    BY <1>2, OwnOn, OwnPieces, UsingOwn, UsingBarrier
  <2> HIDE DEF f, g, p, z
  <2>5. ASSUME NEW s, Using(s, z, z)
        PROVE  Using(s \o f \o f \o g \o g, z, z) /\ Using(s \o f \o f \o g \o f, z, z)
    BY <2>2, <2>5, UsingOn
  <2>6. Using(BarrierAll \o Touch \o p, z, z)
    BY <2>4, UsingOn
  <2>7. Using(BarrierAll \o Touch \o p \o f \o f \o g \o g \o f \o f \o g \o f, z, z)
    BY <2>5, <2>6
  <2>8. Using(BarrierAll \o Touch \o p \o f \o f \o g \o g \o f \o f \o g \o f
                  \o f \o f \o g \o g \o f \o f \o g \o f, z, z)
    BY <2>5, <2>7
  <2> QED BY <2>1, <2>4, <2>8, UsingOn
<1>4. CASE b # "osu_oshm_atomics"
  <2> DEFINE R(call) == RateBenchmark(r, 2, call)
  <2>1. \/ PgasProgram(b, r) = R(PutMem(c))
        \/ PgasProgram(b, r) = R(PutMemNbi(c))
        \/ PgasProgram(b, r) = R(GetMemNbi(c))
    BY <1>1, <1>4 DEF OshmRate, PgasProgram, OshmPutMr, OshmPutMrNb, OshmGetMrNb
  <2>2. ASSUME NEW s, Own(s) PROVE Using(R(s), {}, {})
    BY <1>2, <2>2, RatesUse DEF RateBenchmark
  <2> HIDE DEF R, c
  <2> QED BY <1>2, <2>1, <2>2
<1> QED BY <1>3, <1>4

\* The iterations of a collective benchmark in OpenSHMEM: between two with the
\* same array there is a barrier, or one with the other array for which all meet.
LEMMA IterationsUse ==
    ASSUME NEW kind \in RootedKinds, NEW odd \in PSyncArrays, NEW even \in PSyncArrays
    PROVE  /\ \A x : odd \notin x /\ even \notin x => Using(OshmIterations(kind, odd, even, BarrierAll), x, x)
           /\ kind = "all" /\ odd # even =>
                 Using(OshmIterations(kind, odd, even, <<>>), {}, {InTurn(Turns - 1, odd, even)})
<1> DEFINE form(i) == InTurn(i, odd, even)
           call(i) == OshmCall(kind, form(i))
           ss(between) == [k \in 1 .. Len(Iterations) |->
                     StartClock \o OshmCall(kind, InTurn(Iterations[k], odd, even)) \o StopClock
                       \o Given(Measured(Iterations[k]), Sample) \o between]
<1>0. Turns \in Nat \ {0} /\ Len(Iterations) = Turns /\ \A k \in 1 .. Turns : Iterations[k] = k - 1
  BY IterationsAre, TurnsType
<1>1. \A between : /\ OshmIterations(kind, odd, even, between) = FlattenSeq(ss(between))
                   /\ IsLoop(ss(between), Turns)
                   /\ \A k \in 1 .. Turns :
                         ss(between)[k] = StartClock \o call(k - 1) \o StopClock
                                              \o Given(Measured(k - 1), Sample) \o between
  BY <1>0 DEF OshmIterations, ForEach, IsLoop
<1>2. \A i : form(i) \in {odd, even} /\ form(i) \in Forms /\ PSync(form(i))
  BY DEF InTurn, PSyncArrays, Forms, PSync
<1>3. ASSUME NEW i, NEW x, NEW y, form(i) \notin x, form(i) \in y, x \subseteq y \/ kind \in Meetings
      PROVE  Using(call(i), x, y)
  <2>1. kind \in CollectiveKinds
    BY DEF RootedKinds, CollectiveKinds
  <2> HIDE DEF form
  <2> QED BY <1>2, <1>3, <2>1, AudiencesAre, UsingOnce DEF OshmCall
<1>4. \A i : Own(StartClock) /\ Own(StopClock) /\ Own(Given(Measured(i), Sample)) /\ Own(<<>>)
  BY OwnPieces, OwnOn
<1> HIDE DEF ss, call
<1>5. ASSUME NEW x, odd \notin x, even \notin x
      PROVE  Using(OshmIterations(kind, odd, even, BarrierAll), x, x)
  <2> DEFINE X == [k \in 0 .. Turns |-> x]
             l == ss(BarrierAll)
  <2>1. ASSUME NEW k \in 1 .. Turns PROVE Using(l[k], X[k - 1], X[k])
    <3> DEFINE y == x \cup {form(k - 1)}
               s == Given(Measured(k - 1), Sample)
               t == call(k - 1)
    <3>1. Using(t, x, y) /\ Own(s)
      BY <1>2, <1>3, <1>4, <1>5
    <3>2. l[k] = StartClock \o t \o StopClock \o s \o BarrierAll
      BY <1>1
    <3>x. X[k] = x /\ X[k - 1] = x
      BY <1>0
    <3> HIDE DEF y, s, t, l, X
    <3>3. Using(StartClock \o t \o StopClock \o s \o BarrierAll, x, x)
      BY <1>4, <3>1, UsingOwn, UsingBarrier, UsingOn
    <3> QED BY <3>2, <3>x, <3>3
  <2>2. IsLoop(l, Turns) /\ OshmIterations(kind, odd, even, BarrierAll) = FlattenSeq(l)
    BY <1>1
  <2>3. X[0] = x /\ X[Turns] = x
    BY <1>0
  <2> HIDE DEF l, X
  <2>4. Using(FlattenSeq(l), X[0], X[Turns])
    BY <1>0, <2>1, <2>2, UsingLoop
  <2> QED BY <2>2, <2>3, <2>4
<1>6. ASSUME kind = "all", odd # even
      PROVE  Using(OshmIterations(kind, odd, even, <<>>), {}, {form(Turns - 1)})
  <2> DEFINE X == [k \in 0 .. Turns |-> IF k = 0 THEN {} ELSE {form(k - 1)}]
             none == <<>>
             l == ss(none)
  <2>1. ASSUME NEW k \in 1 .. Turns PROVE Using(l[k], X[k - 1], X[k])
    <3> DEFINE x == X[k - 1]
               y == X[k]
               s == Given(Measured(k - 1), Sample)
               t == call(k - 1)
    <3>1. form(k - 1) \notin x /\ form(k - 1) \in y
      <4>1. k - 1 \in 0 .. Turns /\ k \in 0 .. Turns /\ k # 0
        BY <1>0
      <4>2. ASSUME k - 1 # 0 PROVE form(k - 1) # form((k - 1) - 1)
        <5>1. (k - 1) % 2 = 1 <=> ~(((k - 1) - 1) % 2 = 1)
          BY <4>2
        <5> QED BY <1>6, <5>1 DEF InTurn
      <4> HIDE DEF form
      <4> QED BY <4>1, <4>2
    <3>2. Using(t, x, y) /\ Own(s)
      <4>1. kind \in Meetings
        BY <1>6 DEF Meetings
      <4> HIDE DEF X, x, y
      <4> QED BY <1>3, <1>4, <3>1, <4>1
    <3>3. l[k] = StartClock \o t \o StopClock \o s \o none /\ Own(none)
      BY <1>1, <1>4
    <3> HIDE DEF x, y, s, t, l, none
    <3>4. Using(StartClock \o t \o StopClock \o s \o none, x, y)
      BY <1>4, <3>2, <3>3, UsingOwn, UsingOn
    <3> QED BY <3>3, <3>4 DEF x, y
  <2>2. IsLoop(l, Turns) /\ OshmIterations(kind, odd, even, none) = FlattenSeq(l)
    BY <1>1
  <2>3. X[0] = {} /\ X[Turns] = {form(Turns - 1)}
    <3> HIDE DEF form
    <3> QED BY <1>0
  <2> HIDE DEF l, X
  <2>4. Using(FlattenSeq(l), X[0], X[Turns])
    BY <1>0, <2>1, <2>2, UsingLoop
  <2> QED BY <2>2, <2>3, <2>4
<1> QED BY <1>5, <1>6

\* The collective benchmarks in OpenSHMEM.
LEMMA OshmCollectivesUse ==
    ASSUME NEW b \in OshmCollective, NEW r PROVE \E x, y : Using(PgasProgram(b, r), x, y)
<1> DEFINE red == "pSyncRed1"
           z == {red}
           barrier == OshmIterations("all", "pSyncBarrier1", "pSyncBarrier2", <<>>)
           broadcast == OshmIterations("from_root", "pSyncBcast1", "pSyncBcast2", BarrierAll)
           collect == OshmIterations("all", "pSyncCollect1", "pSyncCollect2", BarrierAll)
           reduce == OshmIterations("all", "pSyncRed1", "pSyncRed2", BarrierAll)
           P1 == barrier \o BarrierAll \o OshmStatistics
           B2 == broadcast \o BarrierAll \o OshmStatistics
           B3 == BarrierAll \o collect \o BarrierAll \o OshmStatistics
           B4 == BarrierAll \o reduce \o OshmStatistics \o BarrierAll
<1>0. /\ Len(Sizes) \in Nat /\ {"all", "from_root"} \subseteq RootedKinds
      /\ {"pSyncBarrier1", "pSyncBarrier2", "pSyncBcast1", "pSyncBcast2", "pSyncCollect1",
           "pSyncCollect2", "pSyncRed1", "pSyncRed2"} \subseteq PSyncArrays
  BY SizesAre DEF RootedKinds, PSyncArrays
<1>1. PICK y : Using(barrier, {}, y)
  <2> DEFINE odd == "pSyncBarrier1"
             even == "pSyncBarrier2"
  <2>1. odd \in PSyncArrays /\ even \in PSyncArrays /\ odd # even /\ "all" \in RootedKinds
    BY <1>0
  <2> HIDE DEF odd, even
  <2>2. Using(OshmIterations("all", odd, even, <<>>), {}, {InTurn(Turns - 1, odd, even)})
    BY <2>1, IterationsUse
  <2> QED BY <2>2 DEF odd, even
<1>2. Using(broadcast, z, z) /\ Using(collect, {}, {}) /\ Using(reduce, {}, {})
  BY <1>0, IterationsUse
<1>3. Using(OshmStatistics, {}, z)
  <2> DEFINE w == {"pSyncRed2"}
  <2>1. red \in PSyncArrays /\ "pSyncRed2" \in PSyncArrays
    BY <1>0
  <2>2. Using(ToAll("pSyncRed1"), {}, z) /\ Using(ToAll("pSyncRed2"), z, w) /\ Using(ToAll("pSyncRed1"), w, z)
    BY <2>1, UsingToAll
  <2> HIDE DEF z, w
  <2> QED BY <2>2, UsingOn DEF OshmStatistics
<1>4. \/ PgasProgram(b, r) = P1
      \/ PgasProgram(b, r) = Times(Len(Sizes), B2)
      \/ PgasProgram(b, r) = Times(Len(Sizes), B3) \o BarrierAll
      \/ PgasProgram(b, r) = Times(Len(Sizes), B4) \o BarrierAll
  BY DEF OshmCollective, PgasProgram, OshmBarrier, OshmBroadcast, OshmCollect, OshmFcollect, OshmReduce
<1> HIDE DEF z, barrier, broadcast, collect, reduce
<1>5. Using(P1, {}, z) /\ Using(B2, z, z) /\ Using(B3, z, z) /\ Using(B4, z, z)
  BY <1>1, <1>2, <1>3, UsingBarrier, UsingOn
<1> HIDE DEF P1, B2, B3, B4
<1>6. /\ Using(Times(Len(Sizes), B2), z, z)
      /\ Using(Times(Len(Sizes), B3) \o BarrierAll, z, z)
      /\ Using(Times(Len(Sizes), B4) \o BarrierAll, z, z)
  BY <1>0, <1>5, UsingTimes, UsingBarrier, UsingOn
<1> QED BY <1>4, <1>5, <1>6

\* In what all ranks read, they meet between two uses of an array.
LEMMA ArraysMeet ==
    ASSUME RunTyped, bench \in UsesArrays, NEW r \in Ranks[bench], NEW w, w = Word(Agreed, r)
    PROVE  \A k \in 1 .. Len(w) : w[k][3] # "none" =>
              \A j \in 1 .. k - 1 : w[j][3] = w[k][3] => Met(w, j + 1, k - 1)
<1> DEFINE s == Scripts[bench][opt][r]
<1>1. bench \in Benchmarks /\ opt \in OptionsOf(bench) /\ bench \in PgasBenchmarks
  BY DEF RunTyped, UsesArrays, PgasBenchmarks, PgasCollective
<1>2. s = PgasProgram(bench, r)
  <2>1. s = Program(bench, r, opt)
    BY <1>1, ScriptsAre
  <2> QED BY <1>1, <2>1, ProgramsAre
<1>3. \E x, y : Using(s, x, y)
  <2>1. CASE bench \in OshmRate
    <3>1. r \in 0 .. 3
      BY <1>1, <2>1, RanksAre
    <3>2. \E x : Using(PgasProgram(bench, r), x, x)
      BY <2>1, <3>1, OshmRateUses
    <3> HIDE DEF s
    <3> QED BY <1>2, <3>2
  <2>2. CASE bench \in OshmCollective
    BY <1>2, <2>2, OshmCollectivesUse
  <2> QED BY <2>1, <2>2 DEF UsesArrays
<1> HIDE DEF s
<1>4. \E x, y : Spaced(w, x, y)
  BY <1>3 DEF Using, Word, s
<1> QED BY <1>4 DEF Spaced

\* What has been heard is part of what there is to hear.
LEMMA HeardPart ==
    ASSUME NEW K \in Views, NEW s \in Seq(Calls), NEW m \in 0 .. Len(s)
    PROVE  Heard(K, s, m) <= Len(Seen(K, s))
<1> DEFINE u == SubSeq(s, 1, m)
           v == SubSeq(s, m + 1, Len(s))
<1>1. u \in Seq(Calls) /\ v \in Seq(Calls)
  BY SubSeqProperties
<1>2. s = u \o v
  <2>1. 1 \in 1 .. Len(s) + 1 /\ m \in 1 - 1 .. Len(s) /\ Len(s) \in m .. Len(s)
    OBVIOUS
  <2>2. SubSeq(s, 1, Len(s)) = s
    BY SubSeqFull
  <2>3. SubSeq(s, 1, m) \o SubSeq(s, m + 1, Len(s)) = SubSeq(s, 1, Len(s))
    <3> HIDE DEF u, v
    <3> QED BY <2>1, ConcatAdjacentSubSeq
  <2> QED BY <2>2, <2>3
<1> HIDE DEF u, v
<1> DEFINE p == Seen(K, u)
           q == Seen(K, v)
<1>3. p \in Seq(Letters) /\ q \in Seq(Letters) /\ Seen(K, s) = p \o q
  BY <1>1, <1>2, SeenType, SeenOn DEF Views
<1> HIDE DEF p, q
<1>4. Len(p) <= Len(p \o q)
  BY <1>3
<1> QED BY <1>3, <1>4 DEF Heard, u, p

-----------------------------------------------------------------------------
(* The pSync arrays of OpenSHMEM in the collective operations. *)
\* The first operation of a list is not left by all, each has been entered, and one
\* for which all meet is left by nobody before all have entered it.
Gathered(L) ==
    /\ L # <<>> => L[1].out # Ranks[bench]
    /\ \A k \in DOMAIN L : DOMAIN L[k].in # {}
    /\ \A k \in DOMAIN L : L[k].kind \in Meetings /\ L[k].out # {} => Ranks[bench] \subseteq DOMAIN L[k].in
ArraysFree == Gathered(ledger) /\ "psync" \notin wrong

\* Entering an operation.
LEMMA EntersGathered ==
    ASSUME RunTyped, PlaceTyped, DataTyped, RemoteTyped, LedgerTyped, NEW a \in Actors[bench],
           EnterCollective(a), Gathered(ledger)
    PROVE  Gathered(ledger')
<1> DEFINE r == a[1]
           k == EntryOf(r)
           p == [stamp |-> buffer[a].stamp, errors |-> errors[a], age |-> age[r] + 1]
           op == Now(a)
<1>1. /\ At(a, {"enter"})
      /\ k > Len(ledger) => ledger' = Append(ledger, Opened(op, r, p))
      /\ ~(k > Len(ledger)) => ledger' = Joined(ledger, k, r, p)
  BY DEF EnterCollective, Opened, Joined
<1>2. r \in Ranks[bench] /\ op \in Calls /\ op.op = "enter"
  BY <1>1, Doing
<1>3. p \in Parts
  <2>1. buffer[a].stamp \in Stamps /\ errors[a] \in BOOLEAN /\ age[r] + 1 \in Nat
    BY <1>2 DEF DataTyped, RemoteTyped
  <2> QED BY <2>1 DEF Parts
<1>4. k \in 1 .. Len(ledger) + 1 /\ Len(ledger) \in Nat /\ ledger \in Seq(Entries) /\ DOMAIN ledger = 1 .. Len(ledger)
  <2>1. ledger \in Seq(Entries)
    BY DEF LedgerTyped, Ledgers
  <2> QED BY <2>1, NextEntry DEF LedgerTyped
<1> HIDE DEF r, k, p, op
<1>5. CASE k > Len(ledger)
  <2> DEFINE e == Opened(op, r, p)
             M == Append(ledger, e)
  <2>1. e.out = {} /\ e \in Entries /\ DOMAIN e.in # {}
    BY <1>2, <1>3, OpenedFields
  <2> HIDE DEF e
  <2>2. /\ M # <<>> /\ DOMAIN M = 1 .. Len(ledger) + 1 /\ M[Len(ledger) + 1] = e
        /\ \A j \in 1 .. Len(ledger) : M[j] = ledger[j]
    BY <1>4, <2>1
  <2> HIDE DEF M
  <2>3. M[1].out # Ranks[bench]
    <3>1. CASE Len(ledger) = 0
      BY <1>2, <2>1, <2>2, <3>1
    <3>2. CASE Len(ledger) # 0
      <4>1. 1 \in 1 .. Len(ledger) /\ ledger # <<>>
        BY <1>4, <3>2
      <4> QED BY <2>2, <4>1 DEF Gathered
    <3> QED BY <3>1, <3>2
  <2>4. ASSUME NEW j \in DOMAIN M, M[j].kind \in Meetings, M[j].out # {}
        PROVE  Ranks[bench] \subseteq DOMAIN M[j].in
    <3>1. j \in 1 .. Len(ledger)
      BY <1>4, <2>1, <2>2, <2>4
    <3> QED BY <1>4, <2>2, <2>4, <3>1 DEF Gathered
  <2>5. ledger' = M
    BY <1>1, <1>5 DEF M, e
  <2>6. ASSUME NEW j \in DOMAIN M PROVE DOMAIN M[j].in # {}
    <3>1. j \in 1 .. Len(ledger) \/ j = Len(ledger) + 1
      BY <1>4, <2>2
    <3> QED BY <1>4, <2>1, <2>2, <3>1 DEF Gathered
  <2> QED BY <2>3, <2>4, <2>5, <2>6 DEF Gathered
<1>6. CASE ~(k > Len(ledger))
  <2> DEFINE e == Joining(ledger[k], r, p)
             M == [ledger EXCEPT ![k] = e]
  <2>1. k \in DOMAIN ledger /\ ledger[k] \in Entries
    BY <1>4, <1>6
  <2>2. DOMAIN e.in = DOMAIN ledger[k].in \cup {r} /\ e \in Entries /\ e.out = ledger[k].out
    BY <1>2, <1>3, <2>1, JoiningFields
  <2>3. e.kind = ledger[k].kind
    BY <2>1 DEF Joining, Entries
  <2>4. ledger' = M
    BY <1>1, <1>6 DEF Joined, Joining
  <2> HIDE DEF e
  <2>5. /\ DOMAIN M = DOMAIN ledger /\ ledger # <<>> /\ 1 \in DOMAIN ledger
        /\ \A j \in DOMAIN ledger : /\ M[j].out = ledger[j].out /\ M[j].kind = ledger[j].kind
                                    /\ DOMAIN ledger[j].in \subseteq DOMAIN M[j].in
    BY <1>4, <2>1, <2>2, <2>3
  <2> HIDE DEF M
  <2>6. ASSUME NEW j \in DOMAIN M, M[j].kind \in Meetings, M[j].out # {}
        PROVE  Ranks[bench] \subseteq DOMAIN M[j].in
    <3>1. j \in DOMAIN ledger /\ Ranks[bench] \subseteq DOMAIN ledger[j].in
      BY <2>5, <2>6 DEF Gathered
    <3> QED BY <2>5, <3>1
  <2>7. M[1].out # Ranks[bench]
    BY <2>5 DEF Gathered
  <2>8. \A j \in DOMAIN M : DOMAIN M[j].in # {}
    BY <2>5 DEF Gathered
  <2> QED BY <2>4, <2>6, <2>7, <2>8 DEF Gathered
<1> QED BY <1>5, <1>6

\* Leaving one.
LEMMA LeavesGathered ==
    ASSUME RunTyped, PlaceTyped, OnCourse, LedgerTyped, Inside, NEW a \in Actors[bench],
           LeaveCollective(a), Gathered(ledger)
    PROVE  Gathered(ledger')
<1> DEFINE r == a[1]
           k == UnderWay(r)
           left == Parted(ledger, k, r)
<1>1. /\ At(a, {"leave"}) /\ Acts(a) /\ Complete(r)
      /\ ledger' = IF left[1].out = Ranks[bench] THEN Tail(left) ELSE left
  BY DEF LeaveCollective, Acts, Parted
<1>2. r \in Ranks[bench] /\ Phase(a) = "in"
  BY <1>1, Doing, PhaseLeaves
<1>3. IsIn(ledger, r)
  <2> HIDE DEF r
  <2>1. a[1] = r
    BY DEF r
  <2> QED BY <1>2, <2>1 DEF Inside
<1>4. k \in DOMAIN ledger /\ r \in DOMAIN ledger[k].in \ ledger[k].out
  BY <1>3, EntryUnderWay DEF LedgerTyped
<1>5. /\ ledger \in Seq(Entries) /\ DOMAIN ledger = 1 .. Len(ledger) /\ Len(ledger) \in Nat
      /\ Ordered(ledger) /\ Entered(ledger)
  BY DEF LedgerTyped, Ledgers
<1>6. ledger[k].kind \in Meetings => Ranks[bench] \subseteq DOMAIN ledger[k].in
  BY <1>1 DEF Complete, Needed, Meetings
<1> HIDE DEF k, left, r
<1> DEFINE e == Parting(ledger[k], r)
<1>7. e \in Entries /\ e.in = ledger[k].in /\ e.kind = ledger[k].kind
  <2>1. ledger[k] \in Entries
    BY <1>4, <1>5
  <2> QED BY <1>2, <2>1, PartingFields DEF Parting, Entries
<1>8. left = [ledger EXCEPT ![k] = e]
  BY DEF left, Parted, Parting
<1> HIDE DEF e
<1>9. /\ left \in Seq(Entries) /\ DOMAIN left = DOMAIN ledger /\ left[k] = e
      /\ \A j \in DOMAIN ledger : j # k => left[j] = ledger[j]
  BY <1>4, <1>5, <1>7, <1>8
<1>10. ASSUME NEW j \in DOMAIN left, left[j].kind \in Meetings, left[j].out # {}
       PROVE  Ranks[bench] \subseteq DOMAIN left[j].in
  <2>1. CASE j = k
    BY <1>6, <1>7, <1>9, <1>10, <2>1
  <2>2. CASE j # k
    BY <1>9, <1>10, <2>2 DEF Gathered
  <2> QED BY <2>1, <2>2
<1>a. ASSUME NEW j \in DOMAIN left PROVE DOMAIN left[j].in # {}
  BY <1>4, <1>7, <1>9 DEF Gathered
<1>11. CASE left[1].out # Ranks[bench]
  BY <1>1, <1>10, <1>11, <1>a DEF Gathered
<1>12. CASE left[1].out = Ranks[bench]
  <2> DEFINE M == Tail(left)
             n == Len(ledger)
  <2>1. k = 1
    <3>1. ledger[1].out # Ranks[bench] /\ 1 \in DOMAIN ledger
      BY <1>4, <1>5 DEF Gathered
    <3> QED BY <1>9, <1>12, <3>1
  <2>2. n \in Nat \ {0} /\ Len(left) = n /\ left # <<>>
    BY <1>4, <1>5, <1>9
  <2>3. M \in Seq(Entries) /\ DOMAIN M = 1 .. n - 1 /\ \A j \in 1 .. n - 1 : M[j] = left[j + 1]
    <3>1. M \in Seq(Entries) /\ Len(M) = Len(left) - 1 /\ \A j \in 1 .. Len(M) : M[j] = left[j + 1]
      BY <1>9, <2>2, HeadTailProperties
    <3> HIDE DEF M, n
    <3> QED BY <2>2, <3>1
  <2> HIDE DEF M
  <2>4. ASSUME NEW j \in DOMAIN M, M[j].kind \in Meetings, M[j].out # {}
        PROVE  Ranks[bench] \subseteq DOMAIN M[j].in
    <3>1. j \in 1 .. n - 1 /\ j + 1 \in DOMAIN left
      BY <1>5, <1>9, <2>2, <2>3
    <3>2. M[j] = left[j + 1]
      BY <2>3, <3>1
    <3> QED BY <1>10, <2>4, <3>1, <3>2
  <2>a. ASSUME NEW j \in DOMAIN M PROVE DOMAIN M[j].in # {}
    <3>1. j \in 1 .. n - 1 /\ j + 1 \in DOMAIN left
      BY <1>5, <1>9, <2>2, <2>3
    <3>2. M[j] = left[j + 1]
      BY <2>3, <3>1
    <3> QED BY <1>a, <3>1, <3>2
  <2>5. ASSUME M # <<>> PROVE M[1].out # Ranks[bench]
    <3>1. 1 \in 1 .. n - 1
      BY <2>2, <2>3, <2>5
    <3>2. 2 \in DOMAIN ledger /\ 1 \in 1 .. 2 - 1
      BY <1>5, <3>1
    <3>3. M[1] = ledger[2]
      BY <1>9, <2>1, <2>3, <3>1, <3>2
    <3>4. r \notin ledger[1].out
      BY <1>4, <2>1
    <3>5. r \notin DOMAIN ledger[2].in
      BY <1>5, <3>2, <3>4 DEF Ordered
    <3>6. r \notin ledger[2].out
      BY <1>5, <3>2, <3>5 DEF Entered
    <3> QED BY <1>2, <3>3, <3>6
  <2>6. ledger' = M
    BY <1>1, <1>12 DEF M
  <2> QED BY <2>a, <2>4, <2>5, <2>6 DEF Gathered
<1> QED BY <1>11, <1>12

\* Between two operations of the list over the same array there is one for which
\* all meet; who has left it knows that all have left those before.
LEMMA EntersFreely ==
    ASSUME RunTyped, PlaceTyped, OnCourse, LedgerTyped, Inside, Agreement, Gathered(ledger),
           NEW a \in Actors[bench], EnterCollective(a)
    PROVE  "psync" \notin Objection(Now(a), a[1])
<1> DEFINE r == a[1]
           k == EntryOf(r)
           op == Now(a)
           w == Word(Agreed, r)
<1>1. At(a, {"enter"})
  BY DEF EnterCollective
<1>2. r \in Ranks[bench] /\ op \in Calls /\ op.op = "enter" /\ op.form \in Forms /\ a[1] = r
  BY <1>1, Doing, CallTypes
<1> SUFFICES ASSUME PSync(op.form), NEW j \in DOMAIN ledger, ledger[j].form = op.form, r \in ledger[j].out
             PROVE  FALSE
  <2> HIDE DEF op, r
  <2>1. CASE PSync(op.form)
    <3>1. op.form # "plain"
      BY <2>1 DEF PSync
    <3> QED BY <2>1, <3>1 DEF Objection, op, r
  <2>2. CASE ~PSync(op.form)
    <3>1. op.form \in {"plain", "in_place", "persistent"}
      BY <2>2 DEF PSync
    <3> QED BY <2>2, <3>1 DEF Objection, Unless, op, r
  <2> QED BY <2>1, <2>2
<1>3. bench \in UsesArrays /\ bench # "osu_latency_mt"
  <2>1. "report" \notin {"enter"}
    OBVIOUS
  <2>2. Here(a).local.arrays = (bench \in UsesArrays) /\ LocalMove(a[1], op, Here(a).local, There(a).local)
    BY <1>1, <2>1, StandsSo
  <2>3. OrderlyMove(op, Here(a).local)
    BY <1>2, <2>2 DEF LocalMove
  <2>4. Here(a).local.arrays
    BY <1>2, <2>3 DEF OrderlyMove
  <2>5. "osu_latency_mt" \notin UsesArrays
    BY DEF UsesArrays, OshmRate, OshmCollective
  <2> QED BY <2>2, <2>4, <2>5
<1>4. PICK n : Agreeing(n, ledger, queue, posted)
  BY <1>3 DEF Agreement
<1>5. Paced(n) /\ InStep(n, ledger)
  BY <1>4 DEF Agreeing
<1>6. n[r] = pc[a] - 1
  <2> SUFFICES ASSUME n[a[1]] # pc[a] - 1 PROVE FALSE
    OBVIOUS
  <2>1. Now(a).op = "report"
    BY <1>1, <1>5, OutOfPace
  <2> QED BY <1>2, <2>1
<1> DEFINE told == Told(n, Agreed, r)
           len == Len(ledger)
<1>7. /\ k \in 1 .. len + 1 /\ len \in Nat /\ DOMAIN ledger = 1 .. len /\ ledger \in Seq(Entries)
      /\ \A i \in 1 .. k - 1 : r \in DOMAIN ledger[i].in
      /\ k <= len => r \notin DOMAIN ledger[k].in
      /\ Ordered(ledger) /\ Entered(ledger)
  <2>1. ledger \in Seq(Entries) /\ Ordered(ledger) /\ Entered(ledger)
    BY DEF LedgerTyped, Ledgers
  <2> QED BY <2>1, NextEntry DEF LedgerTyped
<1>8. PICK B \in Nat : /\ told \in B .. B + len
                       /\ \A i \in 1 .. len : /\ r \in DOMAIN ledger[i].in <=> B + i <= told
                                              /\ Key(ledger[i]) = w[B + i]
  BY <1>2, <1>5, <1>7 DEF InStep
<1>9. told + 1 <= Len(w) /\ w[told + 1] = Key(op) /\ told \in Nat
  <2>1. Agreed \in Views /\ Agreed[op] = <<Key(op)>>
    BY <1>2, AreViews DEF Agreed, Key
  <2> DEFINE m == [n EXCEPT ![a[1]] = pc[a]]
             s == Scripts[bench][opt][r]
  <2>2. Tells(n, m, a, Agreed)
    BY <1>1, <1>5, <1>6, <2>1, Telling
  <2>3. Told(m, Agreed, r) = told + 1 /\ w[told + 1] = Key(op)
    <3>1. Len(Agreed[op]) = 1
      BY <2>1
    <3> HIDE DEF m
    <3> QED BY <2>1, <2>2, <3>1, Zenon DEF Tells
  <2>4. s \in Seq(Calls) /\ m[r] \in 0 .. Len(s)
    <3>1. pc[a] \in 1 .. Len(s) /\ s \in Seq(Calls)
      BY <1>1, Doing DEF Script
    <3>2. m[r] = pc[a]
      BY <1>2, <1>5 DEF Paced
    <3> QED BY <3>1, <3>2
  <2> HIDE DEF s
  <2>5. Told(m, Agreed, r) <= Len(w)
    <3>1. Heard(Agreed, s, m[r]) <= Len(Seen(Agreed, s))
      BY <2>1, <2>4, HeardPart
    <3> QED BY <1>2, <3>1 DEF Told, Word, s
  <2>6. told \in Nat
    BY <1>5, <2>1, ToldType
  <2> QED BY <2>3, <2>5, <2>6
<1> HIDE DEF r, k, op, w, told, len
<1>10. told = B + (k - 1)
  <2>1. k - 1 >= 1 => told >= B + (k - 1)
    <3>1. k - 1 >= 1 => k - 1 \in 1 .. k - 1 /\ k - 1 \in 1 .. len
      BY <1>7
    <3> QED BY <1>7, <1>8, <1>9, <3>1
  <2>2. k <= len => ~(B + k <= told)
    <3>1. k <= len => k \in 1 .. len
      BY <1>7
    <3> QED BY <1>7, <1>8, <1>9, <3>1
  <2> QED BY <1>7, <1>8, <1>9, <2>1, <2>2
<1>11. j \in 1 .. k - 1 /\ j \in 1 .. len
  <2>1. r \in DOMAIN ledger[j].in /\ j \in 1 .. len
    BY <1>7 DEF Entered
  <2>2. B + j <= told
    BY <1>8, <2>1
  <2> QED BY <1>7, <1>10, <2>1, <2>2
<1>12. w[B + k][3] = op.form /\ w[B + j][3] = op.form /\ op.form # "none"
  <2>1. w[B + k] = Key(op)
    <3>1. told + 1 = B + k
      BY <1>7, <1>10
    <3> QED BY <1>9, <3>1
  <2>2. w[B + j] = Key(ledger[j])
    BY <1>8, <1>11
  <2>3. "none" \notin Forms
    BY DEF Forms, PSyncArrays
  <2> QED BY <1>2, <2>1, <2>2, <2>3 DEF Key
<1>13. Met(w, (B + j) + 1, (B + k) - 1)
  <2> DEFINE x == B + j
             y == B + k
  <2>1. y \in 1 .. Len(w) /\ x \in 1 .. y - 1
    <3>1. y = told + 1
      BY <1>7, <1>10
    <3>2. Len(w) \in Int
      <4>1. Scripts[bench][opt][r] \in Seq(Calls)
        BY <1>2, RankScript
      <4>2. Seen(Agreed, Scripts[bench][opt][r]) \in Seq(Letters)
        BY <4>1, AreViews, SeenType
      <4> QED BY <4>2 DEF w, Word
    <3> QED BY <1>7, <1>9, <1>11, <3>1, <3>2
  <2>2. w[y][3] # "none" /\ w[x][3] = w[y][3]
    BY <1>12
  <2> HIDE DEF x, y
  <2>3. w = Word(Agreed, r)
    BY DEF w
  <2>4. \A l \in 1 .. Len(w) : w[l][3] # "none" =>
           \A i \in 1 .. l - 1 : w[i][3] = w[l][3] => Met(w, i + 1, l - 1)
    BY <1>2, <1>3, <2>3, ArraysMeet
  <2>5. Met(w, x + 1, y - 1)
    BY <2>1, <2>2, <2>4
  <2> QED BY <2>5 DEF x, y
<1>14. PICK i \in 2 .. k - 1 : i \in 1 .. len /\ ledger[i].kind \in Meetings
  <2>1. PICK l \in (B + j) + 1 .. (B + k) - 1 : w[l][1] \in Meetings
    BY <1>13 DEF Met
  <2>2. l - B \in 2 .. k - 1 /\ l - B \in 1 .. len /\ B + (l - B) = l
    BY <1>7, <1>11
  <2>3. w[l] = Key(ledger[l - B])
    BY <1>8, <2>2
  <2> QED BY <2>1, <2>2, <2>3 DEF Key
<1>15. r \in ledger[i].out
  <2>1. r \in DOMAIN ledger[i].in
    <3>1. i \in 1 .. k - 1
      BY <1>7
    <3> QED BY <1>7, <3>1
  <2>2. ~IsIn(ledger, r)
    <3>1. Phase(a) = "out"
      BY <1>3, PhaseEnters
    <3>2. \A b \in Actors[bench] : b[1] = r => b = a
      BY <1>2, <1>3, OnlyOne
    <3>3. ~\E b \in Actors[bench] : b[1] = r /\ Phase(b) = "in"
      BY <3>1, <3>2
    <3> QED BY <1>2, <3>3 DEF Inside
  <2> QED BY <1>7, <1>14, <2>1, <2>2 DEF IsIn
<1>16. Ranks[bench] \subseteq DOMAIN ledger[i].in
  BY <1>7, <1>14, <1>15 DEF Gathered
<1>17. Ranks[bench] \subseteq ledger[1].out
  <2>1. 1 \in 1 .. i - 1 /\ i \in DOMAIN ledger
    BY <1>7, <1>14
  <2> QED BY <1>7, <1>16, <2>1 DEF Ordered
<1>18. ledger[1].out \subseteq Ranks[bench] /\ ledger # <<>>
  <2>1. 1 \in 1 .. len
    BY <1>7, <1>11
  <2> QED BY <1>7, <2>1, EntryFields
<1> QED BY <1>17, <1>18 DEF Gathered

\* Every call keeps the arrays apart.
LEMMA ArraysFreeStep ==
    ASSUME IInv, Agreement, ArraysFree, NEW a \in Actors[bench], Acts(a)
    PROVE  ArraysFree'
<1>1. /\ RunTyped /\ PlaceTyped /\ DataTyped /\ RemoteTyped /\ OnCourse /\ LedgerTyped /\ Inside
      /\ Gathered(ledger) /\ "psync" \notin wrong /\ bench' = bench
  BY Frames DEF IInv, Typed, ArraysFree, run
<1>2. ASSUME Gathered(ledger'), "psync" \notin wrong' PROVE ArraysFree'
  BY <1>1, <1>2 DEF ArraysFree, Gathered
<1>3. CASE EnterCollective(a)
  <2> DEFINE obj == Objection(Now(a), a[1])
  <2>1. "psync" \notin obj
    BY <1>1, <1>3, EntersFreely
  <2>2. wrong' = wrong \cup obj \/ wrong' = wrong \cup (obj \cup {}) \/ wrong' = wrong \cup (obj \cup {"collective"})
    BY <1>3 DEF EnterCollective, Complain
  <2> HIDE DEF obj
  <2>3. "psync" \notin wrong'
    BY <1>1, <2>1, <2>2
  <2>4. Gathered(ledger')
    BY <1>1, <1>3, EntersGathered
  <2> QED BY <1>2, <2>3, <2>4
<1>4. CASE LeaveCollective(a)
  <2>1. "psync" \notin wrong'
    BY <1>1, <1>4 DEF LeaveCollective
  <2> QED BY <1>1, <1>2, <1>4, <2>1, LeavesGathered
<1>5. CASE PostSend(a) \/ PostReceive(a)
  <2>1. ledger' = ledger
    BY <1>5 DEF PostSend, PostReceive
  <2>2. \E what : wrong' = wrong \cup what /\ what \in {{}, {"size"}}
    <3> DEFINE Grew(what) == wrong' = wrong \cup what
    <3>1. wrong' = wrong \/ Grew({}) \/ Grew({"size"})
      <4>1. PostSend(a) => wrong' = wrong \/ Grew({}) \/ Grew({"size"})
        BY DEF PostSend, Complain
      <4>2. PostReceive(a) => wrong' = wrong \/ Grew({}) \/ Grew({"size"})
        BY DEF PostReceive, Complain
      <4> QED BY <1>5, <4>1, <4>2
    <3>2. wrong' = wrong => Grew({})
      OBVIOUS
    <3> QED BY <3>1, <3>2
  <2>3. "psync" \notin wrong'
    BY <1>1, <2>2
  <2> QED BY <1>1, <1>2, <2>1, <2>3
<1>6. CASE ~(EnterCollective(a) \/ LeaveCollective(a) \/ PostSend(a) \/ PostReceive(a))
  BY <1>1, <1>2, <1>6, OtherCalls
<1> QED BY <1>3, <1>4, <1>5, <1>6

\* No element enters an OpenSHMEM collective with a pSync array that another one
\* is still using in an earlier operation (PSyncApart): between two operations over
\* one array all meet in a barrier or in an operation over another array, and who
\* has left that one knows that everybody has left the first.
THEOREM ArraysApart == Spec => []PSyncApart
<1>1. Init => Agreement /\ ArraysFree
  <2>1. Init => ledger = <<>> /\ wrong = {}
    BY DEF Init
  <2> QED BY <2>1, AgreementBegins DEF ArraysFree, Gathered
<1>2. IInv /\ Agreement /\ ArraysFree /\ [Next]_vars => (Agreement /\ ArraysFree)'
  <2>1. UNCHANGED vars /\ ArraysFree => ArraysFree'
    BY DEF vars, run, ArraysFree, Gathered
  <2> QED BY <2>1, SomeoneActs, AgreementStep, AgreementStutters, ArraysFreeStep
<1>3. ArraysFree => PSyncApart
  BY DEF ArraysFree, PSyncApart
<1> QED BY <1>1, <1>2, <1>3, Invariance, PTL DEF Spec

-----------------------------------------------------------------------------
(* Programs without remote accesses, and whom their messages are for. *)

\* What has to do with errors and threads, and may be left out.
Omissible == {"check", "clear", "break", "report", "sum_errors", "elect", "meet"}

\* Calls that are no remote accesses, messages that are for members of T or from
\* them, and nothing of what X leaves out.
InnerCall(T, X) ==
    {c \in Calls : /\ c.op \notin {"rma", "close"} \cup (X \cap Omissible)
                   /\ c.op = "enter" => c.kind \notin X \cap Omissible
                   /\ c.op \in {"isend", "irecv"} => c.peer \in T}
Inner(T, X, s) == s \in Seq(InnerCall(T, X))

\* Such calls, one after the other, conditional or repeated.
LEMMA InnerOn ==
    \A T, X :
        /\ Inner(T, X, <<>>)
        /\ \A s, t : Inner(T, X, s) /\ Inner(T, X, t) => Inner(T, X, s \o t)
        /\ \A c, s : (c => Inner(T, X, s)) => Inner(T, X, Given(c, s))
        /\ \A n \in Nat : \A s : Inner(T, X, s) => Inner(T, X, Times(n, s))
BY Within0 DEF Inner

\* A loop of such calls.
LEMMA InnerLoop ==
    ASSUME NEW T, NEW X, NEW n \in Nat, NEW ss, IsLoop(ss, n), \A k \in 1 .. n : Inner(T, X, ss[k])
    PROVE  Inner(T, X, FlattenSeq(ss))
BY LoopWithin DEF Inner

\* The loop over the iterations.
LEMMA InnerIterations ==
    ASSUME NEW T, NEW X, NEW ss, IsLoop(ss, Len(Iterations)), \A k \in 1 .. Len(Iterations) : Inner(T, X, ss[k])
    PROVE  Inner(T, X, FlattenSeq(ss))
BY InnerLoop, IterationsAre, TurnsType

\* One such call.
LEMMA InnerOne ==
    ASSUME NEW T, NEW X, NEW c \in Calls, c.op \notin {"rma", "close"} \cup (X \cap Omissible),
           c.op = "enter" => c.kind \notin X \cap Omissible,
           c.op \in {"isend", "irecv"} => c.peer \in T
    PROVE  Inner(T, X, <<c>>)
<1>1. c \in InnerCall(T, X)
  BY DEF InnerCall
<1> QED BY <1>1 DEF Inner

\* A call without arguments is one.
LEMMA InnerNamed ==
    \A T, X : \A o \in Plain : o \notin X \cap Omissible => Inner(T, X, <<[op |-> o]>>)
<1> SUFFICES ASSUME NEW T, NEW X, NEW o \in Plain, o \notin X \cap Omissible
             PROVE  Inner(T, X, <<[op |-> o]>>)
  OBVIOUS
<1>1. [op |-> o] \in Calls /\ [op |-> o].op \notin {"isend", "irecv", "rma", "close", "enter"}
  BY DEF Calls, Plain
<1> QED BY <1>1, InnerOne

\* The pieces of the programs that have to do with the own rank alone.
LEMMA InnerPieces ==
    \A T, X :
        /\ Inner(T, X, Wait("isend")) /\ Inner(T, X, Wait("irecv")) /\ Inner(T, X, Leave)
        /\ Inner(T, X, StartClock) /\ Inner(T, X, StopClock) /\ Inner(T, X, Sample)
        /\ \A i : Inner(T, X, StartOnce(i)) /\ Inner(T, X, StopOnce(i))
        /\ \A i \in 0 .. Turns - 1 : Inner(T, X, Fill(i))
        /\ Inner(T, X, SynchronizeStream) /\ \A v : Inner(T, X, JavaFill(v))
<1> SUFFICES ASSUME NEW T, NEW X
             PROVE  /\ Inner(T, X, Wait("isend")) /\ Inner(T, X, Wait("irecv"))
                    /\ Inner(T, X, Leave) /\ Inner(T, X, StartClock) /\ Inner(T, X, StopClock)
                    /\ Inner(T, X, Sample)
                    /\ \A i : Inner(T, X, StartOnce(i)) /\ Inner(T, X, StopOnce(i))
                    /\ \A i \in 0 .. Turns - 1 : Inner(T, X, Fill(i))
                    /\ Inner(T, X, SynchronizeStream) /\ \A v : Inner(T, X, JavaFill(v))
  OBVIOUS
<1>1. /\ Inner(T, X, Leave) /\ Inner(T, X, StartClock) /\ Inner(T, X, StopClock)
      /\ Inner(T, X, Sample)
  <2>1. {"leave", "start", "stop", "sample"} \subseteq Plain \ Omissible
    BY DEF Plain, Omissible
  <2> QED BY <2>1, InnerNamed DEF Leave, StartClock, StopClock, Sample
<1>2. ASSUME NEW k \in {"isend", "irecv"} PROVE Inner(T, X, Wait(k))
  <2>1. [op |-> "wait", kind |-> k] \in Calls
    BY DEF Calls
  <2> QED BY <2>1, InnerOne DEF Wait, Omissible
<1>3. ASSUME NEW i \in 0 .. Turns - 1 PROVE Inner(T, X, Fill(i))
  <2> DEFINE c == [op |-> "fill", stamp |-> i]
  <2>1. i \in 0 .. Skip + Iters - 1
    BY TurnsType DEF Turns
  <2>2. c \in Calls
    BY <2>1 DEF Calls
  <2>3. c.op = "fill"
    OBVIOUS
  <2> HIDE DEF c
  <2>4. Inner(T, X, <<c>>)
    BY <2>2, <2>3, InnerOne DEF Omissible
  <2> QED BY <2>4 DEF Fill, c
<1>4. \A i : Inner(T, X, StartOnce(i)) /\ Inner(T, X, StopOnce(i))
  BY <1>1, InnerOn DEF StartOnce, StopOnce
<1>5. Inner(T, X, SynchronizeStream)
  BY <1>2, InnerOn DEF SynchronizeStream
<1>6. \A v : Inner(T, X, JavaFill(v))
  <2>1. 0 \in 0 .. Turns - 1
    BY TurnsType
  <2> QED BY <1>3, <2>1, InnerOn DEF JavaFill
<1> QED BY <1>1, <1>2, <1>3, <1>4, <1>5, <1>6

\* Those that have to do with errors, unless they are left out.
LEMMA InnerVerdicts ==
    \A T, X :
        /\ "check" \notin X => Inner(T, X, Check) /\ \A v : Inner(T, X, JavaCheck(v))
        /\ "clear" \notin X => Inner(T, X, ClearErrors)
        /\ "break" \notin X => Inner(T, X, BreakOnErrors)
        /\ "report" \notin X => Inner(T, X, Report)
<1>1. {"check", "clear", "break", "report"} \subseteq Plain
  BY DEF Plain
<1> QED BY <1>1, InnerNamed, InnerOn DEF Check, ClearErrors, BreakOnErrors, Report, JavaCheck

\* All of them, with nothing left out.
LEMMA InnerOwn ==
    \A T :
        /\ Inner(T, {}, Wait("isend")) /\ Inner(T, {}, Wait("irecv")) /\ Inner(T, {}, Leave)
        /\ Inner(T, {}, StartClock) /\ Inner(T, {}, StopClock) /\ Inner(T, {}, Sample)
        /\ Inner(T, {}, Check) /\ Inner(T, {}, ClearErrors) /\ Inner(T, {}, BreakOnErrors)
        /\ Inner(T, {}, Report)
        /\ \A i : Inner(T, {}, StartOnce(i)) /\ Inner(T, {}, StopOnce(i))
        /\ \A i \in 0 .. Turns - 1 : Inner(T, {}, Fill(i))
        /\ Inner(T, {}, SynchronizeStream)
        /\ \A v : Inner(T, {}, JavaFill(v)) /\ Inner(T, {}, JavaCheck(v))
<1>1. \A T : /\ Inner(T, {}, Check) /\ Inner(T, {}, ClearErrors) /\ Inner(T, {}, BreakOnErrors)
             /\ Inner(T, {}, Report) /\ \A v : Inner(T, {}, JavaCheck(v))
  BY InnerVerdicts
<1> QED BY <1>1, InnerPieces

\* The collective calls.
LEMMA InnerCollectives ==
    \A T, X :
        /\ \A k \in CollectiveKinds : \A root \in Nat : \A d \in SUBSET Nat : \A f \in Forms :
              k \notin X \cap Omissible =>
                  Inner(T, X, Enter(k, root, d, f)) /\ Inner(T, X, Enter(k, root, d, f) \o Leave)
        /\ Inner(T, X, Barrier) /\ Inner(T, X, Reduce) /\ Inner(T, X, Sync)
        /\ "sum_errors" \notin X => Inner(T, X, SumErrors)
<1>1. ASSUME NEW T, NEW X, NEW k \in CollectiveKinds, NEW root \in Nat, NEW d \in SUBSET Nat,
             NEW f \in Forms, k \notin X \cap Omissible
      PROVE  Inner(T, X, Enter(k, root, d, f)) /\ Inner(T, X, Enter(k, root, d, f) \o Leave)
  <2> DEFINE c == [op |-> "enter", kind |-> k, root |-> root, data |-> d, form |-> f]
  <2>1. c \in Calls
    BY DEF Calls
  <2>2. c.op = "enter" /\ c.kind = k
    OBVIOUS
  <2> HIDE DEF c
  <2>3. Inner(T, X, <<c>>)
    BY <1>1, <2>1, <2>2, InnerOne DEF Omissible
  <2>4. Inner(T, X, Enter(k, root, d, f))
    BY <2>3 DEF Enter, c
  <2> QED BY <2>4, InnerPieces, InnerOn
<1>2. /\ {"barrier", "to_root", "sync", "sum_errors"} \subseteq CollectiveKinds /\ 0 \in Nat
      /\ {} \in SUBSET Nat /\ "plain" \in Forms
      /\ "barrier" \notin Omissible /\ "to_root" \notin Omissible /\ "sync" \notin Omissible
  BY DEF CollectiveKinds, Forms, Omissible
<1> QED BY <1>1, <1>2 DEF Barrier, Reduce, Sync, SumErrors

\* They too, with nothing left out.
LEMMA InnerShared ==
    \A T :
        /\ \A k \in CollectiveKinds : \A root \in Nat : \A d \in SUBSET Nat : \A f \in Forms :
              Inner(T, {}, Enter(k, root, d, f)) /\ Inner(T, {}, Enter(k, root, d, f) \o Leave)
        /\ Inner(T, {}, Barrier) /\ Inner(T, {}, Reduce) /\ Inner(T, {}, Sync)
        /\ Inner(T, {}, SumErrors)
BY InnerCollectives

\* Where the threads meet.
LEMMA InnerSync ==
    ASSUME NEW T, NEW X, NEW b, b = "osu_latency_mt" => X \cap {"elect", "meet"} = {}
    PROVE  Inner(T, X, SyncInterThreads(b))
<1>1. CASE b = "osu_latency_mt"
  <2> DEFINE c == [op |-> "elect", else |-> Len(Barrier)]
  <2>1. Len(Barrier) \in Nat /\ Inner(T, X, Barrier)
    BY InnerCollectives DEF Inner
  <2>2. c \in Calls /\ c.op = "elect"
    BY <2>1 DEF Calls
  <2> HIDE DEF c
  <2>3. Inner(T, X, <<c>>)
    BY <1>1, <2>2, InnerOne
  <2>4. Inner(T, X, <<[op |-> "meet"]>>)
    <3>1. "meet" \in Plain
      BY DEF Plain
    <3> QED BY <1>1, <3>1, InnerNamed
  <2>5. SyncInterThreads(b) = <<[op |-> "meet"]>> \o (<<c>> \o Barrier) \o <<[op |-> "meet"]>>
    BY <1>1 DEF SyncInterThreads, c
  <2> QED BY <2>1, <2>3, <2>4, <2>5, InnerOn
<1>2. CASE b # "osu_latency_mt"
  BY <1>2, InnerCollectives DEF SyncInterThreads
<1> QED BY <1>1, <1>2

\* Messages that stay among T.
LEMMA InnerMessages ==
    \A T, X : \A p \in T \cap Nat : \A tag \in Tags : \A n \in Nat :
        /\ Inner(T, X, ISend(p, tag, n)) /\ Inner(T, X, IRecv(p, tag, n))
        /\ Inner(T, X, Send(p, tag, n)) /\ Inner(T, X, Recv(p, tag, n))
<1> SUFFICES ASSUME NEW T, NEW X, NEW p \in T \cap Nat, NEW tag \in Tags, NEW n \in Nat
             PROVE  /\ Inner(T, X, ISend(p, tag, n)) /\ Inner(T, X, IRecv(p, tag, n))
                    /\ Inner(T, X, Send(p, tag, n)) /\ Inner(T, X, Recv(p, tag, n))
  OBVIOUS
<1>1. ASSUME NEW o \in {"isend", "irecv"}
      PROVE  Inner(T, X, <<[op |-> o, peer |-> p, tag |-> tag, size |-> n]>>)
  <2> DEFINE c == [op |-> o, peer |-> p, tag |-> tag, size |-> n]
  <2>1. c \in Calls
    BY DEF Calls
  <2>2. c.op \in {"isend", "irecv"} /\ c.peer \in T
    OBVIOUS
  <2> HIDE DEF c
  <2>3. Inner(T, X, <<c>>)
    BY <2>1, <2>2, InnerOne DEF Omissible
  <2> QED BY <2>3 DEF c
<1>2. Inner(T, X, ISend(p, tag, n)) /\ Inner(T, X, IRecv(p, tag, n))
  BY <1>1 DEF ISend, IRecv
<1> QED BY <1>2, InnerPieces, InnerOn DEF Send, Recv

-----------------------------------------------------------------------------
\* The exchanges of two sides.
LEMMA InnerExchanges ==
    \A T, X : \A p \in T \cap Nat : \A n, s \in Nat :
        /\ Inner(T, X, LatencySender(p, s)) /\ Inner(T, X, LatencyReceiver(p, s))
        /\ Inner(T, X, LatencySenderPersistent(p, s)) /\ Inner(T, X, LatencyReceiverPersistent(p, s))
        /\ Inner(T, X, BandwidthSender(p, n, s)) /\ Inner(T, X, BandwidthReceiver(p, n, s))
        /\ Inner(T, X, BiBandwidthSender(p, n, s)) /\ Inner(T, X, BiBandwidthReceiver(p, n, s))
        /\ Inner(T, X, BiBandwidthSenderPersistent(p, n, s))
        /\ Inner(T, X, BiBandwidthReceiverPersistent(p, n, s))
<1> SUFFICES ASSUME NEW T, NEW X, NEW p \in T \cap Nat, NEW n \in Nat, NEW s \in Nat
             PROVE  /\ Inner(T, X, LatencySender(p, s)) /\ Inner(T, X, LatencyReceiver(p, s))
                    /\ Inner(T, X, LatencySenderPersistent(p, s))
                    /\ Inner(T, X, LatencyReceiverPersistent(p, s))
                    /\ Inner(T, X, BandwidthSender(p, n, s)) /\ Inner(T, X, BandwidthReceiver(p, n, s))
                    /\ Inner(T, X, BiBandwidthSender(p, n, s)) /\ Inner(T, X, BiBandwidthReceiver(p, n, s))
                    /\ Inner(T, X, BiBandwidthSenderPersistent(p, n, s))
                    /\ Inner(T, X, BiBandwidthReceiverPersistent(p, n, s))
  OBVIOUS
<1>1. \A tag \in Tags : \A m \in Nat :
          /\ Inner(T, X, Send(p, tag, m)) /\ Inner(T, X, Recv(p, tag, m))
          /\ Inner(T, X, ISend(p, tag, m)) /\ Inner(T, X, IRecv(p, tag, m))
  BY InnerMessages
<1>2. "ping" \in Tags /\ "pong" \in Tags /\ ReplySize \in Nat
  BY DEF Tags, ReplySize
<1>3. /\ Inner(T, X, StartClock) /\ Inner(T, X, StopClock)
      /\ Inner(T, X, Wait("isend")) /\ Inner(T, X, Wait("irecv"))
  BY InnerPieces
<1>4. /\ Inner(T, X, LatencySender(p, s)) /\ Inner(T, X, LatencyReceiver(p, s))
      /\ Inner(T, X, LatencySenderPersistent(p, s)) /\ Inner(T, X, LatencyReceiverPersistent(p, s))
  BY <1>1, <1>2, <1>3, InnerOn DEF LatencySender, LatencyReceiver, LatencySenderPersistent,
                                   LatencyReceiverPersistent
<1>5. Inner(T, X, BandwidthSender(p, n, s)) /\ Inner(T, X, BandwidthReceiver(p, n, s))
  BY <1>1, <1>2, <1>3, InnerOn DEF BandwidthSender, BandwidthReceiver
<1>6. Inner(T, X, BiBandwidthSender(p, n, s)) /\ Inner(T, X, BiBandwidthReceiver(p, n, s))
  BY <1>1, <1>2, <1>3, InnerOn DEF BiBandwidthSender, BiBandwidthReceiver
<1>7. /\ Inner(T, X, BiBandwidthSenderPersistent(p, n, s))
      /\ Inner(T, X, BiBandwidthReceiverPersistent(p, n, s))
  BY <1>1, <1>2, <1>3, InnerOn DEF BiBandwidthSenderPersistent, BiBandwidthReceiverPersistent
<1> QED BY <1>4, <1>5, <1>6, <1>7

\* Messages for each in a queue.
LEMMA InnerQueue ==
    ASSUME NEW T, NEW X, NEW list \in Seq(T \cap Nat), NEW n \in Nat, NEW s \in Nat
    PROVE  Inner(T, X, CongestionSender(list, n, s)) /\ Inner(T, X, CongestionReceiver(list, n, s))
<1> DEFINE sends(p) == Times(n, ISend(p, "ping", s))
           recvs(p) == Times(n, IRecv(p, "ping", s))
           replies(p) == Send(p, "pong", ReplySize)
           answers(p) == Recv(p, "pong", ReplySize)
           S1 == [k \in 1 .. Len(list) |-> sends(list[k])]
           R1 == [k \in 1 .. Len(list) |-> recvs(list[k])]
           S2 == [k \in 1 .. Len(list) |-> replies(list[k])]
           R2 == [k \in 1 .. Len(list) |-> answers(list[k])]
<1>1. "ping" \in Tags /\ "pong" \in Tags /\ ReplySize \in Nat
  BY DEF Tags, ReplySize
<1>2. Len(list) \in Nat /\ \A k \in 1 .. Len(list) : list[k] \in T \cap Nat
  OBVIOUS
<1>3. \A p \in T \cap Nat : Inner(T, X, sends(p)) /\ Inner(T, X, recvs(p)) /\ Inner(T, X, replies(p))
                            /\ Inner(T, X, answers(p))
  BY <1>1, InnerMessages, InnerOn
<1>4. /\ CongestionSender(list, n, s) =
            StartClock \o FlattenSeq(S1) \o Wait("isend") \o FlattenSeq(R2) \o StopClock
      /\ CongestionReceiver(list, n, s) = FlattenSeq(R1) \o Wait("irecv") \o FlattenSeq(S2)
  BY DEF CongestionSender, CongestionReceiver, ForEach
<1>5. /\ IsLoop(S1, Len(list)) /\ IsLoop(R1, Len(list)) /\ IsLoop(S2, Len(list))
      /\ IsLoop(R2, Len(list))
      /\ \A k \in 1 .. Len(list) : /\ S1[k] = sends(list[k]) /\ R1[k] = recvs(list[k])
                                    /\ S2[k] = replies(list[k]) /\ R2[k] = answers(list[k])
  BY DEF IsLoop
<1> HIDE DEF sends, recvs, replies, answers, S1, R1, S2, R2
<1>6. \A k \in 1 .. Len(list) : /\ Inner(T, X, S1[k]) /\ Inner(T, X, R1[k])
                                 /\ Inner(T, X, S2[k]) /\ Inner(T, X, R2[k])
  BY <1>2, <1>3, <1>5
<1>7. Inner(T, X, FlattenSeq(S1)) /\ Inner(T, X, FlattenSeq(R1)) /\ Inner(T, X, FlattenSeq(S2))
      /\ Inner(T, X, FlattenSeq(R2))
  BY <1>2, <1>5, <1>6, InnerLoop
<1> QED BY <1>4, <1>7, InnerPieces, InnerOn

\* Every rank has its partners among the ranks.
LEMMA PartnersAmong ==
    ASSUME NEW b \in CPt2pt, NEW r \in CPt2ptRanks(b)
    PROVE  /\ b \notin Congestion => Partner(b, r) \in CPt2ptRanks(b) \cap Nat
           /\ b \in Congestion => RanksQueue(r) \in Seq(CPt2ptRanks(b) \cap Nat)
<1>1. b \notin Congestion => Partner(b, r) \in CPt2ptRanks(b) \cap Nat
  BY DEF CPt2ptRanks, Partner, PairCount, IsSender
<1>2. ASSUME b \in Congestion PROVE RanksQueue(r) \in Seq(CPt2ptRanks(b) \cap Nat)
  <2>1. CPt2ptRanks(b) = 0 .. Nodes - 1 /\ Nodes \in Nat /\ Nodes >= 2
    BY <1>2, NodesAssumption DEF CPt2ptRanks
  <2>2. 0 \in CPt2ptRanks(b) \cap Nat /\ \A k \in 1 .. Nodes - 1 : k \in CPt2ptRanks(b) \cap Nat
    BY <2>1
  <2> DEFINE D == CPt2ptRanks(b) \cap Nat
  <2> HIDE DEF D
  <2>3. <<0>> \in Seq(D)
    <3>1. 0 \in D
      BY <2>2 DEF D
    <3> QED BY <3>1
  <2>4. [k \in 1 .. Nodes - 1 |-> k] \in Seq(D)
    <3>1. Nodes - 1 \in Nat
      BY <2>1
    <3>2. \A k \in 1 .. Nodes - 1 : k \in D
      BY <2>2 DEF D
    <3> QED BY <3>1, <3>2
  <2> QED BY <2>3, <2>4 DEF RanksQueue, D
<1> QED BY <1>1, <1>2

\* What a rank exchanges in an iteration.
LEMMA InnerExchange ==
    ASSUME NEW b \in CPt2pt, NEW X, NEW r \in CPt2ptRanks(b), NEW n \in Nat, NEW s \in Nat
    PROVE  Inner(CPt2ptRanks(b), X, Exchange(b, r, n, s))
<1> DEFINE T == CPt2ptRanks(b)
<1>1. /\ b \notin Congestion => Partner(b, r) \in T \cap Nat
      /\ b \in Congestion => RanksQueue(r) \in Seq(T \cap Nat)
  BY PartnersAmong
<1> HIDE DEF T
<1> USE DEF CPt2pt, LatencyTest, BandwidthTest, BiBandwidthTest, Persistent, Partitioned, Congestion, FanOut
<1>2. CASE b \in Congestion
  <2>1. Exchange(b, r, n, s) = IF IsSender(b, r) THEN CongestionSender(RanksQueue(r), n, s)
                                                 ELSE CongestionReceiver(RanksQueue(r), n, s)
    BY <1>2 DEF Exchange, SenderExchange, ReceiverExchange
  <2> QED BY <1>1, <1>2, <2>1, InnerQueue DEF T
<1>3. CASE b \in LatencyTest \ Persistent
  <2>1. \/ Exchange(b, r, n, s) = LatencySender(Partner(b, r), s)
        \/ Exchange(b, r, n, s) = LatencyReceiver(Partner(b, r), s)
    BY <1>3 DEF Exchange, SenderExchange, ReceiverExchange
  <2> QED BY <1>1, <1>3, <2>1, InnerExchanges DEF T
<1>4. CASE b \in LatencyTest \cap Persistent
  <2>1. \/ Exchange(b, r, n, s) = LatencySenderPersistent(Partner(b, r), s)
        \/ Exchange(b, r, n, s) = LatencyReceiverPersistent(Partner(b, r), s)
    BY <1>4 DEF Exchange, SenderExchange, ReceiverExchange, PartitionedLatencySender,
       PartitionedLatencyReceiver, LatencySenderPersistent, LatencyReceiverPersistent
  <2> QED BY <1>1, <1>4, <2>1, InnerExchanges DEF T
<1>5. CASE b \in BandwidthTest \ Congestion
  <2>1. \/ Exchange(b, r, n, s) = BandwidthSender(Partner(b, r), n, s)
        \/ Exchange(b, r, n, s) = BandwidthReceiver(Partner(b, r), n, s)
    <3>1. CASE b \in Persistent
      BY <1>5, <3>1 DEF Exchange, SenderExchange, ReceiverExchange,
         BandwidthSenderPersistent, BandwidthReceiverPersistent
    <3>2. CASE b \notin Persistent
      BY <1>5, <3>2 DEF Exchange, SenderExchange, ReceiverExchange
    <3> QED BY <3>1, <3>2
  <2> QED BY <1>1, <1>5, <2>1, InnerExchanges DEF T
<1>6. CASE b \in BiBandwidthTest
  <2>1. \/ Exchange(b, r, n, s) = BiBandwidthSender(Partner(b, r), n, s)
        \/ Exchange(b, r, n, s) = BiBandwidthReceiver(Partner(b, r), n, s)
        \/ Exchange(b, r, n, s) = BiBandwidthSenderPersistent(Partner(b, r), n, s)
        \/ Exchange(b, r, n, s) = BiBandwidthReceiverPersistent(Partner(b, r), n, s)
    <3>1. CASE b \in Persistent
      BY <1>6, <3>1 DEF Exchange, SenderExchange, ReceiverExchange
    <3>2. CASE b \notin Persistent
      BY <1>6, <3>2 DEF Exchange, SenderExchange, ReceiverExchange
    <3> QED BY <3>1, <3>2
  <2> QED BY <1>1, <1>6, <2>1, InnerExchanges DEF T
<1> QED BY <1>2, <1>3, <1>4, <1>5, <1>6

\* X leaves out nothing of what is done around an iteration because of -c.
Keeps(b, r, v, T, X) ==
    v => Inner(T, X, SyncInterThreads(b)) /\ Inner(T, X, UpdateValidationErrors(b, r))

\* Iterations, with what comes before and after each.
LEMMA InnerRounds ==
    ASSUME NEW b, NEW v \in BOOLEAN, NEW r, NEW T, NEW X, Keeps(b, r, v, T, X),
           NEW f, NEW L, IsLoop(L, Len(Iterations)),
           \A k \in 1 .. Len(Iterations) :
               /\ Inner(T, X, f[k])
               /\ L[k] = Given(v, PrepareValidationBuffers(b, Iterations[k])) \o f[k]
                             \o Given(v, UpdateValidationErrors(b, r))
    PROVE  Inner(T, X, FlattenSeq(L))
<1> DEFINE pre(i) == Given(v, PrepareValidationBuffers(b, i))
           post == Given(v, UpdateValidationErrors(b, r))
<1>1. \A k \in 1 .. Len(Iterations) : Inner(T, X, pre(Iterations[k]))
  <2>1. ASSUME NEW k \in 1 .. Len(Iterations) PROVE Inner(T, X, pre(Iterations[k]))
    <3>1. Iterations[k] \in 0 .. Turns - 1
      BY IterationsAre DEF Turns
    <3> QED BY <3>1, InnerPieces, InnerOn DEF PrepareValidationBuffers, Keeps
  <2> QED BY <2>1
<1>2. Inner(T, X, post)
  BY InnerOn DEF Keeps
<1>3. \A k \in 1 .. Len(Iterations) : L[k] = pre(Iterations[k]) \o f[k] \o post
  OBVIOUS
<1> HIDE DEF pre, post
<1>4. \A k \in 1 .. Len(Iterations) : Inner(T, X, L[k])
  BY <1>1, <1>2, <1>3, InnerOn
<1> QED BY <1>4, InnerIterations

\* The iterations of one size.
LEMMA InnerDefault ==
    ASSUME NEW b \in CPt2pt, NEW r \in CPt2ptRanks(b), NEW n \in Nat, NEW s \in Nat,
           NEW v \in BOOLEAN, NEW X, Keeps(b, r, v, CPt2ptRanks(b), X)
    PROVE  Inner(CPt2ptRanks(b), X, DefaultIterationsLoop(b, r, n, s, v))
<1> DEFINE core(i) == IF IsSender(b, r) THEN SenderCore(b, r, n, s, v, i) ELSE ReceiverCore(b, r, n, s, v)
           f == [k \in 1 .. Len(Iterations) |-> core(Iterations[k])]
           L == [k \in 1 .. Len(Iterations) |->
                    Given(v, PrepareValidationBuffers(b, Iterations[k])) \o core(Iterations[k])
                        \o Given(v, UpdateValidationErrors(b, r))]
           m == WarmupValidation(v) + 1
           T == CPt2ptRanks(b)
<1>1. DefaultIterationsLoop(b, r, n, s, v) = FlattenSeq(L)
  BY DEF DefaultIterationsLoop, ForEach
<1>2. Inner(T, X, Times(m, Exchange(b, r, n, s)))
  <2>1. m \in Nat
    BY WarmupType
  <2>2. Inner(T, X, Exchange(b, r, n, s))
    BY InnerExchange
  <2> HIDE DEF m, T
  <2> QED BY <2>1, <2>2, InnerOn
<1>3. \A i : core(i) = Times(m, Exchange(b, r, n, s)) \o Given(Measured(i), Sample)
             \/ core(i) = Times(m, Exchange(b, r, n, s))
  BY DEF SenderCore, ReceiverCore, Exchange
<1>4. /\ IsLoop(L, Len(Iterations))
      /\ \A k \in 1 .. Len(Iterations) :
            /\ f[k] = core(Iterations[k])
            /\ L[k] = Given(v, PrepareValidationBuffers(b, Iterations[k])) \o f[k]
                          \o Given(v, UpdateValidationErrors(b, r))
  BY DEF IsLoop
<1> HIDE DEF core, m, f, L, T
<1>5. \A i : Inner(T, X, core(i))
  BY <1>2, <1>3, InnerPieces, InnerOn
<1>6. \A k \in 1 .. Len(Iterations) :
            /\ Inner(T, X, f[k])
            /\ L[k] = Given(v, PrepareValidationBuffers(b, Iterations[k])) \o f[k]
                          \o Given(v, UpdateValidationErrors(b, r))
  BY <1>4, <1>5
<1>7. Inner(T, X, FlattenSeq(L))
  BY <1>4, <1>6, InnerRounds DEF T
<1> QED BY <1>1, <1>7 DEF T

\* The iterations with partitioned requests.
LEMMA InnerPartitioned ==
    ASSUME NEW b \in Partitioned, NEW r \in CPt2ptRanks(b), NEW n \in Nat, NEW s \in Nat,
           NEW v \in BOOLEAN, NEW X, Keeps(b, r, v, CPt2ptRanks(b), X)
    PROVE  Inner(CPt2ptRanks(b), X, PartitionedIterationLoops(b, r, n, s, v))
<1> DEFINE m == WarmupValidation(v) + 1
           core == Times(m, Overlap(b, r, s))
           f == [k \in 1 .. Len(Iterations) |-> core]
           L == [k \in 1 .. Len(Iterations) |->
                    Given(v, PrepareValidationBuffers(b, Iterations[k])) \o core
                        \o Given(v, UpdateValidationErrors(b, r))]
           T == CPt2ptRanks(b)
           p == Partner(b, r)
<1>0. b \in CPt2pt \ {"osu_latency_mt"} /\ b \in CPt2pt \ Congestion
  BY PartitionedAre
<1>1. PartitionedIterationLoops(b, r, n, s, v) = DefaultIterationsLoop(b, r, n, s, v) \o FlattenSeq(L)
  BY DEF PartitionedIterationLoops, ForEach
<1>2. p \in T \cap Nat
  BY <1>0, PartnersAmong
<1>3. \/ Overlap(b, r, s) = (Send(p, "ping", s) \o Recv(p, "ping", s)) \o Barrier
      \/ Overlap(b, r, s) = (Recv(p, "ping", s) \o Send(p, "ping", s)) \o Barrier
  BY DEF Overlap
<1>4. /\ IsLoop(L, Len(Iterations))
      /\ \A k \in 1 .. Len(Iterations) :
            /\ f[k] = core
            /\ L[k] = Given(v, PrepareValidationBuffers(b, Iterations[k])) \o f[k]
                          \o Given(v, UpdateValidationErrors(b, r))
  BY DEF IsLoop
<1>5. Inner(T, X, DefaultIterationsLoop(b, r, n, s, v))
  BY <1>0, InnerDefault
<1>6. "ping" \in Tags
  BY DEF Tags
<1> HIDE DEF f, L, T, p
<1>7. Inner(T, X, Send(p, "ping", s)) /\ Inner(T, X, Recv(p, "ping", s)) /\ Inner(T, X, Barrier)
  BY <1>2, <1>6, InnerMessages, InnerCollectives
<1>8. Inner(T, X, Overlap(b, r, s))
  BY <1>3, <1>7, InnerOn
<1>9. Inner(T, X, core)
  <2>1. m \in Nat
    BY WarmupType
  <2> HIDE DEF m
  <2> QED BY <1>8, <2>1, InnerOn
<1> HIDE DEF core
<1>10. \A k \in 1 .. Len(Iterations) :
            /\ Inner(T, X, f[k])
            /\ L[k] = Given(v, PrepareValidationBuffers(b, Iterations[k])) \o f[k]
                          \o Given(v, UpdateValidationErrors(b, r))
  BY <1>4, <1>9
<1>11. Inner(T, X, FlattenSeq(L))
  <2>1. Keeps(b, r, v, T, X)
    BY DEF T
  <2>2. IsLoop(L, Len(Iterations))
    BY <1>4
  <2> QED BY ONLY v \in BOOLEAN, <1>10, <2>1, <2>2, InnerRounds
<1> QED BY <1>1, <1>5, <1>11, InnerOn DEF T

\* The point-to-point benchmarks in C, which compare nothing without -c.
LEMMA CPt2ptInner ==
    ASSUME NEW b \in CPt2pt, NEW r \in CPt2ptRanks(b), NEW v \in BOOLEAN,
           NEW X, X = {} \/ (X = {"check"} /\ ~v)
    PROVE  Inner(CPt2ptRanks(b), X, CPt2ptProgram(b, r, v))
<1> DEFINE T == CPt2ptRanks(b)
<1>0. Inner(T, X, SyncInterThreads(b)) /\ Keeps(b, r, v, T, X)
  BY InnerSync, InnerVerdicts DEF UpdateValidationErrors, Keeps
<1>1. ASSUME NEW n \in Nat, NEW s \in Nat PROVE Inner(T, X, WindowOfIterations(b, r, n, s, v))
  <2> DEFINE loop == IF b \in Partitioned THEN PartitionedIterationLoops(b, r, n, s, v)
                                          ELSE DefaultIterationsLoop(b, r, n, s, v)
  <2>1. Inner(T, X, loop)
    BY <1>0, InnerPartitioned, InnerDefault
  <2>2. WindowOfIterations(b, r, n, s, v) =
            ClearErrors \o loop \o Given(v /\ b # "osu_latency_mt", SumErrors)
                        \o Given(b # "osu_latency_mt", Reduce)
    BY DEF WindowOfIterations
  <2> HIDE DEF loop, T
  <2>3. Inner(T, X, Given(v /\ b # "osu_latency_mt", SumErrors)) /\ Inner(T, X, Given(b # "osu_latency_mt", Reduce))
    BY InnerCollectives, InnerOn
  <2> QED BY <2>1, <2>2, <2>3, InnerVerdicts, InnerOn
<1>2. ASSUME NEW s \in Nat PROVE Inner(T, X, RunIterationsForMsgSize(b, r, s, v))
  <2> DEFINE W == WindowSizes(b)
             L == [k \in 1 .. Len(W) |-> WindowOfIterations(b, r, W[k], s, v)]
  <2>1. Len(W) \in Nat /\ \A k \in 1 .. Len(W) : W[k] \in Nat
    BY WindowsAre
  <2>2. RunIterationsForMsgSize(b, r, s, v) = FlattenSeq(L)
    BY DEF RunIterationsForMsgSize, ForEach
  <2>3. IsLoop(L, Len(W)) /\ \A k \in 1 .. Len(W) : L[k] = WindowOfIterations(b, r, W[k], s, v)
    BY DEF IsLoop
  <2> HIDE DEF W, L, T
  <2>4. \A k \in 1 .. Len(W) : Inner(T, X, L[k])
    BY <1>1, <2>1, <2>3
  <2>5. Inner(T, X, FlattenSeq(L))
    BY <2>1, <2>3, <2>4, InnerLoop
  <2> QED BY <2>2, <2>5
<1> DEFINE inner(s) == RunIterationsForMsgSize(b, r, s, v)
           stop == Given(v, BreakOnErrors)
           L == [k \in 1 .. Len(Sizes) |->
                    SyncInterThreads(b) \o inner(Sizes[k]) \o SyncInterThreads(b) \o stop]
<1>3. CPt2ptProgram(b, r, v) = FlattenSeq(L) \o Report
  BY DEF CPt2ptProgram, ForEach
<1>4. Inner(T, X, stop) /\ Inner(T, X, Report)
  BY InnerVerdicts, InnerOn
<1>5. IsLoop(L, Len(Sizes)) /\ \A k \in 1 .. Len(Sizes) :
          L[k] = SyncInterThreads(b) \o inner(Sizes[k]) \o SyncInterThreads(b) \o stop
  BY DEF IsLoop
<1>6. \A s \in Nat : Inner(T, X, inner(s))
  BY <1>2
<1> HIDE DEF inner, stop, L, T
<1>7. ASSUME NEW k \in 1 .. Len(Sizes) PROVE Inner(T, X, L[k])
  <2> DEFINE meet == SyncInterThreads(b)
             one == inner(Sizes[k])
  <2>1. Inner(T, X, meet) /\ Inner(T, X, one)
    BY <1>0, <1>6, SizesAre
  <2>2. L[k] = meet \o one \o meet \o stop
    BY <1>5
  <2> HIDE DEF meet, one
  <2> QED BY <1>4, <2>1, <2>2, InnerOn
<1>8. Inner(T, X, FlattenSeq(L))
  BY <1>5, <1>7, SizesAre, InnerLoop
<1> QED BY <1>3, <1>4, <1>8, InnerOn DEF T

-----------------------------------------------------------------------------
\* A window of messages.
LEMMA InnerWindows ==
    \A T : \A p \in T \cap Nat : \A tag \in Tags : \A n, s \in Nat :
        Inner(T, {}, Times(n, ISend(p, tag, s))) /\ Inner(T, {}, Times(n, IRecv(p, tag, s)))
BY InnerMessages, InnerOn

\* Empty sequences change nothing.
LEMMA EmptyInner == \A T, s : Inner(T, {}, s) => <<>> \o s = s /\ s \o <<>> = s
BY DEF Inner

\* The rounds O of a loop over the sizes, which have loops L over the iterations.
Spread(T, u, w, L, O) ==
    \A k \in 1 .. Len(Sizes) :
        /\ O[k] = u \o FlattenSeq(L[k]) \o w
        /\ IsLoop(L[k], Len(Iterations))
        /\ \A j \in 1 .. Len(Iterations) : Inner(T, {}, L[k][j])

\* A loop over the sizes, each with a loop over the iterations.
LEMMA InnerSizes ==
    ASSUME NEW T, NEW u, NEW w, Inner(T, {}, u), Inner(T, {}, w), NEW L, NEW O, IsLoop(O, Len(Sizes)),
           Spread(T, u, w, L, O)
    PROVE  Inner(T, {}, FlattenSeq(O))
<1>1. ASSUME NEW k \in 1 .. Len(Sizes) PROVE Inner(T, {}, O[k])
  <2>1. Inner(T, {}, FlattenSeq(L[k]))
    BY InnerIterations DEF Spread
  <2> QED BY <2>1, InnerOn DEF Spread
<1> QED BY <1>1, SizesAre, InnerLoop

\* The warm-up of the Java benchmarks.
LEMMA InnerWarmup == \A r : Inner({0, 1}, {}, JavaWarmupLoop(r))
<1> SUFFICES ASSUME NEW r PROVE Inner({0, 1}, {}, JavaWarmupLoop(r))
  OBVIOUS
<1> DEFINE S == Recv(1, "998", WarmupSize) \o Send(1, "998", WarmupSize)
           T == Send(0, "998", WarmupSize) \o Recv(0, "998", WarmupSize)
           side == IF r = 0 THEN S ELSE T
<1>1. "998" \in Tags /\ WarmupSize \in Nat /\ InitialWarmup \in Nat
      /\ 0 \in {0, 1} \cap Nat /\ 1 \in {0, 1} \cap Nat
  BY InitialWarmupAssumption DEF Tags, WarmupSize
<1>2. Inner({0, 1}, {}, S) /\ Inner({0, 1}, {}, T)
  BY <1>1, InnerMessages, InnerOn
<1>3. JavaWarmupLoop(r) = Times(InitialWarmup, side)
  BY DEF JavaWarmupLoop
<1> HIDE DEF S, T
<1>4. Inner({0, 1}, {}, side)
  BY <1>2
<1> HIDE DEF side
<1> QED BY <1>1, <1>3, <1>4, InnerOn

\* OSULatency in Java.
LEMMA OSULatencyInner ==
    ASSUME NEW r \in {0, 1}, NEW v \in BOOLEAN
    PROVE  Inner({0, 1}, {}, OSULatency(r, v))
<1> DEFINE body(s, i) == IF r = 0
                          THEN StartOnce(i) \o JavaFill(v) \o Send(1, "998", s) \o JavaFill(v)
                                   \o Recv(1, "998", s) \o JavaCheck(v) \o StopOnce(i)
                          ELSE JavaFill(v) \o Recv(0, "998", s) \o JavaCheck(v) \o JavaFill(v)
                                   \o Send(0, "998", s)
           L(s) == [k \in 1 .. Len(Iterations) |-> body(s, Iterations[k])]
           O == [k \in 1 .. Len(Sizes) |-> FlattenSeq(L(Sizes[k])) \o Barrier]
           M == [k \in 1 .. Len(Sizes) |-> L(Sizes[k])]
<1>1. OSULatency(r, v) = JavaWarmupLoop(r) \o FlattenSeq(O)
  BY DEF OSULatency, JavaSizes, ForEach
<1>2. /\ "998" \in Tags
      /\ ReplySize \in Nat
  BY DEF Tags, ReplySize
<1>3. ASSUME NEW s \in Nat, NEW i PROVE Inner({0, 1}, {}, body(s, i))
  <2>1. CASE r = 0
    <3>1. 1 \in {0, 1} \cap Nat
      OBVIOUS
    <3>2. body(s, i) = StartOnce(i) \o JavaFill(v) \o Send(1, "998", s) \o JavaFill(v)
                                   \o Recv(1, "998", s) \o JavaCheck(v) \o StopOnce(i)
      BY <2>1
    <3> HIDE DEF body
    <3> QED BY <1>2, <3>1, <3>2, InnerOwn, InnerMessages, InnerWindows, InnerOn
  <2>2. CASE r # 0
    <3>1. 0 \in {0, 1} \cap Nat
      OBVIOUS
    <3>2. body(s, i) = JavaFill(v) \o Recv(0, "998", s) \o JavaCheck(v) \o JavaFill(v)
                                   \o Send(0, "998", s)
      BY <2>2
    <3> HIDE DEF body
    <3> QED BY <1>2, <3>1, <3>2, InnerOwn, InnerMessages, InnerWindows, InnerOn
  <2> QED BY <2>1, <2>2
<1>4. \A s : /\ IsLoop(L(s), Len(Iterations))
             /\ \A k \in 1 .. Len(Iterations) : L(s)[k] = body(s, Iterations[k])
  BY DEF IsLoop
<1>5. /\ IsLoop(O, Len(Sizes))
      /\ \A k \in 1 .. Len(Sizes) : /\ O[k] = FlattenSeq(L(Sizes[k])) \o Barrier
                                   /\ M[k] = L(Sizes[k])
  BY DEF IsLoop
<1> HIDE DEF body, L, O, M
<1>6. \A k \in 1 .. Len(Sizes) :
          IsLoop(M[k], Len(Iterations)) /\ \A j \in 1 .. Len(Iterations) : Inner({0, 1}, {}, M[k][j])
  BY <1>3, <1>4, <1>5, SizesAre
<1>7. Inner({0, 1}, {}, <<>>) /\ Inner({0, 1}, {}, Barrier)
  BY InnerOwn, InnerShared, InnerOn
<1> DEFINE u == <<>>
           w == Barrier
<1>8. \A k \in 1 .. Len(Sizes) : O[k] = u \o FlattenSeq(M[k]) \o w
  BY <1>5, <1>6, InnerIterations, EmptyInner
<1> HIDE DEF u, w
<1>9. Inner({0, 1}, {}, u) /\ Inner({0, 1}, {}, w)
  BY <1>7 DEF u, w
<1>10. Spread({0, 1}, u, w, M, O)
  BY <1>6, <1>8 DEF Spread
<1>11. Inner({0, 1}, {}, FlattenSeq(O))
  BY <1>5, <1>9, <1>10, InnerSizes
<1> QED BY <1>1, <1>11, InnerWarmup, InnerOn

\* OSUBandwidth in Java.
LEMMA OSUBandwidthInner ==
    ASSUME NEW r \in {0, 1}, NEW n \in Nat, NEW v \in BOOLEAN
    PROVE  Inner({0, 1}, {}, OSUBandwidth(r, n, v))
<1> DEFINE body(s, i) == IF r = 0
                          THEN StartOnce(i) \o JavaFill(v) \o Times(n, ISend(1, "100", s)) \o Wait("isend")
                                   \o JavaFill(v) \o Recv(1, "101", ReplySize) \o StopOnce(i)
                          ELSE JavaFill(v) \o Times(n, IRecv(0, "100", s)) \o Wait("irecv") \o JavaCheck(v)
                                   \o JavaFill(v) \o Send(0, "101", ReplySize)
           L(s) == [k \in 1 .. Len(Iterations) |-> body(s, Iterations[k])]
           O == [k \in 1 .. Len(Sizes) |-> FlattenSeq(L(Sizes[k])) \o Barrier]
           M == [k \in 1 .. Len(Sizes) |-> L(Sizes[k])]
<1>1. OSUBandwidth(r, n, v) = FlattenSeq(O)
  BY DEF OSUBandwidth, JavaSizes, ForEach
<1>2. /\ "100" \in Tags /\ "101" \in Tags
      /\ ReplySize \in Nat
  BY DEF Tags, ReplySize
<1>3. ASSUME NEW s \in Nat, NEW i PROVE Inner({0, 1}, {}, body(s, i))
  <2>1. CASE r = 0
    <3>1. 1 \in {0, 1} \cap Nat
      OBVIOUS
    <3>2. body(s, i) = StartOnce(i) \o JavaFill(v) \o Times(n, ISend(1, "100", s)) \o Wait("isend")
                                   \o JavaFill(v) \o Recv(1, "101", ReplySize) \o StopOnce(i)
      BY <2>1
    <3> HIDE DEF body
    <3> QED BY <1>2, <3>1, <3>2, InnerOwn, InnerMessages, InnerWindows, InnerOn
  <2>2. CASE r # 0
    <3>1. 0 \in {0, 1} \cap Nat
      OBVIOUS
    <3>2. body(s, i) = JavaFill(v) \o Times(n, IRecv(0, "100", s)) \o Wait("irecv") \o JavaCheck(v)
                                   \o JavaFill(v) \o Send(0, "101", ReplySize)
      BY <2>2
    <3> HIDE DEF body
    <3> QED BY <1>2, <3>1, <3>2, InnerOwn, InnerMessages, InnerWindows, InnerOn
  <2> QED BY <2>1, <2>2
<1>4. \A s : /\ IsLoop(L(s), Len(Iterations))
             /\ \A k \in 1 .. Len(Iterations) : L(s)[k] = body(s, Iterations[k])
  BY DEF IsLoop
<1>5. /\ IsLoop(O, Len(Sizes))
      /\ \A k \in 1 .. Len(Sizes) : /\ O[k] = FlattenSeq(L(Sizes[k])) \o Barrier
                                   /\ M[k] = L(Sizes[k])
  BY DEF IsLoop
<1> HIDE DEF body, L, O, M
<1>6. \A k \in 1 .. Len(Sizes) :
          IsLoop(M[k], Len(Iterations)) /\ \A j \in 1 .. Len(Iterations) : Inner({0, 1}, {}, M[k][j])
  BY <1>3, <1>4, <1>5, SizesAre
<1>7. Inner({0, 1}, {}, <<>>) /\ Inner({0, 1}, {}, Barrier)
  BY InnerOwn, InnerShared, InnerOn
<1> DEFINE u == <<>>
           w == Barrier
<1>8. \A k \in 1 .. Len(Sizes) : O[k] = u \o FlattenSeq(M[k]) \o w
  BY <1>5, <1>6, InnerIterations, EmptyInner
<1> HIDE DEF u, w
<1>9. Inner({0, 1}, {}, u) /\ Inner({0, 1}, {}, w)
  BY <1>7 DEF u, w
<1>10. Spread({0, 1}, u, w, M, O)
  BY <1>6, <1>8 DEF Spread
<1>11. Inner({0, 1}, {}, FlattenSeq(O))
  BY <1>5, <1>9, <1>10, InnerSizes
<1> QED BY <1>1, <1>11

\* OSUBiBandwidth in Java.
LEMMA OSUBiBandwidthInner ==
    ASSUME NEW r \in {0, 1}, NEW n \in Nat, NEW v \in BOOLEAN
    PROVE  Inner({0, 1}, {}, OSUBiBandwidth(r, n, v))
<1> DEFINE body(s, i) == IF r = 0
                          THEN StartOnce(i) \o JavaFill(v) \o Times(n, IRecv(1, "100", s))
                                   \o Times(n, ISend(1, "101", s)) \o Wait("isend") \o Wait("irecv")
                                   \o JavaCheck(v) \o StopOnce(i)
                          ELSE JavaFill(v) \o Times(n, IRecv(0, "101", s)) \o Times(n, ISend(0, "100", s))
                                   \o Wait("irecv") \o Wait("isend") \o JavaCheck(v)
           L(s) == [k \in 1 .. Len(Iterations) |-> body(s, Iterations[k])]
           O == [k \in 1 .. Len(Sizes) |-> FlattenSeq(L(Sizes[k])) \o Barrier]
           M == [k \in 1 .. Len(Sizes) |-> L(Sizes[k])]
<1>1. OSUBiBandwidth(r, n, v) = JavaWarmupLoop(r) \o FlattenSeq(O)
  BY DEF OSUBiBandwidth, JavaSizes, ForEach
<1>2. /\ "100" \in Tags /\ "101" \in Tags
      /\ ReplySize \in Nat
  BY DEF Tags, ReplySize
<1>3. ASSUME NEW s \in Nat, NEW i PROVE Inner({0, 1}, {}, body(s, i))
  <2>1. CASE r = 0
    <3>1. 1 \in {0, 1} \cap Nat
      OBVIOUS
    <3>2. body(s, i) = StartOnce(i) \o JavaFill(v) \o Times(n, IRecv(1, "100", s))
                                   \o Times(n, ISend(1, "101", s)) \o Wait("isend") \o Wait("irecv")
                                   \o JavaCheck(v) \o StopOnce(i)
      BY <2>1
    <3> HIDE DEF body
    <3> QED BY <1>2, <3>1, <3>2, InnerOwn, InnerMessages, InnerWindows, InnerOn
  <2>2. CASE r # 0
    <3>1. 0 \in {0, 1} \cap Nat
      OBVIOUS
    <3>2. body(s, i) = JavaFill(v) \o Times(n, IRecv(0, "101", s)) \o Times(n, ISend(0, "100", s))
                                   \o Wait("irecv") \o Wait("isend") \o JavaCheck(v)
      BY <2>2
    <3> HIDE DEF body
    <3> QED BY <1>2, <3>1, <3>2, InnerOwn, InnerMessages, InnerWindows, InnerOn
  <2> QED BY <2>1, <2>2
<1>4. \A s : /\ IsLoop(L(s), Len(Iterations))
             /\ \A k \in 1 .. Len(Iterations) : L(s)[k] = body(s, Iterations[k])
  BY DEF IsLoop
<1>5. /\ IsLoop(O, Len(Sizes))
      /\ \A k \in 1 .. Len(Sizes) : /\ O[k] = FlattenSeq(L(Sizes[k])) \o Barrier
                                   /\ M[k] = L(Sizes[k])
  BY DEF IsLoop
<1> HIDE DEF body, L, O, M
<1>6. \A k \in 1 .. Len(Sizes) :
          IsLoop(M[k], Len(Iterations)) /\ \A j \in 1 .. Len(Iterations) : Inner({0, 1}, {}, M[k][j])
  BY <1>3, <1>4, <1>5, SizesAre
<1>7. Inner({0, 1}, {}, <<>>) /\ Inner({0, 1}, {}, Barrier)
  BY InnerOwn, InnerShared, InnerOn
<1> DEFINE u == <<>>
           w == Barrier
<1>8. \A k \in 1 .. Len(Sizes) : O[k] = u \o FlattenSeq(M[k]) \o w
  BY <1>5, <1>6, InnerIterations, EmptyInner
<1> HIDE DEF u, w
<1>9. Inner({0, 1}, {}, u) /\ Inner({0, 1}, {}, w)
  BY <1>7 DEF u, w
<1>10. Spread({0, 1}, u, w, M, O)
  BY <1>6, <1>8 DEF Spread
<1>11. Inner({0, 1}, {}, FlattenSeq(O))
  BY <1>5, <1>9, <1>10, InnerSizes
<1> QED BY <1>1, <1>11, InnerWarmup, InnerOn

\* A ping-pong of partners in Python.
LEMMA PingPongInner ==
    ASSUME NEW T, NEW p \in T \cap Nat, NEW first \in BOOLEAN
    PROVE  Inner(T, {}, PythonPingPong(p, first))
<1> DEFINE body(s, i) == StartOnce(i) \o (IF first THEN Send(p, "1", s) \o Recv(p, "1", s)
                                                 ELSE Recv(p, "1", s) \o Send(p, "1", s))
           L(s) == [k \in 1 .. Len(Iterations) |-> body(s, Iterations[k])]
           O == [k \in 1 .. Len(Sizes) |-> Barrier \o FlattenSeq(L(Sizes[k])) \o StopClock \o Sample \o Reduce]
           M == [k \in 1 .. Len(Sizes) |-> L(Sizes[k])]
<1>1. PythonPingPong(p, first) = FlattenSeq(O)
  BY DEF PythonPingPong, ForEach
<1>2. /\ "1" \in Tags
      /\ ReplySize \in Nat
  BY DEF Tags, ReplySize
<1>3. ASSUME NEW s \in Nat, NEW i PROVE Inner(T, {}, body(s, i))
  <2>1. Inner(T, {}, StartOnce(i)) /\ Inner(T, {}, Send(p, "1", s)) /\ Inner(T, {}, Recv(p, "1", s))
    BY <1>2, InnerOwn, InnerMessages
  <2>2. Inner(T, {}, Send(p, "1", s) \o Recv(p, "1", s)) /\ Inner(T, {}, Recv(p, "1", s) \o Send(p, "1", s))
    BY <2>1, InnerOn
  <2> QED BY <2>1, <2>2, InnerOn
<1>4. \A s : /\ IsLoop(L(s), Len(Iterations))
             /\ \A k \in 1 .. Len(Iterations) : L(s)[k] = body(s, Iterations[k])
  BY DEF IsLoop
<1>5. /\ IsLoop(O, Len(Sizes))
      /\ \A k \in 1 .. Len(Sizes) : /\ O[k] = Barrier \o FlattenSeq(L(Sizes[k])) \o StopClock \o Sample \o Reduce
                                   /\ M[k] = L(Sizes[k])
  BY DEF IsLoop
<1> HIDE DEF body, L, O, M
<1>6. \A k \in 1 .. Len(Sizes) :
          IsLoop(M[k], Len(Iterations)) /\ \A j \in 1 .. Len(Iterations) : Inner(T, {}, M[k][j])
  BY <1>3, <1>4, <1>5, SizesAre
<1>7. \A k \in 1 .. Len(Sizes) : Inner(T, {}, FlattenSeq(M[k]))
  BY <1>6, InnerIterations
<1>8. \A k \in 1 .. Len(Sizes) : Inner(T, {}, O[k])
  BY <1>5, <1>7, InnerOwn, InnerShared, InnerOn
<1>9. Inner(T, {}, FlattenSeq(O))
  BY <1>5, <1>8, SizesAre, InnerLoop
<1> QED BY <1>1, <1>9

\* Bandwidth in Python.
LEMMA PythonBandwidthInner ==
    ASSUME NEW r \in {0, 1}, NEW n \in Nat
    PROVE  Inner({0, 1}, {}, PythonBandwidth(r, n))
<1> DEFINE body(s, i) == IF r = 0
                          THEN StartOnce(i) \o Times(n, ISend(1, "100", s)) \o Wait("isend")
                                   \o Recv(1, "101", ReplySize)
                          ELSE Times(n, IRecv(0, "100", s)) \o Wait("irecv") \o Send(0, "101", ReplySize)
           L(s) == [k \in 1 .. Len(Iterations) |-> body(s, Iterations[k])]
           O == [k \in 1 .. Len(Sizes) |-> Barrier \o FlattenSeq(L(Sizes[k])) \o Given(r = 0, StopClock \o Sample)]
           M == [k \in 1 .. Len(Sizes) |-> L(Sizes[k])]
<1>1. PythonBandwidth(r, n) = FlattenSeq(O)
  BY DEF PythonBandwidth, ForEach
<1>2. /\ "100" \in Tags /\ "101" \in Tags
      /\ ReplySize \in Nat
  BY DEF Tags, ReplySize
<1>3. ASSUME NEW s \in Nat, NEW i PROVE Inner({0, 1}, {}, body(s, i))
  <2>1. CASE r = 0
    <3>1. 1 \in {0, 1} \cap Nat
      OBVIOUS
    <3>2. body(s, i) = StartOnce(i) \o Times(n, ISend(1, "100", s)) \o Wait("isend")
                                   \o Recv(1, "101", ReplySize)
      BY <2>1
    <3> HIDE DEF body
    <3> QED BY <1>2, <3>1, <3>2, InnerOwn, InnerMessages, InnerWindows, InnerOn
  <2>2. CASE r # 0
    <3>1. 0 \in {0, 1} \cap Nat
      OBVIOUS
    <3>2. body(s, i) = Times(n, IRecv(0, "100", s)) \o Wait("irecv") \o Send(0, "101", ReplySize)
      BY <2>2
    <3> HIDE DEF body
    <3> QED BY <1>2, <3>1, <3>2, InnerOwn, InnerMessages, InnerWindows, InnerOn
  <2> QED BY <2>1, <2>2
<1>4. \A s : /\ IsLoop(L(s), Len(Iterations))
             /\ \A k \in 1 .. Len(Iterations) : L(s)[k] = body(s, Iterations[k])
  BY DEF IsLoop
<1>5. /\ IsLoop(O, Len(Sizes))
      /\ \A k \in 1 .. Len(Sizes) : /\ O[k] = Barrier \o FlattenSeq(L(Sizes[k])) \o Given(r = 0, StopClock \o Sample)
                                   /\ M[k] = L(Sizes[k])
  BY DEF IsLoop
<1> HIDE DEF body, L, O, M
<1>6. \A k \in 1 .. Len(Sizes) :
          IsLoop(M[k], Len(Iterations)) /\ \A j \in 1 .. Len(Iterations) : Inner({0, 1}, {}, M[k][j])
  BY <1>3, <1>4, <1>5, SizesAre
<1>7. Inner({0, 1}, {}, Barrier) /\ Inner({0, 1}, {}, Given(r = 0, StopClock \o Sample))
  BY InnerOwn, InnerShared, InnerOn
<1> DEFINE u == Barrier
           w == Given(r = 0, StopClock \o Sample)
<1>8. \A k \in 1 .. Len(Sizes) : O[k] = u \o FlattenSeq(M[k]) \o w
  BY <1>5
<1> HIDE DEF u, w
<1>9. Inner({0, 1}, {}, u) /\ Inner({0, 1}, {}, w)
  BY <1>7 DEF u, w
<1>10. Spread({0, 1}, u, w, M, O)
  BY <1>6, <1>8 DEF Spread
<1>11. Inner({0, 1}, {}, FlattenSeq(O))
  BY <1>5, <1>9, <1>10, InnerSizes
<1> QED BY <1>1, <1>11

\* Bandwidth in both directions in Python.
LEMMA PythonBiBandwidthInner ==
    ASSUME NEW r \in {0, 1}, NEW n \in Nat
    PROVE  Inner({0, 1}, {}, PythonBiBandwidth(r, n))
<1> DEFINE body(s, i) == IF r = 0
                          THEN StartOnce(i) \o Times(n, IRecv(1, "10", s)) \o Times(n, ISend(1, "100", s))
                                   \o Wait("isend") \o Wait("irecv")
                          ELSE Times(n, IRecv(0, "100", s)) \o Times(n, ISend(0, "10", s))
                                   \o Wait("isend") \o Wait("irecv")
           L(s) == [k \in 1 .. Len(Iterations) |-> body(s, Iterations[k])]
           O == [k \in 1 .. Len(Sizes) |-> Barrier \o FlattenSeq(L(Sizes[k])) \o Given(r = 0, StopClock \o Sample)]
           M == [k \in 1 .. Len(Sizes) |-> L(Sizes[k])]
<1>1. PythonBiBandwidth(r, n) = FlattenSeq(O)
  BY DEF PythonBiBandwidth, ForEach
<1>2. /\ "100" \in Tags /\ "10" \in Tags
      /\ ReplySize \in Nat
  BY DEF Tags, ReplySize
<1>3. ASSUME NEW s \in Nat, NEW i PROVE Inner({0, 1}, {}, body(s, i))
  <2>1. CASE r = 0
    <3>1. 1 \in {0, 1} \cap Nat
      OBVIOUS
    <3>2. body(s, i) = StartOnce(i) \o Times(n, IRecv(1, "10", s)) \o Times(n, ISend(1, "100", s))
                                   \o Wait("isend") \o Wait("irecv")
      BY <2>1
    <3> HIDE DEF body
    <3> QED BY <1>2, <3>1, <3>2, InnerOwn, InnerMessages, InnerWindows, InnerOn
  <2>2. CASE r # 0
    <3>1. 0 \in {0, 1} \cap Nat
      OBVIOUS
    <3>2. body(s, i) = Times(n, IRecv(0, "100", s)) \o Times(n, ISend(0, "10", s))
                                   \o Wait("isend") \o Wait("irecv")
      BY <2>2
    <3> HIDE DEF body
    <3> QED BY <1>2, <3>1, <3>2, InnerOwn, InnerMessages, InnerWindows, InnerOn
  <2> QED BY <2>1, <2>2
<1>4. \A s : /\ IsLoop(L(s), Len(Iterations))
             /\ \A k \in 1 .. Len(Iterations) : L(s)[k] = body(s, Iterations[k])
  BY DEF IsLoop
<1>5. /\ IsLoop(O, Len(Sizes))
      /\ \A k \in 1 .. Len(Sizes) : /\ O[k] = Barrier \o FlattenSeq(L(Sizes[k])) \o Given(r = 0, StopClock \o Sample)
                                   /\ M[k] = L(Sizes[k])
  BY DEF IsLoop
<1> HIDE DEF body, L, O, M
<1>6. \A k \in 1 .. Len(Sizes) :
          IsLoop(M[k], Len(Iterations)) /\ \A j \in 1 .. Len(Iterations) : Inner({0, 1}, {}, M[k][j])
  BY <1>3, <1>4, <1>5, SizesAre
<1>7. Inner({0, 1}, {}, Barrier) /\ Inner({0, 1}, {}, Given(r = 0, StopClock \o Sample))
  BY InnerOwn, InnerShared, InnerOn
<1> DEFINE u == Barrier
           w == Given(r = 0, StopClock \o Sample)
<1>8. \A k \in 1 .. Len(Sizes) : O[k] = u \o FlattenSeq(M[k]) \o w
  BY <1>5
<1> HIDE DEF u, w
<1>9. Inner({0, 1}, {}, u) /\ Inner({0, 1}, {}, w)
  BY <1>7 DEF u, w
<1>10. Spread({0, 1}, u, w, M, O)
  BY <1>6, <1>8 DEF Spread
<1>11. Inner({0, 1}, {}, FlattenSeq(O))
  BY <1>5, <1>9, <1>10, InnerSizes
<1> QED BY <1>1, <1>11

\* Latency with NCCL.
LEMMA XcclLatencyInner ==
    ASSUME NEW r \in {0, 1}
    PROVE  Inner({0, 1}, {}, XcclLatency(r))
<1> DEFINE body(s, i) == IF r = 0
                          THEN XcclTimed(i, ISend(1, "", s) \o SynchronizeStream
                                                   \o IRecv(1, "", s) \o SynchronizeStream)
                          ELSE IRecv(0, "", s) \o SynchronizeStream \o ISend(0, "", s) \o SynchronizeStream
           L(s) == [k \in 1 .. Len(Iterations) |-> body(s, Iterations[k])]
           O == [k \in 1 .. Len(Sizes) |-> Barrier \o FlattenSeq(L(Sizes[k]))]
           M == [k \in 1 .. Len(Sizes) |-> L(Sizes[k])]
<1>1. XcclLatency(r) = FlattenSeq(O)
  BY DEF XcclLatency, ForEach
<1>2. /\ 0 \in Nat
      /\ ReplySize \in Nat
  BY DEF Tags, ReplySize
<1>3. ASSUME NEW s \in Nat, NEW i PROVE Inner({0, 1}, {}, body(s, i))
  <2> DEFINE none == ""
  <2>1. none \in Tags
    BY Zenon DEF Tags
  <2> HIDE DEF none
  <2>2. CASE r = 0
    <3>1. 1 \in {0, 1} \cap Nat
      OBVIOUS
    <3>2. body(s, i) = XcclTimed(i, ISend(1, none, s) \o SynchronizeStream
                                                   \o IRecv(1, none, s) \o SynchronizeStream)
      BY <2>2 DEF none
    <3> HIDE DEF body
    <3> QED BY <1>2, <2>1, <3>1, <3>2, InnerOwn, InnerMessages, InnerWindows, InnerOn DEF XcclTimed
  <2>3. CASE r # 0
    <3>1. 0 \in {0, 1} \cap Nat
      OBVIOUS
    <3>2. body(s, i) = IRecv(0, none, s) \o SynchronizeStream \o ISend(0, none, s) \o SynchronizeStream
      BY <2>3 DEF none
    <3> HIDE DEF body
    <3> QED BY <1>2, <2>1, <3>1, <3>2, InnerOwn, InnerMessages, InnerWindows, InnerOn DEF XcclTimed
  <2> QED BY <2>2, <2>3
<1>4. \A s : /\ IsLoop(L(s), Len(Iterations))
             /\ \A k \in 1 .. Len(Iterations) : L(s)[k] = body(s, Iterations[k])
  BY DEF IsLoop
<1>5. /\ IsLoop(O, Len(Sizes))
      /\ \A k \in 1 .. Len(Sizes) : /\ O[k] = Barrier \o FlattenSeq(L(Sizes[k]))
                                   /\ M[k] = L(Sizes[k])
  BY DEF IsLoop
<1> HIDE DEF body, L, O, M
<1>6. \A k \in 1 .. Len(Sizes) :
          IsLoop(M[k], Len(Iterations)) /\ \A j \in 1 .. Len(Iterations) : Inner({0, 1}, {}, M[k][j])
  <2> SUFFICES ASSUME NEW k \in 1 .. Len(Sizes)
               PROVE  /\ IsLoop(M[k], Len(Iterations))
                      /\ \A j \in 1 .. Len(Iterations) : Inner({0, 1}, {}, M[k][j])
    OBVIOUS
  <2>1. Sizes[k] \in Nat /\ M[k] = L(Sizes[k])
    BY <1>5, SizesAre
  <2>2. IsLoop(M[k], Len(Iterations))
    BY <1>4, <2>1
  <2>3. \A j \in 1 .. Len(Iterations) : M[k][j] = body(Sizes[k], Iterations[j])
    BY <1>4, <2>1
  <2> QED BY <1>3, <2>1, <2>2, <2>3
<1>7. Inner({0, 1}, {}, <<>>) /\ Inner({0, 1}, {}, Barrier)
  BY InnerOwn, InnerShared, InnerOn
<1> DEFINE u == Barrier
           w == <<>>
<1>8. \A k \in 1 .. Len(Sizes) : O[k] = u \o FlattenSeq(M[k]) \o w
  BY <1>5, <1>6, <1>7, InnerOn, InnerIterations, EmptyInner
<1> HIDE DEF u, w
<1>9. Inner({0, 1}, {}, u) /\ Inner({0, 1}, {}, w)
  BY <1>7 DEF u, w
<1>10. Spread({0, 1}, u, w, M, O)
  BY <1>6, <1>8 DEF Spread
<1>11. Inner({0, 1}, {}, FlattenSeq(O))
  BY <1>5, <1>9, <1>10, InnerSizes
<1> QED BY <1>1, <1>11

\* Bandwidth with NCCL.
LEMMA XcclBandwidthInner ==
    ASSUME NEW r \in {0, 1}, NEW n \in Nat
    PROVE  Inner({0, 1}, {}, XcclBandwidth(r, n))
<1> DEFINE body(s, i) == IF r = 0
                          THEN XcclTimed(i, Times(n, ISend(1, "", s)) \o SynchronizeStream
                                                   \o IRecv(1, "", ReplySize))
                          ELSE Times(n, IRecv(0, "", s)) \o SynchronizeStream \o ISend(0, "", ReplySize)
           L(s) == [k \in 1 .. Len(Iterations) |-> body(s, Iterations[k])]
           O == [k \in 1 .. Len(Sizes) |-> FlattenSeq(L(Sizes[k]))]
           M == [k \in 1 .. Len(Sizes) |-> L(Sizes[k])]
<1>1. XcclBandwidth(r, n) = FlattenSeq(O)
  BY DEF XcclBandwidth, ForEach
<1>2. /\ 0 \in Nat
      /\ ReplySize \in Nat
  BY DEF Tags, ReplySize
<1>3. ASSUME NEW s \in Nat, NEW i PROVE Inner({0, 1}, {}, body(s, i))
  <2> DEFINE none == ""
  <2>1. none \in Tags
    BY Zenon DEF Tags
  <2> HIDE DEF none
  <2>2. CASE r = 0
    <3>1. 1 \in {0, 1} \cap Nat
      OBVIOUS
    <3>2. body(s, i) = XcclTimed(i, Times(n, ISend(1, none, s)) \o SynchronizeStream
                                                   \o IRecv(1, none, ReplySize))
      BY <2>2 DEF none
    <3> HIDE DEF body
    <3> QED BY <1>2, <2>1, <3>1, <3>2, InnerOwn, InnerMessages, InnerWindows, InnerOn DEF XcclTimed
  <2>3. CASE r # 0
    <3>1. 0 \in {0, 1} \cap Nat
      OBVIOUS
    <3>2. body(s, i) = Times(n, IRecv(0, none, s)) \o SynchronizeStream \o ISend(0, none, ReplySize)
      BY <2>3 DEF none
    <3> HIDE DEF body
    <3> QED BY <1>2, <2>1, <3>1, <3>2, InnerOwn, InnerMessages, InnerWindows, InnerOn DEF XcclTimed
  <2> QED BY <2>2, <2>3
<1>4. \A s : /\ IsLoop(L(s), Len(Iterations))
             /\ \A k \in 1 .. Len(Iterations) : L(s)[k] = body(s, Iterations[k])
  BY DEF IsLoop
<1>5. /\ IsLoop(O, Len(Sizes))
      /\ \A k \in 1 .. Len(Sizes) : /\ O[k] = FlattenSeq(L(Sizes[k]))
                                   /\ M[k] = L(Sizes[k])
  BY DEF IsLoop
<1> HIDE DEF body, L, O, M
<1>6. \A k \in 1 .. Len(Sizes) :
          IsLoop(M[k], Len(Iterations)) /\ \A j \in 1 .. Len(Iterations) : Inner({0, 1}, {}, M[k][j])
  BY <1>3, <1>4, <1>5, SizesAre
<1>7. Inner({0, 1}, {}, <<>>)
  BY InnerOn
<1> DEFINE u == <<>>
           w == <<>>
<1>8. \A k \in 1 .. Len(Sizes) : O[k] = u \o FlattenSeq(M[k]) \o w
  BY <1>5, <1>6, InnerIterations, EmptyInner
<1> HIDE DEF u, w
<1>9. Inner({0, 1}, {}, u) /\ Inner({0, 1}, {}, w)
  BY <1>7 DEF u, w
<1>10. Spread({0, 1}, u, w, M, O)
  BY <1>6, <1>8 DEF Spread
<1>11. Inner({0, 1}, {}, FlattenSeq(O))
  BY <1>5, <1>9, <1>10, InnerSizes
<1> QED BY <1>1, <1>11

\* Bandwidth in both directions with NCCL.
LEMMA XcclBiBandwidthInner ==
    ASSUME NEW r \in {0, 1}, NEW n \in Nat
    PROVE  Inner({0, 1}, {}, XcclBiBandwidth(r, n))
<1> DEFINE body(s, i) == XcclTimed(i, (Times(n, IRecv(1 - r, "", s)) \o Times(n, ISend(1 - r, "", s)))
                                              \o SynchronizeStream)
           L(s) == [k \in 1 .. Len(Iterations) |-> body(s, Iterations[k])]
           O == [k \in 1 .. Len(Sizes) |-> FlattenSeq(L(Sizes[k]))]
           M == [k \in 1 .. Len(Sizes) |-> L(Sizes[k])]
<1>1. XcclBiBandwidth(r, n) = FlattenSeq(O)
  BY DEF XcclBiBandwidth, ForEach
<1>2. /\ 0 \in Nat
      /\ ReplySize \in Nat
  BY DEF Tags, ReplySize
<1>3. ASSUME NEW s \in Nat, NEW i PROVE Inner({0, 1}, {}, body(s, i))
  <2> DEFINE none == ""
             p == 1 - r
  <2>1. none \in Tags
    BY Zenon DEF Tags
  <2>2. p \in {0, 1} \cap Nat
    OBVIOUS
  <2>3. body(s, i) = XcclTimed(i, (Times(n, IRecv(p, none, s)) \o Times(n, ISend(p, none, s)))
                                      \o SynchronizeStream)
    BY DEF none
  <2> HIDE DEF none, p, body
  <2>4. Inner({0, 1}, {}, Times(n, IRecv(p, none, s)) \o Times(n, ISend(p, none, s)))
    BY <2>1, <2>2, InnerWindows, InnerOn
  <2> QED BY <2>3, <2>4, InnerOwn, InnerOn DEF XcclTimed
<1>4. \A s : /\ IsLoop(L(s), Len(Iterations))
             /\ \A k \in 1 .. Len(Iterations) : L(s)[k] = body(s, Iterations[k])
  BY DEF IsLoop
<1>5. /\ IsLoop(O, Len(Sizes))
      /\ \A k \in 1 .. Len(Sizes) : /\ O[k] = FlattenSeq(L(Sizes[k]))
                                   /\ M[k] = L(Sizes[k])
  BY DEF IsLoop
<1> HIDE DEF body, L, O, M
<1>6. \A k \in 1 .. Len(Sizes) :
          IsLoop(M[k], Len(Iterations)) /\ \A j \in 1 .. Len(Iterations) : Inner({0, 1}, {}, M[k][j])
  BY <1>3, <1>4, <1>5, SizesAre
<1>7. Inner({0, 1}, {}, <<>>)
  BY InnerOn
<1> DEFINE u == <<>>
           w == <<>>
<1>8. \A k \in 1 .. Len(Sizes) : O[k] = u \o FlattenSeq(M[k]) \o w
  BY <1>5, <1>6, InnerIterations, EmptyInner
<1> HIDE DEF u, w
<1>9. Inner({0, 1}, {}, u) /\ Inner({0, 1}, {}, w)
  BY <1>7 DEF u, w
<1>10. Spread({0, 1}, u, w, M, O)
  BY <1>6, <1>8 DEF Spread
<1>11. Inner({0, 1}, {}, FlattenSeq(O))
  BY <1>5, <1>9, <1>10, InnerSizes
<1> QED BY <1>1, <1>11

\* The point-to-point benchmarks that are not written in C.
LEMMA OtherPt2ptInner ==
    ASSUME NEW b \in OtherPt2ptBenchmarks, NEW v \in BOOLEAN,
           NEW r \in 0 .. (IF b = "py_multi_lat" THEN 3 ELSE 1)
    PROVE  Inner(0 .. (IF b = "py_multi_lat" THEN 3 ELSE 1), {}, OtherPt2ptProgram(b, r, v))
<1> DEFINE n == Head(Windows)
<1>1. n \in Nat
  BY WindowsAssumption
<1>2. CASE b = "py_multi_lat"
  <2>1. r \in 0 .. 3
    BY <1>2
  <2>2. OtherPt2ptProgram(b, r, v) = PythonMultiLat(r)
    BY <1>2 DEF OtherPt2ptProgram
  <2>3. CASE r < 2
    <3>1. PythonMultiLat(r) = PythonPingPong(r + 2, TRUE) /\ r + 2 \in (0 .. 3) \cap Nat
      BY <2>1, <2>3 DEF PythonMultiLat, PythonPairs
    <3> DEFINE f == TRUE
    <3>2. f \in BOOLEAN
      OBVIOUS
    <3> HIDE DEF f
    <3>3. Inner(0 .. 3, {}, PythonPingPong(r + 2, f))
      BY <3>1, <3>2, PingPongInner
    <3> QED BY <1>2, <2>2, <3>1, <3>3 DEF f
  <2>4. CASE ~(r < 2)
    <3>1. PythonMultiLat(r) = PythonPingPong(r - 2, FALSE) /\ r - 2 \in (0 .. 3) \cap Nat
      BY <2>1, <2>4 DEF PythonMultiLat, PythonPairs
    <3> DEFINE f == FALSE
    <3>2. f \in BOOLEAN
      OBVIOUS
    <3> HIDE DEF f
    <3>3. Inner(0 .. 3, {}, PythonPingPong(r - 2, f))
      BY <3>1, <3>2, PingPongInner
    <3> QED BY <1>2, <2>2, <3>1, <3>3 DEF f
  <2> QED BY <2>3, <2>4
<1>3. CASE b # "py_multi_lat"
  <2> DEFINE T == 0 .. (IF b = "py_multi_lat" THEN 3 ELSE 1)
  <2>1. r \in {0, 1} /\ T = {0, 1}
    BY <1>3
  <2> SUFFICES Inner(T, {}, OtherPt2ptProgram(b, r, v))
    OBVIOUS
  <2> HIDE DEF T, n
  <2>2. CASE b = "OSULatency"
    BY <2>1, <2>2, OSULatencyInner DEF OtherPt2ptProgram
  <2>3. CASE b \in JavaBandwidth
    <3>1. \/ OtherPt2ptProgram(b, r, v) = JavaWarmupLoop(r) \o OSUBandwidth(r, n, v)
          \/ OtherPt2ptProgram(b, r, v) = OSUBandwidth(r, n, v)
      BY <2>3 DEF n, OtherPt2ptProgram, JavaBandwidth, OSUBandwidthOMPI
    <3> QED BY <1>1, <2>1, <3>1, OSUBandwidthInner, InnerWarmup, InnerOn
  <2>4. CASE b \in JavaBiBandwidth
    <3>1. OtherPt2ptProgram(b, r, v) = OSUBiBandwidth(r, n, v)
      BY <2>4 DEF n, OtherPt2ptProgram, JavaBiBandwidth, OSUBiBandwidthOMPI
    <3> QED BY <1>1, <2>1, <3>1, OSUBiBandwidthInner
  <2>5. CASE b = "py_latency"
    <3> DEFINE f == r = 0
    <3>1. OtherPt2ptProgram(b, r, v) = PythonPingPong(1 - r, f)
      BY <2>5 DEF OtherPt2ptProgram, PythonLatency
    <3>2. 1 - r \in T \cap Nat /\ f \in BOOLEAN
      BY <2>1
    <3> HIDE DEF f
    <3> QED BY <3>1, <3>2, PingPongInner
  <2>6. CASE b = "py_bw"
    <3>1. OtherPt2ptProgram(b, r, v) = PythonBandwidth(r, n)
      BY <2>6 DEF n, OtherPt2ptProgram
    <3> QED BY <1>1, <2>1, <3>1, PythonBandwidthInner
  <2>7. CASE b = "py_bibw"
    <3>1. OtherPt2ptProgram(b, r, v) = PythonBiBandwidth(r, n)
      BY <2>7 DEF n, OtherPt2ptProgram
    <3> QED BY <1>1, <2>1, <3>1, PythonBiBandwidthInner
  <2>8. CASE b = "osu_xccl_latency"
    BY <2>1, <2>8, XcclLatencyInner DEF OtherPt2ptProgram
  <2>9. CASE b = "osu_xccl_bw"
    <3>1. OtherPt2ptProgram(b, r, v) = XcclBandwidth(r, n)
      BY <2>9 DEF n, OtherPt2ptProgram
    <3> QED BY <1>1, <2>1, <3>1, XcclBandwidthInner
  <2>10. CASE b = "osu_xccl_bibw"
    <3>1. OtherPt2ptProgram(b, r, v) = XcclBiBandwidth(r, n)
      BY <2>10 DEF n, OtherPt2ptProgram
    <3> QED BY <1>1, <2>1, <3>1, XcclBiBandwidthInner
  <2> QED BY <1>3, <2>1, <2>2, <2>3, <2>4, <2>5, <2>6, <2>7, <2>8, <2>9, <2>10
          DEF OtherPt2ptBenchmarks, JavaPt2pt, JavaLatency, PythonPt2pt, PythonLatencies, XcclPt2pt
<1> QED BY <1>2, <1>3

-----------------------------------------------------------------------------
(* The collective benchmarks have no messages at all. *)

\* The calls of a collective benchmark in C.
LEMMA InnerCollectivePieces ==
    ASSUME NEW T, NEW X, NEW b \in CCollective, NEW root \in 0 .. Procs - 1, NEW i \in 0 .. Turns - 1,
           NEW n
    PROVE  /\ Inner(T, X, Call(b, root, n)) /\ Inner(T, X, CollInit(b, root, n))
           /\ Inner(T, X, LatencyStep(b, n)[root]) /\ Inner(T, X, OverlapStep(b, n)[root])
           /\ Inner(T, X, InPlace(b, root)) /\ Inner(T, X, RequestFree)
           /\ Inner(T, X, RunValidationWarmups(b, root, i, n))
           /\ "check" \notin X => \A r : Inner(T, X, AccumulateLocalErrors(b, root, r, n))
<1>1. root \in Nat
  BY ProcsAssumption
<1>2. /\ KindOf(CollectiveType[b]) \in CollectiveKinds /\ "all" \in CollectiveKinds
      /\ {"plain", "in_place", "persistent"} \subseteq Forms
      /\ KindOf(CollectiveType[b]) \notin Omissible /\ "all" \notin Omissible
  BY KindIs DEF CollectiveKinds, Forms, Omissible
<1>3. Inner(T, X, Call(b, root, n))
  <2> DEFINE form == IF b \in DOMAIN PersistentColl THEN "persistent"
                     ELSE IF CollectiveType[b] \in {"bcast", "barrier"} THEN "plain" ELSE "in_place"
             data == Receivers(b, n)
  <2>1. form \in Forms /\ data \in SUBSET Nat
    BY <1>2, AudiencesAre
  <2>2. Call(b, root, n) = Enter(KindOf(CollectiveType[b]), root, data, form) \o Leave
    BY DEF Call
  <2> HIDE DEF form, data
  <2> QED BY <1>1, <1>2, <2>1, <2>2, InnerCollectives
<1>4. Inner(T, X, CollInit(b, root, n))
  <2>1. CASE b = "osu_reduce_scatter_block_persistent"
    BY <1>1, <1>2, <2>1, AudiencesAre, InnerCollectives DEF CollInit
  <2>2. CASE b # "osu_reduce_scatter_block_persistent"
    <3> DEFINE c == [op |-> "init", kind |-> KindOf(CollectiveType[b]), root |-> root]
    <3>1. c \in Calls /\ c.op = "init"
      BY <1>1, <1>2 DEF Calls
    <3>2. CollInit(b, root, n) = <<c>>
      BY <2>2 DEF CollInit
    <3> HIDE DEF c
    <3> QED BY <3>1, <3>2, InnerOne DEF Omissible
  <2> QED BY <2>1, <2>2
<1>5. Inner(T, X, LatencyStep(b, n)[root]) /\ Inner(T, X, OverlapStep(b, n)[root])
  <2>1. LatencyStep(b, n)[root] = StartClock \o Call(b, root, n) \o StopClock
        /\ OverlapStep(b, n)[root] = StartClock \o Call(b, root, n) \o StopClock
    BY DEF LatencyStep, OverlapStep
  <2> QED BY <1>3, <2>1, InnerPieces, InnerOn
<1>6. Inner(T, X, InPlace(b, root))
  <2> DEFINE c == [op |-> "in_place", type |-> CollectiveType[b], root |-> root]
  <2>1. c \in Calls /\ c.op = "in_place"
    BY <1>1, CollectiveTyped DEF Calls
  <2>2. InPlace(b, root) = <<c>>
    BY DEF InPlace
  <2> HIDE DEF c
  <2> QED BY <2>1, <2>2, InnerOne DEF Omissible
<1>7. Inner(T, X, RequestFree)
  <2>1. "free" \in Plain \ Omissible
    BY DEF Plain, Omissible
  <2> QED BY <2>1, InnerNamed DEF RequestFree
<1>8. Inner(T, X, RunValidationWarmups(b, root, i, n))
  <2>1. Inner(T, X, Fill(i)) /\ Inner(T, X, Barrier)
    BY InnerPieces, InnerCollectives
  <2>2. Inner(T, X, Times(Warmup, LatencyStep(b, n)[root]))
    BY <1>5, WarmupAssumption, InnerOn
  <2> QED BY <2>1, <2>2, InnerOn DEF RunValidationWarmups
<1>9. ASSUME "check" \notin X PROVE \A r : Inner(T, X, AccumulateLocalErrors(b, root, r, n))
  BY <1>9, InnerVerdicts, InnerOn DEF AccumulateLocalErrors
<1> QED BY <1>3, <1>4, <1>5, <1>6, <1>7, <1>8, <1>9

\* The iterations of a size.
LEMMA InnerCollectiveCores ==
    ASSUME NEW T, NEW X, NEW b \in CCollective, NEW o \in OptionsOf(b), NEW r, NEW n, NEW step,
           o.validate => "check" \notin X,
           \A root \in 0 .. Procs - 1 : Inner(T, X, step[root])
    PROVE  Inner(T, X, RunIterationsCore(b, r, n, o, step))
<1> DEFINE body(i) == Given(o.validate, RunValidationWarmups(b, RootOf(b, o, i), i, n))
                       \o Given(o.in_place, InPlace(b, RootRank(o, i)))
                       \o step[RootOf(b, o, i)]
                       \o Barrier
                       \o Given(o.validate, AccumulateLocalErrors(b, RootRank(o, i), r, n))
                       \o Given(Measured(i), Sample)
           L == [k \in 1 .. Len(Iterations) |-> body(Iterations[k])]
<1>1. RunIterationsCore(b, r, n, o, step) = FlattenSeq(L)
  BY DEF RunIterationsCore, ForEach
<1>2. ASSUME NEW k \in 1 .. Len(Iterations) PROVE Inner(T, X, body(Iterations[k]))
  <2> DEFINE i == Iterations[k]
             root == RootOf(b, o, i)
             at == RootRank(o, i)
  <2>1. i \in 0 .. Turns - 1 /\ i \in Nat
    BY IterationsAre DEF Turns
  <2>2. root \in 0 .. Procs - 1 /\ at \in 0 .. Procs - 1
    BY <2>1, RootsAre
  <2> HIDE DEF i, root, at
  <2>3. /\ Inner(T, X, RunValidationWarmups(b, root, i, n)) /\ Inner(T, X, InPlace(b, at))
        /\ o.validate => Inner(T, X, AccumulateLocalErrors(b, at, r, n))
    BY <2>1, <2>2, InnerCollectivePieces
  <2>4. Inner(T, X, step[root]) /\ Inner(T, X, Barrier)
    BY <2>2, InnerCollectives
  <2>5. /\ Inner(T, X, Given(o.validate, RunValidationWarmups(b, root, i, n)))
        /\ Inner(T, X, Given(o.in_place, InPlace(b, at)))
        /\ Inner(T, X, Given(o.validate, AccumulateLocalErrors(b, at, r, n)))
        /\ Inner(T, X, Given(Measured(i), Sample))
    BY <2>3, InnerPieces, InnerOn
  <2>6. Inner(T, X, Given(o.validate, RunValidationWarmups(b, root, i, n)) \o Given(o.in_place, InPlace(b, at))
                   \o step[root] \o Barrier \o Given(o.validate, AccumulateLocalErrors(b, at, r, n))
                   \o Given(Measured(i), Sample))
    BY <2>4, <2>5, InnerOn
  <2> QED BY <2>6 DEF i, root, at
<1>3. IsLoop(L, Len(Iterations)) /\ \A k \in 1 .. Len(Iterations) : L[k] = body(Iterations[k])
  BY DEF IsLoop
<1> HIDE DEF body, L
<1> QED BY <1>1, <1>2, <1>3, InnerIterations

\* A size of a collective benchmark in C.
LEMMA InnerCollectiveSizes ==
    ASSUME NEW T, NEW X, NEW b \in CCollective, NEW o \in OptionsOf(b), NEW r, NEW k \in Nat,
           X = {} \/ (X = {"check"} /\ ~o.validate)
    PROVE  Inner(T, X, RunBenchmarkForMsgSize(b, r, k, o))
<1> DEFINE n == Sizes[k]
           lat == RunIterationsCore(b, r, n, o, LatencyStep(b, n))
           over == RunIterationsCore(b, r, n, o, OverlapStep(b, n))
           sum == Given(o.validate, SumErrors)
<1>1. 0 \in 0 .. Turns - 1 /\ 0 \in Nat
  BY TurnsType
<1>2. Inner(T, X, lat) /\ Inner(T, X, over)
  <2>1. /\ o.validate => "check" \notin X
        /\ \A root \in 0 .. Procs - 1 :
              Inner(T, X, LatencyStep(b, n)[root]) /\ Inner(T, X, OverlapStep(b, n)[root])
    BY <1>1, InnerCollectivePieces
  <2> HIDE DEF lat, over
  <2>2. Inner(T, X, RunIterationsCore(b, r, n, o, LatencyStep(b, n)))
    BY <2>1, InnerCollectiveCores
  <2>3. Inner(T, X, RunIterationsCore(b, r, n, o, OverlapStep(b, n)))
    BY <2>1, InnerCollectiveCores
  <2> QED BY <2>2, <2>3 DEF lat, over
<1>3. Inner(T, X, sum) /\ Inner(T, X, Barrier) /\ Inner(T, X, Reduce)
  BY InnerCollectives, InnerOn
<1>4. CASE IsNonBlocking(b)
  <2>1. RunBenchmarkForMsgSize(b, r, k, o) =
            (lat \o sum \o Barrier \o over \o sum \o Reduce \o Barrier) \o Barrier
    BY <1>4 DEF RunBenchmarkForMsgSize, RunNonBlockingForMsgSize
  <2> HIDE DEF lat, over, sum
  <2> QED BY <1>2, <1>3, <2>1, InnerOn
<1>5. CASE ~IsNonBlocking(b)
  <2> DEFINE root == StaleRoot(b, o, k)
             place == Given(o.in_place, InPlace(b, root))
             begin == Given(b \in DOMAIN PersistentColl, CollInit(b, root, n) \o Barrier)
             end == Given(b \in DOMAIN PersistentColl, RequestFree)
  <2>1. RunBenchmarkForMsgSize(b, r, k, o) =
            (place \o begin \o lat \o Reduce \o sum \o end \o Barrier) \o Barrier
    BY <1>5 DEF RunBenchmarkForMsgSize, RunBlockingForMsgSize
  <2>2. root \in 0 .. Procs - 1
    BY <1>1, RootsAre
  <2> HIDE DEF root
  <2>3. Inner(T, X, InPlace(b, root)) /\ Inner(T, X, RequestFree) /\ Inner(T, X, CollInit(b, root, n))
    BY <1>1, <2>2, InnerCollectivePieces
  <2>4. Inner(T, X, place) /\ Inner(T, X, begin) /\ Inner(T, X, end)
    <3>1. Inner(T, X, CollInit(b, root, n) \o Barrier)
      BY <2>3, <1>3, InnerOn
    <3> QED BY <2>3, <3>1, InnerOn
  <2> HIDE DEF lat, over, sum, place, begin, end
  <2> QED BY <1>2, <1>3, <2>1, <2>4, InnerOn
<1> QED BY <1>4, <1>5

\* The collective benchmarks in C.
LEMMA CCollectiveInner ==
    ASSUME NEW T, NEW X, NEW b \in CCollective, NEW o \in OptionsOf(b), NEW r,
           X = {} \/ (X = {"check"} /\ ~o.validate)
    PROVE  Inner(T, X, CCollectiveProgram(b, r, o))
<1> DEFINE create == Given(b \in Neighborhood, CreateDistGraph)
           size(k) == RunBenchmarkForMsgSize(b, r, k, o)
           S == CollectiveSizes(b)
           n == Len(S)
           L == [k \in 1 .. n |-> Barrier \o size(S[k]) \o Barrier \o BreakOnErrors]
<1>1. CCollectiveProgram(b, r, o) = create \o FlattenSeq(L) \o Report
  BY DEF CCollectiveProgram, ForEach
<1>2. Inner(T, X, create)
  <2>1. Inner(T, X, Enter("all", 0, {}, "plain") \o Leave)
    <3>1. "all" \in CollectiveKinds /\ 0 \in Nat /\ {} \in SUBSET Nat /\ "plain" \in Forms
      BY DEF CollectiveKinds, Forms
    <3>2. "all" \notin Omissible
      BY DEF Omissible
    <3> QED BY <3>1, <3>2, InnerCollectives
  <2>2. Inner(T, X, CreateDistGraph)
    BY <2>1, InnerCollectives, InnerOn DEF CreateDistGraph
  <2> QED BY <2>2, InnerOn
<1>3. n \in Nat /\ \A k \in 1 .. n : S[k] \in Nat
  BY CollectiveSizesAre
<1>4. IsLoop(L, n) /\ \A k \in 1 .. n : L[k] = Barrier \o size(S[k]) \o Barrier \o BreakOnErrors
  BY DEF IsLoop
<1>5. \A k \in Nat : Inner(T, X, size(k))
  BY InnerCollectiveSizes
<1> HIDE DEF create, size, S, n, L
<1>6. ASSUME NEW k \in 1 .. n PROVE Inner(T, X, L[k])
  <2>1. Inner(T, X, size(S[k])) /\ Inner(T, X, Barrier) /\ Inner(T, X, BreakOnErrors)
    BY <1>3, <1>5, InnerCollectives, InnerVerdicts
  <2> QED BY <2>1, <1>4, InnerOn
<1>7. Inner(T, X, FlattenSeq(L))
  BY <1>3, <1>4, <1>6, InnerLoop
<1> QED BY <1>1, <1>2, <1>7, InnerVerdicts, InnerOn

\* The loop of a Java collective.
LEMMA InnerJavaLoop ==
    ASSUME NEW T, NEW call, Inner(T, {}, call), NEW v, NEW c
    PROVE  Inner(T, {}, JavaLoop(call, v, c))
<1> DEFINE body(i) == StartOnce(i) \o JavaFill(v) \o call \o JavaCheck(v /\ c) \o StopOnce(i)
           L == [k \in 1 .. Len(Iterations) |-> body(Iterations[k])]
<1>1. JavaLoop(call, v, c) = FlattenSeq(L)
  BY DEF JavaLoop, ForEach
<1>2. ASSUME NEW i PROVE Inner(T, {}, body(i))
  <2> DEFINE y == JavaCheck(v /\ c)
  <2>1. Inner(T, {}, y)
    <3>1. \A e : Inner(T, {}, JavaCheck(e))
      BY InnerOwn
    <3> QED BY <3>1
  <2> HIDE DEF y
  <2>2. Inner(T, {}, StartOnce(i) \o JavaFill(v) \o call \o y \o StopOnce(i))
    BY <2>1, InnerOwn, InnerOn
  <2> QED BY <2>2 DEF y
<1>3. IsLoop(L, Len(Iterations)) /\ \A k \in 1 .. Len(Iterations) : L[k] = body(Iterations[k])
  BY DEF IsLoop
<1> HIDE DEF body, L
<1> QED BY <1>1, <1>2, <1>3, InnerIterations

\* A collective operation.
LEMMA RootedInner ==
    \A T : \A kind \in RootedKinds : Inner(T, {}, Collective(kind))
<1> SUFFICES ASSUME NEW T, NEW kind \in RootedKinds PROVE Inner(T, {}, Collective(kind))
  OBVIOUS
<1>1. kind \in CollectiveKinds /\ 0 \in Nat /\ Everyone \in SUBSET Nat /\ "plain" \in Forms
  BY AudiencesAre DEF RootedKinds, CollectiveKinds, Forms
<1>2. Inner(T, {}, Enter(kind, 0, Everyone, "plain") \o Leave)
  BY <1>1, InnerShared
<1> QED BY <1>2 DEF Collective

\* The benchmarks in Java.
LEMMA JavaProgramInner ==
    ASSUME NEW T, NEW kind \in RootedKinds, NEW v, NEW c
    PROVE  Inner(T, {}, JavaProgram(kind, v, c))
<1> DEFINE call == Collective(kind)
           warm == Times(InitialWarmup, call \o Barrier)
           x == JavaLoop(call, v, c)
<1>1. Inner(T, {}, call) /\ Inner(T, {}, Barrier) /\ Inner(T, {}, Reduce)
  BY RootedInner, InnerShared
<1>2. Inner(T, {}, warm)
  <2>1. Inner(T, {}, call \o Barrier)
    BY <1>1, InnerOn
  <2> QED BY <2>1, InitialWarmupAssumption, InnerOn
<1>3. Inner(T, {}, x)
  BY <1>1, InnerJavaLoop
<1>4. JavaProgram(kind, v, c) = warm \o Times(Len(Sizes), x \o Reduce \o Barrier)
  BY DEF JavaProgram
<1> HIDE DEF warm, x
<1>5. Inner(T, {}, x \o Reduce \o Barrier)
  BY <1>1, <1>3, InnerOn
<1>6. Inner(T, {}, Times(Len(Sizes), x \o Reduce \o Barrier))
  BY <1>5, SizesAre, InnerOn
<1> QED BY <1>2, <1>4, <1>6, InnerOn

\* The loops in Python and for NCCL.
LEMMA InnerLoops ==
    ASSUME NEW T, NEW call, Inner(T, {}, call)
    PROVE  /\ Inner(T, {}, PythonLoop(call))
           /\ \A kind : call = Collective(kind) => Inner(T, {}, XcclLoop(kind))
<1>1. Inner(T, {}, StopClock) /\ Inner(T, {}, StartClock) /\ Inner(T, {}, Sample) /\ Inner(T, {}, Barrier)
      /\ Inner(T, {}, Reduce) /\ \A i : Inner(T, {}, StartOnce(i))
  BY InnerOwn, InnerShared
<1>2. Inner(T, {}, PythonLoop(call))
  <2> DEFINE ss == [k \in 1 .. Len(Iterations) |-> StartOnce(Iterations[k]) \o call]
  <2>1. PythonLoop(call) = Barrier \o FlattenSeq(ss) \o StopClock \o Sample \o Barrier \o Reduce
    BY DEF PythonLoop, ForEach
  <2>2. IsLoop(ss, Len(Iterations)) /\ \A k \in 1 .. Len(Iterations) : ss[k] = StartOnce(Iterations[k]) \o call
    BY DEF IsLoop
  <2> HIDE DEF ss
  <2>3. \A k \in 1 .. Len(Iterations) : Inner(T, {}, ss[k])
    BY <1>1, <2>2, InnerOn
  <2>4. Inner(T, {}, FlattenSeq(ss))
    BY <2>2, <2>3, InnerIterations
  <2> QED BY <1>1, <2>1, <2>4, InnerOn
<1>3. ASSUME NEW kind, call = Collective(kind) PROVE Inner(T, {}, XcclLoop(kind))
  <2> DEFINE body(i) == StartClock \o call \o StopClock \o Given(Measured(i), Sample) \o Barrier
             ss == [k \in 1 .. Len(Iterations) |-> body(Iterations[k])]
  <2>1. XcclLoop(kind) = FlattenSeq(ss)
    BY <1>3 DEF XcclLoop, ForEach
  <2>2. \A i : Inner(T, {}, body(i))
    <3>1. \A i : Inner(T, {}, Given(Measured(i), Sample))
      BY <1>1, InnerOn
    <3> QED BY <1>1, <3>1, InnerOn
  <2>3. IsLoop(ss, Len(Iterations)) /\ \A k \in 1 .. Len(Iterations) : ss[k] = body(Iterations[k])
    BY DEF IsLoop
  <2> HIDE DEF ss, body
  <2> QED BY <2>1, <2>2, <2>3, InnerIterations
<1> QED BY <1>2, <1>3

\* The collective benchmarks in Python and for NCCL.
LEMMA OtherProgramsInner ==
    ASSUME NEW T, NEW kind \in RootedKinds
    PROVE  /\ Inner(T, {}, PythonProgram(kind)) /\ Inner(T, {}, XcclProgram(kind))
           /\ Inner(T, {}, XcclProgramShort(kind)) /\ Inner(T, {}, PythonLoop(Barrier))
<1>1. Inner(T, {}, Collective(kind)) /\ Inner(T, {}, Barrier) /\ Inner(T, {}, Reduce) /\ Len(Sizes) \in Nat
  BY RootedInner, InnerShared, SizesAre
<1>2. Inner(T, {}, PythonLoop(Collective(kind))) /\ Inner(T, {}, PythonLoop(Barrier)) /\ Inner(T, {}, XcclLoop(kind))
  BY <1>1, InnerLoops
<1>3. Inner(T, {}, PythonProgram(kind))
  BY <1>1, <1>2, InnerOn DEF PythonProgram
<1>4. Inner(T, {}, Barrier \o XcclLoop(kind) \o Barrier \o Reduce \o Barrier)
      /\ Inner(T, {}, Barrier \o XcclLoop(kind) \o Reduce \o Barrier)
  BY <1>1, <1>2, InnerOn
<1>5. Inner(T, {}, XcclProgram(kind)) /\ Inner(T, {}, XcclProgramShort(kind))
  BY <1>1, <1>4, InnerOn DEF XcclProgram, XcclProgramShort
<1> QED BY <1>2, <1>3, <1>5

\* The collective benchmarks that are not written in C.
LEMMA OtherCollectiveInner ==
    ASSUME NEW T, NEW b \in OtherCollectiveBenchmarks, NEW r, NEW v
    PROVE  Inner(T, {}, OtherCollectiveProgram(b, r, v))
<1>0. {"all", "from_root", "to_root"} \subseteq RootedKinds
  BY DEF RootedKinds
<1>1. CASE b \in JavaCollective
  <2>1. OtherCollectiveProgram(b, r, v) = JavaCollectiveProgram(b, r, v)
    BY <1>1, OthersApart DEF OtherCollectiveProgram
  <2>2. CASE b = "OSUBarrier"
    <3>1. JavaCollectiveProgram(b, r, v) = OSUBarrier
      BY <2>2 DEF JavaCollectiveProgram
    <3>2. Inner(T, {}, Barrier) /\ Inner(T, {}, Reduce)
      BY InnerShared
    <3>3. Inner(T, {}, JavaLoop(Barrier, FALSE, FALSE))
      BY <3>2, InnerJavaLoop
    <3>4. Inner(T, {}, Times(InitialWarmup, Barrier))
      BY <3>2, InitialWarmupAssumption, InnerOn
    <3>5. Inner(T, {}, OSUBarrier)
      BY <3>2, <3>3, <3>4, InnerOn DEF OSUBarrier
    <3> QED BY <2>1, <3>1, <3>5
  <2>3. CASE b # "OSUBarrier"
    <3> DEFINE kind == CASE b \in {"OSUBcast", "OSUScatter", "OSUScatterv"} -> "from_root"
                         [] b \in {"OSUGather", "OSUGatherv", "OSUReduce"} -> "to_root"
                         [] OTHER -> "all"
    <3>2. PICK c : JavaCollectiveProgram(b, r, v) = JavaProgram(kind, v, c)
      BY <1>1, <2>3 DEF JavaCollectiveProgram, JavaCollective, OSUAllReduce, OSUAllgather, OSUAllgatherv,
         OSUAlltoall, OSUAlltoallv, OSUBcast, OSUGather, OSUGatherv, OSUReduce, OSUScatter,
         OSUScatterv, OSUReduceScatter
    <3>3. kind \in RootedKinds
      BY <1>0
    <3> HIDE DEF kind
    <3>4. Inner(T, {}, JavaProgram(kind, v, c))
      BY <3>3, JavaProgramInner
    <3> QED BY <2>1, <3>2, <3>4
  <2> QED BY <2>2, <2>3
<1>2. CASE b \in PythonCollective
  <2>2. OtherCollectiveProgram(b, r, v) = PythonCollectiveProgram(b)
    BY <1>2, OthersApart DEF OtherCollectiveProgram
  <2>3. \/ PythonCollectiveProgram(b) = PythonLoop(Barrier)
        \/ PythonCollectiveProgram(b) = PythonProgram("all")
        \/ PythonCollectiveProgram(b) = PythonProgram("from_root")
        \/ PythonCollectiveProgram(b) = PythonProgram("to_root")
    BY <1>2 DEF PythonCollective, PythonCollectiveProgram, PyAllgather, PyAllgatherv, PyAllreduce,
       PyAlltoall, PyAlltoallv, PyReduceScatter, PyBcast, PyScatter, PyScatterv, PyGather, PyGatherv,
       PyReduce, PyBarrier
  <2> QED BY <1>0, <2>2, <2>3, OtherProgramsInner
<1>3. CASE b \in XcclCollective
  <2>2. OtherCollectiveProgram(b, r, v) = XcclCollectiveProgram(b)
    BY <1>3, OthersApart DEF OtherCollectiveProgram
  <2>3. \E kind \in {"all", "from_root", "to_root"} :
            \/ XcclCollectiveProgram(b) = XcclProgram(kind)
            \/ XcclCollectiveProgram(b) = XcclProgramShort(kind)
    BY <1>3 DEF XcclCollective, XcclCollectiveProgram, XcclAllgather, XcclAllreduce, XcclAlltoall,
       XcclReduceScatter, XcclBcast, XcclReduce
  <2> QED BY <1>0, <2>2, <2>3, OtherProgramsInner
<1> QED BY <1>1, <1>2, <1>3 DEF OtherCollectiveBenchmarks

-----------------------------------------------------------------------------
(* Sequences in which what some calls begin is brought to its end by others. *)

\* Calls that are made one after the other, with messages between two ranks at
\* most.
StraightCall ==
    {c \in Calls : /\ c.op \notin {"break", "elect", "meet"}
                   /\ c.op \in {"isend", "irecv"} => c.peer \in {0, 1}}

TransferCalls == {c \in Calls : c.op = "rma"}
FlushCalls == {c \in Calls : c.op = "flush" /\ c.which = "all"}
FenceCalls == {c \in Calls : c.op = "enter" /\ c.kind = "fence"}
PostCalls == {c \in Calls : c.op = "post"}
AwaitCalls == {c \in Calls : c.op = "await"}

\* Sequences of calls of C in which a call of B comes after each one of A.
Answered(C, A, B) ==
    {s \in Seq(C) : \A k \in 1 .. Len(s) : s[k] \in A => \E j \in k + 1 .. Len(s) : s[j] \in B}

\* Such sequences after each other; one that ends with an answer after any other.
LEMMA AnsweredOn ==
    ASSUME NEW C, NEW A, NEW B
    PROVE  /\ <<>> \in Answered(C, A, B)
           /\ \A s, t \in Answered(C, A, B) : s \o t \in Answered(C, A, B)
           /\ \A s \in Seq(C) : \A t \in Answered(C, A, B) :
                 (\E k \in 1 .. Len(t) : t[k] \in B) => s \o t \in Answered(C, A, B)
           /\ \A s \in Seq(C \ A) : s \in Answered(C, A, B)
           /\ Answered(C, A, B) \subseteq Seq(C)
<1>1. <<>> \in Answered(C, A, B)
  <2>1. <<>> \in Seq(C) /\ Len(<<>>) = 0
    OBVIOUS
  <2> QED BY <2>1 DEF Answered
<1>2. ASSUME NEW s \in Seq(C), NEW t \in Answered(C, A, B),
             s \in Answered(C, A, B) \/ \E k \in 1 .. Len(t) : t[k] \in B
      PROVE  s \o t \in Answered(C, A, B)
  <2>0. t \in Seq(C) /\ \A k \in 1 .. Len(t) : t[k] \in A => \E j \in k + 1 .. Len(t) : t[j] \in B
    BY <1>2 DEF Answered
  <2> DEFINE m == Len(s)
             n == Len(t)
             u == s \o t
  <2>1. /\ m \in Nat /\ n \in Nat /\ u \in Seq(C) /\ Len(u) = m + n
        /\ \A k \in 1 .. m : u[k] = s[k]
        /\ \A k \in m + 1 .. m + n : u[k] = t[k - m]
        /\ \A k \in 1 .. n : u[m + k] = t[k]
    BY <2>0
  <2>2. ASSUME NEW k \in 1 .. Len(u), u[k] \in A PROVE \E j \in k + 1 .. Len(u) : u[j] \in B
    <3>1. CASE k \in 1 .. m
      <4>1. CASE s \in Answered(C, A, B)
        <5>0. s[k] \in A
          BY <2>1, <2>2, <3>1
        <5>1. PICK j \in k + 1 .. m : s[j] \in B
          BY <3>1, <4>1, <5>0 DEF Answered
        <5>2. j \in 1 .. m /\ j \in k + 1 .. Len(u)
          BY <2>1, <3>1, <5>1
        <5> HIDE DEF u, m, n
        <5>3. u[j] = s[j]
          BY <2>1, <5>2
        <5> QED BY <5>1, <5>2, <5>3
      <4>2. CASE \E i \in 1 .. n : t[i] \in B
        <5>1. PICK i \in 1 .. n : t[i] \in B
          BY <4>2
        <5>2. m + i \in k + 1 .. Len(u)
          BY <2>1, <3>1, <5>1
        <5> HIDE DEF u, m, n
        <5>3. u[m + i] = t[i]
          BY <2>1, <5>1
        <5> QED BY <5>1, <5>2, <5>3
      <4> QED BY <1>2, <4>1, <4>2
    <3>2. CASE k \in m + 1 .. m + n
      <4>1. k - m \in 1 .. n /\ t[k - m] \in A
        BY <2>1, <2>2, <3>2
      <4>2. PICK j \in (k - m) + 1 .. n : t[j] \in B
        BY <2>0, <4>1
      <4>3. m + j \in k + 1 .. Len(u) /\ j \in 1 .. n
        BY <2>1, <4>1, <4>2, <3>2
      <4> HIDE DEF u, m, n
      <4>4. u[m + j] = t[j]
        BY <2>1, <4>3
      <4> QED BY <4>2, <4>3, <4>4
    <3> QED BY <2>1, <3>1, <3>2
  <2> QED BY <2>1, <2>2 DEF Answered
<1>3. ASSUME NEW s \in Seq(C \ A) PROVE s \in Answered(C, A, B)
  <2>1. s \in Seq(C) /\ \A k \in 1 .. Len(s) : s[k] \notin A
    OBVIOUS
  <2> QED BY <2>1 DEF Answered
<1>4. Answered(C, A, B) \subseteq Seq(C)
  BY DEF Answered
<1> QED BY <1>1, <1>2, <1>3, <1>4

\* Sequences that may follow each other may be repeated.
LEMMA AgainAndAgain ==
    ASSUME NEW C, NEW L, L \subseteq Seq(C), <<>> \in L, \A s, t \in L : s \o t \in L,
           NEW n \in Nat, NEW ss, IsLoop(ss, n), \A k \in 1 .. n : ss[k] \in L
    PROVE  FlattenSeq(ss) \in L
<1> DEFINE Q == [k \in 0 .. n |-> L]
<1>1. ss \in Seq(Seq(C)) /\ Len(ss) = n
  BY LoopType
<1>2. <<>> \in Q[0]
  OBVIOUS
<1>3. \A k \in 1 .. Len(ss) : \A s \in Q[k - 1] : s \o ss[k] \in Q[k]
  <2> SUFFICES ASSUME NEW k \in 1 .. n, NEW s \in Q[k - 1] PROVE s \o ss[k] \in Q[k]
    BY <1>1
  <2>1. Q[k - 1] = L /\ Q[k] = L
    OBVIOUS
  <2> QED BY <2>1
<1>4. Q[n] = L
  OBVIOUS
<1> HIDE DEF Q
<1>5. FlattenSeq(ss) \in Q[Len(ss)]
  BY <1>1, <1>2, <1>3, FlattenRule
<1> QED BY <1>1, <1>4, <1>5

\* Pairs of sequences that may be followed by each other.
Joint(R) ==
    /\ R \subseteq Seq(Calls) \X Seq(Calls)
    /\ << <<>>, <<>> >> \in R
    /\ \A s, t, u, w : <<s, t>> \in R /\ <<u, w>> \in R => <<s \o u, t \o w>> \in R

\* So they may be repeated together.
LEMMA JointLoop ==
    ASSUME NEW R, Joint(R), NEW n \in Nat, NEW ss, IsLoop(ss, n), NEW tt, IsLoop(tt, n),
           \A k \in 1 .. n : <<ss[k], tt[k]>> \in R
    PROVE  <<FlattenSeq(ss), FlattenSeq(tt)>> \in R
<1> DEFINE Alike(uu, ww, m) == /\ Len(uu) = m /\ Len(ww) = m
                               /\ \A k \in 1 .. m : <<uu[k], ww[k]>> \in R
           S == {m \in Nat : \A uu, ww \in Seq(Seq(Calls)) :
                    Alike(uu, ww, m) => <<FlattenSeq(uu), FlattenSeq(ww)>> \in R}
<1>1. 0 \in S
  <2> SUFFICES ASSUME NEW uu \in Seq(Seq(Calls)), NEW ww \in Seq(Seq(Calls)), Alike(uu, ww, 0)
               PROVE  <<FlattenSeq(uu), FlattenSeq(ww)>> \in R
    OBVIOUS
  <2>1. FlattenSeq(uu) = <<>> /\ FlattenSeq(ww) = <<>>
    BY FlattenNone
  <2> QED BY <2>1 DEF Joint
<1>2. ASSUME NEW m \in Nat, m \in S PROVE m + 1 \in S
  <2> SUFFICES ASSUME NEW uu \in Seq(Seq(Calls)), NEW ww \in Seq(Seq(Calls)), Alike(uu, ww, m + 1)
               PROVE  <<FlattenSeq(uu), FlattenSeq(ww)>> \in R
    OBVIOUS
  <2>1. uu # <<>> /\ ww # <<>>
    OBVIOUS
  <2>2. PICK u1 \in Seq(Seq(Calls)), s \in Seq(Calls) : uu = Append(u1, s)
    BY <2>1, SequenceEmptyOrAppend
  <2>3. PICK w1 \in Seq(Seq(Calls)), t \in Seq(Calls) : ww = Append(w1, t)
    BY <2>1, SequenceEmptyOrAppend
  <2>4. Len(u1) = m /\ Len(w1) = m /\ uu[m + 1] = s /\ ww[m + 1] = t
        /\ \A k \in 1 .. m : uu[k] = u1[k] /\ ww[k] = w1[k]
    BY <2>2, <2>3
  <2>5. Alike(u1, w1, m)
    BY <2>4
  <2>6. <<s, t>> \in R
    <3>1. m + 1 \in 1 .. m + 1
      OBVIOUS
    <3> QED BY <2>4, <3>1
  <2>7. <<FlattenSeq(u1), FlattenSeq(w1)>> \in R
    <3> HIDE DEF Alike
    <3> QED BY <1>2, <2>5
  <2>8. FlattenSeq(uu) = FlattenSeq(u1) \o s /\ FlattenSeq(ww) = FlattenSeq(w1) \o t
    BY <2>2, <2>3, FlattenAppend
  <2> QED BY <2>6, <2>7, <2>8 DEF Joint
<1>3. n \in S
  <2> HIDE DEF S
  <2> QED BY <1>1, <1>2, Naturals0
<1>4. ss \in Seq(Seq(Calls)) /\ tt \in Seq(Seq(Calls)) /\ Len(ss) = n /\ Len(tt) = n
  <2>1. \A k \in 1 .. n : ss[k] \in Seq(Calls) /\ tt[k] \in Seq(Calls)
    BY DEF Joint
  <2> QED BY <2>1, LoopType
<1>5. Alike(ss, tt, n)
  BY <1>4
<1> HIDE DEF Alike
<1> QED BY <1>3, <1>4, <1>5

\* The same on the same condition, or equally often.
LEMMA JointTimes ==
    ASSUME NEW R, Joint(R)
    PROVE  /\ \A c, s, t : (c => <<s, t>> \in R) => <<Given(c, s), Given(c, t)>> \in R
           /\ \A n \in Nat : \A s, t : <<s, t>> \in R => <<Times(n, s), Times(n, t)>> \in R
           /\ \A s, t : <<s, t>> \in R => s \in Seq(Calls) /\ t \in Seq(Calls)
<1>1. \A c, s, t : (c => <<s, t>> \in R) => <<Given(c, s), Given(c, t)>> \in R
  BY DEF Joint, Given
<1>2. ASSUME NEW n \in Nat, NEW s, NEW t, <<s, t>> \in R PROVE <<Times(n, s), Times(n, t)>> \in R
  <2> DEFINE ss == [k \in 1 .. n |-> s]
             tt == [k \in 1 .. n |-> t]
  <2>1. IsLoop(ss, n) /\ IsLoop(tt, n) /\ \A k \in 1 .. n : ss[k] = s /\ tt[k] = t
    BY DEF IsLoop
  <2> HIDE DEF ss, tt
  <2>2. <<FlattenSeq(ss), FlattenSeq(tt)>> \in R
    BY <1>2, <2>1, JointLoop
  <2> QED BY <2>2 DEF Times, ss, tt
<1>3. \A s, t : <<s, t>> \in R => s \in Seq(Calls) /\ t \in Seq(Calls)
  BY DEF Joint
<1> QED BY <1>1, <1>2, <1>3

\* Pairs of sequences each of which may follow its like.
LEMMA JointProduct ==
    ASSUME NEW L, NEW M, L \subseteq Seq(Calls), M \subseteq Seq(Calls), <<>> \in L, <<>> \in M,
           \A s, t \in L : s \o t \in L, \A s, t \in M : s \o t \in M
    PROVE  Joint(L \X M)
BY DEF Joint

-----------------------------------------------------------------------------
(* The two ranks of a one-sided benchmark, piece by piece. *)

\* What the two programs are made of, as far as they are not transfers.
Simple(R, y) ==
    /\ \A u \in {StartClock, StopClock, Sample, Touch, LoopLock(y)} : <<u, <<>> >> \in R
    /\ << <<>>, Touch>> \in R
    /\ <<Barrier, Barrier>> \in R /\ <<Sync, Sync>> \in R
    /\ <<Recv(1, "flag", ReplySize), Send(0, "flag", ReplySize)>> \in R

\* The epochs with their transfers, and what the other rank does meanwhile.
EpochPairs(R, y, b) ==
    /\ \A n \in Nat : <<OpPreSync(y) \o Times(n, OpPtr(b, 1)) \o OpPostSync(y),
                        NonOpPreSync(y) \o NonOpPostSync(y, 0)>> \in R
    /\ <<OpPreSync(y) \o OpPtr(b, 1) \o OpPostSync(y), NonOpPreSync(y) \o NonOpPostSync(y, 0)>> \in R
    /\ <<Ping(y, 1), Pong(y, OpPtr(b, 0))>> \in R
    /\ y \in Active => \A n \in Nat :
          <<BibwPreSync(y) \o Times(n, OpPtr(b, 1)) \o BibwPostSync(y, 1),
            BibwPreSync(y) \o Times(n, OpPtr(b, 0)) \o BibwPostSync(y, 0)>> \in R

Pieces(R, y, b) == Joint(R) /\ Simple(R, y) /\ EpochPairs(R, y, b)

\* Two exchanges, made of a pair of R but for what the origin does last.
BothSides(R, y, s, z) ==
    \E x, t : /\ <<x, t>> \in R
              /\ s = Barrier \o (x \o LoopUnlock(y)) \o Barrier /\ z = Barrier \o t \o Barrier

\* Three sequences of calls after a first one, in whatever way they are put together.
FourInARow(s, t, u, w) == s \o t \o u \o w = s \o (t \o u \o w)

\* Calls after each other, in whatever way they are put together.
LEMMA InARow ==
    \A s, t, u, w \in Seq(Calls) : FourInARow(s, t, u, w)
<1> SUFFICES ASSUME NEW s \in Seq(Calls), NEW t \in Seq(Calls), NEW u \in Seq(Calls), NEW w \in Seq(Calls)
             PROVE  s \o t \o u \o w = s \o (t \o u \o w)
  BY DEF FourInARow
<1>1. s \o t \o u = s \o (t \o u) /\ t \o u \in Seq(Calls)
  BY ConcatAssociative, ConcatProperties
<1> DEFINE v == t \o u
<1>2. v \in Seq(Calls)
  BY <1>1
<1> HIDE DEF v
<1>3. (s \o v) \o w = s \o (v \o w)
  BY <1>2, ConcatAssociative
<1> QED BY <1>1, <1>3 DEF v

\* The calls of one rank alone before or after those of both.
LEMMA JointSides ==
    ASSUME NEW R, Joint(R), NEW s, NEW t, <<s, t>> \in R
    PROVE  /\ \A u : <<u, <<>> >> \in R => <<u \o s, t>> \in R /\ <<s \o u, t>> \in R
           /\ \A u : << <<>>, u>> \in R => <<s, u \o t>> \in R /\ <<s, t \o u>> \in R
<1>1. s \in Seq(Calls) /\ t \in Seq(Calls)
  BY DEF Joint
<1>2. s \o <<>> = s /\ <<>> \o s = s /\ t \o <<>> = t /\ <<>> \o t = t
  BY <1>1, ConcatEmptySeq
<1>3. ASSUME NEW u, <<u, <<>> >> \in R PROVE <<u \o s, t>> \in R /\ <<s \o u, t>> \in R
  <2>1. <<u \o s, <<>> \o t>> \in R /\ <<s \o u, t \o <<>> >> \in R
    BY <1>3 DEF Joint
  <2> QED BY <1>2, <2>1
<1>4. ASSUME NEW u, << <<>>, u>> \in R PROVE <<s, u \o t>> \in R /\ <<s, t \o u>> \in R
  <2>1. << <<>> \o s, u \o t>> \in R /\ <<s \o <<>>, t \o u>> \in R
    BY <1>4 DEF Joint
  <2> QED BY <1>2, <2>1
<1> QED BY <1>3, <1>4

\* The simple pieces, if a condition holds.
LEMMA SimpleGiven ==
    ASSUME NEW R, NEW y, Joint(R), Simple(R, y)
    PROVE  /\ \A i : <<StartOnce(i), <<>> >> \in R
           /\ \A c : <<Given(c, Touch), <<>> >> \in R /\ << <<>>, Given(c, Touch)>> \in R
<1>1. \A c, u : <<u, <<>> >> \in R => <<Given(c, u), <<>> >> \in R
  BY DEF Joint, Given
<1>2. \A c, u : << <<>>, u>> \in R => << <<>>, Given(c, u)>> \in R
  BY DEF Joint, Given
<1> QED BY <1>1, <1>2 DEF StartOnce, Simple

\* The epochs are calls.
LEMMA EpochsTyped ==
    ASSUME NEW y \in SyncKinds, NEW b, NEW n \in Nat
    PROVE  /\ OpPreSync(y) \in Seq(Calls) /\ OpPostSync(y) \in Seq(Calls)
           /\ NonOpPreSync(y) \in Seq(Calls) /\ NonOpPostSync(y, 0) \in Seq(Calls)
           /\ \A p \in {0, 1} : /\ OpPtr(b, p) \in Seq(Calls) /\ Times(n, OpPtr(b, p)) \in Seq(Calls)
                              /\ BibwPreSync(y) \in Seq(Calls) /\ BibwPostSync(y, p) \in Seq(Calls)
<1>1. \A p \in {0, 1} : Own(OpPtr(b, p)) /\ Own(Times(n, OpPtr(b, p)))
  BY OpOwn, OwnOn
<1>2. Own(<<>>)
  BY OwnOn
<1>3. /\ Both(OpPreSync(y), NonOpPreSync(y)) /\ Both(OpPostSync(y), NonOpPostSync(y, 0))
      /\ Both(BibwPreSync(y), BibwPreSync(y)) /\ Both(BibwPostSync(y, 1), BibwPostSync(y, 0))
  BY <1>2, SyncsFit
<1>4. \A s, t : Both(s, t) => s \in Seq(Calls) /\ t \in Seq(Calls)
  BY DEF Both, Fits
<1>5. \A s : Own(s) => s \in Seq(Calls)
  BY <1>4, BothOwn
<1> QED BY <1>1, <1>3, <1>4, <1>5

\* run_op_bw, but for what its origin does last.
LEMMA RunOpBwJoint ==
    ASSUME NEW R, NEW y \in SyncKinds, NEW b, Pieces(R, y, b), NEW n \in Nat
    PROVE  BothSides(R, y, RunOpBw(y, 0, 1, OpPtr(b, 1), n),
                      RunOpBw(y, 1, 0, OpPtr(b, 0), n))
<1> DEFINE op == OpPtr(b, 1)
           S == [k \in 1 .. Len(Iterations) |->
                    StartOnce(Iterations[k]) \o OpPreSync(y) \o Times(n, op) \o OpPostSync(y)]
           t == NonOpPreSync(y) \o NonOpPostSync(y, 0)
           T == [k \in 1 .. Len(Iterations) |-> t]
           x == LoopLock(y) \o FlattenSeq(S) \o StopClock \o Sample
<1>0. Joint(R) /\ Simple(R, y) /\ EpochPairs(R, y, b)
  BY DEF Pieces
<1>1. RunOpBw(y, 0, 1, op, n) = Barrier \o (x \o LoopUnlock(y)) \o Barrier
  BY DEF RunOpBw, ForEach
<1>2. RunOpBw(y, 1, 0, OpPtr(b, 0), n) = Barrier \o FlattenSeq(T) \o Barrier
  <2>1. Times(Skip + Iters, t) = FlattenSeq(T)
    BY IterationsAre DEF Times, Turns
  <2>2. RunOpBw(y, 1, 0, OpPtr(b, 0), n) = Barrier \o Times(Skip + Iters, t) \o Barrier
    BY DEF RunOpBw, ForEach
  <2> QED BY <2>1, <2>2
<1>3. /\ IsLoop(S, Len(Iterations)) /\ IsLoop(T, Len(Iterations))
      /\ \A k \in 1 .. Len(Iterations) :
            /\ S[k] = StartOnce(Iterations[k]) \o OpPreSync(y) \o Times(n, op) \o OpPostSync(y)
            /\ T[k] = t
  BY DEF IsLoop
<1>4. <<OpPreSync(y) \o Times(n, op) \o OpPostSync(y), t>> \in R
  BY <1>0 DEF EpochPairs
<1>5. OpPreSync(y) \in Seq(Calls) /\ Times(n, op) \in Seq(Calls) /\ OpPostSync(y) \in Seq(Calls)
  BY EpochsTyped
<1> HIDE DEF op, S, t, T
<1>6. ASSUME NEW k \in 1 .. Len(Iterations) PROVE <<S[k], T[k]>> \in R
  <2> DEFINE u == StartOnce(Iterations[k])
  <2>1. <<u, <<>> >> \in R
    BY <1>0, SimpleGiven
  <2>2. u \in Seq(Calls)
    BY <1>0, <2>1 DEF Joint
  <2>3. S[k] = u \o OpPreSync(y) \o Times(n, op) \o OpPostSync(y)
    BY <1>3
  <2>4. FourInARow(u, OpPreSync(y), Times(n, op), OpPostSync(y))
    BY <1>5, <2>2, InARow
  <2>5. S[k] = u \o (OpPreSync(y) \o Times(n, op) \o OpPostSync(y))
    BY <2>3, <2>4 DEF FourInARow
  <2> HIDE DEF u
  <2> QED BY <1>0, <1>3, <1>4, <2>1, <2>5, JointSides
<1>7. <<FlattenSeq(S), FlattenSeq(T)>> \in R
  BY <1>0, <1>3, <1>6, IterationsAre, TurnsType, JointLoop
<1> DEFINE f == FlattenSeq(S)
           g == FlattenSeq(T)
<1>8. <<x, g>> \in R
  <2>1. <<LoopLock(y), <<>> >> \in R /\ <<StopClock, <<>> >> \in R /\ <<Sample, <<>> >> \in R
    BY <1>0 DEF Simple
  <2>2. <<f, g>> \in R
    BY <1>7
  <2> HIDE DEF f, g
  <2>3. <<LoopLock(y) \o f, g>> \in R
    BY <1>0, <2>1, <2>2, JointSides
  <2>4. <<LoopLock(y) \o f \o StopClock, g>> \in R
    BY <1>0, <2>1, <2>3, JointSides
  <2>5. <<LoopLock(y) \o f \o StopClock \o Sample, g>> \in R
    BY <1>0, <2>1, <2>4, JointSides
  <2> QED BY <2>5 DEF f
<1> HIDE DEF x
<1> QED BY <1>1, <1>2, <1>8 DEF op, BothSides

\* An iteration of a latency test, which the other rank answers.
LEMMA RoundsJoint ==
    ASSUME NEW R, NEW y \in SyncKinds, NEW b, Pieces(R, y, b), NEW u, <<u, <<>> >> \in R
    PROVE  <<u \o OpPreSync(y) \o OpPtr(b, 1) \o OpPostSync(y) \o Ping(y, 1),
             NonOpPreSync(y) \o NonOpPostSync(y, 0) \o Pong(y, OpPtr(b, 0))>> \in R
<1> DEFINE e == OpPreSync(y) \o OpPtr(b, 1) \o OpPostSync(y)
           t == NonOpPreSync(y) \o NonOpPostSync(y, 0)
           ping == Ping(y, 1)
           pong == Pong(y, OpPtr(b, 0))
<1>1. Joint(R) /\ <<e, t>> \in R /\ <<ping, pong>> \in R
  BY DEF Pieces, EpochPairs
<1>2. u \o OpPreSync(y) \o OpPtr(b, 1) \o OpPostSync(y) = u \o e
  <2>1. u \in Seq(Calls)
    BY <1>1 DEF Joint
  <2>2. OpPreSync(y) \in Seq(Calls) /\ OpPtr(b, 1) \in Seq(Calls) /\ OpPostSync(y) \in Seq(Calls)
    BY EpochsTyped
  <2> DEFINE p == OpPreSync(y)
             q == OpPtr(b, 1)
             r == OpPostSync(y)
  <2>3. p \in Seq(Calls) /\ q \in Seq(Calls) /\ r \in Seq(Calls)
    BY <2>2
  <2> HIDE DEF p, q, r
  <2>4. FourInARow(u, p, q, r)
    BY <2>1, <2>3, InARow
  <2> QED BY <2>4 DEF p, q, r, FourInARow
<1> HIDE DEF e, t, ping, pong
<1>3. <<u \o e, t>> \in R
  BY <1>1, JointSides
<1>4. <<u \o e \o ping, t \o pong>> \in R
  BY <1>1, <1>3 DEF Joint
<1> QED BY <1>2, <1>4 DEF t, ping, pong

\* run_op_lat, but for what its origin does last.
LEMMA RunOpLatJoint ==
    ASSUME NEW R, NEW y \in SyncKinds, NEW b, Pieces(R, y, b)
    PROVE  BothSides(R, y, RunOpLat(y, 0, 1, OpPtr(b, 1)),
                      RunOpLat(y, 1, 0, OpPtr(b, 0)))
<1> DEFINE op == OpPtr(b, 1)
           S == [k \in 1 .. Len(Iterations) |->
                    StartOnce(Iterations[k]) \o OpPreSync(y) \o op \o OpPostSync(y) \o Ping(y, 1)]
           t == NonOpPreSync(y) \o NonOpPostSync(y, 0) \o Pong(y, OpPtr(b, 0))
           T == [k \in 1 .. Len(Iterations) |-> t]
           x == LoopLock(y) \o FlattenSeq(S) \o StopClock \o Sample
<1>0. Joint(R) /\ Simple(R, y)
  BY DEF Pieces
<1>1. RunOpLat(y, 0, 1, op) = Barrier \o (x \o LoopUnlock(y)) \o Barrier
  BY DEF RunOpLat, ForEach
<1>2. RunOpLat(y, 1, 0, OpPtr(b, 0)) = Barrier \o FlattenSeq(T) \o Barrier
  <2>1. Times(Skip + Iters, t) = FlattenSeq(T)
    BY IterationsAre DEF Times, Turns
  <2>2. RunOpLat(y, 1, 0, OpPtr(b, 0)) = Barrier \o Times(Skip + Iters, t) \o Barrier
    BY DEF RunOpLat, ForEach
  <2> QED BY <2>1, <2>2
<1>3. /\ IsLoop(S, Len(Iterations)) /\ IsLoop(T, Len(Iterations))
      /\ \A k \in 1 .. Len(Iterations) :
            /\ S[k] = StartOnce(Iterations[k]) \o OpPreSync(y) \o op \o OpPostSync(y) \o Ping(y, 1)
            /\ T[k] = t
  BY DEF IsLoop
<1>6. ASSUME NEW k \in 1 .. Len(Iterations) PROVE <<S[k], T[k]>> \in R
  <2> DEFINE u == StartOnce(Iterations[k])
  <2>1. <<u, <<>> >> \in R
    BY <1>0, SimpleGiven
  <2>3. S[k] = u \o OpPreSync(y) \o op \o OpPostSync(y) \o Ping(y, 1) /\ T[k] = t
    BY <1>3
  <2> HIDE DEF u, S, T
  <2>4. <<u \o OpPreSync(y) \o op \o OpPostSync(y) \o Ping(y, 1), t>> \in R
    BY <2>1, RoundsJoint
  <2> QED BY <2>3, <2>4
<1> HIDE DEF op, S, t, T
<1>7. <<FlattenSeq(S), FlattenSeq(T)>> \in R
  BY <1>0, <1>3, <1>6, IterationsAre, TurnsType, JointLoop
<1> DEFINE f == FlattenSeq(S)
           g == FlattenSeq(T)
<1>8. <<x, g>> \in R
  <2>1. <<LoopLock(y), <<>> >> \in R /\ <<StopClock, <<>> >> \in R /\ <<Sample, <<>> >> \in R
    BY <1>0 DEF Simple
  <2>2. <<f, g>> \in R
    BY <1>7
  <2> HIDE DEF f, g
  <2>3. <<LoopLock(y) \o f, g>> \in R
    BY <1>0, <2>1, <2>2, JointSides
  <2>4. <<LoopLock(y) \o f \o StopClock, g>> \in R
    BY <1>0, <2>1, <2>3, JointSides
  <2>5. <<LoopLock(y) \o f \o StopClock \o Sample, g>> \in R
    BY <1>0, <2>1, <2>4, JointSides
  <2> QED BY <2>5 DEF f
<1> HIDE DEF x
<1> QED BY <1>1, <1>2, <1>8 DEF op, BothSides

\* run_op_bibw, whose two ranks do the same.
LEMMA RunOpBibwJoint ==
    ASSUME NEW R, NEW y \in Active, NEW b, Pieces(R, y, b), NEW n \in Nat
    PROVE  BothSides(R, y, RunOpBibw(y, 0, 1, OpPtr(b, 1), n),
                      RunOpBibw(y, 1, 0, OpPtr(b, 0), n))
<1> DEFINE op == OpPtr(b, 1)
           oq == OpPtr(b, 0)
           s == BibwPreSync(y) \o Times(n, op) \o BibwPostSync(y, 1)
           t == BibwPreSync(y) \o Times(n, oq) \o BibwPostSync(y, 0)
           S == [k \in 1 .. Len(Iterations) |-> StartOnce(Iterations[k]) \o s]
           T == [k \in 1 .. Len(Iterations) |-> t]
           f == FlattenSeq(S)
           g == FlattenSeq(T)
           x == f \o StopClock \o Sample
<1>0. Joint(R) /\ Simple(R, y) /\ <<s, t>> \in R
  BY DEF Pieces, EpochPairs
<1>1. /\ RunOpBibw(y, 0, 1, op, n) = Barrier \o x \o Barrier
      /\ RunOpBibw(y, 1, 0, oq, n) = Barrier \o g \o Barrier
  BY DEF RunOpBibw, ForEach
<1>2. /\ IsLoop(S, Len(Iterations)) /\ IsLoop(T, Len(Iterations))
      /\ \A k \in 1 .. Len(Iterations) : S[k] = StartOnce(Iterations[k]) \o s /\ T[k] = t
  BY DEF IsLoop
<1> HIDE DEF op, oq, s, S, t, T
<1>3. \A k \in 1 .. Len(Iterations) : <<S[k], T[k]>> \in R
  <2>1. \A i : <<StartOnce(i), <<>> >> \in R
    BY <1>0, SimpleGiven
  <2> QED BY <1>0, <1>2, <2>1, JointSides
<1>4. <<f, g>> \in R
  BY <1>0, <1>2, <1>3, IterationsAre, TurnsType, JointLoop
<1> HIDE DEF f, g
<1>5. <<x, g>> \in R
  <2>1. <<StopClock, <<>> >> \in R /\ <<Sample, <<>> >> \in R
    BY <1>0 DEF Simple
  <2>2. <<f \o StopClock, g>> \in R
    BY <1>0, <1>4, <2>1, JointSides
  <2> QED BY <1>0, <2>1, <2>2, JointSides
<1> HIDE DEF x
<1>6. x \o LoopUnlock(y) = x
  <2>1. LoopUnlock(y) = <<>>
    BY DEF LoopUnlock, Given, Active, Flushing
  <2>2. x \in Seq(Calls)
    BY <1>0, <1>5 DEF Joint
  <2> QED BY <2>1, <2>2, ConcatEmptySeq
<1> QED BY <1>1, <1>5, <1>6 DEF op, oq, BothSides

\* run_op_acc, but for what its origin does last.
LEMMA RunOpAccJoint ==
    ASSUME NEW R, NEW y \in SyncKinds, NEW b, Pieces(R, y, b), NEW v \in BOOLEAN
    PROVE  BothSides(R, y, RunOpAcc(y, 0, 1, OpPtr(b, 1), v),
                      RunOpAcc(y, 1, 0, OpPtr(b, 0), v))
<1> DEFINE op == OpPtr(b, 1)
           S == [k \in 1 .. Len(Iterations) |->
                    StartOnce(Iterations[k]) \o OpPreSync(y) \o op \o OpPostSync(y) \o Ping(y, 1)]
           t == NonOpPreSync(y) \o NonOpPostSync(y, 0) \o Pong(y, OpPtr(b, 0))
           T == [k \in 1 .. Len(Iterations) |-> t]
           pre0 == Given(v, Barrier)
           pre1 == Given(v, Touch \o Barrier)
           post0 == Given(v, Sync \o Recv(1, "flag", ReplySize))
           post1 == Given(v, Sync \o Touch \o Send(0, "flag", ReplySize))
           f == FlattenSeq(S)
           g == FlattenSeq(T)
           x == LoopLock(y) \o pre0 \o f \o post0 \o StopClock \o Sample
           w == pre1 \o g \o post1
<1>0. Joint(R) /\ Simple(R, y)
  BY DEF Pieces
<1>1. RunOpAcc(y, 0, 1, op, v) = Barrier \o (x \o LoopUnlock(y)) \o Barrier
  BY DEF RunOpAcc, ForEach
<1>2. RunOpAcc(y, 1, 0, OpPtr(b, 0), v) = Barrier \o w \o Barrier
  <2>1. Times(Skip + Iters, t) = FlattenSeq(T)
    BY IterationsAre DEF Times, Turns
  <2>2. RunOpAcc(y, 1, 0, OpPtr(b, 0), v)
            = Barrier \o (pre1 \o Times(Skip + Iters, t) \o post1) \o Barrier
    BY DEF RunOpAcc, ForEach
  <2> QED BY <2>1, <2>2
<1>3. /\ IsLoop(S, Len(Iterations)) /\ IsLoop(T, Len(Iterations))
      /\ \A k \in 1 .. Len(Iterations) :
            /\ S[k] = StartOnce(Iterations[k]) \o OpPreSync(y) \o op \o OpPostSync(y) \o Ping(y, 1)
            /\ T[k] = t
  BY DEF IsLoop
<1>4. ASSUME NEW k \in 1 .. Len(Iterations) PROVE <<S[k], T[k]>> \in R
  <2> DEFINE u == StartOnce(Iterations[k])
  <2>1. <<u, <<>> >> \in R
    BY <1>0, SimpleGiven
  <2>3. S[k] = u \o OpPreSync(y) \o op \o OpPostSync(y) \o Ping(y, 1) /\ T[k] = t
    BY <1>3
  <2> HIDE DEF u, S, T
  <2>4. <<u \o OpPreSync(y) \o op \o OpPostSync(y) \o Ping(y, 1), t>> \in R
    BY <2>1, RoundsJoint
  <2> QED BY <2>3, <2>4
<1>5. <<pre0, pre1>> \in R /\ <<post0, post1>> \in R
  <2> DEFINE recv == Recv(1, "flag", ReplySize)
             send == Send(0, "flag", ReplySize)
  <2>0. <<Barrier, Barrier>> \in R /\ <<Sync, Sync>> \in R /\ << <<>>, Touch>> \in R /\ <<recv, send>> \in R
    BY <1>0 DEF Simple
  <2> HIDE DEF recv, send
  <2>1. <<Barrier, Touch \o Barrier>> \in R /\ <<Sync, Sync \o Touch>> \in R
    BY <1>0, <2>0, JointSides
  <2>2. <<Sync \o recv, Sync \o Touch \o send>> \in R
    BY <1>0, <2>0, <2>1 DEF Joint
  <2>3. <<Given(v, Barrier), Given(v, Touch \o Barrier)>> \in R
    BY <1>0, <2>1, JointTimes
  <2>4. <<Given(v, Sync \o recv), Given(v, Sync \o Touch \o send)>> \in R
    BY <1>0, <2>2, JointTimes
  <2> QED BY <2>3, <2>4 DEF recv, send
<1> HIDE DEF op, S, t, T, pre0, pre1, post0, post1
<1>6. <<f, g>> \in R
  BY <1>0, <1>3, <1>4, IterationsAre, TurnsType, JointLoop
<1>7. <<LoopLock(y), <<>> >> \in R /\ <<StopClock, <<>> >> \in R /\ <<Sample, <<>> >> \in R
  BY <1>0 DEF Simple
<1> HIDE DEF f, g
<1>8. <<x, w>> \in R
  <2>1. <<LoopLock(y) \o pre0, pre1>> \in R
    BY <1>0, <1>5, <1>7, JointSides
  <2>2. <<LoopLock(y) \o pre0 \o f, pre1 \o g>> \in R
    BY <1>0, <1>6, <2>1 DEF Joint
  <2>3. <<LoopLock(y) \o pre0 \o f \o post0, w>> \in R
    BY <1>0, <1>5, <2>2 DEF Joint
  <2> HIDE DEF w
  <2>4. <<LoopLock(y) \o pre0 \o f \o post0 \o StopClock, w>> \in R
    BY <1>0, <1>7, <2>3, JointSides
  <2> QED BY <1>0, <1>7, <2>4, JointSides
<1> HIDE DEF x, w
<1> QED BY <1>1, <1>2, <1>8 DEF op, BothSides

\* run_op_cas and run_op_fop, but for what their origin does last.
LEMMA RunOpCasJoint ==
    ASSUME NEW R, NEW y \in SyncKinds, NEW b, Pieces(R, y, b), NEW v \in BOOLEAN
    PROVE  BothSides(R, y, RunOpCas(y, 0, 1, OpPtr(b, 1), v),
                      RunOpCas(y, 1, 0, OpPtr(b, 0), v))
<1> DEFINE op == OpPtr(b, 1)
           pong == Pong(y, OpPtr(b, 0))
           prepare(i) == Given(v /\ Measured(i), Touch)
           S == [k \in 1 .. Len(Iterations) |->
                    StartOnce(Iterations[k]) \o prepare(Iterations[k]) \o OpPreSync(y) \o op
                      \o OpPostSync(y) \o Ping(y, 1)]
           T == [k \in 1 .. Len(Iterations) |->
                    prepare(Iterations[k]) \o NonOpPreSync(y) \o NonOpPostSync(y, 0) \o pong
                      \o prepare(Iterations[k])]
           f == FlattenSeq(S)
           g == FlattenSeq(T)
           x == LoopLock(y) \o f \o StopClock \o Sample
<1>0. Joint(R) /\ Simple(R, y)
  BY DEF Pieces
<1>1. /\ RunOpCas(y, 0, 1, op, v) = Barrier \o (x \o LoopUnlock(y)) \o Barrier
      /\ RunOpCas(y, 1, 0, OpPtr(b, 0), v) = Barrier \o g \o Barrier
  BY DEF RunOpCas, ForEach
<1>2. /\ IsLoop(S, Len(Iterations)) /\ IsLoop(T, Len(Iterations))
      /\ \A k \in 1 .. Len(Iterations) :
            /\ S[k] = StartOnce(Iterations[k]) \o prepare(Iterations[k]) \o OpPreSync(y) \o op
                        \o OpPostSync(y) \o Ping(y, 1)
            /\ T[k] = prepare(Iterations[k]) \o NonOpPreSync(y) \o NonOpPostSync(y, 0) \o pong
                        \o prepare(Iterations[k])
  BY DEF IsLoop
<1>3. ASSUME NEW k \in 1 .. Len(Iterations) PROVE <<S[k], T[k]>> \in R
  <2> DEFINE u == StartOnce(Iterations[k])
             z == prepare(Iterations[k])
             e == u \o z \o OpPreSync(y) \o op \o OpPostSync(y) \o Ping(y, 1)
             h == NonOpPreSync(y) \o NonOpPostSync(y, 0) \o pong
  <2>1. <<u, <<>> >> \in R /\ <<z, <<>> >> \in R /\ << <<>>, z>> \in R
    BY <1>0, SimpleGiven
  <2>2. S[k] = e /\ T[k] = z \o NonOpPreSync(y) \o NonOpPostSync(y, 0) \o pong \o z
    BY <1>2
  <2> HIDE DEF u, z, S, T
  <2>3. <<u \o z, <<>> >> \in R
    BY <1>0, <2>1, JointSides
  <2>4. <<e, h>> \in R
    BY <2>3, RoundsJoint
  <2>5. z \o NonOpPreSync(y) \o NonOpPostSync(y, 0) \o pong = z \o h
    <3>1. z \in Seq(Calls)
      BY <1>0, <2>1 DEF Joint
    <3>2. NonOpPreSync(y) \in Seq(Calls) /\ NonOpPostSync(y, 0) \in Seq(Calls)
      BY EpochsTyped
    <3>3. pong \in Seq(Calls)
      BY <1>0 DEF Pieces, EpochPairs, Joint
    <3> DEFINE i == NonOpPreSync(y)
               j == NonOpPostSync(y, 0)
    <3>4. i \in Seq(Calls) /\ j \in Seq(Calls)
      BY <3>2
    <3> HIDE DEF pong, i, j
    <3>5. FourInARow(z, i, j, pong)
      BY <3>1, <3>3, <3>4, InARow
    <3> QED BY <3>5 DEF i, j, FourInARow
  <2> HIDE DEF e, h
  <2>6. <<e, z \o h>> \in R
    BY <1>0, <2>1, <2>4, JointSides
  <2>7. <<e, z \o h \o z>> \in R
    BY <1>0, <2>1, <2>6, JointSides
  <2> QED BY <2>2, <2>5, <2>7
<1> HIDE DEF op, pong, prepare, S, T
<1>4. <<f, g>> \in R
  BY <1>0, <1>2, <1>3, IterationsAre, TurnsType, JointLoop
<1> HIDE DEF f, g
<1>5. <<x, g>> \in R
  <2>1. <<LoopLock(y), <<>> >> \in R /\ <<StopClock, <<>> >> \in R /\ <<Sample, <<>> >> \in R
    BY <1>0 DEF Simple
  <2>3. <<LoopLock(y) \o f, g>> \in R
    BY <1>0, <1>4, <2>1, JointSides
  <2>4. <<LoopLock(y) \o f \o StopClock, g>> \in R
    BY <1>0, <2>1, <2>3, JointSides
  <2> QED BY <1>0, <2>1, <2>4, JointSides
<1> HIDE DEF x
<1> QED BY <1>1, <1>5 DEF op, BothSides

\* A whole program, if its origin's last calls are no exception.
LEMMA OneSidedJoint ==
    ASSUME NEW b \in OneSidedBenchmarks, NEW y \in ValidateSyncType(b), NEW n \in Nat,
           NEW v \in BOOLEAN, NEW R, Pieces(R, y, b),
           NEW Q, Joint(Q), <<Barrier, Barrier>> \in Q, <<Sync, Sync>> \in Q,
           \A x, t : <<x, t>> \in R => <<x \o LoopUnlock(y), t>> \in Q
    PROVE  <<OneSidedProgram(b, y, 0, n, v), OneSidedProgram(b, y, 1, n, v)>> \in Q
<1> DEFINE s == OneSidedExchange(b, y, 0, n, v)
           z == OneSidedExchange(b, y, 1, n, v)
<1>1. y \in SyncKinds /\ (b = "osu_put_bibw" => y \in Active)
  BY DEF ValidateSyncType, SyncKinds
<1>2. BothSides(R, y, s, z)
  <2>0. 1 - 0 = 1 /\ 1 - 1 = 0
    OBVIOUS
  <2>1. CASE b \in {"osu_put_bw", "osu_get_bw"}
    <3>1. s = RunOpBw(y, 0, 1, OpPtr(b, 1), n) /\ z = RunOpBw(y, 1, 0, OpPtr(b, 0), n)
      BY <2>0, <2>1 DEF OneSidedExchange, OneSidedBandwidth, OneSidedLatency
    <3>3. BothSides(R, y, RunOpBw(y, 0, 1, OpPtr(b, 1), n),
                      RunOpBw(y, 1, 0, OpPtr(b, 0), n))
      BY <1>1, RunOpBwJoint
    <3> HIDE DEF s, z
    <3> QED BY <3>1, <3>3
  <2>2. CASE b = "osu_put_bibw"
    <3>1. s = RunOpBibw(y, 0, 1, OpPtr(b, 1), n) /\ z = RunOpBibw(y, 1, 0, OpPtr(b, 0), n)
      BY <2>0, <2>2 DEF OneSidedExchange, OneSidedBandwidth, OneSidedLatency
    <3>2. y \in Active
      BY <1>1, <2>2
    <3>3. BothSides(R, y, RunOpBibw(y, 0, 1, OpPtr(b, 1), n),
                      RunOpBibw(y, 1, 0, OpPtr(b, 0), n))
      BY <3>2, RunOpBibwJoint
    <3> HIDE DEF s, z
    <3> QED BY <3>1, <3>3
  <2>3. CASE b \in {"osu_put_latency", "osu_get_latency", "osu_get_acc_latency"}
    <3>1. s = RunOpLat(y, 0, 1, OpPtr(b, 1)) /\ z = RunOpLat(y, 1, 0, OpPtr(b, 0))
      BY <2>0, <2>3 DEF OneSidedExchange, OneSidedBandwidth, OneSidedLatency, RunOpGetAcc
    <3>3. BothSides(R, y, RunOpLat(y, 0, 1, OpPtr(b, 1)),
                      RunOpLat(y, 1, 0, OpPtr(b, 0)))
      BY <1>1, RunOpLatJoint
    <3> HIDE DEF s, z
    <3> QED BY <3>1, <3>3
  <2>4. CASE b = "osu_acc_latency"
    <3>1. s = RunOpAcc(y, 0, 1, OpPtr(b, 1), v) /\ z = RunOpAcc(y, 1, 0, OpPtr(b, 0), v)
      BY <2>0, <2>4 DEF OneSidedExchange, OneSidedBandwidth, OneSidedLatency
    <3>3. BothSides(R, y, RunOpAcc(y, 0, 1, OpPtr(b, 1), v),
                      RunOpAcc(y, 1, 0, OpPtr(b, 0), v))
      BY <1>1, RunOpAccJoint
    <3> HIDE DEF s, z
    <3> QED BY <3>1, <3>3
  <2>5. CASE b \in {"osu_cas_latency", "osu_fop_latency"}
    <3>1. s = RunOpCas(y, 0, 1, OpPtr(b, 1), v) /\ z = RunOpCas(y, 1, 0, OpPtr(b, 0), v)
      BY <2>0, <2>5 DEF OneSidedExchange, OneSidedBandwidth, OneSidedLatency, RunOpFop
    <3>3. BothSides(R, y, RunOpCas(y, 0, 1, OpPtr(b, 1), v),
                      RunOpCas(y, 1, 0, OpPtr(b, 0), v))
      BY <1>1, RunOpCasJoint
    <3> HIDE DEF s, z
    <3> QED BY <3>1, <3>3
  <2> QED BY <2>1, <2>2, <2>3, <2>4, <2>5
          DEF OneSidedBenchmarks, OneSidedBandwidth, OneSidedLatency, OneSidedAtomics
<1>3. OneSidedProgram(b, y, 0, n, v) = Times(Len(Sizes), Sync \o s \o Sync)
      /\ OneSidedProgram(b, y, 1, n, v) = Times(Len(Sizes), Sync \o z \o Sync)
  BY DEF OneSidedProgram, AllocateOneSidedMemory, FreeOneSidedMemory
<1> HIDE DEF s, z
<1>4. PICK x, t : /\ <<x, t>> \in R
                  /\ s = Barrier \o (x \o LoopUnlock(y)) \o Barrier /\ z = Barrier \o t \o Barrier
  BY <1>2 DEF BothSides
<1> DEFINE e == x \o LoopUnlock(y)
<1>5. <<e, t>> \in Q
  BY <1>4
<1>6. s = Barrier \o e \o Barrier /\ z = Barrier \o t \o Barrier
  BY <1>4
<1> HIDE DEF e
<1>7. <<Barrier \o e, Barrier \o t>> \in Q
  BY <1>5 DEF Joint
<1>8. <<s, z>> \in Q
  BY <1>6, <1>7 DEF Joint
<1>9. <<Sync \o s, Sync \o z>> \in Q
  BY <1>8 DEF Joint
<1>10. <<Sync \o s \o Sync, Sync \o z \o Sync>> \in Q
  BY <1>9 DEF Joint
<1> QED BY <1>3, <1>10, SizesAre, JointTimes

-----------------------------------------------------------------------------
(* Programs whose transfers are followed by a flush of all of them. *)

Straight(s) == s \in Seq(StraightCall)
Still(s) == s \in Seq(StraightCall \ TransferCalls)
Covered == Answered(StraightCall, TransferCalls, FlushCalls)
Covering(s) == s \in Covered /\ \E k \in 1 .. Len(s) : s[k] \in FlushCalls

\* Such calls, one after the other, conditional or repeated.
LEMMA StraightOn ==
    /\ Straight(<<>>) /\ Still(<<>>)
    /\ \A s, t : Straight(s) /\ Straight(t) => Straight(s \o t)
    /\ \A s, t : Still(s) /\ Still(t) => Still(s \o t)
    /\ \A c, s : (c => Straight(s)) => Straight(Given(c, s))
    /\ \A c, s : (c => Still(s)) => Still(Given(c, s))
    /\ \A n \in Nat : \A s : Straight(s) => Straight(Times(n, s))
    /\ \A n \in Nat : \A s : Still(s) => Still(Times(n, s))
BY Within0 DEF Straight, Still

\* A loop of such calls.
LEMMA StraightLoop ==
    ASSUME NEW n \in Nat, NEW ss, IsLoop(ss, n)
    PROVE  /\ (\A k \in 1 .. n : Straight(ss[k])) => Straight(FlattenSeq(ss))
           /\ (\A k \in 1 .. n : Still(ss[k])) => Still(FlattenSeq(ss))
BY LoopWithin DEF Straight, Still

\* What has no transfers needs no flush.
LEMMA StillIs == \A s : Still(s) => Straight(s) /\ s \in Covered
<1>1. StraightCall \ TransferCalls \subseteq StraightCall
  OBVIOUS
<1>2. \A s : Still(s) => s \in Covered
  BY AnsweredOn DEF Still, Covered
<1> QED BY <1>1, <1>2, AnsweredOn DEF Straight, Covered

\* What ends with a flush of everything, but for calls that are no transfers.
LEMMA CoveringOn ==
    /\ \A s, t : Straight(s) /\ Covering(t) => Covering(s \o t)
    /\ \A s, t : Covering(s) /\ Still(t) => Covering(s \o t)
<1>1. ASSUME NEW s, NEW t, Straight(s), Straight(t), t \in Covered,
             (\E k \in 1 .. Len(t) : t[k] \in FlushCalls)
               \/ (s \in Covered /\ \E k \in 1 .. Len(s) : s[k] \in FlushCalls)
      PROVE  Covering(s \o t)
  <2>1. s \o t \in Covered
    BY <1>1, AnsweredOn DEF Straight, Covered
  <2> DEFINE m == Len(s)
             n == Len(t)
             u == s \o t
  <2>2. /\ m \in Nat /\ n \in Nat /\ Len(u) = m + n
        /\ \A k \in 1 .. m : u[k] = s[k]
        /\ \A k \in 1 .. n : u[m + k] = t[k]
    BY <1>1 DEF Straight
  <2> HIDE DEF u, m, n
  <2>3. CASE \E k \in 1 .. Len(t) : t[k] \in FlushCalls
    <3>1. PICK k \in 1 .. n : t[k] \in FlushCalls
      BY <2>3 DEF n
    <3>2. m + k \in 1 .. Len(u) /\ u[m + k] \in FlushCalls
      BY <2>2, <3>1
    <3> QED BY <2>1, <3>2 DEF Covering, u
  <2>4. CASE \E k \in 1 .. Len(s) : s[k] \in FlushCalls
    <3>1. PICK k \in 1 .. m : s[k] \in FlushCalls
      BY <2>4 DEF m
    <3>2. k \in 1 .. Len(u) /\ u[k] \in FlushCalls
      BY <2>2, <3>1
    <3> QED BY <2>1, <3>2 DEF Covering, u
  <2> QED BY <1>1, <2>3, <2>4
<1>2. \A s : s \in Covered => Straight(s)
  BY AnsweredOn DEF Covered, Straight
<1> QED BY <1>1, <1>2, StillIs DEF Covering

\* One call that is no transfer.
LEMMA StillOne ==
    ASSUME NEW c \in Calls, c.op \notin {"break", "elect", "meet", "rma", "isend", "irecv"}
    PROVE  Still(<<c>>)
<1>1. c \in StraightCall \ TransferCalls
  BY DEF StraightCall, TransferCalls
<1> QED BY <1>1 DEF Still

\* Such a call without arguments.
LEMMA StillNamed ==
    \A o \in {"leave", "start", "stop", "sample", "post", "touch"} : Still(<<[op |-> o]>>)
<1> SUFFICES ASSUME NEW o \in {"leave", "start", "stop", "sample", "post", "touch"}
             PROVE  Still(<<[op |-> o]>>)
  OBVIOUS
<1> DEFINE c == [op |-> o]
<1>1. c \in Calls /\ c.op = o
  BY DEF Calls, Plain
<1> HIDE DEF c
<1>2. Still(<<c>>)
  BY <1>1, StillOne
<1> QED BY <1>2 DEF c

\* The pieces of the programs that have to do with the own rank alone.
LEMMA StillPieces ==
    /\ Still(Leave) /\ Still(StartClock) /\ Still(StopClock) /\ Still(Sample)
    /\ Still(Post) /\ Still(Touch)
    /\ \A p \in Nat : Still(Await(p))
    /\ \A i : Still(StartOnce(i))
    /\ Still(Flush("all")) /\ Still(Flush("fetched"))
    /\ \A k \in {"lock", "start"} : Still(OpenEpoch(k)) /\ Still(CloseEpoch(k))
<1>1. /\ Still(Leave) /\ Still(StartClock) /\ Still(StopClock) /\ Still(Sample)
      /\ Still(Post) /\ Still(Touch)
  BY StillNamed DEF Leave, StartClock, StopClock, Sample, Post, Touch
<1>2. ASSUME NEW w \in {"all", "fetched"} PROVE Still(Flush(w))
  <2> DEFINE c == [op |-> "flush", which |-> w]
  <2>1. c \in Calls /\ c.op = "flush"
    BY DEF Calls
  <2> HIDE DEF c
  <2>2. Still(<<c>>)
    BY <2>1, StillOne
  <2> QED BY <2>2 DEF Flush, c
<1>3. ASSUME NEW o \in {"open", "close"}, NEW k \in {"lock", "start"}
      PROVE  Still(<<[op |-> o, kind |-> k]>>)
  <2> DEFINE c == [op |-> o, kind |-> k]
  <2>1. c \in Calls /\ c.op = o
    BY DEF Calls
  <2> HIDE DEF c
  <2>2. Still(<<c>>)
    BY <2>1, StillOne
  <2> QED BY <2>2 DEF c
<1>4. ASSUME NEW k \in {"lock", "start"} PROVE Still(OpenEpoch(k)) /\ Still(CloseEpoch(k))
  <2>1. Still(<<[op |-> "open", kind |-> k]>>) /\ Still(<<[op |-> "close", kind |-> k]>>)
    BY <1>3
  <2> QED BY <1>2, <2>1, StraightOn DEF OpenEpoch, CloseEpoch
<1>5. ASSUME NEW p \in Nat PROVE Still(Await(p))
  <2> DEFINE c == [op |-> "await", peer |-> p]
  <2>1. c \in Calls /\ c.op = "await"
    BY DEF Calls
  <2> HIDE DEF c
  <2>2. Still(<<c>>)
    BY <2>1, StillOne
  <2> QED BY <2>2 DEF Await, c
<1>6. \A i : Still(StartOnce(i))
  BY <1>1, StraightOn DEF StartOnce
<1> QED BY <1>1, <1>2, <1>4, <1>5, <1>6

\* The collective calls.
LEMMA StillCollectives ==
    /\ \A k \in CollectiveKinds : \A f \in Forms : \A d \in SUBSET Nat :
          Still(Enter(k, 0, d, f) \o Leave)
    /\ Still(Barrier) /\ Still(Sync) /\ Still(Fence)
<1>1. ASSUME NEW k \in CollectiveKinds, NEW f \in Forms, NEW d \in SUBSET Nat
      PROVE  Still(Enter(k, 0, d, f) \o Leave)
  <2> DEFINE c == [op |-> "enter", kind |-> k, root |-> 0, data |-> d, form |-> f]
  <2>1. c \in Calls /\ c.op = "enter"
    BY DEF Calls
  <2> HIDE DEF c
  <2>2. Still(<<c>>)
    BY <2>1, StillOne
  <2>3. Still(Enter(k, 0, d, f))
    BY <2>2 DEF Enter, c
  <2> QED BY <2>3, StillPieces, StraightOn
<1>2. {"barrier", "sync", "fence"} \subseteq CollectiveKinds /\ "plain" \in Forms /\ {} \in SUBSET Nat
  BY DEF CollectiveKinds, Forms
<1> QED BY <1>1, <1>2 DEF Barrier, Sync, Fence

\* The messages that tell an outcome.
LEMMA StillReplies == Still(Recv(1, "flag", ReplySize)) /\ Still(Send(0, "flag", ReplySize))
<1>1. ASSUME NEW o \in {"isend", "irecv"}, NEW p \in {0, 1}
      PROVE  Still(<<[op |-> o, peer |-> p, tag |-> "flag", size |-> ReplySize]>>)
  <2> DEFINE c == [op |-> o, peer |-> p, tag |-> "flag", size |-> ReplySize]
  <2>1. c \in Calls /\ c.op = o /\ c.peer = p
    BY DEF Calls, Tags, ReplySize
  <2> HIDE DEF c
  <2>2. c \in StraightCall \ TransferCalls
    BY <2>1 DEF StraightCall, TransferCalls
  <2> QED BY <2>2 DEF Still, c
<1>2. ASSUME NEW k \in {"isend", "irecv"} PROVE Still(<<[op |-> "wait", kind |-> k]>>)
  <2> DEFINE c == [op |-> "wait", kind |-> k]
  <2>1. c \in Calls /\ c.op = "wait"
    BY DEF Calls
  <2> HIDE DEF c
  <2>2. Still(<<c>>)
    BY <2>1, StillOne
  <2> QED BY <2>2 DEF c
<1> QED BY <1>1, <1>2, StraightOn DEF Recv, Send, IRecv, ISend, Wait

\* The transfers.
LEMMA StraightTransfers ==
    /\ \A p \in Nat : \A f, w \in BOOLEAN : Straight(RmaWithin(p, f, w)) /\ Straight(Rma(p, f))
    /\ \A b : \A p \in Nat : Straight(OpPtr(b, p))
<1>1. ASSUME NEW p \in Nat, NEW f \in BOOLEAN, NEW w \in BOOLEAN PROVE Straight(RmaWithin(p, f, w))
  <2> DEFINE c == [op |-> "rma", peer |-> p, fetch |-> f, within |-> w]
  <2>1. c \in Calls /\ c.op = "rma"
    BY DEF Calls
  <2> HIDE DEF c
  <2>2. c \in StraightCall
    BY <2>1 DEF StraightCall
  <2> QED BY <2>2 DEF Straight, RmaWithin, c
<1>2. ASSUME NEW p \in Nat, NEW f \in BOOLEAN PROVE Straight(Rma(p, f))
  BY <1>1 DEF Rma
<1>3. ASSUME NEW b, NEW p \in Nat PROVE Straight(OpPtr(b, p))
  <2> DEFINE f == b \notin {"osu_put_bw", "osu_put_bibw", "osu_put_latency", "osu_acc_latency"}
  <2>1. OpPtr(b, p) = Rma(p, f) /\ f \in BOOLEAN
    BY DEF OpPtr
  <2> HIDE DEF f
  <2> QED BY <1>2, <2>1
<1> QED BY <1>1, <1>2, <1>3

\* What flushes everything.
LEMMA Flushes == Covering(Flush("all")) /\ Covering(CloseEpoch("lock"))
<1> DEFINE c == [op |-> "flush", which |-> "all"]
           e == [op |-> "close", kind |-> "lock"]
<1>1. Covering(Flush("all"))
  <2>1. Flush("all") = <<c>>
    BY DEF Flush
  <2>2. c \in FlushCalls
    BY DEF FlushCalls, Calls
  <2>3. 1 \in 1 .. Len(<<c>>) /\ <<c>>[1] = c
    OBVIOUS
  <2> HIDE DEF c
  <2> QED BY <2>1, <2>2, <2>3, StillPieces, StillIs DEF Covering
<1>2. CloseEpoch("lock") = Flush("all") \o <<e>>
  BY DEF CloseEpoch
<1>3. Still(<<e>>)
  <2>1. e \in Calls /\ e.op = "close"
    BY DEF Calls
  <2> HIDE DEF e
  <2> QED BY <2>1, StillOne
<1> QED BY <1>1, <1>2, <1>3, CoveringOn

\* The passive epochs of the one-sided benchmarks: all that rank 0 transfers is
\* flushed, and rank 1 transfers nothing.
LEMMA PassiveCovered ==
    ASSUME NEW b \in OneSidedBenchmarks, NEW y \in ValidateSyncType(b) \ Active, NEW n \in Nat,
           NEW v \in BOOLEAN
    PROVE  OneSidedProgram(b, y, 0, n, v) \in Covered /\ Still(OneSidedProgram(b, y, 1, n, v))
<1> DEFINE L == IF y \in Flushing THEN Seq(StraightCall) ELSE Covered
           M == Seq(StraightCall \ TransferCalls)
           R == L \X M
           Q == Covered \X M
<1>0. y \in Locking \cup Flushing /\ y \notin {"pscw", "fence"}
  BY DEF ValidateSyncType, Active
<1>1. /\ Joint(R) /\ Joint(Q)
      /\ \A s : Still(s) <=> s \in M
      /\ \A s : Still(s) => s \in L
  <2>1. StraightCall \subseteq Calls
    BY DEF StraightCall
  <2>2. /\ L \subseteq Seq(StraightCall) /\ <<>> \in L /\ \A s, t \in L : s \o t \in L
        /\ Covered \subseteq Seq(StraightCall) /\ <<>> \in Covered
        /\ \A s, t \in Covered : s \o t \in Covered
    <3>1. <<>> \in Seq(StraightCall) /\ \A s, t \in Seq(StraightCall) : s \o t \in Seq(StraightCall)
      BY Within0
    <3>2. /\ Covered \subseteq Seq(StraightCall) /\ <<>> \in Covered
          /\ \A s, t \in Covered : s \o t \in Covered
      BY AnsweredOn DEF Covered
    <3> HIDE DEF M
    <3> QED BY <3>1, <3>2
  <2>3. M \subseteq Seq(Calls) /\ <<>> \in M /\ \A s, t \in M : s \o t \in M
    <3>1. StraightCall \ TransferCalls \subseteq Calls
      BY <2>1
    <3> QED BY <3>1, Within0
  <2>4. Seq(StraightCall) \subseteq Seq(Calls)
    BY <2>1
  <2>5. (\A s : Still(s) <=> s \in M) /\ \A s : Still(s) => s \in L
    BY StillIs DEF Still, Straight
  <2> HIDE DEF L, M
  <2>6. L \subseteq Seq(Calls) /\ Covered \subseteq Seq(Calls)
    BY <2>2, <2>4
  <2> QED BY <2>2, <2>3, <2>5, <2>6, JointProduct
<1>2. Simple(R, y)
  <2>1. \A u \in {StartClock, StopClock, Sample, Touch, LoopLock(y)} : Still(u)
    BY StillPieces, StraightOn DEF LoopLock
  <2>2. /\ Still(<<>>) /\ Still(Barrier) /\ Still(Sync) /\ Still(Touch)
        /\ Still(Recv(1, "flag", ReplySize)) /\ Still(Send(0, "flag", ReplySize))
    BY StillPieces, StraightOn, StillCollectives, StillReplies
  <2> HIDE DEF L, M
  <2> QED BY <1>1, <2>1, <2>2 DEF Simple
<1>3. EpochPairs(R, y, b)
  <2>1. /\ NonOpPreSync(y) = <<>> \o <<>> /\ NonOpPostSync(y, 0) = <<>> \o <<>>
        /\ Ping(y, 1) = <<>> \o <<>> /\ Pong(y, OpPtr(b, 0)) = <<>> \o <<>>
    BY <1>0 DEF NonOpPreSync, NonOpPostSync, Ping, Pong, Given
  <2>2. ASSUME NEW s, Straight(s) PROVE OpPreSync(y) \o s \o OpPostSync(y) \in L
    <3>1. CASE y \in Locking
      <4>1. OpPreSync(y) = OpenEpoch("lock") /\ OpPostSync(y) = CloseEpoch("lock")
        BY <1>0, <3>1 DEF OpPreSync, OpPostSync, Locking, Flushing
      <4>2. Straight(OpenEpoch("lock") \o s)
        BY <2>2, StillPieces, StillIs, StraightOn
      <4>3. OpenEpoch("lock") \o s \o CloseEpoch("lock") \in Covered
        BY <4>2, Flushes, CoveringOn DEF Covering
      <4>4. Covered \subseteq Seq(StraightCall)
        BY AnsweredOn DEF Covered
      <4> QED BY <4>1, <4>3, <4>4
    <3>2. CASE y \in Flushing
      <4>1. Still(OpPreSync(y)) /\ Still(OpPostSync(y))
        BY <3>2, StillPieces, StraightOn DEF OpPreSync, OpPostSync, Flushing, Locking
      <4>2. Straight(OpPreSync(y) \o s \o OpPostSync(y))
        BY <2>2, <4>1, StillIs, StraightOn
      <4> QED BY <3>2, <4>2 DEF Straight
    <3> QED BY <1>0, <3>1, <3>2
  <2>3. \A n1 \in Nat : Straight(Times(n1, OpPtr(b, 1))) /\ Straight(OpPtr(b, 1))
    BY StraightTransfers, StraightOn
  <2>4. Still(<<>>) /\ Still(<<>> \o <<>>) /\ Still(<<>> \o <<>> \o (<<>> \o <<>>))
    BY StraightOn
  <2>5. y \notin Active
    OBVIOUS
  <2> HIDE DEF L, M
  <2>6. \A n1 \in Nat : OpPreSync(y) \o Times(n1, OpPtr(b, 1)) \o OpPostSync(y) \in L
    BY <2>2, <2>3
  <2>7. OpPreSync(y) \o OpPtr(b, 1) \o OpPostSync(y) \in L
    BY <2>2, <2>3, SizesAre
  <2>8. NonOpPreSync(y) \o NonOpPostSync(y, 0) \in M /\ Ping(y, 1) \in L /\ Pong(y, OpPtr(b, 0)) \in M
    BY <1>1, <2>1, <2>4
  <2> QED BY <2>5, <2>6, <2>7, <2>8 DEF EpochPairs
<1>4. Pieces(R, y, b)
  BY <1>1, <1>2, <1>3 DEF Pieces
<1>5. \A x, t : <<x, t>> \in R => <<x \o LoopUnlock(y), t>> \in Q
  <2> SUFFICES ASSUME NEW x \in L PROVE x \o LoopUnlock(y) \in Covered
    OBVIOUS
  <2>1. CASE y \in Flushing
    <3>1. LoopUnlock(y) = CloseEpoch("lock")
      BY <2>1 DEF LoopUnlock, Given
    <3> QED BY <2>1, <3>1, Flushes, CoveringOn DEF Covering, Straight
  <2>2. CASE y \notin Flushing
    <3>1. LoopUnlock(y) = <<>> /\ x \in Covered
      BY <2>2 DEF LoopUnlock, Given
    <3> QED BY <3>1, AnsweredOn DEF Covered
  <2> QED BY <2>1, <2>2
<1>6. <<Barrier, Barrier>> \in Q /\ <<Sync, Sync>> \in Q
  BY <1>1, StillCollectives, StillIs
<1> HIDE DEF R, Q
<1>7. <<OneSidedProgram(b, y, 0, n, v), OneSidedProgram(b, y, 1, n, v)>> \in Q
  BY <1>1, <1>4, <1>5, <1>6, OneSidedJoint
<1> QED BY <1>1, <1>7 DEF Q

-----------------------------------------------------------------------------
\* The calls of the PGAS benchmarks.
LEMMA SharedCovered ==
    /\ \A p \in Nat :
          /\ Straight(Rma(p, TRUE)) /\ Straight(Rma(p, FALSE)) /\ Straight(PutMem(p))
          /\ Straight(PutMemNbi(p)) /\ Straight(GetMem(p)) /\ Straight(GetMemNbi(p))
    /\ Still(Quiet) /\ Still(AsyncWait) /\ Still(BarrierAll) /\ Still(UpcBarrier)
    /\ Covering(AsyncWait) /\ Covering(BarrierAll) /\ Covering(UpcBarrier)
<1>1. ASSUME NEW p \in Nat PROVE Straight(Rma(p, TRUE)) /\ Straight(Rma(p, FALSE))
  <2> DEFINE yes == TRUE
             no == FALSE
  <2>1. yes \in BOOLEAN /\ no \in BOOLEAN
    OBVIOUS
  <2> HIDE DEF yes, no
  <2>2. Straight(Rma(p, yes)) /\ Straight(Rma(p, no))
    BY <2>1, StraightTransfers
  <2> QED BY <2>2 DEF yes, no
<1>2. Straight(Flush("fetched")) /\ Still(Sync) /\ Still(Flush("all"))
  BY StillPieces, StillIs, StillCollectives
<1>3. ASSUME NEW p \in Nat
      PROVE  Straight(PutMem(p)) /\ Straight(PutMemNbi(p)) /\ Straight(GetMem(p)) /\ Straight(GetMemNbi(p))
  <2>1. Straight(Rma(p, TRUE) \o Flush("fetched"))
    BY <1>1, <1>2, StraightOn
  <2> QED BY <1>1, <2>1 DEF PutMem, PutMemNbi, GetMem, GetMemNbi
<1>4. Still(Flush("all") \o Sync) /\ Covering(Flush("all") \o Sync)
  BY <1>2, StraightOn, Flushes, CoveringOn
<1> QED BY <1>1, <1>2, <1>3, <1>4, Flushes DEF Quiet, AsyncWait, BarrierAll, UpcBarrier

\* A loop over straight calls is made of straight calls.
LEMMA StraightLoops ==
    ASSUME NEW call, Straight(call)
    PROVE  Straight(OshmLoop(call)) /\ Straight(InRepeatedIntervals(call))
<1>0. Len(Iterations) \in Nat
  BY IterationsAre, TurnsType
<1>1. /\ Straight(StartClock) /\ Straight(StopClock) /\ Straight(Sample)
      /\ (\A i : Straight(StartOnce(i))) /\ \A c : Straight(Given(c, Sample))
  BY StillPieces, StillIs, StraightOn
<1> DEFINE S == [k \in 1 .. Len(Iterations) |-> StartOnce(Iterations[k]) \o call]
           T == [k \in 1 .. Len(Iterations) |->
                    StartClock \o call \o StopClock \o Given(Measured(Iterations[k]), Sample)]
<1>2. OshmLoop(call) = FlattenSeq(S) \o StopClock \o Sample /\ InRepeatedIntervals(call) = FlattenSeq(T)
  BY DEF OshmLoop, InRepeatedIntervals, ForEach
<1>3. /\ IsLoop(S, Len(Iterations)) /\ IsLoop(T, Len(Iterations))
      /\ \A k \in 1 .. Len(Iterations) :
            /\ S[k] = StartOnce(Iterations[k]) \o call
            /\ T[k] = StartClock \o call \o StopClock \o Given(Measured(Iterations[k]), Sample)
  BY DEF IsLoop
<1> HIDE DEF S, T
<1>4. \A k \in 1 .. Len(Iterations) : Straight(S[k]) /\ Straight(T[k])
  BY <1>1, <1>3, StraightOn
<1>5. Straight(FlattenSeq(S)) /\ Straight(FlattenSeq(T))
  BY <1>0, <1>3, <1>4, StraightLoop
<1> QED BY <1>1, <1>2, <1>5, StraightOn

\* The put and get benchmarks in OpenSHMEM end with a barrier that completes all.
LEMMA OshmPt2ptCovered == ASSUME NEW b \in OshmPt2pt, NEW r PROVE PgasProgram(b, r) \in Covered
<1> DEFINE transfers == {PutMem(1), GetMem(1), PutMem(1) \o Quiet, PutMemNbi(1) \o Quiet,
                         GetMemNbi(1) \o Quiet}
           measures == {OshmLoop(call) : call \in transfers}
                          \cup {InRepeatedIntervals(PutMem(1) \o Quiet) \o InRepeatedIntervals(PutMemNbi(1) \o Quiet),
                                InRepeatedIntervals(GetMemNbi(1) \o Quiet) \o InRepeatedIntervals(GetMemNbi(1) \o Quiet)}
<1>1. \A call \in transfers : Straight(call)
  BY SharedCovered, StraightOn, StillIs
<1>2. \A m \in measures : Straight(m)
  <2>1. \A call \in transfers : Straight(OshmLoop(call)) /\ Straight(InRepeatedIntervals(call))
    BY <1>1, StraightLoops
  <2> QED BY <2>1, StraightOn
<1>3. \E m \in measures : \A x : PgasProgram(b, x) = OshmSizes(x, m)
  <2>1. CASE b = "osu_oshm_put_overlap"
    BY <2>1 DEF PgasProgram, OshmPutOverlap
  <2>2. CASE b = "osu_oshm_get_overlap"
    BY <2>2 DEF PgasProgram, OshmGetOverlap
  <2>3. CASE b \notin {"osu_oshm_put_overlap", "osu_oshm_get_overlap"}
    <3>1. \E call \in transfers : \A x : PgasProgram(b, x) = OshmSizes(x, OshmLoop(call))
      BY <2>3 DEF OshmPt2pt, PgasProgram, OshmPut, OshmPutNb, OshmGet, OshmGetNb, OshmPutBw,
              OshmPutNbBw, OshmGetBw, OshmGetNbBw
    <3> HIDE DEF transfers
    <3> QED BY <3>1
  <2> QED BY <2>1, <2>2, <2>3
<1> HIDE DEF measures
<1>4. PICK m \in measures : \A x : PgasProgram(b, x) = OshmSizes(x, m)
  BY <1>3
<1> DEFINE u == Given(r = 0, m)
<1>5. Straight(u) /\ Straight(Touch) /\ Straight(BarrierAll) /\ Len(Sizes) \in Nat
  BY <1>2, StraightOn, StillPieces, StillIs, SharedCovered, SizesAre
<1>6. PgasProgram(b, r) = Times(Len(Sizes), Touch \o BarrierAll \o u \o BarrierAll) \o BarrierAll \o BarrierAll
  BY <1>4 DEF OshmSizes
<1> HIDE DEF u
<1>7. Straight(Touch \o BarrierAll \o u \o BarrierAll)
  BY <1>5, StraightOn
<1>8. Straight(Times(Len(Sizes), Touch \o BarrierAll \o u \o BarrierAll) \o BarrierAll)
  BY <1>5, <1>7, StraightOn
<1> QED BY <1>6, <1>8, SharedCovered, CoveringOn DEF Covering

\* A rank of a put or get benchmark in UPC or UPC++ flushes at the end of each size.
LEMMA UpcTransfersCovered ==
    ASSUME NEW r, NEW barrier, Still(barrier), NEW call, Straight(call), NEW end, Straight(end),
           Covering(end) \/ Covering(barrier)
    PROVE  UpcTransfers(r, barrier, call, end) \in Covered
<1> DEFINE S == [k \in 1 .. Len(Iterations) |-> Given(Iterations[k] = Skip, barrier \o StartClock) \o call]
           f == FlattenSeq(S)
           s == f \o end \o barrier \o StopClock \o Sample
           u == Touch \o barrier \o s
           w == Touch \o barrier \o (barrier \o barrier)
<1>1. Still(StartClock) /\ Still(StopClock) /\ Still(Sample) /\ Still(Touch) /\ Straight(barrier)
  BY StillPieces, StillIs
<1>2. UpcTransfers(r, barrier, call, end) = Times(Len(Sizes), IF r = 0 THEN u ELSE w)
  BY DEF UpcTransfers, ForEach
<1>3. /\ IsLoop(S, Len(Iterations)) /\ Len(Iterations) \in Nat
      /\ \A k \in 1 .. Len(Iterations) : S[k] = Given(Iterations[k] = Skip, barrier \o StartClock) \o call
  BY IterationsAre, TurnsType DEF IsLoop
<1> HIDE DEF S
<1>4. Straight(f)
  <2>1. Straight(barrier \o StartClock)
    BY <1>1, StillIs, StraightOn
  <2>2. ASSUME NEW k \in 1 .. Len(Iterations) PROVE Straight(S[k])
    <3>1. Straight(Given(Iterations[k] = Skip, barrier \o StartClock))
      BY <2>1, StraightOn DEF Given
    <3> DEFINE first == Given(Iterations[k] = Skip, barrier \o StartClock)
    <3>2. S[k] = first \o call
      BY <1>3
    <3>3. Straight(first)
      BY <3>1
    <3> HIDE DEF first
    <3> QED BY <3>2, <3>3, StraightOn
  <2> QED BY <1>3, <2>2, StraightLoop
<1> HIDE DEF f
<1>5. Covering(f \o end \o barrier)
  <2>1. CASE Covering(end)
    BY <1>4, <2>1, CoveringOn
  <2>2. CASE Covering(barrier)
    <3>1. Straight(f \o end)
      BY <1>4, StraightOn
    <3> QED BY <2>2, <3>1, CoveringOn
  <2> QED BY <2>1, <2>2
<1>6. Covering(f \o end \o barrier \o StopClock)
  BY <1>1, <1>5, CoveringOn
<1>7. Covering(s)
  BY <1>1, <1>6, CoveringOn
<1> HIDE DEF s
<1>8. Straight(Touch \o barrier) /\ Still(w)
  BY <1>1, StillIs, StraightOn
<1>9. u \in Covered /\ w \in Covered
  BY <1>7, <1>8, CoveringOn, StillIs DEF Covering
<1> HIDE DEF u, w
<1> DEFINE t == IF r = 0 THEN u ELSE w
           ss == [k \in 1 .. Len(Sizes) |-> t]
<1>10. IsLoop(ss, Len(Sizes)) /\ Len(Sizes) \in Nat /\ \A k \in 1 .. Len(Sizes) : ss[k] \in Covered
  BY <1>9, SizesAre DEF IsLoop
<1>11. Times(Len(Sizes), t) = FlattenSeq(ss)
  BY DEF Times
<1> HIDE DEF ss
<1>12. /\ Covered \subseteq Seq(StraightCall) /\ <<>> \in Covered
       /\ \A x, z \in Covered : x \o z \in Covered
  BY AnsweredOn DEF Covered
<1>13. FlattenSeq(ss) \in Covered
  BY <1>10, <1>12, AgainAndAgain
<1> QED BY <1>2, <1>11, <1>13

\* So do their programs.
LEMMA UpcPt2ptCovered ==
    ASSUME NEW b \in UpcPt2pt \cup UpcxxPt2pt, NEW r
    PROVE  PgasProgram(b, r) \in Covered
<1>1. /\ Straight(Rma(1, TRUE)) /\ Straight(Rma(1, FALSE)) /\ Straight(<<>>) /\ Straight(AsyncWait)
      /\ Straight(Flush("all")) /\ Straight(Flush("fetched")) /\ Still(Sync)
      /\ Still(UpcBarrier) /\ Covering(UpcBarrier) /\ Covering(AsyncWait)
  BY SharedCovered, StraightOn, StillPieces, StillIs, StillCollectives
<1>2. CASE b \in UpcPt2pt
  <2> DEFINE transfers == {Rma(1, TRUE) \o Flush("fetched"), Rma(1, FALSE) \o Flush("all")}
  <2>1. \E call \in transfers : PgasProgram(b, r) = UpcTransfers(r, UpcBarrier, call, <<>>)
    BY <1>2 DEF UpcPt2pt, PgasProgram, UpcMemget, UpcMemput
  <2>2. PICK call \in transfers : PgasProgram(b, r) = UpcTransfers(r, UpcBarrier, call, <<>>)
    BY <2>1
  <2>3. Straight(call)
    BY <1>1, <2>2, StraightOn
  <2> QED BY <1>1, <2>2, <2>3, UpcTransfersCovered
<1>3. CASE b \in UpcxxPt2pt
  <2> DEFINE transfers == {Rma(1, TRUE), Rma(1, FALSE)}
  <2>1. \E call \in transfers :
            PgasProgram(b, r) = Sync \o Sync \o UpcTransfers(r, Sync, call, AsyncWait) \o Sync
    BY <1>3 DEF UpcxxPt2pt, PgasProgram, UpcxxAsyncCopyGet, UpcxxAsyncCopyPut
  <2>2. PICK call \in transfers :
            PgasProgram(b, r) = Sync \o Sync \o UpcTransfers(r, Sync, call, AsyncWait) \o Sync
    BY <2>1
  <2> DEFINE s == UpcTransfers(r, Sync, call, AsyncWait)
  <2>3. s \in Covered
    BY <1>1, <2>2, UpcTransfersCovered
  <2>4. Sync \o Sync \in Covered /\ Sync \in Covered
    BY <1>1, StraightOn, StillIs
  <2> HIDE DEF s
  <2>5. Sync \o Sync \o s \o Sync \in Covered
    BY <2>3, <2>4, AnsweredOn DEF Covered
  <2> QED BY <2>2, <2>5 DEF s
<1> QED BY <1>2, <1>3

\* Collective operations over a pSync array, or without one.
LEMMA StillForms ==
    /\ \A kind \in RootedKinds : \A form \in {"plain"} \cup PSyncArrays :
          \A data \in SUBSET Nat : Still(Enter(kind, 0, data, form) \o Leave)
    /\ \A psync \in PSyncArrays : Still(ToAll(psync))
<1>1. /\ RootedKinds \subseteq CollectiveKinds
      /\ {"plain"} \cup PSyncArrays \subseteq Forms
  BY DEF RootedKinds, CollectiveKinds, Forms
<1>2. \A kind \in RootedKinds : \A form \in {"plain"} \cup PSyncArrays :
        \A data \in SUBSET Nat : Still(Enter(kind, 0, data, form) \o Leave)
  BY <1>1, StillCollectives
<1>3. "all" \in RootedKinds /\ {} \in SUBSET Nat
  BY DEF RootedKinds
<1> QED BY <1>2, <1>3 DEF ToAll

\* The message rate and atomics benchmarks end with a barrier that completes all.
LEMMA OshmRateCovered ==
    ASSUME NEW b \in OshmRate, NEW r \in 0 .. 3
    PROVE  PgasProgram(b, r) \in Covered
<1> DEFINE c == NxtPe(r, 2)
<1>1. PgasPairs(b) = 2 /\ c \in Nat
  BY NxtPeType DEF PgasPairs
<1>2. /\ Straight(PutMem(c)) /\ Straight(PutMemNbi(c)) /\ Straight(GetMemNbi(c))
      /\ Straight(Rma(c, TRUE)) /\ Straight(Rma(c, FALSE)) /\ Straight(Flush("fetched"))
  BY <1>1, SharedCovered, StillPieces, StillIs
<1>3. /\ Straight(Touch) /\ Straight(BarrierAll) /\ Straight(Quiet) /\ Straight(StartClock)
      /\ Straight(StopClock) /\ Straight(Sample) /\ Len(Sizes) \in Nat /\ Iters \in Nat
      /\ Straight(ToAll("psync")) /\ Straight(ToAll("psync1")) /\ Straight(ToAll("psync2"))
  <2>1. {"psync", "psync1", "psync2"} \subseteq PSyncArrays
    BY DEF PSyncArrays
  <2> QED BY <2>1, StillPieces, StillIs, SharedCovered, SizesAre, TurnsType, StillForms
<1>4. CASE b = "osu_oshm_atomics"
  <2> DEFINE f == Fetching(r, 2)
             g == NotFetching(r, 2)
             put == Given(r < 2, PutMem(c))
  <2>1. PgasProgram(b, r)
            = BarrierAll \o Touch \o put \o f \o f \o g \o g \o f \o f \o g \o f
                  \o f \o f \o g \o g \o f \o f \o g \o f \o BarrierAll
    <3>1. PgasProgram(b, r) = OshmAtomics(r, 2)
      BY <1>1, <1>4 DEF PgasProgram
    <3> QED BY <3>1
        DEF OshmAtomics, BenchmarkFadd, BenchmarkFinc, BenchmarkAdd, BenchmarkInc, BenchmarkCswap,
       BenchmarkSwap, BenchmarkSet, BenchmarkFetch, BenchmarkFaddLonglong, BenchmarkFincLonglong,
       BenchmarkAddLonglong, BenchmarkIncLonglong, BenchmarkCswapLonglong, BenchmarkSwapLonglong,
       BenchmarkSetLonglong, BenchmarkFetchLonglong
  <2>2. ASSUME NEW call, Straight(call) PROVE Straight(AtomicTest(r, 2, call))
    <3>1. Straight(StartClock \o Times(Iters, call) \o StopClock \o Sample)
      BY <1>3, <2>2, StraightOn
    <3> DEFINE i == Given(r < 2, StartClock \o Times(Iters, call) \o StopClock \o Sample)
    <3>2. Straight(i)
      BY <3>1, StraightOn
    <3>3. AtomicTest(r, 2, call) = Touch \o BarrierAll \o i \o ToAll("psync1") \o ToAll("psync2")
      BY DEF AtomicTest
    <3> HIDE DEF i
    <3> QED BY <1>3, <3>2, <3>3, StraightOn
  <2>3. Straight(f) /\ Straight(g) /\ Straight(put)
    <3>1. Straight(Rma(c, TRUE) \o Flush("fetched"))
      BY <1>2, StraightOn
    <3>2. Straight(AtomicTest(r, 2, Rma(c, TRUE) \o Flush("fetched")))
          /\ Straight(AtomicTest(r, 2, Rma(c, FALSE)))
      BY <1>2, <2>2, <3>1
    <3> QED BY <1>2, <3>2, StraightOn DEF Fetching, NotFetching
  <2> HIDE DEF f, g, put
  <2>4. \A s : Straight(s) => Straight(s \o f \o f \o g \o g) /\ Straight(s \o f \o f \o g \o f)
    BY <2>3, StraightOn
  <2>5. Straight(BarrierAll \o Touch \o put \o f \o f \o g \o g \o f \o f \o g \o f)
    <3>1. Straight(BarrierAll \o Touch \o put)
      BY <1>3, <2>3, StraightOn
    <3>2. Straight(BarrierAll \o Touch \o put \o f \o f \o g \o g)
      BY <2>4, <3>1
    <3> QED BY <2>4, <3>2
  <2>6. Straight(BarrierAll \o Touch \o put \o f \o f \o g \o g \o f \o f \o g \o f
                     \o f \o f \o g \o g \o f \o f \o g \o f)
    <3>1. Straight(BarrierAll \o Touch \o put \o f \o f \o g \o g \o f \o f \o g \o f
                     \o f \o f \o g \o g)
      BY <2>4, <2>5
    <3> QED BY <2>4, <3>1
  <2>7. Covering(BarrierAll)
    BY SharedCovered
  <2> QED BY <2>1, <2>6, <2>7, CoveringOn DEF Covering
<1>5. CASE b # "osu_oshm_atomics"
  <2>1. \/ PgasProgram(b, r) = RateBenchmark(r, 2, PutMem(c))
        \/ PgasProgram(b, r) = RateBenchmark(r, 2, PutMemNbi(c))
        \/ PgasProgram(b, r) = RateBenchmark(r, 2, GetMemNbi(c))
    BY <1>1, <1>5 DEF OshmRate, PgasProgram, OshmPutMr, OshmPutMrNb, OshmGetMrNb
  <2>2. ASSUME NEW call, Straight(call) PROVE RateBenchmark(r, 2, call) \in Covered
    <3> DEFINE i == Given(r < 2, StartClock \o Times(Iters, call) \o Quiet \o StopClock \o Sample)
               g == Given(r < 2, PutMem(c))
               all == ToAll("psync")
               s == Touch \o BarrierAll \o i \o all
    <3>1. Straight(StartClock \o Times(Iters, call) \o Quiet \o StopClock \o Sample)
      BY <1>3, <2>2, StraightOn
    <3>2. Straight(i) /\ Straight(g) /\ Straight(all)
      BY <1>2, <1>3, <3>1, StraightOn
    <3>3. MessageRate(r, 2, call) \o ToAll("psync") = s
      BY DEF MessageRate
    <3>4. RateBenchmark(r, 2, call)
              = Touch \o g \o BarrierAll \o Times(Len(Sizes), s) \o BarrierAll
      BY <3>3 DEF RateBenchmark
    <3> HIDE DEF i, g, all
    <3>5. Straight(s)
      BY <1>3, <3>2, StraightOn
    <3> HIDE DEF s
    <3>6. Straight(Touch \o g \o BarrierAll \o Times(Len(Sizes), s))
      BY <1>3, <3>2, <3>5, StraightOn
    <3> QED BY <3>4, <3>6, SharedCovered, CoveringOn DEF Covering
  <2> QED BY <1>2, <2>1, <2>2
<1> QED BY <1>4, <1>5

-----------------------------------------------------------------------------
\* The loops of the collective benchmarks have no transfers.
LEMMA StillIntervals ==
    ASSUME NEW ss, IsLoop(ss, Len(Iterations)), NEW call, \A k \in 1 .. Len(Iterations) : Still(call[k]),
           NEW start, Still(start), NEW after, Still(after),
           \A k \in 1 .. Len(Iterations) :
              ss[k] = start \o call[k] \o StopClock \o Given(Measured(Iterations[k]), Sample) \o after
    PROVE  Still(FlattenSeq(ss))
<1>1. Still(StopClock) /\ \A k \in 1 .. Len(Iterations) : Still(Given(Measured(Iterations[k]), Sample))
  BY StillPieces, StraightOn
<1>2. \A k \in 1 .. Len(Iterations) : Still(ss[k])
  BY <1>1, StraightOn
<1>3. Len(Iterations) \in Nat
  BY IterationsAre, TurnsType
<1> QED BY <1>2, <1>3, StraightLoop

\* The iterations of a collective benchmark in OpenSHMEM.
LEMMA StillOshmIterations ==
    ASSUME NEW kind \in RootedKinds, NEW odd \in PSyncArrays, NEW even \in PSyncArrays,
           NEW between, Still(between)
    PROVE  Still(OshmIterations(kind, odd, even, between))
<1> DEFINE form(i) == InTurn(i, odd, even)
           c == [k \in 1 .. Len(Iterations) |-> OshmCall(kind, form(Iterations[k]))]
           ss == [k \in 1 .. Len(Iterations) |->
                     StartClock \o OshmCall(kind, form(Iterations[k])) \o StopClock
                       \o Given(Measured(Iterations[k]), Sample) \o between]
<1>1. OshmIterations(kind, odd, even, between) = FlattenSeq(ss)
  BY DEF OshmIterations, ForEach
<1>2. /\ IsLoop(ss, Len(Iterations)) /\ Still(StartClock)
      /\ \A k \in 1 .. Len(Iterations) :
            /\ c[k] = OshmCall(kind, form(Iterations[k]))
            /\ ss[k] = StartClock \o c[k] \o StopClock \o Given(Measured(Iterations[k]), Sample) \o between
  BY StillPieces DEF IsLoop
<1>3. ASSUME NEW k \in 1 .. Len(Iterations) PROVE Still(c[k])
  <2>1. form(Iterations[k]) \in {"plain"} \cup PSyncArrays
    BY DEF InTurn
  <2> HIDE DEF form, c
  <2> QED BY <1>2, <2>1, StillForms, AudiencesAre DEF OshmCall
<1> HIDE DEF ss, c, form
<1> QED BY <1>1, <1>2, <1>3, StillIntervals

\* The iterations of a collective benchmark in UPC.
LEMMA StillUpcIterations ==
    ASSUME NEW before, Still(before)
    PROVE  Still(UpcSizes(before)) /\ Still(UpcStatistics) /\ Still(InRepeatedIntervals(UpcCall))
<1> DEFINE c == [k \in 1 .. Len(Iterations) |-> UpcCall]
           ss == [k \in 1 .. Len(Iterations) |->
                     before \o StartClock \o UpcCall \o StopClock
                       \o Given(Measured(Iterations[k]), Sample) \o UpcBarrier]
           tt == [k \in 1 .. Len(Iterations) |->
                     StartClock \o UpcCall \o StopClock \o Given(Measured(Iterations[k]), Sample)]
           start == before \o StartClock
<1>1. UpcIterations(before) = FlattenSeq(ss) /\ InRepeatedIntervals(UpcCall) = FlattenSeq(tt)
  BY DEF UpcIterations, InRepeatedIntervals, ForEach
<1>2. Still(start) /\ Still(UpcBarrier) /\ Still(UpcCall) /\ Still(StartClock) /\ Still(StopClock)
      /\ \A x : Still(Given(x, Sample))
  <2>1. "all" \in RootedKinds /\ "plain" \in {"plain"} \cup PSyncArrays
    BY DEF RootedKinds
  <2>2. Still(UpcCall)
    BY <2>1, StillForms, AudiencesAre DEF UpcCall
  <2> QED BY <2>2, StillPieces, StraightOn, SharedCovered
<1>3. /\ IsLoop(ss, Len(Iterations)) /\ IsLoop(tt, Len(Iterations)) /\ Len(Iterations) \in Nat
      /\ \A k \in 1 .. Len(Iterations) :
            /\ c[k] = UpcCall
            /\ ss[k] = start \o c[k] \o StopClock \o Given(Measured(Iterations[k]), Sample) \o UpcBarrier
            /\ tt[k] = StartClock \o UpcCall \o StopClock \o Given(Measured(Iterations[k]), Sample)
  BY IterationsAre, TurnsType DEF IsLoop
<1> HIDE DEF ss, tt, c, start
<1>4. Still(UpcIterations(before))
  BY <1>1, <1>2, <1>3, StillIntervals
<1>5. Still(InRepeatedIntervals(UpcCall))
  <2>1. \A k \in 1 .. Len(Iterations) : Still(tt[k])
    BY <1>2, <1>3, StraightOn
  <2> QED BY <1>1, <1>3, <2>1, StraightLoop
<1>6. 3 \in Nat /\ Len(Sizes) \in Nat
  BY SizesAre
<1>7. Still(UpcStatistics)
  BY <1>2, <1>6, StraightOn DEF UpcStatistics
<1>8. Still(UpcSizes(before))
  BY <1>2, <1>4, <1>6, <1>7, StraightOn DEF UpcSizes
<1> QED BY <1>5, <1>7, <1>8

\* A collective benchmark in UPC++.
LEMMA StillUpcxx ==
    ASSUME NEW kind \in RootedKinds
    PROVE  Still(UpcxxProgram(kind))
<1> DEFINE c == [k \in 1 .. Len(Iterations) |-> UpcxxCall(kind)]
           ss == [k \in 1 .. Len(Iterations) |->
                     StartClock \o UpcxxCall(kind) \o StopClock
                       \o Given(Measured(Iterations[k]), Sample) \o Sync]
           loop == FlattenSeq(ss)
<1>1. UpcxxProgram(kind) = Sync \o Times(Len(Sizes), loop \o Sync \o UpcxxStatistics \o Sync)
  BY DEF UpcxxProgram, ForEach
<1>2. Still(UpcxxCall(kind)) /\ Still(UpcxxStatistics) /\ Still(StartClock) /\ Still(Sync)
  <2>1. "to_root" \in RootedKinds /\ "plain" \in {"plain"} \cup PSyncArrays
    BY DEF RootedKinds
  <2>2. Still(UpcxxCall(kind)) /\ Still(UpcxxCall("to_root"))
    BY <2>1, StillForms, AudiencesAre DEF UpcxxCall
  <2>3. 3 \in Nat
    OBVIOUS
  <2> QED BY <2>2, <2>3, StillPieces, StraightOn, StillCollectives DEF UpcxxStatistics
<1>3. /\ IsLoop(ss, Len(Iterations))
      /\ \A k \in 1 .. Len(Iterations) :
            /\ c[k] = UpcxxCall(kind)
            /\ ss[k] = StartClock \o c[k] \o StopClock \o Given(Measured(Iterations[k]), Sample) \o Sync
  BY DEF IsLoop
<1> HIDE DEF ss, c
<1>4. Still(loop)
  BY <1>2, <1>3, StillIntervals
<1> HIDE DEF loop
<1>5. Still(loop \o Sync \o UpcxxStatistics \o Sync)
  BY <1>2, <1>4, StraightOn
<1> QED BY <1>1, <1>2, <1>5, SizesAre, StraightOn

\* The PGAS collectives transfer nothing.
LEMMA PgasCollectivesStill == ASSUME NEW b \in PgasCollective, NEW r PROVE Still(PgasProgram(b, r))
<1>0. /\ Still(BarrierAll) /\ Still(UpcBarrier) /\ Still(<<>>) /\ Len(Sizes) \in Nat
      /\ {"all", "from_root", "to_root"} \subseteq RootedKinds
      /\ {"pSyncBarrier1", "pSyncBarrier2", "pSyncBcast1", "pSyncBcast2", "pSyncCollect1",
           "pSyncCollect2", "pSyncRed1", "pSyncRed2"} \subseteq PSyncArrays
  BY SharedCovered, SizesAre, StraightOn DEF RootedKinds, PSyncArrays
<1>1. CASE b \in OshmCollective
  <2> DEFINE barrier == OshmIterations("all", "pSyncBarrier1", "pSyncBarrier2", <<>>)
             broadcast == OshmIterations("from_root", "pSyncBcast1", "pSyncBcast2", BarrierAll)
             collect == OshmIterations("all", "pSyncCollect1", "pSyncCollect2", BarrierAll)
             reduce == OshmIterations("all", "pSyncRed1", "pSyncRed2", BarrierAll)
             P1 == barrier \o BarrierAll \o OshmStatistics
             P2 == Times(Len(Sizes), broadcast \o BarrierAll \o OshmStatistics)
             P3 == Times(Len(Sizes), BarrierAll \o collect \o BarrierAll \o OshmStatistics) \o BarrierAll
             P4 == Times(Len(Sizes), BarrierAll \o reduce \o OshmStatistics \o BarrierAll) \o BarrierAll
  <2>1. Still(barrier) /\ Still(broadcast) /\ Still(collect) /\ Still(reduce)
    BY <1>0, StillOshmIterations
  <2>2. Still(OshmStatistics)
    BY <1>0, StillForms, StraightOn DEF OshmStatistics
  <2>3. PgasProgram(b, r) \in {P1, P2, P3, P4}
    BY <1>1 DEF OshmCollective, PgasProgram, OshmBarrier, OshmBroadcast, OshmCollect, OshmFcollect,
                OshmReduce
  <2>4. Still(P1) /\ Still(P2) /\ Still(P3) /\ Still(P4)
    <3> HIDE DEF barrier, broadcast, collect, reduce
    <3>1. /\ Still(broadcast \o BarrierAll \o OshmStatistics)
          /\ Still(BarrierAll \o collect \o BarrierAll \o OshmStatistics)
          /\ Still(BarrierAll \o reduce \o OshmStatistics \o BarrierAll)
      BY <1>0, <2>1, <2>2, StraightOn
    <3> QED BY <1>0, <2>1, <2>2, <3>1, StraightOn
  <2> HIDE DEF P1, P2, P3, P4
  <2> QED BY <2>3, <2>4
<1>2. CASE b \in UpcCollective
  <2> DEFINE plain == UpcSizes(<<>>)
             synced == UpcSizes(UpcBarrier)
             loop == InRepeatedIntervals(UpcCall)
             P1 == UpcBarrier \o loop \o UpcBarrier \o UpcStatistics \o UpcBarrier
             P2 == UpcBarrier \o plain \o UpcBarrier
             P3 == UpcBarrier \o plain
  <2>1. Still(plain) /\ Still(synced) /\ Still(UpcStatistics) /\ Still(loop)
    BY <1>0, StillUpcIterations
  <2>3. PgasProgram(b, r) \in {P1, P2, P3, plain, synced}
    BY <1>2 DEF UpcCollective, PgasProgram, UpcAllBarrier, UpcAllBroadcast, UpcAllExchange, UpcAllGather,
                UpcAllGatherAll, UpcAllReduce, UpcAllScatter
  <2> HIDE DEF plain, synced, loop
  <2>4. Still(P1) /\ Still(P2) /\ Still(P3)
    BY <1>0, <2>1, StraightOn
  <2> HIDE DEF P1, P2, P3
  <2> QED BY <2>1, <2>3, <2>4
<1>3. CASE b \in UpcxxCollective
  <2>1. \E kind \in {"all", "from_root", "to_root"} : PgasProgram(b, r) = UpcxxProgram(kind)
    BY <1>3 DEF UpcxxCollective, PgasProgram, UpcxxAllgather, UpcxxAlltoall, UpcxxBcast,
                UpcxxScatter, UpcxxGather, UpcxxReduce
  <2> QED BY <1>0, <2>1, StillUpcxx
<1> QED BY <1>1, <1>2, <1>3 DEF PgasCollective

\* Every rank of striding flushes its reads when it leaves its epoch.
LEMMA StridingCovered == ASSUME NEW r, NEW n \in Nat PROVE StridingProgram(r, n) \in Covered
<1> DEFINE ss == [k \in 1 .. Len(BlockSizes) |-> Section(BlockSizes[k], n)]
           reads == Times(NTimes, FlattenSeq(ss))
           fill == Given(r = 0, Touch)
           read == Given(r # 0, reads)
           open == OpenEpoch("lock")
           close == CloseEpoch("lock")
<1>1. StridingProgram(r, n) = Sync \o fill \o Sync \o open \o read \o close \o Sync
  BY DEF StridingProgram, ForEach
<1>2. Straight(open) /\ Still(Sync) /\ Straight(Sync) /\ Straight(fill) /\ Covering(close)
  BY StillPieces, StillIs, StillCollectives, StraightOn, Flushes
<1>3. IsLoop(ss, Len(BlockSizes)) /\ Len(BlockSizes) \in Nat
      /\ \A k \in 1 .. Len(BlockSizes) : ss[k] = Section(BlockSizes[k], n)
  BY DEF IsLoop, BlockSizes
<1>4. ASSUME NEW k \in 1 .. Len(BlockSizes) PROVE Straight(ss[k])
  <2> DEFINE get == Get(BlockSizes[k])
             yes == TRUE
  <2>1. {NumBlocks(BlockSizes[k]) * BlockSizes[k], EndOfType(BlockSizes[k])} \subseteq 0 .. WINDOW_SIZE
    BY StridesFit
  <2>2. get = RmaWithin(0, yes, yes) /\ yes \in BOOLEAN /\ 0 \in Nat
    BY <2>1 DEF Get
  <2>3. Section(BlockSizes[k], n) = StartClock \o Times(n, get) \o Flush("all") \o StopClock \o Sample
    BY DEF Section
  <2> HIDE DEF get, yes
  <2>4. Straight(get)
    BY <2>2, StraightTransfers
  <2>5. Straight(Times(n, get)) /\ Straight(StartClock) /\ Straight(Flush("all")) /\ Straight(StopClock)
        /\ Straight(Sample)
    BY <2>4, StraightOn, StillPieces, StillIs
  <2> HIDE DEF ss
  <2> QED BY <1>3, <2>3, <2>5, StraightOn
<1> HIDE DEF ss, open, close, fill
<1>5. Straight(reads)
  <2>1. Straight(FlattenSeq(ss)) /\ NTimes \in Nat
    BY <1>3, <1>4, StraightLoop, NTimesAssumption
  <2> QED BY <2>1, StraightOn
<1> HIDE DEF reads
<1>6. Straight(read)
  BY <1>5, StraightOn
<1> HIDE DEF read
<1>7. Straight(Sync \o fill \o Sync \o open \o read)
  BY <1>2, <1>6, StraightOn
<1> QED BY <1>1, <1>2, <1>7, CoveringOn DEF Covering

\* Every rank has an actor, and every benchmark the first two ranks.
LEMMA AllRanks ==
    ASSUME NEW b \in Benchmarks, b # "osu_latency_mt"
    PROVE  /\ b \in CPt2pt => Ranks[b] = CPt2ptRanks(b)
           /\ b \in OtherPt2ptBenchmarks => Ranks[b] = 0 .. (IF b = "py_multi_lat" THEN 3 ELSE 1)
           /\ {0, 1} \subseteq Ranks[b]
<1>1. Ranks[b] = {a[1] : a \in Actors[b]}
  BY Tables DEF Ranks
<1>2. \A R, T : (\A r \in R : <<r, 0>> \in T) /\ (\A a \in T : a[1] \in R) => {a[1] : a \in T} = R
  <2> SUFFICES ASSUME NEW R, NEW T, \A r \in R : <<r, 0>> \in T, \A a \in T : a[1] \in R
               PROVE  {a[1] : a \in T} = R
    OBVIOUS
  <2>1. ASSUME NEW r \in R PROVE r \in {a[1] : a \in T}
    <3>1. <<r, 0>> \in T /\ <<r, 0>>[1] = r
      OBVIOUS
    <3> QED BY <3>1
  <2> QED BY <2>1
<1>3. ASSUME b \in CPt2pt PROVE Ranks[b] = CPt2ptRanks(b) /\ {0, 1} \subseteq CPt2ptRanks(b)
  <2>1. Actors[b] = CPt2ptActors(b)
    BY <1>3, ActorsAre
  <2>2. \A a \in CPt2ptActors(b) : a[1] \in CPt2ptRanks(b)
    BY DEF CPt2ptActors
  <2>3. ASSUME NEW r \in CPt2ptRanks(b) PROVE <<r, 0>> \in CPt2ptActors(b)
    <3>1. 0 < ThreadCount(b, r)
      BY DEF ThreadCount
    <3>2. 0 \in 0 .. SenderThreads + ReceiverThreads
      BY ThreadsAssumption
    <3> QED BY <3>1, <3>2 DEF CPt2ptActors
  <2>4. {0, 1} \subseteq CPt2ptRanks(b)
    BY NodesAssumption DEF CPt2ptRanks, PairCount
  <2>5. {a[1] : a \in CPt2ptActors(b)} = CPt2ptRanks(b)
    BY <1>2, <2>2, <2>3
  <2> QED BY <1>1, <2>1, <2>4, <2>5
<1>4. ASSUME NEW n \in Nat, n >= 1, Actors[b] = (0 .. n) \X {0}
      PROVE  Ranks[b] = 0 .. n /\ {0, 1} \subseteq Ranks[b]
  <2>1. (\A r \in 0 .. n : <<r, 0>> \in Actors[b]) /\ (\A a \in Actors[b] : a[1] \in 0 .. n)
    BY <1>4
  <2>2. {a[1] : a \in Actors[b]} = 0 .. n
    BY <1>2, <2>1
  <2> QED BY <1>1, <1>4, <2>2
<1>5. {0, 1} = 0 .. 1 /\ 3 \in Nat /\ 3 >= 1 /\ 1 \in Nat /\ 1 >= 1
  OBVIOUS
<1>6. Procs - 1 \in Nat /\ Procs - 1 >= 1
  BY ProcsAssumption
<1>7. CASE b \in OtherPt2ptBenchmarks
  <2>1. CASE b = "py_multi_lat"
    <3>1. Actors[b] = (0 .. 3) \X {0}
      BY <2>1, ActorsAre
    <3> QED BY <1>4, <1>5, <2>1, <3>1 DEF CPt2pt, LatencyTest, BandwidthTest, BiBandwidthTest,
                                          Partitioned, Congestion, FanOut
  <2>2. CASE b # "py_multi_lat"
    <3>1. Actors[b] = (0 .. 1) \X {0}
      BY <1>5, <1>7, <2>2, ActorsAre
    <3>2. Ranks[b] = 0 .. 1 /\ {0, 1} \subseteq Ranks[b]
      BY <1>4, <1>5, <3>1
    <3> QED BY <1>3, <2>2, <3>2
  <2> QED BY <2>1, <2>2
<1>8. CASE b \notin OtherPt2ptBenchmarks
  BY <1>3, <1>4, <1>5, <1>6, <1>8, ActorsAre, BenchmarkKinds DEF PgasBenchmarks
<1> QED BY <1>3, <1>7, <1>8

\* What every rank transfers is flushed before its program ends, but for the
\* programs with active epochs; and its messages are for ranks of the benchmark.
LEMMA ScriptsCovered ==
    ASSUME NEW b \in Benchmarks, b # "osu_latency_mt", NEW o \in OptionsOf(b), NEW r \in Ranks[b],
           o.sync \notin Active
    PROVE  Inner(Ranks[b], {}, Scripts[b][o][r]) \/ Scripts[b][o][r] \in Covered
<1>1. Scripts[b][o][r] = Program(b, r, o)
  BY ScriptsAre
<1>2. o.validate \in BOOLEAN /\ Head(Windows) \in Nat
  BY OptionsAre, WindowType
<1>3. CASE b \in CPt2pt
  <2>1. Ranks[b] = CPt2ptRanks(b)
    BY <1>3, AllRanks
  <2>2. Program(b, r, o) = CPt2ptProgram(b, r, o.validate)
    BY <1>3, ProgramsAre
  <2>3. b \in CPt2pt \ {"osu_latency_mt"}
    BY <1>3
  <2>4. Inner(CPt2ptRanks(b), {}, CPt2ptProgram(b, r, o.validate))
    BY <1>2, <2>1, <2>3, CPt2ptInner
  <2> QED BY <1>1, <2>1, <2>2, <2>4
<1>4. CASE b \in OtherPt2ptBenchmarks
  <2>1. Ranks[b] = 0 .. (IF b = "py_multi_lat" THEN 3 ELSE 1)
    BY <1>4, AllRanks
  <2>2. Program(b, r, o) = OtherPt2ptProgram(b, r, o.validate)
    BY <1>4, ProgramsAre
  <2> DEFINE T == 0 .. (IF b = "py_multi_lat" THEN 3 ELSE 1)
  <2>3. Inner(T, {}, OtherPt2ptProgram(b, r, o.validate))
    BY <1>2, <1>4, <2>1, OtherPt2ptInner
  <2> HIDE DEF T
  <2>4. Ranks[b] = T
    BY <2>1 DEF T
  <2> QED BY <1>1, <2>2, <2>3, <2>4
<1>5. CASE b \in CCollective
  <2>1. Program(b, r, o) = CCollectiveProgram(b, r, o)
    BY <1>5, ProgramsAre
  <2> QED BY <1>1, <1>5, <2>1, CCollectiveInner
<1>6. CASE b \in OtherCollectiveBenchmarks
  <2>1. Program(b, r, o) = OtherCollectiveProgram(b, r, o.validate)
    BY <1>6, ProgramsAre
  <2> QED BY <1>1, <1>2, <1>6, <2>1, OtherCollectiveInner
<1>7. CASE b \in OneSidedBenchmarks
  <2>1. Program(b, r, o) = OneSidedProgram(b, o.sync, r, Head(Windows), o.validate)
    BY <1>7, ProgramsAre
  <2>2. r \in {0, 1} /\ o.sync \in ValidateSyncType(b) \ Active
    BY <1>7, RanksAre, OptionsAre
  <2>3. OneSidedProgram(b, o.sync, 0, Head(Windows), o.validate) \in Covered
        /\ OneSidedProgram(b, o.sync, 1, Head(Windows), o.validate) \in Covered
    BY <1>2, <1>7, <2>2, PassiveCovered, StillIs
  <2> QED BY <1>1, <2>1, <2>2, <2>3
<1>8. CASE b \in PgasBenchmarks
  <2>1. Program(b, r, o) = PgasProgram(b, r)
    BY <1>8, ProgramsAre
  <2>2. CASE b \in PgasCollective
    BY <1>1, <2>1, <2>2, PgasCollectivesStill, StillIs
  <2>3. CASE b \in OshmPt2pt
    BY <1>1, <2>1, <2>3, OshmPt2ptCovered
  <2>4. CASE b \in UpcPt2pt \cup UpcxxPt2pt
    BY <1>1, <2>1, <2>4, UpcPt2ptCovered
  <2>5. CASE b \in OshmRate
    <3>1. r \in 0 .. 3
      BY <2>5, RanksAre
    <3> QED BY <1>1, <2>1, <2>5, <3>1, OshmRateCovered
  <2> QED BY <1>8, <2>2, <2>3, <2>4, <2>5 DEF PgasBenchmarks, PgasPt2pt
<1>9. CASE b = "striding"
  <2>1. Program(b, r, o) = StridingProgram(r, Head(Windows))
    BY <1>9, ProgramsAre
  <2> QED BY <1>1, <1>2, <2>1, StridingCovered
<1> QED BY <1>3, <1>4, <1>5, <1>6, <1>7, <1>8, <1>9, BenchmarksAssumption

-----------------------------------------------------------------------------
(* Programs whose transfers are in active epochs. *)

\* Calls that have nothing to do with epochs.
LooseCall ==
    {c \in StraightCall : /\ c.op \notin {"rma", "open", "close", "post", "await"}
                          /\ c.op = "enter" => c.kind # "fence"}
Loose(s) == s \in Seq(LooseCall)

\* Such calls, one after the other, conditional or repeated.
LEMMA LooseOn ==
    /\ Loose(<<>>)
    /\ \A s, t : Loose(s) /\ Loose(t) => Loose(s \o t)
    /\ \A c, s : (c => Loose(s)) => Loose(Given(c, s))
BY Within0 DEF Loose

\* One call that is no message.
LEMMA LooseOne ==
    ASSUME NEW c \in Calls, c.op = "enter" => c.kind # "fence",
           c.op \notin {"break", "elect", "meet", "rma", "isend", "irecv", "open", "close", "post", "await"}
    PROVE  Loose(<<c>>)
<1>1. c \in LooseCall
  BY DEF LooseCall, StraightCall
<1> QED BY <1>1 DEF Loose

\* Between the epochs there are only such calls.
LEMMA LoosePieces ==
    /\ Loose(Leave) /\ Loose(StartClock) /\ Loose(StopClock) /\ Loose(Sample) /\ Loose(Touch)
    /\ Loose(Flush("fetched")) /\ Loose(Barrier) /\ Loose(Sync)
    /\ Loose(Recv(1, "flag", ReplySize)) /\ Loose(Send(0, "flag", ReplySize))
<1>1. ASSUME NEW o \in {"leave", "start", "stop", "sample", "touch"} PROVE Loose(<<[op |-> o]>>)
  <2> DEFINE c == [op |-> o]
  <2>1. c \in Calls /\ c.op = o
    BY DEF Calls, Plain
  <2> HIDE DEF c
  <2>2. Loose(<<c>>)
    BY <2>1, LooseOne
  <2> QED BY <2>2 DEF c
<1>2. /\ Loose(Leave) /\ Loose(StartClock) /\ Loose(StopClock) /\ Loose(Sample) /\ Loose(Touch)
  BY <1>1 DEF Leave, StartClock, StopClock, Sample, Touch
<1>3. Loose(Flush("fetched"))
  <2> DEFINE c == [op |-> "flush", which |-> "fetched"]
  <2>1. c \in Calls /\ c.op = "flush"
    BY DEF Calls
  <2> HIDE DEF c
  <2>2. Loose(<<c>>)
    BY <2>1, LooseOne
  <2> QED BY <2>2 DEF Flush, c
<1>4. ASSUME NEW k \in {"barrier", "sync"} PROVE Loose(Enter(k, 0, {}, "plain") \o Leave)
  <2> DEFINE d == {}
             f == "plain"
  <2>1. d \in SUBSET Nat /\ f \in Forms /\ k \in CollectiveKinds
    BY DEF Forms, CollectiveKinds
  <2> HIDE DEF d, f
  <2> DEFINE c == [op |-> "enter", kind |-> k, root |-> 0, data |-> d, form |-> f]
  <2>2. c \in Calls /\ c.op = "enter" /\ c.kind # "fence"
    BY <2>1 DEF Calls
  <2> HIDE DEF c
  <2>3. Loose(<<c>>)
    BY <2>2, LooseOne
  <2>4. Loose(Enter(k, 0, d, f))
    BY <2>3 DEF Enter, c
  <2> QED BY <1>2, <2>4, LooseOn DEF d, f
<1>5. ASSUME NEW o \in {"isend", "irecv"}, NEW p \in {0, 1}
      PROVE  Loose(<<[op |-> o, peer |-> p, tag |-> "flag", size |-> ReplySize]>>)
  <2> DEFINE c == [op |-> o, peer |-> p, tag |-> "flag", size |-> ReplySize]
  <2>1. c \in Calls /\ c.op = o /\ c.peer = p
    BY DEF Calls, Tags, ReplySize
  <2> HIDE DEF c
  <2>2. c \in LooseCall
    BY <2>1 DEF LooseCall, StraightCall
  <2> QED BY <2>2 DEF Loose, c
<1>6. ASSUME NEW k \in {"isend", "irecv"} PROVE Loose(<<[op |-> "wait", kind |-> k]>>)
  <2> DEFINE c == [op |-> "wait", kind |-> k]
  <2>1. c \in Calls /\ c.op = "wait"
    BY DEF Calls
  <2> HIDE DEF c
  <2>2. Loose(<<c>>)
    BY <2>1, LooseOne
  <2> QED BY <2>2 DEF c
<1>7. Loose(Recv(1, "flag", ReplySize)) /\ Loose(Send(0, "flag", ReplySize))
  BY <1>5, <1>6, LooseOn DEF Recv, Send, IRecv, ISend, Wait
<1>8. Loose(Barrier) /\ Loose(Sync)
  BY <1>4 DEF Barrier, Sync
<1> QED BY <1>2, <1>3, <1>7, <1>8

\* So they do in both programs, if that is allowed there.
LEMMA LooseSimple ==
    ASSUME NEW R, NEW y \in Active, \A s, t : Loose(s) /\ Loose(t) => <<s, t>> \in R
    PROVE  Simple(R, y)
<1>1. LoopLock(y) = <<>>
  BY DEF LoopLock, Given, Active, Flushing
<1>2. Loose(<<>>)
  BY LooseOn
<1>3. \A u \in {StartClock, StopClock, Sample, Touch, LoopLock(y)} : <<u, <<>> >> \in R
  BY <1>1, <1>2, LoosePieces
<1> QED BY <1>2, <1>3, LoosePieces DEF Simple

\* A transfer to a rank of the benchmark.
TransfersTo(p) == {c \in StraightCall : c.op = "rma" /\ c.peer = p}

LEMMA TransferIs == ASSUME NEW b, NEW p \in Nat PROVE OpPtr(b, p) \in Seq(TransfersTo(p))
<1> DEFINE f == b \notin {"osu_put_bw", "osu_put_bibw", "osu_put_latency", "osu_acc_latency"}
           w == TRUE
<1>1. OpPtr(b, p) = RmaWithin(p, f, w) /\ f \in BOOLEAN /\ w \in BOOLEAN
  BY DEF OpPtr, Rma
<1> HIDE DEF f, w
<1> DEFINE c == [op |-> "rma", peer |-> p, fetch |-> f, within |-> w]
<1>2. c \in Calls /\ c.op = "rma" /\ c.peer = p
  BY <1>1 DEF Calls
<1>3. RmaWithin(p, f, w) = <<c>>
  BY DEF RmaWithin
<1> HIDE DEF c
<1>4. c \in TransfersTo(p)
  BY <1>2 DEF TransfersTo, StraightCall
<1> QED BY <1>1, <1>3, <1>4

-----------------------------------------------------------------------------
\* With fences: every transfer is followed by one.
FenceCall ==
    {c \in StraightCall : c.op \notin {"open", "close", "post", "await"}
                            /\ (c.op = "rma" => c.peer \in {0, 1})}
FencedOff == Answered(FenceCall, TransferCalls, FenceCalls)

LEMMA FencesCovered ==
    ASSUME NEW b \in OneSidedBenchmarks, "fence" \in ValidateSyncType(b), NEW n \in Nat, NEW v \in BOOLEAN
    PROVE  OneSidedProgram(b, "fence", 0, n, v) \in FencedOff /\ OneSidedProgram(b, "fence", 1, n, v) \in FencedOff
<1> DEFINE L == FencedOff
           R == L \X L
           y == "fence"
<1>0. y = "fence" /\ y \in Active /\ y \in SyncKinds
  BY DEF Active, SyncKinds
<1>1. /\ L \subseteq Seq(FenceCall) /\ <<>> \in L /\ \A s, t \in L : s \o t \in L
      /\ \A s \in Seq(FenceCall \ TransferCalls) : s \in L
      /\ \A s \in Seq(FenceCall) : \A t \in L : (\E k \in 1 .. Len(t) : t[k] \in FenceCalls) => s \o t \in L
  BY AnsweredOn DEF FencedOff
<1>2. Joint(R)
  <2>1. FenceCall \subseteq Calls
    BY DEF FenceCall, StraightCall
  <2>2. L \subseteq Seq(Calls)
    BY <1>1, <2>1
  <2> HIDE DEF L
  <2> QED BY <1>1, <2>2, JointProduct
<1>3. ASSUME NEW s, Loose(s) PROVE s \in L
  <2>1. LooseCall \subseteq FenceCall \ TransferCalls
    BY DEF LooseCall, FenceCall, TransferCalls
  <2> QED BY <1>1, <1>3, <2>1 DEF Loose
<1>4. Fence \in L /\ \E k \in 1 .. Len(Fence) : Fence[k] \in FenceCalls
  <2> DEFINE c == [op |-> "enter", kind |-> "fence", root |-> 0, data |-> {}, form |-> "plain"]
             S == FenceCall \ TransferCalls
  <2>1. Fence = <<c>> \o Leave
    BY DEF Fence, Enter
  <2>2. c \in Calls /\ c.op = "enter" /\ c.kind = "fence"
    <3>1. "fence" \in CollectiveKinds /\ "plain" \in Forms /\ {} \in SUBSET Nat
      BY DEF CollectiveKinds, Forms
    <3> QED BY <3>1 DEF Calls
  <2> HIDE DEF c
  <2>3. c \in FenceCalls /\ c \in S /\ LooseCall \subseteq S
    BY <2>2 DEF FenceCalls, FenceCall, StraightCall, TransferCalls, LooseCall
  <2>4. Leave \in Seq(S)
    BY <2>3, LoosePieces DEF Loose
  <2> HIDE DEF L, S
  <2>5. <<c>> \in Seq(S) /\ Len(<<c>>) = 1 /\ <<c>>[1] = c
    BY <2>3
  <2>6. /\ Fence \in Seq(S) /\ Len(Fence) = 1 + Len(Leave) /\ Fence[1] = c /\ Len(Leave) \in Nat
    BY <2>1, <2>4, <2>5, ConcatProperties
  <2>7. 1 \in 1 .. Len(Fence)
    BY <2>6
  <2>8. Fence \in L
    BY <1>1, <2>6 DEF S
  <2> QED BY <2>3, <2>6, <2>7, <2>8
<1>5. ASSUME NEW p \in {0, 1}, NEW m \in Nat
      PROVE  OpPtr(b, p) \in Seq(FenceCall) /\ Times(m, OpPtr(b, p)) \in Seq(FenceCall)
  <2>1. TransfersTo(p) \subseteq FenceCall
    BY DEF TransfersTo, FenceCall
  <2>2. OpPtr(b, p) \in Seq(FenceCall)
    BY <2>1, TransferIs
  <2> QED BY <2>2, Within0
<1>6. LoopUnlock(y) = <<>>
  BY <1>0 DEF LoopUnlock, Given, Active, Flushing
<1>7. /\ OpPreSync(y) = Fence /\ OpPostSync(y) = Fence
      /\ NonOpPreSync(y) = <<>> \o Fence /\ NonOpPostSync(y, 0) = <<>> \o Fence
      /\ Ping(y, 1) = <<>> \o Fence
      /\ \A op : Pong(y, op) = <<>> \o (op \o Fence)
      /\ BibwPreSync(y) = <<>> \o Fence /\ \A p : BibwPostSync(y, p) = <<>> \o Fence
  BY DEF OpPreSync, OpPostSync, NonOpPreSync, NonOpPostSync, Ping, Pong, BibwPreSync, BibwPostSync,
         Given, Locking, Flushing
<1> HIDE DEF L, y
<1>8. Simple(R, y)
  BY <1>0, <1>3, LooseSimple
<1>9. /\ Fence \in Seq(FenceCall) /\ <<>> \o Fence \in L /\ <<>> \o Fence \in Seq(FenceCall)
      /\ \A s \in Seq(FenceCall) : s \o Fence \in L /\ <<>> \o (s \o Fence) \in L /\ s \o (<<>> \o Fence) \in L
  <2>1. Fence \in Seq(FenceCall) /\ <<>> \o Fence = Fence
    BY <1>1, <1>4, ConcatEmptySeq
  <2> QED BY <1>1, <1>4, <2>1
<1>10. EpochPairs(R, y, b)
  <2>1. ASSUME NEW m \in Nat, NEW p \in {0, 1}
        PROVE  /\ Fence \o Times(m, OpPtr(b, p)) \o Fence \in L /\ Fence \o OpPtr(b, p) \o Fence \in L
               /\ (<<>> \o Fence) \o Times(m, OpPtr(b, p)) \o (<<>> \o Fence) \in L
    <3>1. /\ Fence \o Times(m, OpPtr(b, p)) \in Seq(FenceCall) /\ Fence \o OpPtr(b, p) \in Seq(FenceCall)
          /\ (<<>> \o Fence) \o Times(m, OpPtr(b, p)) \in Seq(FenceCall)
      BY <1>5, <1>9, Within0
    <3> QED BY <1>9, <3>1
  <2>2. (<<>> \o Fence) \o (<<>> \o Fence) \in L
    BY <1>1, <1>9
  <2>3. <<>> \o (OpPtr(b, 0) \o Fence) \in L
    BY <1>5, <1>9
  <2>4. 0 \in Nat
    OBVIOUS
  <2>5. /\ <<OpPreSync(y) \o OpPtr(b, 1) \o OpPostSync(y), NonOpPreSync(y) \o NonOpPostSync(y, 0)>> \in R
        /\ \A m \in Nat : <<OpPreSync(y) \o Times(m, OpPtr(b, 1)) \o OpPostSync(y),
                            NonOpPreSync(y) \o NonOpPostSync(y, 0)>> \in R
    BY <1>7, <2>1, <2>2, <2>4
  <2>6. <<Ping(y, 1), Pong(y, OpPtr(b, 0))>> \in R
    BY <1>7, <1>9, <2>3
  <2>7. \A m \in Nat : <<BibwPreSync(y) \o Times(m, OpPtr(b, 1)) \o BibwPostSync(y, 1),
                         BibwPreSync(y) \o Times(m, OpPtr(b, 0)) \o BibwPostSync(y, 0)>> \in R
    BY <1>7, <2>1
  <2> HIDE DEF R
  <2> QED BY <2>5, <2>6, <2>7 DEF EpochPairs
<1>11. Pieces(R, y, b)
  BY <1>2, <1>8, <1>10 DEF Pieces
<1>12. \A x, t : <<x, t>> \in R => <<x \o LoopUnlock(y), t>> \in R
  <2>1. \A x \in L : x \o <<>> \in L
    BY <1>1
  <2> QED BY <1>6, <2>1
<1>13. <<Barrier, Barrier>> \in R /\ <<Sync, Sync>> \in R
  BY <1>3, LoosePieces
<1>14. y \in ValidateSyncType(b)
  BY <1>0
<1> HIDE DEF R
<1>15. <<OneSidedProgram(b, y, 0, n, v), OneSidedProgram(b, y, 1, n, v)>> \in R
  BY <1>2, <1>11, <1>12, <1>13, <1>14, OneSidedJoint
<1> QED BY <1>15 DEF R, L, y

-----------------------------------------------------------------------------
\* With MPI_Win_post and _start: every exposure epoch is waited for, and there
\* are as many as access epochs of the other rank.
PostCall(p) ==
    {c \in StraightCall : /\ c.op \in {"rma", "await"} => c.peer = p
                          /\ c.op \in {"open", "close"} => c.kind = "start"
                          /\ c.op = "enter" => c.kind # "fence"}
Posting(p) == Answered(PostCall(p), PostCalls, AwaitCalls)
Opens  == [c \in Calls |-> IF c.op = "open" THEN <<0>> ELSE <<>>]
Offers == [c \in Calls |-> IF c.op = "post" THEN <<0>> ELSE <<>>]

LEMMA EpochViews == Opens \in Views /\ Offers \in Views
<1>1. <<0>> \in Seq(Letters) /\ <<>> \in Seq(Letters)
  <2>1. 0 \in Letters
    BY DEF Letters
  <2> QED BY <2>1
<1> QED BY <1>1 DEF Opens, Offers, Views

\* Calls to rank p that open, and offer, so many epochs.
Tallied(p, s, x, y) == s \in Seq(PostCall(p)) /\ Seen(Opens, s) = x /\ Seen(Offers, s) = y

LEMMA TalliedOn ==
    ASSUME NEW p
    PROVE  \A s, t, x, y, u, w : Tallied(p, s, x, y) /\ Tallied(p, t, u, w)
              => Tallied(p, s \o t, x \o u, y \o w)
<1>1. PostCall(p) \subseteq Calls
  BY DEF PostCall, StraightCall
<1>2. Seq(PostCall(p)) \subseteq Seq(Calls)
  BY <1>1
<1>3. \A s, t : s \in Seq(PostCall(p)) /\ t \in Seq(PostCall(p)) => s \o t \in Seq(PostCall(p))
  BY Within0
<1> SUFFICES ASSUME NEW s, NEW t, NEW x, NEW y, NEW u, NEW w, Tallied(p, s, x, y), Tallied(p, t, u, w)
             PROVE  Tallied(p, s \o t, x \o u, y \o w)
  OBVIOUS
<1>4. /\ s \in Seq(PostCall(p)) /\ Seen(Opens, s) = x /\ Seen(Offers, s) = y
      /\ t \in Seq(PostCall(p)) /\ Seen(Opens, t) = u /\ Seen(Offers, t) = w
  BY DEF Tallied
<1>5. s \in Seq(Calls) /\ t \in Seq(Calls) /\ s \o t \in Seq(PostCall(p))
  BY <1>2, <1>3, <1>4
<1>6. Seen(Opens, s \o t) = x \o u /\ Seen(Offers, s \o t) = y \o w
  BY <1>4, <1>5, EpochViews, SeenOn
<1> QED BY <1>5, <1>6 DEF Tallied

\* One call.
LEMMA TalliedOne ==
    ASSUME NEW p, NEW c \in PostCall(p)
    PROVE  Tallied(p, <<c>>, IF c.op = "open" THEN <<0>> ELSE <<>>, IF c.op = "post" THEN <<0>> ELSE <<>>)
<1>1. c \in Calls
  BY DEF PostCall, StraightCall
<1>2. Seen(Opens, <<c>>) = Opens[c] /\ Seen(Offers, <<c>>) = Offers[c]
  BY <1>1, EpochViews, SeenOne
<1>3. Opens[c] = (IF c.op = "open" THEN <<0>> ELSE <<>>) /\ Offers[c] = (IF c.op = "post" THEN <<0>> ELSE <<>>)
  BY <1>1 DEF Opens, Offers
<1>4. <<c>> \in Seq(PostCall(p))
  OBVIOUS
<1> QED BY <1>2, <1>3, <1>4 DEF Tallied

\* Calls that open and offer none.
LEMMA TalliedNone ==
    ASSUME NEW p, NEW C, C \subseteq PostCall(p), \A c \in C : c.op \notin {"open", "post"}
    PROVE  \A s \in Seq(C) : Tallied(p, s, <<>>, <<>>)
<1> SUFFICES ASSUME NEW s \in Seq(C) PROVE Tallied(p, s, <<>>, <<>>)
  OBVIOUS
<1>1. s \in Seq(PostCall(p)) /\ Len(s) \in Nat /\ \A k \in 1 .. Len(s) : s[k] \in C
  OBVIOUS
<1>2. \A c \in C : c \in Calls /\ Opens[c] = <<>> /\ Offers[c] = <<>>
  BY DEF PostCall, StraightCall, Opens, Offers
<1>3. (\A k \in 1 .. Len(s) : Opens[s[k]] = <<>>) /\ \A k \in 1 .. Len(s) : Offers[s[k]] = <<>>
  BY <1>1, <1>2
<1> QED BY <1>1, <1>3, SeenNone DEF Tallied

\* Calls that offer none.
Unposted(p) == Seq(PostCall(p) \ PostCalls)

\* The pieces of the epochs, with transfers to the other rank.
LEMMA EpochTallies ==
    ASSUME NEW p \in {0, 1}, NEW s \in Seq(TransfersTo(p))
    PROVE  /\ Tallied(p, s, <<>>, <<>>) /\ s \in Unposted(p)
           /\ Tallied(p, OpenEpoch("start"), <<0>>, <<>>) /\ OpenEpoch("start") \in Unposted(p)
           /\ Tallied(p, CloseEpoch("start"), <<>>, <<>>) /\ CloseEpoch("start") \in Unposted(p)
           /\ Tallied(p, Post, <<>>, <<0>>)
           /\ Tallied(p, Await(p), <<>>, <<>>) /\ Await(p) \in Unposted(p)
           /\ \E k \in 1 .. Len(Await(p)) : Await(p)[k] \in AwaitCalls
<1>0. ASSUME NEW c \in Calls, c.op \in {"open", "close", "post", "await"},
             c.op = "await" => c.peer = p, c.op \in {"open", "close"} => c.kind = "start"
      PROVE  /\ Tallied(p, <<c>>, IF c.op = "open" THEN <<0>> ELSE <<>>, IF c.op = "post" THEN <<0>> ELSE <<>>)
             /\ c.op # "post" => <<c>> \in Unposted(p)
  <2>1. c \in PostCall(p)
    BY <1>0 DEF PostCall, StraightCall
  <2>2. c.op # "post" => c \in PostCall(p) \ PostCalls
    BY <2>1 DEF PostCalls
  <2> QED BY <2>1, <2>2, TalliedOne DEF Unposted
<1>1. Tallied(p, s, <<>>, <<>>) /\ s \in Unposted(p)
  <2>1. /\ TransfersTo(p) \subseteq PostCall(p) /\ \A c \in TransfersTo(p) : c.op \notin {"open", "post"}
        /\ TransfersTo(p) \subseteq PostCall(p) \ PostCalls
    BY DEF TransfersTo, PostCall, PostCalls
  <2>2. s \in Unposted(p)
    BY <2>1 DEF Unposted
  <2> QED BY <2>1, <2>2, TalliedNone
<1>2. Tallied(p, OpenEpoch("start"), <<0>>, <<>>) /\ OpenEpoch("start") \in Unposted(p)
  <2> DEFINE c == [op |-> "open", kind |-> "start"]
  <2>1. c \in Calls /\ c.op = "open" /\ c.kind = "start" /\ OpenEpoch("start") = <<c>>
    BY DEF Calls, OpenEpoch
  <2> HIDE DEF c
  <2> QED BY <1>0, <2>1
<1>3. /\ Tallied(p, <<[op |-> "close", kind |-> "start"]>>, <<>>, <<>>)
      /\ <<[op |-> "close", kind |-> "start"]>> \in Unposted(p)
  <2> DEFINE c == [op |-> "close", kind |-> "start"]
  <2>1. c \in Calls /\ c.op = "close" /\ c.kind = "start"
    BY DEF Calls
  <2> HIDE DEF c
  <2>2. Tallied(p, <<c>>, <<>>, <<>>) /\ <<c>> \in Unposted(p)
    BY <1>0, <2>1
  <2> QED BY <2>2 DEF c
<1>4. Tallied(p, CloseEpoch("start"), <<>>, <<>>) /\ CloseEpoch("start") \in Unposted(p)
  <2> DEFINE e == <<[op |-> "close", kind |-> "start"]>>
             f == Flush("fetched")
  <2>1. Tallied(p, e, <<>>, <<>>) /\ e \in Unposted(p)
    BY <1>3
  <2>2. Tallied(p, f, <<>>, <<>>) /\ f \in Unposted(p)
    <3>1. LooseCall \subseteq PostCall(p) /\ \A c \in LooseCall : c.op \notin {"open", "post"}
      BY DEF LooseCall, PostCall
    <3>2. LooseCall \subseteq PostCall(p) \ PostCalls
      BY <3>1 DEF PostCalls
    <3>3. f \in Seq(LooseCall)
      BY LoosePieces DEF Loose
    <3> HIDE DEF f
    <3> QED BY <3>1, <3>2, <3>3, TalliedNone DEF Unposted
  <2>3. CloseEpoch("start") = f \o e
    BY DEF CloseEpoch
  <2> HIDE DEF e, f
  <2>4. Tallied(p, f \o e, <<>> \o <<>>, <<>> \o <<>>)
    BY <2>1, <2>2, TalliedOn
  <2>5. <<>> \o <<>> = <<>> /\ f \o e \in Unposted(p)
    BY <2>1, <2>2, Within0 DEF Unposted
  <2> QED BY <2>3, <2>4, <2>5
<1>5. Tallied(p, Post, <<>>, <<0>>)
  <2> DEFINE c == [op |-> "post"]
  <2>1. c \in Calls /\ c.op = "post" /\ Post = <<c>>
    BY DEF Calls, Plain, Post
  <2> HIDE DEF c
  <2> QED BY <1>0, <2>1
<1>6. /\ Tallied(p, Await(p), <<>>, <<>>) /\ Await(p) \in Unposted(p)
      /\ \E k \in 1 .. Len(Await(p)) : Await(p)[k] \in AwaitCalls
  <2> DEFINE c == [op |-> "await", peer |-> p]
  <2>1. c \in Calls /\ c.op = "await" /\ c.peer = p /\ Await(p) = <<c>>
    BY DEF Calls, Await
  <2>2. c \in AwaitCalls
    BY <2>1 DEF AwaitCalls
  <2> HIDE DEF c
  <2>3. 1 \in 1 .. Len(<<c>>) /\ <<c>>[1] = c
    OBVIOUS
  <2> QED BY <1>0, <2>1, <2>2, <2>3
<1> QED BY <1>1, <1>2, <1>4, <1>5, <1>6

\* The epochs of one rank, and what the other one does meanwhile.
Visiting(p, s)  == s \in Posting(p) /\ Tallied(p, s, <<0>>, <<>>)
Hosting(p, s) == s \in Posting(p) /\ Tallied(p, s, <<>>, <<0>>)
Crossing(p, s)  == s \in Posting(p) /\ Tallied(p, s, <<0>>, <<0>>)

LEMMA EpochsMatch ==
    ASSUME NEW p \in {0, 1}, NEW s \in Seq(TransfersTo(p))
    PROVE  /\ Visiting(p, OpenEpoch("start") \o s \o CloseEpoch("start"))
           /\ Hosting(p, Post \o Await(p))
           /\ Crossing(p, (Post \o OpenEpoch("start")) \o s \o (CloseEpoch("start") \o Await(p)))
<1> DEFINE o == OpenEpoch("start")
           c == CloseEpoch("start")
           w == Await(p)
           P == Posting(p)
           C == Seq(PostCall(p))
           U == Unposted(p)
<1>1. /\ Tallied(p, s, <<>>, <<>>) /\ s \in U
      /\ Tallied(p, o, <<0>>, <<>>) /\ o \in U
      /\ Tallied(p, c, <<>>, <<>>) /\ c \in U
      /\ Tallied(p, Post, <<>>, <<0>>)
      /\ Tallied(p, w, <<>>, <<>>) /\ w \in U
      /\ \E k \in 1 .. Len(w) : w[k] \in AwaitCalls
  BY EpochTallies
<1>2. /\ U \subseteq P /\ P \subseteq C
      /\ \A a \in C : \A b \in P : (\E k \in 1 .. Len(b) : b[k] \in AwaitCalls) => a \o b \in P
      /\ \A a, b \in P : a \o b \in P
  BY AnsweredOn DEF Posting, Unposted
<1>3. \A a, b \in U : a \o b \in U
  BY Within0 DEF Unposted
<1>4. \A a, b \in C : a \o b \in C
  BY Within0
<1>5. \A a, x, y : Tallied(p, a, x, y) => a \in C
  BY DEF Tallied
<1> HIDE DEF o, c, w, U, P, C
<1>6. /\ <<>> \o <<>> = <<>> /\ <<0>> \o <<>> = <<0>> /\ <<>> \o <<0>> = <<0>>
  BY ConcatEmptySeq
<1>7. Visiting(p, o \o s \o c)
  <2>1. o \o s \o c \in P
    BY <1>1, <1>2, <1>3
  <2>2. Tallied(p, o \o s, <<0>>, <<>>)
    BY <1>1, <1>6, TalliedOn
  <2>3. Tallied(p, o \o s \o c, <<0>>, <<>>)
    BY <1>1, <1>6, <2>2, TalliedOn
  <2> QED BY <2>1, <2>3 DEF Visiting, P
<1>8. Hosting(p, Post \o w)
  <2>1. Post \o w \in P
    BY <1>1, <1>2, <1>5
  <2>2. Tallied(p, Post \o w, <<>>, <<0>>)
    BY <1>1, <1>6, TalliedOn
  <2> QED BY <2>1, <2>2 DEF Hosting, P
<1>9. Crossing(p, (Post \o o) \o s \o (c \o w))
  <2> DEFINE a == (Post \o o) \o s
  <2>1. Tallied(p, a, <<0>>, <<0>>)
    <3>1. Tallied(p, Post \o o, <<0>>, <<0>>)
      BY <1>1, <1>6, TalliedOn
    <3> QED BY <1>1, <1>6, <3>1, TalliedOn
  <2>2. Tallied(p, c \o w, <<>>, <<>>)
    BY <1>1, <1>6, TalliedOn
  <2> HIDE DEF a
  <2>3. Tallied(p, a \o (c \o w), <<0>>, <<0>>)
    BY <1>6, <2>1, <2>2, TalliedOn
  <2>4. a \o (c \o w) \in P
    <3>1. a \o c \in C
      BY <1>1, <1>4, <1>5, <2>1
    <3>2. (a \o c) \o w \in P
      BY <1>1, <1>2, <3>1
    <3>3. a \o (c \o w) = (a \o c) \o w
      <4>1. PostCall(p) \subseteq Calls
        BY DEF PostCall, StraightCall
      <4>2. a \in Seq(PostCall(p)) /\ c \in Seq(PostCall(p)) /\ w \in Seq(PostCall(p))
        BY <1>1, <1>5, <2>1 DEF C
      <4> QED BY <4>2, ConcatAssociative
    <3> QED BY <3>2, <3>3
  <2> QED BY <2>3, <2>4 DEF Crossing, P, a
<1> QED BY <1>7, <1>8, <1>9 DEF o, c, w

-----------------------------------------------------------------------------
\* Two programs of which each opens the epochs that the other one offers.
Rendezvous(s, t) ==
    \E x, y : /\ s \in Posting(1) /\ t \in Posting(0)
              /\ Tallied(1, s, x, y) /\ Tallied(0, t, y, x)

LEMMA PostsCovered ==
    ASSUME NEW b \in OneSidedBenchmarks, "pscw" \in ValidateSyncType(b), NEW n \in Nat, NEW v \in BOOLEAN
    PROVE  Rendezvous(OneSidedProgram(b, "pscw", 0, n, v), OneSidedProgram(b, "pscw", 1, n, v))
<1> DEFINE R == {x \in Seq(Calls) \X Seq(Calls) : Rendezvous(x[1], x[2])}
           y == "pscw"
<1>0. y = "pscw" /\ y \in Active /\ y \in SyncKinds
  BY DEF Active, SyncKinds
<1>1. \A p : Posting(p) \subseteq Seq(Calls)
  <2> SUFFICES ASSUME NEW p PROVE Posting(p) \subseteq Seq(Calls)
    OBVIOUS
  <2>1. PostCall(p) \subseteq Calls
    BY DEF PostCall, StraightCall
  <2>2. Posting(p) \subseteq Seq(PostCall(p))
    BY AnsweredOn DEF Posting
  <2> QED BY <2>1, <2>2
<1>2. \A s, t : <<s, t>> \in R <=> Rendezvous(s, t)
  <2>1. \A s, t : Rendezvous(s, t) => s \in Seq(Calls) /\ t \in Seq(Calls)
    BY <1>1 DEF Rendezvous
  <2> HIDE DEF y
  <2> QED BY <2>1
<1>3. R \subseteq Seq(Calls) \X Seq(Calls)
  OBVIOUS
<1>4. \A p : \A s, t \in Posting(p) : s \o t \in Posting(p)
  BY AnsweredOn DEF Posting
<1> HIDE DEF R
<1>5. ASSUME NEW s, Loose(s) PROVE \A p \in {0, 1} : s \in Posting(p) /\ Tallied(p, s, <<>>, <<>>)
  <2> SUFFICES ASSUME NEW p \in {0, 1} PROVE s \in Posting(p) /\ Tallied(p, s, <<>>, <<>>)
    OBVIOUS
  <2>1. /\ LooseCall \subseteq PostCall(p) /\ \A c \in LooseCall : c.op \notin {"open", "post"}
        /\ LooseCall \subseteq PostCall(p) \ PostCalls
    BY DEF LooseCall, PostCall, PostCalls
  <2>2. s \in Seq(LooseCall)
    BY <1>5 DEF Loose
  <2>3. s \in Seq(PostCall(p) \ PostCalls)
    BY <2>1, <2>2
  <2> QED BY <2>1, <2>2, <2>3, TalliedNone, AnsweredOn DEF Posting
<1>6. \A s, t : Loose(s) /\ Loose(t) => <<s, t>> \in R
  <2> SUFFICES ASSUME NEW s, NEW t, Loose(s), Loose(t) PROVE Rendezvous(s, t)
    BY <1>2
  <2>1. s \in Posting(1) /\ Tallied(1, s, <<>>, <<>>) /\ t \in Posting(0) /\ Tallied(0, t, <<>>, <<>>)
    BY <1>5
  <2> QED BY <2>1 DEF Rendezvous
<1>7. Joint(R)
  <2>1. << <<>>, <<>> >> \in R
    BY <1>6, LooseOn
  <2>2. ASSUME NEW s, NEW t, NEW u, NEW w, Rendezvous(s, t), Rendezvous(u, w)
        PROVE  Rendezvous(s \o u, t \o w)
    <3>1. PICK x1, y1 : /\ s \in Posting(1) /\ t \in Posting(0)
                        /\ Tallied(1, s, x1, y1) /\ Tallied(0, t, y1, x1)
      BY <2>2 DEF Rendezvous
    <3>2. PICK x2, y2 : /\ u \in Posting(1) /\ w \in Posting(0)
                        /\ Tallied(1, u, x2, y2) /\ Tallied(0, w, y2, x2)
      BY <2>2 DEF Rendezvous
    <3>3. Tallied(1, s \o u, x1 \o x2, y1 \o y2) /\ Tallied(0, t \o w, y1 \o y2, x1 \o x2)
      BY <3>1, <3>2, TalliedOn
    <3>4. s \o u \in Posting(1) /\ t \o w \in Posting(0)
      BY <1>4, <3>1, <3>2
    <3> QED BY <3>3, <3>4 DEF Rendezvous
  <2> QED BY <1>2, <1>3, <2>1, <2>2 DEF Joint
<1>8. /\ LoopUnlock(y) = <<>>
      /\ OpPreSync(y) = OpenEpoch("start") /\ OpPostSync(y) = CloseEpoch("start")
      /\ NonOpPreSync(y) = Post \o <<>> /\ NonOpPostSync(y, 0) = Await(0) \o <<>>
      /\ Ping(y, 1) = (Post \o Await(1)) \o <<>>
      /\ \A op : Pong(y, op) = (OpenEpoch("start") \o op \o CloseEpoch("start")) \o <<>>
      /\ BibwPreSync(y) = (Post \o OpenEpoch("start")) \o <<>>
      /\ \A p : BibwPostSync(y, p) = (CloseEpoch("start") \o Await(p)) \o <<>>
  BY DEF LoopUnlock, OpPreSync, OpPostSync, NonOpPreSync, NonOpPostSync, Ping, Pong, BibwPreSync,
         BibwPostSync, Given, Locking, Flushing
<1> HIDE DEF y
<1>9. \A p \in {0, 1} : /\ Post \in Seq(Calls) /\ Await(p) \in Seq(Calls)
                        /\ OpenEpoch("start") \in Seq(Calls) /\ CloseEpoch("start") \in Seq(Calls)
  <2> SUFFICES ASSUME NEW p \in {0, 1}
               PROVE  /\ Post \in Seq(Calls) /\ Await(p) \in Seq(Calls)
                      /\ OpenEpoch("start") \in Seq(Calls) /\ CloseEpoch("start") \in Seq(Calls)
    OBVIOUS
  <2>1. <<>> \in Seq(TransfersTo(p))
    OBVIOUS
  <2>2. PostCall(p) \subseteq Calls
    BY DEF PostCall, StraightCall
  <2>3. \A s, x, z : Tallied(p, s, x, z) => s \in Seq(Calls)
    BY <2>2 DEF Tallied
  <2> QED BY <2>1, <2>3, EpochTallies
<1>10. /\ Post \o <<>> = Post /\ Await(0) \o <<>> = Await(0)
       /\ \A p \in {0, 1} : (CloseEpoch("start") \o Await(p)) \o <<>> = CloseEpoch("start") \o Await(p)
       /\ (Post \o OpenEpoch("start")) \o <<>> = Post \o OpenEpoch("start")
       /\ (Post \o Await(1)) \o <<>> = Post \o Await(1)
  <2> DEFINE o == OpenEpoch("start")
             c == CloseEpoch("start")
  <2>1. \A p \in {0, 1} : Post \in Seq(Calls) /\ Await(p) \in Seq(Calls) /\ o \in Seq(Calls) /\ c \in Seq(Calls)
    BY <1>9
  <2> HIDE DEF o, c
  <2>2. \A s \in Seq(Calls) : s \o <<>> = s
    BY ConcatEmptySeq
  <2>3. \A s, t \in Seq(Calls) : s \o t \in Seq(Calls)
    BY Within0
  <2>4. \A p \in {0, 1} : (c \o Await(p)) \o <<>> = c \o Await(p)
    BY <2>1, <2>2, <2>3
  <2>5. (Post \o o) \o <<>> = Post \o o
    BY <2>1, <2>2, <2>3
  <2>6. (Post \o Await(1)) \o <<>> = Post \o Await(1)
    BY <2>1, <2>2, <2>3
  <2>7. Post \o <<>> = Post /\ Await(0) \o <<>> = Await(0)
    BY <2>1, <2>2
  <2> QED BY <2>4, <2>5, <2>6, <2>7 DEF o, c
<1>11. ASSUME NEW p \in {0, 1}, NEW m \in Nat
       PROVE  OpPtr(b, p) \in Seq(TransfersTo(p)) /\ Times(m, OpPtr(b, p)) \in Seq(TransfersTo(p))
  BY TransferIs, Within0
<1>12. \A s \in Seq(TransfersTo(0)) :
          (OpenEpoch("start") \o s \o CloseEpoch("start")) \o <<>> = OpenEpoch("start") \o s \o CloseEpoch("start")
  <2> SUFFICES ASSUME NEW s \in Seq(TransfersTo(0))
               PROVE  (OpenEpoch("start") \o s \o CloseEpoch("start")) \o <<>> = OpenEpoch("start") \o s \o CloseEpoch("start")
    OBVIOUS
  <2> DEFINE u == OpenEpoch("start") \o s \o CloseEpoch("start")
  <2>1. u \in Posting(0)
    BY EpochsMatch DEF Visiting
  <2>2. u \in Seq(Calls)
    BY <1>1, <2>1
  <2> HIDE DEF u
  <2>3. u \o <<>> = u
    BY <2>2, ConcatEmptySeq
  <2> QED BY <2>3 DEF u
<1>13. /\ \A s, t : Visiting(1, s) /\ Hosting(0, t) => <<s, t>> \in R
       /\ \A s, t : Hosting(1, s) /\ Visiting(0, t) => <<s, t>> \in R
       /\ \A s, t : Crossing(1, s) /\ Crossing(0, t) => <<s, t>> \in R
  BY <1>2 DEF Visiting, Hosting, Crossing, Rendezvous
<1>14. /\ \A s \in Seq(TransfersTo(1)) :
             <<OpPreSync(y) \o s \o OpPostSync(y), NonOpPreSync(y) \o NonOpPostSync(y, 0)>> \in R
       /\ \A s \in Seq(TransfersTo(0)) : <<Ping(y, 1), Pong(y, s)>> \in R
       /\ \A s \in Seq(TransfersTo(1)) : \A t \in Seq(TransfersTo(0)) :
             <<BibwPreSync(y) \o s \o BibwPostSync(y, 1), BibwPreSync(y) \o t \o BibwPostSync(y, 0)>> \in R
  <2>1. ASSUME NEW s \in Seq(TransfersTo(1))
        PROVE  <<OpPreSync(y) \o s \o OpPostSync(y), NonOpPreSync(y) \o NonOpPostSync(y, 0)>> \in R
    <3>1. <<>> \in Seq(TransfersTo(0))
      OBVIOUS
    <3>2. Visiting(1, OpenEpoch("start") \o s \o CloseEpoch("start")) /\ Hosting(0, Post \o Await(0))
      BY <3>1, EpochsMatch
    <3> QED BY <1>8, <1>10, <1>13, <3>2
  <2>2. ASSUME NEW s \in Seq(TransfersTo(0)) PROVE <<Ping(y, 1), Pong(y, s)>> \in R
    <3>1. <<>> \in Seq(TransfersTo(1))
      OBVIOUS
    <3>2. Visiting(0, OpenEpoch("start") \o s \o CloseEpoch("start")) /\ Hosting(1, Post \o Await(1))
      BY <3>1, EpochsMatch
    <3> QED BY <1>8, <1>10, <1>12, <1>13, <3>2
  <2>3. ASSUME NEW s \in Seq(TransfersTo(1)), NEW t \in Seq(TransfersTo(0))
        PROVE  <<BibwPreSync(y) \o s \o BibwPostSync(y, 1), BibwPreSync(y) \o t \o BibwPostSync(y, 0)>> \in R
    <3>1. /\ Crossing(1, (Post \o OpenEpoch("start")) \o s \o (CloseEpoch("start") \o Await(1)))
          /\ Crossing(0, (Post \o OpenEpoch("start")) \o t \o (CloseEpoch("start") \o Await(0)))
      BY EpochsMatch
    <3> QED BY <1>8, <1>10, <1>13, <3>1
  <2> QED BY <2>1, <2>2, <2>3
<1>15. EpochPairs(R, y, b)
  <2>1. \A m \in Nat : <<OpPreSync(y) \o Times(m, OpPtr(b, 1)) \o OpPostSync(y),
                         NonOpPreSync(y) \o NonOpPostSync(y, 0)>> \in R
    BY <1>11, <1>14
  <2>2. <<OpPreSync(y) \o OpPtr(b, 1) \o OpPostSync(y), NonOpPreSync(y) \o NonOpPostSync(y, 0)>> \in R
    <3>1. OpPtr(b, 1) \in Seq(TransfersTo(1))
      BY TransferIs
    <3> QED BY <1>14, <3>1
  <2>3. <<Ping(y, 1), Pong(y, OpPtr(b, 0))>> \in R
    <3>1. OpPtr(b, 0) \in Seq(TransfersTo(0))
      BY TransferIs
    <3> QED BY <1>14, <3>1
  <2>4. \A m \in Nat : <<BibwPreSync(y) \o Times(m, OpPtr(b, 1)) \o BibwPostSync(y, 1),
                         BibwPreSync(y) \o Times(m, OpPtr(b, 0)) \o BibwPostSync(y, 0)>> \in R
    BY <1>11, <1>14
  <2> QED BY <2>1, <2>2, <2>3, <2>4 DEF EpochPairs
<1>16. Pieces(R, y, b)
  BY <1>0, <1>6, <1>7, <1>15, LooseSimple DEF Pieces
<1>17. \A x, t : <<x, t>> \in R => <<x \o LoopUnlock(y), t>> \in R
  <2>1. \A x, t : <<x, t>> \in R => x \in Seq(Calls)
    BY <1>7 DEF Joint
  <2>2. \A x \in Seq(Calls) : x \o <<>> = x
    BY ConcatEmptySeq
  <2> QED BY <1>8, <2>1, <2>2
<1>18. <<Barrier, Barrier>> \in R /\ <<Sync, Sync>> \in R
  BY <1>6, LoosePieces
<1>19. y \in ValidateSyncType(b)
  BY <1>0
<1>20. <<OneSidedProgram(b, y, 0, n, v), OneSidedProgram(b, y, 1, n, v)>> \in R
  BY <1>7, <1>16, <1>17, <1>18, <1>19, OneSidedJoint
<1> QED BY <1>2, <1>20 DEF y

-----------------------------------------------------------------------------
(* What completes the transfers of a benchmark: flushes, fences, or the waits *)
(* of those who are accessed.                                              *)
AllFlushed(b, o) ==
    \A r \in Ranks[b] : Inner(Ranks[b], {}, Scripts[b][o][r]) \/ Scripts[b][o][r] \in Covered
AllFenced(b, o) == Ranks[b] = {0, 1} /\ \A r \in Ranks[b] : Scripts[b][o][r] \in FencedOff
AllAwaited(b, o) ==
    b \in OneSidedBenchmarks /\ Ranks[b] = {0, 1} /\ Rendezvous(Scripts[b][o][0], Scripts[b][o][1])

LEMMA WhatCompletes ==
    ASSUME NEW b \in Benchmarks, b # "osu_latency_mt", NEW o \in OptionsOf(b)
    PROVE  AllFlushed(b, o) \/ AllFenced(b, o) \/ AllAwaited(b, o)
<1>1. CASE o.sync \notin Active
  BY <1>1, ScriptsCovered DEF AllFlushed
<1>2. CASE o.sync \in Active
  <2>1. b \in OneSidedBenchmarks
    <3>1. b \notin OneSidedBenchmarks => o.sync = "none"
      BY DEF OptionsOf, SyncTypes
    <3>2. "none" \notin Active
      BY DEF Active
    <3> QED BY <1>2, <3>1, <3>2
  <2>2. /\ o.validate \in BOOLEAN /\ Head(Windows) \in Nat /\ o.sync \in ValidateSyncType(b)
        /\ o.sync \in {"fence", "pscw"}
    BY <1>2, <2>1, OptionsAre, WindowType DEF Active
  <2>3. Ranks[b] = {0, 1}
    <3>1. {0, 1} \subseteq Ranks[b]
      BY AllRanks
    <3>2. \A r \in Ranks[b] : r \in {0, 1}
      BY <2>1, RanksAre
    <3> QED BY <3>1, <3>2
  <2>4. \A r \in {0, 1} : Scripts[b][o][r] = OneSidedProgram(b, o.sync, r, Head(Windows), o.validate)
    <3> SUFFICES ASSUME NEW r \in {0, 1}
                 PROVE  Scripts[b][o][r] = OneSidedProgram(b, o.sync, r, Head(Windows), o.validate)
      OBVIOUS
    <3>1. r \in Ranks[b]
      BY <2>3
    <3>2. Scripts[b][o][r] = Program(b, r, o)
      BY <3>1, ScriptsAre
    <3>3. Program(b, r, o) = OneSidedProgram(b, o.sync, r, Head(Windows), o.validate)
      BY <2>1, ProgramsAre
    <3> QED BY <3>2, <3>3
  <2>5. 0 \in {0, 1} /\ 1 \in {0, 1}
    OBVIOUS
  <2>6. CASE o.sync = "fence"
    <3>1. /\ OneSidedProgram(b, "fence", 0, Head(Windows), o.validate) \in FencedOff
          /\ OneSidedProgram(b, "fence", 1, Head(Windows), o.validate) \in FencedOff
      BY <2>1, <2>2, <2>6, FencesCovered
    <3>2. Scripts[b][o][0] \in FencedOff /\ Scripts[b][o][1] \in FencedOff
      BY <2>4, <2>5, <2>6, <3>1
    <3> QED BY <2>3, <3>2 DEF AllFenced
  <2>7. CASE o.sync = "pscw"
    <3>1. Rendezvous(OneSidedProgram(b, "pscw", 0, Head(Windows), o.validate),
                     OneSidedProgram(b, "pscw", 1, Head(Windows), o.validate))
      BY <2>1, <2>2, <2>7, PostsCovered
    <3>2. Rendezvous(Scripts[b][o][0], Scripts[b][o][1])
      BY <2>4, <2>5, <2>7, <3>1
    <3> QED BY <2>1, <2>3, <3>2 DEF AllAwaited
  <2> QED BY <2>2, <2>6, <2>7
<1> QED BY <1>1, <1>2

\* Messages are for ranks of the benchmark.
LEMMA PeersAreRanks ==
    ASSUME NEW b \in Benchmarks, b # "osu_latency_mt", NEW o \in OptionsOf(b), NEW r \in Ranks[b],
           NEW c \in ToSet(Scripts[b][o][r]), c.op \in {"isend", "irecv"}
    PROVE  c.peer \in Ranks[b] /\ c.tag \in Tags
<1> DEFINE s == Scripts[b][o][r]
<1>1. s \in Seq(Calls)
  BY CourseExists
<1>2. {0, 1} \subseteq Ranks[b]
  BY AllRanks
<1>3. s \in Seq(StraightCall) \/ Inner(Ranks[b], {}, s)
  <2>1. CASE AllFlushed(b, o)
    BY <2>1, AnsweredOn DEF AllFlushed, Covered
  <2>2. CASE AllFenced(b, o)
    <3>1. s \in Seq(FenceCall)
      BY <2>2, AnsweredOn DEF AllFenced, FencedOff
    <3>2. FenceCall \subseteq StraightCall
      BY DEF FenceCall
    <3> HIDE DEF s
    <3> QED BY <3>1, <3>2
  <2>3. CASE AllAwaited(b, o)
    <3>1. \A p : Posting(p) \subseteq Seq(PostCall(p)) /\ PostCall(p) \subseteq StraightCall
      BY AnsweredOn DEF Posting, PostCall
    <3>2. \A p : Posting(p) \subseteq Seq(StraightCall)
      BY <3>1
    <3>3. s \in Posting(0) \/ s \in Posting(1)
      <4>1. r = 0 \/ r = 1
        BY <2>3 DEF AllAwaited
      <4>2. Scripts[b][o][0] \in Posting(1) /\ Scripts[b][o][1] \in Posting(0)
        BY <2>3 DEF AllAwaited, Rendezvous
      <4> QED BY <4>1, <4>2
    <3> HIDE DEF s
    <3> QED BY <3>2, <3>3
  <2> QED BY <2>1, <2>2, <2>3, WhatCompletes
<1>4. PICK k \in 1 .. Len(s) : c = s[k]
  BY <1>1 DEF ToSet
<1> HIDE DEF s
<1>5. c \in Calls
  BY <1>1, <1>4
<1>6. c \in StraightCall \/ c \in InnerCall(Ranks[b], {})
  BY <1>3, <1>4 DEF Inner
<1>7. c.peer \in Ranks[b]
  BY <1>2, <1>6 DEF StraightCall, InnerCall
<1>8. c.tag \in Tags
  BY <1>5, CallTypes
<1> QED BY <1>7, <1>8

-----------------------------------------------------------------------------
(* What is left when all have finished. *)
\* No sizes have been left out because of errors.
Unbroken == spoiled => bench \notin ReportsErrors

\* An actor that has finished has made all its calls, and is where its course ends.
LEMMA AtTheEnd ==
    ASSUME RunTyped, PlaceTyped, OnCourse, Unbroken, NEW a \in Actors[bench], Finished(a)
    PROVE  /\ a[1] \in Ranks[bench] /\ pc[a] = Len(Script(a)) + 1 /\ Len(Script(a)) \in Nat
           /\ Script(a) = Scripts[bench][opt][a[1]] /\ Script(a) \in Seq(Calls)
           /\ AtRest(Here(a).local) /\ Follows(a)
<1> DEFINE s == Scripts[bench][opt][a[1]]
<1>1. a[1] \in Ranks[bench] /\ Script(a) = s
  BY ActorType DEF RunTyped, Script
<1>2. s \in Seq(Calls) /\ Len(s) \in Nat /\ AtRest(Course(bench, opt, a[1])[Len(s)].local)
  BY <1>1, CourseRuns DEF RunTyped
<1>3. pc[a] \in 1 .. Len(s) + 1 /\ pc[a] > Len(s)
  BY <1>1 DEF PlaceTyped, Finished
<1>4. ~Astray(a)
  BY DEF Astray, Unbroken
<1> HIDE DEF s
<1>5. pc[a] = Len(s) + 1 /\ pc[a] - 1 = Len(s)
  BY <1>2, <1>3
<1>6. AtRest(Here(a).local)
  BY <1>2, <1>5 DEF Here
<1> QED BY <1>1, <1>2, <1>4, <1>5, <1>6 DEF OnCourse, s

\* So all that a rank has to read has been read.
LEMMA AllTold ==
    ASSUME RunTyped, PlaceTyped, OnCourse, Unbroken, Over, NEW n, Paced(n),
           NEW r \in Ranks[bench], NEW K \in Views
    PROVE  Told(n, K, r) = Len(Word(K, r))
<1> DEFINE s == Scripts[bench][opt][r]
<1>1. PICK a \in Actors[bench] : a[1] = r /\ Script(a) = s
  BY RankScript
<1>2. pc[a] = Len(s) + 1 /\ Len(s) \in Nat /\ s \in Seq(Calls)
  BY <1>1, AtTheEnd DEF Over
<1>3. n[r] = pc[a] - 1
  BY <1>1 DEF Paced, Astray, Unbroken
<1> HIDE DEF s
<1>4. n[r] = Len(s) /\ SubSeq(s, 1, Len(s)) = s
  BY <1>2, <1>3, SubSeqFull
<1> QED BY <1>4 DEF Told, Heard, Word, s

\* No message is left, and no receive.
LEMMA NoMessages ==
    ASSUME IInv, Agreement, bench # "osu_latency_mt", Unbroken, Over, NEW c \in Channels[bench]
    PROVE  queue[c] = <<>> /\ posted[c] = <<>>
<1>1. RunTyped /\ PlaceTyped /\ OnCourse /\ MessagesTyped
  BY DEF IInv, Typed
<1>2. PICK n : Agreeing(n, ledger, queue, posted)
  BY DEF Agreement
<1>3. Paced(n) /\ InPairs(n, c, queue[c], posted[c])
  BY <1>2 DEF Agreeing
<1>4. c[1] \in Ranks[bench] /\ c[2] \in Ranks[bench] /\ c[3] \in Tags
  <2> DEFINE all(b) == UNION {UNION {ChannelsOf(Scripts[b][o][r], r) : o \in OptionsOf(b)} : r \in Ranks[b]}
             F == [b \in Benchmarks |-> all(b)]
  <2>1. Channels = Table(F)
    BY DEF Channels
  <2>2. F[bench] = all(bench)
    BY <1>1 DEF RunTyped
  <2>3. c \in all(bench)
    <3> HIDE DEF F, all
    <3> QED BY <1>1, <2>1, <2>2, Tables DEF RunTyped
  <2>4. PICK r \in Ranks[bench] : c \in UNION {ChannelsOf(Scripts[bench][o][r], r) : o \in OptionsOf(bench)}
    BY <2>3
  <2>5. PICK o \in OptionsOf(bench) : c \in ChannelsOf(Scripts[bench][o][r], r)
    BY <2>4
  <2> HIDE DEF F, all
  <2>6. PICK m \in ToSet(Scripts[bench][o][r]) :
           /\ m.op \in {"isend", "irecv"}
           /\ c = <<r, m.peer, m.tag>> \/ c = <<m.peer, r, m.tag>>
    BY <2>5 DEF ChannelsOf
  <2>7. m.peer \in Ranks[bench] /\ m.tag \in Tags
    BY <1>1, <2>6, PeersAreRanks DEF RunTyped
  <2> QED BY <2>6, <2>7
<1> DEFINE X == To(c[2], c[3])
           Y == From(c[1], c[3])
<1>5. Word(X, c[1]) = Word(Y, c[2])
  BY <1>1, <1>4, SameWords
<1>6. X \in Views /\ Y \in Views
  BY AreViews
<1>7. Told(n, X, c[1]) = Len(Word(X, c[1])) /\ Told(n, Y, c[2]) = Len(Word(Y, c[2]))
  <2> HIDE DEF X, Y
  <2> QED BY <1>1, <1>3, <1>4, <1>6, AllTold
<1>8. Told(n, X, c[1]) + Len(posted[c]) = Told(n, Y, c[2]) + Len(queue[c])
  BY <1>3 DEF InPairs, Balanced
<1>9. Told(n, X, c[1]) \in Nat
  <2> HIDE DEF X, Y
  <2> QED BY <1>1, <1>3, <1>6, ToldType
<1> HIDE DEF X, Y
<1>10. /\ queue[c] \in Seq(Sent) /\ posted[c] \in Seq(Awaited)
       /\ queue[c] = <<>> \/ posted[c] = <<>>
  BY <1>1 DEF MessagesTyped
<1>11. Len(posted[c]) = Len(queue[c]) /\ Len(queue[c]) = 0
  <2>1. Told(n, X, c[1]) = Told(n, Y, c[2])
    BY <1>5, <1>7
  <2>2. Len(queue[c]) \in Nat /\ Len(posted[c]) \in Nat /\ (Len(queue[c]) = 0 \/ Len(posted[c]) = 0)
    BY <1>10
  <2>3. Len(posted[c]) = Len(queue[c])
    BY <1>8, <1>9, <2>1, <2>2
  <2> QED BY <2>2, <2>3
<1> QED BY <1>10, <1>11

\* Nobody waits for a message.
LEMMA NothingOwed ==
    ASSUME IInv, \A c \in Channels[bench] : queue[c] = <<>> /\ posted[c] = <<>>,
           NEW a \in Actors[bench]
    PROVE  pending[a] = [isend |-> 0, irecv |-> 0]
<1>1. \A G : Found(queue, Channels[bench], G) = {} /\ Found(posted, Channels[bench], G) = {}
  <2>1. \A c \in Channels[bench] : Len(queue[c]) = 0 /\ Len(posted[c]) = 0
    OBVIOUS
  <2> QED BY <2>1 DEF Found
<1>2. pending[a].irecv = 0 /\ pending[a].isend = 0
  <2>1. Cardinality({}) = 0
    BY FS_EmptySet
  <2> QED BY <1>1, <2>1 DEF IInv, Waiting, Owed
<1>3. pending[a] \in [isend : Nat, irecv : Nat]
  BY DEF IInv, Typed, MessagesTyped
<1> QED BY <1>2, <1>3

\* No collective operation is left.
LEMMA NoOperations ==
    ASSUME IInv, Agreement, Gathered(ledger), bench # "osu_latency_mt", Unbroken, Over
    PROVE  ledger = <<>>
<1>1. RunTyped /\ PlaceTyped /\ OnCourse /\ LedgerTyped /\ Inside
  BY DEF IInv, Typed
<1>2. PICK n : Agreeing(n, ledger, queue, posted)
  BY DEF Agreement
<1>3. Paced(n) /\ InStep(n, ledger)
  BY <1>2 DEF Agreeing
<1> SUFFICES ASSUME ledger # <<>> PROVE FALSE
  OBVIOUS
<1>4. 1 \in DOMAIN ledger /\ ledger \in Seq(Entries) /\ ledger[1] \in Entries
  BY <1>1 DEF LedgerTyped, Ledgers
<1>5. PICK q \in DOMAIN ledger[1].in : TRUE
  BY <1>4 DEF Gathered
<1>6. q \in Ranks[bench] /\ ledger[1].out \subseteq Ranks[bench]
  BY <1>4, EntryFields
<1>7. \A r \in Ranks[bench] : r \in DOMAIN ledger[1].in
  <2> SUFFICES ASSUME NEW r \in Ranks[bench] PROVE r \in DOMAIN ledger[1].in
    OBVIOUS
  <2>1. Told(n, Agreed, r) = Len(Word(Agreed, r)) /\ Told(n, Agreed, q) = Len(Word(Agreed, q))
    BY <1>1, <1>3, <1>6, AllTold, AreViews
  <2>2. Word(Agreed, r) = Word(Agreed, q)
    BY <1>1, <1>6, SameWords
  <2>3. \E B \in Nat : \A x \in Ranks[bench] : x \in DOMAIN ledger[1].in <=> B + 1 <= Told(n, Agreed, x)
    BY <1>3, <1>4 DEF InStep
  <2> QED BY <1>5, <1>6, <2>1, <2>2, <2>3
<1>8. ASSUME NEW r \in Ranks[bench] PROVE ~IsIn(ledger, r)
  <2>1. ASSUME NEW a \in Actors[bench] PROVE Phase(a) = "out"
    BY <1>1, AtTheEnd DEF Over, AtRest, Phase
  <2>2. ~\E a \in Actors[bench] : a[1] = r /\ Phase(a) = "in"
    BY <2>1
  <2> QED BY <1>1, <2>2 DEF Inside
<1>9. \A r \in Ranks[bench] : r \in ledger[1].out
  BY <1>4, <1>7, <1>8 DEF IsIn
<1> QED BY <1>6, <1>9 DEF Gathered

\* No epoch is open.
LEMMA NoEpochs ==
    ASSUME IInv, Unbroken, Over, NEW r \in Ranks[bench]
    PROVE  access[r] \notin {"lock", "start"}
<1>1. RunTyped /\ PlaceTyped /\ OnCourse
  BY DEF IInv, Typed
<1>2. PICK a \in Actors[bench] : a[1] = r
  BY <1>1, RankScript
<1>3. AtRest(Here(a).local) /\ Follows(a)
  BY <1>1, AtTheEnd DEF Over
<1>4. Here(a).local.access = access[r]
  BY <1>2, <1>3, Known DEF Follows, Standing
<1> QED BY <1>3, <1>4 DEF AtRest

\* But for what is in flight nothing is left behind.
LEMMA LittleLeft ==
    ASSUME IInv, Agreement, Gathered(ledger), bench # "osu_latency_mt", Unbroken,
           Over => \A r \in Ranks[bench] : InFlight(r) = {}
    PROVE  NothingLeftBehind
BY NoMessages, NothingOwed, NoOperations, NoEpochs DEF NothingLeftBehind

-----------------------------------------------------------------------------
(* What is in flight. *)
\* The transfer that an actor is about to start.
Transfer(a) == [to |-> Now(a).peer, fetch |-> Now(a).fetch, via |-> access[a[1]], age |-> age[a[1]]]

\* Only a call for a transfer adds to what is in flight, and only for its rank.
LEMMA FlightChanges ==
    ASSUME RunTyped, PlaceTyped, RemoteTyped, NEW a \in Actors[bench], Acts(a)
    PROVE  /\ \A r \in Ranks[bench] : r # a[1] => InFlight(r)' = InFlight(r)
           /\ Access(a) => InFlight(a[1])' \subseteq InFlight(a[1]) \cup {Transfer(a)}
           /\ ~Access(a) => InFlight(a[1])' \subseteq InFlight(a[1])
<1> DEFINE r == a[1]
<1>1. r \in Ranks[bench] /\ air = [q \in Ranks[bench] |-> air[q]]
  BY ActorType DEF RemoteTyped, RunTyped
<1>2. ASSUME NEW C, air' = [air EXCEPT ![r] = @ (+) C] \/ air' = [air EXCEPT ![r] = @ (-) C]
      PROVE  /\ \A q \in Ranks[bench] : q # r => InFlight(q)' = InFlight(q)
             /\ air'[r] = air[r] (+) C \/ air'[r] = air[r] (-) C
  <2>1. \A q \in Ranks[bench] : q # r => air'[q] = air[q]
    BY <1>1, <1>2
  <2>2. air'[r] = air[r] (+) C \/ air'[r] = air[r] (-) C
    BY <1>1, <1>2
  <2> QED BY <2>1, <2>2 DEF InFlight
<1>3. \A B, C : /\ BagToSet(B (+) C) \subseteq BagToSet(B) \cup BagToSet(C)
                /\ BagToSet(B (-) C) \subseteq BagToSet(B)
  BY DEF BagToSet, (+), (-)
<1>4. \A o : BagToSet(SetToBag({o})) = {o}
  BY DEF BagToSet, SetToBag
<1>5. CASE Access(a)
  <2> DEFINE C == SetToBag({Transfer(a)})
  <2>1. air' = [air EXCEPT ![r] = @ (+) C]
    BY <1>5 DEF Access, Issue, Transfer
  <2>2. BagToSet(C) = {Transfer(a)}
    BY <1>4
  <2> HIDE DEF C
  <2>3. \A q \in Ranks[bench] : q # r => InFlight(q)' = InFlight(q)
    BY <1>2, <2>1
  <2>4. air'[r] = air[r] (+) C
    BY <1>1, <2>1
  <2>5. BagToSet(air'[r]) \subseteq BagToSet(air[r]) \cup {Transfer(a)}
    BY <1>3, <2>2, <2>4
  <2> QED BY <1>5, <2>3, <2>5 DEF InFlight
<1>6. CASE Land(a)
  <2>1. PICK o : air' = [air EXCEPT ![r] = @ (-) SetToBag({o})]
    BY <1>6 DEF Land, LandOne
  <2> DEFINE C == SetToBag({o})
  <2>2. air' = [air EXCEPT ![r] = @ (-) C]
    BY <2>1
  <2> HIDE DEF C
  <2>3. \A q \in Ranks[bench] : q # r => InFlight(q)' = InFlight(q)
    BY <1>2, <2>2
  <2>4. air'[r] = air[r] (-) C
    BY <1>1, <2>2
  <2>5. BagToSet(air'[r]) \subseteq BagToSet(air[r])
    BY <1>3, <2>4
  <2> QED BY <2>3, <2>5 DEF InFlight
<1>7. CASE ~Access(a) /\ ~Land(a)
  <2>1. air' = air
    <3>1. EnterCollective(a) => air' = air
      BY DEF EnterCollective, BeginAccess, remote
    <3>2. Open(a) \/ Close(a) \/ Expose(a) => air' = air
      BY DEF Open, Close, Expose, BeginAccess, EndAccess, BeginExposure
    <3> QED BY <1>7, <3>1, <3>2, Frames DEF remote
  <2>2. \A q : InFlight(q)' = InFlight(q)
    BY <2>1 DEF InFlight
  <2> QED BY <1>7, <2>2
<1> QED BY <1>5, <1>6, <1>7

\* What the next call of an actor is, if it is that what happens.
LEMMA Calling ==
    ASSUME NEW a, Acts(a), ~Land(a)
    PROVE  /\ Now(a).op \in {"flush", "await"} => Synchronised(a)
           /\ Now(a).op = "rma" <=> Access(a)
           /\ Now(a).op = "enter" <=> EnterCollective(a)
           /\ Now(a).op = "leave" <=> LeaveCollective(a)
           /\ Now(a).op = "open" <=> Open(a)
           /\ Now(a).op = "close" <=> Close(a)
           /\ Now(a).op = "post" <=> Expose(a)
           /\ Now(a).op = "check" <=> CheckBuffer(a)
           /\ Now(a).op = "clear" <=> Clear(a)
           /\ Now(a).op = "break" <=> Break(a)
           /\ Now(a).op = "report" <=> ReportErrors(a)
<1> DEFINE Is(op) == Now(a).op = op
<1>1. \A o : At(a, {o}) => Is(o)
  BY DEF At, Now
<1>2. /\ PostSend(a) => Is("isend")
      /\ PostReceive(a) => Is("irecv")
      /\ EnterCollective(a) => Is("enter")
      /\ LeaveCollective(a) => Is("leave")
      /\ Meet(a) => Is("meet")
      /\ Access(a) => Is("rma")
      /\ TouchMemory(a) => Is("touch")
      /\ Return(a) => Is("wait")
  <2> HIDE DEF Is
  <2> QED BY <1>1 DEF PostSend, PostReceive, EnterCollective, LeaveCollective, Meet, Access, TouchMemory, Return
<1>3. /\ Elect(a) => Is("elect")
      /\ Start(a) => Is("start")
      /\ Stop(a) => Is("stop")
      /\ AddSample(a) => Is("sample")
      /\ FillBuffers(a) => Is("fill")
      /\ CheckBuffer(a) => Is("check")
      /\ Clear(a) => Is("clear")
      /\ Break(a) => Is("break")
      /\ ReportErrors(a) => Is("report")
  <2> HIDE DEF Is
  <2> QED BY <1>1 DEF Elect, Start, Stop, AddSample, FillBuffers, CheckBuffer, Clear, Break, ReportErrors
<1>4. /\ SetActive(a) => Is("in_place")
      /\ InitRequest(a) => Is("init")
      /\ FreeRequest(a) => Is("free")
      /\ Synchronised(a) => Is("flush") \/ Is("await")
      /\ Open(a) => Is("open")
      /\ Close(a) => Is("close")
      /\ Expose(a) => Is("post")
  <2> HIDE DEF Is
  <2> QED BY <1>1 DEF SetActive, InitRequest, FreeRequest, Synchronised, Open, Close, Expose
<1> QED BY <1>2, <1>3, <1>4 DEF Acts

\* A call of A has been made, and none of B since.
Unanswered(a, A, B) ==
    \E j \in 1 .. pc[a] - 1 : /\ Script(a)[j] \in A
                              /\ \A i \in j + 1 .. pc[a] - 1 : Script(a)[i] \notin B

\* So it stays until a call of B; an actor that stays where it is answers nothing.
LEMMA UnansweredOn ==
    ASSUME RunTyped, PlaceTyped, UNCHANGED run, NEW a \in Actors[bench], NEW A, NEW B
    PROVE  /\ pc'[a] = pc[a] => Unanswered(a, A, B)' = Unanswered(a, A, B)
           /\ pc'[a] = pc[a] + 1 /\ Now(a) \in A => Unanswered(a, A, B)'
           /\ pc'[a] = pc[a] + 1 /\ Now(a) \notin B /\ Unanswered(a, A, B) => Unanswered(a, A, B)'
<1> DEFINE s == Script(a)
           Since(p) == \E j \in 1 .. p - 1 : s[j] \in A /\ \A i \in j + 1 .. p - 1 : s[i] \notin B
<1>1. pc[a] \in Nat \ {0}
  BY DEF PlaceTyped
<1>2. Script(a)' = s
  BY DEF Script, run
<1>3. Unanswered(a, A, B) = Since(pc[a]) /\ Now(a) = s[pc[a]]
  BY DEF Unanswered, Now
<1>4. Unanswered(a, A, B)' = Since(pc'[a])
  BY <1>2 DEF Unanswered
<1> HIDE DEF s
<1>5. s[pc[a]] \in A => Since(pc[a] + 1)
  <2>1. pc[a] \in 1 .. (pc[a] + 1) - 1 /\ \A i \in pc[a] + 1 .. (pc[a] + 1) - 1 : FALSE
    BY <1>1
  <2> QED BY <2>1
<1>6. Since(pc[a]) /\ s[pc[a]] \notin B => Since(pc[a] + 1)
  <2> SUFFICES ASSUME Since(pc[a]), s[pc[a]] \notin B PROVE Since(pc[a] + 1)
    OBVIOUS
  <2>1. PICK j \in 1 .. pc[a] - 1 : s[j] \in A /\ \A i \in j + 1 .. pc[a] - 1 : s[i] \notin B
    OBVIOUS
  <2>2. j \in 1 .. (pc[a] + 1) - 1
    BY <1>1
  <2>3. \A i \in j + 1 .. (pc[a] + 1) - 1 : i \in j + 1 .. pc[a] - 1 \/ i = pc[a]
    BY <1>1
  <2>4. \A i \in j + 1 .. (pc[a] + 1) - 1 : s[i] \notin B
    BY <2>1, <2>3
  <2> QED BY <2>1, <2>2, <2>4
<1> HIDE DEF Since
<1>7. pc'[a] = pc[a] + 1 => Since(pc'[a]) = Since(pc[a] + 1)
  OBVIOUS
<1>8. pc'[a] = pc[a] => Since(pc'[a]) = Since(pc[a])
  OBVIOUS
<1> QED BY <1>3, <1>4, <1>5, <1>6, <1>7, <1>8

\* An actor that has made all its calls has had its answers.
LEMMA AllAnswered ==
    ASSUME NEW a, NEW A, NEW B, NEW C, Script(a) \in Answered(C, A, B), pc[a] = Len(Script(a)) + 1
    PROVE  ~Unanswered(a, A, B)
<1> DEFINE s == Script(a)
<1>1. /\ \A k \in 1 .. Len(s) : s[k] \in A => \E j \in k + 1 .. Len(s) : s[j] \in B
      /\ Len(s) \in Nat
  BY DEF Answered
<1>2. pc[a] - 1 = Len(s)
  BY <1>1
<1> HIDE DEF s
<1> QED BY <1>1, <1>2 DEF Unanswered, s

-----------------------------------------------------------------------------
(* Transfers that are completed by flushes. *)
\* As long as something is in flight its rank still has to flush.
FlushesDue ==
    bench # "osu_latency_mt" /\ AllFlushed(bench, opt) =>
        \A a \in Actors[bench] :
            InFlight(a[1]) # {} => Unanswered(a, TransferCalls, FlushCalls)

\* What an actor of such a benchmark runs.
LEMMA FlushedScripts ==
    ASSUME RunTyped, AllFlushed(bench, opt), NEW a \in Actors[bench]
    PROVE  \/ Script(a) \in Covered
           \/ pc[a] - 1 \in 0 .. Len(Script(a)) => ~Unanswered(a, TransferCalls, FlushCalls)
<1>1. a[1] \in Ranks[bench] /\ Script(a) = Scripts[bench][opt][a[1]]
  BY ActorType DEF RunTyped, Script
<1>2. CASE Inner(Ranks[bench], {}, Script(a))
  <2> DEFINE s == Script(a)
  <2>1. \A k \in 1 .. Len(s) : s[k] \notin TransferCalls
    BY <1>2 DEF Inner, InnerCall, TransferCalls
  <2>2. ASSUME pc[a] - 1 \in 0 .. Len(s) PROVE ~Unanswered(a, TransferCalls, FlushCalls)
    <3>1. Len(s) \in Nat
      BY <1>2 DEF Inner
    <3> HIDE DEF s
    <3>2. \A j \in 1 .. pc[a] - 1 : j \in 1 .. Len(s)
      BY <2>2, <3>1
    <3> QED BY <2>1, <3>2 DEF Unanswered, s
  <2> QED BY <2>2
<1> QED BY <1>1, <1>2 DEF AllFlushed

\* Every call keeps it so.
LEMMA FlushesDueStep ==
    ASSUME IInv, FlushesDue, NEW a \in Actors[bench], Acts(a)
    PROVE  FlushesDue'
<1>1. /\ RunTyped /\ PlaceTyped /\ OnCourse /\ ClockTyped /\ Blame /\ RemoteTyped
      /\ UNCHANGED run /\ bench' = bench /\ opt' = opt
  BY Frames DEF IInv, Typed, run
<1>2. AllFlushed(bench, opt)' = AllFlushed(bench, opt)
  BY <1>1
<1> SUFFICES ASSUME bench # "osu_latency_mt", AllFlushed(bench, opt), NEW b \in Actors[bench],
                    InFlight(b[1])' # {}
             PROVE  Unanswered(b, TransferCalls, FlushCalls)'
  BY <1>1, <1>2 DEF FlushesDue
<1>3. b[1] \in Ranks[bench] /\ Len(Script(b)) \in Nat /\ pc[b] \in 1 .. Len(Script(b)) + 1
  <2>1. b[1] \in Ranks[bench]
    BY <1>1, ActorType DEF RunTyped
  <2>2. Script(b) \in Seq(Calls)
    BY <1>1, <2>1, RankScript DEF Script
  <2> QED BY <1>1, <2>1, <2>2 DEF PlaceTyped
<1>4. InFlight(b[1]) # {} => Unanswered(b, TransferCalls, FlushCalls)
  BY DEF FlushesDue
<1>5. CASE b # a
  <2>1. b[1] # a[1]
    BY <1>1, <1>5, OnlyOne
  <2>2. InFlight(b[1])' = InFlight(b[1])
    BY <1>1, <1>3, <2>1, FlightChanges
  <2>3. pc'[b] = pc[b]
    BY <1>1, <1>5, Going
  <2> QED BY <1>1, <1>4, <2>2, <2>3, UnansweredOn
<1>6. CASE b = a
  <2>1. CASE pc'[a] = pc[a] /\ (Land(a) \/ Meet(a))
    <3>1. ~Access(a)
      <4>1. Access(a) => pc'[a] = pc[a] + 1
        BY <1>1 DEF Access, Advance, Goto, PlaceTyped
      <4>2. pc[a] \in Nat
        BY <1>1 DEF PlaceTyped
      <4> QED BY <2>1, <4>1, <4>2
    <3>2. InFlight(a[1]) # {}
      BY <1>1, <1>6, <3>1, FlightChanges
    <3> QED BY <1>1, <1>4, <1>6, <2>1, <3>2, UnansweredOn
  <2>2. CASE pc'[a] = pc[a] + 1
    <3>1. CASE Access(a)
      <4>1. At(a, {"rma"})
        BY <3>1 DEF Access
      <4>2. Now(a) \in TransferCalls
        BY <1>1, <4>1, Doing DEF TransferCalls
      <4> QED BY <1>1, <1>6, <2>2, <4>2, UnansweredOn
    <3>2. CASE ~Access(a)
      <4>1. InFlight(a[1])' \subseteq InFlight(a[1])
        BY <1>1, <3>2, FlightChanges
      <4>2. Now(a) \notin FlushCalls
        <5> SUFFICES ASSUME Now(a) \in FlushCalls PROVE FALSE
          OBVIOUS
        <5>1. Now(a).op = "flush" /\ Now(a).which = "all"
          BY DEF FlushCalls
        <5>2. ~Land(a)
          <6>1. pc[a] \in Nat
            BY <1>1 DEF PlaceTyped
          <6> QED BY <2>2, <6>1 DEF Land
        <5>3. Synchronised(a)
          BY <5>1, <5>2, Calling
        <5>4. ~At(a, {"await"})
          BY <5>1 DEF At, Now
        <5>5. Flushed(a[1], Now(a).which)
          BY <5>3, <5>4 DEF Synchronised
        <5>6. InFlight(a[1]) = {}
          BY <5>1, <5>5 DEF Flushed
        <5> QED BY <1>6, <4>1, <5>6
      <4> QED BY <1>1, <1>4, <1>6, <2>2, <4>1, <4>2, UnansweredOn
    <3> QED BY <3>1, <3>2
  <2>3. CASE Break(a) /\ At(a, {"break"})
    <3>1. Now(a).op = "break" /\ pc[a] \in 1 .. Len(Script(a)) /\ Script(a) \in Seq(Calls)
      BY <1>1, <2>3, Doing
    <3>2. Script(a) \notin Covered
      <4>1. Covered \subseteq Seq(StraightCall)
        BY AnsweredOn DEF Covered
      <4>2. ASSUME Script(a) \in Seq(StraightCall) PROVE FALSE
        <5>1. Script(a)[pc[a]] \in StraightCall
          BY <3>1, <4>2
        <5> QED BY <3>1, <5>1 DEF StraightCall, Now
      <4> QED BY <4>1, <4>2
    <3>3. pc[a] - 1 \in 0 .. Len(Script(a))
      BY <1>3, <1>6
    <3>4. ~Unanswered(a, TransferCalls, FlushCalls)
      BY <1>1, <3>2, <3>3, FlushedScripts
    <3>5. ~Access(a)
      <4>1. Access(a) => At(a, {"rma"})
        BY DEF Access
      <4> QED BY <3>1, <4>1 DEF At, Now
    <3>6. InFlight(a[1])' = {}
      BY <1>1, <1>4, <1>6, <3>4, <3>5, FlightChanges
    <3> QED BY <1>6, <3>6
  <2> QED BY <1>1, <2>1, <2>2, <2>3, Going
<1> QED BY <1>5, <1>6

\* At the end nothing is in flight.
LEMMA FlushesDone ==
    ASSUME IInv, FlushesDue, bench # "osu_latency_mt", AllFlushed(bench, opt), Unbroken, Over,
           NEW r \in Ranks[bench]
    PROVE  InFlight(r) = {}
<1>1. RunTyped /\ PlaceTyped /\ OnCourse
  BY DEF IInv, Typed
<1>2. PICK a \in Actors[bench] : a[1] = r
  BY <1>1, RankScript
<1>3. pc[a] = Len(Script(a)) + 1 /\ Len(Script(a)) \in Nat
  BY <1>1, AtTheEnd DEF Over
<1>4. ~Unanswered(a, TransferCalls, FlushCalls)
  <2>1. CASE Script(a) \in Covered
    BY <1>3, <2>1, AllAnswered DEF Covered
  <2>2. CASE Script(a) \notin Covered
    <3>1. pc[a] - 1 \in 0 .. Len(Script(a))
      BY <1>3
    <3> QED BY <1>1, <2>2, <3>1, FlushedScripts
  <2> QED BY <2>1, <2>2
<1> QED BY <1>2, <1>4 DEF FlushesDue

-----------------------------------------------------------------------------
(* Transfers that are completed by fences. *)
\* What an entry of the list keeps when a rank enters.
LEMMA EntriesStay ==
    ASSUME RunTyped, PlaceTyped, DataTyped, RemoteTyped, LedgerTyped,
           NEW a \in Actors[bench], EnterCollective(a), NEW k \in DOMAIN ledger
    PROVE  /\ k \in DOMAIN ledger' /\ ledger'[k].kind = ledger[k].kind /\ ledger'[k].out = ledger[k].out
           /\ \A q \in DOMAIN ledger[k].in :
                 q \in DOMAIN ledger'[k].in /\ ledger'[k].in[q] = ledger[k].in[q]
<1> DEFINE r == a[1]
           i == EntryOf(r)
           p == [stamp |-> buffer[a].stamp, errors |-> errors[a], age |-> age[r] + 1]
           op == Now(a)
<1>1. /\ At(a, {"enter"})
      /\ IF i > Len(ledger) THEN ledger' = Append(ledger, Opened(op, r, p))
                            ELSE ledger' = Joined(ledger, i, r, p)
  BY DEF EnterCollective, Opened, Joined
<1>2. r \in Ranks[bench] /\ op \in Calls /\ op.op = "enter"
  BY <1>1, Doing
<1>3. p \in Parts
  <2>1. buffer[a].stamp \in Stamps /\ errors[a] \in BOOLEAN /\ age[r] + 1 \in Nat
    BY <1>2 DEF DataTyped, RemoteTyped
  <2> QED BY <2>1 DEF Parts
<1>4. /\ i \in 1 .. Len(ledger) + 1 /\ Len(ledger) \in Nat
      /\ i <= Len(ledger) => r \notin DOMAIN ledger[i].in
  BY NextEntry DEF LedgerTyped
<1>5. ledger \in Seq(Entries) /\ DOMAIN ledger = 1 .. Len(ledger) /\ ledger[k] \in Entries
  BY DEF LedgerTyped, Ledgers
<1> HIDE DEF p, op, i, r
<1>6. CASE i > Len(ledger)
  <2> DEFINE e == Opened(op, r, p)
  <2>1. e \in Entries
    BY <1>2, <1>3, OpenedFields
  <2> HIDE DEF e
  <2>2. k \in DOMAIN ledger' /\ ledger'[k] = ledger[k]
    BY <1>1, <1>5, <1>6, <2>1 DEF e
  <2> QED BY <2>2
<1>7. CASE ~(i > Len(ledger))
  <2> DEFINE e == Joining(ledger[i], r, p)
  <2>1. i \in DOMAIN ledger /\ ledger[i] \in Entries /\ r \notin DOMAIN ledger[i].in
    BY <1>4, <1>5, <1>7
  <2>2. /\ DOMAIN e.in = DOMAIN ledger[i].in \cup {r} /\ e.out = ledger[i].out
        /\ \A q \in DOMAIN ledger[i].in : q # r => e.in[q] = ledger[i].in[q]
    BY <1>2, <1>3, <2>1, JoiningFields
  <2>3. e.kind = ledger[i].kind
    BY <2>1 DEF Joining, Entries
  <2>4. ledger' = [ledger EXCEPT ![i] = e]
    BY <1>1, <1>7 DEF Joined, Joining
  <2> HIDE DEF e
  <2>5. CASE k = i
    <3>1. ledger'[k] = e /\ k \in DOMAIN ledger'
      BY <1>5, <2>1, <2>4, <2>5
    <3> QED BY <2>1, <2>2, <2>3, <2>5, <3>1
  <2>6. CASE k # i
    <3>1. ledger'[k] = ledger[k] /\ k \in DOMAIN ledger'
      BY <1>5, <2>1, <2>4, <2>6
    <3> QED BY <3>1
  <2> QED BY <2>5, <2>6
<1> QED BY <1>6, <1>7

\* A rank that enters a fence finds one, or opens one, that nobody has left.
LEMMA FenceEntered ==
    ASSUME RunTyped, PlaceTyped, DataTyped, RemoteTyped, LedgerTyped, Gathered(ledger),
           "collective" \notin wrong', NEW a \in Actors[bench], EnterCollective(a), Now(a).kind = "fence"
    PROVE  LET k == EntryOf(a[1]) IN
           /\ k \in DOMAIN ledger' /\ ledger'[k].kind = "fence" /\ ledger'[k].out = {}
           /\ a[1] \in DOMAIN ledger'[k].in /\ ledger'[k].in[a[1]].age = age[a[1]] + 1
<1> DEFINE r == a[1]
           i == EntryOf(r)
           p == [stamp |-> buffer[a].stamp, errors |-> errors[a], age |-> age[r] + 1]
           op == Now(a)
<1>1. /\ At(a, {"enter"})
      /\ IF i > Len(ledger) THEN ledger' = Append(ledger, Opened(op, r, p))
                            ELSE ledger' = Joined(ledger, i, r, p)
  BY DEF EnterCollective, Opened, Joined
<1>w. ~(i > Len(ledger)) => ledger[i].kind = op.kind
  BY DEF EnterCollective, Complain
<1>2. r \in Ranks[bench] /\ op \in Calls /\ op.op = "enter" /\ op.kind = "fence"
  BY <1>1, Doing
<1>3. p \in Parts /\ p.age = age[r] + 1
  <2>1. buffer[a].stamp \in Stamps /\ errors[a] \in BOOLEAN /\ age[r] + 1 \in Nat
    BY <1>2 DEF DataTyped, RemoteTyped
  <2> QED BY <2>1 DEF Parts
<1>4. /\ i \in 1 .. Len(ledger) + 1 /\ Len(ledger) \in Nat
      /\ i <= Len(ledger) => r \notin DOMAIN ledger[i].in
  BY NextEntry DEF LedgerTyped
<1>5. ledger \in Seq(Entries) /\ DOMAIN ledger = 1 .. Len(ledger)
  BY DEF LedgerTyped, Ledgers
<1> HIDE DEF p, op, i, r
<1>6. CASE i > Len(ledger)
  <2> DEFINE e == Opened(op, r, p)
  <2>1. e \in Entries /\ e.out = {} /\ DOMAIN e.in = {r} /\ e.in[r] = p
    BY <1>2, <1>3, OpenedFields
  <2>2. e.kind = "fence"
    BY <1>2 DEF Opened
  <2> HIDE DEF e
  <2>3. i = Len(ledger) + 1 /\ ledger' = Append(ledger, e)
    BY <1>1, <1>4, <1>6 DEF e
  <2>4. i \in DOMAIN ledger' /\ ledger'[i] = e
    BY <1>4, <1>5, <2>1, <2>3
  <2> QED BY <1>3, <2>1, <2>2, <2>4 DEF i, r
<1>7. CASE ~(i > Len(ledger))
  <2> DEFINE e == Joining(ledger[i], r, p)
  <2>1. i \in DOMAIN ledger /\ ledger[i] \in Entries /\ r \notin DOMAIN ledger[i].in
    BY <1>4, <1>5, <1>7
  <2>2. DOMAIN e.in = DOMAIN ledger[i].in \cup {r} /\ e.out = ledger[i].out /\ e.in[r] = p
    BY <1>2, <1>3, <2>1, JoiningFields
  <2>3. e.kind = ledger[i].kind
    BY <2>1 DEF Joining, Entries
  <2>4. ledger' = [ledger EXCEPT ![i] = e]
    BY <1>1, <1>7 DEF Joined, Joining
  <2> HIDE DEF e
  <2>5. ledger[i].kind = "fence"
    BY <1>2, <1>7, <1>w
  <2>6. ledger[i].out = {}
    <3>1. "fence" \in Meetings
      BY DEF Meetings
    <3> QED BY <1>2, <2>1, <2>5, <3>1 DEF Gathered
  <2>7. i \in DOMAIN ledger' /\ ledger'[i] = e
    BY <2>1, <2>4
  <2> QED BY <1>3, <2>2, <2>3, <2>5, <2>6, <2>7 DEF i, r
<1> QED BY <1>6, <1>7

-----------------------------------------------------------------------------
\* A fence that rank q has entered after its transfer o, and that the other side
\* has not left.
FenceAwaited(L, q, o) ==
    \E k \in DOMAIN L : /\ L[k].kind = "fence" /\ q \in DOMAIN L[k].in
                        /\ o.age < L[k].in[q].age /\ o.to \notin L[k].out

\* It is awaited as long as the transfer is in flight: nobody who is its target
\* leaves the fence before.
LEMMA FenceLeft ==
    ASSUME RunTyped, PlaceTyped, OnCourse, LedgerTyped, Inside, NEW a \in Actors[bench],
           LeaveCollective(a), NEW q, NEW o \in InFlight(q), o.to \in Ranks[bench],
           FenceAwaited(ledger, q, o)
    PROVE  FenceAwaited(ledger', q, o)
<1> DEFINE r == a[1]
           i == UnderWay(r)
           left == Parted(ledger, i, r)
<1>1. /\ At(a, {"leave"}) /\ Complete(r)
      /\ ledger' = IF left[1].out = Ranks[bench] THEN Tail(left) ELSE left
  BY DEF LeaveCollective, Parted
<1>2. r \in Ranks[bench] /\ Phase(a) = "in"
  BY <1>1, Doing, PhaseLeaves
<1>3. IsIn(ledger, r)
  <2> HIDE DEF r
  <2>1. a[1] = r
    BY DEF r
  <2> QED BY <1>2, <2>1 DEF Inside
<1>4. i \in DOMAIN ledger
  BY <1>3, EntryUnderWay DEF LedgerTyped
<1>5. ledger \in Seq(Entries) /\ DOMAIN ledger = 1 .. Len(ledger) /\ Len(ledger) \in Nat
  BY DEF LedgerTyped, Ledgers
<1>6. PICK k \in DOMAIN ledger : /\ ledger[k].kind = "fence" /\ q \in DOMAIN ledger[k].in
                                 /\ o.age < ledger[k].in[q].age /\ o.to \notin ledger[k].out
  BY DEF FenceAwaited
<1>7. k = i => o.to # r
  <2> SUFFICES ASSUME k = i PROVE o.to # r
    OBVIOUS
  <2> DEFINE ages == [x \in DOMAIN ledger[i].in |-> ledger[i].in[x].age]
  <2>1. Fenced(r, ages)
    BY <1>1, <1>6 DEF Complete
  <2>2. q \in DOMAIN ages /\ o.age < ages[q]
    BY <1>6
  <2> HIDE DEF ages
  <2> QED BY <2>1, <2>2 DEF Fenced
<1> HIDE DEF i, r
<1> DEFINE e == Parting(ledger[i], r)
<1>8. e.out = ledger[i].out \cup {r} /\ e.in = ledger[i].in /\ e.kind = ledger[i].kind /\ e \in Entries
  <2>1. ledger[i] \in Entries
    BY <1>4, <1>5
  <2> QED BY <1>2, <2>1, PartingFields DEF Parting, Entries
<1>9. left = [ledger EXCEPT ![i] = e]
  BY DEF Parted, Parting
<1> HIDE DEF left, e
<1>10. /\ left \in Seq(Entries) /\ DOMAIN left = DOMAIN ledger /\ Len(left) = Len(ledger)
       /\ left[k].kind = "fence" /\ q \in DOMAIN left[k].in
       /\ o.age < left[k].in[q].age /\ o.to \notin left[k].out
  <2>1. left \in Seq(Entries) /\ DOMAIN left = DOMAIN ledger /\ Len(left) = Len(ledger)
    BY <1>4, <1>5, <1>8, <1>9
  <2>2. CASE k = i
    BY <1>4, <1>5, <1>6, <1>7, <1>8, <1>9, <2>1, <2>2
  <2>3. CASE k # i
    BY <1>4, <1>5, <1>6, <1>9, <2>1, <2>3
  <2> QED BY <2>1, <2>2, <2>3
<1>11. CASE left[1].out # Ranks[bench]
  BY <1>1, <1>10, <1>11 DEF FenceAwaited
<1>12. CASE left[1].out = Ranks[bench]
  <2> DEFINE M == Tail(left)
             n == Len(ledger)
  <2>1. k # 1 /\ k \in 1 .. n /\ n \in Nat
    BY <1>5, <1>10, <1>12
  <2>2. M \in Seq(Entries) /\ Len(M) = n - 1 /\ \A j \in 1 .. n - 1 : M[j] = left[j + 1]
    <3>1. left # <<>> /\ Len(left) = n
      BY <1>10, <2>1
    <3>2. M \in Seq(Entries) /\ Len(M) = Len(left) - 1 /\ \A j \in 1 .. Len(M) : M[j] = left[j + 1]
      BY <1>10, <3>1, HeadTailProperties
    <3> HIDE DEF M, n
    <3> QED BY <3>1, <3>2
  <2> HIDE DEF M, n
  <2>3. k - 1 \in 1 .. n - 1 /\ (k - 1) + 1 = k
    BY <2>1
  <2>4. k - 1 \in DOMAIN M /\ M[k - 1] = left[k]
    BY <2>1, <2>2, <2>3
  <2>5. ledger' = M
    BY <1>1, <1>12 DEF M
  <2> QED BY <1>10, <2>4, <2>5 DEF FenceAwaited
<1> QED BY <1>11, <1>12

\* It stays when someone enters.
LEMMA FenceJoined ==
    ASSUME RunTyped, PlaceTyped, DataTyped, RemoteTyped, LedgerTyped,
           NEW a \in Actors[bench], EnterCollective(a), NEW q, NEW o, FenceAwaited(ledger, q, o)
    PROVE  FenceAwaited(ledger', q, o)
<1>1. PICK k \in DOMAIN ledger : /\ ledger[k].kind = "fence" /\ q \in DOMAIN ledger[k].in
                                 /\ o.age < ledger[k].in[q].age /\ o.to \notin ledger[k].out
  BY DEF FenceAwaited
<1>2. /\ k \in DOMAIN ledger' /\ ledger'[k].kind = ledger[k].kind /\ ledger'[k].out = ledger[k].out
      /\ q \in DOMAIN ledger'[k].in /\ ledger'[k].in[q] = ledger[k].in[q]
  BY <1>1, EntriesStay
<1> QED BY <1>1, <1>2 DEF FenceAwaited

\* As long as something is in flight its rank still has to enter a fence, or its
\* target has to leave one.
FencesDue ==
    bench # "osu_latency_mt" /\ AllFenced(bench, opt) =>
        \A a \in Actors[bench] : \A o \in InFlight(a[1]) :
            /\ o.to \in Ranks[bench]
            /\ \/ o.age = age[a[1]] /\ Unanswered(a, TransferCalls, FenceCalls)
               \/ FenceAwaited(ledger, a[1], o)

\* What an actor of such a benchmark runs.
LEMMA FencedScripts ==
    ASSUME RunTyped, PlaceTyped, AllFenced(bench, opt), NEW a \in Actors[bench]
    PROVE  /\ Script(a) \in FencedOff /\ a[1] \in Ranks[bench] /\ Ranks[bench] = {0, 1}
           /\ \A ops : At(a, ops) => Now(a) \in FenceCall
<1>1. Script(a) \in FencedOff /\ a[1] \in Ranks[bench] /\ Ranks[bench] = {0, 1}
  BY ActorType DEF RunTyped, Script, AllFenced
<1>2. Script(a) \in Seq(FenceCall)
  BY <1>1, AnsweredOn DEF FencedOff
<1>3. \A ops : At(a, ops) => pc[a] \in 1 .. Len(Script(a))
  BY Doing
<1> QED BY <1>1, <1>2, <1>3 DEF Now

\* Every call keeps it so.
LEMMA FencesDueStep ==
    ASSUME IInv, Gathered(ledger), Agreement', FencesDue, NEW a \in Actors[bench], Acts(a)
    PROVE  FencesDue'
<1>1. /\ RunTyped /\ PlaceTyped /\ OnCourse /\ ClockTyped /\ DataTyped /\ Blame /\ RemoteTyped
      /\ LedgerTyped /\ Inside
      /\ UNCHANGED run /\ bench' = bench /\ opt' = opt
  BY Frames DEF IInv, Typed, run
<1>2. AllFenced(bench, opt)' = AllFenced(bench, opt)
  BY <1>1
<1> SUFFICES ASSUME bench # "osu_latency_mt", AllFenced(bench, opt), NEW b \in Actors[bench],
                    NEW o, o \in InFlight(b[1])'
             PROVE  /\ o.to \in Ranks[bench]
                    /\ \/ o.age = age'[b[1]] /\ Unanswered(b, TransferCalls, FenceCalls)'
                       \/ FenceAwaited(ledger', b[1], o)
  BY <1>1, <1>2 DEF FencesDue, FenceAwaited
<1>3. a[1] \in Ranks[bench] /\ b[1] \in Ranks[bench] /\ Ranks[bench] = {0, 1}
  BY <1>1, FencedScripts
<1>4. o \in InFlight(b[1]) => /\ o.to \in Ranks[bench]
                              /\ \/ o.age = age[b[1]] /\ Unanswered(b, TransferCalls, FenceCalls)
                                 \/ FenceAwaited(ledger, b[1], o)
  BY DEF FencesDue
<1>5. o \in InFlight(b[1]) /\ FenceAwaited(ledger, b[1], o) => FenceAwaited(ledger', b[1], o)
  <2> SUFFICES ASSUME o \in InFlight(b[1]), FenceAwaited(ledger, b[1], o)
               PROVE  FenceAwaited(ledger', b[1], o)
    OBVIOUS
  <2>1. CASE EnterCollective(a)
    BY <1>1, <2>1, FenceJoined
  <2>2. CASE LeaveCollective(a)
    BY <1>1, <1>4, <2>2, FenceLeft
  <2>3. CASE ~EnterCollective(a) /\ ~LeaveCollective(a)
    BY <2>3, Frames
  <2> QED BY <2>1, <2>2, <2>3
<1>6. ~Break(a) \/ pc'[a] = pc[a] + 1
  <2>1. Break(a) => At(a, {"break"})
    BY DEF Break
  <2>2. ~At(a, {"break"})
    <3>1. At(a, {"break"}) => Now(a).op = "break" /\ Now(a) \in FenceCall
      BY <1>1, FencedScripts DEF At, Now
    <3> QED BY <3>1 DEF FenceCall, StraightCall
  <2> QED BY <2>1, <2>2
<1>7. pc'[a] = pc[a] \/ pc'[a] = pc[a] + 1
  BY <1>1, <1>6, Going
<1>8. CASE b # a
  <2>1. b[1] # a[1]
    BY <1>1, <1>8, OnlyOne
  <2>2. InFlight(b[1])' = InFlight(b[1])
    BY <1>1, <1>3, <2>1, FlightChanges
  <2>3. pc'[b] = pc[b]
    BY <1>1, <1>8, Going
  <2>4. age'[b[1]] = age[b[1]]
    <3>1. EnterCollective(a) \/ Open(a) => age'[b[1]] = age[b[1]]
      <4>1. \A kind : BeginAccess(a[1], kind) => age'[b[1]] = age[b[1]]
        BY <1>1, <1>3, <2>1 DEF BeginAccess, RemoteTyped
      <4> QED BY <4>1 DEF EnterCollective, Open, remote
    <3>2. Access(a) \/ Land(a) \/ Close(a) \/ Expose(a) => age' = age
      BY DEF Access, Issue, Land, LandOne, Close, EndAccess, Expose, BeginExposure
    <3> QED BY <3>1, <3>2, Frames DEF remote
  <2> QED BY <1>1, <1>4, <1>5, <2>2, <2>3, <2>4, UnansweredOn
<1>9. CASE b = a
  <2>1. CASE EnterCollective(a) /\ Now(a).kind = "fence"
    <3>1. age'[a[1]] = age[a[1]] + 1 /\ InFlight(a[1])' = InFlight(a[1])
      <4>1. BeginAccess(a[1], "fence")
        BY <2>1 DEF EnterCollective
      <4> QED BY <1>1, <1>3, <4>1 DEF BeginAccess, RemoteTyped, InFlight
    <3>2. "collective" \notin wrong'
      BY <1>1 DEF Agreement
    <3> DEFINE k == EntryOf(a[1])
    <3>3. /\ k \in DOMAIN ledger' /\ ledger'[k].kind = "fence" /\ ledger'[k].out = {}
          /\ a[1] \in DOMAIN ledger'[k].in /\ ledger'[k].in[a[1]].age = age[a[1]] + 1
      BY <1>1, <2>1, <3>2, FenceEntered
    <3>4. age[a[1]] < age[a[1]] + 1
      BY <1>1, <1>3 DEF RemoteTyped
    <3> HIDE DEF k
    <3>5. o.age = age[a[1]] => FenceAwaited(ledger', a[1], o)
      BY <3>3, <3>4 DEF FenceAwaited
    <3> QED BY <1>4, <1>5, <1>9, <3>1, <3>5
  <2>2. CASE ~(EnterCollective(a) /\ Now(a).kind = "fence")
    <3>1. age'[a[1]] = age[a[1]]
      <4>1. ~Open(a)
        <5>1. Open(a) => At(a, {"open"})
          BY DEF Open
        <5>2. At(a, {"open"}) => Now(a).op = "open" /\ Now(a) \in FenceCall
          BY <1>1, FencedScripts DEF At, Now
        <5> QED BY <5>1, <5>2 DEF FenceCall
      <4>2. EnterCollective(a) => age' = age
        BY <2>2 DEF EnterCollective, remote
      <4>3. Access(a) \/ Land(a) \/ Close(a) \/ Expose(a) => age' = age
        BY DEF Access, Issue, Land, LandOne, Close, EndAccess, Expose, BeginExposure
      <4> QED BY <4>1, <4>2, <4>3, Frames DEF remote
    <3>2. CASE Access(a)
      <4>1. At(a, {"rma"})
        BY <3>2 DEF Access
      <4>2. Now(a) \in TransferCalls /\ Now(a).op = "rma" /\ Now(a).peer \in Ranks[bench]
        <5>1. Now(a) \in Calls /\ Now(a).op = "rma"
          BY <1>1, <4>1, Doing
        <5>2. Now(a) \in FenceCall
          BY <1>1, <4>1, FencedScripts
        <5> QED BY <1>3, <5>1, <5>2 DEF TransferCalls, FenceCall
      <4>3. pc'[a] = pc[a] + 1
        BY <1>1, <3>2 DEF Access, Advance, Goto, PlaceTyped
      <4>4. Unanswered(a, TransferCalls, FenceCalls)'
        BY <1>1, <4>2, <4>3, UnansweredOn
      <4>5. o \in InFlight(a[1]) \/ o = Transfer(a)
        BY <1>1, <1>9, <3>2, FlightChanges
      <4>6. CASE o \in InFlight(a[1])
        BY <1>4, <1>5, <1>9, <3>1, <4>4, <4>6
      <4>7. CASE o = Transfer(a)
        <5>1. o.to = Now(a).peer /\ o.age = age[a[1]]
          BY <4>7 DEF Transfer
        <5> QED BY <1>9, <3>1, <4>2, <4>4, <5>1
      <4> QED BY <4>5, <4>6, <4>7
    <3>3. CASE ~Access(a)
      <4>1. o \in InFlight(a[1])
        BY <1>1, <1>9, <3>3, FlightChanges
      <4>2. pc'[a] = pc[a] + 1 => Now(a) \notin FenceCalls
        <5>1. pc'[a] = pc[a] + 1 => ~Land(a)
          <6>1. pc[a] \in Nat
            BY <1>1 DEF PlaceTyped
          <6> QED BY <6>1 DEF Land
        <5>2. ~Land(a) /\ Now(a).op = "enter" => EnterCollective(a)
          BY Calling
        <5> QED BY <2>2, <5>1, <5>2 DEF FenceCalls
      <4>3. Unanswered(a, TransferCalls, FenceCalls) => Unanswered(a, TransferCalls, FenceCalls)'
        BY <1>1, <1>7, <4>2, UnansweredOn
      <4> QED BY <1>4, <1>5, <1>9, <3>1, <4>1, <4>3
    <3> QED BY <3>2, <3>3
  <2> QED BY <2>1, <2>2
<1> QED BY <1>8, <1>9

\* At the end nothing is in flight.
LEMMA FencesDone ==
    ASSUME IInv, FencesDue, ledger = <<>>, bench # "osu_latency_mt", AllFenced(bench, opt),
           Unbroken, Over, NEW r \in Ranks[bench]
    PROVE  InFlight(r) = {}
<1>1. RunTyped /\ PlaceTyped /\ OnCourse
  BY DEF IInv, Typed
<1>2. PICK a \in Actors[bench] : a[1] = r
  BY <1>1, RankScript
<1>3. pc[a] = Len(Script(a)) + 1
  BY <1>1, AtTheEnd DEF Over
<1>4. ~Unanswered(a, TransferCalls, FenceCalls)
  BY <1>1, <1>3, FencedScripts, AllAnswered DEF FencedOff
<1>5. \A o : ~FenceAwaited(ledger, r, o)
  BY DEF FenceAwaited
<1> QED BY <1>2, <1>4, <1>5 DEF FencesDue

-----------------------------------------------------------------------------
(* Transfers that are completed by those who are accessed. *)
\* How many epochs the rank of a has begun by its program, and offered.
EpochsBegun(a)   == Heard(Opens, Script(a), pc[a] - 1)
EpochsOffered(a) == Heard(Offers, Script(a), pc[a] - 1)

\* The epochs of a rank are those its program says; while the other rank has not
\* ended as many as it has been offered, or has something in flight from an epoch
\* that it was offered, the rank still has to wait for it.
PostsDue ==
    AllAwaited(bench, opt) =>
        \A a \in Actors[bench] :
            /\ age[a[1]] = EpochsBegun(a) /\ posts[a[1]] = EpochsOffered(a)
            /\ access[a[1]] \in {"closed", "start"}
            /\ age[a[1]] = done[a[1]] + (IF access[a[1]] = "start" THEN 1 ELSE 0)
            /\ \A q \in {0, 1} : q # a[1] =>
                  /\ posts[a[1]] > done[q] => Unanswered(a, PostCalls, AwaitCalls)
                  /\ \A o \in InFlight(q) :
                        /\ o.to = a[1] /\ o.age <= age[q] /\ o.age \in Nat
                        /\ o.age <= posts[a[1]] => Unanswered(a, PostCalls, AwaitCalls)

\* What an actor of such a benchmark runs.
LEMMA AwaitedScripts ==
    ASSUME RunTyped, PlaceTyped, AllAwaited(bench, opt), NEW a \in Actors[bench]
    PROVE  /\ bench # "osu_latency_mt" /\ bench # Unmade /\ bench \notin PgasBenchmarks
           /\ Ranks[bench] = {0, 1} /\ a[1] \in {0, 1}
           /\ Script(a) \in Posting(1 - a[1])
           /\ \A ops : At(a, ops) => Now(a) \in PostCall(1 - a[1]) /\ Now(a).op \notin {"break", "elect", "meet"}
<1>1. Ranks[bench] = {0, 1} /\ bench \in OneSidedBenchmarks
  BY DEF AllAwaited
<1>2. bench # "osu_latency_mt" /\ bench # Unmade /\ bench \notin PgasBenchmarks
  BY <1>1 DEF OneSidedBenchmarks, OneSidedBandwidth, OneSidedLatency, OneSidedAtomics, Unmade,
              PgasBenchmarks, PgasPt2pt, PgasCollective, OshmPt2pt, OshmRate, OshmCollective,
              UpcPt2pt, UpcCollective, UpcxxPt2pt, UpcxxCollective
<1>3. a[1] \in {0, 1} /\ Script(a) = Scripts[bench][opt][a[1]]
  BY <1>1, ActorType DEF RunTyped, Script
<1>4. Script(a) \in Posting(1 - a[1])
  <2>1. Scripts[bench][opt][0] \in Posting(1) /\ Scripts[bench][opt][1] \in Posting(0)
    BY DEF AllAwaited, Rendezvous
  <2>2. 1 - 0 = 1 /\ 1 - 1 = 0
    OBVIOUS
  <2> QED BY <1>3, <2>1, <2>2
<1>5. Script(a) \in Seq(PostCall(1 - a[1]))
  BY <1>4, AnsweredOn DEF Posting
<1>6. ASSUME NEW ops, At(a, ops)
      PROVE  Now(a) \in PostCall(1 - a[1]) /\ Now(a).op \notin {"break", "elect", "meet"}
  <2>1. pc[a] \in 1 .. Len(Script(a))
    BY <1>6, Doing
  <2>2. Now(a) \in PostCall(1 - a[1])
    BY <1>5, <2>1 DEF Now
  <2> QED BY <2>2 DEF PostCall, StraightCall
<1> QED BY <1>1, <1>2, <1>3, <1>4, <1>6

\* How many letters have been heard after one more call.
LEMMA HeardOn ==
    ASSUME RunTyped, PlaceTyped, UNCHANGED run, NEW a \in Actors[bench], NEW ops, At(a, ops),
           pc'[a] = pc[a] + 1, NEW K \in Views
    PROVE  Heard(K, Script(a), pc[a] - 1)' = Heard(K, Script(a), pc[a] - 1) + Len(K[Now(a)])
<1> DEFINE s == Script(a)
           m == pc[a] - 1
<1>1. s \in Seq(Calls) /\ m \in Nat /\ m < Len(s) /\ m + 1 = pc[a] /\ Now(a) = s[m + 1]
  <2>1. s \in Seq(Calls) /\ pc[a] \in 1 .. Len(s) /\ pc[a] \in Nat \ {0} /\ Len(s) \in Nat
    BY Doing
  <2>2. m \in Nat /\ m < Len(s) /\ m + 1 = pc[a]
    BY <2>1
  <2> QED BY <2>1, <2>2 DEF Now
<1>2. s' = s /\ (pc[a] - 1)' = m + 1
  <2>1. pc'[a] - 1 = m + 1
    BY <1>1
  <2> QED BY <2>1 DEF Script, run
<1>3. Heard(K, s, m + 1) = Heard(K, s, m) + Len(K[s[m + 1]])
  <2> HIDE DEF s, m
  <2> QED BY <1>1, Hearing
<1>4. Heard(K, Script(a), pc[a] - 1)' = Heard(K, s, m + 1)
  BY <1>2 DEF Heard
<1> QED BY <1>1, <1>3, <1>4

\* What a call does to the epochs.
LEMMA EpochMoves ==
    ASSUME IInv, IInv', AllAwaited(bench, opt), NEW a \in Actors[bench], Acts(a)
    PROVE  LET r == a[1] IN
           /\ \A q \in {0, 1} : q # r => /\ age'[q] = age[q] /\ posts'[q] = posts[q]
                                        /\ done'[q] = done[q] /\ access'[q] = access[q]
           /\ age'[r] = age[r] + (IF Open(a) THEN 1 ELSE 0)
           /\ posts'[r] = posts[r] + (IF Expose(a) THEN 1 ELSE 0)
           /\ done'[r] = done[r] + (IF Close(a) THEN 1 ELSE 0)
           /\ Open(a) => access[r] = "closed" /\ access'[r] = "start"
           /\ Close(a) => access[r] = "start" /\ access'[r] = "closed"
           /\ ~Open(a) /\ ~Close(a) => access'[r] = access[r]
           /\ Access(a) => access[r] # "closed" /\ Transfer(a).to = 1 - r
<1> DEFINE r == a[1]
<1>1. /\ RunTyped /\ PlaceTyped /\ RemoteTyped /\ Legal' /\ bench' = bench
      /\ bench # Unmade /\ Ranks[bench] = {0, 1} /\ r \in {0, 1}
  BY Frames, AwaitedScripts DEF IInv, Typed, run
<1>2. "epoch" \notin wrong'
  BY <1>1 DEF Legal, Illegal
<1>3. \A ops : At(a, ops) => Now(a) \in PostCall(1 - r)
  BY <1>1, AwaitedScripts
<1>4. /\ age \in [{0, 1} -> Nat] /\ posts \in [{0, 1} -> Nat] /\ done \in [{0, 1} -> Nat]
      /\ DOMAIN access = {0, 1}
  BY <1>1 DEF RemoteTyped
<1>5. Open(a) => Now(a).op = "open" /\ Now(a).kind = "start"
  <2>1. Open(a) => At(a, {"open"})
    BY DEF Open
  <2>2. At(a, {"open"}) => Now(a).op = "open"
    BY DEF At, Now
  <2> QED BY <1>3, <2>1, <2>2 DEF PostCall
<1>6. Close(a) => Now(a).op = "close" /\ Now(a).kind = "start"
  <2>1. Close(a) => At(a, {"close"})
    BY DEF Close
  <2>2. At(a, {"close"}) => Now(a).op = "close"
    BY DEF At, Now
  <2> QED BY <1>3, <2>1, <2>2 DEF PostCall
<1>7. Expose(a) => Now(a).op = "post"
  BY DEF Expose, At, Now
<1>8. CASE Open(a)
  <2>1. access[r] = "closed"
    BY <1>2, <1>8 DEF Open, Complain, Unless
  <2>2. /\ access' = [access EXCEPT ![r] = "start"] /\ age' = [age EXCEPT ![r] = @ + 1]
        /\ posts' = posts /\ done' = done
    BY <1>5, <1>8 DEF Open, BeginAccess
  <2>3. ~Close(a) /\ ~Expose(a) /\ ~Access(a)
    <3>1. Access(a) => Now(a).op = "rma"
      BY DEF Access, At, Now
    <3> QED BY <1>5, <1>6, <1>7, <1>8, <3>1
  <2> QED BY <1>1, <1>4, <1>8, <2>1, <2>2, <2>3
<1>9. CASE Close(a)
  <2>1. access[r] = "start"
    BY <1>2, <1>6, <1>9 DEF Close, Complain, Unless
  <2>2. /\ access' = [access EXCEPT ![r] = "closed"] /\ done' = [done EXCEPT ![r] = @ + 1]
        /\ posts' = posts /\ age' = age
    BY <1>6, <1>9 DEF Close, EndAccess
  <2>3. ~Open(a) /\ ~Expose(a) /\ ~Access(a)
    <3>1. Access(a) => Now(a).op = "rma"
      BY DEF Access, At, Now
    <3> QED BY <1>5, <1>6, <1>7, <1>9, <3>1
  <2> QED BY <1>1, <1>4, <1>9, <2>1, <2>2, <2>3
<1>10. CASE Expose(a)
  <2>1. posts' = [posts EXCEPT ![r] = @ + 1] /\ done' = done /\ age' = age /\ access' = access
    BY <1>10 DEF Expose, BeginExposure
  <2>2. ~Open(a) /\ ~Close(a) /\ ~Access(a)
    <3>1. Access(a) => Now(a).op = "rma"
      BY DEF Access, At, Now
    <3> QED BY <1>5, <1>6, <1>7, <1>10, <3>1
  <2> QED BY <1>1, <1>4, <1>10, <2>1, <2>2
<1>11. CASE ~Open(a) /\ ~Close(a) /\ ~Expose(a)
  <2>1. age' = age /\ posts' = posts /\ done' = done /\ access' = access
    <3>1. EnterCollective(a) => UNCHANGED remote
      <4>1. EnterCollective(a) => At(a, {"enter"})
        BY DEF EnterCollective
      <4>2. At(a, {"enter"}) => Now(a).op = "enter" /\ Now(a) \in PostCall(1 - r)
        BY <1>3 DEF At, Now
      <4>3. EnterCollective(a) => Now(a).kind # "fence"
        BY <4>1, <4>2 DEF PostCall
      <4> QED BY <4>3 DEF EnterCollective
    <3>2. Access(a) \/ Land(a) => age' = age /\ posts' = posts /\ done' = done /\ access' = access
      BY DEF Access, Issue, Land, LandOne
    <3> QED BY <1>11, <3>1, <3>2, Frames DEF remote
  <2>2. Access(a) => access[r] # "closed" /\ Transfer(a).to = 1 - r
    <3> SUFFICES ASSUME Access(a) PROVE access[r] # "closed" /\ Transfer(a).to = 1 - r
      OBVIOUS
    <3>1. access[r] # "closed"
      BY <1>2 DEF Access, Complain, Unless
    <3>2. At(a, {"rma"})
      BY DEF Access
    <3>3. Now(a).op = "rma" /\ Now(a) \in PostCall(1 - r)
      BY <1>3, <3>2 DEF At, Now
    <3> QED BY <3>1, <3>3 DEF PostCall, Transfer
  <2> QED BY <1>1, <1>4, <1>11, <2>1, <2>2
<1> QED BY <1>8, <1>9, <1>10, <1>11

-----------------------------------------------------------------------------
\* Every call keeps it so.
LEMMA PostsDueStep ==
    ASSUME IInv, IInv', PostsDue, NEW a \in Actors[bench], Acts(a)
    PROVE  PostsDue'
<1>1. /\ RunTyped /\ PlaceTyped /\ OnCourse /\ ClockTyped /\ Blame /\ RemoteTyped
      /\ UNCHANGED run /\ bench' = bench /\ opt' = opt
  BY Frames DEF IInv, Typed, run
<1>2. AllAwaited(bench, opt)' = AllAwaited(bench, opt)
  BY <1>1
<1> DEFINE Due(b) ==
       /\ age'[b[1]] = EpochsBegun(b)' /\ posts'[b[1]] = EpochsOffered(b)'
       /\ access'[b[1]] \in {"closed", "start"}
       /\ age'[b[1]] = done'[b[1]] + (IF access'[b[1]] = "start" THEN 1 ELSE 0)
       /\ \A q \in {0, 1} : q # b[1] =>
             /\ posts'[b[1]] > done'[q] => Unanswered(b, PostCalls, AwaitCalls)'
             /\ \A o \in InFlight(q)' :
                   /\ o.to = b[1] /\ o.age <= age'[q] /\ o.age \in Nat
                   /\ o.age <= posts'[b[1]] => Unanswered(b, PostCalls, AwaitCalls)'
<1> SUFFICES ASSUME AllAwaited(bench, opt), NEW b \in Actors[bench] PROVE Due(b)
  BY <1>1, <1>2 DEF PostsDue
<1> DEFINE r == a[1]
<1>3. /\ bench # "osu_latency_mt" /\ Ranks[bench] = {0, 1} /\ r \in {0, 1} /\ b[1] \in {0, 1}
      /\ \A ops : At(a, ops) => Now(a) \in PostCall(1 - r) /\ Now(a).op \notin {"break", "elect", "meet"}
  BY <1>1, AwaitedScripts
<1>4. /\ age \in [{0, 1} -> Nat] /\ posts \in [{0, 1} -> Nat] /\ done \in [{0, 1} -> Nat]
  BY <1>1, <1>3 DEF RemoteTyped
<1>5. /\ age[b[1]] = EpochsBegun(b) /\ posts[b[1]] = EpochsOffered(b)
      /\ access[b[1]] \in {"closed", "start"}
      /\ age[b[1]] = done[b[1]] + (IF access[b[1]] = "start" THEN 1 ELSE 0)
      /\ \A q \in {0, 1} : q # b[1] =>
            /\ posts[b[1]] > done[q] => Unanswered(b, PostCalls, AwaitCalls)
            /\ \A o \in InFlight(q) :
                  /\ o.to = b[1] /\ o.age <= age[q] /\ o.age \in Nat
                  /\ o.age <= posts[b[1]] => Unanswered(b, PostCalls, AwaitCalls)
  BY DEF PostsDue
<1>6. /\ access[r] \in {"closed", "start"}
      /\ age[r] = done[r] + (IF access[r] = "start" THEN 1 ELSE 0)
  BY DEF PostsDue
<1>7. /\ \A q \in {0, 1} : q # r => /\ age'[q] = age[q] /\ posts'[q] = posts[q]
                                    /\ done'[q] = done[q] /\ access'[q] = access[q]
      /\ age'[r] = age[r] + (IF Open(a) THEN 1 ELSE 0)
      /\ posts'[r] = posts[r] + (IF Expose(a) THEN 1 ELSE 0)
      /\ done'[r] = done[r] + (IF Close(a) THEN 1 ELSE 0)
      /\ Open(a) => access[r] = "closed" /\ access'[r] = "start"
      /\ Close(a) => access[r] = "start" /\ access'[r] = "closed"
      /\ ~Open(a) /\ ~Close(a) => access'[r] = access[r]
      /\ Access(a) => access[r] # "closed" /\ Transfer(a).to = 1 - r
  BY EpochMoves
\* The call, if it is not that a transfer takes effect, takes a on.
<1>8. \/ Land(a) /\ pc'[a] = pc[a]
      \/ pc'[a] = pc[a] + 1 /\ At(a, {Now(a).op}) /\ ~Land(a)
  <2>1. ~Meet(a) /\ ~Break(a)
    <3>1. ~At(a, {"meet"}) /\ ~At(a, {"break"})
      BY <1>3 DEF At, Now
    <3> QED BY <3>1 DEF Meet, Break
  <2>2. pc[a] \in Nat /\ (Land(a) => pc' = pc)
    BY <1>1 DEF PlaceTyped, Land
  <2> QED BY <1>1, <1>3, <2>1, <2>2, Going
<1>9. CASE b = a
  <2>1. EpochsBegun(a)' = EpochsBegun(a) + (IF Open(a) THEN 1 ELSE 0)
        /\ EpochsOffered(a)' = EpochsOffered(a) + (IF Expose(a) THEN 1 ELSE 0)
    <3>1. CASE Land(a)
      <4>1. ~Open(a) /\ ~Expose(a)
        <5>1. Open(a) \/ Expose(a) => pc'[a] = pc[a] + 1
          BY <1>1 DEF Open, Expose, Advance, Goto, PlaceTyped
        <5>2. pc[a] \in Nat /\ pc'[a] = pc[a]
          BY <1>1, <3>1 DEF PlaceTyped, Land
        <5> QED BY <5>1, <5>2
      <4>2. pc'[a] = pc[a] /\ Script(a)' = Script(a)
        BY <1>1, <3>1 DEF Land, Script
      <4>3. EpochsBegun(a)' = EpochsBegun(a) /\ EpochsOffered(a)' = EpochsOffered(a)
        BY <4>2 DEF EpochsBegun, EpochsOffered, Heard
      <4>4. EpochsBegun(a) \in Nat /\ EpochsOffered(a) \in Nat
        BY <1>3, <1>4, <1>5, <1>9
      <4> QED BY <4>1, <4>3, <4>4
    <3>2. CASE ~Land(a)
      <4>1. pc'[a] = pc[a] + 1 /\ At(a, {Now(a).op}) /\ Now(a) \in Calls
        BY <1>1, <1>8, <3>2, Doing
      <4>2. /\ Heard(Opens, Script(a), pc[a] - 1)' = Heard(Opens, Script(a), pc[a] - 1) + Len(Opens[Now(a)])
            /\ Heard(Offers, Script(a), pc[a] - 1)' = Heard(Offers, Script(a), pc[a] - 1) + Len(Offers[Now(a)])
        BY <1>1, <4>1, EpochViews, HeardOn
      <4>3. (Now(a).op = "open" <=> Open(a)) /\ (Now(a).op = "post" <=> Expose(a))
        BY <3>2, Calling
      <4>4. /\ Len(Opens[Now(a)]) = IF Open(a) THEN 1 ELSE 0
            /\ Len(Offers[Now(a)]) = IF Expose(a) THEN 1 ELSE 0
        BY <4>1, <4>3 DEF Opens, Offers
      <4> QED BY <4>2, <4>4 DEF EpochsBegun, EpochsOffered
    <3> QED BY <3>1, <3>2
  <2>2. /\ age'[r] = EpochsBegun(a)' /\ posts'[r] = EpochsOffered(a)'
    BY <1>5, <1>7, <1>9, <2>1
  <2>3. /\ access'[r] \in {"closed", "start"}
        /\ age'[r] = done'[r] + (IF access'[r] = "start" THEN 1 ELSE 0)
    <3>1. age[r] \in Nat /\ done[r] \in Nat
      BY <1>3, <1>4
    <3>2. ~(Open(a) /\ Close(a))
      BY <1>7
    <3> QED BY <1>6, <1>7, <3>1, <3>2
  <2>4. ASSUME NEW q \in {0, 1}, q # r
        PROVE  /\ posts'[r] > done'[q] => Unanswered(a, PostCalls, AwaitCalls)'
               /\ \A o \in InFlight(q)' :
                     /\ o.to = r /\ o.age <= age'[q] /\ o.age \in Nat
                     /\ o.age <= posts'[r] => Unanswered(a, PostCalls, AwaitCalls)'
    <3>1. InFlight(q)' = InFlight(q) /\ done'[q] = done[q] /\ age'[q] = age[q]
      BY <1>1, <1>3, <1>7, <2>4, FlightChanges
    <3>2. CASE Expose(a)
      <4>1. pc'[a] = pc[a] + 1 /\ At(a, {"post"})
        BY <1>1, <3>2 DEF Expose, Advance, Goto, PlaceTyped
      <4>2. Now(a) \in PostCalls
        BY <1>1, <4>1, Doing DEF PostCalls
      <4>3. Unanswered(a, PostCalls, AwaitCalls)'
        BY <1>1, <4>1, <4>2, UnansweredOn
      <4> QED BY <1>5, <1>9, <2>4, <3>1, <4>3
    <3>3. CASE ~Expose(a)
      <4>1. posts'[r] = posts[r]
        BY <1>3, <1>4, <1>7, <3>3
      <4>2. CASE pc'[a] = pc[a]
        <5>1. Unanswered(a, PostCalls, AwaitCalls)' = Unanswered(a, PostCalls, AwaitCalls)
          BY <1>1, <4>2, UnansweredOn
        <5> QED BY <1>5, <1>9, <2>4, <3>1, <4>1, <5>1
      <4>3. CASE pc'[a] = pc[a] + 1 /\ At(a, {Now(a).op}) /\ ~Land(a) /\ Now(a) \notin AwaitCalls
        <5>1. Unanswered(a, PostCalls, AwaitCalls) => Unanswered(a, PostCalls, AwaitCalls)'
          BY <1>1, <4>3, UnansweredOn
        <5> QED BY <1>5, <1>9, <2>4, <3>1, <4>1, <5>1
      <4>4. CASE ~Land(a) /\ At(a, {Now(a).op}) /\ Now(a) \in AwaitCalls
        <5>1. Now(a).op = "await" /\ Synchronised(a)
          BY <4>4, Calling DEF AwaitCalls
        <5>2. ~At(a, {"flush"})
          BY <5>1 DEF At, Now
        <5>3. Exposed(r, Now(a).peer)
          BY <5>1, <5>2 DEF Synchronised
        <5>4. Now(a).peer = q
          <6>1. Now(a) \in PostCall(1 - r)
            BY <1>3, <4>4
          <6>2. q = 1 - r
            BY <1>3, <2>4
          <6> QED BY <5>1, <6>1, <6>2 DEF PostCall
        <5>5. done[q] >= posts[r] /\ \A o \in InFlight(q) : o.to = r => o.age > posts[r]
          BY <5>3, <5>4 DEF Exposed
        <5>6. posts[r] \in Nat /\ done[q] \in Nat
          BY <1>3, <1>4
        <5>7. ~(posts'[r] > done'[q])
          BY <3>1, <4>1, <5>5, <5>6
        <5>8. \A o \in InFlight(q)' : o.to = r /\ o.age <= age'[q] /\ o.age \in Nat /\ ~(o.age <= posts'[r])
          BY <1>5, <1>9, <2>4, <3>1, <4>1, <5>5, <5>6
        <5> QED BY <5>7, <5>8
      <4> QED BY <1>8, <4>2, <4>3, <4>4
    <3> QED BY <3>2, <3>3
  <2> QED BY <1>9, <2>2, <2>3, <2>4
<1>10. CASE b # a
  <2>1. b[1] # r /\ pc'[b] = pc[b]
    BY <1>1, <1>3, <1>10, OnlyOne, Going
  <2>2. \A q \in {0, 1} : q # b[1] => q = r
    BY <1>3, <2>1
  <2>3. /\ age'[b[1]] = age[b[1]] /\ posts'[b[1]] = posts[b[1]]
        /\ done'[b[1]] = done[b[1]] /\ access'[b[1]] = access[b[1]]
    BY <1>3, <1>7, <2>1
  <2>4. EpochsBegun(b)' = EpochsBegun(b) /\ EpochsOffered(b)' = EpochsOffered(b)
        /\ Unanswered(b, PostCalls, AwaitCalls)' = Unanswered(b, PostCalls, AwaitCalls)
    <3>1. Script(b)' = Script(b)
      BY <1>1 DEF Script
    <3>2. EpochsBegun(b)' = EpochsBegun(b) /\ EpochsOffered(b)' = EpochsOffered(b)
      BY <2>1, <3>1 DEF EpochsBegun, EpochsOffered, Heard
    <3> QED BY <1>1, <2>1, <3>2, UnansweredOn
  <2>5. /\ age[r] \in Nat /\ done[r] \in Nat /\ posts[b[1]] \in Nat
        /\ age'[r] >= age[r] /\ done'[r] >= done[r] /\ done'[r] \in Nat /\ age'[r] \in Nat
    <3>1. age[r] \in Nat /\ done[r] \in Nat /\ posts[b[1]] \in Nat
      BY <1>3, <1>4
    <3> QED BY <1>7, <3>1
  <2>6. posts'[b[1]] > done'[r] => Unanswered(b, PostCalls, AwaitCalls)'
    <3>1. posts[b[1]] > done'[r] => posts[b[1]] > done[r]
      BY <2>5
    <3> QED BY <1>3, <1>5, <2>1, <2>3, <2>4, <3>1
  <2>7. ASSUME NEW o \in InFlight(r)'
        PROVE  /\ o.to = b[1] /\ o.age <= age'[r] /\ o.age \in Nat
               /\ o.age <= posts'[b[1]] => Unanswered(b, PostCalls, AwaitCalls)'
    <3>1. CASE o \in InFlight(r)
      <4>1. /\ o.to = b[1] /\ o.age <= age[r] /\ o.age \in Nat
            /\ o.age <= posts[b[1]] => Unanswered(b, PostCalls, AwaitCalls)
        BY <1>3, <1>5, <2>1, <3>1
      <4>2. o.age <= age'[r]
        BY <2>5, <4>1
      <4> QED BY <2>3, <2>4, <4>1, <4>2
    <3>2. CASE o \notin InFlight(r)
      <4>1. Access(a) /\ o = Transfer(a)
        BY <1>1, <2>7, <3>2, FlightChanges
      <4>2. o.to = 1 - r /\ o.age = age[r]
        BY <1>7, <4>1 DEF Transfer
      <4>3. o.to = b[1]
        BY <1>3, <2>1, <4>2
      <4>4. age[r] = done[r] + 1
        BY <1>6, <1>7, <4>1
      <4>5. o.age <= posts[b[1]] => posts[b[1]] > done[r]
        BY <2>5, <4>2, <4>4
      <4>6. o.age <= posts[b[1]] => Unanswered(b, PostCalls, AwaitCalls)
        BY <1>3, <1>5, <2>1, <4>5
      <4>7. o.age <= age'[r] /\ o.age \in Nat
        BY <2>5, <4>2
      <4> QED BY <2>3, <2>4, <4>3, <4>6, <4>7
    <3> QED BY <3>1, <3>2
  <2> QED BY <1>5, <2>2, <2>3, <2>4, <2>6, <2>7
<1> QED BY <1>9, <1>10

\* At the end nothing is in flight: each rank has offered as many epochs as the
\* other one has begun, and has waited for them.
LEMMA PostsDone ==
    ASSUME IInv, PostsDue, AllAwaited(bench, opt), Unbroken, Over, NEW q \in Ranks[bench]
    PROVE  InFlight(q) = {}
<1>1. RunTyped /\ PlaceTyped /\ OnCourse /\ RemoteTyped
  BY DEF IInv, Typed
<1>2. q \in {0, 1} /\ Ranks[bench] = {0, 1}
  BY DEF AllAwaited
<1>3. PICK b \in Actors[bench] : b[1] = q
  BY <1>1, RankScript
<1>4. PICK a \in Actors[bench] : a[1] = 1 - q
  <2>1. 1 - q \in Ranks[bench]
    BY <1>2
  <2> QED BY <1>1, <2>1, RankScript
<1>5. \A c \in Actors[bench] : /\ pc[c] - 1 = Len(Script(c)) /\ pc[c] = Len(Script(c)) + 1
                               /\ Script(c) \in Seq(Calls) /\ Script(c) = Scripts[bench][opt][c[1]]
  <2> SUFFICES ASSUME NEW c \in Actors[bench]
               PROVE  /\ pc[c] - 1 = Len(Script(c)) /\ pc[c] = Len(Script(c)) + 1
                      /\ Script(c) \in Seq(Calls) /\ Script(c) = Scripts[bench][opt][c[1]]
    OBVIOUS
  <2>1. /\ pc[c] = Len(Script(c)) + 1 /\ Len(Script(c)) \in Nat
        /\ Script(c) \in Seq(Calls) /\ Script(c) = Scripts[bench][opt][c[1]]
    BY <1>1, AtTheEnd DEF Over
  <2> QED BY <2>1
<1>6. \A c \in Actors[bench] : /\ EpochsBegun(c) = Len(Seen(Opens, Script(c)))
                               /\ EpochsOffered(c) = Len(Seen(Offers, Script(c)))
  <2> SUFFICES ASSUME NEW c \in Actors[bench]
               PROVE  /\ EpochsBegun(c) = Len(Seen(Opens, Script(c)))
                      /\ EpochsOffered(c) = Len(Seen(Offers, Script(c)))
    OBVIOUS
  <2> DEFINE s == Script(c)
  <2>1. s \in Seq(Calls) /\ pc[c] - 1 = Len(s)
    BY <1>5
  <2>2. SubSeq(s, 1, Len(s)) = s
    BY <2>1, SubSeqFull
  <2> HIDE DEF s
  <2> QED BY <2>1, <2>2 DEF EpochsBegun, EpochsOffered, Heard, s
<1>7. Len(Seen(Offers, Script(a))) = Len(Seen(Opens, Script(b)))
  <2> DEFINE s == Scripts[bench][opt][0]
             t == Scripts[bench][opt][1]
  <2>1. Seen(Offers, s) = Seen(Opens, t) /\ Seen(Offers, t) = Seen(Opens, s)
    BY DEF AllAwaited, Rendezvous, Tallied
  <2>2. \/ Script(b) = s /\ Script(a) = t
        \/ Script(b) = t /\ Script(a) = s
    <3>1. (q = 0 /\ 1 - q = 1) \/ (q = 1 /\ 1 - q = 0)
      BY <1>2
    <3> QED BY <1>3, <1>4, <1>5, <3>1
  <2> HIDE DEF s, t
  <2> QED BY <2>1, <2>2
<1>8. posts[1 - q] = age[q]
  <2>1. posts[a[1]] = EpochsOffered(a) /\ age[b[1]] = EpochsBegun(b)
    BY DEF PostsDue
  <2> QED BY <1>3, <1>4, <1>6, <1>7, <2>1
<1>9. ~Unanswered(a, PostCalls, AwaitCalls)
  <2>1. Script(a) \in Answered(PostCall(1 - a[1]), PostCalls, AwaitCalls)
    BY <1>1, AwaitedScripts DEF Posting
  <2> QED BY <1>5, <2>1, AllAnswered
<1>10. ASSUME NEW o \in InFlight(q) PROVE FALSE
  <2>1. q # a[1]
    BY <1>2, <1>4
  <2>2. /\ o.age <= age[q]
        /\ o.age <= posts[a[1]] => Unanswered(a, PostCalls, AwaitCalls)
    BY <1>2, <1>10, <2>1 DEF PostsDue
  <2> QED BY <1>4, <1>8, <1>9, <2>2
<1> QED BY <1>10

-----------------------------------------------------------------------------
\* Everything in flight is still to be waited for.
Due == FlushesDue /\ FencesDue /\ PostsDue

\* At the beginning nothing is in flight, and no epoch has begun.
LEMMA DueBegins == ASSUME Init PROVE Due
<1>1. RunTyped /\ PlaceTyped
  BY Initiation DEF IInv, Typed
<1>2. \A a \in Actors[bench] : a[1] \in Ranks[bench]
  BY <1>1, ActorType DEF RunTyped
<1>3. \A r \in Ranks[bench] : InFlight(r) = {}
  <2>1. \A r \in Ranks[bench] : air[r] = EmptyBag
    BY DEF Init, RemoteInit
  <2>2. BagToSet(EmptyBag) = {}
    BY DEF BagToSet, EmptyBag, SetToBag
  <2> QED BY <2>1, <2>2 DEF InFlight
<1>4. FlushesDue /\ FencesDue
  BY <1>2, <1>3 DEF FlushesDue, FencesDue
<1>5. PostsDue
  <2> SUFFICES ASSUME AllAwaited(bench, opt), NEW a \in Actors[bench]
               PROVE  /\ age[a[1]] = EpochsBegun(a) /\ posts[a[1]] = EpochsOffered(a)
                      /\ access[a[1]] \in {"closed", "start"}
                      /\ age[a[1]] = done[a[1]] + (IF access[a[1]] = "start" THEN 1 ELSE 0)
                      /\ \A q \in {0, 1} : q # a[1] =>
                            /\ posts[a[1]] > done[q] => Unanswered(a, PostCalls, AwaitCalls)
                            /\ \A o \in InFlight(q) :
                                  /\ o.to = a[1] /\ o.age <= age[q] /\ o.age \in Nat
                                  /\ o.age <= posts[a[1]] => Unanswered(a, PostCalls, AwaitCalls)
    BY DEF PostsDue
  <2>1. bench \notin PgasBenchmarks /\ Ranks[bench] = {0, 1} /\ a[1] \in {0, 1}
    BY <1>1, AwaitedScripts
  <2>2. \A q \in {0, 1} : age[q] = 0 /\ posts[q] = 0 /\ done[q] = 0 /\ access[q] = "closed"
    BY <2>1 DEF Init, RemoteInit
  <2>3. EpochsBegun(a) = 0 /\ EpochsOffered(a) = 0
    <3>1. pc[a] - 1 = 0 /\ Script(a) \in Seq(Calls)
      <4>1. pc[a] = 1
        BY DEF Init
      <4> QED BY <1>1, <1>2, <4>1, RankScript DEF Script
    <3>2. Heard(Opens, Script(a), 0) = 0 /\ Heard(Offers, Script(a), 0) = 0
      BY <3>1, HeardNothing
    <3> QED BY <3>1, <3>2 DEF EpochsBegun, EpochsOffered
  <2>4. \A q \in {0, 1} : InFlight(q) = {}
    BY <1>3, <2>1
  <2>5. \A q \in {0, 1} : ~(posts[a[1]] > done[q])
    BY <2>1, <2>2
  <2> QED BY <2>1, <2>2, <2>3, <2>4, <2>5
<1> QED BY <1>4, <1>5 DEF Due

\* Every call keeps it so.
LEMMA DueStep ==
    ASSUME IInv, IInv', Agreement, Gathered(ledger), Due, NEW a \in Actors[bench], Acts(a)
    PROVE  Due'
<1>1. Agreement'
  BY AgreementStep
<1> QED BY <1>1, FlushesDueStep, FencesDueStep, PostsDueStep DEF Due

LEMMA DueStutters == ASSUME Due, UNCHANGED vars PROVE Due'
<1>1. UNCHANGED <<bench, opt, pc, ledger, air, access, age, posts, done>>
  BY DEF vars, run, remote
<1>2. \A a : Unanswered(a, TransferCalls, FlushCalls)' = Unanswered(a, TransferCalls, FlushCalls)
             /\ Unanswered(a, TransferCalls, FenceCalls)' = Unanswered(a, TransferCalls, FenceCalls)
             /\ Unanswered(a, PostCalls, AwaitCalls)' = Unanswered(a, PostCalls, AwaitCalls)
             /\ InFlight(a)' = InFlight(a)
             /\ EpochsBegun(a)' = EpochsBegun(a) /\ EpochsOffered(a)' = EpochsOffered(a)
  BY <1>1 DEF Unanswered, Script, InFlight, EpochsBegun, EpochsOffered, Heard
<1>3. FlushesDue'
  BY <1>1, <1>2 DEF Due, FlushesDue
<1>4. FencesDue'
  BY <1>1, <1>2 DEF Due, FencesDue, FenceAwaited
<1>5. PostsDue'
  BY <1>1, <1>2 DEF Due, PostsDue
<1> QED BY <1>3, <1>4, <1>5 DEF Due

\* At the end nothing is in flight.
LEMMA DueIsDone ==
    ASSUME IInv, Agreement, Gathered(ledger), Due, bench # "osu_latency_mt", Unbroken, Over,
           NEW r \in Ranks[bench]
    PROVE  InFlight(r) = {}
<1>1. RunTyped
  BY DEF IInv, Typed
<1>2. ledger = <<>>
  BY NoOperations
<1> QED BY <1>1, <1>2, WhatCompletes, FlushesDone, FencesDone, PostsDone DEF Due, RunTyped

\* When every actor has finished nothing is under way (NothingLeftBehind), in every
\* benchmark, but for the threads of osu_latency_mt, and with every option, fences
\* and the epochs of MPI_Win_post and MPI_Win_start among them: no message or
\* receive, no collective operation, no epoch and no transfer.  The exception is
\* a benchmark that has left out sizes because of errors.
THEOREM NothingLeft ==
    Spec => [](bench # "osu_latency_mt" /\ (spoiled => bench \notin ReportsErrors)
                  => NothingLeftBehind)
<1>1. Init => Agreement /\ ArraysFree /\ Due
  <2>1. Init => ledger = <<>> /\ wrong = {}
    BY DEF Init
  <2> QED BY <2>1, AgreementBegins, DueBegins DEF ArraysFree, Gathered
<1>2. IInv /\ Agreement /\ ArraysFree /\ Due /\ [Next]_vars => (Agreement /\ ArraysFree /\ Due)'
  <2> SUFFICES ASSUME IInv, Agreement, ArraysFree, Due, [Next]_vars
               PROVE  (Agreement /\ ArraysFree /\ Due)'
    OBVIOUS
  <2>1. CASE UNCHANGED vars
    <3>1. ArraysFree'
      BY <2>1 DEF vars, run, ArraysFree, Gathered
    <3> QED BY <2>1, <3>1, AgreementStutters, DueStutters
  <2>2. CASE \E a \in Actors[bench] : Acts(a)
    <3>1. IInv' /\ Gathered(ledger)
      BY Consecution DEF ArraysFree
    <3> QED BY <2>2, <3>1, AgreementStep, ArraysFreeStep, DueStep
  <2> QED BY <2>1, <2>2, SomeoneActs
<1>3. IInv /\ Agreement /\ ArraysFree /\ Due =>
         (bench # "osu_latency_mt" /\ (spoiled => bench \notin ReportsErrors) => NothingLeftBehind)
  BY LittleLeft, DueIsDone DEF ArraysFree, Unbroken
<1> QED BY <1>1, <1>2, <1>3, Invariance, PTL DEF Spec

-----------------------------------------------------------------------------
(* The count of errors along the programs, and what becomes of one. *)

\* The call that adds up the errors of all ranks.
Sums(c) == c.op = "enter" /\ c.kind = "sum_errors"

\* Where an actor may have errors: at 2 it may have compared data, at 1 everyone
\* has been told of everyone's errors, at 0 there are none.  Nothing is compared
\* but at 2, the sizes end at 1, and where the count is cleared it is zero.
Verdict(c, p, q) ==
    /\ Sums(c) => q = 1
    /\ c.op = "break" => p <= 1 /\ q = 0
    /\ ~Sums(c) /\ c.op # "break" => q >= p
    /\ c.op = "check" => q = 2
    /\ c.op = "clear" => p = 0

VerdictMoves == {m \in Calls \X (0 .. 2) \X (0 .. 2) : Verdict(m[1], m[2], m[3])}

\* Without sums, breaks and threads nothing changes, unless data is compared or
\* the count is cleared.
LEMMA VerdictStays ==
    ASSUME NEW T, NEW X, NEW s, Inner(T, X, s), {"elect", "break", "sum_errors"} \subseteq X,
           NEW x \in 0 .. 2, x = 2 \/ "check" \in X, x = 0 \/ "clear" \in X
    PROVE  Walk(VerdictMoves, s, x, x)
<1> DEFINE f == [k \in 0 .. Len(s) |-> x]
<1>1. s \in Seq(InnerCall(T, X)) /\ Len(s) \in Nat
  BY DEF Inner
<1>2. InnerCall(T, X) \subseteq Calls
  BY DEF InnerCall
<1>3. s \in Seq(Calls)
  BY <1>1, <1>2
<1>4. ASSUME NEW k \in 1 .. Len(s)
      PROVE  <<s[k], x, x>> \in VerdictMoves /\ s[k].op # "elect"
  <2>1. s[k] \in InnerCall(T, X)
    BY <1>1
  <2>2. s[k] \in Calls /\ s[k].op \notin X \cap Omissible
        /\ (s[k].op = "enter" => s[k].kind \notin X \cap Omissible)
    BY <2>1 DEF InnerCall
  <2>3. /\ s[k].op \notin {"elect", "break"} /\ ~Sums(s[k])
        /\ "check" \in X => s[k].op # "check"
        /\ "clear" \in X => s[k].op # "clear"
    BY <2>2 DEF Omissible, Sums
  <2>4. Verdict(s[k], x, x)
    BY <2>3 DEF Verdict
  <2> QED BY <2>2, <2>3, <2>4 DEF VerdictMoves
<1>5. Trace(VerdictMoves, s, f) /\ f[0] = x /\ f[Len(s)] = x
  BY <1>1, <1>4 DEF Trace
<1> HIDE DEF f
<1> QED BY <1>3, <1>5 DEF Walk

\* A call whose argument is its name.
LEMMA VerdictNamed ==
    ASSUME NEW o \in Plain, NEW x \in 0 .. 2, NEW y \in 0 .. 2, Verdict([op |-> o], x, y)
    PROVE  Walk(VerdictMoves, <<[op |-> o]>>, x, y)
<1> DEFINE c == [op |-> o]
<1>1. c \in Calls /\ c.op # "elect"
  BY DEF Calls, Plain
<1>2. Verdict(c, x, y)
  OBVIOUS
<1> HIDE DEF c
<1>3. <<c, x, y>> \in VerdictMoves
  BY <1>1, <1>2 DEF VerdictMoves
<1>4. Walk(VerdictMoves, <<c>>, x, y)
  BY <1>1, <1>3, WalkOne
<1> QED BY <1>4 DEF c

\* A collective call of all ranks, at which the count may rise or is added up.
LEMMA VerdictMeeting ==
    ASSUME NEW k \in {"barrier", "sum_errors"}, NEW x \in 0 .. 2, NEW y \in 0 .. 2,
           IF k = "sum_errors" THEN y = 1 ELSE y >= x
    PROVE  Walk(VerdictMoves, Enter(k, 0, {}, "plain") \o Leave, x, y)
<1> DEFINE c == [op |-> "enter", kind |-> k, root |-> 0, data |-> {}, form |-> "plain"]
<1>1. c \in Calls /\ c.op = "enter" /\ c.kind = k
  BY DEF Calls, CollectiveKinds, Forms
<1>2. Enter(k, 0, {}, "plain") = <<c>>
  BY DEF Enter
<1> HIDE DEF c
<1>3. Verdict(c, x, y)
  BY <1>1 DEF Verdict, Sums
<1>4. Walk(VerdictMoves, <<c>>, x, y)
  <2>1. <<c, x, y>> \in VerdictMoves /\ c.op # "elect"
    BY <1>1, <1>3 DEF VerdictMoves
  <2> QED BY <1>1, <2>1, WalkOne
<1>5. Walk(VerdictMoves, Leave, y, y)
  <2>1. "leave" \in Plain /\ Verdict([op |-> "leave"], y, y)
    BY DEF Plain, Verdict, Sums
  <2> QED BY <2>1, VerdictNamed DEF Leave
<1> QED BY <1>2, <1>4, <1>5, WalkOn

\* The calls at which something changes.
LEMMA VerdictCalls ==
    /\ Walk(VerdictMoves, ClearErrors, 0, 0) /\ Walk(VerdictMoves, ClearErrors, 0, 2)
    /\ Walk(VerdictMoves, Barrier, 0, 2) /\ Walk(VerdictMoves, Barrier, 1, 2)
    /\ Walk(VerdictMoves, Barrier, 0, 0) /\ Walk(VerdictMoves, Barrier, 1, 1)
    /\ Walk(VerdictMoves, SumErrors, 0, 1) /\ Walk(VerdictMoves, SumErrors, 2, 1)
    /\ Walk(VerdictMoves, BreakOnErrors, 1, 0) /\ Walk(VerdictMoves, Report, 0, 0)
<1>1. {"clear", "break", "report"} \subseteq Plain
  BY DEF Plain
<1>2. /\ Verdict([op |-> "clear"], 0, 0) /\ Verdict([op |-> "clear"], 0, 2)
      /\ Verdict([op |-> "break"], 1, 0) /\ Verdict([op |-> "report"], 0, 0)
  BY DEF Verdict, Sums
<1>3. /\ Walk(VerdictMoves, ClearErrors, 0, 0) /\ Walk(VerdictMoves, ClearErrors, 0, 2)
      /\ Walk(VerdictMoves, BreakOnErrors, 1, 0) /\ Walk(VerdictMoves, Report, 0, 0)
  BY <1>1, <1>2, VerdictNamed DEF ClearErrors, BreakOnErrors, Report
<1>4. /\ Walk(VerdictMoves, Barrier, 0, 2) /\ Walk(VerdictMoves, Barrier, 1, 2)
      /\ Walk(VerdictMoves, Barrier, 0, 0) /\ Walk(VerdictMoves, Barrier, 1, 1)
  <2>1. ASSUME NEW x \in 0 .. 2, NEW y \in 0 .. 2, y >= x
        PROVE  Walk(VerdictMoves, Barrier, x, y)
    <3> DEFINE k == "barrier"
    <3>1. k \in {"barrier", "sum_errors"} /\ (IF k = "sum_errors" THEN y = 1 ELSE y >= x)
      BY <2>1
    <3>2. Barrier = Enter(k, 0, {}, "plain") \o Leave
      BY DEF Barrier
    <3> HIDE DEF k
    <3> QED BY <3>1, <3>2, VerdictMeeting
  <2> QED BY <2>1
<1>5. Walk(VerdictMoves, SumErrors, 0, 1) /\ Walk(VerdictMoves, SumErrors, 2, 1)
  <2>1. ASSUME NEW x \in 0 .. 2 PROVE Walk(VerdictMoves, SumErrors, x, 1)
    <3> DEFINE k == "sum_errors"
    <3>1. k \in {"barrier", "sum_errors"} /\ (IF k = "sum_errors" THEN 1 = 1 ELSE 1 >= x) /\ 1 \in 0 .. 2
      OBVIOUS
    <3>2. SumErrors = Enter(k, 0, {}, "plain") \o Leave
      BY DEF SumErrors
    <3> HIDE DEF k
    <3> QED BY <3>1, <3>2, VerdictMeeting
  <2> QED BY <2>1
<1> QED BY <1>3, <1>4, <1>5

\* A loop whose rounds begin and end without errors.
LEMMA VerdictLoop ==
    ASSUME NEW n \in Nat, NEW ss, IsLoop(ss, n), \A k \in 1 .. n : Walk(VerdictMoves, ss[k], 0, 0)
    PROVE  Walk(VerdictMoves, FlattenSeq(ss), 0, 0)
<1> DEFINE g == [k \in 0 .. n |-> 0]
<1>1. \A k \in 1 .. n : ss[k] \in Seq(Calls)
  BY DEF Walk
<1>2. ss \in Seq(Seq(Calls)) /\ Len(ss) = n
  BY <1>1, LoopType
<1>3. g[0] = 0 /\ g[n] = 0 /\ \A k \in 1 .. n : g[k - 1] = 0 /\ g[k] = 0
  OBVIOUS
<1> HIDE DEF g
<1>4. \A k \in 1 .. Len(ss) : Walk(VerdictMoves, ss[k], g[k - 1], g[k])
  BY <1>2, <1>3
<1>5. Walk(VerdictMoves, FlattenSeq(ss), g[0], g[Len(ss)])
  BY <1>2, <1>4, FlattenWalk
<1> QED BY <1>2, <1>3, <1>5

-----------------------------------------------------------------------------
\* What a point-to-point benchmark does with the errors of one window size.
LEMMA WindowVerdict ==
    ASSUME NEW b \in CPt2pt \ {"osu_latency_mt"}, NEW r \in CPt2ptRanks(b), NEW n \in Nat,
           NEW s \in Nat
    PROVE  Walk(VerdictMoves, WindowOfIterations(b, r, n, s, TRUE), 0, 1)
<1> DEFINE T == CPt2ptRanks(b)
           blind == b \in BandwidthTest /\ IsSender(b, r)
           X == {"elect", "break", "sum_errors", IF blind THEN "check" ELSE "clear"}
           x == IF blind THEN 0 ELSE 2
           loop == IF b \in Partitioned THEN PartitionedIterationLoops(b, r, n, s, TRUE)
                                        ELSE DefaultIterationsLoop(b, r, n, s, TRUE)
<1>1. WindowOfIterations(b, r, n, s, TRUE) = ClearErrors \o loop \o SumErrors \o Reduce
  BY DEF WindowOfIterations, Given
<1>2. Keeps(b, r, TRUE, T, X)
  <2>1. SyncInterThreads(b) = Barrier
    BY DEF SyncInterThreads
  <2>2. Inner(T, X, Barrier)
    BY InnerCollectives
  <2>3. Inner(T, X, UpdateValidationErrors(b, r))
    <3>1. IF blind THEN "clear" \notin X ELSE "check" \notin X
      OBVIOUS
    <3>2. UpdateValidationErrors(b, r) = IF blind THEN ClearErrors ELSE Check
      BY DEF UpdateValidationErrors
    <3> HIDE DEF X, blind, T
    <3> QED BY <3>1, <3>2, InnerVerdicts
  <2> QED BY <2>1, <2>2, <2>3 DEF Keeps
<1>3. Inner(T, X, loop)
  <2>1. TRUE \in BOOLEAN
    OBVIOUS
  <2> HIDE DEF X, blind
  <2> QED BY <1>2, <2>1, InnerPartitioned, InnerDefault
<1>4. Walk(VerdictMoves, ClearErrors, 0, x) /\ Walk(VerdictMoves, SumErrors, x, 1)
  BY VerdictCalls
<1>5. Walk(VerdictMoves, loop, x, x)
  <2>1. /\ {"elect", "break", "sum_errors"} \subseteq X /\ x \in 0 .. 2
        /\ x = 2 \/ "check" \in X
        /\ x = 0 \/ "clear" \in X
    OBVIOUS
  <2> HIDE DEF X, x, loop, T
  <2> QED BY <1>3, <2>1, VerdictStays
<1>6. Walk(VerdictMoves, Reduce, 1, 1)
  <2> DEFINE Y == {"elect", "break", "sum_errors", "check", "clear"}
  <2>1. Inner(T, Y, Reduce) /\ {"elect", "break", "sum_errors"} \subseteq Y
        /\ "check" \in Y /\ "clear" \in Y /\ 1 \in 0 .. 2
    BY InnerCollectives
  <2> HIDE DEF Y
  <2> QED BY <2>1, VerdictStays
<1> HIDE DEF loop, x
<1>7. Walk(VerdictMoves, ClearErrors \o loop, 0, x)
  BY <1>4, <1>5, WalkOn
<1>8. Walk(VerdictMoves, ClearErrors \o loop \o SumErrors, 0, 1)
  BY <1>4, <1>7, WalkOn
<1>9. Walk(VerdictMoves, ClearErrors \o loop \o SumErrors \o Reduce, 0, 1)
  BY <1>6, <1>8, WalkOn
<1> QED BY <1>1, <1>9

\* A point-to-point benchmark with one window size.
LEMMA CPt2ptVerdict ==
    ASSUME NEW b \in CPt2pt \ {"osu_latency_mt"}, NEW r \in CPt2ptRanks(b),
           b \notin LatencyTest => Len(Windows) = 1
    PROVE  Walk(VerdictMoves, CPt2ptProgram(b, r, TRUE), 0, 0)
<1> DEFINE W == WindowSizes(b)
           one(s) == RunIterationsForMsgSize(b, r, s, TRUE)
           L == [k \in 1 .. Len(Sizes) |-> Barrier \o one(Sizes[k]) \o Barrier \o BreakOnErrors]
<1>1. CPt2ptProgram(b, r, TRUE) = FlattenSeq(L) \o Report
  BY DEF CPt2ptProgram, ForEach, SyncInterThreads, Given
<1>2. Len(W) = 1 /\ W[1] \in Nat
  <2>1. \A k \in 1 .. Len(W) : W[k] \in Nat
    BY WindowsAre
  <2>2. Len(W) = 1
    BY DEF WindowSizes
  <2> QED BY <2>1, <2>2
<1>3. ASSUME NEW s \in Nat PROVE Walk(VerdictMoves, one(s), 0, 1)
  <2> DEFINE M == [k \in 1 .. Len(W) |-> WindowOfIterations(b, r, W[k], s, TRUE)]
             g == [k \in 0 .. 1 |-> k]
  <2>1. one(s) = FlattenSeq(M)
    BY DEF RunIterationsForMsgSize, ForEach
  <2>2. IsLoop(M, 1) /\ M[1] = WindowOfIterations(b, r, W[1], s, TRUE)
    BY <1>2 DEF IsLoop
  <2> HIDE DEF W, M, one
  <2>3. Walk(VerdictMoves, M[1], 0, 1)
    BY <1>2, <2>2, WindowVerdict
  <2>4. M \in Seq(Seq(Calls)) /\ Len(M) = 1
    <3>1. \A k \in 1 .. 1 : M[k] \in Seq(Calls)
      BY <2>3 DEF Walk
    <3> QED BY <2>2, <3>1, LoopType
  <2>5. g[0] = 0 /\ g[1] = 1 /\ \A k \in 1 .. 1 : g[k - 1] = 0 /\ g[k] = 1 /\ k = 1
    OBVIOUS
  <2> HIDE DEF g
  <2>6. \A k \in 1 .. Len(M) : Walk(VerdictMoves, M[k], g[k - 1], g[k])
    BY <2>3, <2>4, <2>5
  <2>7. Walk(VerdictMoves, FlattenSeq(M), g[0], g[Len(M)])
    BY <2>4, <2>6, FlattenWalk
  <2> QED BY <2>1, <2>4, <2>5, <2>7
<1>4. IsLoop(L, Len(Sizes)) /\ \A k \in 1 .. Len(Sizes) :
          L[k] = Barrier \o one(Sizes[k]) \o Barrier \o BreakOnErrors
  BY DEF IsLoop
<1> HIDE DEF W, one, L
<1>5. ASSUME NEW k \in 1 .. Len(Sizes) PROVE Walk(VerdictMoves, L[k], 0, 0)
  <2> DEFINE t == one(Sizes[k])
  <2>1. Walk(VerdictMoves, t, 0, 1)
    BY <1>3, SizesAre
  <2>2. L[k] = Barrier \o t \o Barrier \o BreakOnErrors
    BY <1>4
  <2> HIDE DEF t
  <2>3. Walk(VerdictMoves, Barrier \o t, 0, 1)
    BY <2>1, VerdictCalls, WalkOn
  <2>4. Walk(VerdictMoves, Barrier \o t \o Barrier, 0, 1)
    BY <2>3, VerdictCalls, WalkOn
  <2>5. Walk(VerdictMoves, Barrier \o t \o Barrier \o BreakOnErrors, 0, 0)
    BY <2>4, VerdictCalls, WalkOn
  <2> QED BY <2>2, <2>5
<1>6. Walk(VerdictMoves, FlattenSeq(L), 0, 0)
  BY <1>4, <1>5, SizesAre, VerdictLoop
<1> QED BY <1>1, <1>6, VerdictCalls, WalkOn

-----------------------------------------------------------------------------
\* A size of a collective benchmark, which begins where data may be compared.
LEMMA SizeVerdict ==
    ASSUME NEW b \in CCollective, NEW o \in OptionsOf(b), o.validate, NEW r, NEW k \in Nat
    PROVE  Walk(VerdictMoves, RunBenchmarkForMsgSize(b, r, k, o), 2, 1)
<1> DEFINE n == Sizes[k]
           lat == RunIterationsCore(b, r, n, o, LatencyStep(b, n))
           over == RunIterationsCore(b, r, n, o, OverlapStep(b, n))
           X == {"elect", "break", "sum_errors", "clear"}
           Y == {"elect", "break", "sum_errors", "clear", "check"}
<1>1. 0 \in 0 .. Turns - 1 /\ 0 \in Nat
  BY TurnsType
<1>2. "check" \notin X /\ {"elect", "break", "sum_errors"} \subseteq X /\ "clear" \in X
      /\ {"elect", "break", "sum_errors"} \subseteq Y /\ "clear" \in Y /\ "check" \in Y
      /\ 1 \in 0 .. 2 /\ 2 \in 0 .. 2
  OBVIOUS
<1> HIDE DEF X, Y
<1>3. Inner({}, X, lat) /\ Inner({}, X, over)
  <2>1. \A root \in 0 .. Procs - 1 :
            Inner({}, X, LatencyStep(b, n)[root]) /\ Inner({}, X, OverlapStep(b, n)[root])
    BY <1>1, InnerCollectivePieces
  <2>2. Inner({}, X, RunIterationsCore(b, r, n, o, LatencyStep(b, n)))
    BY <1>2, <2>1, InnerCollectiveCores
  <2>3. Inner({}, X, RunIterationsCore(b, r, n, o, OverlapStep(b, n)))
    BY <1>2, <2>1, InnerCollectiveCores
  <2> QED BY <2>2, <2>3
<1>4. \A Z : Inner({}, Z, Barrier) /\ Inner({}, Z, Reduce)
  BY InnerCollectives
<1>5. \A s : /\ Inner({}, X, s) => Walk(VerdictMoves, s, 2, 2)
             /\ Inner({}, Y, s) => Walk(VerdictMoves, s, 1, 1)
  BY <1>2, VerdictStays
<1>6. CASE IsNonBlocking(b)
  <2> DEFINE end == Reduce \o Barrier
  <2>1. RunBenchmarkForMsgSize(b, r, k, o) =
            (lat \o SumErrors \o Barrier \o over \o SumErrors \o Reduce \o Barrier) \o Barrier
    BY <1>6 DEF RunBenchmarkForMsgSize, RunNonBlockingForMsgSize, Given
  <2> HIDE DEF lat, over
  <2>2. /\ Walk(VerdictMoves, lat, 2, 2) /\ Walk(VerdictMoves, over, 2, 2)
        /\ Walk(VerdictMoves, Reduce, 1, 1)
    BY <1>3, <1>4, <1>5
  <2>3. Walk(VerdictMoves, lat \o SumErrors, 2, 1)
    BY <2>2, VerdictCalls, WalkOn
  <2>4. Walk(VerdictMoves, lat \o SumErrors \o Barrier, 2, 2)
    BY <2>3, VerdictCalls, WalkOn
  <2>5. Walk(VerdictMoves, lat \o SumErrors \o Barrier \o over, 2, 2)
    BY <2>2, <2>4, WalkOn
  <2>6. Walk(VerdictMoves, lat \o SumErrors \o Barrier \o over \o SumErrors, 2, 1)
    BY <2>5, VerdictCalls, WalkOn
  <2>7. Walk(VerdictMoves, lat \o SumErrors \o Barrier \o over \o SumErrors \o Reduce, 2, 1)
    BY <2>2, <2>6, WalkOn
  <2>8. Walk(VerdictMoves, lat \o SumErrors \o Barrier \o over \o SumErrors \o Reduce \o Barrier, 2, 1)
    BY <2>7, VerdictCalls, WalkOn
  <2>9. Walk(VerdictMoves, (lat \o SumErrors \o Barrier \o over \o SumErrors \o Reduce \o Barrier)
                              \o Barrier, 2, 1)
    BY <2>8, VerdictCalls, WalkOn
  <2> QED BY <2>1, <2>9
<1>7. CASE ~IsNonBlocking(b)
  <2> DEFINE root == StaleRoot(b, o, k)
             place == Given(o.in_place, InPlace(b, root))
             begin == Given(b \in DOMAIN PersistentColl, CollInit(b, root, n) \o Barrier)
             end == Given(b \in DOMAIN PersistentColl, RequestFree)
             first == place \o begin \o lat \o Reduce
  <2>1. RunBenchmarkForMsgSize(b, r, k, o) = (first \o SumErrors \o end \o Barrier) \o Barrier
    BY <1>7 DEF RunBenchmarkForMsgSize, RunBlockingForMsgSize, Given
  <2>2. root \in 0 .. Procs - 1
    BY <1>1, RootsAre
  <2> HIDE DEF root
  <2>3. \A Z : Inner({}, Z, InPlace(b, root)) /\ Inner({}, Z, RequestFree) /\ Inner({}, Z, CollInit(b, root, n))
    BY <1>1, <2>2, InnerCollectivePieces
  <2>4. Inner({}, X, place) /\ Inner({}, X, begin) /\ Inner({}, Y, end)
    <3>1. Inner({}, X, CollInit(b, root, n) \o Barrier)
      BY <1>4, <2>3, InnerOn
    <3> QED BY <2>3, <3>1, InnerOn
  <2> HIDE DEF lat, place, begin, end
  <2>5. Inner({}, X, first)
    BY <1>3, <1>4, <2>4, InnerOn
  <2> HIDE DEF first
  <2>6. Walk(VerdictMoves, first \o SumErrors, 2, 1)
    BY <1>5, <2>5, VerdictCalls, WalkOn
  <2>7. Walk(VerdictMoves, first \o SumErrors \o end, 2, 1)
    BY <1>5, <2>4, <2>6, WalkOn
  <2>8. Walk(VerdictMoves, first \o SumErrors \o end \o Barrier, 2, 1)
    BY <2>7, VerdictCalls, WalkOn
  <2>9. Walk(VerdictMoves, (first \o SumErrors \o end \o Barrier) \o Barrier, 2, 1)
    BY <2>8, VerdictCalls, WalkOn
  <2> QED BY <2>1, <2>9
<1> QED BY <1>6, <1>7

\* A collective benchmark.
LEMMA CCollectiveVerdict ==
    ASSUME NEW b \in CCollective, NEW o \in OptionsOf(b), o.validate, NEW r
    PROVE  Walk(VerdictMoves, CCollectiveProgram(b, r, o), 0, 0)
<1> DEFINE create == Given(b \in Neighborhood, CreateDistGraph)
           size(k) == RunBenchmarkForMsgSize(b, r, k, o)
           S == CollectiveSizes(b)
           n == Len(S)
           L == [k \in 1 .. n |-> Barrier \o size(S[k]) \o Barrier \o BreakOnErrors]
           X == {"elect", "break", "sum_errors", "check"}
<1>1. CCollectiveProgram(b, r, o) = create \o FlattenSeq(L) \o Report
  BY DEF CCollectiveProgram, ForEach
<1>2. Walk(VerdictMoves, create, 0, 0)
  <2>1. "check" \in X /\ {"elect", "break", "sum_errors"} \subseteq X /\ 0 \in 0 .. 2
    OBVIOUS
  <2> HIDE DEF X
  <2>2. Inner({}, X, Enter("all", 0, {}, "plain") \o Leave)
    <3>1. "all" \in CollectiveKinds /\ 0 \in Nat /\ {} \in SUBSET Nat /\ "plain" \in Forms
      BY DEF CollectiveKinds, Forms
    <3>2. "all" \notin Omissible
      BY DEF Omissible
    <3> QED BY <3>1, <3>2, InnerCollectives
  <2>3. Inner({}, X, CreateDistGraph)
    BY <2>2, InnerCollectives, InnerOn DEF CreateDistGraph
  <2>4. Inner({}, X, create)
    BY <2>3, InnerOn
  <2> HIDE DEF create
  <2> QED BY <2>1, <2>4, VerdictStays
<1>3. n \in Nat /\ \A k \in 1 .. n : S[k] \in Nat
  BY CollectiveSizesAre
<1>4. IsLoop(L, n) /\ \A k \in 1 .. n : L[k] = Barrier \o size(S[k]) \o Barrier \o BreakOnErrors
  BY DEF IsLoop
<1>5. \A k \in Nat : Walk(VerdictMoves, size(k), 2, 1)
  BY SizeVerdict
<1> HIDE DEF create, size, S, n, L
<1>6. ASSUME NEW k \in 1 .. n PROVE Walk(VerdictMoves, L[k], 0, 0)
  <2> DEFINE t == size(S[k])
  <2>1. Walk(VerdictMoves, t, 2, 1) /\ L[k] = Barrier \o t \o Barrier \o BreakOnErrors
    BY <1>3, <1>4, <1>5
  <2> HIDE DEF t
  <2>2. Walk(VerdictMoves, Barrier \o t, 0, 1)
    BY <2>1, VerdictCalls, WalkOn
  <2>3. Walk(VerdictMoves, Barrier \o t \o Barrier, 0, 1)
    BY <2>2, VerdictCalls, WalkOn
  <2>4. Walk(VerdictMoves, Barrier \o t \o Barrier \o BreakOnErrors, 0, 0)
    BY <2>3, VerdictCalls, WalkOn
  <2> QED BY <2>1, <2>4
<1>7. Walk(VerdictMoves, FlattenSeq(L), 0, 0)
  BY <1>3, <1>4, <1>6, VerdictLoop
<1>8. Walk(VerdictMoves, create \o FlattenSeq(L), 0, 0)
  BY <1>2, <1>7, WalkOn
<1> QED BY <1>1, <1>8, VerdictCalls, WalkOn

\* The errors of a size are forgotten where the next window size begins; with one
\* there is nothing to forget.
OneWindow(b) == b \in CPt2pt \ LatencyTest => Len(Windows) = 1

\* With one window size the errors of a size are cleared, counted, added up, and
\* end the sizes, in that order.
LEMMA ScriptsJudge ==
    ASSUME NEW b \in Benchmarks, b \in ReportsErrors, OneWindow(b), NEW o \in OptionsOf(b), NEW r \in Ranks[b]
    PROVE  /\ o.validate => Walk(VerdictMoves, Scripts[b][o][r], 0, 0)
           /\ ~o.validate => \A k \in 1 .. Len(Scripts[b][o][r]) : Scripts[b][o][r][k].op # "check"
<1>1. Scripts[b][o][r] = Program(b, r, o) /\ o.validate \in BOOLEAN
  BY ScriptsAre, OptionsAre
<1>2. ASSUME o.validate PROVE Walk(VerdictMoves, Program(b, r, o), 0, 0)
  <2>1. CASE b \in CPt2pt
    <3>1. b # "osu_latency_mt"
      BY <1>2 DEF OptionsOf
    <3>2. Ranks[b] = CPt2ptRanks(b)
      BY <2>1, <3>1, AllRanks
    <3>3. o.validate = TRUE
      BY <1>1, <1>2
    <3>4. Program(b, r, o) = CPt2ptProgram(b, r, TRUE)
      BY <2>1, <3>3, ProgramsAre
    <3> QED BY <2>1, <3>1, <3>2, <3>4, CPt2ptVerdict DEF OneWindow
  <2>2. CASE b \in CCollective
    <3>1. Walk(VerdictMoves, CCollectiveProgram(b, r, o), 0, 0)
      BY <1>2, <2>2, CCollectiveVerdict
    <3> QED BY <2>2, <3>1, ProgramsAre
  <2> QED BY <2>1, <2>2 DEF ReportsErrors
<1>3. ASSUME ~o.validate PROVE \E T : Inner(T, {"check"}, Program(b, r, o))
  <2>1. CASE b \in CPt2pt
    <3>1. r \in CPt2ptRanks(b) /\ Program(b, r, o) = CPt2ptProgram(b, r, o.validate)
      <4>1. Ranks[b] = {a[1] : a \in Actors[b]} /\ Actors[b] = CPt2ptActors(b)
        BY <2>1, ActorsAre, Tables DEF Ranks
      <4> QED BY <2>1, <4>1, ProgramsAre DEF CPt2ptActors
    <3> DEFINE X == {"check"}
               v == o.validate
    <3>2. (X = {} \/ (X = {"check"} /\ ~v)) /\ v \in BOOLEAN
      BY <1>1, <1>3
    <3> HIDE DEF X, v
    <3>3. Inner(CPt2ptRanks(b), X, CPt2ptProgram(b, r, v))
      BY <2>1, <3>1, <3>2, CPt2ptInner
    <3> QED BY <3>1, <3>3 DEF X, v
  <2>2. CASE b \in CCollective
    <3>1. Inner({}, {"check"}, CCollectiveProgram(b, r, o))
      BY <1>3, <2>2, CCollectiveInner
    <3> QED BY <2>2, <3>1, ProgramsAre
  <2> QED BY <2>1, <2>2 DEF ReportsErrors
<1>4. ASSUME ~o.validate, NEW k \in 1 .. Len(Scripts[b][o][r]) PROVE Scripts[b][o][r][k].op # "check"
  <2>1. PICK T : Scripts[b][o][r] \in Seq(InnerCall(T, {"check"}))
    BY <1>1, <1>3, <1>4 DEF Inner
  <2>2. Scripts[b][o][r][k] \in InnerCall(T, {"check"})
    BY <1>4, <2>1
  <2> QED BY <2>2 DEF InnerCall, Omissible
<1> QED BY <1>1, <1>2, <1>4

-----------------------------------------------------------------------------
(* What becomes of an error while a benchmark runs. *)
\* How the count may stand along a script.
Counting(b, o, r) == CHOOSE f :
    f[0] = 0 /\ f[Len(Scripts[b][o][r])] = 0 /\ Trace(VerdictMoves, Scripts[b][o][r], f)

\* How it may stand at an actor.
Level(a) == Counting(bench, opt, a[1])[pc[a] - 1]

\* The runs that compare data.
Trial == bench \in ReportsErrors /\ opt.validate /\ OneWindow(bench)

\* Such a count there is, in every such run.
LEMMA TrialRuns ==
    ASSUME RunTyped, Trial, NEW r \in Ranks[bench]
    PROVE  LET s == Scripts[bench][opt][r]
               f == Counting(bench, opt, r)
           IN  /\ f[0] = 0 /\ f[Len(s)] = 0 /\ f[Len(s) - 1] = 0
               /\ Len(s) \in Nat \ {0} /\ s[Len(s)].op = "report"
               /\ \A k \in 1 .. Len(s) : Verdict(s[k], f[k - 1], f[k]) /\ f[k] \in 0 .. 2
<1> DEFINE s == Scripts[bench][opt][r]
           f == Counting(bench, opt, r)
<1>1. Walk(VerdictMoves, s, 0, 0)
  BY ScriptsJudge DEF RunTyped, Trial
<1>2. \E g : g[0] = 0 /\ g[Len(s)] = 0 /\ Trace(VerdictMoves, s, g)
  BY <1>1 DEF Walk
<1>3. f[0] = 0 /\ f[Len(s)] = 0 /\ Trace(VerdictMoves, s, f)
  BY <1>2 DEF Counting
<1>4. Len(s) \in Nat \ {0} /\ s[Len(s)].op = "report"
  BY ProgramReports DEF RunTyped, Trial
<1> HIDE DEF s, f
<1>5. ASSUME NEW k \in 1 .. Len(s)
      PROVE  Verdict(s[k], f[k - 1], f[k]) /\ f[k] \in 0 .. 2 /\ f[k - 1] \in 0 .. 2
  <2> DEFINE m == <<s[k], f[k - 1], f[k]>>
  <2>1. m \in VerdictMoves
    BY <1>3 DEF Trace
  <2>2. m[1] = s[k] /\ m[2] = f[k - 1] /\ m[3] = f[k]
    OBVIOUS
  <2> HIDE DEF m
  <2> QED BY <2>1, <2>2 DEF VerdictMoves
<1>6. f[Len(s) - 1] = 0
  <2>1. Verdict(s[Len(s)], f[Len(s) - 1], 0) /\ f[Len(s) - 1] \in 0 .. 2
    <3> DEFINE n == Len(s)
    <3>1. n \in 1 .. Len(s) /\ f[n] = 0
      BY <1>3, <1>4
    <3> HIDE DEF n
    <3>2. Verdict(s[n], f[n - 1], 0) /\ f[n - 1] \in 0 .. 2
      BY <1>5, <3>1
    <3> QED BY <3>2 DEF n
  <2>2. ~Sums(s[Len(s)])
    BY <1>4 DEF Sums
  <2> QED BY <1>4, <2>1, <2>2 DEF Verdict
<1> QED BY <1>3, <1>4, <1>5, <1>6 DEF s, f

\* Nothing is left at the report, whether the actor has come to it along its
\* program or has left out sizes.
LEMMA LevelType ==
    ASSUME RunTyped, PlaceTyped, Trial, NEW a \in Actors[bench]
    PROVE  /\ Level(a) \in 0 .. 2
           /\ pc[a] \in 1 .. Len(Script(a)) + 1 /\ Len(Script(a)) \in Nat \ {0}
           /\ Script(a)[Len(Script(a))].op = "report"
           /\ pc[a] >= Len(Script(a)) => Level(a) = 0
<1> DEFINE f == Counting(bench, opt, a[1])
           s == Script(a)
<1>1. a[1] \in Ranks[bench]
  BY ActorType DEF RunTyped
<1>2. /\ f[0] = 0 /\ f[Len(s)] = 0 /\ f[Len(s) - 1] = 0 /\ Len(s) \in Nat \ {0}
      /\ s[Len(s)].op = "report" /\ \A k \in 1 .. Len(s) : f[k] \in 0 .. 2
  BY <1>1, TrialRuns DEF Script
<1>3. pc[a] \in 1 .. Len(s) + 1 /\ Level(a) = f[pc[a] - 1]
  BY DEF PlaceTyped, Level
<1> HIDE DEF f, s
<1>4. pc[a] - 1 = 0 \/ pc[a] - 1 \in 1 .. Len(s)
  BY <1>2, <1>3
<1>5. pc[a] >= Len(s) => pc[a] - 1 = Len(s) \/ pc[a] - 1 = Len(s) - 1
  BY <1>2, <1>3
<1>6. Level(a) \in 0 .. 2
  BY <1>2, <1>3, <1>4
<1>7. pc[a] >= Len(s) => Level(a) = 0
  BY <1>2, <1>3, <1>5
<1> QED BY <1>2, <1>3, <1>6, <1>7 DEF s

\* How a call changes it.
LEMMA LevelMoves ==
    ASSUME RunTyped, PlaceTyped, Trial, NEW a \in Actors[bench], NEW ops, At(a, ops), UNCHANGED run,
           pc'[a] = pc[a] + 1
    PROVE  Verdict(Now(a), Level(a), Level(a)') /\ Level(a)' \in 0 .. 2
<1> DEFINE f == Counting(bench, opt, a[1])
           s == Script(a)
<1>1. a[1] \in Ranks[bench] /\ pc[a] \in 1 .. Len(s) /\ pc[a] \in Nat \ {0} /\ Now(a) = s[pc[a]]
  BY Doing DEF Now
<1>2. \A k \in 1 .. Len(s) : Verdict(s[k], f[k - 1], f[k]) /\ f[k] \in 0 .. 2
  BY <1>1, TrialRuns DEF Script
<1>3. Level(a) = f[pc[a] - 1]
  BY DEF Level
<1>4. Level(a)' = f[pc[a]]
  <2>1. bench' = bench /\ opt' = opt /\ pc'[a] - 1 = pc[a]
    BY <1>1 DEF run
  <2> QED BY <2>1 DEF Level
<1> HIDE DEF f, s
<1> QED BY <1>1, <1>2, <1>3, <1>4

\* Who stays where it is stays at its count.
LEMMA LevelStays ==
    ASSUME UNCHANGED run, NEW b, pc'[b] = pc[b] PROVE Level(b)' = Level(b)
BY DEF run, Level

\* Where a call that is not the first or the last part of a collective operation is
\* made, the rank is in no operation.
LEMMA NotInside ==
    ASSUME RunTyped, PlaceTyped, LedgerTyped, Inside, bench # "osu_latency_mt",
           NEW a \in Actors[bench], Phase(a) # "in", NEW k \in DOMAIN ledger
    PROVE  a[1] \notin DOMAIN ledger[k].in \ ledger[k].out
<1>1. a[1] \in Ranks[bench]
  BY ActorType DEF RunTyped
<1>2. \A b \in Actors[bench] : b[1] = a[1] => b = a
  BY OnlyOne
<1>3. ~IsIn(ledger, a[1])
  BY <1>1, <1>2 DEF Inside
<1> QED BY <1>3 DEF IsIn

\* Only the second part of a collective operation is called from inside it.
LEMMA PhaseAt ==
    ASSUME RunTyped, PlaceTyped, NEW a \in Actors[bench], NEW ops, At(a, ops)
    PROVE  /\ Now(a).op = "enter" /\ bench # "osu_latency_mt" /\ OnCourse => Phase(a) = "out"
           /\ Now(a).op \notin {"enter", "leave"} => Phase(a) = "out"
<1>1. LocalMove(a[1], Now(a), Here(a).local, There(a).local) /\ Now(a).op \in ops
  BY Doing
<1>2. Now(a).op \notin {"enter", "leave"} => Phase(a) = "out"
  BY <1>1 DEF LocalMove, OrderlyMove, Phase
<1>3. ASSUME Now(a).op = "enter", bench # "osu_latency_mt", OnCourse PROVE Phase(a) = "out"
  <2>1. At(a, {"enter"}) /\ "report" \notin {"enter"}
    BY <1>3 DEF At, Now
  <2>2. Here(a).local.alone = (bench # "osu_latency_mt")
    BY <1>3, <2>1, StandsSo
  <2> QED BY <1>1, <1>3, <2>2 DEF LocalMove, OrderlyMove, Phase
<1> QED BY <1>2, <1>3

-----------------------------------------------------------------------------
\* Rank r has entered operation i of L, of this kind, and brought the part p; M is what
\* has become of L.
Grown(L, M, i, r, kind, p) ==
    /\ DOMAIN M = DOMAIN L \cup {i} /\ i \in Nat \ {0} /\ 1 .. i - 1 \subseteq DOMAIN L
    /\ r \in DOMAIN M[i].in /\ M[i].in[r] = p /\ M[i].kind = kind
    /\ IF i \in DOMAIN L THEN r \notin DOMAIN L[i].in ELSE M[i].out = {}
    /\ \A k \in DOMAIN L :
          /\ M[k].kind = L[k].kind /\ M[k].out = L[k].out
          /\ \A q \in DOMAIN L[k].in : q \in DOMAIN M[k].in /\ M[k].in[q] = L[k].in[q]
    /\ \A k \in DOMAIN M : \A q \in DOMAIN M[k].in :
          (k = i /\ q = r) \/ (k \in DOMAIN L /\ q \in DOMAIN L[k].in)

\* What an actor adds to the operations that it enters, its errors among it.
LEMMA EnteringGrows ==
    ASSUME RunTyped, PlaceTyped, DataTyped, RemoteTyped, LedgerTyped,
           NEW a \in Actors[bench], EnterCollective(a), "collective" \notin wrong'
    PROVE  \E i, p : Grown(ledger, ledger', i, a[1], Now(a).kind, p) /\ p.errors = errors[a]
<1> DEFINE r == a[1]
           i == EntryOf(r)
           p == [stamp |-> buffer[a].stamp, errors |-> errors[a], age |-> age[r] + 1]
           op == Now(a)
<1>1. /\ At(a, {"enter"})
      /\ IF i > Len(ledger) THEN ledger' = Append(ledger, Opened(op, r, p))
                            ELSE ledger' = Joined(ledger, i, r, p)
      /\ ~(i > Len(ledger)) => ledger[i].kind = op.kind
  <2>1. ~(i > Len(ledger)) => ledger[i].kind = op.kind
    BY DEF EnterCollective, Complain
  <2> QED BY <2>1 DEF EnterCollective, Opened, Joined
<1>2. r \in Ranks[bench] /\ op \in Calls /\ op.op = "enter"
  BY <1>1, Doing
<1>3. p \in Parts
  <2>1. buffer[a].stamp \in Stamps /\ errors[a] \in BOOLEAN /\ age[r] + 1 \in Nat
    BY <1>2 DEF DataTyped, RemoteTyped
  <2> QED BY <2>1 DEF Parts
<1>4. /\ i \in 1 .. Len(ledger) + 1 /\ Len(ledger) \in Nat
      /\ i <= Len(ledger) => r \notin DOMAIN ledger[i].in
  BY NextEntry DEF LedgerTyped
<1>5. ledger \in Seq(Entries) /\ DOMAIN ledger = 1 .. Len(ledger)
  BY DEF LedgerTyped, Ledgers
<1>p. p.errors = errors[a]
  OBVIOUS
<1>r. r = a[1] /\ op = Now(a)
  OBVIOUS
<1> HIDE DEF p, op, i, r
<1>6. i \in Nat \ {0} /\ 1 .. i - 1 \subseteq DOMAIN ledger
  BY <1>4, <1>5
<1>7. ASSUME i > Len(ledger) PROVE Grown(ledger, ledger', i, r, op.kind, p)
  <2> DEFINE e == Opened(op, r, p)
             n == Len(ledger)
             M == Append(ledger, e)
  <2>1. e \in Entries /\ e.out = {} /\ DOMAIN e.in = {r} /\ e.in[r] = p
    BY <1>2, <1>3, OpenedFields
  <2>2. e.kind = op.kind
    BY DEF Opened
  <2> HIDE DEF e
  <2>3. i = n + 1 /\ n \in Nat
    BY <1>4, <1>7
  <2>4. /\ DOMAIN M = 1 .. n + 1 /\ M[n + 1] = e
        /\ \A j \in DOMAIN ledger : M[j] = ledger[j]
    BY <1>5, <2>1, <2>3
  <2> HIDE DEF M
  <2>5. DOMAIN M = DOMAIN ledger \cup {i} /\ i \notin DOMAIN ledger /\ M[i] = e
    BY <1>5, <2>3, <2>4
  <2>6. Grown(ledger, M, i, r, op.kind, p)
    <3>1. \A k \in DOMAIN ledger :
            /\ M[k].kind = ledger[k].kind /\ M[k].out = ledger[k].out
            /\ \A q \in DOMAIN ledger[k].in : q \in DOMAIN M[k].in /\ M[k].in[q] = ledger[k].in[q]
      BY <2>4
    <3>2. \A k \in DOMAIN M : \A q \in DOMAIN M[k].in :
            (k = i /\ q = r) \/ (k \in DOMAIN ledger /\ q \in DOMAIN ledger[k].in)
      BY <2>1, <2>4, <2>5
    <3>3. r \in DOMAIN M[i].in /\ M[i].in[r] = p /\ M[i].kind = op.kind /\ M[i].out = {}
      BY <2>1, <2>2, <2>5
    <3> QED BY <1>6, <2>5, <3>1, <3>2, <3>3 DEF Grown
  <2>7. ledger' = M
    BY <1>1, <1>7 DEF M, e
  <2> QED BY <2>6, <2>7
<1>8. ASSUME ~(i > Len(ledger)) PROVE Grown(ledger, ledger', i, r, op.kind, p)
  <2> DEFINE e == Joining(ledger[i], r, p)
             M == [ledger EXCEPT ![i] = e]
  <2>1. i \in DOMAIN ledger /\ ledger[i] \in Entries /\ r \notin DOMAIN ledger[i].in
    BY <1>4, <1>5, <1>8
  <2>2. /\ DOMAIN e.in = DOMAIN ledger[i].in \cup {r} /\ e.out = ledger[i].out /\ e.in[r] = p
        /\ \A q \in DOMAIN ledger[i].in : q # r => e.in[q] = ledger[i].in[q]
    BY <1>2, <1>3, <2>1, JoiningFields
  <2>3. e.kind = ledger[i].kind /\ ledger[i].kind = op.kind
    BY <1>1, <1>8, <2>1 DEF Joining, Entries
  <2>4. ledger' = M
    BY <1>1, <1>8 DEF Joined, Joining
  <2> HIDE DEF e
  <2>5. DOMAIN M = DOMAIN ledger /\ M[i] = e /\ \A k \in DOMAIN ledger : k # i => M[k] = ledger[k]
    BY <1>5, <2>1
  <2> HIDE DEF M
  <2>6. \A k \in DOMAIN ledger :
          /\ M[k].kind = ledger[k].kind /\ M[k].out = ledger[k].out
          /\ \A q \in DOMAIN ledger[k].in : q \in DOMAIN M[k].in /\ M[k].in[q] = ledger[k].in[q]
    BY <2>1, <2>2, <2>3, <2>5
  <2>7. \A k \in DOMAIN M : \A q \in DOMAIN M[k].in :
          (k = i /\ q = r) \/ (k \in DOMAIN ledger /\ q \in DOMAIN ledger[k].in)
    BY <2>1, <2>2, <2>5
  <2> QED BY <1>6, <2>1, <2>2, <2>3, <2>4, <2>5, <2>6, <2>7 DEF Grown
<1> QED BY <1>7, <1>8, <1>p, <1>r

\* Rank r has left operation k of L; the first d operations, which are over, are gone.
Left(L, M, d, k, r) ==
    /\ d = 0 \/ (d = 1 /\ k = 1 /\ Ranks[bench] \subseteq L[1].out \cup {r})
    /\ \A j \in DOMAIN M :
          /\ j + d \in DOMAIN L /\ M[j].kind = L[j + d].kind /\ M[j].in = L[j + d].in
          /\ M[j].out = L[j + d].out \cup (IF j + d = k THEN {r} ELSE {})
    /\ \A j \in DOMAIN L : j > d => j - d \in DOMAIN M

\* What is left of it, and what the rank takes along.
LEMMA LeavingShrinks ==
    ASSUME RunTyped, PlaceTyped, DataTyped, LedgerTyped, Inside, Gathered(ledger),
           NEW a \in Actors[bench], LeaveCollective(a)
    PROVE  \E d \in {0, 1} : \E k \in DOMAIN ledger :
           /\ Left(ledger, ledger', d, k, a[1])
           /\ a[1] \in DOMAIN ledger[k].in \ ledger[k].out
           /\ ledger[k].kind = "sum_errors" => /\ Ranks[bench] \subseteq DOMAIN ledger[k].in
                                               /\ errors'[a] = \E q \in Ranks[bench] : ledger[k].in[q].errors
           /\ ledger[k].kind # "sum_errors" => errors'[a] = errors[a]
<1> DEFINE r == a[1]
           k == UnderWay(r)
           left == Parted(ledger, k, r)
           e == Parting(ledger[k], r)
<1>1. /\ At(a, {"leave"}) /\ Acts(a) /\ Complete(r)
      /\ ledger' = IF left[1].out = Ranks[bench] THEN Tail(left) ELSE left
  BY DEF LeaveCollective, Acts, Parted
<1>2. r \in Ranks[bench] /\ Phase(a) = "in" /\ a[1] = r
  BY <1>1, Doing, PhaseLeaves
<1>3. IsIn(ledger, r)
  <2> HIDE DEF r
  <2> QED BY <1>2 DEF Inside
<1>4. k \in DOMAIN ledger /\ r \in DOMAIN ledger[k].in \ ledger[k].out
  BY <1>3, EntryUnderWay DEF LedgerTyped
<1>5. /\ ledger \in Seq(Entries) /\ DOMAIN ledger = 1 .. Len(ledger) /\ Len(ledger) \in Nat
      /\ Ordered(ledger) /\ Entered(ledger)
  BY DEF LedgerTyped, Ledgers
<1>6. ledger[k].kind = "sum_errors" => Needed(ledger[k], r) = Ranks[bench]
  BY DEF Needed
<1>7. Needed(ledger[k], r) \subseteq DOMAIN ledger[k].in
  BY <1>1 DEF Complete
<1>8. /\ ledger[k].kind = "sum_errors" => errors'[a] = \E q \in Needed(ledger[k], r) : ledger[k].in[q].errors
      /\ ledger[k].kind # "sum_errors" => errors'[a] = errors[a]
  <2> DEFINE bad == \E q \in Needed(ledger[k], r) : ledger[k].in[q].errors
  <2>1. errors' = [errors EXCEPT ![a] = IF ledger[k].kind = "sum_errors" THEN bad ELSE @]
    BY DEF LeaveCollective
  <2>2. errors \in [Actors[bench] -> BOOLEAN]
    BY DEF DataTyped
  <2> HIDE DEF bad, k, r, left
  <2> QED BY <2>1, <2>2 DEF bad
<1> HIDE DEF k, left, r, e
<1>9. e \in Entries /\ e.in = ledger[k].in /\ e.kind = ledger[k].kind /\ e.out = ledger[k].out \cup {r}
  <2>1. ledger[k] \in Entries
    BY <1>4, <1>5
  <2> QED BY <1>2, <2>1, PartingFields DEF Parting, Entries, e
<1>10. left = [ledger EXCEPT ![k] = e]
  BY DEF left, Parted, Parting, e
<1>11. /\ left \in Seq(Entries) /\ DOMAIN left = DOMAIN ledger /\ left[k] = e
       /\ \A j \in DOMAIN ledger : j # k => left[j] = ledger[j]
  BY <1>4, <1>5, <1>9, <1>10
<1>12. \A j \in DOMAIN left :
          /\ j \in DOMAIN ledger /\ left[j].kind = ledger[j].kind /\ left[j].in = ledger[j].in
          /\ left[j].out = ledger[j].out \cup (IF j = k THEN {r} ELSE {})
  BY <1>4, <1>9, <1>11
<1>13. \E d \in {0, 1} : Left(ledger, ledger', d, k, r)
  <2>1. CASE left[1].out # Ranks[bench]
    <3>1. ledger' = left
      BY <1>1, <2>1
    <3>2. \A j \in DOMAIN left : j + 0 = j
      BY <1>5, <1>11
    <3>3. \A j \in DOMAIN ledger : j - 0 = j
      BY <1>5
    <3>4. Left(ledger, left, 0, k, r)
      BY <1>11, <1>12, <3>2, <3>3 DEF Left
    <3> QED BY <3>1, <3>4
  <2>2. CASE left[1].out = Ranks[bench]
    <3> DEFINE M == Tail(left)
               n == Len(ledger)
    <3>1. k = 1
      <4>1. ledger[1].out # Ranks[bench] /\ 1 \in DOMAIN ledger
        BY <1>4, <1>5 DEF Gathered
      <4> QED BY <1>11, <2>2, <4>1
    <3>2. n \in Nat \ {0} /\ Len(left) = n /\ left # <<>>
      BY <1>4, <1>5, <1>11
    <3>3. DOMAIN M = 1 .. n - 1 /\ \A j \in 1 .. n - 1 : M[j] = left[j + 1]
      <4>1. M \in Seq(Entries) /\ Len(M) = Len(left) - 1 /\ \A j \in 1 .. Len(M) : M[j] = left[j + 1]
        BY <1>11, <3>2, HeadTailProperties
      <4> HIDE DEF M, n
      <4> QED BY <3>2, <4>1
    <3>4. ledger' = M
      BY <1>1, <2>2
    <3> HIDE DEF M
    <3>5. \A j \in 1 .. n - 1 : j + 1 \in DOMAIN left
      BY <1>5, <1>11, <3>2
    <3>6. \A j \in DOMAIN ledger : j > 1 => j - 1 \in 1 .. n - 1
      BY <1>5, <3>2
    <3>7. Ranks[bench] \subseteq ledger[1].out \cup {r}
      BY <1>4, <1>9, <1>11, <2>2, <3>1
    <3>8. Left(ledger, M, 1, k, r)
      <4> HIDE DEF n
      <4> QED BY <1>12, <3>1, <3>3, <3>5, <3>6, <3>7 DEF Left
    <3> QED BY <3>4, <3>8
  <2> QED BY <2>1, <2>2
<1> QED BY <1>2, <1>4, <1>6, <1>7, <1>8, <1>13

-----------------------------------------------------------------------------
\* An actor that knows of errors, and has come to no report, is where there may be
\* some.
Doubtful == \A a \in Actors[bench] : errors[a] /\ pc[a] < Len(Script(a)) => Level(a) >= 1

\* In an operation an actor knows what it brought into it.
Recalled ==
    \A a \in Actors[bench] : \A k \in DOMAIN ledger : a[1] \in DOMAIN ledger[k].in \ ledger[k].out =>
        /\ ledger[k].in[a[1]].errors = errors[a]
        /\ ledger[k].kind = "sum_errors" => Level(a) = 1

\* The exit code is what an actor knew in the end.
Exits == \A a \in Actors[bench] : Finished(a) => failed[a] = errors[a]

\* What holds of an actor that calls.
LEMMA TrialCalls ==
    ASSUME IInv, Trial, NEW a \in Actors[bench], Acts(a)
    PROVE  /\ RunTyped /\ PlaceTyped /\ DataTyped /\ RemoteTyped /\ OnCourse /\ LedgerTyped /\ Inside
           /\ bench # "osu_latency_mt" /\ UNCHANGED run /\ bench' = bench /\ Trial' /\ RunTyped'
           /\ \A b \in Actors[bench] : Script(b)' = Script(b)
           /\ \A b \in Actors[bench] : b # a => /\ pc'[b] = pc[b] /\ errors'[b] = errors[b]
                                                /\ Level(b)' = Level(b) /\ b[1] # a[1]
           /\ \/ pc'[a] = pc[a] /\ (Land(a) \/ Meet(a)) /\ Level(a)' = Level(a)
              \/ /\ pc'[a] = pc[a] + 1 /\ At(a, {Now(a).op}) /\ ~Land(a)
                 /\ Verdict(Now(a), Level(a), Level(a)') /\ Level(a)' \in 0 .. 2
              \/ Break(a) /\ pc'[a] = Len(Script(a)) /\ Level(a) <= 1
<1>1. /\ RunTyped /\ PlaceTyped /\ DataTyped /\ ClockTyped /\ RemoteTyped /\ OnCourse /\ LedgerTyped
      /\ Inside /\ Blame /\ UNCHANGED run
  BY Frames DEF IInv, Typed
<1>2. bench # "osu_latency_mt"
  BY <1>1 DEF Trial, RunTyped, OptionsOf
<1>3. bench' = bench /\ opt' = opt /\ \A b \in Actors[bench] : Script(b)' = Script(b)
  BY <1>1 DEF run, Script
<1>4. Trial' /\ RunTyped'
  BY <1>1, <1>3 DEF Trial, RunTyped
<1>5. /\ \A b \in Actors[bench] : b # a => pc'[b] = pc[b]
      /\ \/ pc'[a] = pc[a] /\ (Land(a) \/ Meet(a))
         \/ pc'[a] = pc[a] + 1 /\ At(a, {Now(a).op})
         \/ Break(a) /\ pc'[a] = Len(Script(a)) /\ At(a, {"break"})
  BY <1>1, <1>2, Going
<1>6. ASSUME NEW b \in Actors[bench], b # a
      PROVE  /\ pc'[b] = pc[b] /\ errors'[b] = errors[b] /\ Level(b)' = Level(b) /\ b[1] # a[1]
  <2>1. pc'[b] = pc[b] /\ errors'[b] = errors[b]
    BY <1>1, <1>5, <1>6, ErrorsStay
  <2>2. Level(b)' = Level(b)
    BY <1>1, <2>1, LevelStays
  <2>3. b[1] # a[1]
    BY <1>1, <1>2, <1>6, OnlyOne
  <2> QED BY <2>1, <2>2, <2>3
<1>7. CASE pc'[a] = pc[a] /\ (Land(a) \/ Meet(a))
  <2>1. Level(a)' = Level(a)
    BY <1>1, <1>7, LevelStays
  <2> QED BY <1>1, <1>2, <1>3, <1>4, <1>6, <1>7, <2>1
<1>8. CASE pc'[a] = pc[a] + 1 /\ At(a, {Now(a).op})
  <2>1. Verdict(Now(a), Level(a), Level(a)') /\ Level(a)' \in 0 .. 2
    BY <1>1, <1>8, LevelMoves
  <2>2. ~Land(a)
    <3>1. pc[a] \in Nat
      BY <1>1 DEF PlaceTyped
    <3> QED BY <1>8, <3>1 DEF Land
  <2> QED BY <1>1, <1>2, <1>3, <1>4, <1>6, <1>8, <2>1, <2>2
<1>9. CASE Break(a) /\ pc'[a] = Len(Script(a)) /\ At(a, {"break"})
  <2> DEFINE f == Counting(bench, opt, a[1])
             s == Script(a)
  <2>1. a[1] \in Ranks[bench] /\ pc[a] \in 1 .. Len(s) /\ Now(a) = s[pc[a]] /\ Now(a).op = "break"
    BY <1>1, <1>9, Doing DEF At, Now
  <2>2. \A k \in 1 .. Len(s) : Verdict(s[k], f[k - 1], f[k])
    BY <1>1, <2>1, TrialRuns DEF Script
  <2>3. Level(a) = f[pc[a] - 1]
    BY DEF Level
  <2> HIDE DEF f, s
  <2>4. Level(a) <= 1
    BY <2>1, <2>2, <2>3 DEF Verdict
  <2> QED BY <1>1, <1>2, <1>3, <1>4, <1>6, <1>9, <2>4
<1> QED BY <1>5, <1>7, <1>8, <1>9

\* Every call keeps it so: an actor takes errors along only from a sum, at 1, or finds
\* them, at 2, and no call but the sum lowers the count.
LEMMA DoubtfulStep ==
    ASSUME IInv, Trial, Gathered(ledger), Doubtful, Recalled, NEW a \in Actors[bench], Acts(a)
    PROVE  Doubtful'
<1>1. /\ RunTyped /\ PlaceTyped /\ DataTyped /\ LedgerTyped /\ Inside /\ bench' = bench
      /\ \A b \in Actors[bench] : Script(b)' = Script(b)
      /\ \A b \in Actors[bench] : b # a => pc'[b] = pc[b] /\ errors'[b] = errors[b] /\ Level(b)' = Level(b)
      /\ \/ pc'[a] = pc[a] /\ (Land(a) \/ Meet(a)) /\ Level(a)' = Level(a)
         \/ /\ pc'[a] = pc[a] + 1 /\ At(a, {Now(a).op}) /\ ~Land(a)
            /\ Verdict(Now(a), Level(a), Level(a)') /\ Level(a)' \in 0 .. 2
         \/ Break(a) /\ pc'[a] = Len(Script(a)) /\ Level(a) <= 1
  BY TrialCalls
<1>2. ASSUME NEW b \in Actors[bench]
      PROVE  Len(Script(b)) \in Nat /\ pc[b] \in Nat /\ Level(b) \in 0 .. 2
  BY <1>1, LevelType DEF PlaceTyped
<1>3. ASSUME errors'[a], pc'[a] < Len(Script(a)) PROVE Level(a)' >= 1
  <2>1. CASE pc'[a] = pc[a] /\ (Land(a) \/ Meet(a)) /\ Level(a)' = Level(a)
    <3>1. errors' = errors
      BY <2>1 DEF Land, Meet, counts
    <3> QED BY <1>3, <2>1, <3>1 DEF Doubtful
  <2>2. CASE Break(a) /\ pc'[a] = Len(Script(a)) /\ Level(a) <= 1
    BY <1>2, <1>3, <2>2
  <2>3. CASE /\ pc'[a] = pc[a] + 1 /\ At(a, {Now(a).op}) /\ ~Land(a)
             /\ Verdict(Now(a), Level(a), Level(a)') /\ Level(a)' \in 0 .. 2
    <3>1. pc[a] < Len(Script(a))
      BY <1>2, <1>3, <2>3
    <3>2. CASE LeaveCollective(a)
      <4>1. Now(a).op = "leave"
        BY <2>3, <3>2, Calling
      <4>2. Level(a)' >= Level(a)
        BY <2>3, <4>1 DEF Verdict, Sums
      <4>3. Level(a) >= 1
        <5>1. PICK d \in {0, 1}, k \in DOMAIN ledger :
                /\ a[1] \in DOMAIN ledger[k].in \ ledger[k].out
                /\ ledger[k].kind # "sum_errors" => errors'[a] = errors[a]
          BY <1>1, <3>2, LeavingShrinks
        <5>2. ledger[k].kind = "sum_errors" => Level(a) = 1
          BY <5>1 DEF Recalled
        <5>3. errors[a] => Level(a) >= 1
          BY <3>1 DEF Doubtful
        <5>4. CASE ledger[k].kind = "sum_errors"
          BY <5>2, <5>4
        <5>5. CASE ledger[k].kind # "sum_errors"
          BY <1>3, <5>1, <5>3, <5>5
        <5> QED BY <5>4, <5>5
      <4> QED BY <1>2, <2>3, <4>2, <4>3
    <3>3. CASE CheckBuffer(a)
      <4>1. Now(a).op = "check"
        BY <2>3, <3>3, Calling
      <4> QED BY <2>3, <4>1 DEF Verdict
    <3>4. CASE Clear(a)
      BY <1>1, <1>3, <3>4 DEF Clear, DataTyped
    <3>5. CASE ~LeaveCollective(a) /\ ~CheckBuffer(a) /\ ~Clear(a)
      <4>1. errors' = errors
        BY <1>1, <3>5, ErrorsStay
      <4>2. Level(a) >= 1
        BY <1>3, <3>1, <4>1 DEF Doubtful
      <4>3. Now(a).op # "break"
        <5> SUFFICES ASSUME Now(a).op = "break" PROVE FALSE
          OBVIOUS
        <5>1. Break(a)
          BY <2>3, Calling
        <5>2. pc' = [pc EXCEPT ![a] = Len(Script(a))]
          BY <1>3, <4>1, <5>1 DEF Break, Goto
        <5>3. pc'[a] = Len(Script(a))
          BY <1>1, <5>2 DEF PlaceTyped
        <5> QED BY <1>2, <1>3, <5>3
      <4> QED BY <1>2, <2>3, <4>2, <4>3 DEF Verdict
    <3> QED BY <3>2, <3>3, <3>4, <3>5
  <2> QED BY <1>1, <2>1, <2>2, <2>3
<1>4. ASSUME NEW b \in Actors[bench], errors'[b], pc'[b] < Len(Script(b)) PROVE Level(b)' >= 1
  <2>1. CASE b = a
    BY <1>3, <1>4, <2>1
  <2>2. CASE b # a
    BY <1>1, <1>4, <2>2 DEF Doubtful
  <2> QED BY <2>1, <2>2
<1> QED BY <1>1, <1>4 DEF Doubtful

\* In an operation an actor calls nothing but its second part.
LEMMA RecalledStep ==
    ASSUME IInv, Trial, Gathered(ledger), Recalled, "collective" \notin wrong',
           NEW a \in Actors[bench], Acts(a)
    PROVE  Recalled'
<1>1. /\ RunTyped /\ PlaceTyped /\ DataTyped /\ RemoteTyped /\ OnCourse /\ LedgerTyped /\ Inside
      /\ bench' = bench /\ bench # "osu_latency_mt"
      /\ \A b \in Actors[bench] : b # a => errors'[b] = errors[b] /\ Level(b)' = Level(b) /\ b[1] # a[1]
      /\ \/ pc'[a] = pc[a] /\ (Land(a) \/ Meet(a)) /\ Level(a)' = Level(a)
         \/ /\ pc'[a] = pc[a] + 1 /\ At(a, {Now(a).op}) /\ ~Land(a)
            /\ Verdict(Now(a), Level(a), Level(a)') /\ Level(a)' \in 0 .. 2
         \/ Break(a) /\ pc'[a] = Len(Script(a)) /\ Level(a) <= 1
  BY TrialCalls
<1> DEFINE Remembers(b, k) ==
              b[1] \in DOMAIN ledger'[k].in \ ledger'[k].out =>
                  /\ ledger'[k].in[b[1]].errors = errors'[b]
                  /\ ledger'[k].kind = "sum_errors" => Level(b)' = 1
<1>2. (\A b \in Actors[bench] : \A k \in DOMAIN ledger' : Remembers(b, k)) => Recalled'
  BY <1>1 DEF Recalled
<1>3. CASE EnterCollective(a)
  <2>1. PICK i, p : Grown(ledger, ledger', i, a[1], Now(a).kind, p) /\ p.errors = errors[a]
    BY <1>1, <1>3, EnteringGrows
  <2>2. errors' = errors /\ Now(a).op = "enter" /\ At(a, {"enter"})
    BY <1>3 DEF EnterCollective, counts, At, Now
  <2>3. Phase(a) = "out"
    BY <1>1, <2>2, PhaseAt
  <2>4. \A k \in DOMAIN ledger : a[1] \notin DOMAIN ledger[k].in \ ledger[k].out
    BY <1>1, <2>3, NotInside
  <2>5. Now(a).kind = "sum_errors" => Level(a)' = 1
    <3>1. pc'[a] = pc[a] + 1 => Verdict(Now(a), Level(a), Level(a)')
      <4>1. pc[a] \in Nat
        BY <1>1 DEF PlaceTyped
      <4> QED BY <1>1, <2>2, <4>1 DEF Break, At, Now
    <3>2. pc'[a] = pc[a] + 1
      BY <1>1, <1>3, Advances DEF EnterCollective
    <3> QED BY <2>2, <3>1, <3>2 DEF Verdict, Sums
  <2>6. ASSUME NEW b \in Actors[bench], NEW k \in DOMAIN ledger' PROVE Remembers(b, k)
    <3>1. CASE b = a
      <4> SUFFICES ASSUME a[1] \in DOMAIN ledger'[k].in \ ledger'[k].out
                   PROVE  ledger'[k].in[a[1]].errors = errors[a] /\ (ledger'[k].kind = "sum_errors" => Level(a)' = 1)
        BY <2>2, <3>1
      <4>1. k = i
        BY <2>1, <2>4 DEF Grown
      <4> QED BY <2>1, <2>5, <4>1 DEF Grown
    <3>2. CASE b # a
      <4> SUFFICES ASSUME b[1] \in DOMAIN ledger'[k].in \ ledger'[k].out
                   PROVE  ledger'[k].in[b[1]].errors = errors[b] /\ (ledger'[k].kind = "sum_errors" => Level(b)' = 1)
        BY <2>2, <3>2
      <4>1. k \in DOMAIN ledger /\ b[1] \in DOMAIN ledger[k].in
        BY <1>1, <2>1, <3>2 DEF Grown
      <4>2. /\ ledger'[k].kind = ledger[k].kind /\ ledger'[k].out = ledger[k].out
            /\ ledger'[k].in[b[1]] = ledger[k].in[b[1]]
        BY <2>1, <4>1 DEF Grown
      <4> QED BY <1>1, <3>2, <4>1, <4>2 DEF Recalled
    <3> QED BY <3>1, <3>2
  <2> QED BY <1>2, <2>6
<1>4. CASE LeaveCollective(a)
  <2>1. PICK d \in {0, 1}, i \in DOMAIN ledger :
           Left(ledger, ledger', d, i, a[1]) /\ a[1] \in DOMAIN ledger[i].in \ ledger[i].out
    BY <1>1, <1>4, LeavingShrinks
  <2>2. IsIn(ledger, a[1])
    BY <2>1 DEF IsIn
  <2>3. \A k \in DOMAIN ledger : a[1] \in DOMAIN ledger[k].in \ ledger[k].out => k = i
    BY <1>1, <2>1, <2>2, EntryUnderWay DEF LedgerTyped
  <2>4. ASSUME NEW b \in Actors[bench], NEW k \in DOMAIN ledger' PROVE Remembers(b, k)
    <3>1. /\ k + d \in DOMAIN ledger /\ ledger'[k].kind = ledger[k + d].kind /\ ledger'[k].in = ledger[k + d].in
          /\ ledger'[k].out = ledger[k + d].out \cup (IF k + d = i THEN {a[1]} ELSE {})
      BY <2>1 DEF Left
    <3> SUFFICES ASSUME b[1] \in DOMAIN ledger'[k].in \ ledger'[k].out
                 PROVE  ledger'[k].in[b[1]].errors = errors'[b] /\ (ledger'[k].kind = "sum_errors" => Level(b)' = 1)
      OBVIOUS
    <3> DEFINE j == k + d
    <3>2. b[1] \in DOMAIN ledger[j].in \ ledger[j].out /\ j \in DOMAIN ledger
      BY <3>1
    <3> HIDE DEF j
    <3>3. b # a
      <4> SUFFICES ASSUME b = a PROVE FALSE
        OBVIOUS
      <4>1. j = i
        BY <2>3, <3>2
      <4> QED BY <3>1, <4>1 DEF j
    <3>4. ledger[j].in[b[1]].errors = errors[b] /\ (ledger[j].kind = "sum_errors" => Level(b) = 1)
      BY <3>2 DEF Recalled
    <3> QED BY <1>1, <3>1, <3>3, <3>4 DEF j
  <2> QED BY <1>2, <2>4
<1>5. CASE ~EnterCollective(a) /\ ~LeaveCollective(a)
  <2>1. ledger' = ledger
    BY <1>5, Frames
  <2>2. CASE pc'[a] = pc[a] /\ (Land(a) \/ Meet(a)) /\ Level(a)' = Level(a)
    <3>1. errors' = errors
      BY <2>2 DEF Land, Meet, counts
    <3>2. \A b \in Actors[bench] : errors'[b] = errors[b] /\ Level(b)' = Level(b)
      BY <1>1, <2>2, <3>1
    <3> QED BY <1>2, <2>1, <3>2 DEF Recalled
  <2>3. CASE \/ pc'[a] = pc[a] + 1 /\ At(a, {Now(a).op}) /\ ~Land(a)
             \/ Break(a)
    <3>1. At(a, {Now(a).op}) /\ Now(a).op \notin {"enter", "leave"}
      <4>1. CASE Break(a)
        BY <4>1 DEF Break, At, Now
      <4>2. CASE ~Break(a)
        BY <1>5, <2>3, <4>2, Calling
      <4> QED BY <4>1, <4>2
    <3>2. Phase(a) = "out"
      BY <1>1, <3>1, PhaseAt
    <3>3. \A k \in DOMAIN ledger : a[1] \notin DOMAIN ledger[k].in \ ledger[k].out
      BY <1>1, <3>2, NotInside
    <3>4. ASSUME NEW b \in Actors[bench], NEW k \in DOMAIN ledger' PROVE Remembers(b, k)
      <4>1. CASE b = a
        BY <2>1, <3>3, <4>1
      <4>2. CASE b # a
        BY <1>1, <2>1, <4>2 DEF Recalled
      <4> QED BY <4>1, <4>2
    <3> QED BY <1>2, <3>4
  <2> QED BY <1>1, <2>2, <2>3
<1> QED BY <1>3, <1>4, <1>5

\* The last call of a program is the report.
LEMMA ExitsStep ==
    ASSUME IInv, Trial, Exits, NEW a \in Actors[bench], Acts(a)
    PROVE  Exits'
<1>1. /\ RunTyped /\ PlaceTyped /\ DataTyped /\ bench' = bench
      /\ \A b \in Actors[bench] : Script(b)' = Script(b)
      /\ \A b \in Actors[bench] : b # a => pc'[b] = pc[b] /\ errors'[b] = errors[b]
      /\ \/ pc'[a] = pc[a] /\ (Land(a) \/ Meet(a)) /\ Level(a)' = Level(a)
         \/ /\ pc'[a] = pc[a] + 1 /\ At(a, {Now(a).op}) /\ ~Land(a)
            /\ Verdict(Now(a), Level(a), Level(a)') /\ Level(a)' \in 0 .. 2
         \/ Break(a) /\ pc'[a] = Len(Script(a)) /\ Level(a) <= 1
  BY TrialCalls
<1>2. /\ \A b \in Actors[bench] : b # a => failed'[b] = failed[b]
      /\ ReportErrors(a) => failed'[a] = errors'[a]
      /\ ~ReportErrors(a) => failed' = failed
  <2>1. CASE ReportErrors(a)
    BY <1>1, <2>1 DEF ReportErrors, DataTyped
  <2>2. CASE ~ReportErrors(a)
    BY <2>2, Frames DEF LeaveCollective, CheckBuffer, Clear, counts
  <2> QED BY <2>1, <2>2
<1>3. ASSUME NEW b \in Actors[bench], b # a, pc'[b] > Len(Script(b)) PROVE failed'[b] = errors'[b]
  BY <1>1, <1>2, <1>3 DEF Exits, Finished
<1>4. ASSUME pc'[a] > Len(Script(a)) PROVE failed'[a] = errors'[a]
  <2>0. Len(Script(a)) \in Nat \ {0} /\ pc[a] \in Nat /\ Script(a)[Len(Script(a))].op = "report"
    BY <1>1, LevelType DEF PlaceTyped
  <2>1. CASE pc'[a] = pc[a] /\ (Land(a) \/ Meet(a)) /\ Level(a)' = Level(a)
    <3>1. errors' = errors /\ failed' = failed
      BY <2>1 DEF Land, Meet, counts
    <3> QED BY <1>4, <2>1, <3>1 DEF Exits, Finished
  <2>2. CASE Break(a) /\ pc'[a] = Len(Script(a)) /\ Level(a) <= 1
    BY <1>4, <2>0, <2>2
  <2>3. CASE pc'[a] = pc[a] + 1 /\ At(a, {Now(a).op}) /\ ~Land(a)
    <3>1. pc[a] = Len(Script(a))
      <4>1. pc[a] \in 1 .. Len(Script(a))
        BY <1>1, <2>3, Doing
      <4> QED BY <1>4, <2>0, <2>3, <4>1
    <3>2. Now(a).op = "report"
      BY <2>0, <3>1 DEF Now
    <3>3. ReportErrors(a)
      BY <2>3, <3>2, Calling
    <3> QED BY <1>2, <3>3
  <2> QED BY <1>1, <2>1, <2>2, <2>3
<1>5. \A b \in Actors[bench] : pc'[b] > Len(Script(b)) => failed'[b] = errors'[b]
  BY <1>3, <1>4
<1> QED BY <1>1, <1>5 DEF Exits, Finished

-----------------------------------------------------------------------------
\* No errors are added up here.
Clean(e) == e.kind = "sum_errors" => \A q \in DOMAIN e.in : ~e.in[q].errors

\* One actor knows of an error and has yet to tell the others.
Carried(L, e) ==
    \E a \in Actors[bench] :
        /\ e[a] /\ Level(a) = 2
        /\ \A b \in Actors[bench] : b # a => ~e[b]
        /\ \A k \in DOMAIN L : Clean(L[k])

\* The errors are being added up in operation k: who has left it knows of them, and
\* nobody knows who has not entered it.
Summed(L, e, k) ==
    /\ k \in DOMAIN L /\ ~Clean(L[k]) /\ \A j \in 1 .. k - 1 : Clean(L[j])
    /\ \A b \in Actors[bench] : (b[1] \in L[k].out => e[b]) /\ (e[b] => b[1] \in DOMAIN L[k].in)

Public(e) == \A a \in Actors[bench] : e[a]

Noted(L, e) == Carried(L, e) \/ (\E k : Summed(L, e, k)) \/ Public(e)
Rumour == spoiled => Noted(ledger, errors)

\* An actor compares, and finds an error where there has been none.
LEMMA Suspects ==
    ASSUME IInv, Trial, NEW a \in Actors[bench], CheckBuffer(a), ~spoiled, spoiled'
    PROVE  Carried(ledger, errors)'
<1>1. /\ RunTyped /\ PlaceTyped /\ DataTyped /\ LedgerTyped /\ bench' = bench
      /\ \A b \in Actors[bench] : b # a => pc'[b] = pc[b] /\ errors'[b] = errors[b] /\ Level(b)' = Level(b)
      /\ \/ pc'[a] = pc[a] /\ (Land(a) \/ Meet(a)) /\ Level(a)' = Level(a)
         \/ /\ pc'[a] = pc[a] + 1 /\ At(a, {Now(a).op}) /\ ~Land(a)
            /\ Verdict(Now(a), Level(a), Level(a)') /\ Level(a)' \in 0 .. 2
         \/ Break(a) /\ pc'[a] = Len(Script(a)) /\ Level(a) <= 1
      /\ UNCHANGED run
  BY TrialCalls DEF Acts
<1>2. At(a, {"check"}) /\ Now(a).op = "check" /\ Advance(a) /\ ledger' = ledger
  BY DEF CheckBuffer, At, Now
<1>3. pc'[a] = pc[a] + 1
  BY <1>1, <1>2, Advances
<1>4. Level(a)' = 2
  <2>1. Verdict(Now(a), Level(a), Level(a)')
    BY <1>1, <1>2, <1>3, LevelMoves
  <2> QED BY <1>2, <2>1 DEF Verdict
<1>5. errors'[a]
  <2>1. PICK bad \in BOOLEAN : errors' = [errors EXCEPT ![a] = @ \/ bad] /\ spoiled' = (spoiled \/ bad)
    BY DEF CheckBuffer
  <2> QED BY <1>1, <2>1 DEF DataTyped
<1>6. /\ \A b \in Actors[bench] : ~errors[b]
      /\ \A k \in DOMAIN ledger : \A q \in DOMAIN ledger[k].in : ~ledger[k].in[q].errors
  BY DEF IInv, Blame, Brought, Innocent
<1>7. \A k \in DOMAIN ledger' : Clean(ledger'[k])
  BY <1>2, <1>6 DEF Clean
<1>8. \A b \in Actors[bench] : b # a => ~errors'[b]
  BY <1>1, <1>6
<1> QED BY <1>1, <1>4, <1>5, <1>7, <1>8 DEF Carried, Clean

\* Entering an operation carries the errors into it, or leaves all as it was.
LEMMA RumourEnters ==
    ASSUME IInv, Trial, Gathered(ledger), Noted(ledger, errors), "collective" \notin wrong',
           NEW a \in Actors[bench], EnterCollective(a)
    PROVE  Noted(ledger, errors)'
<1>1. /\ RunTyped /\ PlaceTyped /\ DataTyped /\ RemoteTyped /\ OnCourse /\ LedgerTyped /\ Inside
      /\ bench' = bench /\ bench # "osu_latency_mt"
      /\ \A b \in Actors[bench] : b # a => Level(b)' = Level(b) /\ b[1] # a[1]
      /\ UNCHANGED run
  BY TrialCalls DEF Acts
<1>2. PICK i, p : Grown(ledger, ledger', i, a[1], Now(a).kind, p) /\ p.errors = errors[a]
  BY <1>1, EnteringGrows
<1>3. errors' = errors /\ Now(a).op = "enter" /\ At(a, {"enter"})
  BY DEF EnterCollective, counts, At, Now
<1>4. Verdict(Now(a), Level(a), Level(a)') /\ Level(a)' \in 0 .. 2 /\ Level(a) \in 0 .. 2
  <2>1. pc'[a] = pc[a] + 1
    BY <1>1, Advances DEF EnterCollective
  <2> QED BY <1>1, <1>3, <2>1, LevelMoves, LevelType
<1>5. a[1] \in Ranks[bench] /\ ledger \in Seq(Entries) /\ Entered(ledger) /\ Ordered(ledger)
      /\ DOMAIN ledger = 1 .. Len(ledger) /\ Len(ledger) \in Nat
  BY <1>1, ActorType DEF RunTyped, LedgerTyped, Ledgers
<1>6. ASSUME NEW k \in DOMAIN ledger, Clean(ledger[k]), k # i \/ ~errors[a]
      PROVE  Clean(ledger'[k])
  <2> SUFFICES ASSUME ledger'[k].kind = "sum_errors", NEW q \in DOMAIN ledger'[k].in
               PROVE  ~ledger'[k].in[q].errors
    BY DEF Clean
  <2>1. ledger[k].kind = "sum_errors" /\ k \in DOMAIN ledger'
    BY <1>2 DEF Grown
  <2>2. CASE k = i /\ q = a[1]
    BY <1>2, <1>6, <2>2 DEF Grown
  <2>3. CASE q \in DOMAIN ledger[k].in
    BY <1>2, <1>6, <2>1, <2>3 DEF Grown, Clean
  <2> QED BY <1>2, <2>1, <2>2, <2>3 DEF Grown
<1>7. ASSUME NEW c \in Actors[bench], errors[c], Level(c) = 2,
             \A b \in Actors[bench] : b # c => ~errors[b],
             \A k \in DOMAIN ledger : Clean(ledger[k])
      PROVE  Noted(ledger, errors)'
  <2>1. CASE c = a /\ Now(a).kind = "sum_errors"
    <3>1. \A j \in 1 .. i - 1 : Clean(ledger'[j])
      <4>1. \A j \in 1 .. i - 1 : j \in DOMAIN ledger /\ j # i
        BY <1>2 DEF Grown
      <4> QED BY <1>6, <1>7, <4>1
    <3>2. i \in DOMAIN ledger' /\ ~Clean(ledger'[i])
      BY <1>2, <1>7, <2>1 DEF Grown, Clean
    <3>3. ledger'[i].out = {}
      <4>1. CASE i \notin DOMAIN ledger
        BY <1>2, <4>1 DEF Grown
      <4>2. CASE i \in DOMAIN ledger
        <5>1. ledger[i].kind = "sum_errors" /\ ledger'[i].out = ledger[i].out /\ a[1] \notin DOMAIN ledger[i].in
          BY <1>2, <2>1, <4>2 DEF Grown
        <5>2. ledger[i].out = {}
          BY <1>5, <4>2, <5>1 DEF Gathered, Meetings
        <5> QED BY <5>1, <5>2
      <4> QED BY <4>1, <4>2
    <3>4. \A b \in Actors[bench] : (b[1] \in ledger'[i].out => errors'[b]) /\ (errors'[b] => b[1] \in DOMAIN ledger'[i].in)
      <4>1. a[1] \in DOMAIN ledger'[i].in
        BY <1>2 DEF Grown
      <4> QED BY <1>3, <1>7, <2>1, <3>3, <4>1
    <3>5. Summed(ledger', errors', i)
      BY <3>1, <3>2, <3>4 DEF Summed
    <3>6. Summed(ledger, errors, i)'
      BY <1>1, <3>5 DEF Summed, Clean
    <3> QED BY <3>6 DEF Noted
  <2>2. CASE ~(c = a /\ Now(a).kind = "sum_errors")
    <3>1. Level(c)' = 2
      <4>1. CASE c = a
        <5>1. ~Sums(Now(a)) /\ Now(a).op # "break"
          BY <1>3, <2>2, <4>1 DEF Sums
        <5>2. Level(a)' >= Level(a)
          BY <1>4, <5>1 DEF Verdict
        <5> QED BY <1>4, <1>7, <4>1, <5>2
      <4>2. CASE c # a
        BY <1>1, <1>7, <4>2
      <4> QED BY <4>1, <4>2
    <3>2. ASSUME NEW k \in DOMAIN ledger' PROVE Clean(ledger'[k])
      <4>1. CASE k # i
        <5>1. k \in DOMAIN ledger
          BY <1>2, <4>1 DEF Grown
        <5> QED BY <1>6, <1>7, <4>1, <5>1
      <4>2. CASE k = i /\ c = a
        BY <1>2, <2>2, <4>2 DEF Grown, Clean
      <4>3. CASE k = i /\ c # a
        <5>1. ~errors[a]
          BY <1>7, <4>3
        <5>2. CASE k \in DOMAIN ledger
          BY <1>6, <1>7, <5>1, <5>2
        <5>3. CASE k \notin DOMAIN ledger
          BY <1>2, <4>3, <5>1, <5>3 DEF Grown, Clean
        <5> QED BY <5>2, <5>3
      <4> QED BY <4>1, <4>2, <4>3
    <3>3. Carried(ledger, errors)'
      BY <1>1, <1>3, <1>7, <3>1, <3>2 DEF Carried, Clean
    <3> QED BY <3>3 DEF Noted
  <2> QED BY <2>1, <2>2
<1>8. ASSUME NEW k, Summed(ledger, errors, k) PROVE Noted(ledger, errors)'
  <2>1. k \in DOMAIN ledger /\ ~Clean(ledger[k]) /\ \A j \in 1 .. k - 1 : Clean(ledger[j])
    BY <1>8 DEF Summed
  <2>2. k \in DOMAIN ledger' /\ ~Clean(ledger'[k])
    BY <1>2, <2>1 DEF Grown, Clean
  <2>3. ASSUME NEW j \in 1 .. k - 1 PROVE Clean(ledger'[j])
    <3>1. j \in DOMAIN ledger /\ Clean(ledger[j])
      BY <1>5, <2>1
    <3>2. j = i => ~errors[a]
      <4> SUFFICES ASSUME j = i, errors[a] PROVE FALSE
        OBVIOUS
      <4>1. a[1] \in DOMAIN ledger[k].in
        BY <1>8 DEF Summed
      <4>2. a[1] \in ledger[j].out
        BY <1>5, <2>1, <4>1 DEF Ordered
      <4>3. a[1] \in DOMAIN ledger[j].in
        BY <1>5, <3>1, <4>2 DEF Entered
      <4> QED BY <1>2, <3>1, <4>3 DEF Grown
    <3> QED BY <1>6, <3>1, <3>2
  <2>4. ASSUME NEW b \in Actors[bench]
        PROVE  (b[1] \in ledger'[k].out => errors'[b]) /\ (errors'[b] => b[1] \in DOMAIN ledger'[k].in)
    BY <1>2, <1>3, <1>8, <2>1 DEF Grown, Summed
  <2>5. Summed(ledger, errors, k)'
    BY <1>1, <2>2, <2>3, <2>4 DEF Summed, Clean
  <2> QED BY <2>5 DEF Noted
<1>9. Public(errors) => Noted(ledger, errors)'
  BY <1>1, <1>3 DEF Public, Noted
<1> QED BY <1>7, <1>8, <1>9 DEF Noted, Carried

-----------------------------------------------------------------------------
\* Leaving an operation tells of the errors added up in it, and of no others.
LEMMA RumourLeaves ==
    ASSUME IInv, Trial, Gathered(ledger), Recalled, Noted(ledger, errors),
           NEW a \in Actors[bench], LeaveCollective(a)
    PROVE  Noted(ledger, errors)'
<1>1. /\ RunTyped /\ PlaceTyped /\ DataTyped /\ LedgerTyped /\ Inside
      /\ bench' = bench /\ bench # "osu_latency_mt" /\ UNCHANGED run
      /\ \A b \in Actors[bench] : b # a => errors'[b] = errors[b] /\ Level(b)' = Level(b) /\ b[1] # a[1]
  BY TrialCalls DEF Acts
<1>2. Now(a).op = "leave" /\ At(a, {"leave"})
  BY DEF LeaveCollective, At, Now
<1>3. Level(a)' >= Level(a) /\ Level(a)' \in 0 .. 2 /\ Level(a) \in 0 .. 2
  <2>1. pc'[a] = pc[a] + 1
    BY <1>1, <1>2, Advances DEF LeaveCollective
  <2> QED BY <1>1, <1>2, <2>1, LevelMoves, LevelType DEF Verdict, Sums
<1>4. PICK d \in {0, 1}, k \in DOMAIN ledger :
           /\ Left(ledger, ledger', d, k, a[1])
           /\ a[1] \in DOMAIN ledger[k].in \ ledger[k].out
           /\ ledger[k].kind = "sum_errors" => /\ Ranks[bench] \subseteq DOMAIN ledger[k].in
                                               /\ errors'[a] = \E q \in Ranks[bench] : ledger[k].in[q].errors
           /\ ledger[k].kind # "sum_errors" => errors'[a] = errors[a]
  BY <1>1, LeavingShrinks
<1>5. /\ a[1] \in Ranks[bench] /\ ledger \in Seq(Entries) /\ Ordered(ledger)
      /\ DOMAIN ledger = 1 .. Len(ledger) /\ Len(ledger) \in Nat
      /\ \A b \in Actors[bench] : b[1] \in Ranks[bench] /\ errors[b] \in BOOLEAN
  BY <1>1, ActorType DEF RunTyped, LedgerTyped, Ledgers, DataTyped
<1>6. \A j \in DOMAIN ledger' : j + d \in DOMAIN ledger /\ (Clean(ledger'[j]) <=> Clean(ledger[j + d]))
  BY <1>4 DEF Left, Clean
<1>7. Clean(ledger[k]) /\ ledger[k].kind = "sum_errors" => ~errors'[a]
  BY <1>4 DEF Clean
<1>8. ledger[k].kind = "sum_errors" => /\ ledger[k].in[a[1]].errors = errors[a] /\ Level(a) = 1
  BY <1>4 DEF Recalled
<1>9. errors[a] => errors'[a] \/ (Clean(ledger[k]) /\ ledger[k].kind = "sum_errors")
  BY <1>4, <1>5, <1>8
<1>10. ASSUME NEW c \in Actors[bench], errors[c], Level(c) = 2,
              \A b \in Actors[bench] : b # c => ~errors[b],
              \A j \in DOMAIN ledger : Clean(ledger[j])
       PROVE  Noted(ledger, errors)'
  <2>1. \A j \in DOMAIN ledger' : Clean(ledger'[j])
    BY <1>6, <1>10
  <2>2. ledger[k].kind = "sum_errors" => c # a /\ ~errors'[a]
    BY <1>4, <1>7, <1>8, <1>10
  <2>3. \A b \in Actors[bench] : b # c => ~errors'[b]
    BY <1>1, <1>4, <1>10, <2>2
  <2>4. errors'[c]
    BY <1>1, <1>4, <1>10, <2>2
  <2>5. Level(c)' = 2
    BY <1>1, <1>3, <1>10
  <2>6. Carried(ledger, errors)'
    BY <1>1, <2>1, <2>3, <2>4, <2>5 DEF Carried, Clean
  <2> QED BY <2>6 DEF Noted
<1>11. ASSUME NEW l, Summed(ledger, errors, l) PROVE Noted(ledger, errors)'
  <2>1. /\ l \in DOMAIN ledger /\ ~Clean(ledger[l]) /\ \A j \in 1 .. l - 1 : Clean(ledger[j])
        /\ \A b \in Actors[bench] : (b[1] \in ledger[l].out => errors[b]) /\ (errors[b] => b[1] \in DOMAIN ledger[l].in)
    BY <1>11 DEF Summed
  <2>2. CASE k = l
    <3>1. errors'[a]
      <4>1. ledger[l].kind = "sum_errors" /\ \E q \in DOMAIN ledger[l].in : ledger[l].in[q].errors
        BY <2>1 DEF Clean
      <4>2. DOMAIN ledger[l].in \subseteq Ranks[bench]
        <5>1. ledger[l] \in Entries
          BY <1>5, <2>1
        <5> QED BY <5>1, EntryFields
      <4> QED BY <1>4, <2>2, <4>1, <4>2
    <3>2. CASE d = 1
      <4>1. Ranks[bench] \subseteq ledger[l].out \cup {a[1]}
        BY <1>4, <2>2, <3>2 DEF Left
      <4>2. ASSUME NEW b \in Actors[bench] PROVE errors'[b]
        <5>1. CASE b = a
          BY <3>1, <5>1
        <5>2. CASE b # a
          BY <1>1, <1>5, <2>1, <4>1, <5>2
        <5> QED BY <5>1, <5>2
      <4>3. Public(errors)'
        BY <1>1, <4>2 DEF Public
      <4> QED BY <4>3 DEF Noted
    <3>3. CASE d = 0
      <4>1. \A j \in DOMAIN ledger : j - d = j /\ j + d = j /\ j > d
        BY <1>5, <3>3
      <4>2. l \in DOMAIN ledger' /\ ledger'[l].out = ledger[l].out \cup {a[1]} /\ ledger'[l].in = ledger[l].in
        BY <1>4, <2>1, <2>2, <4>1 DEF Left
      <4>3. ~Clean(ledger'[l]) /\ \A j \in 1 .. l - 1 : Clean(ledger'[j])
        <5>1. \A j \in 1 .. l - 1 : j \in DOMAIN ledger /\ j \in DOMAIN ledger'
          <6>1. \A j \in 1 .. l - 1 : j \in DOMAIN ledger
            BY <1>5, <2>1
          <6> QED BY <1>4, <4>1, <6>1 DEF Left
        <5> QED BY <1>6, <2>1, <4>1, <4>2, <5>1
      <4>4. \A b \in Actors[bench] : (b[1] \in ledger'[l].out => errors'[b]) /\ (errors'[b] => b[1] \in DOMAIN ledger'[l].in)
        BY <1>1, <1>4, <2>1, <2>2, <3>1, <4>2
      <4>5. Summed(ledger, errors, l)'
        BY <1>1, <4>2, <4>3, <4>4 DEF Summed, Clean
      <4> QED BY <4>5 DEF Noted
    <3> QED BY <3>2, <3>3
  <2>3. CASE k < l
    <3>1. k \in 1 .. l - 1 /\ l > d /\ l # k
      BY <1>5, <2>1, <2>3
    <3>2. ~errors[a]
      <4>1. a[1] \in DOMAIN ledger[l].in => a[1] \in ledger[k].out
        BY <1>5, <2>1, <3>1 DEF Ordered
      <4> QED BY <1>4, <2>1, <4>1
    <3>3. \A b \in Actors[bench] : errors'[b] <=> errors[b]
      <4>1. ~errors'[a]
        BY <1>4, <1>7, <2>1, <3>1, <3>2
      <4> QED BY <1>1, <3>2, <4>1
    <3> DEFINE m == l - d
    <3>4. m \in DOMAIN ledger' /\ m + d = l
      BY <1>4, <1>5, <2>1, <3>1 DEF Left
    <3>5. \A j \in 1 .. m - 1 : j \in DOMAIN ledger' /\ j + d \in 1 .. l - 1
      <4>1. ASSUME NEW j \in 1 .. m - 1 PROVE j + d \in DOMAIN ledger /\ j + d > d /\ (j + d) - d = j /\ j + d \in 1 .. l - 1
        BY <1>5, <2>1
      <4>2. \A i \in DOMAIN ledger : i > d => i - d \in DOMAIN ledger'
        BY <1>4 DEF Left
      <4> HIDE DEF m
      <4> QED BY <4>1, <4>2
    <3> HIDE DEF m
    <3>6. ledger'[m].out = ledger[l].out /\ ledger'[m].in = ledger[l].in
      BY <1>4, <3>1, <3>4 DEF Left
    <3>7. ~Clean(ledger'[m]) /\ \A j \in 1 .. m - 1 : Clean(ledger'[j])
      BY <1>6, <2>1, <3>4, <3>5
    <3>8. Summed(ledger, errors, m)'
      BY <1>1, <2>1, <3>3, <3>4, <3>6, <3>7 DEF Summed, Clean
    <3> QED BY <3>8 DEF Noted
  <2>4. CASE k > l
    <3>1. l \in 1 .. k - 1 /\ k # 1 /\ l # k
      BY <1>5, <2>1, <2>4
    <3>2. d = 0
      BY <1>4, <3>1 DEF Left
    <3>3. a[1] \in ledger[l].out /\ errors[a]
      <4>1. a[1] \in ledger[l].out
        BY <1>4, <1>5, <3>1 DEF Ordered
      <4> QED BY <2>1, <4>1
    <3>4. errors'[a]
      BY <1>4, <1>5, <1>8, <3>3
    <3>5. \A j \in DOMAIN ledger : j - d = j /\ j + d = j /\ j > d
      BY <1>5, <3>2
    <3>6. l \in DOMAIN ledger' /\ ledger'[l].out = ledger[l].out /\ ledger'[l].in = ledger[l].in
      <4>1. l - d \in DOMAIN ledger'
        BY <1>4, <2>1, <3>5 DEF Left
      <4>2. l \in DOMAIN ledger' /\ l + d = l
        BY <2>1, <3>5, <4>1
      <4>3. ledger'[l].in = ledger[l].in /\ ledger'[l].out = ledger[l].out \cup (IF l = k THEN {a[1]} ELSE {})
        BY <1>4, <4>2 DEF Left
      <4> QED BY <3>1, <4>2, <4>3
    <3>7. ~Clean(ledger'[l]) /\ \A j \in 1 .. l - 1 : Clean(ledger'[j])
      <4>1. \A j \in 1 .. l - 1 : j \in DOMAIN ledger /\ j \in DOMAIN ledger'
        <5>1. \A j \in 1 .. l - 1 : j \in DOMAIN ledger
          BY <1>5, <2>1
        <5> QED BY <1>4, <3>5, <5>1 DEF Left
      <4> QED BY <1>6, <2>1, <3>5, <3>6, <4>1
    <3>8. Summed(ledger, errors, l)'
      BY <1>1, <2>1, <3>3, <3>4, <3>6, <3>7 DEF Summed, Clean
    <3> QED BY <3>8 DEF Noted
  <2>5. k < l \/ k = l \/ k > l
    BY <1>5, <2>1
  <2> QED BY <2>2, <2>3, <2>4, <2>5
<1>12. ASSUME Public(errors) PROVE Noted(ledger, errors)'
  <2>1. errors[a]
    BY <1>12 DEF Public
  <2>2. errors'[a]
    BY <1>4, <1>5, <1>8, <2>1
  <2>3. Public(errors)'
    BY <1>1, <1>12, <2>2 DEF Public
  <2> QED BY <2>3 DEF Noted
<1> QED BY <1>10, <1>11, <1>12 DEF Noted, Carried

\* What an actor does on its own spreads nothing and forgets nothing.
LEMMA RumourRests ==
    ASSUME IInv, Trial, Doubtful, spoiled, Noted(ledger, errors),
           NEW a \in Actors[bench], Acts(a), ~EnterCollective(a), ~LeaveCollective(a)
    PROVE  Noted(ledger, errors)'
<1>1. /\ RunTyped /\ PlaceTyped /\ DataTyped /\ bench' = bench
      /\ \A b \in Actors[bench] : b # a => errors'[b] = errors[b] /\ Level(b)' = Level(b)
      /\ \/ pc'[a] = pc[a] /\ (Land(a) \/ Meet(a)) /\ Level(a)' = Level(a)
         \/ /\ pc'[a] = pc[a] + 1 /\ At(a, {Now(a).op}) /\ ~Land(a)
            /\ Verdict(Now(a), Level(a), Level(a)') /\ Level(a)' \in 0 .. 2
         \/ Break(a) /\ pc'[a] = Len(Script(a)) /\ Level(a) <= 1
  BY TrialCalls
<1>2. ledger' = ledger
  BY Frames
<1>3. /\ Len(Script(a)) \in Nat \ {0} /\ pc[a] \in 1 .. Len(Script(a)) + 1
      /\ Script(a)[Len(Script(a))].op = "report" /\ Level(a) \in 0 .. 2
  BY <1>1, LevelType
<1>4. errors'[a] <=> errors[a]
  <2>1. CASE CheckBuffer(a)
    <3>1. errors' = [errors EXCEPT ![a] = @ \/ FALSE]
      BY <2>1 DEF CheckBuffer
    <3> QED BY <1>1, <3>1 DEF DataTyped
  <2>2. CASE Clear(a)
    <3>1. Now(a).op = "clear" /\ At(a, {"clear"}) /\ Advance(a) /\ UNCHANGED run
      BY <2>2 DEF Clear, At, Now
    <3>2. pc'[a] = pc[a] + 1
      BY <1>1, <3>1, Advances
    <3>3. Level(a) = 0
      <4>1. Verdict(Now(a), Level(a), Level(a)')
        BY <1>1, <3>1, <3>2, LevelMoves
      <4> QED BY <3>1, <4>1 DEF Verdict
    <3>4. pc[a] < Len(Script(a))
      <4>1. pc[a] \in 1 .. Len(Script(a))
        BY <1>1, <3>1, Doing
      <4>2. pc[a] # Len(Script(a))
        BY <1>3, <3>1 DEF Now
      <4> QED BY <1>3, <4>1, <4>2
    <3>5. ~errors[a]
      BY <3>3, <3>4 DEF Doubtful
    <3> QED BY <1>1, <2>2, <3>5 DEF Clear, DataTyped
  <2>3. CASE ~CheckBuffer(a) /\ ~Clear(a)
    BY <1>1, <2>3, ErrorsStay
  <2> QED BY <2>1, <2>2, <2>3
<1>5. \A b \in Actors[bench] : errors'[b] <=> errors[b]
  BY <1>1, <1>4
<1>6. Level(a) = 2 => Level(a)' = 2
  <2>1. CASE pc'[a] = pc[a] + 1 /\ ~Land(a) /\ Verdict(Now(a), Level(a), Level(a)') /\ Level(a)' \in 0 .. 2
    <3>1. Now(a).op # "enter"
      BY <2>1, Calling
    <3> QED BY <1>3, <2>1, <3>1 DEF Verdict, Sums
  <2> QED BY <1>1, <1>3, <2>1
<1>7. Carried(ledger, errors) => Carried(ledger, errors)'
  <2> SUFFICES ASSUME NEW c \in Actors[bench], errors[c], Level(c) = 2,
                      \A b \in Actors[bench] : b # c => ~errors[b],
                      \A j \in DOMAIN ledger : Clean(ledger[j])
               PROVE  Carried(ledger, errors)'
    BY DEF Carried
  <2>1. Level(c)' = 2
    BY <1>1, <1>6
  <2> QED BY <1>1, <1>2, <1>5, <2>1 DEF Carried, Clean
<1>8. \A k : Summed(ledger, errors, k) => Summed(ledger, errors, k)'
  BY <1>1, <1>2, <1>5 DEF Summed, Clean
<1>9. Public(errors) => Public(errors)'
  BY <1>1, <1>5 DEF Public
<1> QED BY <1>7, <1>8, <1>9 DEF Noted

\* Every call.
LEMMA RumourStep ==
    ASSUME IInv, Trial, Gathered(ledger), Doubtful, Recalled, Rumour, "collective" \notin wrong',
           NEW a \in Actors[bench], Acts(a)
    PROVE  Rumour'
<1>1. CASE spoiled
  <2>1. Noted(ledger, errors)
    BY <1>1 DEF Rumour
  <2>2. Noted(ledger, errors)'
    BY <1>1, <2>1, RumourEnters, RumourLeaves, RumourRests
  <2> QED BY <2>2 DEF Rumour
<1>2. CASE ~spoiled
  <2> SUFFICES ASSUME spoiled' PROVE Noted(ledger, errors)'
    BY DEF Rumour
  <2>1. CheckBuffer(a)
    BY <1>2, Frames DEF LeaveCollective, Clear, ReportErrors, counts
  <2> QED BY <1>2, <2>1, Suspects DEF Noted
<1> QED BY <1>1, <1>2

\* When all have finished the errors have been added up, and everyone has been told.
LEMMA AllAreTold ==
    ASSUME IInv, Agreement, Trial, Gathered(ledger), Rumour, Exits, Over
    PROVE  \A a \in Actors[bench] : failed[a] = spoiled
<1>1. /\ RunTyped /\ PlaceTyped /\ DataTyped /\ LedgerTyped /\ Inside /\ Blame /\ bench # "osu_latency_mt"
  BY DEF IInv, Typed, Trial, RunTyped, OptionsOf
<1>2. ASSUME NEW a \in Actors[bench]
      PROVE  /\ a[1] \in Ranks[bench] /\ pc[a] = Len(Script(a)) + 1 /\ Level(a) = 0 /\ Phase(a) = "out"
             /\ failed[a] = errors[a] /\ errors[a] \in BOOLEAN
             /\ Script(a) = Scripts[bench][opt][a[1]] /\ Script(a) \in Seq(Calls)
  <2>1. a[1] \in Ranks[bench] /\ Script(a) = Scripts[bench][opt][a[1]]
    BY <1>1, ActorType DEF RunTyped, Script
  <2>2. Script(a) \in Seq(Calls) /\ AtRest(Course(bench, opt, a[1])[Len(Script(a))].local)
    BY <1>1, <2>1, CourseRuns DEF RunTyped
  <2>3. pc[a] \in 1 .. Len(Script(a)) + 1 /\ pc[a] > Len(Script(a)) /\ Len(Script(a)) \in Nat
    BY <1>1, LevelType DEF Over, Finished
  <2>4. pc[a] = Len(Script(a)) + 1
    BY <2>3
  <2>5. Phase(a) = "out"
    <3>1. pc[a] - 1 = Len(Script(a))
      BY <2>3, <2>4
    <3> QED BY <2>2, <3>1 DEF Phase, Here, AtRest
  <2>6. Level(a) = 0
    BY <1>1, <2>3, LevelType
  <2> QED BY <1>1, <2>1, <2>2, <2>4, <2>5, <2>6 DEF Exits, Over, DataTyped
<1>3. spoiled \in BOOLEAN /\ \A a \in Actors[bench] : errors[a] => spoiled
  BY <1>1 DEF DataTyped, Blame
<1>4. CASE ~spoiled
  BY <1>2, <1>3, <1>4
<1>5. CASE spoiled
  <2>1. ~Carried(ledger, errors)
    BY <1>2 DEF Carried
  <2>2. ASSUME NEW k, Summed(ledger, errors, k), NEW b \in Actors[bench], ~errors[b] PROVE FALSE
    <3>1. PICK n : Agreeing(n, ledger, queue, posted)
      BY <1>1 DEF Agreement
    <3>2. Paced(n) /\ InStep(n, ledger)
      BY <3>1 DEF Agreeing
    <3>3. k \in DOMAIN ledger /\ b[1] \notin ledger[k].out /\ ~Clean(ledger[k])
      BY <2>2 DEF Summed
    <3>4. PICK q \in DOMAIN ledger[k].in : TRUE
      BY <3>3 DEF Clean
    <3>5. q \in Ranks[bench]
      <4>1. ledger[k] \in Entries
        BY <1>1, <3>3 DEF LedgerTyped, Ledgers
      <4> QED BY <3>4, <4>1, EntryFields
    <3> DEFINE r == b[1]
    <3>6. Told(n, Agreed, r) = Len(Word(Agreed, r))
      <4> DEFINE s == Scripts[bench][opt][r]
      <4>1. n[r] = pc[b] - 1
        BY <2>2, <3>2 DEF Paced
      <4>2. n[r] = Len(s) /\ s \in Seq(Calls) /\ r \in Ranks[bench]
        BY <1>2, <4>1, LenProperties
      <4> HIDE DEF s, r
      <4>3. SubSeq(s, 1, Len(s)) = s
        BY <4>2, SubSeqFull
      <4> QED BY <4>2, <4>3 DEF Told, Heard, Word, s
    <3>7. Told(n, Agreed, q) <= Len(Word(Agreed, q))
      <4> DEFINE s == Scripts[bench][opt][q]
      <4>1. s \in Seq(Calls) /\ n[q] \in 0 .. Len(s)
        BY <1>1, <3>2, <3>5, RankScript DEF Paced
      <4> HIDE DEF s
      <4>2. Heard(Agreed, s, n[q]) <= Len(Seen(Agreed, s))
        BY <4>1, HeardPart, AreViews
      <4> QED BY <3>5, <4>2 DEF Told, Word, s
    <3>8. Word(Agreed, r) = Word(Agreed, q) /\ r \in Ranks[bench]
      BY <1>1, <1>2, <3>5, SameWords
    <3>9. Told(n, Agreed, q) \in Nat /\ Told(n, Agreed, r) \in Nat
      BY <1>1, <3>2, ToldType, AreViews
    <3>10. PICK B \in Nat : \A x \in Ranks[bench] : x \in DOMAIN ledger[k].in <=> B + k <= Told(n, Agreed, x)
      BY <3>2, <3>3 DEF InStep
    <3>11. B + k \in Nat
      BY <1>1, <3>3 DEF LedgerTyped, Ledgers
    <3> HIDE DEF r
    <3>12. r \in DOMAIN ledger[k].in
      <4>1. B + k <= Told(n, Agreed, q)
        BY <3>4, <3>5, <3>10
      <4>2. Told(n, Agreed, q) <= Told(n, Agreed, r)
        BY <3>6, <3>7, <3>8
      <4>3. B + k <= Told(n, Agreed, r)
        BY <3>9, <3>11, <4>1, <4>2
      <4> QED BY <3>8, <3>10, <4>3
    <3>13. b[1] \notin DOMAIN ledger[k].in \ ledger[k].out
      <4>1. Phase(b) # "in"
        BY <1>2
      <4> QED BY <1>1, <3>3, <4>1, NotInside
    <3> QED BY <3>3, <3>12, <3>13 DEF r
  <2>3. \A b \in Actors[bench] : errors[b]
    BY <1>5, <2>1, <2>2 DEF Rumour, Noted, Public
  <2> QED BY <1>2, <1>3, <1>5, <2>3
<1> QED BY <1>3, <1>4, <1>5

-----------------------------------------------------------------------------
\* A benchmark that compares nothing finds no errors.
Unjudged == bench \in ReportsErrors /\ OneWindow(bench) /\ ~opt.validate => ~spoiled

\* Nobody reports errors that nobody has found.
Convicted == \A a \in Actors[bench] : failed[a] => spoiled

\* What is known of errors throughout a run.
Judgement == (Trial => Doubtful /\ Recalled /\ Exits /\ Rumour) /\ Unjudged /\ Convicted

\* At the beginning nobody knows of an error.
LEMMA JudgementBegins == ASSUME Init PROVE Judgement
<1>1. RunTyped /\ PlaceTyped
  BY Initiation DEF IInv, Typed
<1>2. /\ \A a \in Actors[bench] : pc[a] = 1 /\ ~errors[a] /\ ~failed[a]
      /\ ~spoiled /\ ledger = <<>>
  BY DEF Init
<1>3. Recalled
  <2>1. DOMAIN ledger = {}
    BY <1>2
  <2> QED BY <2>1 DEF Recalled
<1>4. Exits
  <2>1. errors = failed
    BY DEF Init
  <2> QED BY <2>1 DEF Exits
<1>5. Doubtful /\ Rumour /\ Unjudged /\ Convicted
  BY <1>2 DEF Doubtful, Rumour, Unjudged, Convicted
<1> QED BY <1>3, <1>4, <1>5 DEF Judgement

LEMMA JudgementStutters == ASSUME Judgement, UNCHANGED vars PROVE Judgement'
<1>1. UNCHANGED <<bench, opt, pc, ledger, errors, failed, spoiled>>
  BY DEF vars, run, counts
<1>2. \A a : Level(a)' = Level(a) /\ Script(a)' = Script(a) /\ Finished(a)' = Finished(a)
  BY <1>1 DEF Level, Script, Finished
<1>3. Trial' = Trial
  BY <1>1 DEF Trial
<1>4. Doubtful' = Doubtful
  BY <1>1, <1>2 DEF Doubtful
<1>5. Recalled' = Recalled
  BY <1>1, <1>2 DEF Recalled
<1>6. Exits' = Exits
  BY <1>1, <1>2 DEF Exits
<1>7. Rumour' = Rumour
  BY <1>1, <1>2 DEF Rumour, Noted, Carried, Summed, Public, Clean
<1>8. Unjudged' = Unjudged /\ Convicted' = Convicted
  BY <1>1 DEF Unjudged, Convicted
<1> QED BY <1>3, <1>4, <1>5, <1>6, <1>7, <1>8 DEF Judgement

\* Only a comparison finds errors.
LEMMA OnlyChecksSpoil ==
    ASSUME NEW a, Acts(a), ~spoiled, spoiled' PROVE CheckBuffer(a)
BY Frames DEF LeaveCollective, Clear, ReportErrors, counts

\* Without validation no program compares.
LEMMA UnjudgedStep ==
    ASSUME IInv, Unjudged, NEW a \in Actors[bench], Acts(a) PROVE Unjudged'
<1>1. RunTyped /\ PlaceTyped /\ UNCHANGED run
  BY Frames DEF IInv, Typed
<1>2. bench' = bench /\ opt' = opt
  BY <1>1 DEF run
<1> SUFFICES ASSUME bench \in ReportsErrors, OneWindow(bench), ~opt.validate, spoiled'
             PROVE  FALSE
  BY <1>2 DEF Unjudged
<1>3. ~spoiled
  BY DEF Unjudged
<1>4. CheckBuffer(a)
  BY <1>3, OnlyChecksSpoil
<1>5. At(a, {"check"}) /\ Now(a).op = "check"
  BY <1>4 DEF CheckBuffer, At, Now
<1>6. a[1] \in Ranks[bench] /\ pc[a] \in 1 .. Len(Script(a)) /\ Now(a) = Script(a)[pc[a]]
  BY <1>1, <1>5, Doing DEF Now
<1>7. Script(a) = Scripts[bench][opt][a[1]]
  BY DEF Script
<1>8. \A k \in 1 .. Len(Scripts[bench][opt][a[1]]) : Scripts[bench][opt][a[1]][k].op # "check"
  BY <1>1, <1>6, ScriptsJudge DEF RunTyped
<1> QED BY <1>5, <1>6, <1>7, <1>8

\* The exit code is what the actor knows, and it knows of no error that nobody found.
LEMMA ConvictedStep ==
    ASSUME IInv, Convicted, NEW a \in Actors[bench], Acts(a) PROVE Convicted'
<1>1. DataTyped /\ Blame /\ UNCHANGED run /\ (spoiled => spoiled')
  BY Frames, SpoiledStays DEF IInv, Typed
<1>2. bench' = bench
  BY <1>1 DEF run
<1>3. CASE ReportErrors(a)
  <2>1. \A b \in Actors[bench] : failed'[b] = IF b = a THEN errors[a] ELSE failed[b]
    BY <1>1, <1>3 DEF ReportErrors, DataTyped
  <2> QED BY <1>1, <1>2, <2>1 DEF Convicted, Blame
<1>4. CASE ~ReportErrors(a)
  <2>1. failed' = failed
    BY <1>4, Frames DEF LeaveCollective, CheckBuffer, Clear, counts
  <2> QED BY <1>1, <1>2, <2>1 DEF Convicted
<1> QED BY <1>3, <1>4

\* Every call keeps it so.
LEMMA JudgementStep ==
    ASSUME IInv, Agreement, Gathered(ledger), Judgement, NEW a \in Actors[bench], Acts(a)
    PROVE  Judgement'
<1>1. Unjudged' /\ Convicted'
  BY UnjudgedStep, ConvictedStep DEF Judgement
<1>2. ASSUME Trial' PROVE (Doubtful /\ Recalled /\ Exits /\ Rumour)'
  <2>1. RunTyped /\ UNCHANGED run
    BY Frames DEF IInv, Typed
  <2>2. bench' = bench /\ Trial
    BY <1>2, <2>1 DEF run, Trial
  <2>3. bench # "osu_latency_mt"
    BY <2>1, <2>2 DEF Trial, RunTyped, OptionsOf
  <2>4. Agreement'
    BY AgreementStep
  <2>5. "collective" \notin wrong'
    BY <2>2, <2>3, <2>4 DEF Agreement
  <2>6. Doubtful /\ Recalled /\ Exits /\ Rumour
    BY <2>2 DEF Judgement
  <2> QED BY <2>2, <2>5, <2>6, DoubtfulStep, RecalledStep, ExitsStep, RumourStep
<1> QED BY <1>1, <1>2 DEF Judgement

\* At the end every actor reports an error exactly if there has been one.
LEMMA JudgementIsTold ==
    ASSUME IInv, Agreement, Gathered(ledger), Judgement, OneWindow(bench)
    PROVE  ErrorsReported
<1> SUFFICES ASSUME Over, bench \in CPt2pt \cup CCollective, NEW a \in Actors[bench]
             PROVE  failed[a] = spoiled
  BY DEF ErrorsReported
<1>1. DataTyped /\ bench \in ReportsErrors
  BY DEF IInv, Typed, ReportsErrors
<1>2. CASE opt.validate
  <2>1. Trial
    BY <1>1, <1>2 DEF Trial
  <2> QED BY <2>1, AllAreTold DEF Judgement
<1>3. CASE ~opt.validate
  <2>1. ~spoiled /\ ~failed[a]
    BY <1>1, <1>3 DEF Judgement, Unjudged, Convicted
  <2>2. failed[a] \in BOOLEAN /\ spoiled \in BOOLEAN
    BY <1>1 DEF DataTyped
  <2> QED BY <2>1, <2>2
<1> QED BY <1>2, <1>3

\* With one window size every process of an MPI benchmark in C, point-to-point
\* or collective, ends with an exit code that tells of an error exactly when a
\* process has found one (ErrorsReported; the -c of osu_latency_mt, which exists
\* on accelerators only and tells nobody, is not among the options): what a rank counts is added up over all
\* ranks before any rank looks at the sum, nobody clears its count between the
\* comparison and the sum, and who leaves out sizes has been told.
THEOREM ErrorsTold == Spec => [](OneWindow(bench) => ErrorsReported)
<1>1. Init => Agreement /\ ArraysFree /\ Judgement
  <2>1. Init => ledger = <<>> /\ wrong = {}
    BY DEF Init
  <2> QED BY <2>1, AgreementBegins, JudgementBegins DEF ArraysFree, Gathered
<1>2. IInv /\ Agreement /\ ArraysFree /\ Judgement /\ [Next]_vars
         => (Agreement /\ ArraysFree /\ Judgement)'
  <2> SUFFICES ASSUME IInv, Agreement, ArraysFree, Judgement, [Next]_vars
               PROVE  (Agreement /\ ArraysFree /\ Judgement)'
    OBVIOUS
  <2>1. CASE UNCHANGED vars
    <3>1. ArraysFree'
      BY <2>1 DEF vars, run, ArraysFree, Gathered
    <3> QED BY <2>1, <3>1, AgreementStutters, JudgementStutters
  <2>2. CASE \E a \in Actors[bench] : Acts(a)
    <3>1. Gathered(ledger)
      BY DEF ArraysFree
    <3> QED BY <2>2, <3>1, AgreementStep, ArraysFreeStep, JudgementStep
  <2> QED BY <2>1, <2>2, SomeoneActs
<1>3. IInv /\ Agreement /\ ArraysFree /\ Judgement => (OneWindow(bench) => ErrorsReported)
  BY JudgementIsTold DEF ArraysFree
<1> QED BY <1>1, <1>2, <1>3, Invariance, PTL DEF Spec

=============================================================================
