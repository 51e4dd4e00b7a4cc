----------------------------- MODULE WorldProofs -----------------------------
(***************************************************************************)
(* How far ranks can be apart: what a collective call does to the numbers  *)
(* of calls that the proofs about the benchmarks compare.                  *)
(***************************************************************************)
EXTENDS MPIWorld, Integers, FiniteSetsExt, WellFoundedInduction, TLAPS

\* Products, which the provers do not look into, and quotients.
LEMMA Distributes ==
    /\ \A n, p \in Nat : (n + 1) * p = n * p + p /\ n * p \in Nat
    /\ \A p \in Nat : 0 * p = 0
OBVIOUS

LEMMA Grows == \A m, n, p \in Nat : m <= n => m * p <= n * p
<1> SUFFICES ASSUME NEW m \in Nat, NEW n \in Nat, NEW p \in Nat, m <= n
             PROVE  m * p <= n * p
  OBVIOUS
<1>1. n - m \in Nat /\ (n - m) * p \in Nat
  BY Distributes
<1>2. n * p = m * p + (n - m) * p
  OBVIOUS
<1>3. m * p \in Nat
  BY Distributes
<1> QED BY <1>1, <1>2, <1>3

LEMMA Quotient ==
    ASSUME NEW m \in Nat, NEW n \in Nat \ {0}
    PROVE  /\ m \div n \in Nat
           /\ (m \div n) * n <= m
           /\ \A k \in Nat : k * n <= m <=> k <= m \div n
<1> DEFINE q == m \div n
<1>1. q \in Nat /\ m = n * q + (m % n) /\ m % n \in 0 .. n - 1
  OBVIOUS
<1> HIDE DEF q
<1>2. q * n <= m /\ m < (q + 1) * n
  <2>1. (q + 1) * n = q * n + n /\ q * n \in Nat /\ n * q = q * n
    BY <1>1, Distributes
  <2> QED BY <1>1, <2>1
<1>3. ASSUME NEW k \in Nat PROVE k * n <= m <=> k <= q
  <2>0. k * n \in Nat /\ q * n \in Nat /\ (q + 1) * n \in Nat
    BY <1>1, Distributes
  <2>1. CASE k <= q
    BY <1>1, <1>2, <2>0, <2>1, Grows
  <2>2. CASE ~(k <= q)
    <3>1. (q + 1) * n <= k * n
      BY <1>1, <2>2, Grows
    <3> QED BY <1>1, <1>2, <2>0, <2>2, <3>1
  <2> QED BY <2>1, <2>2
<1> QED BY <1>1, <1>2, <1>3 DEF q

\* A remainder is determined by the equation that it satisfies.
LEMMA NoRemainder ==
    ASSUME NEW m \in Nat, NEW n \in Nat \ {0}, NEW q \in Nat
    PROVE  m = q * n => m % n = 0
<1> SUFFICES ASSUME m = q * n PROVE m % n = 0
  OBVIOUS
<1> DEFINE p == m \div n
<1>1. p \in Nat /\ m = n * p + (m % n) /\ m % n \in 0 .. n - 1
  OBVIOUS
<1> HIDE DEF p
<1>2. n * p = p * n /\ p * n \in Nat /\ q * n \in Nat /\ (p + 1) * n = p * n + n
  BY <1>1, Distributes
<1>3. p <= q => p * n <= q * n
  BY <1>1, Grows
<1>4. CASE q >= p + 1
  <2>1. (p + 1) * n <= q * n
    BY <1>1, <1>4, Grows
  <2> QED BY <1>1, <1>2, <2>1
<1>5. CASE q <= p
  <2>1. q * n <= p * n
    BY <1>1, <1>5, Grows
  <2> QED BY <1>1, <1>2, <2>1
<1> QED BY <1>1, <1>4, <1>5

WorldTyped ==
    /\ inside \in [Rank -> BOOLEAN]
    /\ calls \in [Rank -> Seq(CollectiveKind)]

\* Collectives that r has returned from, in a program whose last label is last:
\* the return from MPI_Finalize tells nobody anything, and does not count.
Behind(r, last) ==
    IF inside[r] \/ pc[r] = last THEN Len(calls[r]) - 1 ELSE Len(calls[r])

\* Nobody has returned from a collective that somebody else has not entered.
NobodyAhead(last) == \A r, s \in Rank : Behind(r, last) <= Len(calls[s])

\* The call of a collective adds it to the rank's calls, and returns later.
LEMMA EnterCounts ==
    ASSUME WorldTyped, NEW r \in Rank, NEW kind \in CollectiveKind, Enter(r, kind)
    PROVE  /\ WorldTyped'
           /\ ~inside[r] /\ inside'[r]
           /\ Len(calls'[r]) = Len(calls[r]) + 1
           /\ \A s \in Rank : s # r => inside'[s] = inside[s] /\ calls'[s] = calls[s]
           /\ \A s \in Rank : Len(calls[s]) \in Nat /\ Len(calls'[s]) \in Nat
BY DEF Enter, WorldTyped

\* The return from one leaves the calls alone, and comes after everybody's call.
LEMMA LeaveCounts ==
    ASSUME WorldTyped, NEW r \in Rank, NEW kind, NEW root, Leave(r, kind, root)
    PROVE  /\ WorldTyped'
           /\ inside[r] /\ ~inside'[r]
           /\ calls' = calls
           /\ \A s \in Rank : s # r => inside'[s] = inside[s]
           /\ \A s \in Rank : Len(calls[s]) \in Nat
           /\ kind \in Synchronising => \A s \in Rank : Len(calls[s]) >= Len(calls[r])
BY DEF Leave, WorldTyped, AllEntered

\* A call keeps the ranks together ...
LEMMA EnterKeepsTogether ==
    ASSUME WorldTyped, NEW last, NobodyAhead(last), NEW r \in Rank,
           NEW kind \in CollectiveKind, Enter(r, kind), pc' = pc, pc[r] # last
    PROVE  NobodyAhead(last)'
<1>0. /\ ~inside[r] /\ inside'[r] /\ Len(calls'[r]) = Len(calls[r]) + 1
      /\ \A s \in Rank : s # r => inside'[s] = inside[s] /\ calls'[s] = calls[s]
      /\ \A s \in Rank : Len(calls[s]) \in Nat /\ Len(calls'[s]) \in Nat
  BY EnterCounts
<1>1. ASSUME NEW s \in Rank, NEW t \in Rank PROVE Behind(s, last)' <= Len(calls'[t])
  <2>1. /\ Behind(s, last)' = Behind(s, last)
        /\ Behind(s, last) \in Int
    BY <1>0 DEF Behind
  <2>2. Len(calls[t]) \in Nat /\ Len(calls'[t]) \in Nat /\ Len(calls'[t]) >= Len(calls[t])
    BY <1>0
  <2>3. Behind(s, last) <= Len(calls[t])
    BY DEF NobodyAhead
  <2> QED BY <2>1, <2>2, <2>3
<1> QED BY <1>1 DEF NobodyAhead

\* ... and so does the return from one that synchronises, or to the last label.
LEMMA LeaveKeepsTogether ==
    ASSUME WorldTyped, NEW last, NobodyAhead(last), NEW r \in Rank,
           NEW kind, NEW root, Leave(r, kind, root),
           \A s \in Rank : s # r => pc'[s] = pc[s],
           kind \in Synchronising \/ pc'[r] = last
    PROVE  NobodyAhead(last)'
<1>0. /\ inside[r] /\ ~inside'[r] /\ calls' = calls
      /\ \A s \in Rank : s # r => inside'[s] = inside[s]
      /\ \A s \in Rank : Len(calls[s]) \in Nat
      /\ kind \in Synchronising => \A s \in Rank : Len(calls[s]) >= Len(calls[r])
  BY LeaveCounts
<1>1. ASSUME NEW s \in Rank, NEW t \in Rank PROVE Behind(s, last)' <= Len(calls'[t])
  <2>1. /\ calls' = calls /\ Len(calls[s]) \in Nat /\ Len(calls[t]) \in Nat
        /\ Behind(s, last) <= Len(calls[t])
    BY <1>0 DEF NobodyAhead
  <2>2. CASE s # r \/ pc'[r] = last
    <3>1. Behind(s, last)' <= Behind(s, last)
      BY <1>0, <2>1, <2>2 DEF Behind
    <3>2. Behind(s, last)' \in Int /\ Behind(s, last) \in Int
      BY <2>1 DEF Behind
    <3> QED BY <2>1, <3>1, <3>2
  <2>3. CASE s = r /\ kind \in Synchronising
    <3>1. Len(calls[t]) >= Len(calls[r])
      BY <1>0, <2>3
    <3> QED BY <2>1, <2>3, <3>1 DEF Behind
  <2> QED BY <2>2, <2>3
<1> QED BY <1>1 DEF NobodyAhead

\* A step without a collective keeps them together as well.
LEMMA LocalKeepsTogether ==
    ASSUME NEW last, NobodyAhead(last), NEW r \in Rank, UNCHANGED <<inside, calls>>,
           \A s \in Rank : s # r => pc'[s] = pc[s],
           pc[r] # last, WorldTyped
    PROVE  NobodyAhead(last)'
<1>1. ASSUME NEW s \in Rank, NEW t \in Rank PROVE Behind(s, last)' <= Len(calls'[t])
  <2>1. Len(calls[s]) \in Nat /\ Len(calls[t]) \in Nat /\ Behind(s, last) <= Len(calls[t])
    BY DEF WorldTyped, NobodyAhead
  <2>2. Behind(s, last)' <= Behind(s, last)
    BY <2>1 DEF Behind
  <2>3. Behind(s, last)' \in Int /\ Behind(s, last) \in Int
    BY <2>1 DEF Behind
  <2> QED BY <2>1, <2>2, <2>3
<1> QED BY <1>1 DEF NobodyAhead
-----------------------------------------------------------------------------
(* The loops over the pairs of PairWindows. *)

Less == OpToRel(<, Nat)

\* The first of a set of numbers is one of them.
LEMMA MinIsMember ==
    ASSUME NEW S \in SUBSET Nat, S # {}
    PROVE  Min(S) \in S
<1>1. IsWellFoundedOn(Less, Nat)
  BY NatLessThanWellFounded DEF Less, OpToRel
<1>2. PICK x \in S : \A y \in S : ~(<<y, x>> \in Less)
  BY <1>1, WFMin
<1>3. Less = {s \in Nat \X Nat : s[1] < s[2]}
  BY DEF Less, OpToRel
<1>4. ASSUME NEW y \in S PROVE x <= y
  <2>1. ~(<<y, x>> \in Less) /\ x \in Nat /\ y \in Nat
    BY <1>2
  <2> QED BY <1>3, <2>1
<1> QED BY <1>4 DEF Min

\* Counters of calls on the two sides of pairs, with one call more.
LEMMA OneMoreCall ==
    ASSUME NEW P, NEW f \in [P -> [zero : 0 .. 6, peer : 0 .. 6]],
           NEW i \in P, NEW side \in {"zero", "peer"}, f[i][side] < 6
    PROVE  [f EXCEPT ![i][side] = @ + 1] \in [P -> [zero : 0 .. 6, peer : 0 .. 6]]
<1>1. CASE side = "zero"
  BY <1>1
<1>2. CASE side = "peer"
  BY <1>2
<1> QED BY <1>1, <1>2
=============================================================================
