-------------------------- MODULE OverlappingWindows --------------------------
(***************************************************************************)
(* What overlapping-windows-semantics and overlapping-windows-performance  *)
(* have in common: the upper half of the ranks accesses the memory of rank *)
(* 0, each of them ITERATIONS times.                                       *)
(***************************************************************************)
EXTENDS PairWindows

CONSTANT ITERATIONS   \* fetch-and-adds per accessing rank

ASSUME IterationsAssumption == ITERATIONS \in Nat \ {0}

Half == Size \div 2
Accessor == {r \in Rank : r >= Half}

\* No value, no line and no clock reading yet.
NotYet == -1
=============================================================================
