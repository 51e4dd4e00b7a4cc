---------------------------- MODULE AtomicCounter ----------------------------
(***************************************************************************)
(* What one hopes of fetch-and-add through overlapping windows: a counter  *)
(* that starts at zero and to which every worker adds one, Times times,    *)
(* each addition a single step.                                            *)
(***************************************************************************)
EXTENDS Naturals

CONSTANTS Worker, Times

VARIABLES
    value,    \* the counter
    missing   \* missing[w]: additions that w has yet to make

counterVars == <<value, missing>>

CounterInit ==
    /\ value = 0
    /\ missing = [w \in Worker |-> Times]

Add(w) ==
    /\ missing[w] > 0
    /\ value' = value + 1
    /\ missing' = [missing EXCEPT ![w] = @ - 1]

CounterNext == \E w \in Worker : Add(w)

CounterSafety == CounterInit /\ [][CounterNext]_counterVars
=============================================================================
