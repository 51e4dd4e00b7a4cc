------------------------------ MODULE StopFlag ------------------------------
(***************************************************************************)
(* What the interaction benchmark promises, without windows, batches or    *)
(* barriers: a flag that is prepared, is armed once, falls once, and a set *)
(* of watchers that join only after it has been armed and leave only after *)
(* it has fallen -- and all of which do leave.                             *)
(***************************************************************************)
CONSTANT Watcher

VARIABLES
    phase,      \* "setup", then "running", then "stopped"
    watcher     \* watcher[w]: "out", then "watching", then "left"

flagVars == <<phase, watcher>>

FlagTypeOK ==
    /\ phase \in {"setup", "running", "stopped"}
    /\ watcher \in [Watcher -> {"out", "watching", "left"}]

FlagInit ==
    /\ phase = "setup"
    /\ watcher = [w \in Watcher |-> "out"]

Arm ==
    /\ phase = "setup"
    /\ phase' = "running"
    /\ UNCHANGED watcher

Fall ==
    /\ phase = "running"
    /\ phase' = "stopped"
    /\ UNCHANGED watcher

Join(w) ==
    /\ phase # "setup"
    /\ watcher[w] = "out"
    /\ watcher' = [watcher EXCEPT ![w] = "watching"]
    /\ UNCHANGED phase

Quit(w) ==
    /\ phase = "stopped"
    /\ watcher[w] = "watching"
    /\ watcher' = [watcher EXCEPT ![w] = "left"]
    /\ UNCHANGED phase

FlagNext == Arm \/ Fall \/ \E w \in Watcher : Join(w) \/ Quit(w)

FlagSafety == FlagInit /\ [][FlagNext]_flagVars

FlagSpec ==
    /\ FlagSafety
    /\ WF_flagVars(Arm) /\ WF_flagVars(Fall)
    /\ \A w \in Watcher : WF_flagVars(Join(w)) /\ WF_flagVars(Quit(w))
=============================================================================
