-------------------------- MODULE InteractionProofs --------------------------
(***************************************************************************)
(* The invariants of Interaction for every number of ranks, main ranks and *)
(* observers, every operation, batch size and kind of progress.            *)
(***************************************************************************)
EXTENDS Interaction, TLAPS

\* Rank 0 always runs the task, and nobody has two roles.
LEMMA Roles ==
    /\ Rank \subseteq Nat
    /\ Half \in Rank
    /\ Half >= 1
    /\ Main \subseteq Rank
    /\ Observer \subseteq Rank
    /\ 0 \in Main
    /\ Main \cap Observer = {}
    /\ PerRound \in Nat
    /\ PerRound >= 1
BY SizeAssumption, SeveralRanks, NumMainAssumption, NumObserversAssumption, BatchAssumption
   DEF Rank, Half, Main, Observer, PerRound

-----------------------------------------------------------------------------
(* Types and roles: a rank never leaves the program of its role. *)

Typed == TypeOK /\ EveryoneInRole

LEMMA CounterUpdate ==
    ASSUME NEW f \in [Rank -> Nat], NEW r \in Rank, NEW n \in Nat
    PROVE  [f EXCEPT ![r] = n] \in [Rank -> Nat]
OBVIOUS

LEMMA InitTyped == ASSUME Init PROVE Typed
BY Roles, GarbageAssumption
   DEF Init, Typed, TypeOK, EveryoneInRole, Label, MainProgram, ObserverProgram, IdleProgram

\* A rank that is not done, in a flush, or at a foreign label has a next label.
LEMMA OnProgram ==
    ASSUME Typed, NEW r \in Rank
    PROVE  /\ pc[r] \in DOMAIN CollectiveAt => pc[r] \in DOMAIN Program(r)
           /\ r \in Main /\ pc[r] # "done" => pc[r] \in DOMAIN Program(r)
           /\ r \in Observer /\ pc[r] \notin {"done", "flush"} => pc[r] \in DOMAIN Program(r)
BY Roles DEF Typed, EveryoneInRole, TypeOK, Program, MainProgram, ObserverProgram,
             IdleProgram, CollectiveAt, Label

LEMMA ProgramsLead ==
    ASSUME NEW r \in Rank, NEW l \in DOMAIN Program(r)
    PROVE  /\ Program(r)[l] \in Label
           /\ r \in Main => Program(r)[l] \in DOMAIN MainProgram \cup {"done"}
           /\ r \in Observer => Program(r)[l] \in DOMAIN ObserverProgram \cup {"flush", "done"}
           /\ r \notin Main \cup Observer => Program(r)[l] \in DOMAIN IdleProgram \cup {"done"}
BY Roles DEF Program, MainProgram, ObserverProgram, IdleProgram, Label

LEMMA AdvanceTyped ==
    ASSUME Typed, NEW r \in Rank, pc[r] \in DOMAIN Program(r), Advance(r)
    PROVE  pc' \in [Rank -> Label] /\ EveryoneInRole'
<1>1. pc' = [pc EXCEPT ![r] = Program(r)[pc[r]]] /\ pc \in [Rank -> Label]
  BY DEF Advance, Goto, Typed, TypeOK
<1> QED
  BY <1>1, ProgramsLead, Roles DEF Typed, EveryoneInRole

\* The same for the two ways out of a flush.
LEMMA FlushTyped ==
    ASSUME Typed, NEW o \in Observer, NEW v, Goto(o, Verdict(v))
    PROVE  pc' \in [Rank -> Label] /\ EveryoneInRole'
<1>1. Verdict(v) \in {"unlock", "issue", "free"}
  BY DEF Verdict
<1>2. pc' = [pc EXCEPT ![o] = Verdict(v)] /\ pc \in [Rank -> Label]
  BY DEF Goto, Typed, TypeOK
<1> QED
  BY <1>1, <1>2, Roles DEF Typed, EveryoneInRole, Label, ObserverProgram

\* observer.c:56-70: whatever the operation, word 0 keeps its value.
LEMMA ResultIsOld == ASSUME NEW old \in Nat PROVE Result(old) = old
<1>1. CASE Op = "fop"
  BY <1>1 DEF Result, FopSrc
<1>2. CASE Op = "cas"
  BY <1>2 DEF Result, CasSrc, CasCompare
<1>3. CASE Op \notin {"fop", "cas"}
  BY <1>3 DEF Result
<1> QED
  BY <1>1, <1>2, <1>3

LEMMA EnterTyped ==
    ASSUME Typed, NEW r \in Rank, EnterCollective(r) PROVE Typed'
<1>1. CollectiveAt[pc[r]] \in CollectiveKind
  BY DEF EnterCollective, CollectiveAt, CollectiveKind, Synchronising, Rooted
<1>2. Contribution(r) \in Nat
  <2>1. \A a, b \in Nat : a * b \in Nat
    OBVIOUS
  <2> QED
    BY <2>1, Roles DEF Contribution, Typed, TypeOK
<1>3. calls' \in [Rank -> Seq(CollectiveKind)]
  BY <1>1 DEF EnterCollective, Enter, Typed, TypeOK
<1>4. EveryoneInRole'
  BY DEF EnterCollective, EveryoneInRole, Typed
<1>5. inside' \in [Rank -> BOOLEAN] /\ contrib' \in [Rank -> Nat]
  BY <1>2 DEF EnterCollective, Enter, Typed, TypeOK
<1> QED
  BY <1>3, <1>4, <1>5 DEF EnterCollective, Typed, TypeOK

LEMMA LeaveTyped ==
    ASSUME Typed, NEW r \in Rank, LeaveCollective(r) PROVE Typed'
<1>1. Advance(r) /\ inside' = [inside EXCEPT ![r] = FALSE] /\ UNCHANGED calls
  BY DEF LeaveCollective, Leave
<1>2. pc' \in [Rank -> Label] /\ EveryoneInRole'
  BY <1>1, OnProgram, AdvanceTyped DEF LeaveCollective
<1> QED
  BY <1>1, <1>2 DEF LeaveCollective, Typed, TypeOK

LEMMA MainTyped ==
    ASSUME Typed, NEW m \in Main, MainStep(m) PROVE Typed'
<1>1. pc[m] # "done" /\ Advance(m)
  BY DEF MainStep, Publish, Kernel, Stop, Stopped, CancelRequest
<1>2. pc' \in [Rank -> Label] /\ EveryoneInRole'
  BY <1>1, OnProgram, AdvanceTyped, Roles
<1>3. CASE Publish(m)
  BY <1>3, <1>2, BuildAssumption, Roles DEF Publish, Typed, TypeOK
<1>4. CASE Kernel(m)
  BY <1>4, <1>2 DEF Kernel, data, Typed, TypeOK
<1>5. CASE Stop(m)
  BY <1>5, <1>2, Roles DEF Stop, Typed, TypeOK
<1>6. CASE Stopped(m)
  BY <1>6, <1>2, Roles DEF Stopped, Typed, TypeOK
<1>7. CASE CancelRequest(m)
  BY <1>7, <1>2, Roles DEF CancelRequest, Typed, TypeOK
<1> QED
  BY <1>3, <1>4, <1>5, <1>6, <1>7 DEF MainStep

LEMMA CountersTyped ==
    ASSUME Typed, NEW r \in Rank
    PROVE  /\ todo \in [Rank -> Nat] /\ todo[r] \in Nat
           /\ rounds \in [Rank -> Nat] /\ rounds[r] + 1 \in Nat
           /\ hits \in [Rank -> Nat] /\ hits[r] + 1 \in Nat
           /\ late \in [Rank -> Nat] /\ late[r] \in Nat /\ late[r] + 1 \in Nat
           /\ got \in [Rank -> SUBSET Nat] /\ got[r] \in SUBSET Nat
           /\ word \in [Main -> Nat] /\ word[0] \in Nat
<1>1. /\ todo \in [Rank -> Nat] /\ rounds \in [Rank -> Nat] /\ hits \in [Rank -> Nat]
      /\ late \in [Rank -> Nat] /\ got \in [Rank -> SUBSET Nat]
      /\ word \in [Main -> Nat]
  BY DEF Typed, TypeOK
<1>2. /\ todo[r] \in Nat /\ rounds[r] \in Nat /\ hits[r] \in Nat /\ late[r] \in Nat
  BY <1>1
<1>3. got[r] \in SUBSET Nat /\ word[0] \in Nat
  BY <1>1, Roles
<1> QED
  BY <1>1, <1>2, <1>3

LEMMA ObserverTyped ==
    ASSUME Typed, NEW o \in Observer, ObserverStep(o) PROVE Typed'
<1>0. o \in Rank
  BY Roles
<1>1. CASE Flush(o)
  <2>1. PICK v \in Arrived(o) : Goto(o, Verdict(v))
    BY <1>1 DEF Flush
  <2>2. pc' \in [Rank -> Label] /\ EveryoneInRole'
    BY <2>1, FlushTyped
  <2>3. rounds' = [rounds EXCEPT ![o] = rounds[o] + 1]
    BY <1>1 DEF Flush
  <2>4. rounds' \in [Rank -> Nat]
    BY <1>0, <2>3, CounterUpdate, CountersTyped
  <2> QED
    BY <1>1, <2>2, <2>4 DEF Flush, Typed, TypeOK
<1>2. CASE Lock(o) \/ Issue(o) \/ Unlock(o)
  <2>1. pc[o] \notin {"done", "flush"} /\ Advance(o)
    BY <1>2 DEF Lock, Issue, Unlock
  <2>2. pc' \in [Rank -> Label] /\ EveryoneInRole'
    BY <1>0, <2>1, OnProgram, AdvanceTyped
  <2>3. CASE Lock(o)
    BY <1>0, <2>2, <2>3 DEF Lock, Typed, TypeOK
  <2>4. CASE Issue(o)
    <3>1. /\ late' = [late EXCEPT ![o] = IF word[0] = 2 THEN late[o] + 1 ELSE late[o]]
          /\ todo' = [todo EXCEPT ![o] = PerRound]
      BY <2>4 DEF Issue
    <3>2. (IF word[0] = 2 THEN late[o] + 1 ELSE late[o]) \in Nat
      BY <1>0, CountersTyped
    <3>3. late' \in [Rank -> Nat] /\ todo' \in [Rank -> Nat]
      BY <1>0, <3>1, <3>2, CounterUpdate, CountersTyped, Roles
    <3>4. got' \in [Rank -> SUBSET Nat]
      BY <2>4 DEF Issue, Typed, TypeOK
    <3> QED
      BY <2>2, <2>4, <3>3, <3>4 DEF Issue, Typed, TypeOK
  <2>5. CASE Unlock(o)
    BY <1>0, <2>2, <2>5 DEF Unlock, Typed, TypeOK
  <2> QED
    BY <1>2, <2>3, <2>4, <2>5
<1> QED
  BY <1>1, <1>2 DEF ObserverStep

LEMMA ServeTyped == ASSUME Typed, NEW o \in Observer, Serve(o) PROVE Typed'
<1>0. o \in Rank
  BY Roles
<1>1. word' = word
  <2>1. Result(word[0]) = word[0]
    BY <1>0, ResultIsOld, CountersTyped
  <2> QED
    BY <1>0, <2>1, CountersTyped DEF Serve
<1>2. /\ todo' = [todo EXCEPT ![o] = todo[o] - 1]
      /\ hits' = [hits EXCEPT ![o] = hits[o] + 1]
      /\ got' = [got EXCEPT ![o] = got[o] \cup {word[0]}]
      /\ todo[o] > 0
  BY DEF Serve
<1>3. todo[o] - 1 \in Nat
  BY <1>0, <1>2, CountersTyped
<1>4. todo' \in [Rank -> Nat] /\ hits' \in [Rank -> Nat]
  BY <1>0, <1>2, <1>3, CounterUpdate, CountersTyped
<1>5. got[o] \cup {word[0]} \in SUBSET Nat
  BY <1>0, CountersTyped
<1>6. got' \in [Rank -> SUBSET Nat]
  BY <1>0, <1>2, <1>5, CountersTyped
<1>7. EveryoneInRole'
  BY DEF Serve, EveryoneInRole, Typed
<1> QED
  BY <1>1, <1>4, <1>6, <1>7 DEF Serve, Typed, TypeOK

LEMMA LandTyped == ASSUME Typed, NEW m \in Main, Land(m) PROVE Typed'
<1>1. EveryoneInRole'
  BY DEF Land, EveryoneInRole, Typed
<1>2. word' \in [Main -> Nat] /\ todo' \in [Rank -> Nat]
  BY DEF Land, Typed, TypeOK
<1> QED
  BY <1>1, <1>2 DEF Land, Typed, TypeOK

LEMMA StepTyped == ASSUME Typed, [Next]_vars PROVE Typed'
<1>1. CASE UNCHANGED vars
  BY <1>1 DEF vars, Typed, TypeOK, EveryoneInRole
<1> QED
  BY <1>1, EnterTyped, LeaveTyped, MainTyped, ObserverTyped, ServeTyped, LandTyped
  DEF Next, RankStep, Finished

-----------------------------------------------------------------------------
(* Collectives: every rank is on the script, and barriers separate.        *)

\* A collective label is left with one more collective behind.
LEMMA CollectiveMoves ==
    ASSUME NEW r \in Rank, NEW l \in DOMAIN CollectiveAt, l \in DOMAIN Program(r)
    PROVE  /\ Before[Program(r)[l]] = Before[l] + 1
           /\ Before[l] \in 0 .. 6
           /\ Script[Before[l] + 1] = CollectiveAt[l]
BY Roles DEF Program, MainProgram, ObserverProgram, IdleProgram, CollectiveAt, Before, Script

\* Any other label is left for one that has the same collectives behind.
LEMMA LocalMoves ==
    ASSUME NEW r \in Rank, NEW l \in DOMAIN Program(r), l \notin DOMAIN CollectiveAt
    PROVE  /\ Before[Program(r)[l]] = Before[l]
           /\ AllBefore(Program(r)[l]) = AllBefore(l)
BY Roles DEF Program, MainProgram, ObserverProgram, IdleProgram, CollectiveAt, Before, AllBefore

\* A step that is no collective moves one rank between two such labels.
QuietMove(r) ==
    \E l \in Label :
        /\ pc' = [pc EXCEPT ![r] = l]
        /\ pc[r] \notin DOMAIN CollectiveAt
        /\ Before[l] = Before[pc[r]]
        /\ AllBefore(l) = AllBefore(pc[r])

LEMMA MainQuiet ==
    ASSUME Typed, NEW m \in Main, MainStep(m)
    PROVE  UNCHANGED <<inside, calls>> /\ QuietMove(m)
<1>1. UNCHANGED <<inside, calls>> /\ Advance(m)
  BY DEF MainStep, Publish, Kernel, Stop, Stopped, CancelRequest
<1>2. pc[m] \notin DOMAIN CollectiveAt /\ pc[m] # "done"
  BY DEF MainStep, Publish, Kernel, Stop, Stopped, CancelRequest, CollectiveAt
<1>3. pc[m] \in DOMAIN Program(m)
  BY <1>2, OnProgram, Roles
<1>4. Program(m)[pc[m]] \in Label
  BY <1>3, ProgramsLead, Roles
<1>5. /\ Before[Program(m)[pc[m]]] = Before[pc[m]]
      /\ AllBefore(Program(m)[pc[m]]) = AllBefore(pc[m])
  BY <1>2, <1>3, LocalMoves, Roles
<1> QED
  BY <1>1, <1>2, <1>4, <1>5 DEF QuietMove, Advance, Goto

\* With a value the flag can have, a flush leads back into the loop or out of it.
LEMMA ObserverQuiet ==
    ASSUME Typed, ValidationHolds, NEW o \in Observer, ObserverStep(o)
    PROVE  UNCHANGED <<inside, calls>> /\ QuietMove(o)
<1>1. CASE Flush(o)
  <2>1. PICK v \in {1, 2} : Goto(o, Verdict(v))
    BY <1>1 DEF Flush, Arrived, ValidationHolds
  <2>2. Verdict(v) \in {"unlock", "issue"}
    BY DEF Verdict
  <2>3. pc[o] = "flush" /\ UNCHANGED <<inside, calls>>
    BY <1>1 DEF Flush
  <2>4. /\ Before[Verdict(v)] = Before["flush"]
        /\ AllBefore(Verdict(v)) = AllBefore("flush")
        /\ "flush" \notin DOMAIN CollectiveAt
        /\ Verdict(v) \in Label
    BY <2>2 DEF Before, AllBefore, CollectiveAt, Label
  <2> QED
    BY <2>1, <2>3, <2>4 DEF QuietMove, Goto
<1>2. CASE Lock(o) \/ Issue(o) \/ Unlock(o)
  <2>1. UNCHANGED <<inside, calls>> /\ Advance(o)
    BY <1>2 DEF Lock, Issue, Unlock
  <2>2. pc[o] \notin DOMAIN CollectiveAt /\ pc[o] \notin {"done", "flush"}
    BY <1>2 DEF Lock, Issue, Unlock, CollectiveAt
  <2>3. pc[o] \in DOMAIN Program(o)
    BY <2>2, OnProgram, Roles
  <2>4. Program(o)[pc[o]] \in Label
    BY <2>3, ProgramsLead, Roles
  <2>5. /\ Before[Program(o)[pc[o]]] = Before[pc[o]]
        /\ AllBefore(Program(o)[pc[o]]) = AllBefore(pc[o])
    BY <2>2, <2>3, LocalMoves, Roles
  <2> QED
    BY <2>1, <2>2, <2>4, <2>5 DEF QuietMove, Advance, Goto
<1> QED
  BY <1>1, <1>2 DEF ObserverStep

OnScript == EveryoneOnScript /\ BarriersHold

LEMMA QuietOnScript ==
    ASSUME Typed, OnScript, NEW r \in Rank, UNCHANGED <<inside, calls>>, QuietMove(r)
    PROVE  OnScript'
<1>1. PICK l \in Label : /\ pc' = [pc EXCEPT ![r] = l]
                         /\ pc[r] \notin DOMAIN CollectiveAt
                         /\ Before[l] = Before[pc[r]]
                         /\ AllBefore(l) = AllBefore(pc[r])
  BY DEF QuietMove
<1>2. pc \in [Rank -> Label]
  BY DEF Typed, TypeOK
<1>3. EveryoneOnScript'
  BY <1>1, <1>2 DEF OnScript, EveryoneOnScript
<1>4. BarriersHold'
  BY <1>1, <1>2 DEF OnScript, BarriersHold
<1> QED
  BY <1>3, <1>4 DEF OnScript

LEMMA EnterOnScript ==
    ASSUME Typed, OnScript, NEW r \in Rank, EnterCollective(r)
    PROVE  OnScript'
<1>1. /\ pc' = pc
      /\ ~inside[r]
      /\ pc[r] \in DOMAIN CollectiveAt
      /\ inside' = [inside EXCEPT ![r] = TRUE]
      /\ calls' = [calls EXCEPT ![r] = Append(calls[r], CollectiveAt[pc[r]])]
  BY DEF EnterCollective, Enter
<1>2. pc \in [Rank -> Label] /\ inside \in [Rank -> BOOLEAN] /\ calls \in [Rank -> Seq(CollectiveKind)]
  BY DEF Typed, TypeOK
<1>3. pc[r] \in DOMAIN Program(r)
  BY <1>1, OnProgram
<1>4. /\ Len(calls[r]) = Before[pc[r]]
      /\ Before[pc[r]] \in 0 .. 6
      /\ Script[Before[pc[r]] + 1] = CollectiveAt[pc[r]]
  BY <1>1, <1>3, CollectiveMoves DEF OnScript, EveryoneOnScript
<1>5. /\ Len(calls'[r]) = Before[pc[r]] + 1
      /\ \A n \in 1 .. Len(calls'[r]) : calls'[r][n] = Script[n]
  <2>1. calls[r] \in Seq(CollectiveKind) /\ calls'[r] = Append(calls[r], CollectiveAt[pc[r]])
    BY <1>1, <1>2
  <2>2. \A n \in 1 .. Len(calls[r]) : calls[r][n] = Script[n]
    BY DEF OnScript, EveryoneOnScript
  <2>3. /\ Len(calls'[r]) = Len(calls[r]) + 1
        /\ \A n \in 1 .. Len(calls[r]) : calls'[r][n] = calls[r][n]
        /\ calls'[r][Len(calls[r]) + 1] = CollectiveAt[pc[r]]
    BY <2>1
  <2> QED
    BY <1>4, <2>2, <2>3
<1>6. \A s \in Rank \ {r} : calls'[s] = calls[s] /\ inside'[s] = inside[s]
  BY <1>1, <1>2
<1>7. EveryoneOnScript'
  <2>1. inside'[r]
    BY <1>1, <1>2
  <2> QED
    BY <1>1, <1>5, <1>6, <2>1 DEF OnScript, EveryoneOnScript
<1>8. BarriersHold'
  <2>1. \A s \in Rank : Len(calls'[s]) >= Len(calls[s])
    BY <1>2, <1>4, <1>5, <1>6
  <2>2. \A s \in Rank : Len(calls[s]) \in Nat /\ Len(calls'[s]) \in Nat
    BY <1>2, <1>4, <1>5, <1>6
  <2>3. \A q \in Rank : AllBefore(pc[q]) \in Nat
    BY <1>2 DEF AllBefore, Before, Label
  <2> QED
    BY <1>1, <2>1, <2>2, <2>3 DEF OnScript, BarriersHold
<1> QED
  BY <1>7, <1>8 DEF OnScript

LEMMA LeaveOnScript ==
    ASSUME Typed, OnScript, NEW r \in Rank, LeaveCollective(r)
    PROVE  OnScript'
<1>1. /\ inside[r]
      /\ pc[r] \in DOMAIN CollectiveAt
      /\ inside' = [inside EXCEPT ![r] = FALSE]
      /\ calls' = calls
      /\ pc' = [pc EXCEPT ![r] = Program(r)[pc[r]]]
  BY DEF LeaveCollective, Leave, Advance, Goto
<1>2. pc \in [Rank -> Label] /\ inside \in [Rank -> BOOLEAN]
  BY DEF Typed, TypeOK
<1>3. pc[r] \in DOMAIN Program(r)
  BY <1>1, OnProgram
<1>4. Len(calls[r]) = Before[pc[r]] + 1 /\ Before[Program(r)[pc[r]]] = Before[pc[r]] + 1
  BY <1>1, <1>3, CollectiveMoves DEF OnScript, EveryoneOnScript
<1>5. EveryoneOnScript'
  BY <1>1, <1>2, <1>4 DEF OnScript, EveryoneOnScript
<1>6. \A s \in Rank : Len(calls[s]) >= AllBefore(Program(r)[pc[r]])
  <2>1. CASE pc[r] \in {"alloc", "barrier1", "barrier2", "barrier3", "free"}
    <3>1. AllEntered(r)
      BY <2>1 DEF LeaveCollective, Leave, CollectiveAt, Synchronising
    <3>2. AllBefore(Program(r)[pc[r]]) = Before[pc[r]] + 1
      BY <2>1, <1>3 DEF AllBefore, Before, Program, MainProgram, ObserverProgram, IdleProgram
    <3> QED
      BY <1>4, <3>1, <3>2 DEF AllEntered
  <2>2. CASE pc[r] \in {"reduce", "finalize"}
    <3>1. AllBefore(Program(r)[pc[r]]) = AllBefore(pc[r])
      BY <2>2, <1>3 DEF AllBefore, Before, Program, MainProgram, ObserverProgram, IdleProgram
    <3> QED
      BY <3>1 DEF OnScript, BarriersHold
  <2> QED
    BY <1>1, <2>1, <2>2 DEF CollectiveAt
<1>7. BarriersHold'
  BY <1>1, <1>2, <1>6 DEF OnScript, BarriersHold
<1> QED
  BY <1>5, <1>7 DEF OnScript

LEMMA StepOnScript ==
    ASSUME Typed, OnScript, ValidationHolds, [Next]_vars
    PROVE  OnScript'
<1>1. CASE UNCHANGED <<pc, inside, calls>>
  BY <1>1 DEF OnScript, EveryoneOnScript, BarriersHold
<1>2. ASSUME NEW m \in Main, MainStep(m) PROVE OnScript'
  BY <1>2, MainQuiet, QuietOnScript, Roles
<1>3. ASSUME NEW o \in Observer, ObserverStep(o) PROVE OnScript'
  BY <1>3, ObserverQuiet, QuietOnScript, Roles
<1> QED
  BY <1>1, <1>2, <1>3, EnterOnScript, LeaveOnScript
  DEF Next, RankStep, Finished, Serve, Land, vars

-----------------------------------------------------------------------------
(* What the barriers say about the others.                                  *)

\* Nobody is before a barrier that somebody has left.
LEMMA OthersFollow ==
    ASSUME Typed, OnScript, NEW r \in Rank, NEW s \in Rank
    PROVE  /\ AllBefore(pc[r]) >= 3 => pc[s] \notin {"alloc", "publish", "barrier1", "lock"}
           /\ AllBefore(pc[r]) >= 4 => pc[s] \in {"barrier3", "cancel", "reduce", "free",
                                                   "finalize", "done"}
           /\ AllBefore(pc[r]) >= 6 => pc[s] \in {"free", "finalize", "done"}
<1>1. pc[s] \in Label /\ inside[s] \in BOOLEAN /\ AllBefore(pc[r]) \in Nat
  BY DEF Typed, TypeOK, AllBefore, Before, Label
<1>2. /\ Len(calls[s]) = Before[pc[s]] + (IF inside[s] THEN 1 ELSE 0)
      /\ Len(calls[s]) >= AllBefore(pc[r])
      /\ inside[s] => pc[s] \in DOMAIN CollectiveAt
  BY DEF OnScript, EveryoneOnScript, BarriersHold
<1> QED
  BY <1>1, <1>2 DEF Before, CollectiveAt, Label

LEMMA ObserverInLoop ==
    ASSUME Typed, OnScript, NEW o \in Observer, pc[o] \in {"issue", "flush"} \cup PastLoop
    PROVE  pc[0] \notin {"alloc", "publish", "barrier1", "lock"}
<1>1. AllBefore(pc[o]) >= 3
  BY DEF AllBefore, Before, PastLoop
<1> QED
  BY <1>1, OthersFollow, Roles

-----------------------------------------------------------------------------
(* The flag.                                                                *)

FlagInv == FlagArmed /\ ValidationHolds /\ LateBatchIsLast /\ LeftAfterFall

\* Only rank 0's own store and the REPLACE of a main rank change word 0.
LEMMA WordChanges ==
    ASSUME Typed, Next
    PROVE  \/ word'[0] = word[0]
           \/ pc[0] = "publish" /\ Publish(0) /\ word'[0] = 1
           \/ \E m \in Main : Land(m) /\ word'[0] = 2
<1>1. ASSUME NEW o \in Observer, Serve(o) PROVE word'[0] = word[0]
  <2>1. 0 \in Rank
    BY Roles
  <2>2. word \in [Main -> Nat] /\ Result(word[0]) = word[0]
    BY <2>1, ResultIsOld, CountersTyped
  <2> QED
    BY <1>1, <2>2, Roles DEF Serve
<1>2. ASSUME NEW m \in Main, MainStep(m)
      PROVE  word'[0] = word[0] \/ (pc[0] = "publish" /\ Publish(0) /\ word'[0] = 1)
  <2>1. CASE Publish(m)
    BY <2>1, Roles DEF Publish, Typed, TypeOK
  <2>2. CASE ~Publish(m)
    BY <1>2, <2>2 DEF MainStep, Kernel, Stop, Stopped, CancelRequest, data
  <2> QED
    BY <2>1, <2>2
<1>3. ASSUME NEW m \in Main, Land(m) PROVE word'[0] = 2
  BY <1>3, Roles DEF Land, Typed, TypeOK
<1>4. ASSUME NEW r \in Rank, EnterCollective(r) \/ LeaveCollective(r) PROVE word' = word
  BY <1>4 DEF EnterCollective, LeaveCollective
<1>5. ASSUME NEW o \in Observer, ObserverStep(o) PROVE word' = word
  BY <1>5 DEF ObserverStep, Lock, Issue, Flush, Unlock
<1>6. ASSUME Finished PROVE word' = word
  BY <1>6 DEF Finished, vars
<1> QED
  BY <1>1, <1>2, <1>3, <1>4, <1>5, <1>6 DEF Next, RankStep

LEMMA StepFlagArmed ==
    ASSUME Typed, FlagArmed, Next PROVE FlagArmed'
<1>1. pc'[0] \notin {"alloc", "publish"} => pc[0] \notin {"alloc", "publish"} \/ Publish(0)
  <2>1. ASSUME NEW r \in Rank, LeaveCollective(r) PROVE pc'[0] = pc[0] \/ pc'[0] = "publish" \/ pc[0] # "alloc"
    BY <2>1, Roles DEF LeaveCollective, Advance, Goto, Program, MainProgram, Typed, TypeOK
  <2>2. ASSUME NEW r \in Rank, LeaveCollective(r) PROVE pc'[0] = pc[0] \/ pc[0] # "publish"
    BY <2>2, Roles DEF LeaveCollective, CollectiveAt, Advance, Goto, Typed, TypeOK
  <2>3. ASSUME NEW m \in Main, MainStep(m), ~Publish(0) PROVE pc'[0] = pc[0] \/ pc[0] \notin {"alloc", "publish"}
    BY <2>3, Roles DEF MainStep, Publish, Kernel, Stop, Stopped, CancelRequest, Advance, Goto, Typed, TypeOK
  <2>4. ASSUME NEW o \in Observer, ObserverStep(o) PROVE pc'[0] = pc[0]
    BY <2>4, Roles DEF ObserverStep, Lock, Issue, Flush, Unlock, Advance, Goto, Typed, TypeOK
  <2> QED
    BY <2>1, <2>2, <2>3, <2>4 DEF Next, RankStep, EnterCollective, Serve, Land, Finished, vars
<1> QED
  BY <1>1, WordChanges, Roles DEF FlagArmed, Publish, Typed, TypeOK

\* What a step does to an observer's view of the flag: it moves on to a label
\* where it has not looked yet, starts a batch, fetches word 0, or ends a batch.
LEMMA ObserverView ==
    ASSUME Typed, Next, NEW o \in Observer
    PROVE  \/ UNCHANGED <<pc[o], got[o], late[o]>>
           \/ /\ pc[o] \in {"alloc", "barrier1", "lock", "barrier2"}
              /\ pc'[o] \in {"barrier1", "lock", "barrier2", "issue"}
              /\ UNCHANGED <<got[o], late[o]>>
           \/ /\ pc[o] = "issue" /\ pc'[o] = "flush" /\ got'[o] = {}
              /\ word'[0] = word[0]
              /\ late'[o] = IF word[0] = 2 THEN late[o] + 1 ELSE late[o]
           \/ /\ pc[o] = "flush" /\ pc'[o] = "flush" /\ late'[o] = late[o]
              /\ word'[0] = word[0]
              /\ got'[o] = got[o] \cup {word[0]}
           \/ /\ pc[o] = "flush" /\ UNCHANGED <<got[o], late[o]>>
              /\ word'[0] = word[0]
              /\ \E v \in got[o] : pc'[o] = Verdict(v)
           \/ /\ pc[o] \in PastLoop /\ pc'[o] \in PastLoop
              /\ UNCHANGED <<got[o], late[o]>>
<1> DEFINE Same == UNCHANGED <<pc[o], got[o], late[o]>>
           Move == \/ /\ pc[o] \in {"alloc", "barrier1", "lock", "barrier2"}
                      /\ pc'[o] \in {"barrier1", "lock", "barrier2", "issue"}
                   \/ pc[o] \in PastLoop /\ pc'[o] \in PastLoop
<1>0. /\ pc \in [Rank -> Label] /\ got \in [Rank -> SUBSET Nat] /\ late \in [Rank -> Nat]
      /\ o \in Rank /\ o \notin Main
  BY Roles DEF Typed, TypeOK
<1>1. ASSUME NEW r \in Rank, EnterCollective(r) PROVE Same
  BY <1>1 DEF EnterCollective
<1>2. ASSUME NEW r \in Rank, LeaveCollective(r)
      PROVE  UNCHANGED <<got[o], late[o]>> /\ (Same \/ Move)
  <2>1. CASE r = o
    BY <1>0, <1>2, <2>1 DEF LeaveCollective, Advance, Goto, Program, ObserverProgram,
                            CollectiveAt, PastLoop
  <2>2. CASE r # o
    BY <1>0, <1>2, <2>2 DEF LeaveCollective, Advance, Goto
  <2> QED
    BY <2>1, <2>2
<1>3. ASSUME NEW m \in Main, MainStep(m) PROVE Same
  BY <1>0, <1>3 DEF MainStep, Publish, Kernel, Stop, Stopped, CancelRequest, data, Advance, Goto
<1>4. ASSUME NEW p \in Observer, ObserverStep(p), p # o PROVE Same
  BY <1>0, <1>4 DEF ObserverStep, Lock, Issue, Flush, Unlock, Advance, Goto
<1>5. ASSUME Lock(o) \/ Unlock(o) PROVE UNCHANGED <<got[o], late[o]>> /\ Move
  BY <1>0, <1>5 DEF Lock, Unlock, Advance, Goto, Program, ObserverProgram, PastLoop
<1>6. ASSUME Issue(o)
      PROVE  /\ pc[o] = "issue" /\ pc'[o] = "flush" /\ got'[o] = {}
             /\ word' = word
             /\ late'[o] = IF word[0] = 2 THEN late[o] + 1 ELSE late[o]
  BY <1>0, <1>6 DEF Issue, Advance, Goto, Program, ObserverProgram
<1>7. ASSUME Flush(o)
      PROVE  /\ pc[o] = "flush" /\ UNCHANGED <<got[o], late[o]>>
             /\ word' = word
             /\ \E v \in got[o] : pc'[o] = Verdict(v)
  BY <1>0, <1>7 DEF Flush, Arrived, Goto
<1>8. ASSUME NEW p \in Observer, Serve(p)
      PROVE  \/ Same
             \/ /\ pc[o] = "flush" /\ pc'[o] = "flush" /\ late'[o] = late[o]
                /\ word'[0] = word[0]
                /\ got'[o] = got[o] \cup {word[0]}
  <2>1. word'[0] = word[0]
    <3>1. word \in [Main -> Nat] /\ Result(word[0]) = word[0]
      BY <1>0, ResultIsOld, CountersTyped
    <3> QED
      BY <1>8, <3>1, Roles DEF Serve
  <2> QED
    BY <1>0, <1>8, <2>1 DEF Serve
<1>9. ASSUME (\E m \in Main : Land(m)) \/ Finished PROVE Same
  BY <1>9 DEF Land, Finished, vars
<1>10. \/ \E r \in Rank : EnterCollective(r) \/ LeaveCollective(r)
       \/ \E m \in Main : MainStep(m)
       \/ \E p \in Observer : ObserverStep(p) /\ p # o
       \/ Lock(o) \/ Issue(o) \/ Flush(o) \/ Unlock(o)
       \/ \E p \in Observer : Serve(p)
       \/ (\E m \in Main : Land(m)) \/ Finished
  BY DEF Next, RankStep, ObserverStep
<1> QED
  BY <1>1, <1>2, <1>3, <1>4, <1>5, <1>6, <1>7, <1>8, <1>9, <1>10

LEMMA StepFlag ==
    ASSUME Typed, OnScript, FlagInv, [Next]_vars
    PROVE  FlagInv'
<1>1. CASE UNCHANGED vars
  BY <1>1 DEF vars, FlagInv, FlagArmed, ValidationHolds, LateBatchIsLast, LeftAfterFall
<1>2. CASE Next
  <2>1. FlagArmed'
    BY <1>2, StepFlagArmed DEF FlagInv
  <2>2. ASSUME NEW o \in Observer
        PROVE  /\ got'[o] \subseteq {1, 2}
               /\ late'[o] <= 1
               /\ pc'[o] \in {"alloc", "barrier1", "lock", "barrier2", "issue"} => late'[o] = 0
               /\ pc'[o] = "flush" /\ late'[o] = 1 => got'[o] \subseteq {2} /\ word'[0] = 2
               /\ pc'[o] \in {"alloc", "barrier1", "lock", "barrier2"} => got'[o] = {}
               /\ 2 \in got'[o] \/ pc'[o] \in PastLoop => word'[0] = 2
    <3>0. /\ got[o] \subseteq {1, 2}
          /\ late[o] <= 1 /\ late[o] \in Nat
          /\ pc[o] \in {"alloc", "barrier1", "lock", "barrier2", "issue"} => late[o] = 0
          /\ pc[o] = "flush" /\ late[o] = 1 => got[o] \subseteq {2} /\ word[0] = 2
          /\ pc[o] \in {"alloc", "barrier1", "lock", "barrier2"} => got[o] = {}
          /\ 2 \in got[o] \/ pc[o] \in PastLoop => word[0] = 2
      BY Roles DEF FlagInv, ValidationHolds, LateBatchIsLast, LeftAfterFall, Typed, TypeOK
    <3>1. pc[o] \in Label
      BY Roles DEF Typed, TypeOK
    <3>2. pc[o] \in {"issue", "flush"} \cup PastLoop => word[0] \in {1, 2} /\ pc[0] # "publish"
      BY ObserverInLoop DEF FlagInv, FlagArmed
    <3>3. word[0] = 2 /\ pc[o] \in {"issue", "flush"} \cup PastLoop => word'[0] = 2
      BY <1>2, <3>2, WordChanges
    <3>4. 2 \in got[o] => pc[o] \in {"issue", "flush"} \cup PastLoop
      <4>1. pc[o] \in DOMAIN ObserverProgram \cup {"flush", "done"}
        BY DEF Typed, EveryoneInRole
      <4> QED
        BY <3>0, <4>1 DEF ObserverProgram, PastLoop
    <3>5. CASE UNCHANGED <<pc[o], got[o], late[o]>>
      BY <3>0, <3>2, <3>3, <3>4, <3>5
    <3>6. CASE /\ pc[o] \in {"alloc", "barrier1", "lock", "barrier2"}
               /\ pc'[o] \in {"barrier1", "lock", "barrier2", "issue"}
               /\ UNCHANGED <<got[o], late[o]>>
      BY <3>0, <3>6 DEF PastLoop
    <3>7. CASE /\ pc[o] = "issue" /\ pc'[o] = "flush" /\ got'[o] = {}
               /\ word'[0] = word[0]
               /\ late'[o] = IF word[0] = 2 THEN late[o] + 1 ELSE late[o]
      BY <3>0, <3>7 DEF PastLoop
    <3>8. CASE /\ pc[o] = "flush" /\ pc'[o] = "flush" /\ late'[o] = late[o]
               /\ word'[0] = word[0]
               /\ got'[o] = got[o] \cup {word[0]}
      BY <3>0, <3>2, <3>8 DEF PastLoop
    <3>9. CASE /\ pc[o] = "flush" /\ UNCHANGED <<got[o], late[o]>>
               /\ word'[0] = word[0]
               /\ \E v \in got[o] : pc'[o] = Verdict(v)
      <4>1. PICK v \in got[o] : pc'[o] = Verdict(v)
        BY <3>9
      <4>2. CASE v = 2
        BY <3>0, <3>9, <4>1, <4>2 DEF Verdict, PastLoop
      <4>3. CASE v = 1
        BY <3>0, <3>9, <4>1, <4>3 DEF Verdict, PastLoop
      <4> QED
        BY <3>0, <4>1, <4>2, <4>3
    <3>10. CASE /\ pc[o] \in PastLoop /\ pc'[o] \in PastLoop
                /\ UNCHANGED <<got[o], late[o]>>
      BY <3>0, <3>3, <3>10 DEF PastLoop
    <3> QED
      BY <1>2, <3>5, <3>6, <3>7, <3>8, <3>9, <3>10, ObserverView
  <2> QED
    BY <2>1, <2>2 DEF FlagInv, ValidationHolds, LateBatchIsLast, LeftAfterFall
<1> QED
  BY <1>1, <1>2

-----------------------------------------------------------------------------
(* Counting: the printed total is what rank 0's memory has seen.            *)

LEMMA Distributes == \A n, p \in Nat : (n + 1) * p = n * p + p /\ n * p \in Nat
OBVIOUS

ObserverCounted(o) ==
    /\ todo[o] <= PerRound
    /\ pc[o] # "flush" => todo[o] = 0
    /\ hits[o] = rounds[o] * PerRound
                  + (IF pc[o] = "flush" THEN PerRound - todo[o] ELSE 0)

LEMMA StepObserverCounted ==
    ASSUME Typed, Next, NEW o \in Observer, ObserverCounted(o)
    PROVE  ObserverCounted(o)'
<1>0. /\ pc \in [Rank -> Label] /\ todo \in [Rank -> Nat] /\ rounds \in [Rank -> Nat]
      /\ hits \in [Rank -> Nat]
      /\ o \in Rank /\ o \notin Main /\ PerRound \in Nat
  BY Roles DEF Typed, TypeOK
<1>1. ASSUME UNCHANGED <<todo[o], rounds[o], hits[o]>>, pc'[o] = pc[o] \/ (pc[o] # "flush" /\ pc'[o] # "flush")
      PROVE  ObserverCounted(o)'
  BY <1>1 DEF ObserverCounted
<1>2. ASSUME NEW r \in Rank, EnterCollective(r) PROVE ObserverCounted(o)'
  BY <1>1, <1>2 DEF EnterCollective
<1>3. ASSUME NEW r \in Rank, LeaveCollective(r) PROVE ObserverCounted(o)'
  <2>1. r = o => pc[o] # "flush" /\ pc'[o] # "flush"
    BY <1>0, <1>3 DEF LeaveCollective, Advance, Goto, CollectiveAt, Program, ObserverProgram
  <2>2. r # o => pc'[o] = pc[o]
    BY <1>0, <1>3 DEF LeaveCollective, Advance, Goto
  <2> QED
    BY <1>1, <1>3, <2>1, <2>2 DEF LeaveCollective
<1>4. ASSUME NEW m \in Main, MainStep(m) PROVE ObserverCounted(o)'
  <2>1. UNCHANGED <<pc[o], todo[o], rounds[o], hits[o]>>
    BY <1>0, <1>4 DEF MainStep, Publish, Kernel, Stop, Stopped, CancelRequest, data, Advance, Goto
  <2> QED
    BY <1>1, <2>1
<1>5. ASSUME NEW p \in Observer, ObserverStep(p), p # o PROVE ObserverCounted(o)'
  <2>1. UNCHANGED <<pc[o], todo[o], rounds[o], hits[o]>>
    BY <1>0, <1>5 DEF ObserverStep, Lock, Issue, Flush, Unlock, Advance, Goto
  <2> QED
    BY <1>1, <2>1
<1>6. ASSUME Lock(o) \/ Unlock(o) PROVE ObserverCounted(o)'
  <2>1. pc[o] # "flush" /\ pc'[o] # "flush"
    BY <1>0, <1>6 DEF Lock, Unlock, Advance, Goto, Program, ObserverProgram
  <2> QED
    BY <1>1, <1>6, <2>1 DEF Lock, Unlock
<1>7. ASSUME Issue(o) PROVE ObserverCounted(o)'
  <2>1. pc[o] = "issue" /\ pc'[o] = "flush" /\ todo'[o] = PerRound
    BY <1>0, <1>7 DEF Issue, Advance, Goto, Program, ObserverProgram
  <2> QED
    BY <1>0, <1>7, <2>1 DEF Issue, ObserverCounted
<1>8. ASSUME Flush(o) PROVE ObserverCounted(o)'
  <2>1. /\ pc[o] = "flush" /\ pc'[o] # "flush"
        /\ todo[o] = 0 /\ todo'[o] = 0
        /\ rounds'[o] = rounds[o] + 1 /\ hits'[o] = hits[o]
    BY <1>0, <1>8 DEF Flush, Goto, Verdict
  <2>2. rounds[o] \in Nat /\ (rounds[o] + 1) * PerRound = rounds[o] * PerRound + PerRound
    BY <1>0, Distributes
  <2>3. hits'[o] = (rounds[o] + 1) * PerRound
    BY <1>0, <2>1, <2>2 DEF ObserverCounted
  <2>4. rounds[o] * PerRound \in Nat
    BY <1>0, Distributes
  <2> QED
    BY <1>0, <2>1, <2>2, <2>3, <2>4 DEF ObserverCounted
<1>9. ASSUME NEW p \in Observer, Serve(p) PROVE ObserverCounted(o)'
  <2>1. CASE p = o
    <3>1. /\ pc[o] = "flush" /\ pc' = pc /\ rounds' = rounds /\ todo[o] > 0
          /\ todo'[o] = todo[o] - 1 /\ hits'[o] = hits[o] + 1
      BY <1>0, <1>9, <2>1 DEF Serve
    <3>2. rounds[o] * PerRound \in Nat /\ todo[o] \in Nat /\ hits[o] \in Nat
      BY <1>0, Distributes
    <3> QED
      BY <1>0, <3>1, <3>2 DEF ObserverCounted
  <2>2. CASE p # o
    <3>1. UNCHANGED <<pc[o], todo[o], rounds[o], hits[o]>>
      BY <1>0, <1>9, <2>2 DEF Serve
    <3> QED
      BY <1>1, <3>1
  <2> QED
    BY <2>1, <2>2
<1>10. ASSUME (\E m \in Main : Land(m)) \/ Finished PROVE ObserverCounted(o)'
  <2>1. UNCHANGED <<pc[o], todo[o], rounds[o], hits[o]>>
    BY <1>0, <1>10 DEF Land, Finished, vars
  <2> QED
    BY <1>1, <2>1
<1>11. \/ \E r \in Rank : EnterCollective(r) \/ LeaveCollective(r)
       \/ \E m \in Main : MainStep(m)
       \/ \E p \in Observer : ObserverStep(p) /\ p # o
       \/ Lock(o) \/ Issue(o) \/ Flush(o) \/ Unlock(o)
       \/ \E p \in Observer : Serve(p)
       \/ (\E m \in Main : Land(m)) \/ Finished
  BY DEF Next, RankStep, ObserverStep
<1> QED
  BY <1>2, <1>3, <1>4, <1>5, <1>6, <1>7, <1>8, <1>9, <1>10, <1>11

\* Once a rank has entered the reduction its count is final.
LEMMA ServedBeforeReduce ==
    ASSUME Typed, OnScript, NEW o \in Observer, Serve(o)
    PROVE  /\ Len(calls[o]) = 3
           /\ \A r \in Rank : pc[r] \notin {"free", "finalize", "done"}
<1>1. pc[o] = "flush" /\ o \in Rank
  BY Roles DEF Serve
<1>2. Len(calls[o]) = 3
  <2>1. /\ inside[o] => pc[o] \in DOMAIN CollectiveAt
        /\ Len(calls[o]) = Before[pc[o]] + (IF inside[o] THEN 1 ELSE 0)
    BY <1>1 DEF OnScript, EveryoneOnScript
  <2>2. "flush" \notin DOMAIN CollectiveAt /\ Before["flush"] = 3
    BY DEF CollectiveAt, Before
  <2> QED
    BY <1>1, <2>1, <2>2
<1>3. ASSUME NEW r \in Rank, pc[r] \in {"free", "finalize", "done"} PROVE FALSE
  <2>1. AllBefore(pc[r]) >= 4
    BY <1>3 DEF AllBefore, Before
  <2> QED
    BY <1>1, <2>1, OthersFollow
<1> QED
  BY <1>2, <1>3

LEMMA HitsChange ==
    ASSUME Next
    PROVE  hits' = hits \/ \E o \in Observer : Serve(o) /\ hits' = [hits EXCEPT ![o] = hits[o] + 1]
BY DEF Next, RankStep, EnterCollective, LeaveCollective, MainStep, Publish, Kernel, Stop,
       Stopped, CancelRequest, data, ObserverStep, Lock, Issue, Flush, Unlock, Serve,
       Land, Finished, vars

LEMMA StepCounted ==
    ASSUME Typed, OnScript, OperationsCounted, [Next]_vars
    PROVE  OperationsCounted'
<1>1. CASE UNCHANGED vars
  BY <1>1 DEF vars, OperationsCounted
<1>2. CASE Next
  <2>0. /\ pc \in [Rank -> Label] /\ hits \in [Rank -> Nat] /\ contrib \in [Rank -> Nat]
        /\ calls \in [Rank -> Seq(CollectiveKind)]
    BY DEF Typed, TypeOK
  <2>1. ASSUME NEW o \in Observer PROVE ObserverCounted(o)'
    BY <1>2, StepObserverCounted DEF OperationsCounted, ObserverCounted
  <2>2. hits' = hits \/ \E o \in Observer : Serve(o) /\ hits' = [hits EXCEPT ![o] = hits[o] + 1]
    BY <1>2, HitsChange
  <2>3. ASSUME NEW r \in Rank \ Observer PROVE hits'[r] = 0
    BY <2>0, <2>2 DEF OperationsCounted
  <2>4. ASSUME NEW r \in Rank, Len(calls'[r]) >= 5 PROVE contrib'[r] = hits'[r]
    <3>1. CASE \E o \in Observer : Serve(o) /\ hits' = [hits EXCEPT ![o] = hits[o] + 1]
      <4>1. PICK o \in Observer : Serve(o) /\ hits' = [hits EXCEPT ![o] = hits[o] + 1]
        BY <3>1
      <4>2. calls' = calls /\ contrib' = contrib /\ Len(calls[o]) = 3
        BY <4>1, ServedBeforeReduce DEF Serve
      <4>3. r # o /\ Len(calls[r]) >= 5
        <5>1. Len(calls[r]) >= 5
          BY <2>4, <4>2
        <5>2. ~(3 >= 5)
          OBVIOUS
        <5> QED
          BY <4>2, <5>1, <5>2
      <4>4. hits'[r] = hits[r] /\ contrib'[r] = hits[r]
        BY <2>0, <4>1, <4>2, <4>3 DEF OperationsCounted
      <4> QED
        BY <4>4
    <3>2. CASE hits' = hits
      <4>1. ASSUME EnterCollective(r) PROVE contrib'[r] = hits[r]
        <5>1. pc[r] \in DOMAIN CollectiveAt /\ Len(calls[r]) = Before[pc[r]]
          <6>1. pc[r] \in DOMAIN CollectiveAt /\ ~inside[r]
            BY <4>1 DEF EnterCollective, Enter
          <6>2. Len(calls[r]) = Before[pc[r]] + (IF inside[r] THEN 1 ELSE 0)
            BY DEF OnScript, EveryoneOnScript
          <6>3. Before[pc[r]] \in Nat
            BY <6>1 DEF Before, CollectiveAt
          <6> QED
            BY <6>1, <6>2, <6>3
        <5>2. Len(calls'[r]) = Len(calls[r]) + 1
          BY <2>0, <4>1 DEF EnterCollective, Enter
        <5>3. pc[r] \in {"reduce", "free", "finalize"}
          BY <2>4, <5>1, <5>2 DEF CollectiveAt, Before
        <5>4. CASE pc[r] = "reduce"
          <6>1. contrib'[r] = Contribution(r)
            BY <2>0, <4>1, <5>4 DEF EnterCollective
          <6>2. CASE r \in Observer
            <7>1. hits[r] = rounds[r] * PerRound + 0
              BY <5>4, <6>2 DEF OperationsCounted
            <7>2. rounds[r] * PerRound \in Nat
              BY Roles, Distributes DEF Typed, TypeOK
            <7> QED
              BY <6>1, <6>2, <7>1, <7>2 DEF Contribution
          <6>3. CASE r \notin Observer
            BY <6>1, <6>3 DEF Contribution, OperationsCounted
          <6> QED
            BY <6>2, <6>3
        <5>5. CASE pc[r] \in {"free", "finalize"}
          <6>1. Len(calls[r]) >= 5
            BY <5>1, <5>5 DEF Before
          <6>2. contrib' = contrib
            BY <4>1, <5>5 DEF EnterCollective
          <6> QED
            BY <6>1, <6>2 DEF OperationsCounted
        <5> QED
          BY <5>3, <5>4, <5>5
      <4>2. ASSUME ~EnterCollective(r) PROVE UNCHANGED <<calls[r], contrib[r]>>
        BY <1>2, <2>0, <4>2
        DEF Next, RankStep, EnterCollective, Enter, LeaveCollective, Leave, MainStep, Publish, Kernel,
            Stop, Stopped, CancelRequest, data, ObserverStep, Lock, Issue, Flush, Unlock, Serve,
            Land, Finished, vars
      <4> QED
        BY <2>4, <3>2, <4>1, <4>2 DEF OperationsCounted
    <3> QED
      BY <2>2, <3>1, <3>2
  <2> QED
    BY <2>1, <2>3, <2>4 DEF OperationsCounted, ObserverCounted
<1> QED
  BY <1>1, <1>2

LEMMA StepPrinted ==
    ASSUME Typed, OnScript, ValidationHolds, OperationsCounted, PrintedTotalIsExact, [Next]_vars
    PROVE  PrintedTotalIsExact'
<1>1. CASE UNCHANGED vars
  BY <1>1 DEF vars, PrintedTotalIsExact
<1>2. CASE Next
  <2>0. /\ pc \in [Rank -> Label] /\ Half \in Rank
        /\ hits \in [Rank -> Nat] /\ contrib \in [Rank -> Nat]
    BY Roles DEF Typed, TypeOK
  <2> SUFFICES ASSUME Half \in Observer, pc'[Half] \in {"free", "finalize", "done"}
               PROVE  total' = SumOf(hits')
    BY DEF PrintedTotalIsExact
  <2>1. ASSUME NEW o \in Observer, Serve(o) PROVE FALSE
    BY <2>0, <2>1, ServedBeforeReduce DEF Serve
  <2>2. hits' = hits
    BY <1>2, <2>1, HitsChange
  <2>3. CASE LeaveCollective(Half) /\ pc[Half] = "reduce"
    <3>1. AllEntered(Half) /\ total' = SumOf(contrib)
      BY <2>3 DEF LeaveCollective, Leave, CollectiveAt, Rooted
    <3>2. Len(calls[Half]) = 5
      <4>1. /\ inside[Half]
            /\ Len(calls[Half]) = Before[pc[Half]] + (IF inside[Half] THEN 1 ELSE 0)
        BY <2>0, <2>3 DEF LeaveCollective, Leave, OnScript, EveryoneOnScript
      <4> QED
        BY <2>3, <4>1 DEF Before
    <3>3. \A r \in Rank : contrib[r] = hits[r]
      BY <3>1, <3>2 DEF AllEntered, OperationsCounted
    <3>4. contrib = hits
      BY <2>0, <3>3
    <3> QED
      BY <2>2, <3>1, <3>4
  <2>4. CASE ~(LeaveCollective(Half) /\ pc[Half] = "reduce")
    <3>1. total' = total
      BY <1>2, <2>4
      DEF Next, RankStep, EnterCollective, LeaveCollective, MainStep, Publish, Kernel, Stop,
          Stopped, CancelRequest, data, ObserverStep, Lock, Issue, Flush, Unlock, Serve, Land,
          Finished, vars
    <3>2. pc[Half] \in {"free", "finalize", "done"}
      <4>1. ASSUME NEW r \in Rank, LeaveCollective(r) PROVE pc[Half] \in {"free", "finalize", "done"}
        <5>1. CASE r = Half
          <6>1. /\ pc[Half] \in DOMAIN CollectiveAt /\ pc[Half] # "reduce"
                /\ pc'[Half] = Program(Half)[pc[Half]]
            BY <2>0, <2>4, <4>1, <5>1 DEF LeaveCollective, Advance, Goto
          <6>2. Program(Half) = ObserverProgram
            BY Roles DEF Program
          <6> QED
            BY <6>1, <6>2 DEF CollectiveAt, ObserverProgram
        <5>2. CASE r # Half
          BY <2>0, <4>1, <5>2 DEF LeaveCollective, Advance, Goto
        <5> QED
          BY <5>1, <5>2
      <4>2. ASSUME NEW m \in Main, MainStep(m) PROVE pc'[Half] = pc[Half]
        BY <2>0, <4>2, Roles
        DEF MainStep, Publish, Kernel, Stop, Stopped, CancelRequest, Advance, Goto
      <4>3. ASSUME NEW o \in Observer, ObserverStep(o) PROVE pc'[Half] = pc[Half]
        <5>1. CASE o = Half /\ (Lock(o) \/ Issue(o) \/ Unlock(o))
          <6>1. Program(o) = ObserverProgram
            BY Roles DEF Program
          <6>2. pc[o] \in {"lock", "issue", "unlock"} /\ pc'[o] = Program(o)[pc[o]]
            BY <2>0, <5>1 DEF Lock, Issue, Unlock, Advance, Goto
          <6> QED
            BY <5>1, <6>1, <6>2 DEF ObserverProgram
        <5>2. CASE o # Half
          BY <2>0, <4>3, <5>2 DEF ObserverStep, Lock, Issue, Flush, Unlock, Advance, Goto
        <5>3. CASE o = Half /\ Flush(o)
          <6>1. PICK v \in {1, 2} : pc'[Half] = Verdict(v)
            BY <2>0, <5>3 DEF Flush, Arrived, Goto, ValidationHolds
          <6>2. Verdict(v) \in {"unlock", "issue"}
            BY DEF Verdict
          <6> QED
            BY <6>1, <6>2
        <5> QED
          BY <4>3, <5>1, <5>2, <5>3 DEF ObserverStep
      <4> QED
        BY <1>2, <4>1, <4>2, <4>3 DEF Next, RankStep, EnterCollective, Serve, Land, Finished, vars
    <3> QED
      BY <2>2, <3>1, <3>2 DEF PrintedTotalIsExact
  <2> QED
    BY <2>3, <2>4
<1> QED
  BY <1>1, <1>2

-----------------------------------------------------------------------------
(* Epochs, operations and requests are closed in time.                      *)

Held(r) ==
    /\ locked[r] => \/ r \in Main /\ pc[r] = "stopping"
                    \/ r \in Observer /\ pc[r] \in {"barrier2", "issue", "flush", "unlock"}
    /\ todo[r] > 0 => pc[r] \in {"stopping", "flush"}
    /\ request[r] => r \in Main /\ IntelProg /\ pc[r] \in
           {"barrier1", "barrier2", "kernel", "stop", "stopping", "barrier3", "cancel"}

LEMMA StepResources ==
    ASSUME Typed, ValidationHolds, ResourcesHeld, [Next]_vars
    PROVE  ResourcesHeld'
<1>1. CASE UNCHANGED vars
  BY <1>1 DEF vars, ResourcesHeld
<1>2. CASE Next
  <2> SUFFICES ASSUME NEW r \in Rank PROVE Held(r)'
    BY DEF ResourcesHeld, Held
  <2>0. /\ pc \in [Rank -> Label] /\ todo \in [Rank -> Nat] /\ request \in [Rank -> BOOLEAN]
        /\ locked \in [Rank -> BOOLEAN] /\ Held(r)
    BY DEF Typed, TypeOK, ResourcesHeld, Held
  <2>1. ASSUME UNCHANGED <<pc[r], locked[r], todo[r], request[r]>> PROVE Held(r)'
    BY <2>0, <2>1 DEF Held
  <2>2. ASSUME EnterCollective(r) PROVE Held(r)'
    BY <2>1, <2>2 DEF EnterCollective
  <2>3. ASSUME LeaveCollective(r) PROVE Held(r)'
    <3>1. /\ pc[r] \in DOMAIN CollectiveAt
          /\ pc'[r] = Program(r)[pc[r]]
          /\ UNCHANGED <<locked, todo, request>>
      BY <2>0, <2>3 DEF LeaveCollective, Advance, Goto
    <3>2. locked[r] => r \in Observer /\ pc[r] = "barrier2" /\ pc'[r] = "issue"
      BY <2>0, <3>1, Roles DEF Held, CollectiveAt, Program, ObserverProgram
    <3>3. todo[r] = 0
      BY <2>0, <3>1 DEF Held, CollectiveAt
    <3>4. request[r] => /\ r \in Main /\ IntelProg
                        /\ pc'[r] \in {"barrier2", "kernel", "cancel"}
      BY <2>0, <3>1 DEF Held, CollectiveAt, Program, MainProgram
    <3> QED
      BY <3>1, <3>2, <3>3, <3>4 DEF Held
  <2>4. ASSUME r \in Main, MainStep(r) PROVE Held(r)'
    <3>0. Program(r) = MainProgram /\ r \notin Observer
      BY <2>4, Roles DEF Program
    <3>1. CASE Publish(r)
      BY <2>0, <2>4, <3>0, <3>1, BuildAssumption DEF Publish, Advance, Goto, MainProgram, Held
    <3>2. CASE Kernel(r)
      BY <2>0, <2>4, <3>0, <3>2 DEF Kernel, data, Advance, Goto, MainProgram, Held
    <3>3. CASE Stop(r)
      BY <2>0, <2>4, <3>0, <3>3 DEF Stop, Advance, Goto, MainProgram, Held
    <3>4. CASE Stopped(r)
      BY <2>0, <2>4, <3>0, <3>4 DEF Stopped, Advance, Goto, MainProgram, Held
    <3>5. CASE CancelRequest(r)
      BY <2>0, <2>4, <3>0, <3>5 DEF CancelRequest, Advance, Goto, MainProgram, Held
    <3> QED
      BY <2>4, <3>1, <3>2, <3>3, <3>4, <3>5 DEF MainStep
  <2>5. ASSUME r \in Observer, ObserverStep(r) PROVE Held(r)'
    <3>0. Program(r) = ObserverProgram /\ r \notin Main
      BY <2>5, Roles DEF Program
    <3>1. CASE Lock(r)
      BY <2>0, <2>5, <3>0, <3>1 DEF Lock, Advance, Goto, ObserverProgram, Held
    <3>2. CASE Issue(r)
      BY <2>0, <2>5, <3>0, <3>2 DEF Issue, Advance, Goto, ObserverProgram, Held
    <3>3. CASE Flush(r)
      <4>1. PICK v \in {1, 2} : pc'[r] = Verdict(v)
        BY <2>0, <2>5, <3>3 DEF Flush, Arrived, Goto, ValidationHolds
      <4>2. Verdict(v) \in {"unlock", "issue"}
        BY DEF Verdict
      <4> QED
        BY <2>0, <2>5, <3>0, <3>3, <4>1, <4>2 DEF Flush, Held
    <3>4. CASE Unlock(r)
      BY <2>0, <2>5, <3>0, <3>4 DEF Unlock, Advance, Goto, ObserverProgram, Held
    <3> QED
      BY <2>5, <3>1, <3>2, <3>3, <3>4 DEF ObserverStep
  <2>6. ASSUME NEW o \in Observer, Serve(o) PROVE Held(r)'
    <3>1. CASE o = r
      BY <2>0, <2>6, <3>1 DEF Serve, Held
    <3>2. CASE o # r
      BY <2>0, <2>1, <2>6, <3>2 DEF Serve
    <3> QED
      BY <3>1, <3>2
  <2>7. ASSUME NEW m \in Main, Land(m) PROVE Held(r)'
    <3>1. CASE m = r
      BY <2>0, <2>7, <3>1 DEF Land, Held
    <3>2. CASE m # r
      BY <2>0, <2>1, <2>7, <3>2 DEF Land
    <3> QED
      BY <3>1, <3>2
  <2>8. ASSUME NEW s \in Rank, RankStep(s), s # r PROVE Held(r)'
    <3>1. UNCHANGED <<pc[r], locked[r], todo[r], request[r]>>
      BY <2>0, <2>8
      DEF RankStep, EnterCollective, LeaveCollective, MainStep, Publish, Kernel, Stop, Stopped,
          CancelRequest, data, ObserverStep, Lock, Issue, Flush, Unlock, Advance, Goto
    <3> QED
      BY <2>1, <3>1
  <2>9. ASSUME Finished PROVE Held(r)'
    BY <2>1, <2>9 DEF Finished, vars
  <2> QED
    BY <1>2, <2>2, <2>3, <2>4, <2>5, <2>6, <2>7, <2>8, <2>9 DEF Next, RankStep
<1> QED
  BY <1>1, <1>2

-----------------------------------------------------------------------------
(* The theorems.                                                            *)

LEMMA InitInv == ASSUME Init PROVE Inv
<1>1. EveryoneOnScript /\ BarriersHold
  BY DEF Init, EveryoneOnScript, BarriersHold, Before, AllBefore
<1>2. FlagArmed /\ ValidationHolds /\ LateBatchIsLast /\ LeftAfterFall
  BY Roles DEF Init, FlagArmed, ValidationHolds, LateBatchIsLast, LeftAfterFall, PastLoop
<1>3. OperationsCounted /\ ResourcesHeld
  BY Roles, Distributes DEF Init, OperationsCounted, ResourcesHeld
<1>4. PrintedTotalIsExact
  BY Roles DEF Init, PrintedTotalIsExact
<1> QED
  BY <1>1, <1>2, <1>3, <1>4, InitTyped DEF Inv, Typed

LEMMA StepInv == ASSUME Inv, [Next]_vars PROVE Inv'
<1>1. Typed /\ OnScript /\ FlagInv
  BY DEF Inv, Typed, OnScript, FlagInv
<1>2. Typed' /\ OnScript' /\ FlagInv'
  BY <1>1, StepTyped, StepOnScript, StepFlag DEF Inv
<1>3. OperationsCounted' /\ PrintedTotalIsExact' /\ ResourcesHeld'
  BY <1>1, StepCounted, StepPrinted, StepResources DEF Inv
<1> QED
  BY <1>2, <1>3 DEF Inv, Typed, OnScript, FlagInv

\* The inductive invariant holds in every reachable state.
THEOREM Invariance == Spec => []Inv
<1>1. Init => Inv
  BY InitInv
<1>2. Inv /\ [Next]_vars => Inv'
  BY StepInv
<1> QED
  BY <1>1, <1>2, PTL DEF Spec, Safety

\* Every variable keeps its type, whatever the number of ranks.
THEOREM TypeCorrectness == Spec => []TypeOK
<1>1. Inv => TypeOK
  BY DEF Inv
<1> QED
  BY <1>1, Invariance, PTL

\* main.c:18: whatever its role, a rank calls the same collectives in the same
\* order as all the others.
THEOREM CollectivesAlwaysMatch == Spec => []CollectivesMatch
<1>1. Inv => CollectivesMatch
  BY DEF Inv, EveryoneOnScript, CollectivesMatch
<1> QED
  BY <1>1, Invariance, PTL

\* observer.c:149: no observer ever fetches anything but 1 and 2.
THEOREM ValidationAlwaysHolds == Spec => []ValidationHolds
<1>1. Inv => ValidationHolds
  BY DEF Inv
<1> QED
  BY <1>1, Invariance, PTL

\* observer.c:144: at most one batch is started after the flag has fallen.
THEOREM OverrunIsBounded == Spec => []OverrunAtMostOneBatch
<1>1. Inv => OverrunAtMostOneBatch
  BY DEF Inv, LateBatchIsLast, OverrunAtMostOneBatch
<1> QED
  BY <1>1, Invariance, PTL

\* observer.c:163-172: the printed total counts every served operation once.
THEOREM TotalIsExact == Spec => []PrintedTotalIsExact
<1>1. Inv => PrintedTotalIsExact
  BY DEF Inv
<1> QED
  BY <1>1, Invariance, PTL

\* main.c:102: no epoch, request or operation is open when the window goes.
THEOREM TeardownIsClean == Spec => []CleanTeardown
<1>1. Inv => CleanTeardown
  <2> SUFFICES ASSUME Inv, NEW r \in Rank PROVE
        /\ pc[r] = "free" => ~locked[r] /\ ~request[r]
        /\ pc[r] \in {"finalize", "done"} => \A s \in Rank : todo[s] = 0
    BY DEF CleanTeardown
  <2>1. pc[r] = "free" => ~locked[r] /\ ~request[r]
    BY DEF Inv, ResourcesHeld
  <2>2. ASSUME pc[r] \in {"finalize", "done"}, NEW s \in Rank PROVE todo[s] = 0
    <3>1. AllBefore(pc[r]) >= 6
      BY <2>2 DEF AllBefore, Before
    <3>2. pc[s] \in {"free", "finalize", "done"}
      BY <3>1, OthersFollow DEF Inv, Typed, OnScript
    <3>3. todo[s] \in Nat /\ ~(todo[s] > 0)
      BY <3>2 DEF Inv, TypeOK, ResourcesHeld
    <3> QED
      BY <3>3
  <2> QED
    BY <2>1, <2>2
<1> QED
  BY <1>1, Invariance, PTL

\* observer.c:57-70: an operation of an observer leaves word 0 as it was.
THEOREM ObserversNeverWrite == Spec => ObserversOnlyLook
<1>1. Inv /\ [Next]_vars => [\A o \in Observer : hits'[o] # hits[o] => word' = word]_vars
  <2> SUFFICES ASSUME Inv, Next, NEW o \in Observer, hits'[o] # hits[o] PROVE word' = word
    OBVIOUS
  <2>1. PICK p \in Observer : Serve(p)
    BY HitsChange
  <2>2. word \in [Main -> Nat] /\ Result(word[0]) = word[0]
    BY Roles, ResultIsOld, CountersTyped DEF Inv, Typed
  <2> QED
    BY <2>1, <2>2, Roles DEF Serve
<1> QED
  BY <1>1, Invariance, PTL DEF Spec, Safety, ObserversOnlyLook

-----------------------------------------------------------------------------
(* The benchmark implements the stop flag.                                  *)

SameFlag == Phase' = Phase /\ \A o \in Observer : Watching(o)' = Watching(o)

LEMMA SameFlagStutters == ASSUME SameFlag PROVE UNCHANGED Flag!flagVars
BY DEF SameFlag, Flag!flagVars

\* What the flag sees of a rank that moves from one label to another.
LEMMA MoveSeen ==
    ASSUME Typed, NEW r \in Rank, NEW l \in Label, pc' = [pc EXCEPT ![r] = l], word'[0] = word[0],
           r = 0 => (pc[0] \in {"alloc", "publish"} <=> l \in {"alloc", "publish"}),
           r \in Observer =>
               /\ pc[r] \in {"alloc", "barrier1", "lock", "barrier2"}
                        <=> l \in {"alloc", "barrier1", "lock", "barrier2"}
               /\ pc[r] \in {"issue", "flush"} <=> l \in {"issue", "flush"}
    PROVE  SameFlag
<1>1. pc \in [Rank -> Label] /\ 0 \in Rank /\ Observer \subseteq Rank
  BY Roles DEF Typed, TypeOK
<1>2. Phase' = Phase
  BY <1>1 DEF Phase
<1>3. ASSUME NEW o \in Observer PROVE Watching(o)' = Watching(o)
  BY <1>1 DEF Watching
<1> QED
  BY <1>2, <1>3 DEF SameFlag

LEMMA LeaveSeen ==
    ASSUME Typed, OnScript, NEW r \in Rank, LeaveCollective(r)
    PROVE  SameFlag \/ (r \in Observer /\ Flag!Join(r))
<1>0. /\ pc \in [Rank -> Label] /\ 0 \in Main /\ 0 \in Rank /\ Observer \subseteq Rank
      /\ word' = word
      /\ pc[r] \in DOMAIN CollectiveAt
      /\ pc' = [pc EXCEPT ![r] = Program(r)[pc[r]]]
  BY Roles DEF Typed, TypeOK, LeaveCollective, Advance, Goto
<1>1. Program(r)[pc[r]] \in Label
  BY <1>0, OnProgram, ProgramsLead
<1>2. CASE r \in Observer /\ pc[r] = "barrier2"
  <2>0. r # 0 /\ Program(r)[pc[r]] = "issue"
    BY <1>2, Roles DEF Program, ObserverProgram
  <2>1. AllEntered(r) /\ inside[r]
    BY <1>2 DEF LeaveCollective, Leave, CollectiveAt, Synchronising
  <2>2. Len(calls[r]) = 3
    <3>1. Len(calls[r]) = Before[pc[r]] + (IF inside[r] THEN 1 ELSE 0)
      BY DEF OnScript, EveryoneOnScript
    <3> QED
      BY <1>2, <2>1, <3>1 DEF Before
  <2>3. Len(calls[0]) >= 3
    BY <1>0, <2>1, <2>2 DEF AllEntered
  <2>4. /\ Len(calls[0]) = Before[pc[0]] + (IF inside[0] THEN 1 ELSE 0)
        /\ inside[0] => pc[0] \in DOMAIN CollectiveAt
    BY <1>0 DEF OnScript, EveryoneOnScript
  <2>5. pc[0] \notin {"alloc", "publish"}
    BY <2>3, <2>4 DEF Before, CollectiveAt
  <2>6. Phase # "setup" /\ Phase' = Phase
    BY <1>0, <2>0, <2>5 DEF Phase
  <2>7. Watching(r) = "out" /\ Watching(r)' = "watching"
    BY <1>0, <1>2, <2>0 DEF Watching
  <2>8. \A o \in Observer : o # r => Watching(o)' = Watching(o)
    BY <1>0 DEF Watching
  <2>9. [o \in Observer |-> Watching(o)]'
          = [[o \in Observer |-> Watching(o)] EXCEPT ![r] = "watching"]
    BY <1>2, <2>7, <2>8
  <2> QED
    BY <1>2, <2>6, <2>7, <2>9 DEF Flag!Join
<1>3. CASE ~(r \in Observer /\ pc[r] = "barrier2")
  <2>1. r = 0 => (pc[0] \in {"alloc", "publish"} <=> Program(r)[pc[r]] \in {"alloc", "publish"})
    BY <1>0 DEF CollectiveAt, Program, MainProgram
  <2>2. ASSUME r \in Observer
        PROVE  /\ pc[r] \in {"alloc", "barrier1", "lock", "barrier2"}
                     <=> Program(r)[pc[r]] \in {"alloc", "barrier1", "lock", "barrier2"}
               /\ pc[r] \in {"issue", "flush"} <=> Program(r)[pc[r]] \in {"issue", "flush"}
    BY <1>0, <1>3, <2>2, Roles DEF CollectiveAt, Program, ObserverProgram
  <2> QED
    BY <1>0, <1>1, <2>1, <2>2, MoveSeen
<1> QED
  BY <1>2, <1>3

LEMMA MainSeen ==
    ASSUME Inv, NEW m \in Main, MainStep(m)
    PROVE  SameFlag \/ Flag!Arm
<1>0. /\ pc \in [Rank -> Label] /\ word \in [Main -> Nat] /\ 0 \in Main /\ m \in Rank
      /\ m \notin Observer /\ Program(m) = MainProgram /\ 0 \in Rank /\ 0 \notin Observer
  BY Roles DEF Inv, TypeOK, Program
<1>1. CASE Publish(0) /\ m = 0
  <2>1. /\ pc[0] = "publish" /\ word'[0] = 1
        /\ pc' = [pc EXCEPT ![0] = "barrier1"]
    <3>1. pc[0] = "publish" /\ word' = [word EXCEPT ![0] = 1] /\ pc' = [pc EXCEPT ![0] = MainProgram[pc[0]]]
      BY <1>0, <1>1 DEF Publish, Advance, Goto
    <3>2. MainProgram["publish"] = "barrier1"
      BY DEF MainProgram
    <3> QED
      BY <1>0, <3>1, <3>2
  <2>2. Phase = "setup" /\ Phase' = "running"
    BY <1>0, <2>1 DEF Phase
  <2>3. \A o \in Observer : Watching(o)' = Watching(o)
    BY <1>0, <2>1, Roles DEF Watching
  <2> QED
    BY <2>2, <2>3 DEF Flag!Arm
<1>2. CASE ~(Publish(0) /\ m = 0)
  <2>1. word'[0] = word[0] /\ pc' = [pc EXCEPT ![m] = MainProgram[pc[m]]]
    BY <1>0, <1>2 DEF MainStep, Publish, Kernel, Stop, Stopped, CancelRequest, data, Advance, Goto
  <2>2. m = 0 => pc[m] \in {"kernel", "stop", "stopping", "cancel"}
    BY <1>2 DEF MainStep, Publish, Kernel, Stop, Stopped, CancelRequest
  <2>3. pc[m] \in {"publish", "kernel", "stop", "stopping", "cancel"}
    BY DEF MainStep, Publish, Kernel, Stop, Stopped, CancelRequest
  <2>4. MainProgram[pc[m]] \in Label
        /\ (m = 0 => (pc[0] \in {"alloc", "publish"} <=> MainProgram[pc[m]] \in {"alloc", "publish"}))
    BY <2>2, <2>3 DEF MainProgram, Label
  <2> QED
    BY <1>0, <2>1, <2>4, MoveSeen DEF Inv, Typed
<1> QED
  BY <1>1, <1>2

LEMMA ObserverSeen ==
    ASSUME Inv, NEW r \in Observer, ObserverStep(r)
    PROVE  SameFlag \/ Flag!Quit(r)
<1>0. /\ pc \in [Rank -> Label] /\ 0 \in Rank /\ r \in Rank /\ r # 0 /\ Observer \subseteq Rank
      /\ Program(r) = ObserverProgram /\ Typed
  BY Roles DEF Inv, TypeOK, Program, Typed
<1>1. word' = word
  BY DEF ObserverStep, Lock, Issue, Flush, Unlock
<1>2. CASE Lock(r) \/ Issue(r) \/ Unlock(r)
  <2>1. pc[r] \in {"lock", "issue", "unlock"} /\ pc' = [pc EXCEPT ![r] = ObserverProgram[pc[r]]]
    BY <1>0, <1>2 DEF Lock, Issue, Unlock, Advance, Goto
  <2>2. /\ ObserverProgram[pc[r]] \in Label
        /\ pc[r] \in {"alloc", "barrier1", "lock", "barrier2"}
             <=> ObserverProgram[pc[r]] \in {"alloc", "barrier1", "lock", "barrier2"}
        /\ pc[r] \in {"issue", "flush"} <=> ObserverProgram[pc[r]] \in {"issue", "flush"}
    BY <2>1 DEF ObserverProgram, Label
  <2> QED
    BY <1>0, <1>1, <2>1, <2>2, MoveSeen
<1>3. CASE Flush(r)
  <2>1. PICK v \in got[r] : pc' = [pc EXCEPT ![r] = Verdict(v)]
    BY <1>3 DEF Flush, Arrived, Goto
  <2>2. v \in {1, 2} /\ pc[r] = "flush"
    BY <1>3 DEF Inv, ValidationHolds, Flush
  <2>3. CASE v = 1
    <3>1. Verdict(v) = "issue" /\ "issue" \in Label
      BY <2>3 DEF Verdict, Label
    <3> QED
      BY <1>0, <1>1, <2>1, <2>2, <3>1, MoveSeen
  <2>4. CASE v = 2
    <3>1. Verdict(v) = "unlock"
      BY <2>4 DEF Verdict
    <3>2. word[0] = 2
      BY <2>1, <2>4 DEF Inv, LeftAfterFall
    <3>3. pc[0] \notin {"alloc", "publish"} /\ pc'[0] = pc[0]
      BY <1>0, <2>1, <2>2, ObserverInLoop DEF Inv, OnScript
    <3>4. Phase = "stopped" /\ Phase' = Phase
      BY <1>1, <3>2, <3>3 DEF Phase
    <3>5. Watching(r) = "watching" /\ Watching(r)' = "left"
      BY <1>0, <2>1, <2>2, <3>1 DEF Watching
    <3>6. \A o \in Observer : o # r => Watching(o)' = Watching(o)
      BY <1>0, <2>1 DEF Watching
    <3>7. [o \in Observer |-> Watching(o)]'
            = [[o \in Observer |-> Watching(o)] EXCEPT ![r] = "left"]
      BY <3>5, <3>6
    <3> QED
      BY <3>4, <3>5, <3>7 DEF Flag!Quit
  <2> QED
    BY <2>2, <2>3, <2>4
<1> QED
  BY <1>2, <1>3 DEF ObserverStep

LEMMA LandSeen ==
    ASSUME Inv, NEW m \in Main, Land(m)
    PROVE  SameFlag \/ Flag!Fall
<1>0. /\ word \in [Main -> Nat] /\ m \in Rank /\ 0 \in Rank /\ 0 \in Main /\ pc[m] = "stopping"
      /\ pc' = pc /\ word'[0] = 2
  BY Roles DEF Inv, TypeOK, Land
<1>1. AllBefore(pc[m]) >= 3
  BY <1>0 DEF AllBefore, Before
<1>2. pc[0] \notin {"alloc", "publish"}
  BY <1>0, <1>1, OthersFollow DEF Inv, Typed, OnScript
<1>3. Phase' = "stopped" /\ Phase \in {"running", "stopped"}
  BY <1>0, <1>2 DEF Phase
<1>4. \A o \in Observer : Watching(o)' = Watching(o)
  BY <1>0 DEF Watching
<1> QED
  BY <1>3, <1>4 DEF SameFlag, Flag!Fall

LEMMA StepSeen ==
    ASSUME Inv, [Next]_vars
    PROVE  [Flag!FlagNext]_Flag!flagVars
<1>0. Typed /\ OnScript
  BY DEF Inv, Typed, OnScript
<1>1. ASSUME UNCHANGED <<pc, word>> PROVE SameFlag
  BY <1>1 DEF SameFlag, Phase, Watching
<1>2. ASSUME NEW r \in Rank, RankStep(r) PROVE SameFlag \/ Flag!FlagNext
  <2>1. CASE EnterCollective(r)
    BY <1>1, <2>1 DEF EnterCollective
  <2>2. CASE LeaveCollective(r)
    BY <1>0, <2>2, LeaveSeen DEF Flag!FlagNext
  <2>3. CASE r \in Main /\ MainStep(r)
    BY <2>3, MainSeen DEF Flag!FlagNext
  <2>4. CASE r \in Observer /\ ObserverStep(r)
    BY <2>4, ObserverSeen DEF Flag!FlagNext
  <2> QED
    BY <1>2, <2>1, <2>2, <2>3, <2>4 DEF RankStep
<1>3. ASSUME NEW o \in Observer, Serve(o) PROVE SameFlag
  <2>1. word \in [Main -> Nat] /\ Result(word[0]) = word[0]
    BY <1>0, Roles, ResultIsOld, CountersTyped
  <2>2. pc' = pc /\ word' = word
    BY <1>3, <2>1, Roles DEF Serve
  <2> QED
    BY <1>1, <2>2
<1>4. ASSUME NEW m \in Main, Land(m) PROVE SameFlag \/ Flag!FlagNext
  BY <1>4, LandSeen DEF Flag!FlagNext
<1>5. ASSUME Finished \/ UNCHANGED vars PROVE SameFlag
  BY <1>1, <1>5 DEF Finished, vars
<1>6. SameFlag \/ Flag!FlagNext
  BY <1>2, <1>3, <1>4, <1>5 DEF Next
<1> QED
  BY <1>6, SameFlagStutters

\* Seen from rank 0's word and the observers' places, the benchmark is a flag
\* that is armed once and falls once, with watchers that join after it was
\* armed and leave after it fell.
THEOREM ImplementsFlagSafety == Spec => Flag!FlagSafety
<1>1. Init => Flag!FlagInit
  BY Roles DEF Init, Flag!FlagInit, Phase, Watching
<1>2. Inv /\ [Next]_vars => [Flag!FlagNext]_Flag!flagVars
  BY StepSeen
<1> QED
  BY <1>1, <1>2, Invariance, PTL DEF Spec, Safety, Flag!FlagSafety

-----------------------------------------------------------------------------
(* With one main rank the whole task is observed (with more it is not).     *)

UpToStop == {"barrier1", "barrier2", "kernel", "stop"}

FlagUpDuringTask == pc[0] \in UpToStop => word[0] = 1

LEMMA StepFlagUp ==
    ASSUME NumMain = 1, Inv, FlagUpDuringTask, [Next]_vars
    PROVE  FlagUpDuringTask'
<1>0. /\ pc \in [Rank -> Label] /\ word \in [Main -> Nat] /\ Main = {0}
      /\ 0 \in Rank /\ 0 \notin Observer /\ Program(0) = MainProgram /\ Typed
  <2>1. Main = {0}
    BY Roles, \A r \in Nat : r < 1 => r = 0 DEF Main
  <2> QED
    BY <2>1, Roles DEF Inv, TypeOK, Typed, Program
<1>1. CASE UNCHANGED vars
  BY <1>1 DEF vars, FlagUpDuringTask
<1>2. CASE Next
  <2>1. CASE Publish(0)
    BY <1>0, <2>1 DEF Publish, FlagUpDuringTask
  <2>2. CASE Land(0)
    BY <1>0, <2>2 DEF Land, FlagUpDuringTask, UpToStop
  <2>3. CASE ~Publish(0) /\ ~Land(0)
    <3>1. word'[0] = word[0]
      BY <1>0, <1>2, <2>3, WordChanges
    <3>2. ASSUME NEW r \in Rank, LeaveCollective(r)
          PROVE  pc'[0] \in UpToStop => pc[0] \in UpToStop
      <4>1. pc'[0] = pc[0] \/ (pc[0] \in DOMAIN CollectiveAt /\ pc'[0] = MainProgram[pc[0]])
        BY <1>0, <3>2 DEF LeaveCollective, Advance, Goto
      <4> QED
        BY <4>1 DEF CollectiveAt, MainProgram, UpToStop
    <3>3. ASSUME MainStep(0)
          PROVE  pc'[0] \in UpToStop => pc[0] \in UpToStop
      <4>1. pc[0] \in {"kernel", "stop", "stopping", "cancel"} /\ pc'[0] = MainProgram[pc[0]]
        BY <1>0, <2>3, <3>3 DEF MainStep, Kernel, Stop, Stopped, CancelRequest, Advance, Goto
      <4> QED
        BY <4>1 DEF MainProgram, UpToStop
    <3>4. ASSUME NEW o \in Observer, ObserverStep(o) PROVE pc'[0] = pc[0]
      BY <1>0, <3>4, Roles DEF ObserverStep, Lock, Issue, Flush, Unlock, Advance, Goto
    <3>5. pc'[0] \in UpToStop => pc[0] \in UpToStop
      BY <1>0, <1>2, <3>2, <3>3, <3>4
      DEF Next, RankStep, EnterCollective, Serve, Land, Finished, vars
    <3> QED
      BY <3>1, <3>5 DEF FlagUpDuringTask
  <2> QED
    BY <2>1, <2>2, <2>3
<1> QED
  BY <1>1, <1>2

\* README.md:18: with a single main rank no observer leaves its loop before the
\* task is over.
THEOREM SingleTaskObserved == ASSUME NumMain = 1 PROVE Spec => []TaskObserved
<1>1. Init => FlagUpDuringTask
  BY Roles DEF Init, FlagUpDuringTask, UpToStop
<1>2. Inv /\ FlagUpDuringTask /\ [Next]_vars => FlagUpDuringTask'
  BY StepFlagUp
<1>3. Inv /\ FlagUpDuringTask => TaskObserved
  <2> SUFFICES ASSUME Inv, FlagUpDuringTask, NEW m \in Main, NEW o \in Observer,
                      pc[m] = "kernel", pc[o] \in PastLoop
               PROVE  FALSE
    BY DEF TaskObserved
  <2>1. m = 0
    BY DEF Main, Rank
  <2> QED
    BY <2>1 DEF Inv, LeftAfterFall, FlagUpDuringTask, UpToStop
<1> QED
  BY <1>1, <1>2, <1>3, Invariance, PTL DEF Spec, Safety
=============================================================================
