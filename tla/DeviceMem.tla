------------------------------ MODULE DeviceMem ------------------------------
(***************************************************************************)
(* device-mem/main.c: every rank but 0 times puts and gets between its     *)
(* host or device buffer and the host or device window of rank 0, one      *)
(* section of the program after the other, and prints a line per section.  *)
(*                                                                         *)
(* A section starts ITERATIONS transfers and then flushes a window; its    *)
(* transfers are taken together here: they are under way until the last    *)
(* one is done.  Durations are not modelled, only what they should cover.  *)
(*                                                                         *)
(* The prefix D is on the names that other programs have too, so that      *)
(* one module can state theorems about both.                               *)
(***************************************************************************)
EXTENDS MPIWorld

CONSTANT Failing    \* the ranks whose omp_target_alloc may return NULL

ASSUME FailingAssumption == Failing \subseteq Rank

\* The sections in program order: local memory, remote window, operation,
\* and the window that the section flushes before it reads the clock.  Two
\* strided gets into device memory are disabled: they only print a zero.
Transfer(local, remote, op, flushed) ==
    [local |-> local, remote |-> remote, op |-> op, flushed |-> flushed]

Disabled(local, remote) == Transfer(local, remote, "none", remote)

DSections ==
    << Transfer("H", "H", "get", "H"), Transfer("H", "H", "get", "H"),
       Transfer("H", "H", "put", "H"), Transfer("H", "H", "put", "H"),
       Transfer("H", "D", "get", "D"), Transfer("H", "D", "get", "H"),
       Transfer("H", "D", "put", "D"), Transfer("H", "D", "put", "H"),
       Transfer("D", "H", "get", "H"), Disabled("D", "H"),
       Transfer("D", "H", "put", "H"), Transfer("D", "H", "put", "H"),
       Transfer("D", "D", "get", "D"), Disabled("D", "D"),
       Transfer("D", "D", "put", "D"), Transfer("D", "D", "put", "H") >>

SectionId == 1 .. Len(DSections)

\* Puts go through two states that an origin can wait for.
Flight == {"idle", "issued", "sent", "done"}

VARIABLES
    section,  \* section[r]: section that rank r is in
    flight,   \* flight[r][s]: the transfers of r's section s
    held,     \* held[r]: the windows on which r holds the shared lock of rank 0
    early     \* history: sections of r whose line has come before their last transfer

dvars == <<pc, inside, calls, section, flight, held, early>>

-----------------------------------------------------------------------------
DCollectiveAt == [create1 |-> "win_create", create2 |-> "win_create",
                  barrier |-> "barrier", finalize |-> "finalize"]

\* What follows each label; rank 0 only serves.
DSource(r) ==
    [create1 |-> "create2", create2 |-> IF r = 0 THEN "barrier" ELSE "lock",
     lock |-> "start", unlock |-> "barrier", barrier |-> "finalize",
     finalize |-> "done"]

DProgram(r) == DSource(r)

DAdvance(r) == Goto(r, DProgram(r)[pc[r]])

DInit ==
    /\ pc = [r \in Rank |-> "alloc"]
    /\ inside = [r \in Rank |-> FALSE]
    /\ calls = [r \in Rank |-> <<>>]
    /\ section = [r \in Rank |-> 1]
    /\ flight = [r \in Rank |-> [s \in SectionId |-> "idle"]]
    /\ held = [r \in Rank |-> {}]
    /\ early = [r \in Rank |-> {}]

-----------------------------------------------------------------------------
AllocSucceeds(r) ==
    /\ pc[r] = "alloc"
    /\ Goto(r, "create1")
    /\ UNCHANGED <<inside, calls, section, flight, held, early>>

\* A check for the device memory that comes only after the windows (faulty).
AllocFailsLate(r) ==
    /\ pc[r] = "lock"
    /\ r \in Failing
    /\ Goto(r, "exited")
    /\ UNCHANGED <<inside, calls, section, flight, held, early>>

\* A process that gets no device memory leaves by exit(1), without telling
\* the others.
AllocFails(r) ==
    /\ pc[r] = "alloc"
    /\ r \in Failing
    /\ Goto(r, "exited")
    /\ UNCHANGED <<inside, calls, section, flight, held, early>>

DEnterCollective(r) ==
    /\ pc[r] \in DOMAIN DCollectiveAt
    /\ Enter(r, DCollectiveAt[pc[r]])
    /\ UNCHANGED <<pc, section, flight, held, early>>

DLeaveCollective(r) ==
    /\ pc[r] \in DOMAIN DCollectiveAt
    /\ Leave(r, DCollectiveAt[pc[r]], 0)
    /\ DAdvance(r)
    /\ UNCHANGED <<section, flight, held, early>>

Lock(r) ==
    /\ pc[r] = "lock"
    /\ held' = [held EXCEPT ![r] = {"H", "D"}]
    /\ DAdvance(r)
    /\ UNCHANGED <<inside, calls, section, flight, early>>

\* Start the transfers of the section, or, in a disabled one, only print.
Start(r) ==
    /\ pc[r] = "start"
    /\ IF DSections[section[r]].op = "none"
         THEN /\ section' = [section EXCEPT ![r] = @ + 1]
              /\ UNCHANGED <<pc, flight>>
         ELSE /\ flight' = [flight EXCEPT ![r][section[r]] = "issued"]
              /\ Goto(r, "flush")
              /\ UNCHANGED section
    /\ UNCHANGED <<inside, calls, held, early>>

\* A flush that is local after puts as well (faulty).
EnoughLocally(op) == {"idle", "sent", "done"}

\* How far a flush brings the transfers of its window: gets are followed by
\* MPI_Win_flush_local, puts by MPI_Win_flush.
Enough(op) == IF op = "get" THEN {"idle", "sent", "done"} ELSE {"idle", "done"}

\* No unlock after the last section (faulty).
AfterSectionNoUnlock(n) == IF n = Len(DSections) THEN "barrier" ELSE "start"

\* What follows section n.
AfterSection(n) == IF n = Len(DSections) THEN "unlock" ELSE "start"

\* Flush, read the clock, print the section's line.
Flush(r) ==
    LET s == DSections[section[r]]
    IN  /\ pc[r] = "flush"
        /\ \A t \in SectionId :
              DSections[t].remote = s.flushed => flight[r][t] \in Enough(s.op)
        /\ early' = [early EXCEPT ![r] =
                        IF flight[r][section[r]] # "done" THEN @ \cup {section[r]} ELSE @]
        /\ section' = [section EXCEPT ![r] = @ + 1]
        /\ Goto(r, AfterSection(section[r]))
        /\ UNCHANGED <<inside, calls, flight, held>>

\* Both unlocks, each of which completes what is under way on its window.
Unlock(r) ==
    /\ pc[r] = "unlock"
    /\ \A t \in SectionId : flight[r][t] \in {"idle", "done"}
    /\ held' = [held EXCEPT ![r] = {}]
    /\ DAdvance(r)
    /\ UNCHANGED <<inside, calls, section, flight, early>>

\* The library has taken the data of a put from r's buffer.
Send(r, t) ==
    /\ flight[r][t] = "issued"
    /\ DSections[t].op = "put"
    /\ flight' = [flight EXCEPT ![r][t] = "sent"]
    /\ UNCHANGED <<pc, inside, calls, section, held, early>>

\* The data of a put has arrived in rank 0's memory, or that of a get in r's.
Complete(r, t) ==
    /\ flight[r][t] = IF DSections[t].op = "put" THEN "sent" ELSE "issued"
    /\ flight' = [flight EXCEPT ![r][t] = "done"]
    /\ UNCHANGED <<pc, inside, calls, section, held, early>>

-----------------------------------------------------------------------------
SectionStep(r) == Lock(r) \/ Start(r) \/ Flush(r) \/ Unlock(r)

DRankStep(r) ==
    \/ AllocSucceeds(r)
    \/ AllocFails(r)
    \/ DEnterCollective(r)
    \/ DLeaveCollective(r)
    \/ SectionStep(r)

Transfers(r) == \E t \in SectionId : Send(r, t) \/ Complete(r, t)

SomeoneExited == \E r \in Rank : pc[r] = "exited"

\* The job has ended, or hangs without a rank that has given up.
DFinished == (AllDone \/ SomeoneExited) /\ UNCHANGED dvars

DNext ==
    \/ \E r \in Rank : DRankStep(r) \/ Transfers(r)
    \/ DFinished

DSpec == DInit /\ [][DNext]_dvars

-----------------------------------------------------------------------------
DLabel == {"alloc", "exited", "create1", "create2", "lock", "start", "flush",
           "unlock", "barrier", "finalize", "done"}

DTypeOK ==
    /\ pc \in [Rank -> DLabel]
    /\ inside \in [Rank -> BOOLEAN]
    /\ calls \in [Rank -> Seq(CollectiveKind)]
    /\ section \in [Rank -> 1 .. Len(DSections) + 1]
    /\ \A r \in Rank : pc[r] \in {"start", "flush"} => section[r] \in SectionId
    /\ flight \in [Rank -> [SectionId -> Flight]]
    /\ held \in [Rank -> SUBSET {"H", "D"}]
    /\ early \in [Rank -> SUBSET SectionId]

\* main.c:129, 146, 216: a section that flushes the wrong window spoils its own
\* line only: whatever is still under way from it, no later section reads the
\* clock too early because of it.
OnlyMisflushedEarly ==
    \A r \in Rank : \A s \in early[r] : DSections[s].flushed # DSections[s].remote

\* main.c:70, 219-227: rank 0, which makes one call only and never waits for a
\* transfer itself, does not leave before every transfer of every rank is
\* over and every epoch on its memory closed.
TargetLeavesLast ==
    pc[0] \in {"finalize", "done"} =>
        \A r \in Rank : held[r] = {} /\ \A t \in SectionId : flight[r][t] \in {"idle", "done"}

\* main.c:57-65: no rank measures anything if one of them has no device memory.
NoHalfResults == SomeoneExited => \A r \in Rank : pc[r] \notin {"start", "flush"}
=============================================================================
