------------------------ MODULE BenchmarkSuiteProofs ------------------------
(***************************************************************************)
(* The benchmarks as they run: the inductive invariant of BenchmarkSuite,  *)
(* and the theorems that follow from it.  The course of a rank, which      *)
(* SuiteProgramProofs shows to exist, says for each place of its program   *)
(* which epoch is open, which buffers are active, which request is made,   *)
(* whether the rank is in a collective operation and what its clock has    *)
(* counted.  The invariant says that every actor is on its course, or has  *)
(* left out sizes because of errors.                                       *)
(*                                                                         *)
(* The second half is about the ranks together.  ProgramsFit says that the *)
(* programs of any two ranks fit: what one sends to the other is what that *)
(* one receives, in the same order and of the same sizes, and all of them  *)
(* enter the same collective operations, with the same roots and pSync     *)
(* arrays.  From this SidesAgree follows: the ledger and the channels never*)
(* hold anything but what one side has called and the other has not yet.   *)
(***************************************************************************)
EXTENDS SuiteProgramProofs

-----------------------------------------------------------------------------
(* The course of a rank. *)

ReportsErrors == CPt2pt \cup CCollective

\* What an actor of rank r goes through, and where it ends.
IsCourse(b, o, r, f) ==
    LET s == Scripts[b][o][r] IN
    /\ f[0] = St(Beginning(b), Idle(0))
    /\ Trace(Moves(r), s, f)
    /\ AtRest(f[Len(s)].local)
    /\ Clocked(b, r) /\ b \notin FanOut => f[Len(s)].clock = Idle(Reported(b))

Course(b, o, r) == CHOOSE f : IsCourse(b, o, r, f)

\* Every rank of every benchmark has a course through its program.
LEMMA CourseExists ==
    ASSUME NEW b \in Benchmarks, NEW o \in OptionsOf(b), NEW r \in Ranks[b]
    PROVE  Scripts[b][o][r] \in Seq(Calls) /\ IsCourse(b, o, r, Course(b, o, r))
<1> DEFINE s == Scripts[b][o][r]
<1>1. s = Program(b, r, o)
  BY ScriptsAre
<1>2. PICK y, n : /\ Measures(r, Program(b, r, o), Beginning(b), y, n) /\ AtRest(y)
                  /\ Clocked(b, r) /\ b \notin FanOut => n = Reported(b) /\ n \in Nat
  BY ProgramMeasures
<1>3. Walk(Moves(r), s, St(Beginning(b), Idle(0)), St(y, Idle(0 + n)))
  BY <1>1, <1>2 DEF Measures
<1> HIDE DEF s
<1>4. s \in Seq(Calls)
  BY <1>3 DEF Walk
<1>5. PICK f : /\ f[0] = St(Beginning(b), Idle(0)) /\ f[Len(s)] = St(y, Idle(0 + n))
               /\ Trace(Moves(r), s, f)
  BY <1>3 DEF Walk
<1>6. Clocked(b, r) /\ b \notin FanOut => f[Len(s)].clock = Idle(Reported(b))
  <2> SUFFICES ASSUME Clocked(b, r), b \notin FanOut PROVE f[Len(s)].clock = Idle(Reported(b))
    OBVIOUS
  <2>1. 0 + n = n /\ n = Reported(b)
    BY <1>2
  <2> QED BY <1>5, <2>1 DEF St
<1>7. IsCourse(b, o, r, f)
  <2>1. AtRest(f[Len(s)].local)
    BY <1>2, <1>5 DEF St
  <2> QED BY <1>5, <1>6, <2>1 DEF IsCourse, s
<1>8. IsCourse(b, o, r, Course(b, o, r))
  BY <1>7 DEF Course
<1> QED BY <1>4, <1>8 DEF s

\* It begins with an idle clock, every call is a move of it, and where the
\* program ends the total is what is reported.
LEMMA CourseRuns ==
    ASSUME NEW b \in Benchmarks, NEW o \in OptionsOf(b), NEW r \in Ranks[b]
    PROVE  LET s == Scripts[b][o][r]
               f == Course(b, o, r)
           IN  /\ s \in Seq(Calls) /\ Len(s) \in Nat
               /\ f[0].local = Beginning(b) /\ f[0].clock = Idle(0)
               /\ \A k \in 0 .. Len(s) : f[k] \in States
               /\ \A k \in 1 .. Len(s) :
                     /\ s[k] \in Calls
                     /\ LocalMove(r, s[k], f[k - 1].local, f[k].local)
                     /\ ClockMove(s[k], f[k - 1].clock, f[k].clock)
                     /\ s[k].op = "elect" => /\ s[k].else \in Nat /\ k + s[k].else <= Len(s)
                                             /\ f[k + s[k].else] = f[k - 1]
               /\ AtRest(f[Len(s)].local)
               /\ Clocked(b, r) /\ b \notin FanOut => f[Len(s)].clock = Idle(Reported(b))
<1> DEFINE s == Scripts[b][o][r]
           f == Course(b, o, r)
<1>1. s \in Seq(Calls) /\ IsCourse(b, o, r, f)
  BY CourseExists
<1>2. /\ f[0] = St(Beginning(b), Idle(0)) /\ Trace(Moves(r), s, f) /\ AtRest(f[Len(s)].local)
      /\ Clocked(b, r) /\ b \notin FanOut => f[Len(s)].clock = Idle(Reported(b))
  BY <1>1 DEF IsCourse
<1> HIDE DEF s, f
<1>3. Len(s) \in Nat /\ \A k \in 1 .. Len(s) : s[k] \in Calls
  BY <1>1
<1>4. f[0].local = Beginning(b) /\ f[0].clock = Idle(0) /\ f[0] \in States
  <2>1. Beginning(b) \in Locals /\ Idle(0) \in Clocks
    BY BeginningType, Typical DEF Outside
  <2> QED BY <1>2, <2>1 DEF St, States
<1>5. ASSUME NEW k \in 1 .. Len(s)
      PROVE  /\ f[k] \in States
             /\ LocalMove(r, s[k], f[k - 1].local, f[k].local)
             /\ ClockMove(s[k], f[k - 1].clock, f[k].clock)
             /\ s[k].op = "elect" => /\ s[k].else \in Nat /\ k + s[k].else <= Len(s)
                                     /\ f[k + s[k].else] = f[k - 1]
  <2> DEFINE m == <<s[k], f[k - 1], f[k]>>
  <2>1. m \in Moves(r)
    BY <1>2 DEF Trace
  <2>2. m[1] = s[k] /\ m[2] = f[k - 1] /\ m[3] = f[k]
    OBVIOUS
  <2> HIDE DEF m
  <2>3. m \in Calls \X States \X States
        /\ LocalMove(r, m[1], m[2].local, m[3].local) /\ ClockMove(m[1], m[2].clock, m[3].clock)
    BY <2>1 DEF Moves
  <2>4. m[3] \in States
    BY <2>3
  <2>5. s[k].op = "elect" => k + s[k].else <= Len(s) /\ f[k + s[k].else] = f[k - 1]
    BY <1>2 DEF Trace
  <2>6. s[k].op = "elect" => s[k].else \in Nat
    BY <1>3 DEF Calls, Plain
  <2> QED BY <2>2, <2>3, <2>4, <2>5, <2>6
<1>6. \A k \in 0 .. Len(s) : f[k] \in States
  <2>1. \A k \in 0 .. Len(s) : k = 0 \/ k \in 1 .. Len(s)
    BY <1>3
  <2> QED BY <1>4, <1>5, <2>1
<1> QED BY <1>1, <1>2, <1>3, <1>4, <1>5, <1>6 DEF s, f

\* A program that may leave the sizes early ends with its exit code.
LEMMA ProgramReports ==
    ASSUME NEW b \in Benchmarks, NEW o \in OptionsOf(b), NEW r \in Ranks[b], b \in ReportsErrors
    PROVE  LET s == Scripts[b][o][r] IN Len(s) \in Nat \ {0} /\ s[Len(s)].op = "report"
<1> DEFINE x == Beginning(b)
<1>1. x \in Outside /\ (b # "osu_latency_mt" => x \in Alone)
      /\ x.active = Unchanged0 /\ x.request = NoRequest
      /\ (b = Unmade => ~x.strict) /\ x.last /\ (b = "osu_latency_mt" => ~x.alone)
  BY BeginningType DEF ReportsErrors
<1>2. "osu_latency_mt" \in CPt2pt
  BY DEF CPt2pt, LatencyTest
<1> HIDE DEF x
<1>3. \E t \in Seq(Calls) : Program(b, r, o) = t \o Report
  <2>1. CASE b \in CPt2pt
    <3>1. Placed(b, x) /\ r \in CPt2ptRanks(b) /\ o.validate \in BOOLEAN
      BY <1>1, <2>1, RanksAre, OptionsAre DEF Placed
    <3> DEFINE v == o.validate
    <3>2. Program(b, r, o) = CPt2ptProgram(b, r, v)
      BY <2>1, ProgramsAre
    <3> HIDE DEF v
    <3>3. \E t \in Seq(Calls) : CPt2ptProgram(b, r, v) = t \o Report
      BY <1>1, <2>1, <3>1, CPt2ptMeasures DEF v
    <3> QED BY <3>2, <3>3
  <2>2. CASE b \in CCollective
    <3>1. x \in Alone
      BY <1>1, <1>2, <2>2, Apart
    <3>2. \E t \in Seq(Calls) : CCollectiveProgram(b, r, o) = t \o Report
      BY <1>1, <2>2, <3>1, CCollectiveMeasures
    <3> QED BY <2>2, <3>2, ProgramsAre
  <2> QED BY <2>1, <2>2 DEF ReportsErrors
<1>4. PICK t \in Seq(Calls) : Program(b, r, o) = t \o Report
  BY <1>3
<1>5. /\ Len(t \o Report) = Len(t) + 1 /\ (t \o Report)[Len(t) + 1] = [op |-> "report"]
      /\ Len(t) \in Nat
  BY DEF Report
<1>6. Scripts[b][o][r] = t \o Report
  BY <1>4, ScriptsAre
<1> QED BY <1>5, <1>6

-----------------------------------------------------------------------------
(* The inductive invariant, part by part: types, and where the actors are. *)

Sent == [by : Actors[bench], size : Nat, stamp : Stamps]
Awaited == [by : Actors[bench], size : Nat]
Parts == [stamp : Stamps, errors : BOOLEAN, age : Nat]
Entries ==
    [kind : CollectiveKinds, root : Nat, data : SUBSET Nat, form : Forms,
     in : UNION {[S -> Parts] : S \in SUBSET Ranks[bench]}, out : SUBSET Ranks[bench]]
Requests == [kind : {"none"}] \cup [kind : CollectiveKinds, root : Nat, active : Buffers]

RunTyped == bench \in Benchmarks /\ opt \in OptionsOf(bench)

PlaceTyped == /\ pc \in [Actors[bench] -> Nat]
              /\ \A a \in Actors[bench] : pc[a] \in 1 .. Len(Script(a)) + 1

MessagesTyped ==
    /\ queue \in [Channels[bench] -> Seq(Sent)]
    /\ posted \in [Channels[bench] -> Seq(Awaited)]
    /\ pending \in [Actors[bench] -> [isend : Nat, irecv : Nat]]
    /\ \A c \in Channels[bench] : queue[c] = <<>> \/ posted[c] = <<>>

DataTyped ==
    /\ buffer \in [Actors[bench] -> [holds : {"idle", "filled", "good", "stale"}, stamp : Stamps]]
    /\ errors \in [Actors[bench] -> BOOLEAN] /\ failed \in [Actors[bench] -> BOOLEAN]
    /\ spoiled \in BOOLEAN

ClockTyped == clock \in [Actors[bench] -> [running : BOOLEAN, burst : Nat, total : Nat]]

ThreadsTyped ==
    /\ met \in [Ranks[bench] -> SUBSET (0 .. SenderThreads + ReceiverThreads)]
    /\ serial \in [Ranks[bench] -> Nat]

CallsTyped == active \in [Ranks[bench] -> Buffers] /\ request \in [Ranks[bench] -> Requests]

RemoteTyped ==
    /\ air = [r \in Ranks[bench] |-> air[r]] /\ \A r \in Ranks[bench] : IsABag(air[r])
    /\ access \in [Ranks[bench] -> {"open", "closed", "lock", "start", "fence"}]
    /\ age \in [Ranks[bench] -> Nat] /\ posts \in [Ranks[bench] -> Nat]
    /\ done \in [Ranks[bench] -> Nat]

\* Where an actor is in its course, and where its next call takes it.
Here(a)  == Course(bench, opt, a[1])[pc[a] - 1]
There(a) == Course(bench, opt, a[1])[pc[a]]

\* What the course says of a clock is true.
Reads(p, q) == q.running = p.running /\ q.total = p.total /\ (q.known => q.burst = p.burst)

UsesArrays == OshmRate \cup OshmCollective

\* What an actor should know of itself.
Knowing(b, epoch, buffers, made, phase) ==
    [access |-> epoch, active |-> buffers, request |-> made, phase |-> phase,
     strict |-> b # Unmade, alone |-> b # "osu_latency_mt", last |-> b \in ReportsErrors,
     arrays |-> b \in UsesArrays]

Standing(a) ==
    Knowing(bench, access[a[1]], active[a[1]], request[a[1]], Here(a).local.phase)

Follows(a) == Here(a).local = Standing(a) /\ Reads(clock[a], Here(a).clock)

\* An actor that has left out sizes, because of errors.
Astray(a) == spoiled /\ bench \in ReportsErrors /\ pc[a] >= Len(Script(a))

OnCourse == \A a \in Actors[bench] : Astray(a) \/ Follows(a)

\* An actor that has not finished makes the call that its course expects.
LEMMA Doing ==
    ASSUME RunTyped, PlaceTyped, NEW a \in Actors[bench], NEW ops, At(a, ops)
    PROVE  /\ a[1] \in Ranks[bench]
           /\ pc[a] \in 1 .. Len(Script(a)) /\ pc[a] \in Nat \ {0} /\ Len(Script(a)) \in Nat
           /\ Script(a) \in Seq(Calls) /\ Now(a) \in Calls /\ Now(a).op \in ops
           /\ Here(a) \in States /\ There(a) \in States
           /\ LocalMove(a[1], Now(a), Here(a).local, There(a).local)
           /\ ClockMove(Now(a), Here(a).clock, There(a).clock)
           /\ Now(a).op = "elect" =>
                 /\ Now(a).else \in Nat /\ pc[a] + Now(a).else <= Len(Script(a))
                 /\ Course(bench, opt, a[1])[pc[a] + Now(a).else] = Here(a)
<1> DEFINE s == Scripts[bench][opt][a[1]]
           f == Course(bench, opt, a[1])
<1>1. a[1] \in Ranks[bench]
  BY ActorType DEF RunTyped
<1>2. /\ s \in Seq(Calls) /\ Len(s) \in Nat
      /\ \A k \in 0 .. Len(s) : f[k] \in States
      /\ \A k \in 1 .. Len(s) :
            /\ s[k] \in Calls
            /\ LocalMove(a[1], s[k], f[k - 1].local, f[k].local)
            /\ ClockMove(s[k], f[k - 1].clock, f[k].clock)
            /\ s[k].op = "elect" => /\ s[k].else \in Nat /\ k + s[k].else <= Len(s)
                                    /\ f[k + s[k].else] = f[k - 1]
  BY <1>1, CourseRuns DEF RunTyped
<1>3. Script(a) = s /\ Now(a) = s[pc[a]] /\ Here(a) = f[pc[a] - 1] /\ There(a) = f[pc[a]]
  BY DEF Script, Now, Here, There
<1>4. pc[a] \in 1 .. Len(s) + 1 /\ ~(pc[a] > Len(s)) /\ Now(a).op \in ops
  BY <1>3 DEF PlaceTyped, At, Finished, Now
<1> HIDE DEF s, f
<1>5. pc[a] \in 1 .. Len(s) /\ pc[a] \in Nat \ {0} /\ pc[a] \in 0 .. Len(s) /\ pc[a] - 1 \in 0 .. Len(s)
  BY <1>2, <1>4
<1> QED BY <1>1, <1>2, <1>3, <1>4, <1>5 DEF f

\* Only the exit code is left to an actor that has gone astray.
LEMMA AstrayReports ==
    ASSUME RunTyped, PlaceTyped, NEW a \in Actors[bench], NEW ops, At(a, ops), "report" \notin ops
    PROVE  ~Astray(a)
<1> SUFFICES ASSUME Astray(a) PROVE FALSE
  OBVIOUS
<1>1. a[1] \in Ranks[bench] /\ pc[a] \in 1 .. Len(Script(a)) /\ Now(a).op \in ops
      /\ Len(Script(a)) \in Nat
  BY Doing
<1>2. Len(Script(a)) \in Nat \ {0} /\ Script(a)[Len(Script(a))].op = "report"
  BY <1>1, ProgramReports DEF RunTyped, Astray, Script
<1>3. pc[a] = Len(Script(a))
  BY <1>1 DEF Astray
<1> QED BY <1>1, <1>2, <1>3 DEF Now

\* A clock that is started, stopped, and read out.
Restarted(p) == [p EXCEPT !.running = TRUE, !.burst = 0]
Ended(p) == [p EXCEPT !.running = FALSE]
Added(p) == [p EXCEPT !.total = @ + p.burst]

\* A clock as the model keeps it, and as the course does.
LEMMA ClockReads ==
    ASSUME NEW c \in Calls, NEW p \in [running : BOOLEAN, burst : Nat, total : Nat],
           NEW q \in Clocks, NEW t \in Clocks, Reads(p, q), ClockMove(c, q, t)
    PROVE  /\ c.op = "start" => Reads(Restarted(p), t)
           /\ c.op = "stop" => Reads(Ended(p), t)
           /\ c.op = "sample" => Reads(Added(p), t)
           /\ c.op \notin {"start", "stop", "sample"} =>
                 /\ IsCounted(c) => Reads(IF p.running THEN [p EXCEPT !.burst = @ + 1] ELSE p, t)
                 /\ ~IsCounted(c) => Reads(p, t)
<1>1. ASSUME c.op = "start" PROVE Reads(Restarted(p), t)
  <2> DEFINE e == Restarted(p)
  <2>1. e.running = TRUE /\ e.burst = 0 /\ e.total = p.total
    BY DEF Restarted
  <2>2. t = Running(0, q.total) /\ q.total = p.total
    BY <1>1 DEF ClockMove, Reads
  <2>3. t.running = TRUE /\ t.burst = 0 /\ t.total = p.total
    BY <2>2 DEF Running
  <2> QED BY <2>1, <2>3, Zenon DEF Reads
<1>2. ASSUME c.op = "stop" PROVE Reads(Ended(p), t)
  <2> DEFINE e == Ended(p)
  <2>1. e.running = FALSE /\ e.burst = p.burst /\ e.total = p.total
    BY DEF Ended
  <2>2. t = Idle(q.total) \/ (q.known /\ t = Stopped(q.burst, q.total))
    BY <1>2 DEF ClockMove
  <2>3. t.running = FALSE /\ t.total = q.total /\ (t.known => q.known /\ t.burst = q.burst)
    BY <2>2 DEF Idle, Stopped
  <2> QED BY <2>1, <2>3, Zenon DEF Reads
<1>3. ASSUME c.op = "sample" PROVE Reads(Added(p), t)
  <2> DEFINE e == Added(p)
  <2>1. e.running = p.running /\ e.burst = p.burst /\ e.total = p.total + p.burst
    BY DEF Added
  <2>2. q.known /\ ~q.running /\ t = Idle(q.total + q.burst)
    BY <1>3 DEF ClockMove
  <2>3. q.running = p.running /\ q.total = p.total /\ q.burst = p.burst
    BY <2>2 DEF Reads
  <2>4. p.running = FALSE
    BY <2>2, <2>3
  <2>5. t.running = FALSE /\ t.known = FALSE /\ t.total = p.total + p.burst
    BY <2>2, <2>3 DEF Idle
  <2> QED BY <2>1, <2>4, <2>5, Zenon DEF Reads
<1>4. ASSUME c.op \notin {"start", "stop", "sample"}, IsCounted(c)
      PROVE  Reads(IF p.running THEN [p EXCEPT !.burst = @ + 1] ELSE p, t)
  <2>1. t = Plus(q, 1)
    BY <1>4 DEF ClockMove
  <2>2. CASE q.running
    <3>1. t = [running |-> q.running, known |-> q.known, burst |-> q.burst + 1, total |-> q.total]
      BY <2>1, <2>2 DEF Plus
    <3>2. p.running
      BY <2>2 DEF Reads
    <3> QED BY <3>1, <3>2 DEF Reads
  <2>3. CASE ~q.running
    <3>1. t = q /\ ~p.running
      BY <2>1, <2>3 DEF Plus, Reads
    <3> QED BY <3>1
  <2> QED BY <2>2, <2>3
<1>5. c.op \notin {"start", "stop", "sample"} /\ ~IsCounted(c) => Reads(p, t)
  BY DEF ClockMove
<1> QED BY <1>1, <1>2, <1>3, <1>4, <1>5

\* What a call changes of what its actor knows, field by field.
LEMMA Changing ==
    ASSUME NEW r, NEW c \in Calls, NEW x \in Locals, NEW y \in Locals, LocalMove(r, c, x, y)
    PROVE  /\ y.strict = x.strict /\ y.alone = x.alone /\ y.last = x.last
           /\ y.arrays = x.arrays
           /\ y.active = IF c.op = "in_place" THEN OmbApplyMpiInPlace(c.type, c.root, r, x.active)
                         ELSE x.active
           /\ y.request = IF c.op = "init"
                            THEN [kind |-> c.kind, root |-> c.root, active |-> x.active]
                          ELSE IF c.op = "free" THEN [kind |-> "none"] ELSE x.request
           /\ y.access = IF c.op = "open" THEN c.kind ELSE IF c.op = "close" THEN "closed"
                         ELSE IF c.op = "enter" /\ c.kind = "fence" THEN "fence" ELSE x.access
           /\ y.phase = IF c.op = "enter" THEN "in" ELSE IF c.op = "leave" THEN "out"
                        ELSE IF c.op = "elect" THEN "chosen" ELSE x.phase
<1>1. y = Changed(r, c, x)
  BY DEF LocalMove
<1>2. CASE c.op = "in_place"
  BY <1>1, <1>2 DEF Changed, Locals
<1>3. CASE c.op = "init"
  BY <1>1, <1>3 DEF Changed, Locals
<1>4. CASE c.op = "free"
  BY <1>1, <1>4 DEF Changed, Locals
<1>5. CASE c.op = "open"
  BY <1>1, <1>5 DEF Changed, Locals
<1>6. CASE c.op = "close"
  BY <1>1, <1>6 DEF Changed, Locals
<1>7. CASE c.op = "enter"
  BY <1>1, <1>7 DEF Changed, Locals
<1>8. CASE c.op = "leave"
  BY <1>1, <1>8 DEF Changed, Locals
<1>9. CASE c.op = "elect"
  BY <1>1, <1>9 DEF Changed, Locals
<1>10. CASE c.op \notin {"in_place", "init", "free", "open", "close", "enter", "leave", "elect"}
  <2>1. y = x
    BY <1>1, <1>10 DEF Changed
  <2> QED BY <2>1, <1>10
<1> QED BY <1>2, <1>3, <1>4, <1>5, <1>6, <1>7, <1>8, <1>9, <1>10

\* What an actor knows has the fields it was put together from.
LEMMA Known ==
    ASSUME NEW b, NEW epoch, NEW buffers, NEW made, NEW phase, NEW x,
           x = Knowing(b, epoch, buffers, made, phase)
    PROVE  /\ x.access = epoch /\ x.active = buffers /\ x.request = made /\ x.phase = phase
           /\ x.strict = (b # Unmade) /\ x.alone = (b # "osu_latency_mt")
           /\ x.last = (b \in ReportsErrors) /\ x.arrays = (b \in UsesArrays)
BY DEF Knowing

\* It is put together from its fields.
LEMMA KnownFrom ==
    ASSUME NEW b, NEW x \in Locals, x.strict = (b # Unmade), x.alone = (b # "osu_latency_mt"),
           x.last = (b \in ReportsErrors), x.arrays = (b \in UsesArrays)
    PROVE  x = Knowing(b, x.access, x.active, x.request, x.phase)
BY DEF Knowing, Locals

\* The others stay where they are.
LEMMA OthersFollow ==
    ASSUME NEW b \in Actors[bench], Astray(b) \/ Follows(b), spoiled => spoiled',
           UNCHANGED run, pc'[b] = pc[b], clock'[b] = clock[b],
           access'[b[1]] = access[b[1]], active'[b[1]] = active[b[1]],
           request'[b[1]] = request[b[1]]
    PROVE  Astray(b)' \/ Follows(b)'
<1>1. bench' = bench /\ opt' = opt
  BY DEF run
<1>2. Here(b)' = Here(b)
  BY <1>1 DEF Here
<1>3. Script(b)' = Script(b)
  BY <1>1 DEF Script
<1>4. CASE Astray(b)
  BY <1>1, <1>3, <1>4 DEF Astray
<1>5. CASE Follows(b)
  <2>1. Standing(b)' = Standing(b)
    BY <1>1, <1>2 DEF Standing
  <2> QED BY <1>2, <1>5, <2>1 DEF Follows
<1> QED BY <1>4, <1>5

\* An actor that has made its call goes on as its course says.
LEMMA ItselfFollows ==
    ASSUME RunTyped, PlaceTyped, NEW a \in Actors[bench], NEW ops, At(a, ops), Follows(a),
           UNCHANGED run, pc'[a] = pc[a] + 1, Reads(clock'[a], There(a).clock),
           There(a).local.access = access'[a[1]],
           There(a).local.active = active'[a[1]],
           There(a).local.request = request'[a[1]]
    PROVE  Follows(a)'
<1>1. bench' = bench /\ opt' = opt
  BY DEF run
<1>2. Here(a)' = There(a)
  <2>1. pc'[a] - 1 = pc[a]
    BY Doing
  <2> QED BY <1>1, <2>1 DEF Here, There
<1> DEFINE x == Here(a).local
           y == There(a).local
<1>3. /\ x \in Locals /\ y \in Locals /\ Now(a) \in Calls /\ LocalMove(a[1], Now(a), x, y)
  BY Doing DEF States
<1>4. y.strict = x.strict /\ y.alone = x.alone /\ y.last = x.last /\ y.arrays = x.arrays
  BY <1>3, Changing
<1>5. /\ x.strict = (bench # Unmade) /\ x.alone = (bench # "osu_latency_mt")
      /\ x.last = (bench \in ReportsErrors) /\ x.arrays = (bench \in UsesArrays)
  BY Known DEF Follows, Standing
<1> HIDE DEF x, y
<1>6. /\ y.strict = (bench' # Unmade) /\ y.alone = (bench' # "osu_latency_mt")
      /\ y.last = (bench' \in ReportsErrors) /\ y.arrays = (bench' \in UsesArrays)
  BY <1>1, <1>4, <1>5
<1>7. y = Knowing(bench', y.access, y.active, y.request, y.phase)
  BY <1>3, <1>6, KnownFrom
<1>8. y = Standing(a)'
  <2>1. y.access = access'[a[1]] /\ y.active = active'[a[1]] /\ y.request = request'[a[1]]
    BY DEF y
  <2>2. Here(a)'.local.phase = y.phase
    BY <1>2 DEF y
  <2>3. Standing(a)' = Knowing(bench', access'[a[1]], active'[a[1]], request'[a[1]], y.phase)
    BY <2>2 DEF Standing
  <2> QED BY <1>7, <2>1, <2>3
<1> QED BY <1>2, <1>8 DEF Follows, y

-----------------------------------------------------------------------------
(* The calls and the course. *)

\* An actor that goes elsewhere; nobody else moves.
LEMMA GoesTo ==
    ASSUME RunTyped, PlaceTyped, NEW a \in Actors[bench], UNCHANGED run,
           NEW n \in 1 .. Len(Script(a)) + 1, Goto(a, n)
    PROVE  /\ PlaceTyped' /\ pc'[a] = n
           /\ \A b \in Actors[bench] : b # a => pc'[b] = pc[b]
<1>1. bench' = bench /\ \A b : Script(b)' = Script(b)
  BY DEF run, Script
<1>2. pc' \in [Actors[bench] -> Nat] /\ pc'[a] = n
      /\ \A b \in Actors[bench] : b # a => pc'[b] = pc[b]
  <2>1. Len(Script(a)) \in Nat /\ n \in Nat
    <3>1. a[1] \in Ranks[bench]
      BY ActorType DEF RunTyped
    <3>2. Len(Script(a)) \in Nat
      BY <3>1, CourseRuns DEF RunTyped, Script
    <3> QED BY <3>2
  <2> QED BY <2>1 DEF PlaceTyped, Goto
<1>3. \A b \in Actors[bench] : pc'[b] \in 1 .. Len(Script(b)) + 1
  BY <1>2 DEF PlaceTyped
<1> QED BY <1>1, <1>2, <1>3 DEF PlaceTyped

\* An actor that goes on to its next call.
LEMMA Advances ==
    ASSUME RunTyped, PlaceTyped, NEW a \in Actors[bench], UNCHANGED run, NEW ops, At(a, ops), Advance(a)
    PROVE  /\ PlaceTyped' /\ pc'[a] = pc[a] + 1
           /\ \A b \in Actors[bench] : b # a => pc'[b] = pc[b]
<1>1. pc[a] + 1 \in 1 .. Len(Script(a)) + 1
  BY Doing
<1> QED BY <1>1, GoesTo DEF Advance

\* Without threads a rank has one actor.
LEMMA OnlyOne ==
    ASSUME RunTyped, bench # "osu_latency_mt", NEW a \in Actors[bench], NEW b \in Actors[bench], a[1] = b[1]
    PROVE  a = b
BY ActorType DEF RunTyped

\* A call that changes what the course says it does keeps its actor on course,
\* and the others.
LEMMA Onward ==
    ASSUME RunTyped, PlaceTyped, OnCourse, NEW a \in Actors[bench], NEW ops, At(a, ops),
           "report" \notin ops, UNCHANGED run, Advance(a), spoiled => spoiled',
           \A b \in Actors[bench] : b # a =>
              /\ clock'[b] = clock[b] /\ access'[b[1]] = access[b[1]]
              /\ active'[b[1]] = active[b[1]] /\ request'[b[1]] = request[b[1]],
           Reads(clock'[a], There(a).clock), There(a).local.access = access'[a[1]],
           There(a).local.active = active'[a[1]], There(a).local.request = request'[a[1]]
    PROVE  PlaceTyped' /\ OnCourse'
<1>1. PlaceTyped' /\ pc'[a] = pc[a] + 1 /\ \A b \in Actors[bench] : b # a => pc'[b] = pc[b]
  BY Advances
<1>2. Follows(a)
  BY AstrayReports DEF OnCourse
<1>3. Follows(a)'
  BY <1>1, <1>2, ItselfFollows
<1>4. ASSUME NEW b \in Actors[bench], b # a PROVE Astray(b)' \/ Follows(b)'
  BY <1>1, <1>4, OthersFollow DEF OnCourse
<1>5. Actors[bench]' = Actors[bench]
  BY DEF run
<1> QED BY <1>1, <1>3, <1>4, <1>5 DEF OnCourse

\* What is known of an actor that is about to call.
LEMMA StandsSo ==
    ASSUME RunTyped, PlaceTyped, OnCourse, NEW a \in Actors[bench], NEW ops, At(a, ops), "report" \notin ops
    PROVE  /\ Follows(a) /\ Here(a).local \in Locals /\ There(a).local \in Locals
           /\ Here(a).clock \in Clocks /\ There(a).clock \in Clocks
           /\ Reads(clock[a], Here(a).clock)
           /\ Now(a) \in Calls /\ Now(a).op \in ops /\ a[1] \in Ranks[bench]
           /\ Here(a).local.access = access[a[1]] /\ Here(a).local.active = active[a[1]]
           /\ Here(a).local.request = request[a[1]]
           /\ Here(a).local.strict = (bench # Unmade)
           /\ Here(a).local.alone = (bench # "osu_latency_mt")
           /\ Here(a).local.last = (bench \in ReportsErrors)
           /\ Here(a).local.arrays = (bench \in UsesArrays)
           /\ LocalMove(a[1], Now(a), Here(a).local, There(a).local)
           /\ ClockMove(Now(a), Here(a).clock, There(a).clock)
<1>1. Follows(a)
  BY AstrayReports DEF OnCourse
<1>2. /\ Here(a).local.access = access[a[1]] /\ Here(a).local.active = active[a[1]]
      /\ Here(a).local.request = request[a[1]]
      /\ Here(a).local.strict = (bench # Unmade)
      /\ Here(a).local.alone = (bench # "osu_latency_mt")
      /\ Here(a).local.last = (bench \in ReportsErrors)
      /\ Here(a).local.arrays = (bench \in UsesArrays)
  BY <1>1, Known DEF Follows, Standing
<1> QED BY <1>1, <1>2, Doing DEF Follows, States

\* Calls that change nothing their actor knows of itself.
Silent == {"isend", "irecv", "wait", "leave", "fill", "check", "clear", "break", "rma", "flush",
           "post", "await", "touch", "meet", "enter"}

\* They leave the epoch, the buffers and the request as they are.
LEMMA SilentMoves ==
    ASSUME NEW r, NEW c \in Calls, NEW x \in Locals, NEW y \in Locals, LocalMove(r, c, x, y),
           c.op \in Silent, ~(c.op = "enter" /\ c.kind = "fence")
    PROVE  y.access = x.access /\ y.active = x.active /\ y.request = x.request
<1>1. c.op \notin {"in_place", "init", "free", "open", "close"}
  BY DEF Silent
<1> QED BY <1>1, Changing

\* A call that counts nothing.
LEMMA QuietStep ==
    ASSUME RunTyped, PlaceTyped, OnCourse, ClockTyped, NEW a \in Actors[bench], NEW ops, At(a, ops),
           ops \subseteq Silent, ~(Now(a).op = "enter" /\ Now(a).kind = "fence"), ~IsCounted(Now(a)),
           UNCHANGED run, Advance(a), spoiled => spoiled',
           clock' = clock, access' = access, active' = active, request' = request
    PROVE  PlaceTyped' /\ OnCourse'
<1>1. "report" \notin ops
  BY DEF Silent
<1>2. Now(a).op \in Silent /\ Now(a).op \notin {"start", "stop", "sample"}
  BY <1>1, StandsSo DEF Silent
<1>3. There(a).local.access = access'[a[1]] /\ There(a).local.active = active'[a[1]]
      /\ There(a).local.request = request'[a[1]]
  BY <1>1, <1>2, StandsSo, SilentMoves
<1>4. Reads(clock'[a], There(a).clock)
  <2>1. clock[a] \in [running : BOOLEAN, burst : Nat, total : Nat]
    BY DEF ClockTyped
  <2> QED BY <1>1, <1>2, <2>1, StandsSo, ClockReads
<1> QED BY <1>1, <1>3, <1>4, Onward

\* A call that counts, if the clock runs.
LEMMA CountingStep ==
    ASSUME RunTyped, PlaceTyped, OnCourse, ClockTyped, NEW a \in Actors[bench], NEW ops, At(a, ops),
           ops \subseteq Silent, IsCounted(Now(a)), UNCHANGED run, Advance(a), spoiled => spoiled',
           clock' = [clock EXCEPT ![a] = Counted(a)],
           access' = access, active' = active, request' = request
    PROVE  PlaceTyped' /\ OnCourse' /\ ClockTyped'
<1>1. "report" \notin ops
  BY DEF Silent
<1>2. Now(a).op \in Silent /\ Now(a).op \notin {"start", "stop", "sample"}
      /\ ~(Now(a).op = "enter" /\ Now(a).kind = "fence")
  BY <1>1, StandsSo DEF Silent, IsCounted
<1>3. There(a).local.access = access'[a[1]] /\ There(a).local.active = active'[a[1]]
      /\ There(a).local.request = request'[a[1]]
  BY <1>1, <1>2, StandsSo, SilentMoves
<1>4. clock[a] \in [running : BOOLEAN, burst : Nat, total : Nat]
  BY DEF ClockTyped
<1>5. clock'[a] = Counted(a) /\ (\A b \in Actors[bench] : b # a => clock'[b] = clock[b])
      /\ clock' \in [Actors[bench] -> [running : BOOLEAN, burst : Nat, total : Nat]]
  BY <1>4 DEF ClockTyped, Counted
<1>6. Reads(clock'[a], There(a).clock)
  <2>1. Reads(IF clock[a].running THEN [clock[a] EXCEPT !.burst = @ + 1] ELSE clock[a], There(a).clock)
    BY <1>1, <1>2, <1>4, StandsSo, ClockReads
  <2> QED BY <1>5, <2>1 DEF Counted
<1>7. PlaceTyped' /\ OnCourse'
  BY <1>1, <1>3, <1>5, <1>6, Onward
<1>8. bench' = bench
  BY DEF run
<1> QED BY <1>5, <1>7, <1>8 DEF ClockTyped

\* What an actor may do.
Acts(a) ==
    \/ PostSend(a) \/ PostReceive(a) \/ EnterCollective(a) \/ LeaveCollective(a) \/ Meet(a)
    \/ Access(a) \/ Land(a) \/ TouchMemory(a)
    \/ Return(a) \/ Elect(a) \/ Start(a) \/ Stop(a) \/ AddSample(a)
    \/ FillBuffers(a) \/ CheckBuffer(a) \/ Clear(a) \/ Break(a) \/ ReportErrors(a)
    \/ SetActive(a) \/ InitRequest(a) \/ FreeRequest(a)
    \/ Synchronised(a) \/ Open(a) \/ Close(a) \/ Expose(a)

\* A step is a call of an actor.
LEMMA SomeoneActs ==
    ASSUME [Next]_vars
    PROVE  UNCHANGED vars \/ \E a \in Actors[bench] : Acts(a)
<1>1. ASSUME Step PROVE \E a \in Actors[bench] : Acts(a)
  <2>1. CASE Private = {}
    <3>1. PICK a \in Actors[bench] : Communicate(a)
      BY <1>1, <2>1 DEF Step
    <3>2. Acts(a)
      BY <3>1 DEF Communicate, LeaveWithPSync, Acts
    <3> QED BY <3>2
  <2>2. CASE Private # {}
    <3> DEFINE a == CHOOSE x \in Private : TRUE
    <3>1. a \in Private /\ OnItsOwn(a)
      BY <1>1, <2>2 DEF Step
    <3> HIDE DEF a
    <3>2. a \in Actors[bench]
      BY <3>1 DEF Private
    <3>3. Acts(a)
      BY <3>1 DEF OnItsOwn, Acts
    <3> QED BY <3>2, <3>3
  <2> QED BY <2>1, <2>2
<1> QED BY <1>1 DEF Next, Rest

\* Which actions change what.
LEMMA Frames ==
    ASSUME NEW a, Acts(a)
    PROVE  /\ UNCHANGED run
           /\ PostSend(a) \/ PostReceive(a) \/ UNCHANGED messages
           /\ \/ PostSend(a) \/ PostReceive(a) \/ LeaveCollective(a) \/ FillBuffers(a)
              \/ CheckBuffer(a) \/ UNCHANGED buffer
           /\ \/ LeaveCollective(a) \/ CheckBuffer(a) \/ Clear(a) \/ ReportErrors(a)
              \/ UNCHANGED counts
           /\ EnterCollective(a) \/ LeaveCollective(a) \/ UNCHANGED ledger
           /\ \/ PostSend(a) \/ PostReceive(a) \/ EnterCollective(a) \/ Start(a) \/ Stop(a)
              \/ AddSample(a) \/ Access(a) \/ UNCHANGED clock
           /\ Meet(a) \/ UNCHANGED threading
           /\ SetActive(a) \/ InitRequest(a) \/ FreeRequest(a) \/ UNCHANGED calls
           /\ \/ EnterCollective(a) \/ Access(a) \/ Land(a) \/ Open(a) \/ Close(a) \/ Expose(a)
              \/ UNCHANGED remote
           /\ \/ PostSend(a) \/ PostReceive(a) \/ EnterCollective(a) \/ Stop(a) \/ FillBuffers(a)
              \/ CheckBuffer(a) \/ FreeRequest(a) \/ Access(a) \/ Open(a) \/ Close(a)
              \/ TouchMemory(a) \/ UNCHANGED wrong
<1>1. ASSUME PostSend(a) \/ PostReceive(a)
      PROVE  /\ UNCHANGED run /\ UNCHANGED ledger /\ UNCHANGED threading /\ UNCHANGED counts
             /\ UNCHANGED calls /\ UNCHANGED remote
  BY <1>1 DEF PostSend, PostReceive
<1>2. ASSUME EnterCollective(a) PROVE /\ UNCHANGED run /\ UNCHANGED messages
                                      /\ UNCHANGED threading /\ UNCHANGED buffer
                                      /\ UNCHANGED counts /\ UNCHANGED calls
  BY <1>2 DEF EnterCollective
<1>3. ASSUME LeaveCollective(a) PROVE /\ UNCHANGED run /\ UNCHANGED messages
                                      /\ UNCHANGED threading /\ UNCHANGED clock /\ UNCHANGED calls
                                      /\ UNCHANGED wrong /\ UNCHANGED remote
  BY <1>3 DEF LeaveCollective
<1>4. ASSUME Meet(a) PROVE /\ UNCHANGED run /\ UNCHANGED messages /\ UNCHANGED ledger
                           /\ UNCHANGED clock /\ UNCHANGED buffer /\ UNCHANGED counts
                           /\ UNCHANGED calls /\ UNCHANGED wrong /\ UNCHANGED remote
  BY <1>4 DEF Meet
<1>5. ASSUME Access(a) \/ Open(a) \/ Close(a)
      PROVE  /\ Access(a) \/ UNCHANGED clock
             /\ UNCHANGED run /\ UNCHANGED messages /\ UNCHANGED ledger /\ UNCHANGED threading
             /\ UNCHANGED buffer /\ UNCHANGED counts /\ UNCHANGED calls
  BY <1>5 DEF Access, Open, Close
<1>6. ASSUME Land(a) \/ Expose(a)
      PROVE  /\ UNCHANGED run /\ UNCHANGED messages /\ UNCHANGED ledger /\ UNCHANGED threading
             /\ UNCHANGED clock /\ UNCHANGED buffer /\ UNCHANGED counts /\ UNCHANGED calls
             /\ UNCHANGED wrong
  BY <1>6 DEF Land, Expose
<1>7. ASSUME TouchMemory(a)
      PROVE  /\ UNCHANGED run /\ UNCHANGED messages /\ UNCHANGED ledger /\ UNCHANGED threading
             /\ UNCHANGED clock /\ UNCHANGED buffer /\ UNCHANGED counts /\ UNCHANGED calls
             /\ UNCHANGED remote
  BY <1>7 DEF TouchMemory
<1>8. ASSUME Return(a) \/ Elect(a) \/ Break(a) \/ Synchronised(a)
      PROVE  /\ UNCHANGED run /\ UNCHANGED messages /\ UNCHANGED ledger /\ UNCHANGED threading
             /\ UNCHANGED clock /\ UNCHANGED buffer /\ UNCHANGED counts /\ UNCHANGED calls
             /\ UNCHANGED wrong /\ UNCHANGED remote
  BY <1>8 DEF Return, Elect, Break, Synchronised
<1>9. ASSUME Start(a) \/ Stop(a) \/ AddSample(a)
      PROVE  /\ UNCHANGED run /\ UNCHANGED messages /\ UNCHANGED ledger /\ UNCHANGED threading
             /\ UNCHANGED buffer /\ UNCHANGED counts /\ UNCHANGED calls /\ UNCHANGED remote
             /\ Stop(a) \/ UNCHANGED wrong
  BY <1>9 DEF Start, Stop, AddSample
<1>10. ASSUME FillBuffers(a) PROVE /\ UNCHANGED run /\ UNCHANGED messages /\ UNCHANGED ledger
                                   /\ UNCHANGED threading /\ UNCHANGED clock /\ UNCHANGED counts
                                   /\ UNCHANGED calls /\ UNCHANGED remote
  BY <1>10 DEF FillBuffers
<1>11. ASSUME CheckBuffer(a) PROVE /\ UNCHANGED run /\ UNCHANGED messages /\ UNCHANGED ledger
                                   /\ UNCHANGED threading /\ UNCHANGED clock /\ UNCHANGED calls
                                   /\ UNCHANGED remote
  BY <1>11 DEF CheckBuffer
<1>12. ASSUME Clear(a) \/ ReportErrors(a)
       PROVE  /\ UNCHANGED run /\ UNCHANGED messages /\ UNCHANGED ledger /\ UNCHANGED threading
              /\ UNCHANGED clock /\ UNCHANGED buffer /\ UNCHANGED calls /\ UNCHANGED wrong
              /\ UNCHANGED remote
  BY <1>12 DEF Clear, ReportErrors
<1>13. ASSUME SetActive(a) \/ InitRequest(a) \/ FreeRequest(a)
       PROVE  /\ UNCHANGED run /\ UNCHANGED messages /\ UNCHANGED ledger /\ UNCHANGED threading
              /\ UNCHANGED clock /\ UNCHANGED buffer /\ UNCHANGED counts /\ UNCHANGED remote
              /\ FreeRequest(a) \/ UNCHANGED wrong
  BY <1>13 DEF SetActive, InitRequest, FreeRequest
<1> QED BY <1>1, <1>2, <1>3, <1>4, <1>5, <1>6, <1>7, <1>8, <1>9, <1>10, <1>11, <1>12, <1>13 DEF Acts

-----------------------------------------------------------------------------
(* The messages that wait, and who waits for them. *)

\* The places in the channels of D where a message, or a receive, of G waits.
Found(q, D, G) == {x \in D \X Nat : x[2] \in 1 .. Len(q[x[1]]) /\ q[x[1]][x[2]] \in G}

\* A channel with one more at its end, or one fewer at its head.
Put(q, c, e) == [q EXCEPT ![c] = Append(@, e)]
Take(q, c)   == [q EXCEPT ![c] = Tail(@)]

\* Putting an entry into a channel adds one place to those of its kind.
LEMMA FoundMore ==
    ASSUME NEW D, NEW T, NEW q \in [D -> Seq(T)], NEW c \in D, NEW e \in T, NEW G,
           IsFiniteSet(Found(q, D, G)), NEW p, p = Put(q, c, e)
    PROVE  /\ p \in [D -> Seq(T)] /\ IsFiniteSet(Found(p, D, G))
           /\ Cardinality(Found(p, D, G)) = Cardinality(Found(q, D, G)) + (IF e \in G THEN 1 ELSE 0)
<1> DEFINE n == Len(q[c])
           new == <<c, n + 1>>
<1>1. p \in [D -> Seq(T)] /\ n \in Nat /\ Len(p[c]) = n + 1 /\ p[c][n + 1] = e
      /\ (\A k \in 1 .. n : p[c][k] = q[c][k]) /\ (\A d \in D : d # c => p[d] = q[d])
  BY DEF Put
<1>2. new \in D \X Nat /\ new[1] = c /\ new[2] = n + 1
  BY <1>1
<1> HIDE DEF n, new
<1>3. ASSUME NEW x \in D \X Nat
      PROVE  x \in Found(p, D, G) <=> x \in Found(q, D, G) \/ (x = new /\ e \in G)
  <2>1. CASE x[1] # c
    BY <1>1, <1>2, <2>1 DEF Found
  <2>2. CASE x[1] = c /\ x[2] = n + 1
    <3>1. x = new
      BY <2>2 DEF new
    <3>2. ~(n + 1 \in 1 .. n) /\ n + 1 \in 1 .. n + 1
      BY <1>1
    <3> QED BY <1>1, <2>2, <3>1, <3>2 DEF Found, n
  <2>3. CASE x[1] = c /\ x[2] # n + 1
    <3>1. x # new /\ (x[2] \in 1 .. n + 1 <=> x[2] \in 1 .. n)
      BY <1>1, <1>2, <2>3
    <3> QED BY <1>1, <2>3, <3>1 DEF Found, n
  <2> QED BY <2>1, <2>2, <2>3
<1>4. new \notin Found(q, D, G)
  BY <1>1, <1>2 DEF Found, n
<1>5. Found(p, D, G) = IF e \in G THEN Found(q, D, G) \cup {new} ELSE Found(q, D, G)
  <2>1. Found(p, D, G) \subseteq D \X Nat /\ Found(q, D, G) \subseteq D \X Nat
    BY DEF Found
  <2> QED BY <1>2, <1>3, <2>1
<1>6. IsFiniteSet(Found(q, D, G) \cup {new})
      /\ Cardinality(Found(q, D, G) \cup {new}) = Cardinality(Found(q, D, G)) + 1
  BY <1>4, FS_AddElement
<1>7. Cardinality(Found(q, D, G)) \in Nat
  BY FS_CardinalityType
<1>8. IsFiniteSet(Found(p, D, G))
      /\ Cardinality(Found(p, D, G)) = Cardinality(Found(q, D, G)) + (IF e \in G THEN 1 ELSE 0)
  BY <1>5, <1>6, <1>7
<1> QED BY <1>1, <1>8

\* Taking one from a channel removes one place from those of its kind.
LEMMA FoundLess ==
    ASSUME NEW D, NEW T, NEW q \in [D -> Seq(T)], NEW c \in D, q[c] # <<>>, NEW G,
           IsFiniteSet(Found(q, D, G)), NEW p, p = Take(q, c)
    PROVE  /\ Head(q[c]) \in T /\ p \in [D -> Seq(T)] /\ IsFiniteSet(Found(p, D, G))
           /\ Cardinality(Found(q, D, G)) =
                 Cardinality(Found(p, D, G)) + (IF Head(q[c]) \in G THEN 1 ELSE 0)
<1> DEFINE n == Len(q[c])
           old == <<c, 1>>
           rest == Found(q, D, G) \ {old}
           g == [x \in rest |-> IF x[1] = c THEN <<c, x[2] - 1>> ELSE x]
<1>1. /\ p \in [D -> Seq(T)] /\ n \in Nat \ {0} /\ Len(p[c]) = n - 1
      /\ \A k \in 1 .. n - 1 : p[c][k] = q[c][k + 1]
      /\ \A d \in D : d # c => p[d] = q[d]
      /\ q[c][1] = Head(q[c]) /\ Head(q[c]) \in T
  BY DEF Take
<1>2. old \in D \X Nat /\ old[1] = c /\ old[2] = 1
  OBVIOUS
<1>3. old \in Found(q, D, G) <=> Head(q[c]) \in G
  BY <1>1, <1>2 DEF Found
<1> HIDE DEF n
<1>4. ASSUME NEW x \in rest PROVE g[x] \in Found(p, D, G)
  <2>1. x \in D \X Nat /\ x[2] \in 1 .. Len(q[x[1]]) /\ q[x[1]][x[2]] \in G /\ x # old
    BY DEF Found
  <2>2. CASE x[1] = c
    <3>1. x[2] # 1 /\ x[2] \in 1 .. n
      BY <2>1, <2>2 DEF n
    <3>2. g[x] = <<c, x[2] - 1>> /\ x[2] - 1 \in 1 .. n - 1 /\ (x[2] - 1) + 1 = x[2]
      BY <1>1, <2>2, <3>1
    <3>3. p[c][x[2] - 1] = q[c][x[2]]
      BY <1>1, <3>2
    <3>4. <<c, x[2] - 1>> \in Found(p, D, G)
      BY <1>1, <2>1, <2>2, <3>2, <3>3 DEF Found
    <3> QED BY <3>2, <3>4
  <2>3. CASE x[1] # c
    <3>1. g[x] = x
      BY <2>3
    <3>2. p[x[1]] = q[x[1]]
      BY <1>1, <2>1, <2>3
    <3>3. x \in Found(p, D, G)
      BY <2>1, <3>2 DEF Found
    <3> QED BY <3>1, <3>3
  <2> QED BY <2>2, <2>3
<1>5. ASSUME NEW x \in rest, NEW y \in rest, g[x] = g[y] PROVE x = y
  <2>1. x \in D \X Nat /\ y \in D \X Nat
    BY DEF Found
  <2>2. x = <<x[1], x[2]>> /\ y = <<y[1], y[2]>> /\ x[2] \in Nat /\ y[2] \in Nat
    BY <2>1
  <2>3. g[x] = (IF x[1] = c THEN <<c, x[2] - 1>> ELSE x) /\ g[y] = (IF y[1] = c THEN <<c, y[2] - 1>> ELSE y)
    OBVIOUS
  <2>4. g[x][1] = x[1] /\ g[y][1] = y[1]
    BY <2>3
  <2>5. x[1] = y[1]
    BY <1>5, <2>4
  <2>6. CASE x[1] = c
    <3>1. <<c, x[2] - 1>> = <<c, y[2] - 1>>
      BY <1>5, <2>3, <2>5, <2>6
    <3>2. x[2] = y[2]
      BY <2>2, <3>1
    <3> QED BY <2>2, <2>5, <3>2
  <2>7. CASE x[1] # c
    BY <1>5, <2>3, <2>5, <2>7
  <2> QED BY <2>6, <2>7
<1>6. ASSUME NEW y \in Found(p, D, G) PROVE \E x \in rest : g[x] = y
  <2>1. y \in D \X Nat /\ y[2] \in 1 .. Len(p[y[1]]) /\ p[y[1]][y[2]] \in G
    BY DEF Found
  <2>2. y = <<y[1], y[2]>>
    BY <2>1
  <2>3. CASE y[1] = c
    <3> DEFINE x == <<c, y[2] + 1>>
    <3>1. y[2] \in 1 .. n - 1 /\ y[2] \in Nat
      BY <1>1, <2>1, <2>3
    <3>2. x \in D \X Nat /\ x[1] = c /\ x[2] = y[2] + 1 /\ x # old /\ x[2] \in 1 .. n
      BY <1>1, <3>1
    <3>3. q[c][x[2]] = p[c][y[2]]
      BY <1>1, <3>1, <3>2
    <3>4. x \in rest
      BY <2>1, <2>3, <3>2, <3>3 DEF Found, n
    <3>5. g[x] = <<c, (y[2] + 1) - 1>> /\ (y[2] + 1) - 1 = y[2]
      BY <3>1, <3>2, <3>4
    <3>6. g[x] = y
      BY <2>2, <2>3, <3>5
    <3> HIDE DEF g, rest, x
    <3> QED BY <3>4, <3>6
  <2>4. CASE y[1] # c
    <3>1. p[y[1]] = q[y[1]] /\ y # old
      BY <1>1, <1>2, <2>1, <2>4
    <3>2. y \in rest
      BY <2>1, <3>1 DEF Found
    <3>3. g[y] = y
      BY <2>4, <3>2
    <3> HIDE DEF g, rest
    <3> QED BY <3>2, <3>3
  <2> QED BY <2>3, <2>4
<1>7. g \in Bijection(rest, Found(p, D, G))
  <2>1. g \in [rest -> Found(p, D, G)]
    BY <1>4
  <2> HIDE DEF g, rest
  <2>2. g \in Injection(rest, Found(p, D, G))
    BY <1>5, <2>1 DEF Injection, IsInjective
  <2>3. g \in Surjection(rest, Found(p, D, G))
    BY <1>6, <2>1 DEF Surjection
  <2> QED BY <2>2, <2>3 DEF Bijection
<1>8. IsFiniteSet(rest) /\ Cardinality(rest) = IF old \in Found(q, D, G) THEN Cardinality(Found(q, D, G)) - 1
                                               ELSE Cardinality(Found(q, D, G))
  BY FS_RemoveElement
<1> HIDE DEF rest, g, old
<1>9. IsFiniteSet(Found(p, D, G)) /\ Cardinality(Found(p, D, G)) = Cardinality(rest)
  BY <1>7, <1>8, FS_Bijection DEF ExistsBijection
<1>10. Cardinality(Found(q, D, G)) \in Nat
  BY FS_CardinalityType
<1>11. Cardinality(Found(q, D, G)) = Cardinality(Found(p, D, G)) + (IF Head(q[c]) \in G THEN 1 ELSE 0)
  BY <1>3, <1>8, <1>9, <1>10
<1> QED BY <1>1, <1>9, <1>11

\* The receives of an actor that wait, and its messages that keep it waiting.
ReceivesOf(a) == {e \in Awaited : e.by = a}
SendsOf(a)    == {e \in Sent : e.by = a /\ e.size > Eager}

Owed(q, D, G, n) == IsFiniteSet(Found(q, D, G)) /\ n = Cardinality(Found(q, D, G))

\* What an actor waits for is what is in the channels.
Waiting ==
    \A a \in Actors[bench] :
        /\ Owed(posted, Channels[bench], ReceivesOf(a), pending[a].irecv)
        /\ Owed(queue, Channels[bench], SendsOf(a), pending[a].isend)

\* So what is owed grows by one,
LEMMA OwedMore ==
    ASSUME NEW D, NEW T, NEW q \in [D -> Seq(T)], NEW c \in D, NEW e \in T,
           NEW p, p = Put(q, c, e),
           NEW G, NEW n, Owed(q, D, G, n)
    PROVE  n \in Nat /\ Owed(p, D, G, n + (IF e \in G THEN 1 ELSE 0))
<1>1. IsFiniteSet(Found(q, D, G)) /\ n = Cardinality(Found(q, D, G))
  BY DEF Owed
<1>2. /\ IsFiniteSet(Found(p, D, G))
      /\ Cardinality(Found(p, D, G)) = Cardinality(Found(q, D, G)) + (IF e \in G THEN 1 ELSE 0)
  BY <1>1, FoundMore
<1>3. n \in Nat
  BY <1>1, FS_CardinalityType
<1> QED BY <1>1, <1>2, <1>3 DEF Owed

\* or shrinks by one.
LEMMA OwedLess ==
    ASSUME NEW D, NEW T, NEW q \in [D -> Seq(T)], NEW c \in D, q[c] # <<>>,
           NEW p, p = Take(q, c),
           NEW G, NEW n, Owed(q, D, G, n)
    PROVE  /\ n \in Nat /\ (Head(q[c]) \in G => n - 1 \in Nat)
           /\ Owed(p, D, G, n - (IF Head(q[c]) \in G THEN 1 ELSE 0))
<1>1. IsFiniteSet(Found(q, D, G)) /\ n = Cardinality(Found(q, D, G))
  BY DEF Owed
<1>2. /\ IsFiniteSet(Found(p, D, G))
      /\ Cardinality(Found(q, D, G)) =
            Cardinality(Found(p, D, G)) + (IF Head(q[c]) \in G THEN 1 ELSE 0)
  BY <1>1, FoundLess
<1>3. Cardinality(Found(q, D, G)) \in Nat /\ Cardinality(Found(p, D, G)) \in Nat
  BY <1>1, <1>2, FS_CardinalityType
<1> QED BY <1>1, <1>2, <1>3 DEF Owed

\* Taking from a channel leaves a channel.
LEMMA Shorter ==
    ASSUME NEW D, NEW T, NEW q \in [D -> Seq(T)], NEW c \in D, q[c] # <<>>,
           NEW p, p = Take(q, c)
    PROVE  Head(q[c]) \in T /\ p \in [D -> Seq(T)]
BY DEF Take

\* A message goes through a channel of the benchmark.
LEMMA ChannelUsed ==
    ASSUME RunTyped, PlaceTyped, NEW a \in Actors[bench], NEW c,
           \/ At(a, {"isend"}) /\ c = <<a[1], Now(a).peer, Now(a).tag>>
           \/ At(a, {"irecv"}) /\ c = <<Now(a).peer, a[1], Now(a).tag>>
    PROVE  c \in Channels[bench]
<1>1. /\ a[1] \in Ranks[bench] /\ Script(a) \in Seq(Calls) /\ pc[a] \in 1 .. Len(Script(a))
  BY Doing
<1>2. (At(a, {"isend"}) => Now(a).op = "isend") /\ (At(a, {"irecv"}) => Now(a).op = "irecv")
  BY DEF At, Now
<1>3. Now(a) \in ToSet(Script(a))
  BY <1>1 DEF ToSet, Now
<1>4. c \in ChannelsOf(Script(a), a[1])
  BY <1>2, <1>3 DEF ChannelsOf
<1> DEFINE all(b) == UNION {UNION {ChannelsOf(Scripts[b][o][r], r) : o \in OptionsOf(b)} : r \in Ranks[b]}
           F == [b \in Benchmarks |-> all(b)]
<1>5. c \in all(bench)
  <2>1. c \in UNION {ChannelsOf(Scripts[bench][o][a[1]], a[1]) : o \in OptionsOf(bench)}
    BY <1>4 DEF Script, RunTyped
  <2> QED BY <1>1, <2>1
<1>6. Channels = Table(F)
  BY DEF Channels
<1>7. F[bench] = all(bench)
  BY DEF RunTyped
<1> HIDE DEF F, all
<1> QED BY <1>5, <1>6, <1>7, Tables

Counters == [isend : Nat, irecv : Nat]

\* A send that finds a receive completes it; else both of its ends wait for it.
LEMMA SendStep ==
    ASSUME RunTyped, PlaceTyped, MessagesTyped, DataTyped, Waiting, NEW a \in Actors[bench], PostSend(a)
    PROVE  MessagesTyped' /\ Waiting'
<1> DEFINE op == Now(a)
           c == <<a[1], op.peer, op.tag>>
           stamp == buffer[a].stamp
           e == [by |-> a, size |-> op.size, stamp |-> stamp]
           D == Channels[bench]
           A == Actors[bench]
<1>1. At(a, {"isend"}) /\ bench' = bench
  BY DEF PostSend, run
<1>2. c \in D /\ op \in Calls /\ op.size \in Nat
  BY <1>1, ChannelUsed, Doing, CallTypes
<1>3. e \in Sent /\ e.by = a /\ e.size = op.size
  <2>1. stamp \in Stamps
    BY DEF DataTyped
  <2> HIDE DEF stamp, op
  <2> QED BY <1>2, <2>1 DEF Sent
<1>4. /\ queue \in [D -> Seq(Sent)] /\ posted \in [D -> Seq(Awaited)] /\ pending \in [A -> Counters]
      /\ \A d \in D : queue[d] = <<>> \/ posted[d] = <<>>
      /\ \A b \in A : /\ Owed(posted, D, ReceivesOf(b), pending[b].irecv)
                      /\ Owed(queue, D, SendsOf(b), pending[b].isend)
  BY DEF MessagesTyped, Waiting, Counters
<1>5. /\ MessagesTyped' <=>
            /\ queue' \in [D -> Seq(Sent)] /\ posted' \in [D -> Seq(Awaited)] /\ pending' \in [A -> Counters]
            /\ \A d \in D : queue'[d] = <<>> \/ posted'[d] = <<>>
      /\ Waiting' <=>
            \A b \in A : /\ Owed(posted', D, ReceivesOf(b), pending'[b].irecv)
                         /\ Owed(queue', D, SendsOf(b), pending'[b].isend)
  BY <1>1 DEF MessagesTyped, Waiting, Counters, ReceivesOf, SendsOf, Awaited, Sent
<1>6. CASE posted[c] # <<>>
  <2> DEFINE to == Head(posted[c])
  <2>1. /\ posted' = Take(posted, c)
        /\ pending' = [pending EXCEPT ![to.by].irecv = @ - 1]
        /\ queue' = queue
    BY <1>6 DEF PostSend, Take
  <2> HIDE DEF c, D, op, e, A
  <2>2. to \in Awaited /\ posted' \in [D -> Seq(Awaited)]
    BY <1>2, <1>4, <1>6, <2>1, Shorter
  <2> HIDE DEF to
  <2>3. to.by \in A
    BY <2>2 DEF Awaited, A
  <2>4. ASSUME NEW b \in A
        PROVE  /\ pending[b].irecv \in Nat /\ (to.by = b => pending[b].irecv - 1 \in Nat)
               /\ Owed(posted', D, ReceivesOf(b), pending[b].irecv - (IF to.by = b THEN 1 ELSE 0))
    <3>1. to \in ReceivesOf(b) <=> to.by = b
      BY <2>2 DEF ReceivesOf
    <3> QED BY <1>2, <1>4, <1>6, <2>1, <3>1, OwedLess DEF to
  <2>5. pending' \in [A -> Counters]
        /\ \A b \in A : /\ pending'[b].isend = pending[b].isend
                        /\ pending'[b].irecv = IF b = to.by THEN pending[b].irecv - 1 ELSE pending[b].irecv
    <3>1. pending[to.by].irecv - 1 \in Nat
      BY <2>3, <2>4
    <3> QED BY <1>4, <2>1, <2>3, <3>1 DEF Counters
  <2>6. \A b \in A : /\ Owed(posted', D, ReceivesOf(b), pending'[b].irecv)
                     /\ Owed(queue', D, SendsOf(b), pending'[b].isend)
    <3> SUFFICES ASSUME NEW b \in A
                 PROVE  /\ Owed(posted', D, ReceivesOf(b), pending'[b].irecv)
                        /\ Owed(queue', D, SendsOf(b), pending'[b].isend)
      OBVIOUS
    <3>1. pending'[b].irecv = pending[b].irecv - (IF to.by = b THEN 1 ELSE 0)
      BY <2>4, <2>5
    <3> QED BY <1>4, <2>1, <2>4, <2>5, <3>1
  <2>7. \A d \in D : queue'[d] = <<>> \/ posted'[d] = <<>>
    <3>1. \A d \in D : d # c => posted'[d] = posted[d]
      BY <1>4, <2>1 DEF Take
    <3>2. queue[c] = <<>>
      BY <1>2, <1>4, <1>6
    <3> QED BY <1>4, <2>1, <3>1, <3>2
  <2> QED BY <1>4, <1>5, <2>1, <2>2, <2>5, <2>6, <2>7
<1>7. CASE posted[c] = <<>>
  <2> DEFINE late == op.size > Eager
  <2>1. /\ queue' = Put(queue, c, e)
        /\ pending' = [pending EXCEPT ![a].isend = IF late THEN @ + 1 ELSE @]
        /\ posted' = posted
    BY <1>7 DEF PostSend, Put
  <2>2. late \in BOOLEAN /\ (late <=> e.size > Eager)
    BY <1>3
  <2> HIDE DEF c, D, op, e, A, late
  <2>3. queue' \in [D -> Seq(Sent)] /\ \A d \in D : d # c => queue'[d] = queue[d]
    BY <1>2, <1>3, <1>4, <2>1 DEF Put
  <2>4. ASSUME NEW b \in A
        PROVE  /\ pending[b].isend \in Nat
               /\ Owed(queue', D, SendsOf(b), pending[b].isend + (IF b = a /\ late THEN 1 ELSE 0))
    <3>1. e \in SendsOf(b) <=> b = a /\ late
      BY <1>3, <2>2 DEF SendsOf
    <3>2. /\ pending[b].isend \in Nat
          /\ Owed(queue', D, SendsOf(b), pending[b].isend + (IF e \in SendsOf(b) THEN 1 ELSE 0))
      <4>1. Owed(queue, D, SendsOf(b), pending[b].isend)
        BY <1>4
      <4> QED BY <1>2, <1>3, <1>4, <2>1, <4>1, OwedMore
    <3>3. (IF e \in SendsOf(b) THEN 1 ELSE 0) = (IF b = a /\ late THEN 1 ELSE 0)
      BY <3>1
    <3> QED BY <3>2, <3>3
  <2>5. pending' \in [A -> Counters]
        /\ \A b \in A : /\ pending'[b].irecv = pending[b].irecv
                        /\ pending'[b].isend = IF b = a /\ late THEN pending[b].isend + 1 ELSE pending[b].isend
    <3>1. a \in A
      BY DEF A
    <3> QED BY <1>4, <2>1, <2>2, <3>1 DEF Counters
  <2>6. \A b \in A : /\ Owed(posted', D, ReceivesOf(b), pending'[b].irecv)
                     /\ Owed(queue', D, SendsOf(b), pending'[b].isend)
    <3> SUFFICES ASSUME NEW b \in A
                 PROVE  /\ Owed(posted', D, ReceivesOf(b), pending'[b].irecv)
                        /\ Owed(queue', D, SendsOf(b), pending'[b].isend)
      OBVIOUS
    <3>1. pending'[b].isend = pending[b].isend + (IF b = a /\ late THEN 1 ELSE 0)
      BY <2>4, <2>5
    <3> QED BY <1>4, <2>1, <2>4, <2>5, <3>1
  <2>7. \A d \in D : queue'[d] = <<>> \/ posted'[d] = <<>>
    BY <1>4, <1>7, <2>1, <2>3
  <2> QED BY <1>4, <1>5, <2>1, <2>3, <2>5, <2>6, <2>7
<1> QED BY <1>6, <1>7

\* A receive that finds a message completes it; else it waits.
LEMMA ReceiveStep ==
    ASSUME RunTyped, PlaceTyped, MessagesTyped, Waiting, NEW a \in Actors[bench], PostReceive(a)
    PROVE  MessagesTyped' /\ Waiting'
<1> DEFINE op == Now(a)
           c == <<op.peer, a[1], op.tag>>
           e == [by |-> a, size |-> op.size]
           D == Channels[bench]
           A == Actors[bench]
<1>1. At(a, {"irecv"}) /\ bench' = bench
  BY DEF PostReceive, run
<1>2. c \in D /\ op \in Calls /\ op.size \in Nat
  BY <1>1, ChannelUsed, Doing, CallTypes
<1>3. e \in Awaited /\ e.by = a
  <2> HIDE DEF op
  <2> QED BY <1>2 DEF Awaited
<1>4. /\ queue \in [D -> Seq(Sent)] /\ posted \in [D -> Seq(Awaited)] /\ pending \in [A -> Counters]
      /\ \A d \in D : queue[d] = <<>> \/ posted[d] = <<>>
      /\ \A b \in A : /\ Owed(posted, D, ReceivesOf(b), pending[b].irecv)
                      /\ Owed(queue, D, SendsOf(b), pending[b].isend)
  BY DEF MessagesTyped, Waiting, Counters
<1>5. /\ MessagesTyped' <=>
            /\ queue' \in [D -> Seq(Sent)] /\ posted' \in [D -> Seq(Awaited)] /\ pending' \in [A -> Counters]
            /\ \A d \in D : queue'[d] = <<>> \/ posted'[d] = <<>>
      /\ Waiting' <=>
            \A b \in A : /\ Owed(posted', D, ReceivesOf(b), pending'[b].irecv)
                         /\ Owed(queue', D, SendsOf(b), pending'[b].isend)
  BY <1>1 DEF MessagesTyped, Waiting, Counters, ReceivesOf, SendsOf, Awaited, Sent
<1>6. CASE queue[c] # <<>>
  <2> DEFINE from == Head(queue[c])
             late == from.size > Eager
  <2>1. /\ queue' = Take(queue, c)
        /\ pending' = [pending EXCEPT ![from.by].isend = IF late THEN @ - 1 ELSE @]
        /\ posted' = posted
    BY <1>6 DEF PostReceive, Take
  <2> HIDE DEF c, D, op, e, A
  <2>2. from \in Sent /\ queue' \in [D -> Seq(Sent)] /\ late \in BOOLEAN
    BY <1>2, <1>4, <1>6, <2>1, Shorter
  <2>3. from.by \in A
    BY <2>2 DEF Sent, A
  <2>4. ASSUME NEW b \in A
        PROVE  /\ pending[b].isend \in Nat /\ (from.by = b /\ late => pending[b].isend - 1 \in Nat)
               /\ Owed(queue', D, SendsOf(b), pending[b].isend - (IF from.by = b /\ late THEN 1 ELSE 0))
    <3>1. from \in SendsOf(b) <=> from.by = b /\ late
      BY <2>2 DEF SendsOf
    <3>2. Owed(queue, D, SendsOf(b), pending[b].isend)
      BY <1>4
    <3> HIDE DEF late
    <3>3. /\ pending[b].isend \in Nat /\ (from \in SendsOf(b) => pending[b].isend - 1 \in Nat)
          /\ Owed(queue', D, SendsOf(b), pending[b].isend - (IF from \in SendsOf(b) THEN 1 ELSE 0))
      BY <1>2, <1>4, <1>6, <2>1, <3>2, OwedLess
    <3>4. (IF from \in SendsOf(b) THEN 1 ELSE 0) = (IF from.by = b /\ late THEN 1 ELSE 0)
      BY <3>1
    <3> HIDE DEF from
    <3> QED BY <3>1, <3>3, <3>4
  <2> HIDE DEF from, late
  <2>5. pending' \in [A -> Counters]
        /\ \A b \in A : /\ pending'[b].irecv = pending[b].irecv
                        /\ pending'[b].isend = IF b = from.by /\ late THEN pending[b].isend - 1 ELSE pending[b].isend
    <3>1. late => pending[from.by].isend - 1 \in Nat
      BY <2>3, <2>4
    <3> QED BY <1>4, <2>1, <2>2, <2>3, <3>1 DEF Counters
  <2>6. \A b \in A : /\ Owed(posted', D, ReceivesOf(b), pending'[b].irecv)
                     /\ Owed(queue', D, SendsOf(b), pending'[b].isend)
    <3> SUFFICES ASSUME NEW b \in A
                 PROVE  /\ Owed(posted', D, ReceivesOf(b), pending'[b].irecv)
                        /\ Owed(queue', D, SendsOf(b), pending'[b].isend)
      OBVIOUS
    <3>1. pending'[b].isend = pending[b].isend - (IF from.by = b /\ late THEN 1 ELSE 0)
      BY <2>4, <2>5
    <3> QED BY <1>4, <2>1, <2>4, <2>5, <3>1
  <2>7. \A d \in D : queue'[d] = <<>> \/ posted'[d] = <<>>
    <3>1. \A d \in D : d # c => queue'[d] = queue[d]
      BY <1>4, <2>1 DEF Take
    <3>2. posted[c] = <<>>
      BY <1>2, <1>4, <1>6
    <3> QED BY <1>4, <2>1, <3>1, <3>2
  <2> QED BY <1>4, <1>5, <2>1, <2>2, <2>5, <2>6, <2>7
<1>7. CASE queue[c] = <<>>
  <2>1. /\ posted' = Put(posted, c, e)
        /\ pending' = [pending EXCEPT ![a].irecv = @ + 1]
        /\ queue' = queue
    BY <1>7 DEF PostReceive, Put
  <2> HIDE DEF c, D, op, e, A
  <2>2. posted' \in [D -> Seq(Awaited)] /\ \A d \in D : d # c => posted'[d] = posted[d]
    BY <1>2, <1>3, <1>4, <2>1 DEF Put
  <2>3. ASSUME NEW b \in A
        PROVE  /\ pending[b].irecv \in Nat
               /\ Owed(posted', D, ReceivesOf(b), pending[b].irecv + (IF b = a THEN 1 ELSE 0))
    <3>1. e \in ReceivesOf(b) <=> b = a
      BY <1>3 DEF ReceivesOf
    <3>2. /\ pending[b].irecv \in Nat
          /\ Owed(posted', D, ReceivesOf(b), pending[b].irecv + (IF e \in ReceivesOf(b) THEN 1 ELSE 0))
      <4>1. Owed(posted, D, ReceivesOf(b), pending[b].irecv)
        BY <1>4
      <4> QED BY <1>2, <1>3, <1>4, <2>1, <4>1, OwedMore
    <3> QED BY <3>1, <3>2
  <2>4. pending' \in [A -> Counters]
        /\ \A b \in A : /\ pending'[b].isend = pending[b].isend
                        /\ pending'[b].irecv = IF b = a THEN pending[b].irecv + 1 ELSE pending[b].irecv
    <3>1. a \in A
      BY DEF A
    <3> QED BY <1>4, <2>1, <3>1 DEF Counters
  <2>5. \A b \in A : /\ Owed(posted', D, ReceivesOf(b), pending'[b].irecv)
                     /\ Owed(queue', D, SendsOf(b), pending'[b].isend)
    <3> SUFFICES ASSUME NEW b \in A
                 PROVE  /\ Owed(posted', D, ReceivesOf(b), pending'[b].irecv)
                        /\ Owed(queue', D, SendsOf(b), pending'[b].isend)
      OBVIOUS
    <3>1. pending'[b].irecv = pending[b].irecv + (IF b = a THEN 1 ELSE 0)
      BY <2>3, <2>4
    <3> QED BY <1>4, <2>1, <2>3, <2>4, <3>1
  <2>6. \A d \in D : queue'[d] = <<>> \/ posted'[d] = <<>>
    BY <1>4, <1>7, <2>1, <2>2
  <2> QED BY <1>4, <1>5, <2>1, <2>2, <2>4, <2>5, <2>6
<1> QED BY <1>6, <1>7

-----------------------------------------------------------------------------
(* Buffers, clocks, epochs, requests and complaints. *)

\* No other call touches the messages.
LEMMA MessagesStep ==
    ASSUME RunTyped, PlaceTyped, MessagesTyped, DataTyped, Waiting, NEW a \in Actors[bench], Acts(a)
    PROVE  MessagesTyped' /\ Waiting'
<1>1. CASE UNCHANGED run /\ UNCHANGED messages
  BY <1>1 DEF run, messages, MessagesTyped, Waiting, Sent, Awaited, ReceivesOf, SendsOf
<1> QED BY <1>1, SendStep, ReceiveStep, Frames

Contents == [holds : {"idle", "filled", "good", "stale"}, stamp : Stamps]

\* What a buffer holds after a receive.
LEMMA ReceivedType ==
    ASSUME NEW b \in Contents, NEW stamps PROVE Received(b, stamps) \in Contents
BY DEF Received, Contents

\* Buffers, stamps and errors keep their types.
LEMMA DataStep ==
    ASSUME RunTyped, PlaceTyped, DataTyped, NEW a \in Actors[bench], Acts(a)
    PROVE  DataTyped'
<1> DEFINE A == Actors[bench]
<1>1. /\ buffer \in [A -> Contents] /\ errors \in [A -> BOOLEAN] /\ failed \in [A -> BOOLEAN]
      /\ spoiled \in BOOLEAN /\ a \in A
  BY DEF DataTyped, Contents
<1>2. UNCHANGED run
  BY Frames
<1>3. DataTyped' <=> /\ buffer' \in [A -> Contents] /\ errors' \in [A -> BOOLEAN]
                     /\ failed' \in [A -> BOOLEAN] /\ spoiled' \in BOOLEAN
  BY <1>2 DEF run, DataTyped, Contents
<1> HIDE DEF A
<1>4. buffer' \in [A -> Contents]
  <2>1. CASE PostSend(a)
    <3> DEFINE h(b) == IF Now(a).size = ReplySize THEN b ELSE Received(b, {buffer[a].stamp})
    <3>1. \/ buffer' = buffer
          \/ \E x : buffer' = [buffer EXCEPT ![x] = h(@)]
      BY <2>1 DEF PostSend
    <3>2. \A b \in Contents : h(b) \in Contents
      BY ReceivedType
    <3> HIDE DEF h
    <3> QED BY <1>1, <3>1, <3>2
  <2>2. CASE PostReceive(a)
    <3> DEFINE h(s) == IF Now(a).size = ReplySize THEN buffer[a] ELSE Received(buffer[a], {s})
    <3>1. \/ buffer' = buffer
          \/ \E s : buffer' = [buffer EXCEPT ![a] = h(s)]
      BY <2>2 DEF PostReceive
    <3>2. \A s : h(s) \in Contents
      BY <1>1, ReceivedType
    <3> HIDE DEF h
    <3> QED BY <1>1, <3>1, <3>2
  <2>3. CASE LeaveCollective(a)
    <3> DEFINE k == UnderWay(a[1])
               all == {ledger[k].in[q].stamp : q \in Needed(ledger[k], a[1])}
               h == IF a[1] \in ledger[k].data /\ Needed(ledger[k], a[1]) # {} THEN Received(buffer[a], all)
                    ELSE buffer[a]
    <3>1. buffer' = [buffer EXCEPT ![a] = h]
      BY <2>3 DEF LeaveCollective
    <3> HIDE DEF k, all
    <3>2. h \in Contents
      BY <1>1, ReceivedType
    <3> HIDE DEF h
    <3> QED BY <1>1, <3>1, <3>2
  <2>4. CASE FillBuffers(a)
    <3>1. Now(a).stamp \in Stamps
      BY <2>4, Doing, CallTypes DEF FillBuffers
    <3>2. [holds |-> "filled", stamp |-> Now(a).stamp] \in Contents
      BY <3>1 DEF Contents
    <3> QED BY <1>1, <2>4, <3>2 DEF FillBuffers
  <2>5. CASE CheckBuffer(a)
    BY <1>1, <2>5 DEF CheckBuffer, Contents
  <2> QED BY <1>1, <2>1, <2>2, <2>3, <2>4, <2>5, Frames
<1>5. errors' \in [A -> BOOLEAN] /\ failed' \in [A -> BOOLEAN] /\ spoiled' \in BOOLEAN
  <2>1. CASE LeaveCollective(a)
    <3> DEFINE k == UnderWay(a[1])
               any == \E q \in Needed(ledger[k], a[1]) : ledger[k].in[q].errors
    <3>1. /\ errors' = [errors EXCEPT ![a] = IF ledger[k].kind = "sum_errors" THEN any ELSE @]
          /\ failed' = failed /\ spoiled' = spoiled
      BY <2>1 DEF LeaveCollective
    <3>2. any \in BOOLEAN
      OBVIOUS
    <3> HIDE DEF k, any
    <3> QED BY <1>1, <3>1, <3>2
  <2>2. CASE CheckBuffer(a)
    <3>1. PICK bad \in BOOLEAN : /\ errors' = [errors EXCEPT ![a] = @ \/ bad]
                                 /\ spoiled' = (spoiled \/ bad)
      BY <2>2 DEF CheckBuffer
    <3>2. failed' = failed
      BY <2>2 DEF CheckBuffer
    <3>3. (errors[a] \/ bad) \in BOOLEAN /\ (spoiled \/ bad) \in BOOLEAN
      OBVIOUS
    <3> QED BY <1>1, <3>1, <3>2, <3>3
  <2>3. CASE Clear(a)
    BY <1>1, <2>3 DEF Clear
  <2>4. CASE ReportErrors(a)
    BY <1>1, <2>4 DEF ReportErrors
  <2> QED BY <1>1, <2>1, <2>2, <2>3, <2>4, Frames DEF counts
<1> QED BY <1>3, <1>4, <1>5

Readings == [running : BOOLEAN, burst : Nat, total : Nat]

\* The clocks keep their types.
LEMMA ClockStep ==
    ASSUME RunTyped, PlaceTyped, ClockTyped, NEW a \in Actors[bench], Acts(a)
    PROVE  ClockTyped'
<1> DEFINE A == Actors[bench]
<1>1. clock \in [A -> Readings] /\ a \in A
  BY DEF ClockTyped, Readings
<1>2. UNCHANGED run
  BY Frames
<1>3. ClockTyped' <=> clock' \in [A -> Readings]
  BY <1>2 DEF run, ClockTyped, Readings
<1> HIDE DEF A
<1>4. clock[a] \in Readings /\ Counted(a) \in Readings
  BY <1>1 DEF Counted, Readings
<1>5. CASE PostSend(a)
  BY <1>1, <1>3, <1>4, <1>5 DEF PostSend
<1>6. CASE PostReceive(a)
  BY <1>1, <1>3, <1>4, <1>6 DEF PostReceive
<1>7. CASE EnterCollective(a)
  BY <1>1, <1>3, <1>4, <1>7 DEF EnterCollective
<1>8. CASE Start(a)
  BY <1>1, <1>3, <1>8 DEF Start, Readings
<1>9. CASE Stop(a)
  BY <1>1, <1>3, <1>9 DEF Stop, Readings
<1>10. CASE AddSample(a)
  BY <1>1, <1>3, <1>10 DEF AddSample, Readings
<1>11. CASE Access(a)
  BY <1>1, <1>3, <1>4, <1>11 DEF Access
<1> QED BY <1>1, <1>3, <1>5, <1>6, <1>7, <1>8, <1>9, <1>10, <1>11, Frames

\* MPI_IN_PLACE leaves buffers.
LEMMA InPlaceType ==
    ASSUME NEW type, NEW root, NEW r, NEW x \in Buffers
    PROVE  OmbApplyMpiInPlace(type, root, r, x) \in Buffers
BY DEF OmbApplyMpiInPlace, Buffers

\* Active buffers and requests keep their types.
LEMMA CallsStep ==
    ASSUME RunTyped, PlaceTyped, CallsTyped, NEW a \in Actors[bench], Acts(a)
    PROVE  CallsTyped'
<1> DEFINE R == Ranks[bench]
           r == a[1]
<1>1. active \in [R -> Buffers] /\ request \in [R -> Requests] /\ r \in R
  BY ActorType DEF CallsTyped, RunTyped
<1>2. UNCHANGED run
  BY Frames
<1>3. CallsTyped' <=> active' \in [R -> Buffers] /\ request' \in [R -> Requests]
  BY <1>2 DEF run, CallsTyped
<1> HIDE DEF R
<1>4. CASE SetActive(a)
  <2>1. OmbApplyMpiInPlace(Now(a).type, Now(a).root, r, active[r]) \in Buffers
    BY <1>1, InPlaceType
  <2> QED BY <1>1, <1>3, <1>4, <2>1 DEF SetActive
<1>5. CASE InitRequest(a)
  <2>1. Now(a).kind \in CollectiveKinds /\ Now(a).root \in Nat
    BY <1>5, Doing, CallTypes DEF InitRequest
  <2>2. [kind |-> Now(a).kind, root |-> Now(a).root, active |-> active[r]] \in Requests
    BY <1>1, <2>1 DEF Requests
  <2> QED BY <1>1, <1>3, <1>5, <2>2 DEF InitRequest
<1>6. CASE FreeRequest(a)
  <2>1. [kind |-> "none"] \in Requests
    BY DEF Requests
  <2> QED BY <1>1, <1>3, <1>6, <2>1 DEF FreeRequest
<1> QED BY <1>1, <1>3, <1>4, <1>5, <1>6, Frames DEF calls

\* Bags of one, and of none, are bags.
LEMMA OneInBag == ASSUME NEW o PROVE IsABag(SetToBag({o})) /\ IsABag(EmptyBag)
BY DEF IsABag, SetToBag, EmptyBag

\* So are sums and differences of bags.
LEMMA MoreInBag ==
    ASSUME NEW B, NEW C, IsABag(B), IsABag(C)
    PROVE  IsABag(B (+) C) /\ IsABag(B (-) C)
<1>1. /\ B = [x \in DOMAIN B |-> B[x]] /\ \A x \in DOMAIN B : B[x] \in Nat /\ B[x] > 0
      /\ C = [x \in DOMAIN C |-> C[x]] /\ \A x \in DOMAIN C : C[x] \in Nat /\ C[x] > 0
  BY DEF IsABag
<1>2. IsABag(B (+) C)
  <2> DEFINE f(x) == (IF x \in DOMAIN B THEN B[x] ELSE 0) + (IF x \in DOMAIN C THEN C[x] ELSE 0)
             S == DOMAIN B \cup DOMAIN C
  <2>1. \A x \in S : f(x) \in Nat /\ f(x) > 0
    BY <1>1
  <2>2. B (+) C = [x \in S |-> f(x)]
    BY DEF (+)
  <2> HIDE DEF f, S
  <2>3. IsABag([x \in S |-> f(x)])
    BY <2>1 DEF IsABag
  <2> QED BY <2>2, <2>3
<1>3. IsABag(B (-) C)
  <2> DEFINE f(x) == IF x \in DOMAIN C THEN B[x] - C[x] ELSE B[x]
             g == [x \in DOMAIN B |-> f(x)]
             S == {x \in DOMAIN g : g[x] > 0}
  <2>1. \A x \in DOMAIN B : f(x) \in Int
    BY <1>1
  <2>2. B (-) C = [x \in S |-> g[x]]
    BY DEF (-)
  <2>3. \A x \in S : g[x] \in Int /\ g[x] > 0
    BY <2>1
  <2> HIDE DEF f, g, S
  <2>4. \A x \in S : g[x] \in Nat /\ g[x] > 0
    BY <2>3
  <2>5. IsABag([x \in S |-> g[x]])
    BY <2>4 DEF IsABag
  <2> QED BY <2>2, <2>5
<1> QED BY <1>2, <1>3

AccessKinds == {"open", "closed", "lock", "start", "fence"}

\* Epochs and remote accesses keep their types.
LEMMA RemoteStep ==
    ASSUME RunTyped, PlaceTyped, RemoteTyped, NEW a \in Actors[bench], Acts(a)
    PROVE  RemoteTyped'
<1> DEFINE R == Ranks[bench]
           r == a[1]
<1>1. /\ air = [q \in R |-> air[q]] /\ \A q \in R : IsABag(air[q])
      /\ access \in [R -> AccessKinds] /\ age \in [R -> Nat] /\ posts \in [R -> Nat] /\ done \in [R -> Nat]
      /\ r \in R
  BY ActorType DEF RemoteTyped, RunTyped, AccessKinds
<1>2. UNCHANGED run
  BY Frames
<1>3. RemoteTyped' <=>
         /\ air' = [q \in R |-> air'[q]] /\ \A q \in R : IsABag(air'[q])
         /\ access' \in [R -> AccessKinds] /\ age' \in [R -> Nat] /\ posts' \in [R -> Nat] /\ done' \in [R -> Nat]
  BY <1>2 DEF run, RemoteTyped, AccessKinds
<1> HIDE DEF R
<1>4. ASSUME NEW C, IsABag(C),
             air' = [air EXCEPT ![r] = @ (+) C] \/ air' = [air EXCEPT ![r] = @ (-) C]
      PROVE  air' = [q \in R |-> air'[q]] /\ \A q \in R : IsABag(air'[q])
  <2>1. IsABag(air[r] (+) C) /\ IsABag(air[r] (-) C)
    BY <1>1, <1>4, MoreInBag
  <2>2. \/ air' = [q \in R |-> IF q = r THEN air[r] (+) C ELSE air[q]]
        \/ air' = [q \in R |-> IF q = r THEN air[r] (-) C ELSE air[q]]
    BY <1>1, <1>4
  <2> QED BY <1>1, <2>1, <2>2
<1>5. ASSUME NEW kind \in AccessKinds, BeginAccess(r, kind) PROVE RemoteTyped'
  BY <1>1, <1>3, <1>5 DEF BeginAccess
<1>6. CASE EnterCollective(a)
  <2>1. BeginAccess(r, "fence") \/ UNCHANGED remote
    BY <1>6 DEF EnterCollective
  <2> QED BY <1>1, <1>3, <1>5, <2>1 DEF remote, AccessKinds
<1>7. CASE Access(a)
  <2> DEFINE o == [to |-> Now(a).peer, fetch |-> Now(a).fetch, via |-> access[r], age |-> age[r]]
  <2>1. air' = [air EXCEPT ![r] = @ (+) SetToBag({o})] /\ UNCHANGED <<access, age, posts, done>>
    BY <1>7 DEF Access, Issue
  <2> HIDE DEF o
  <2> QED BY <1>1, <1>3, <1>4, <2>1, OneInBag
<1>8. CASE Land(a)
  <2>1. /\ \E o : air' = [air EXCEPT ![r] = @ (-) SetToBag({o})]
        /\ UNCHANGED <<access, age, posts, done>>
    BY <1>8 DEF Land, LandOne
  <2> QED BY <1>1, <1>3, <1>4, <2>1, OneInBag
<1>9. CASE Open(a)
  <2>1. Now(a).kind \in AccessKinds
    BY <1>9, Doing, CallTypes DEF Open, AccessKinds
  <2> QED BY <1>5, <1>9, <2>1 DEF Open
<1>10. CASE Close(a)
  BY <1>1, <1>3, <1>10 DEF Close, EndAccess, AccessKinds
<1>11. CASE Expose(a)
  BY <1>1, <1>3, <1>11 DEF Expose, BeginExposure
<1> QED BY <1>1, <1>3, <1>6, <1>7, <1>8, <1>9, <1>10, <1>11, Frames DEF remote

WrongTyped == wrong \subseteq Complaints

\* What ArgumentsLegal forbids.
Illegal == {"in_place", "request", "epoch", "extent"}

\* What a collective call is criticised for; nothing illegal, if its rank is on
\* course.
LEMMA Objections ==
    ASSUME RunTyped, PlaceTyped, NEW a \in Actors[bench], At(a, {"enter"})
    PROVE  /\ Objection(Now(a), a[1]) \subseteq Complaints
           /\ OnCourse /\ bench # Unmade => Objection(Now(a), a[1]) \cap Illegal = {}
<1> DEFINE op == Now(a)
           r == a[1]
<1>1. op \in Calls /\ op.op = "enter" /\ op.form \in Forms
  BY Doing, CallTypes
<1>2. ASSUME OnCourse, bench # Unmade
      PROVE  /\ op.form = "plain" /\ op.kind = "fence" => access[r] \in {"closed", "fence"}
             /\ op.form = "in_place" => LegalInPlace(op.kind, op.root, r, active[r])
             /\ op.form = "persistent" =>
                   /\ request[r].kind # "none"
                   /\ LegalInPlace(request[r].kind, request[r].root, r, request[r].active)
  <2>1. /\ Here(a).local.strict /\ LocalMove(r, op, Here(a).local, There(a).local)
        /\ Here(a).local.access = access[r] /\ Here(a).local.active = active[r]
        /\ Here(a).local.request = request[r]
    BY <1>2, StandsSo
  <2>2. MayEnter(r, op, Here(a).local)
    BY <1>1, <2>1 DEF LocalMove, LegalMove
  <2> QED BY <2>1, <2>2 DEF MayEnter
<1> HIDE DEF op, r
<1>3. CASE op.form = "plain"
  <2>1. ~PSync(op.form) /\ op.form # "in_place" /\ op.form # "persistent"
    BY <1>3 DEF PSync
  <2>2. Objection(op, r) = Unless(op.kind = "fence" => access[r] \in {"closed", "fence"})
    BY <1>3, <2>1 DEF Objection
  <2> QED BY <1>2, <1>3, <2>2 DEF Unless, Complaints, Illegal, op, r
<1>4. CASE PSync(op.form)
  <2>1. op.form # "plain" /\ op.form # "in_place" /\ op.form # "persistent"
    BY <1>4 DEF PSync
  <2>2. Objection(op, r) \subseteq {"psync"}
    BY <1>4, <2>1 DEF Objection
  <2> QED BY <2>2 DEF Complaints, Illegal, op, r
<1>5. CASE op.form = "in_place"
  <2>1. ~PSync(op.form) /\ op.form # "plain" /\ op.form # "persistent"
    BY <1>5 DEF PSync
  <2>2. Objection(op, r) = IF LegalInPlace(op.kind, op.root, r, active[r]) THEN {} ELSE {"in_place"}
    BY <1>5, <2>1 DEF Objection
  <2> QED BY <1>2, <1>5, <2>2 DEF Complaints, Illegal, op, r
<1>6. CASE op.form = "persistent"
  <2>1. ~PSync(op.form) /\ op.form # "plain" /\ op.form # "in_place"
    BY <1>6 DEF PSync
  <2>2. Objection(op, r) =
          IF request[r].kind = "none" THEN {"request"}
          ELSE IF LegalInPlace(request[r].kind, request[r].root, r, request[r].active)
               THEN {} ELSE {"in_place"}
    BY <1>6, <2>1 DEF Objection
  <2> QED BY <1>2, <1>6, <2>2 DEF Complaints, Illegal, op, r
<1> QED BY <1>3, <1>4, <1>5, <1>6 DEF PSync

\* Everything that an action complains about.
LEMMA Complains ==
    ASSUME RunTyped, PlaceTyped, NEW a \in Actors[bench], Acts(a)
    PROVE  \E what : /\ wrong' = wrong \cup what /\ what \subseteq Complaints
                     /\ OnCourse /\ bench # Unmade => what \cap Illegal = {}
<1> DEFINE Says(w) == /\ wrong' = wrong \cup w /\ w \subseteq Complaints
                      /\ OnCourse /\ bench # Unmade => w \cap Illegal = {}
           Others == Complaints \ Illegal
<1>0. {"size", "collective", "unfinished", "unchecked", "alarm", "psync", "touched"} \subseteq Others
  BY DEF Complaints, Illegal
<1>1. ASSUME NEW what \in Others, wrong' = wrong \cup {what} PROVE \E w : Says(w)
  <2>1. Says({what})
    BY <1>1
  <2> HIDE DEF Says
  <2> QED BY <2>1
<1>2. ASSUME NEW what, Says(what) PROVE \E w : Says(w)
  <2> HIDE DEF Says
  <2> QED BY <1>2
<1> SUFFICES \E w : Says(w)
  OBVIOUS
<1> HIDE DEF Others
<1>3. CASE wrong' = wrong
  <2>1. Says({})
    BY <1>3
  <2> HIDE DEF Says
  <2> QED BY <2>1
<1>4. CASE PostSend(a) \/ PostReceive(a)
  <2>1. wrong' = wrong \/ wrong' = wrong \cup {"size"}
    BY <1>4 DEF PostSend, PostReceive, Complain
  <2> HIDE DEF Says
  <2> QED BY <1>0, <1>1, <1>3, <2>1
<1>5. CASE EnterCollective(a)
  <2> DEFINE o == Objection(Now(a), a[1])
  <2>1. wrong' = wrong \cup o \/ wrong' = wrong \cup (o \cup {"collective"})
    <3>1. ASSUME NEW k, wrong' = wrong \cup (o \cup
                   (IF ledger[k].kind = Now(a).kind /\ ledger[k].root = Now(a).root
                         /\ (PSync(Now(a).form) => ledger[k].form = Now(a).form)
                      THEN {} ELSE {"collective"}))
          PROVE  wrong' = wrong \cup o \/ wrong' = wrong \cup (o \cup {"collective"})
      <4> HIDE DEF o
      <4> QED BY <3>1
    <3>2. \/ wrong' = wrong \cup o
          \/ LET k == EntryOf(a[1]) IN
             wrong' = wrong \cup (o \cup
                   (IF ledger[k].kind = Now(a).kind /\ ledger[k].root = Now(a).root
                         /\ (PSync(Now(a).form) => ledger[k].form = Now(a).form)
                      THEN {} ELSE {"collective"}))
      BY <1>5 DEF EnterCollective, Complain
    <3> HIDE DEF o
    <3> QED BY <3>1, <3>2
  <2>2. At(a, {"enter"})
    BY <1>5 DEF EnterCollective
  <2>3. o \subseteq Complaints /\ (OnCourse /\ bench # Unmade => o \cap Illegal = {})
    BY <2>2, Objections
  <2>5. "collective" \in Complaints /\ "collective" \notin Illegal
    BY <1>0 DEF Others
  <2> HIDE DEF o
  <2>6. Says(o) \/ Says(o \cup {"collective"})
    BY <2>1, <2>3, <2>5
  <2> HIDE DEF Says
  <2> QED BY <2>6
<1>6. CASE Stop(a)
  <2>1. wrong' = wrong \/ wrong' = wrong \cup {"unfinished"}
    BY <1>6 DEF Stop, Complain
  <2> HIDE DEF Says
  <2> QED BY <1>0, <1>1, <1>3, <2>1
<1>7. CASE FillBuffers(a)
  <2>1. wrong' = wrong \/ wrong' = wrong \cup {"unchecked"}
    BY <1>7 DEF FillBuffers, Complain
  <2> HIDE DEF Says
  <2> QED BY <1>0, <1>1, <1>3, <2>1
<1>8. CASE CheckBuffer(a)
  <2>1. wrong' = wrong \/ wrong' = wrong \cup {"alarm"}
    BY <1>8 DEF CheckBuffer, Complain
  <2> HIDE DEF Says
  <2> QED BY <1>0, <1>1, <1>3, <2>1
<1>9. CASE TouchMemory(a)
  <2>1. wrong' = wrong \/ wrong' = wrong \cup {"touched"}
    BY <1>9 DEF TouchMemory, Complain
  <2> HIDE DEF Says
  <2> QED BY <1>0, <1>1, <1>3, <2>1
<1>10. ASSUME NEW ops, At(a, ops), OnCourse, bench # Unmade, "report" \notin ops
       PROVE  /\ LegalMove(a[1], Now(a), Here(a).local) /\ Now(a).op \in ops
              /\ Here(a).local.access = access[a[1]] /\ Here(a).local.request = request[a[1]]
  BY <1>10, StandsSo DEF LocalMove
<1>11. CASE FreeRequest(a)
  <2> DEFINE what == IF request[a[1]].kind = "none" THEN {"request"} ELSE {}
  <2>1. At(a, {"free"}) /\ wrong' = wrong \cup what
    BY <1>11 DEF FreeRequest, Complain
  <2>2. OnCourse /\ bench # Unmade => what = {}
    BY <1>10, <2>1 DEF LegalMove
  <2>3. what \subseteq Complaints
    BY DEF Complaints
  <2> HIDE DEF what
  <2>4. Says(what)
    BY <2>1, <2>2, <2>3
  <2> QED BY <1>2, <2>4
<1>12. CASE Access(a)
  <2> DEFINE what == Unless(access[a[1]] # "closed") \cup (IF Now(a).within THEN {} ELSE {"extent"})
  <2>1. At(a, {"rma"}) /\ wrong' = wrong \cup what
    BY <1>12 DEF Access, Complain
  <2>2. OnCourse /\ bench # Unmade => what = {}
    BY <1>10, <2>1 DEF LegalMove, Unless
  <2>3. what \subseteq Complaints
    BY DEF Complaints, Unless
  <2> HIDE DEF what
  <2>4. Says(what)
    BY <2>1, <2>2, <2>3
  <2> QED BY <1>2, <2>4
<1>13. CASE Open(a)
  <2> DEFINE what == Unless(access[a[1]] = "closed")
  <2>1. At(a, {"open"}) /\ wrong' = wrong \cup what
    BY <1>13 DEF Open, Complain
  <2>2. OnCourse /\ bench # Unmade => what = {}
    BY <1>10, <2>1 DEF LegalMove, Unless
  <2>3. what \subseteq Complaints
    BY DEF Complaints, Unless
  <2> HIDE DEF what
  <2>4. Says(what)
    BY <2>1, <2>2, <2>3
  <2> QED BY <1>2, <2>4
<1>14. CASE Close(a)
  <2> DEFINE what == Unless(access[a[1]] = Now(a).kind)
  <2>1. At(a, {"close"}) /\ wrong' = wrong \cup what
    BY <1>14 DEF Close, Complain
  <2>2. OnCourse /\ bench # Unmade => what = {}
    BY <1>10, <2>1 DEF LegalMove, Unless
  <2>3. what \subseteq Complaints
    BY DEF Complaints, Unless
  <2> HIDE DEF what
  <2>4. Says(what)
    BY <2>1, <2>2, <2>3
  <2> QED BY <1>2, <2>4
<1> HIDE DEF Says
<1> QED BY <1>3, <1>4, <1>5, <1>6, <1>7, <1>8, <1>9, <1>11, <1>12, <1>13, <1>14, Frames

-----------------------------------------------------------------------------
(* Every call keeps its actor on its course. *)

\* A call that concerns the rank is made by its only actor.
LEMMA TheOnlyOne ==
    ASSUME RunTyped, PlaceTyped, OnCourse, NEW a \in Actors[bench], NEW ops, At(a, ops),
           "report" \notin ops,
           \/ Now(a).op \in {"in_place", "init", "free", "open", "close"}
           \/ Now(a).op = "enter" /\ Now(a).kind = "fence"
    PROVE  bench # "osu_latency_mt" /\ \A b \in Actors[bench] : b # a => b[1] # a[1]
<1>1. Here(a).local.alone /\ Here(a).local.alone = (bench # "osu_latency_mt")
  BY StandsSo DEF LocalMove, OrderlyMove
<1> QED BY <1>1, OnlyOne

\* The calls that count nothing keep everybody on course.
LEMMA QuietCalls ==
    ASSUME RunTyped, PlaceTyped, OnCourse, ClockTyped, NEW a \in Actors[bench],
           \/ Return(a) \/ LeaveCollective(a) \/ TouchMemory(a) \/ FillBuffers(a) \/ CheckBuffer(a)
           \/ Clear(a) \/ Synchronised(a) \/ Expose(a)
    PROVE  PlaceTyped' /\ OnCourse'
<1>1. ASSUME NEW ops, ops \subseteq {"wait", "leave", "touch", "fill", "check", "clear", "flush", "await", "post"},
             At(a, ops), UNCHANGED run, Advance(a), spoiled => spoiled',
             clock' = clock, access' = access, calls' = calls
      PROVE  PlaceTyped' /\ OnCourse'
  <2>1. Now(a).op \in ops
    BY <1>1 DEF At, Now
  <2>2. ops \subseteq Silent /\ ~(Now(a).op = "enter" /\ Now(a).kind = "fence") /\ ~IsCounted(Now(a))
    BY <1>1, <2>1 DEF Silent, IsCounted
  <2>3. active' = active /\ request' = request
    BY <1>1 DEF calls
  <2> QED BY <1>1, <2>2, <2>3, QuietStep
<1>2. CASE Return(a)
  <2>1. At(a, {"wait"}) /\ UNCHANGED run /\ Advance(a) /\ spoiled' = spoiled /\ clock' = clock
        /\ access' = access /\ calls' = calls
    BY <1>2 DEF Return, counts, remote
  <2> QED BY <1>1, <2>1
<1>3. CASE LeaveCollective(a)
  <2>1. At(a, {"leave"}) /\ UNCHANGED run /\ Advance(a) /\ spoiled' = spoiled /\ clock' = clock
        /\ access' = access /\ calls' = calls
    BY <1>3 DEF LeaveCollective, remote
  <2> QED BY <1>1, <2>1
<1>4. CASE TouchMemory(a)
  <2>1. At(a, {"touch"}) /\ UNCHANGED run /\ Advance(a) /\ spoiled' = spoiled /\ clock' = clock
        /\ access' = access /\ calls' = calls
    BY <1>4 DEF TouchMemory, counts, remote
  <2> QED BY <1>1, <2>1
<1>5. CASE FillBuffers(a)
  <2>1. At(a, {"fill"}) /\ UNCHANGED run /\ Advance(a) /\ spoiled' = spoiled /\ clock' = clock
        /\ access' = access /\ calls' = calls
    BY <1>5 DEF FillBuffers, counts, remote
  <2> QED BY <1>1, <2>1
<1>6. CASE CheckBuffer(a)
  <2>1. At(a, {"check"}) /\ UNCHANGED run /\ Advance(a) /\ (spoiled => spoiled') /\ clock' = clock
        /\ access' = access /\ calls' = calls
    BY <1>6 DEF CheckBuffer, remote
  <2> QED BY <1>1, <2>1
<1>7. CASE Clear(a)
  <2>1. At(a, {"clear"}) /\ UNCHANGED run /\ Advance(a) /\ spoiled' = spoiled /\ clock' = clock
        /\ access' = access /\ calls' = calls
    BY <1>7 DEF Clear, remote
  <2> QED BY <1>1, <2>1
<1>8. CASE Synchronised(a)
  <2>1. At(a, {"flush", "await"}) /\ UNCHANGED run /\ Advance(a) /\ spoiled' = spoiled /\ clock' = clock
        /\ access' = access /\ calls' = calls
    BY <1>8 DEF Synchronised, counts, remote, At
  <2> QED BY <1>1, <2>1
<1>9. CASE Expose(a)
  <2>1. At(a, {"post"}) /\ UNCHANGED run /\ Advance(a) /\ spoiled' = spoiled /\ clock' = clock
        /\ access' = access /\ calls' = calls
    BY <1>9 DEF Expose, BeginExposure, counts
  <2> QED BY <1>1, <2>1
<1> QED BY <1>2, <1>3, <1>4, <1>5, <1>6, <1>7, <1>8, <1>9

\* So do the calls that count,
LEMMA CountedCalls ==
    ASSUME RunTyped, PlaceTyped, OnCourse, ClockTyped, NEW a \in Actors[bench],
           PostSend(a) \/ PostReceive(a) \/ Access(a)
    PROVE  PlaceTyped' /\ OnCourse'
<1>1. ASSUME NEW ops, ops \subseteq {"isend", "irecv", "rma"},
             At(a, ops), UNCHANGED run, Advance(a), spoiled' = spoiled, access' = access, calls' = calls,
             clock' = [clock EXCEPT ![a] = IF IsCounted(Now(a)) THEN Counted(a) ELSE @]
      PROVE  PlaceTyped' /\ OnCourse'
  <2>1. Now(a).op \in ops
    BY <1>1 DEF At, Now
  <2>2. ops \subseteq Silent /\ ~(Now(a).op = "enter" /\ Now(a).kind = "fence")
    BY <1>1, <2>1 DEF Silent
  <2>3. active' = active /\ request' = request
    BY <1>1 DEF calls
  <2>4. CASE IsCounted(Now(a))
    <3>1. clock' = [clock EXCEPT ![a] = Counted(a)]
      BY <1>1, <2>4
    <3> QED BY <1>1, <2>2, <2>3, <2>4, <3>1, CountingStep
  <2>5. CASE ~IsCounted(Now(a))
    <3>1. clock' = clock
      BY <1>1, <2>5 DEF ClockTyped
    <3> QED BY <1>1, <2>2, <2>3, <2>5, <3>1, QuietStep
  <2> QED BY <2>4, <2>5
<1>2. CASE PostSend(a) \/ PostReceive(a)
  <2>1. /\ At(a, {"isend", "irecv"}) /\ UNCHANGED run /\ Advance(a) /\ spoiled' = spoiled
        /\ access' = access /\ calls' = calls
        /\ clock' = [clock EXCEPT ![a] = IF Now(a).size = ReplySize THEN @ ELSE Counted(a)]
    BY <1>2 DEF PostSend, PostReceive, counts, remote, At
  <2>2. Now(a).op \in {"isend", "irecv"}
    BY <2>1 DEF At, Now
  <2>3. IsCounted(Now(a)) <=> Now(a).size # ReplySize
    BY <2>2 DEF IsCounted
  <2>4. clock' = [clock EXCEPT ![a] = IF IsCounted(Now(a)) THEN Counted(a) ELSE @]
    BY <2>1, <2>3 DEF ClockTyped
  <2> QED BY <1>1, <2>1, <2>4
<1>3. CASE Access(a)
  <2>1. /\ At(a, {"rma"}) /\ UNCHANGED run /\ Advance(a) /\ spoiled' = spoiled
        /\ access' = access /\ calls' = calls
        /\ clock' = [clock EXCEPT ![a] = Counted(a)]
    BY <1>3 DEF Access, Issue, counts
  <2>2. IsCounted(Now(a))
    BY <2>1 DEF IsCounted, At, Now
  <2>3. clock' = [clock EXCEPT ![a] = IF IsCounted(Now(a)) THEN Counted(a) ELSE @]
    BY <2>1, <2>2
  <2> QED BY <1>1, <2>1, <2>3
<1> QED BY <1>2, <1>3

\* and those of the clock,
LEMMA TimedCalls ==
    ASSUME RunTyped, PlaceTyped, OnCourse, ClockTyped, NEW a \in Actors[bench],
           Start(a) \/ Stop(a) \/ AddSample(a)
    PROVE  PlaceTyped' /\ OnCourse'
<1> DEFINE p == clock[a]
<1>1. At(a, {"start", "stop", "sample"}) /\ UNCHANGED run /\ Advance(a) /\ spoiled' = spoiled
      /\ access' = access /\ active' = active /\ request' = request
  BY DEF Start, Stop, AddSample, counts, remote, calls, At
<1>2. p \in [running : BOOLEAN, burst : Nat, total : Nat]
  BY DEF ClockTyped
<1>3. /\ Here(a).clock \in Clocks /\ There(a).clock \in Clocks /\ Now(a) \in Calls
      /\ Reads(p, Here(a).clock) /\ ClockMove(Now(a), Here(a).clock, There(a).clock)
      /\ Now(a).op \in {"start", "stop", "sample"}
  BY <1>1, StandsSo
<1>4. /\ There(a).local.access = access'[a[1]] /\ There(a).local.active = active'[a[1]]
      /\ There(a).local.request = request'[a[1]]
  <2>1. /\ Here(a).local \in Locals /\ There(a).local \in Locals
        /\ Here(a).local.access = access[a[1]] /\ Here(a).local.active = active[a[1]]
        /\ Here(a).local.request = request[a[1]]
        /\ LocalMove(a[1], Now(a), Here(a).local, There(a).local)
    BY <1>1, StandsSo
  <2>2. /\ There(a).local.access = Here(a).local.access
        /\ There(a).local.active = Here(a).local.active
        /\ There(a).local.request = Here(a).local.request
    BY <1>3, <2>1, Changing
  <2> QED BY <1>1, <2>1, <2>2
<1>5. \A b \in Actors[bench] : b # a => clock'[b] = clock[b]
  BY DEF Start, Stop, AddSample, ClockTyped
<1>6. Reads(clock'[a], There(a).clock)
  <2>1. CASE Start(a)
    <3>1. Now(a).op = "start" /\ clock'[a] = Restarted(clock[a])
      BY <2>1 DEF Start, At, Now, ClockTyped, Restarted
    <3> QED BY <1>2, <1>3, <3>1, ClockReads
  <2>2. CASE Stop(a)
    <3>1. Now(a).op = "stop" /\ clock'[a] = Ended(clock[a])
      BY <2>2 DEF Stop, At, Now, ClockTyped, Ended
    <3> QED BY <1>2, <1>3, <3>1, ClockReads
  <2>3. CASE AddSample(a)
    <3>1. Now(a).op = "sample" /\ clock'[a] = Added(clock[a])
      BY <2>3 DEF AddSample, At, Now, ClockTyped, Added
    <3> QED BY <1>2, <1>3, <3>1, ClockReads
  <2> QED BY <2>1, <2>2, <2>3
<1>7. "report" \notin {"start", "stop", "sample"}
  OBVIOUS
<1> QED BY <1>1, <1>4, <1>5, <1>6, <1>7, Onward

\* A call for the whole rank, that counts nothing.
LEMMA RankStep ==
    ASSUME RunTyped, PlaceTyped, OnCourse, ClockTyped, NEW a \in Actors[bench], NEW ops, At(a, ops),
           "report" \notin ops, UNCHANGED run, Advance(a), spoiled' = spoiled, clock' = clock,
           \/ Now(a).op \in {"in_place", "init", "free", "open", "close"}
           \/ Now(a).op = "enter" /\ Now(a).kind = "fence",
           \A r \in Ranks[bench] : r # a[1] => /\ access'[r] = access[r] /\ active'[r] = active[r]
                                               /\ request'[r] = request[r],
           There(a).local.access = access'[a[1]],
           There(a).local.active = active'[a[1]], There(a).local.request = request'[a[1]]
    PROVE  PlaceTyped' /\ OnCourse'
<1>1. \A b \in Actors[bench] : b # a => b[1] # a[1] /\ b[1] \in Ranks[bench]
  BY TheOnlyOne, ActorType DEF RunTyped
<1>2. \A b \in Actors[bench] : b # a => /\ clock'[b] = clock[b] /\ access'[b[1]] = access[b[1]]
                                        /\ active'[b[1]] = active[b[1]] /\ request'[b[1]] = request[b[1]]
  BY <1>1
<1>3. Reads(clock'[a], There(a).clock)
  <2>1. /\ Here(a).clock \in Clocks /\ There(a).clock \in Clocks /\ Now(a) \in Calls
        /\ Reads(clock[a], Here(a).clock) /\ ClockMove(Now(a), Here(a).clock, There(a).clock)
    BY StandsSo
  <2>2. Now(a).op \notin {"start", "stop", "sample"} /\ ~IsCounted(Now(a))
    BY DEF IsCounted
  <2>3. clock[a] \in [running : BOOLEAN, burst : Nat, total : Nat]
    BY DEF ClockTyped
  <2> QED BY <2>1, <2>2, <2>3, ClockReads
<1> QED BY <1>2, <1>3, Onward

\* What the call leaves its rank with.
LEMMA RankCall ==
    ASSUME RunTyped, PlaceTyped, OnCourse, NEW a \in Actors[bench],
           NEW op \in {"in_place", "init", "free", "open", "close", "enter"}, At(a, {op})
    PROVE  /\ Now(a).op = op /\ a[1] \in Ranks[bench]
           /\ op = "in_place" => There(a).local.active = OmbApplyMpiInPlace(Now(a).type, Now(a).root, a[1], active[a[1]])
           /\ op # "in_place" => There(a).local.active = active[a[1]]
           /\ op = "init" => There(a).local.request = [kind |-> Now(a).kind, root |-> Now(a).root, active |-> active[a[1]]]
           /\ op = "free" => There(a).local.request = [kind |-> "none"]
           /\ op \notin {"init", "free"} => There(a).local.request = request[a[1]]
           /\ op = "open" => There(a).local.access = Now(a).kind
           /\ op = "close" => There(a).local.access = "closed"
           /\ op = "enter" /\ Now(a).kind = "fence" => There(a).local.access = "fence"
           /\ op \notin {"open", "close", "enter"} => There(a).local.access = access[a[1]]
<1> DEFINE x == Here(a).local
           y == There(a).local
           c == Now(a)
<1>1. /\ x \in Locals /\ y \in Locals /\ c \in Calls /\ c.op = op /\ LocalMove(a[1], c, x, y)
      /\ x.access = access[a[1]] /\ x.active = active[a[1]] /\ x.request = request[a[1]]
      /\ a[1] \in Ranks[bench]
  <2>1. "report" \notin {op}
    OBVIOUS
  <2> QED BY <2>1, StandsSo
<1> HIDE DEF x, y, c
<1>2. /\ y.active = IF c.op = "in_place" THEN OmbApplyMpiInPlace(c.type, c.root, a[1], x.active)
                    ELSE x.active
      /\ y.request = IF c.op = "init"
                       THEN [kind |-> c.kind, root |-> c.root, active |-> x.active]
                     ELSE IF c.op = "free" THEN [kind |-> "none"] ELSE x.request
      /\ y.access = IF c.op = "open" THEN c.kind ELSE IF c.op = "close" THEN "closed"
                    ELSE IF c.op = "enter" /\ c.kind = "fence" THEN "fence" ELSE x.access
  BY <1>1, Changing
<1>3. /\ op = "init" => y.request = [kind |-> c.kind, root |-> c.root, active |-> active[a[1]]]
      /\ op = "free" => y.request = [kind |-> "none"]
      /\ op \notin {"init", "free"} => y.request = request[a[1]]
  BY <1>1, <1>2
<1>4. /\ op = "in_place" => y.active = OmbApplyMpiInPlace(c.type, c.root, a[1], active[a[1]])
      /\ op # "in_place" => y.active = active[a[1]]
  BY <1>1, <1>2
<1>5. /\ op = "open" => y.access = c.kind
      /\ op = "close" => y.access = "closed"
      /\ op = "enter" /\ c.kind = "fence" => y.access = "fence"
      /\ op \notin {"open", "close", "enter"} => y.access = access[a[1]]
  BY <1>1, <1>2
<1> QED BY <1>1, <1>3, <1>4, <1>5 DEF x, y, c

\* and those that change the buffers, the request or the epoch,
LEMMA RankCalls ==
    ASSUME RunTyped, PlaceTyped, OnCourse, ClockTyped, CallsTyped, RemoteTyped, NEW a \in Actors[bench],
           SetActive(a) \/ InitRequest(a) \/ FreeRequest(a) \/ Open(a) \/ Close(a)
    PROVE  PlaceTyped' /\ OnCourse'
<1> DEFINE R == Ranks[bench]
           r == a[1]
<1>1. active \in [R -> Buffers] /\ request \in [R -> Requests] /\ access \in [R -> AccessKinds] /\ r \in R
  BY ActorType DEF RunTyped, CallsTyped, RemoteTyped, AccessKinds
<1>2. ASSUME NEW op \in {"in_place", "init", "free", "open", "close"}, At(a, {op}),
             UNCHANGED run, Advance(a), UNCHANGED counts, clock' = clock,
             \A q \in R : q # r => /\ access'[q] = access[q] /\ active'[q] = active[q]
                                   /\ request'[q] = request[q],
             There(a).local.access = access'[r],
             There(a).local.active = active'[r], There(a).local.request = request'[r]
      PROVE  PlaceTyped' /\ OnCourse'
  <2>1. spoiled' = spoiled
    BY <1>2 DEF counts
  <2>2. Now(a).op \in {"in_place", "init", "free", "open", "close"} /\ "report" \notin {op}
    BY <1>2 DEF At, Now
  <2> QED BY <1>2, <2>1, <2>2, RankStep
<1>3. CASE SetActive(a)
  <2>1. At(a, {"in_place"}) /\ UNCHANGED run /\ Advance(a) /\ UNCHANGED counts /\ clock' = clock
    BY <1>3 DEF SetActive
  <2>2. /\ active' = [active EXCEPT ![r] = OmbApplyMpiInPlace(Now(a).type, Now(a).root, r, @)]
        /\ access' = access /\ request' = request
    BY <1>3 DEF SetActive, remote
  <2>3. /\ Now(a).op = "in_place" /\ There(a).local.request = request[r]
        /\ There(a).local.active = OmbApplyMpiInPlace(Now(a).type, Now(a).root, r, active[r])
        /\ There(a).local.access = access[r]
    BY <2>1, RankCall
  <2>4. /\ active'[r] = OmbApplyMpiInPlace(Now(a).type, Now(a).root, r, active[r])
        /\ \A q \in R : q # r => active'[q] = active[q]
    BY <1>1, <2>2
  <2>5. /\ \A q \in R : q # r => /\ access'[q] = access[q] /\ active'[q] = active[q]
                                  /\ request'[q] = request[q]
        /\ There(a).local.access = access'[r]
        /\ There(a).local.active = active'[r] /\ There(a).local.request = request'[r]
    BY <2>2, <2>3, <2>4
  <2> QED BY <1>2, <2>1, <2>5
<1>4. CASE InitRequest(a)
  <2> DEFINE new == [kind |-> Now(a).kind, root |-> Now(a).root, active |-> active[r]]
  <2>1. At(a, {"init"}) /\ UNCHANGED run /\ Advance(a) /\ UNCHANGED counts /\ clock' = clock
    BY <1>4 DEF InitRequest
  <2>2. request' = [request EXCEPT ![r] = new] /\ access' = access /\ active' = active
    BY <1>4 DEF InitRequest, remote
  <2>3. /\ Now(a).op = "init" /\ There(a).local.request = new
        /\ There(a).local.active = active[r] /\ There(a).local.access = access[r]
    BY <2>1, RankCall
  <2> HIDE DEF new
  <2>4. request'[r] = new /\ \A q \in R : q # r => request'[q] = request[q]
    BY <1>1, <2>2
  <2>5. /\ \A q \in R : q # r => /\ access'[q] = access[q] /\ active'[q] = active[q]
                                  /\ request'[q] = request[q]
        /\ There(a).local.access = access'[r]
        /\ There(a).local.active = active'[r] /\ There(a).local.request = request'[r]
    BY <2>2, <2>3, <2>4
  <2> QED BY <1>2, <2>1, <2>5
<1>5. CASE FreeRequest(a)
  <2> DEFINE new == [kind |-> "none"]
  <2>1. At(a, {"free"}) /\ UNCHANGED run /\ Advance(a) /\ UNCHANGED counts /\ clock' = clock
    BY <1>5 DEF FreeRequest
  <2>2. request' = [request EXCEPT ![r] = new] /\ access' = access /\ active' = active
    BY <1>5 DEF FreeRequest, remote
  <2>3. /\ Now(a).op = "free" /\ There(a).local.request = new
        /\ There(a).local.active = active[r] /\ There(a).local.access = access[r]
    BY <2>1, RankCall
  <2> HIDE DEF new
  <2>4. request'[r] = new /\ \A q \in R : q # r => request'[q] = request[q]
    BY <1>1, <2>2
  <2>5. /\ \A q \in R : q # r => /\ access'[q] = access[q] /\ active'[q] = active[q]
                                  /\ request'[q] = request[q]
        /\ There(a).local.access = access'[r]
        /\ There(a).local.active = active'[r] /\ There(a).local.request = request'[r]
    BY <2>2, <2>3, <2>4
  <2> QED BY <1>2, <2>1, <2>5
<1>6. CASE Open(a)
  <2>1. At(a, {"open"}) /\ UNCHANGED run /\ Advance(a) /\ UNCHANGED counts /\ clock' = clock
    BY <1>6 DEF Open
  <2>2. access' = [access EXCEPT ![r] = Now(a).kind] /\ active' = active /\ request' = request
    BY <1>6 DEF Open, BeginAccess, calls
  <2>3. /\ Now(a).op = "open" /\ There(a).local.access = Now(a).kind
        /\ There(a).local.active = active[r] /\ There(a).local.request = request[r]
    BY <2>1, RankCall
  <2>4. access'[r] = Now(a).kind /\ \A q \in R : q # r => access'[q] = access[q]
    BY <1>1, <2>2
  <2>5. /\ \A q \in R : q # r => /\ access'[q] = access[q] /\ active'[q] = active[q]
                                  /\ request'[q] = request[q]
        /\ There(a).local.access = access'[r]
        /\ There(a).local.active = active'[r] /\ There(a).local.request = request'[r]
    BY <2>2, <2>3, <2>4
  <2> QED BY <1>2, <2>1, <2>5
<1>7. CASE Close(a)
  <2>1. At(a, {"close"}) /\ UNCHANGED run /\ Advance(a) /\ UNCHANGED counts /\ clock' = clock
    BY <1>7 DEF Close
  <2>2. access' = [access EXCEPT ![r] = "closed"] /\ active' = active /\ request' = request
    BY <1>7 DEF Close, EndAccess, calls
  <2>3. /\ Now(a).op = "close" /\ There(a).local.access = "closed"
        /\ There(a).local.active = active[r] /\ There(a).local.request = request[r]
    BY <2>1, RankCall
  <2>4. access'[r] = "closed" /\ \A q \in R : q # r => access'[q] = access[q]
    BY <1>1, <2>2
  <2>5. /\ \A q \in R : q # r => /\ access'[q] = access[q] /\ active'[q] = active[q]
                                  /\ request'[q] = request[q]
        /\ There(a).local.access = access'[r]
        /\ There(a).local.active = active'[r] /\ There(a).local.request = request'[r]
    BY <2>2, <2>3, <2>4
  <2> QED BY <1>2, <2>1, <2>5
<1> QED BY <1>3, <1>4, <1>5, <1>6, <1>7

\* and those that enter a collective operation.
LEMMA EnteringCalls ==
    ASSUME RunTyped, PlaceTyped, OnCourse, ClockTyped, RemoteTyped, NEW a \in Actors[bench],
           EnterCollective(a)
    PROVE  PlaceTyped' /\ OnCourse'
<1> DEFINE r == a[1]
<1>1. /\ At(a, {"enter"}) /\ UNCHANGED run /\ Advance(a) /\ spoiled' = spoiled
      /\ active' = active /\ request' = request
      /\ clock' = [clock EXCEPT ![a] = IF Now(a).kind \in {"sync", "fence"} THEN @ ELSE Counted(a)]
      /\ Now(a).kind = "fence" => access' = [access EXCEPT ![r] = "fence"]
      /\ Now(a).kind # "fence" => access' = access
  BY DEF EnterCollective, counts, calls, BeginAccess, remote
<1>2. Now(a).op = "enter"
  BY <1>1 DEF At, Now
<1>3. {"enter"} \subseteq Silent
  BY DEF Silent
<1>4. CASE Now(a).kind = "fence"
  <2>1. clock' = clock
    BY <1>1, <1>4 DEF ClockTyped
  <2>2. /\ There(a).local.access = "fence" /\ There(a).local.active = active[r]
        /\ There(a).local.request = request[r] /\ r \in Ranks[bench]
    BY <1>1, <1>2, <1>4, RankCall
  <2>3. access'[r] = "fence" /\ \A q \in Ranks[bench] : q # r => access'[q] = access[q]
    BY <1>1, <1>4, <2>2 DEF RemoteTyped
  <2>4. "report" \notin {"enter"}
    OBVIOUS
  <2> QED BY <1>1, <1>2, <1>4, <2>1, <2>2, <2>3, <2>4, RankStep
<1>5. CASE Now(a).kind = "sync"
  <2>1. clock' = clock /\ access' = access
    BY <1>1, <1>5 DEF ClockTyped
  <2>2. ~IsCounted(Now(a)) /\ ~(Now(a).op = "enter" /\ Now(a).kind = "fence")
    BY <1>2, <1>5 DEF IsCounted
  <2> QED BY <1>1, <1>3, <2>1, <2>2, QuietStep
<1>6. CASE Now(a).kind \notin {"sync", "fence"}
  <2>1. clock' = [clock EXCEPT ![a] = Counted(a)] /\ access' = access
    BY <1>1, <1>6
  <2>2. IsCounted(Now(a))
    BY <1>2, <1>6 DEF IsCounted
  <2>3. /\ At(a, {"enter"}) /\ UNCHANGED run /\ Advance(a) /\ (spoiled => spoiled')
        /\ active' = active /\ request' = request
    BY <1>1
  <2> QED BY <1>3, <2>1, <2>2, <2>3, CountingStep
<1> QED BY <1>4, <1>5, <1>6

\* What the ranks have brought into the operations of a list.
Brought(L, S) == \A k \in DOMAIN L : \A q \in DOMAIN L[k].in : L[k].in[q] \in S

\* Errors have been found only where data was spoiled.
Innocent == {p \in Parts : p.errors => spoiled}

Blame == /\ \A a \in Actors[bench] : errors[a] => spoiled
         /\ Brought(ledger, Innocent)

\* A thread that waits at the barrier is at the barrier.
MeetsAt == \A a \in Actors[bench] : a[2] \in met[a[1]] => At(a, {"meet"})

\* Nobody but a has moved, and no clock, epoch, buffer or request has changed.
LEMMA StaysOnCourse ==
    ASSUME RunTyped, PlaceTyped, OnCourse, UNCHANGED run, spoiled => spoiled', NEW a \in Actors[bench],
           clock' = clock, access' = access, active' = active, request' = request,
           \A b \in Actors[bench] : b # a => pc'[b] = pc[b],
           Astray(a)' \/ Follows(a)'
    PROVE  OnCourse'
<1>1. ASSUME NEW b \in Actors[bench], b # a PROVE Astray(b)' \/ Follows(b)'
  BY <1>1, OthersFollow DEF OnCourse
<1>2. Actors[bench]' = Actors[bench]
  BY DEF run
<1> QED BY <1>1, <1>2 DEF OnCourse

\* The election of the serial thread.
LEMMA Elects ==
    ASSUME RunTyped, PlaceTyped, OnCourse, ClockTyped, NEW a \in Actors[bench], Elect(a)
    PROVE  /\ PlaceTyped' /\ OnCourse'
           /\ serial[a[1]] = a[2] => Here(a)' = There(a)
           /\ serial[a[1]] # a[2] => Here(a)' = Here(a)
<1>1. /\ At(a, {"elect"}) /\ UNCHANGED run /\ spoiled' = spoiled /\ clock' = clock
      /\ access' = access /\ active' = active /\ request' = request
      /\ Goto(a, pc[a] + 1 + (IF serial[a[1]] = a[2] THEN 0 ELSE Now(a).else))
  BY DEF Elect, counts, calls, remote
<1>2. /\ pc[a] \in 1 .. Len(Script(a)) /\ Len(Script(a)) \in Nat /\ Now(a).op = "elect"
      /\ Now(a).else \in Nat /\ pc[a] + Now(a).else <= Len(Script(a))
      /\ Course(bench, opt, a[1])[pc[a] + Now(a).else] = Here(a)
  <2>1. Now(a).op = "elect"
    BY <1>1 DEF At, Now
  <2> QED BY <1>1, <2>1, Doing
<1>3. bench' = bench /\ opt' = opt
  BY <1>1 DEF run
<1>4. CASE serial[a[1]] = a[2]
  <2>1. Advance(a)
    <3>1. pc[a] + 1 + 0 = pc[a] + 1
      BY <1>2
    <3> QED BY <1>1, <1>4, <3>1 DEF Advance
  <2>2. PlaceTyped' /\ pc'[a] = pc[a] + 1
    BY <1>1, <2>1, Advances
  <2>3. "report" \notin {"elect"}
    OBVIOUS
  <2>4. /\ Here(a).local \in Locals /\ There(a).local \in Locals
        /\ Here(a).clock \in Clocks /\ There(a).clock \in Clocks /\ Now(a) \in Calls
        /\ Reads(clock[a], Here(a).clock)
        /\ Here(a).local.access = access[a[1]] /\ Here(a).local.active = active[a[1]]
        /\ Here(a).local.request = request[a[1]]
        /\ LocalMove(a[1], Now(a), Here(a).local, There(a).local)
        /\ ClockMove(Now(a), Here(a).clock, There(a).clock)
    BY <1>1, <2>3, StandsSo
  <2>5. /\ There(a).local.access = access'[a[1]] /\ There(a).local.active = active'[a[1]]
        /\ There(a).local.request = request'[a[1]]
    <3>1. /\ There(a).local.access = Here(a).local.access
          /\ There(a).local.active = Here(a).local.active
          /\ There(a).local.request = Here(a).local.request
      BY <1>2, <2>4, Changing
    <3> QED BY <1>1, <2>4, <3>1
  <2>6. Reads(clock'[a], There(a).clock)
    <3>1. clock[a] \in [running : BOOLEAN, burst : Nat, total : Nat]
      BY DEF ClockTyped
    <3>2. Now(a).op \notin {"start", "stop", "sample"} /\ ~IsCounted(Now(a))
      BY <1>2 DEF IsCounted
    <3> QED BY <1>1, <2>4, <3>1, <3>2, ClockReads
  <2>7. OnCourse'
    BY <1>1, <2>1, <2>3, <2>5, <2>6, Onward
  <2>8. pc'[a] - 1 = pc[a]
    BY <1>2, <2>2
  <2>9. Here(a)' = There(a)
    BY <1>3, <2>8 DEF Here, There
  <2> QED BY <1>4, <2>2, <2>7, <2>9
<1>5. CASE serial[a[1]] # a[2]
  <2> DEFINE n == pc[a] + 1 + Now(a).else
  <2>1. n \in 1 .. Len(Script(a)) + 1 /\ n - 1 = pc[a] + Now(a).else
    BY <1>2
  <2>2. Goto(a, n)
    BY <1>1, <1>5
  <2> HIDE DEF n
  <2>3. PlaceTyped' /\ pc'[a] = n /\ \A b \in Actors[bench] : b # a => pc'[b] = pc[b]
    BY <1>1, <2>1, <2>2, GoesTo
  <2>4. Here(a)' = Here(a)
    <3>1. pc'[a] - 1 = pc[a] + Now(a).else
      BY <2>1, <2>3
    <3> QED BY <1>2, <1>3, <3>1 DEF Here
  <2>5. Follows(a)
    BY <1>1, AstrayReports DEF OnCourse
  <2>6. Follows(a)'
    <3>1. Standing(a)' = Standing(a)
      BY <1>1, <1>3, <2>4 DEF Standing
    <3> QED BY <1>1, <2>4, <2>5, <3>1 DEF Follows
  <2>7. OnCourse'
    BY <1>1, <2>3, <2>6, StaysOnCourse
  <2> QED BY <1>5, <2>3, <2>4, <2>7
<1> QED BY <1>4, <1>5

\* An actor that leaves the sizes goes to its exit code.
LEMMA Breaks ==
    ASSUME RunTyped, PlaceTyped, OnCourse, ClockTyped, Blame, NEW a \in Actors[bench], Break(a)
    PROVE  PlaceTyped' /\ OnCourse'
<1>1. /\ At(a, {"break"}) /\ UNCHANGED run /\ spoiled' = spoiled /\ clock' = clock
      /\ access' = access /\ active' = active /\ request' = request
  BY DEF Break, counts, calls, remote
<1>2. Now(a).op = "break"
  BY <1>1 DEF At, Now
<1>3. CASE errors[a]
  <2>1. Goto(a, Len(Script(a)))
    BY <1>3 DEF Break
  <2>2. Len(Script(a)) \in 1 .. Len(Script(a)) + 1 /\ Len(Script(a)) \in Nat
    BY <1>1, Doing
  <2>3. PlaceTyped' /\ pc'[a] = Len(Script(a)) /\ \A b \in Actors[bench] : b # a => pc'[b] = pc[b]
    BY <1>1, <2>1, <2>2, GoesTo
  <2>4. bench \in ReportsErrors
    <3>1. "report" \notin {"break"}
      OBVIOUS
    <3>2. Here(a).local.last /\ Here(a).local.last = (bench \in ReportsErrors)
      BY <1>1, <1>2, <3>1, StandsSo DEF LocalMove, OrderlyMove
    <3> QED BY <3>2
  <2>5. spoiled
    BY <1>3 DEF Blame
  <2>6. Astray(a)'
    <3>1. Script(a)' = Script(a) /\ bench' = bench
      BY <1>1 DEF Script, run
    <3> QED BY <1>1, <2>2, <2>3, <2>4, <2>5, <3>1 DEF Astray
  <2>7. OnCourse'
    BY <1>1, <2>3, <2>6, StaysOnCourse
  <2> QED BY <2>3, <2>7
<1>4. CASE ~errors[a]
  <2>1. Advance(a)
    BY <1>4 DEF Break
  <2>2. {"break"} \subseteq Silent /\ ~IsCounted(Now(a)) /\ ~(Now(a).op = "enter" /\ Now(a).kind = "fence")
    BY <1>2 DEF Silent, IsCounted
  <2> QED BY <1>1, <2>1, <2>2, QuietStep
<1> QED BY <1>3, <1>4

\* An actor that reports its exit code.
LEMMA Reporting ==
    ASSUME RunTyped, PlaceTyped, OnCourse, ClockTyped, NEW a \in Actors[bench], ReportErrors(a)
    PROVE  PlaceTyped' /\ OnCourse'
<1>1. /\ At(a, {"report"}) /\ UNCHANGED run /\ Advance(a) /\ spoiled' = spoiled /\ clock' = clock
      /\ access' = access /\ active' = active /\ request' = request
  BY DEF ReportErrors, calls, remote
<1>2. PlaceTyped' /\ pc'[a] = pc[a] + 1 /\ \A b \in Actors[bench] : b # a => pc'[b] = pc[b]
  BY <1>1, Advances
<1>3. /\ pc[a] \in 1 .. Len(Script(a)) /\ Len(Script(a)) \in Nat /\ Now(a) \in Calls
      /\ Here(a) \in States /\ There(a) \in States
      /\ LocalMove(a[1], Now(a), Here(a).local, There(a).local)
      /\ ClockMove(Now(a), Here(a).clock, There(a).clock)
  BY <1>1, Doing
<1>4. CASE Astray(a)
  <2>1. Script(a)' = Script(a) /\ bench' = bench
    BY <1>1 DEF Script, run
  <2>2. Astray(a)'
    BY <1>1, <1>2, <1>3, <1>4, <2>1 DEF Astray
  <2>3. OnCourse'
    BY <1>1, <1>2, <2>2, StaysOnCourse
  <2> QED BY <1>2, <2>3
<1>5. CASE Follows(a)
  <2>1. Now(a).op = "report"
    BY <1>1 DEF At, Now
  <2>2. /\ Here(a).local \in Locals /\ There(a).local \in Locals
        /\ Here(a).clock \in Clocks /\ There(a).clock \in Clocks
    BY <1>3 DEF States
  <2>3. /\ Here(a).local.access = access[a[1]] /\ Here(a).local.active = active[a[1]]
        /\ Here(a).local.request = request[a[1]] /\ Reads(clock[a], Here(a).clock)
    BY <1>5, Known DEF Follows, Standing
  <2>4. /\ There(a).local.access = Here(a).local.access
        /\ There(a).local.active = Here(a).local.active
        /\ There(a).local.request = Here(a).local.request
    BY <1>3, <2>1, <2>2, Changing
  <2>5. Reads(clock'[a], There(a).clock)
    <3>1. clock[a] \in [running : BOOLEAN, burst : Nat, total : Nat]
      BY DEF ClockTyped
    <3>2. Now(a).op \notin {"start", "stop", "sample"} /\ ~IsCounted(Now(a))
      BY <2>1 DEF IsCounted
    <3> QED BY <1>1, <1>3, <2>2, <2>3, <3>1, <3>2, ClockReads
  <2>6. Follows(a)'
    BY <1>1, <1>2, <1>5, <2>3, <2>4, <2>5, ItselfFollows
  <2>7. OnCourse'
    BY <1>1, <1>2, <2>6, StaysOnCourse
  <2> QED BY <1>2, <2>7
<1> QED BY <1>4, <1>5 DEF OnCourse

\* A remote access that lands moves nobody.
LEMMA Landing ==
    ASSUME RunTyped, PlaceTyped, OnCourse, NEW a \in Actors[bench], Land(a)
    PROVE  PlaceTyped' /\ OnCourse'
<1>1. /\ UNCHANGED run /\ pc' = pc /\ spoiled' = spoiled /\ clock' = clock
      /\ access' = access /\ active' = active /\ request' = request
  BY DEF Land, LandOne, counts, calls
<1>2. bench' = bench /\ \A b : Script(b)' = Script(b)
  BY <1>1 DEF run, Script
<1>3. PlaceTyped'
  BY <1>1, <1>2 DEF PlaceTyped
<1>4. \A b \in Actors[bench] : Astray(b)' \/ Follows(b)'
  BY <1>1, OthersFollow DEF OnCourse
<1> QED BY <1>2, <1>3, <1>4 DEF OnCourse

\* The last thread at the barrier lets all threads of its rank go on.
LEMMA LetGo ==
    ASSUME RunTyped, PlaceTyped, MeetsAt, NEW a \in Actors[bench], Meet(a), met[a[1]] \cup {a[2]} = Threads(bench, a[1]),
           NEW x \in Actors[bench], x[1] = a[1]
    PROVE  At(x, {"meet"})
<1>1. a = <<a[1], a[2]>> /\ x = <<x[1], x[2]>> /\ x[2] \in Threads(bench, a[1])
  BY ActorType DEF RunTyped
<1>2. At(a, {"meet"})
  BY DEF Meet
<1>3. CASE x[2] \in met[a[1]]
  BY <1>3 DEF MeetsAt
<1>4. CASE x[2] = a[2]
  BY <1>1, <1>2, <1>4
<1> QED BY <1>1, <1>3, <1>4

\* The barrier of the threads.
LEMMA Meeting ==
    ASSUME RunTyped, PlaceTyped, OnCourse, ClockTyped, MeetsAt, NEW a \in Actors[bench], Meet(a)
    PROVE  PlaceTyped' /\ OnCourse'
<1>1. /\ UNCHANGED run /\ spoiled' = spoiled /\ clock' = clock
      /\ access' = access /\ active' = active /\ request' = request
  BY DEF Meet, counts, calls, remote
<1>2. bench' = bench /\ \A b : Script(b)' = Script(b)
  BY <1>1 DEF run, Script
<1>3. CASE met[a[1]] \cup {a[2]} = Threads(bench, a[1])
  <2>1. pc' = [x \in Actors[bench] |-> IF x[1] = a[1] THEN pc[x] + 1 ELSE pc[x]]
    BY <1>3 DEF Meet
  <2>2. ASSUME NEW x \in Actors[bench], x[1] = a[1]
        PROVE  pc'[x] \in 1 .. Len(Script(x)) + 1 /\ Follows(x)'
    <3>1. At(x, {"meet"})
      BY <1>3, <2>2, LetGo
    <3>2. "report" \notin {"meet"}
      OBVIOUS
    <3>3. /\ Follows(x)
          /\ Here(x).local \in Locals /\ There(x).local \in Locals
          /\ Here(x).clock \in Clocks /\ There(x).clock \in Clocks /\ Now(x) \in Calls
          /\ Reads(clock[x], Here(x).clock)
          /\ Here(x).local.access = access[x[1]] /\ Here(x).local.active = active[x[1]]
          /\ Here(x).local.request = request[x[1]]
          /\ LocalMove(x[1], Now(x), Here(x).local, There(x).local)
          /\ ClockMove(Now(x), Here(x).clock, There(x).clock)
      BY <3>1, <3>2, StandsSo
    <3>4. Now(x).op = "meet"
      BY <3>1 DEF At, Now
    <3>5. /\ There(x).local.access = Here(x).local.access
          /\ There(x).local.active = Here(x).local.active
          /\ There(x).local.request = Here(x).local.request
      BY <3>3, <3>4, Changing
    <3>6. Reads(clock'[x], There(x).clock)
      <4>1. clock[x] \in [running : BOOLEAN, burst : Nat, total : Nat]
        BY DEF ClockTyped
      <4>2. Now(x).op \notin {"start", "stop", "sample"} /\ ~IsCounted(Now(x))
        BY <3>4 DEF IsCounted
      <4> QED BY <1>1, <3>3, <4>1, <4>2, ClockReads
    <3>7. pc'[x] = pc[x] + 1 /\ pc[x] \in 1 .. Len(Script(x))
      BY <2>1, <2>2, <3>1, Doing
    <3>8. Follows(x)'
      BY <1>1, <3>1, <3>3, <3>5, <3>6, <3>7, ItselfFollows
    <3> QED BY <3>7, <3>8
  <2>3. ASSUME NEW x \in Actors[bench], x[1] # a[1]
        PROVE  pc'[x] \in 1 .. Len(Script(x)) + 1 /\ (Astray(x)' \/ Follows(x)')
    <3>1. pc'[x] = pc[x]
      BY <2>1, <2>3
    <3> QED BY <1>1, <3>1, OthersFollow DEF OnCourse, PlaceTyped
  <2>4. pc' \in [Actors[bench] -> Nat]
    BY <2>1 DEF PlaceTyped
  <2>5. \A x \in Actors[bench] : /\ pc'[x] \in 1 .. Len(Script(x)) + 1
                                 /\ Astray(x)' \/ Follows(x)'
    BY <2>2, <2>3
  <2> QED BY <1>2, <2>4, <2>5 DEF PlaceTyped, OnCourse
<1>4. CASE met[a[1]] \cup {a[2]} # Threads(bench, a[1])
  <2>1. pc' = pc
    BY <1>4 DEF Meet
  <2>2. PlaceTyped'
    BY <1>2, <2>1 DEF PlaceTyped
  <2>3. \A x \in Actors[bench] : Astray(x)' \/ Follows(x)'
    BY <1>1, <2>1, OthersFollow DEF OnCourse
  <2> QED BY <1>2, <2>2, <2>3 DEF OnCourse
<1> QED BY <1>3, <1>4

\* Every call keeps everybody on course.
LEMMA CourseStep ==
    ASSUME RunTyped, PlaceTyped, OnCourse, ClockTyped, CallsTyped, RemoteTyped, Blame, MeetsAt,
           NEW a \in Actors[bench], Acts(a)
    PROVE  PlaceTyped' /\ OnCourse'
<1>1. ASSUME Return(a) \/ LeaveCollective(a) \/ TouchMemory(a) \/ FillBuffers(a) \/ CheckBuffer(a)
             \/ Clear(a) \/ Synchronised(a) \/ Expose(a)
      PROVE  PlaceTyped' /\ OnCourse'
  BY <1>1, QuietCalls
<1>2. ASSUME PostSend(a) \/ PostReceive(a) \/ Access(a) PROVE PlaceTyped' /\ OnCourse'
  BY <1>2, CountedCalls
<1>3. ASSUME Start(a) \/ Stop(a) \/ AddSample(a) PROVE PlaceTyped' /\ OnCourse'
  BY <1>3, TimedCalls
<1>4. ASSUME SetActive(a) \/ InitRequest(a) \/ FreeRequest(a) \/ Open(a) \/ Close(a)
      PROVE  PlaceTyped' /\ OnCourse'
  BY <1>4, RankCalls
<1>5. ASSUME EnterCollective(a) PROVE PlaceTyped' /\ OnCourse'
  BY <1>5, EnteringCalls
<1>6. ASSUME Elect(a) PROVE PlaceTyped' /\ OnCourse'
  BY <1>6, Elects
<1>7. ASSUME Break(a) PROVE PlaceTyped' /\ OnCourse'
  BY <1>7, Breaks
<1>8. ASSUME ReportErrors(a) PROVE PlaceTyped' /\ OnCourse'
  BY <1>8, Reporting
<1>9. ASSUME Land(a) PROVE PlaceTyped' /\ OnCourse'
  BY <1>9, Landing
<1>10. ASSUME Meet(a) PROVE PlaceTyped' /\ OnCourse'
  BY <1>10, Meeting
<1> QED BY <1>1, <1>2, <1>3, <1>4, <1>5, <1>6, <1>7, <1>8, <1>9, <1>10 DEF Acts

-----------------------------------------------------------------------------
(* The threads of osu_latency_mt. *)

\* What the threads know of their barrier keeps its type.
LEMMA ThreadsStep ==
    ASSUME RunTyped, PlaceTyped, ThreadsTyped, NEW a \in Actors[bench], Acts(a)
    PROVE  ThreadsTyped'
<1> DEFINE R == Ranks[bench]
           T == 0 .. SenderThreads + ReceiverThreads
<1>1. /\ met \in [R -> SUBSET T] /\ serial \in [R -> Nat]
      /\ a[1] \in R /\ a[2] \in T
  BY ActorType DEF ThreadsTyped, RunTyped
<1>2. UNCHANGED run
  BY Frames
<1>3. ThreadsTyped' <=> met' \in [R -> SUBSET T] /\ serial' \in [R -> Nat]
  BY <1>2 DEF run, ThreadsTyped
<1>4. Threads(bench, a[1]) \subseteq Nat
  <2>1. ASSUME NEW x \in Actors[bench] PROVE x[2] \in Nat
    BY ActorType DEF RunTyped
  <2> QED BY <2>1 DEF Threads
<1> HIDE DEF R, T
<1>5. CASE Meet(a)
  <2>1. CASE met[a[1]] \cup {a[2]} = Threads(bench, a[1])
    <3>1. PICK t \in Threads(bench, a[1]) : serial' = [serial EXCEPT ![a[1]] = t]
      BY <1>5, <2>1 DEF Meet
    <3>2. met' = [met EXCEPT ![a[1]] = {}]
      BY <1>5, <2>1 DEF Meet
    <3> QED BY <1>1, <1>3, <1>4, <3>1, <3>2
  <2>2. CASE met[a[1]] \cup {a[2]} # Threads(bench, a[1])
    <3>1. met' = [met EXCEPT ![a[1]] = met[a[1]] \cup {a[2]}] /\ serial' = serial
      BY <1>5, <2>2 DEF Meet
    <3> QED BY <1>1, <1>3, <3>1
  <2> QED BY <2>1, <2>2
<1> QED BY <1>1, <1>3, <1>5, Frames DEF threading

\* What each action does to the places of the actors.
LEMMA Moving ==
    ASSUME RunTyped, PlaceTyped, NEW a \in Actors[bench], Acts(a)
    PROVE  \/ Meet(a)
           \/ Land(a) /\ pc' = pc
           \/ /\ \E ops : At(a, ops) /\ "meet" \notin ops
              /\ \A b \in Actors[bench] : b # a => pc'[b] = pc[b]
<1> DEFINE Says(ops) == At(a, ops) /\ "meet" \notin ops
           Elsewhere == \A b \in Actors[bench] : b # a => pc'[b] = pc[b]
<1>1. ASSUME NEW ops, Says(ops) PROVE \E o : Says(o)
  <2> HIDE DEF Says
  <2> QED BY <1>1
<1>2. ASSUME NEW n, Goto(a, n) PROVE Elsewhere
  BY <1>2 DEF Goto, PlaceTyped
<1>3. ASSUME Advance(a) PROVE Elsewhere
  <2> HIDE DEF Elsewhere
  <2> QED BY <1>2, <1>3 DEF Advance
<1>4. CASE Elect(a)
  <2>1. At(a, {"elect"}) /\ Goto(a, pc[a] + 1 + (IF serial[a[1]] = a[2] THEN 0 ELSE Now(a).else))
    BY <1>4 DEF Elect
  <2>2. Says({"elect"})
    BY <2>1
  <2> HIDE DEF Says, Elsewhere
  <2>3. Elsewhere /\ \E o : Says(o)
    BY <1>1, <1>2, <2>1, <2>2
  <2> QED BY <2>3 DEF Says, Elsewhere
<1>5. CASE Break(a)
  <2>1. At(a, {"break"}) /\ (Goto(a, Len(Script(a))) \/ Advance(a))
    BY <1>5 DEF Break
  <2>2. Says({"break"})
    BY <2>1
  <2> HIDE DEF Says, Elsewhere
  <2>3. Elsewhere /\ \E o : Says(o)
    BY <1>1, <1>2, <1>3, <2>1, <2>2
  <2> QED BY <2>3 DEF Says, Elsewhere
<1>6. CASE Land(a)
  BY <1>6 DEF Land
<1>7. CASE ~Meet(a) /\ ~Land(a) /\ ~Elect(a) /\ ~Break(a)
  <2> DEFINE ops == {"isend", "irecv", "enter", "leave", "rma", "touch", "wait", "start", "stop",
                     "sample", "fill", "check", "clear", "report", "in_place", "init", "free",
                     "flush", "await", "open", "close", "post"}
  <2>1. Advance(a)
    BY <1>7 DEF Acts, PostSend, PostReceive, EnterCollective, LeaveCollective, Access, TouchMemory,
       Return, Start, Stop, AddSample, FillBuffers, CheckBuffer, Clear, ReportErrors,
       SetActive, InitRequest, FreeRequest, Synchronised, Open, Close, Expose
  <2>2. At(a, ops)
    <3>1. ASSUME NEW o, At(a, o), o \subseteq ops PROVE At(a, ops)
      BY <3>1 DEF At
    <3>2. ASSUME \/ PostSend(a) \/ PostReceive(a) \/ EnterCollective(a) \/ LeaveCollective(a)
                 \/ Access(a) \/ TouchMemory(a) \/ Return(a)
          PROVE  At(a, ops)
      BY <3>1, <3>2 DEF PostSend, PostReceive, EnterCollective, LeaveCollective, Access, TouchMemory, Return
    <3>3. ASSUME \/ Start(a) \/ Stop(a) \/ AddSample(a) \/ FillBuffers(a)
                 \/ CheckBuffer(a) \/ Clear(a) \/ ReportErrors(a)
          PROVE  At(a, ops)
      BY <3>1, <3>3 DEF Start, Stop, AddSample, FillBuffers, CheckBuffer, Clear, ReportErrors
    <3>4. ASSUME \/ SetActive(a) \/ InitRequest(a) \/ FreeRequest(a) \/ Synchronised(a)
                 \/ Open(a) \/ Close(a) \/ Expose(a)
          PROVE  At(a, ops)
      BY <3>1, <3>4 DEF SetActive, InitRequest, FreeRequest, Synchronised, Open, Close, Expose
    <3> QED BY <1>7, <3>2, <3>3, <3>4 DEF Acts
  <2>3. Says(ops)
    BY <2>2
  <2> HIDE DEF Says, Elsewhere
  <2>4. Elsewhere /\ \E o : Says(o)
    BY <1>1, <1>3, <2>1, <2>3
  <2> QED BY <2>4 DEF Says, Elsewhere
<1> QED BY <1>4, <1>5, <1>6, <1>7

\* Every call keeps the waiting threads where they wait.
LEMMA MeetsAtStep ==
    ASSUME RunTyped, PlaceTyped, ThreadsTyped, MeetsAt, NEW a \in Actors[bench], Acts(a)
    PROVE  MeetsAt'
<1>1. bench' = bench /\ \A b : Script(b)' = Script(b)
  BY Frames DEF run, Script
<1>2. ASSUME NEW b \in Actors[bench], pc'[b] = pc[b], At(b, {"meet"}) PROVE At(b, {"meet"})'
  BY <1>1, <1>2 DEF At, Finished
<1>3. ASSUME NEW b \in Actors[bench], b[2] \in met'[b[1]] PROVE At(b, {"meet"})'
  <2>1. CASE Meet(a)
    <3>1. CASE met[a[1]] \cup {a[2]} = Threads(bench, a[1])
      <4>1. met' = [met EXCEPT ![a[1]] = {}]
            /\ pc' = [x \in Actors[bench] |-> IF x[1] = a[1] THEN pc[x] + 1 ELSE pc[x]]
        BY <2>1, <3>1 DEF Meet
      <4>2. b[1] # a[1] /\ met'[b[1]] = met[b[1]]
        <5>1. met \in [Ranks[bench] -> SUBSET (0 .. SenderThreads + ReceiverThreads)]
              /\ a[1] \in Ranks[bench] /\ b[1] \in Ranks[bench]
          BY ActorType DEF ThreadsTyped, RunTyped
        <5> QED BY <1>3, <4>1, <5>1
      <4>3. pc'[b] = pc[b] /\ At(b, {"meet"})
        BY <1>3, <4>1, <4>2 DEF MeetsAt
      <4> QED BY <1>2, <4>3
    <3>2. CASE met[a[1]] \cup {a[2]} # Threads(bench, a[1])
      <4>1. met' = [met EXCEPT ![a[1]] = met[a[1]] \cup {a[2]}] /\ pc' = pc /\ At(a, {"meet"})
        BY <2>1, <3>2 DEF Meet
      <4>2. b[2] \in met[b[1]] \/ b = a
        <5>1. a = <<a[1], a[2]>> /\ b = <<b[1], b[2]>>
          BY ActorType DEF RunTyped
        <5>2. b[1] = a[1] \/ met'[b[1]] = met[b[1]]
          BY <4>1 DEF ThreadsTyped
        <5>3. b[1] = a[1] => b[2] \in met[b[1]] \/ b[2] = a[2]
          BY <1>3, <4>1, ActorType DEF ThreadsTyped, RunTyped
        <5> QED BY <1>3, <5>1, <5>2, <5>3
      <4> QED BY <1>2, <4>1, <4>2 DEF MeetsAt
    <3> QED BY <3>1, <3>2
  <2>2. CASE ~Meet(a)
    <3>1. met' = met
      BY <2>2, Frames DEF threading
    <3>2. At(b, {"meet"})
      BY <1>3, <3>1 DEF MeetsAt
    <3>3. pc'[b] = pc[b]
      <4>1. CASE pc' = pc
        BY <4>1
      <4>2. ASSUME NEW ops, At(a, ops), "meet" \notin ops PROVE b # a
        BY <3>2, <4>2 DEF At
      <4> QED BY <2>2, <4>1, <4>2, Moving
    <3> QED BY <1>2, <3>2, <3>3
  <2> QED BY <2>1, <2>2
<1> QED BY <1>1, <1>3 DEF MeetsAt

\* Whether an actor is in a collective operation, or has been chosen to call one.
Phase(a) == Here(a).local.phase

\* An actor that stays where it is is in the operation it was in.
LEMMA PhaseStays ==
    ASSUME NEW b, UNCHANGED run, pc'[b] = pc[b]
    PROVE  Phase(b)' = Phase(b)
<1>1. bench' = bench /\ opt' = opt
  BY DEF run
<1>2. Here(b)' = Here(b)
  BY <1>1 DEF Here
<1> QED BY <1>2 DEF Phase

\* How going on changes it.
LEMMA PhaseAdvances ==
    ASSUME RunTyped, PlaceTyped, NEW a \in Actors[bench], NEW ops, At(a, ops), UNCHANGED run, pc'[a] = pc[a] + 1
    PROVE  /\ Here(a)' = There(a)
           /\ "enter" \notin ops /\ "leave" \notin ops => Phase(a) = "out"
           /\ "enter" \notin ops /\ "leave" \notin ops /\ "elect" \notin ops => Phase(a)' = "out"
           /\ ops = {"enter"} => /\ Phase(a)' = "in"
                                 /\ Phase(a) = IF Here(a).local.alone THEN "out" ELSE "chosen"
           /\ ops = {"leave"} => Phase(a) = "in" /\ Phase(a)' = "out"
<1>1. bench' = bench /\ opt' = opt
  BY DEF run
<1>2. Here(a)' = There(a)
  <2>1. pc'[a] - 1 = pc[a]
    BY Doing
  <2> QED BY <1>1, <2>1 DEF Here, There
<1> DEFINE x == Here(a).local
           y == There(a).local
<1>3. /\ x \in Locals /\ y \in Locals /\ Now(a) \in Calls /\ LocalMove(a[1], Now(a), x, y)
      /\ Now(a).op \in ops
  BY Doing DEF States
<1>4. Phase(a) = x.phase /\ Phase(a)' = y.phase
  BY <1>2 DEF Phase
<1> HIDE DEF x, y
<1>5. /\ Now(a).op = "enter" => x.phase = IF x.alone THEN "out" ELSE "chosen"
      /\ Now(a).op = "leave" => x.phase = "in"
      /\ Now(a).op \notin {"enter", "leave"} => x.phase = "out"
  BY <1>3 DEF LocalMove, OrderlyMove
<1>6. y.phase = IF Now(a).op = "enter" THEN "in" ELSE IF Now(a).op = "leave" THEN "out"
                ELSE IF Now(a).op = "elect" THEN "chosen" ELSE x.phase
  BY <1>3, Changing
<1>7. "enter" \notin ops /\ "leave" \notin ops => x.phase = "out"
  BY <1>3, <1>5
<1>8. "enter" \notin ops /\ "leave" \notin ops /\ "elect" \notin ops => y.phase = "out"
  BY <1>3, <1>6, <1>7
<1>9. ops = {"enter"} => y.phase = "in" /\ x.phase = IF x.alone THEN "out" ELSE "chosen"
  BY <1>3, <1>5, <1>6
<1>10. ops = {"leave"} => x.phase = "in" /\ y.phase = "out"
  BY <1>3, <1>5, <1>6
<1> QED BY <1>2, <1>4, <1>7, <1>8, <1>9, <1>10 DEF x

\* The others do nothing, unless they meet.
LEMMA PhaseMeets ==
    ASSUME RunTyped, PlaceTyped, MeetsAt, NEW a \in Actors[bench], Meet(a), NEW b \in Actors[bench]
    PROVE  /\ Phase(b)' = Phase(b)
           /\ Phase(b) = "out" \/ b[1] # a[1] \/ serial' = serial
<1>1. UNCHANGED run
  BY DEF Meet
<1>2. CASE met[a[1]] \cup {a[2]} = Threads(bench, a[1])
  <2>1. pc' = [x \in Actors[bench] |-> IF x[1] = a[1] THEN pc[x] + 1 ELSE pc[x]]
    BY <1>2 DEF Meet
  <2>2. CASE b[1] = a[1]
    <3>1. At(b, {"meet"}) /\ pc'[b] = pc[b] + 1
      BY <1>2, <2>1, <2>2, LetGo
    <3>2. Phase(b) = "out" /\ Phase(b)' = "out"
      BY <1>1, <3>1, PhaseAdvances
    <3> QED BY <3>2
  <2>3. CASE b[1] # a[1]
    <3>1. pc'[b] = pc[b]
      BY <2>1, <2>3
    <3> QED BY <1>1, <2>3, <3>1, PhaseStays
  <2> QED BY <2>2, <2>3
<1>3. CASE met[a[1]] \cup {a[2]} # Threads(bench, a[1])
  <2>1. pc' = pc /\ serial' = serial
    BY <1>3 DEF Meet
  <2> QED BY <1>1, <2>1, PhaseStays
<1> QED BY <1>2, <1>3

\* Leaving the sizes: not within a collective operation.
LEMMA PhaseBreaks ==
    ASSUME RunTyped, PlaceTyped, OnCourse, ClockTyped, NEW a \in Actors[bench], Break(a)
    PROVE  Phase(a)' = Phase(a)
<1>1. At(a, {"break"}) /\ UNCHANGED run
  BY DEF Break
<1>2. Phase(a) = "out"
  <2>1. Phase(a) = Here(a).local.phase /\ Now(a).op = "break" /\ LocalMove(a[1], Now(a), Here(a).local, There(a).local)
    BY <1>1, Doing DEF Phase, At, Now
  <2> QED BY <2>1 DEF LocalMove, OrderlyMove
<1>3. CASE Advance(a)
  <2>1. pc'[a] = pc[a] + 1
    BY <1>1, <1>3, Advances
  <2> QED BY <1>1, <1>2, <2>1, PhaseAdvances
<1>4. CASE Goto(a, Len(Script(a)))
  <2> DEFINE s == Scripts[bench][opt][a[1]]
             f == Course(bench, opt, a[1])
             n == Len(s)
  <2>1. a[1] \in Ranks[bench] /\ n \in Nat \ {0} /\ pc[a] \in 1 .. n /\ s[n].op = "report"
    <3>1. a[1] \in Ranks[bench] /\ pc[a] \in 1 .. Len(Script(a)) /\ Len(Script(a)) \in Nat
      BY <1>1, Doing
    <3>2. bench \in ReportsErrors
      <4>1. "report" \notin {"break"}
        OBVIOUS
      <4>2. Here(a).local.last /\ Here(a).local.last = (bench \in ReportsErrors)
        BY <1>1, <4>1, StandsSo DEF LocalMove, OrderlyMove
      <4> QED BY <4>2
    <3> QED BY <3>1, <3>2, ProgramReports DEF RunTyped, Script
  <2>2. n \in 1 .. n => LocalMove(a[1], s[n], f[n - 1].local, f[n].local)
    BY <2>1, CourseRuns DEF RunTyped
  <2>3. pc'[a] = n
    <3>1. Script(a) = s
      BY DEF Script
    <3>2. n = Len(Script(a)) /\ n \in Nat \ {0}
      BY <2>1, <3>1
    <3> HIDE DEF n
    <3>3. n \in 1 .. Len(Script(a)) + 1 /\ Goto(a, n)
      BY <1>4, <3>2
    <3> QED BY <1>1, <3>3, GoesTo
  <2>4. Here(a)' = f[n - 1]
    <3>1. bench' = bench /\ opt' = opt /\ pc'[a] - 1 = n - 1
      BY <1>1, <2>3 DEF run
    <3> HIDE DEF n
    <3> QED BY <3>1 DEF Here
  <2> HIDE DEF s, f, n
  <2>5. f[n - 1].local.phase = "out"
    BY <2>1, <2>2 DEF LocalMove, OrderlyMove
  <2> QED BY <1>2, <2>4, <2>5 DEF Phase
<1> QED BY <1>3, <1>4 DEF Break

\* The election chooses one of the threads.
LEMMA PhaseElects ==
    ASSUME RunTyped, PlaceTyped, OnCourse, ClockTyped, NEW a \in Actors[bench], Elect(a)
    PROVE  /\ bench = "osu_latency_mt" /\ Phase(a) = "out"
           /\ Phase(a)' = IF serial[a[1]] = a[2] THEN "chosen" ELSE "out"
<1>1. At(a, {"elect"})
  BY DEF Elect
<1>2. "report" \notin {"elect"}
  OBVIOUS
<1>3. /\ Here(a).local \in Locals /\ There(a).local \in Locals /\ Now(a) \in Calls /\ Now(a).op = "elect"
      /\ Here(a).local.alone = (bench # "osu_latency_mt")
      /\ LocalMove(a[1], Now(a), Here(a).local, There(a).local)
  BY <1>1, <1>2, StandsSo
<1>4. /\ ~Here(a).local.alone /\ Here(a).local.phase = "out"
      /\ There(a).local.phase = "chosen"
  <2> DEFINE x == Here(a).local
             y == There(a).local
  <2> HIDE DEF x, y
  <2>1. y.phase = IF Now(a).op = "enter" THEN "in" ELSE IF Now(a).op = "leave" THEN "out"
                  ELSE IF Now(a).op = "elect" THEN "chosen" ELSE x.phase
    BY <1>3, Changing DEF x, y
  <2>2. ~x.alone /\ x.phase = "out"
    BY <1>3 DEF LocalMove, OrderlyMove, x, y
  <2> QED BY <1>3, <2>1, <2>2 DEF x, y
<1>5. /\ serial[a[1]] = a[2] => Here(a)' = There(a)
      /\ serial[a[1]] # a[2] => Here(a)' = Here(a)
  BY Elects
<1>6. Phase(a) = Here(a).local.phase /\ Phase(a)' = Here(a)'.local.phase
  BY DEF Phase
<1>7. serial[a[1]] = a[2] => Phase(a)' = "chosen"
  BY <1>4, <1>5, <1>6
<1>8. serial[a[1]] # a[2] => Phase(a)' = "out"
  BY <1>4, <1>5, <1>6
<1> QED BY <1>3, <1>4, <1>6, <1>7, <1>8

\* Only entering, leaving and the election change it.
LEMMA PhaseRests ==
    ASSUME RunTyped, PlaceTyped, OnCourse, ClockTyped, MeetsAt, NEW a \in Actors[bench], Acts(a)
    PROVE  EnterCollective(a) \/ LeaveCollective(a) \/ Elect(a) \/ Phase(a)' = Phase(a)
<1>1. ASSUME NEW ops, At(a, ops), UNCHANGED run, Advance(a),
             "enter" \notin ops, "leave" \notin ops, "elect" \notin ops
      PROVE  Phase(a)' = Phase(a)
  <2>1. pc'[a] = pc[a] + 1
    BY <1>1, Advances
  <2>2. Phase(a) = "out" /\ Phase(a)' = "out"
    BY <1>1, <2>1, PhaseAdvances
  <2> QED BY <2>2
<1>2. CASE Meet(a)
  BY <1>2, PhaseMeets
<1>3. CASE Break(a)
  BY <1>3, PhaseBreaks
<1>4. CASE Land(a)
  BY <1>4, PhaseStays DEF Land
<1>5. ASSUME \/ PostSend(a) \/ PostReceive(a) \/ Access(a) \/ TouchMemory(a) \/ Return(a) \/ Start(a)
             \/ Stop(a) \/ AddSample(a) \/ FillBuffers(a)
      PROVE  Phase(a)' = Phase(a)
  BY <1>1, <1>5 DEF PostSend, PostReceive, Access, TouchMemory, Return, Start, Stop, AddSample, FillBuffers
<1>6. ASSUME \/ CheckBuffer(a) \/ Clear(a) \/ ReportErrors(a) \/ SetActive(a) \/ InitRequest(a)
             \/ FreeRequest(a) \/ Open(a) \/ Close(a) \/ Expose(a)
      PROVE  Phase(a)' = Phase(a)
  BY <1>1, <1>6 DEF CheckBuffer, Clear, ReportErrors, SetActive, InitRequest, FreeRequest, Open, Close, Expose
<1>7. ASSUME Synchronised(a) PROVE Phase(a)' = Phase(a)
  <2>1. At(a, {"flush", "await"}) /\ UNCHANGED run /\ Advance(a)
    BY <1>7 DEF Synchronised, At
  <2> QED BY <1>1, <2>1
<1> QED BY <1>2, <1>3, <1>4, <1>5, <1>6, <1>7 DEF Acts

\* Entering.
LEMMA PhaseEnters ==
    ASSUME RunTyped, PlaceTyped, OnCourse, NEW a \in Actors[bench], EnterCollective(a)
    PROVE  /\ Phase(a)' = "in"
           /\ bench # "osu_latency_mt" => Phase(a) = "out"
           /\ bench = "osu_latency_mt" => Phase(a) = "chosen"
<1>1. At(a, {"enter"}) /\ UNCHANGED run /\ Advance(a)
  BY DEF EnterCollective
<1>2. pc'[a] = pc[a] + 1
  BY <1>1, Advances
<1>3. "report" \notin {"enter"}
  OBVIOUS
<1>4. Here(a).local.alone = (bench # "osu_latency_mt")
  BY <1>1, <1>3, StandsSo
<1>5. Phase(a)' = "in" /\ Phase(a) = IF Here(a).local.alone THEN "out" ELSE "chosen"
  BY <1>1, <1>2, PhaseAdvances
<1> QED BY <1>4, <1>5

\* Leaving.
LEMMA PhaseLeaves ==
    ASSUME RunTyped, PlaceTyped, NEW a \in Actors[bench], LeaveCollective(a)
    PROVE  Phase(a) = "in" /\ Phase(a)' = "out"
<1>1. At(a, {"leave"}) /\ UNCHANGED run /\ Advance(a)
  BY DEF LeaveCollective
<1>2. pc'[a] = pc[a] + 1
  BY <1>1, Advances
<1> QED BY <1>1, <1>2, PhaseAdvances

\* No call changes it for anybody else.
LEMMA PhaseOthers ==
    ASSUME RunTyped, PlaceTyped, MeetsAt, NEW a \in Actors[bench], Acts(a), NEW b \in Actors[bench], b # a
    PROVE  Phase(b)' = Phase(b)
<1>1. CASE Meet(a)
  BY <1>1, PhaseMeets
<1>2. CASE pc'[b] = pc[b]
  BY <1>2, Frames, PhaseStays
<1>3. Meet(a) \/ pc'[b] = pc[b]
  BY Moving
<1> QED BY <1>1, <1>2, <1>3

\* Of the threads of a rank, only the one chosen last calls a collective operation.
Elected == \A a \in Actors[bench] :
    bench = "osu_latency_mt" /\ Phase(a) # "out" => serial[a[1]] = a[2]

\* Every call keeps it so.
LEMMA ElectedStep ==
    ASSUME RunTyped, PlaceTyped, OnCourse, ClockTyped, ThreadsTyped, MeetsAt, Elected,
           NEW a \in Actors[bench], Acts(a)
    PROVE  Elected'
<1>1. bench' = bench
  BY Frames DEF run
<1>2. ASSUME NEW b \in Actors[bench], bench = "osu_latency_mt", Phase(b)' # "out"
      PROVE  serial'[b[1]] = b[2]
  <2>1. CASE Phase(b) # "out" /\ Phase(b)' = Phase(b)
    <3>1. serial[b[1]] = b[2]
      BY <1>2, <2>1 DEF Elected
    <3>2. serial'[b[1]] = serial[b[1]]
      <4>1. CASE Meet(a)
        <5>1. serial' = serial \/ b[1] # a[1]
          BY <2>1, <4>1, PhaseMeets
        <5>2. serial' = serial \/ \E t : serial' = [serial EXCEPT ![a[1]] = t]
          BY <4>1 DEF Meet
        <5>3. b[1] \in Ranks[bench] /\ serial \in [Ranks[bench] -> Nat]
          BY ActorType DEF ThreadsTyped, RunTyped
        <5> QED BY <5>1, <5>2, <5>3
      <4>2. CASE ~Meet(a)
        BY <4>2, Frames DEF threading
      <4> QED BY <4>1, <4>2
    <3> QED BY <3>1, <3>2
  <2>2. CASE b = a /\ EnterCollective(a)
    <3>1. serial[b[1]] = b[2]
      BY <1>2, <2>2, PhaseEnters DEF Elected
    <3> QED BY <2>2, <3>1 DEF EnterCollective, threading
  <2>3. CASE b = a /\ LeaveCollective(a)
    BY <1>2, <2>3, PhaseLeaves
  <2>4. CASE b = a /\ Elect(a)
    <3>1. serial[b[1]] = b[2]
      <4>1. serial[a[1]] # a[2] => Phase(a)' = "out"
        BY <2>4, PhaseElects
      <4> QED BY <1>2, <2>4, <4>1
    <3> QED BY <2>4, <3>1 DEF Elect, threading
  <2> QED BY <1>2, <2>1, <2>2, <2>3, <2>4, PhaseRests, PhaseOthers
<1> QED BY <1>1, <1>2 DEF Elected

\* Two actors of one rank are not both in a collective operation.
LEMMA OneInside ==
    ASSUME RunTyped, Elected, NEW a \in Actors[bench], NEW b \in Actors[bench], a[1] = b[1],
           bench = "osu_latency_mt" => Phase(a) # "out" /\ Phase(b) # "out"
    PROVE  a = b
<1>1. CASE bench # "osu_latency_mt"
  BY <1>1, OnlyOne
<1>2. CASE bench = "osu_latency_mt"
  <2>1. a[2] = b[2]
    BY <1>2 DEF Elected
  <2> QED BY <2>1, ActorType DEF RunTyped
<1> QED BY <1>1, <1>2

-----------------------------------------------------------------------------
(* The collective operations under way. *)

\* A list of collective operations: each rank has left those before the one it
\* has entered last, and entered those it has left.
Ordered(L) ==
    \A k \in DOMAIN L : \A r \in DOMAIN L[k].in : \A j \in 1 .. k - 1 : r \in L[j].out
Entered(L) == \A k \in DOMAIN L : L[k].out \subseteq DOMAIN L[k].in

Ledgers == {L \in Seq(Entries) : Ordered(L) /\ Entered(L)}

\* The rank is in one of the operations.
IsIn(L, r) == \E k \in DOMAIN L : r \in DOMAIN L[k].in \ L[k].out

\* The parts of an operation that is under way.
LEMMA EntryFields ==
    ASSUME NEW e \in Entries
    PROVE  /\ DOMAIN e.in \subseteq Ranks[bench] /\ e.out \subseteq Ranks[bench]
           /\ e.in \in [DOMAIN e.in -> Parts]
           /\ e.kind \in CollectiveKinds /\ e.root \in Nat /\ e.data \in SUBSET Nat /\ e.form \in Forms
<1>1. PICK S \in SUBSET Ranks[bench] : e.in \in [S -> Parts]
  BY DEF Entries
<1> QED BY <1>1 DEF Entries

\* There is a first number that is not in D.
LEMMA First ==
    ASSUME NEW n \in Nat, NEW D
    PROVE  \E k \in 1 .. n + 1 : (\A j \in 1 .. k - 1 : j \in D) /\ (k <= n => k \notin D)
<1> DEFINE Says(k) == k \in 1 .. n + 1 /\ (\A j \in 1 .. k - 1 : j \in D) /\ (k <= n => k \notin D)
           S == {m \in Nat : m <= n => \A j \in 1 .. m : j \in D}
<1> SUFFICES ASSUME \A k : ~Says(k) PROVE FALSE
  OBVIOUS
<1>1. 0 \in S
  OBVIOUS
<1>2. ASSUME NEW m \in Nat, m \in S PROVE m + 1 \in S
  <2> SUFFICES ASSUME m + 1 <= n PROVE \A j \in 1 .. m + 1 : j \in D
    OBVIOUS
  <2>1. \A j \in 1 .. m : j \in D
    BY <1>2
  <2>2. m + 1 \in D
    <3> DEFINE k == m + 1
    <3>1. k \in 1 .. n + 1 /\ k - 1 = m /\ ~Says(k)
      OBVIOUS
    <3> HIDE DEF k
    <3>2. \A j \in 1 .. k - 1 : j \in D
      BY <2>1, <3>1
    <3>3. k \in D
      BY <3>1, <3>2
    <3> QED BY <3>3 DEF k
  <2>3. \A j \in 1 .. m + 1 : j \in 1 .. m \/ j = m + 1
    OBVIOUS
  <2> QED BY <2>1, <2>2, <2>3
<1>3. n \in S
  <2> HIDE DEF S
  <2> QED BY <1>1, <1>2, Naturals0
<1>4. Says(n + 1)
  <2>1. (n + 1) - 1 = n /\ n + 1 \in 1 .. n + 1 /\ ~(n + 1 <= n)
    OBVIOUS
  <2>2. \A j \in 1 .. n : j \in D
    BY <1>3
  <2> QED BY <2>1, <2>2
<1> QED BY <1>4

\* The next operation a rank enters: it has entered those before, and not this
\* one.
LEMMA NextEntry ==
    ASSUME ledger \in Ledgers, NEW r
    PROVE  /\ EntryOf(r) \in 1 .. Len(ledger) + 1 /\ Len(ledger) \in Nat
           /\ \A j \in 1 .. EntryOf(r) - 1 : r \in DOMAIN ledger[j].in
           /\ EntryOf(r) <= Len(ledger) => r \notin DOMAIN ledger[EntryOf(r)].in
<1> DEFINE n == Len(ledger)
           D == {j \in 1 .. n : r \in DOMAIN ledger[j].in}
           Says(k) == /\ \A j \in 1 .. k - 1 : r \in DOMAIN ledger[j].in
                      /\ k <= n => r \notin DOMAIN ledger[k].in
<1>1. n \in Nat
  BY DEF Ledgers
<1>2. PICK k \in 1 .. n + 1 : (\A j \in 1 .. k - 1 : j \in D) /\ (k <= n => k \notin D)
  <2> HIDE DEF D, n
  <2> QED BY <1>1, First
<1>3. Says(k)
  BY <1>1, <1>2
<1>4. EntryOf(r) = CHOOSE i \in 1 .. n + 1 : Says(i)
  BY DEF EntryOf
<1> HIDE DEF Says, D, n
<1>5. EntryOf(r) \in 1 .. n + 1 /\ Says(EntryOf(r))
  BY <1>2, <1>3, <1>4
<1> QED BY <1>1, <1>5 DEF Says, n

\* The one operation a rank has entered and not left.
LEMMA EntryUnderWay ==
    ASSUME ledger \in Ledgers, NEW r, IsIn(ledger, r)
    PROVE  /\ UnderWay(r) \in DOMAIN ledger
           /\ r \in DOMAIN ledger[UnderWay(r)].in \ ledger[UnderWay(r)].out
           /\ \A k \in DOMAIN ledger : r \in DOMAIN ledger[k].in \ ledger[k].out => k = UnderWay(r)
<1> DEFINE Says(k) == /\ r \in DOMAIN ledger[k].in \ ledger[k].out
                      /\ \A j \in 1 .. k - 1 : r \in ledger[j].out
<1>1. DOMAIN ledger = 1 .. Len(ledger) /\ Len(ledger) \in Nat /\ Ordered(ledger)
  BY DEF Ledgers
<1>2. PICK k \in DOMAIN ledger : r \in DOMAIN ledger[k].in \ ledger[k].out
  BY DEF IsIn
<1>3. \A i \in DOMAIN ledger : r \in DOMAIN ledger[i].in \ ledger[i].out => Says(i)
  BY <1>1 DEF Ordered
<1>4. UnderWay(r) = CHOOSE i \in 1 .. Len(ledger) : Says(i)
  BY DEF UnderWay
<1>5. \A i, j \in DOMAIN ledger : Says(i) /\ Says(j) => i = j
  <2> SUFFICES ASSUME NEW i \in DOMAIN ledger, NEW j \in DOMAIN ledger, Says(i), Says(j), i # j
               PROVE FALSE
    OBVIOUS
  <2>1. i \in 1 .. j - 1 \/ j \in 1 .. i - 1
    BY <1>1
  <2> QED BY <2>1
<1>6. \A i : Says(i) => r \in DOMAIN ledger[i].in \ ledger[i].out
  OBVIOUS
<1> HIDE DEF Says
<1>7. UnderWay(r) \in DOMAIN ledger /\ Says(UnderWay(r))
  BY <1>1, <1>2, <1>3, <1>4
<1> QED BY <1>3, <1>5, <1>6, <1>7

\* An operation that a rank enters, and leaves, the list of them, and a new one.
Joining(e, r, p) == [e EXCEPT !.in = [q \in DOMAIN @ \cup {r} |-> IF q = r THEN p ELSE @[q]]]
Parting(e, r) == [e EXCEPT !.out = @ \cup {r}]
Joined(L, k, r, p) == [L EXCEPT ![k].in = [q \in DOMAIN @ \cup {r} |-> IF q = r THEN p ELSE @[q]]]
Parted(L, k, r) == [L EXCEPT ![k].out = @ \cup {r}]
Opened(op, r, p) == [kind |-> op.kind, root |-> op.root, data |-> op.data, form |-> op.form,
                     in |-> [q \in {r} |-> p], out |-> {}]

\* What entering changes.
LEMMA JoiningFields ==
    ASSUME NEW e \in Entries, NEW r \in Ranks[bench], NEW p \in Parts
    PROVE  LET f == Joining(e, r, p) IN
           /\ f \in Entries /\ f.out = e.out /\ DOMAIN f.in = DOMAIN e.in \cup {r}
           /\ f.in[r] = p /\ \A q \in DOMAIN e.in : q # r => f.in[q] = e.in[q]
<1> DEFINE D == DOMAIN e.in \cup {r}
           g == [q \in D |-> IF q = r THEN p ELSE e.in[q]]
           f == Joining(e, r, p)
<1>1. D \in SUBSET Ranks[bench] /\ e.in \in [DOMAIN e.in -> Parts]
  BY EntryFields
<1>2. g \in [D -> Parts]
  BY <1>1
<1>3. g \in UNION {[S -> Parts] : S \in SUBSET Ranks[bench]}
  BY <1>1, <1>2
<1>4. f = [e EXCEPT !.in = g]
  BY DEF Joining
<1>5. DOMAIN g = DOMAIN e.in \cup {r} /\ g[r] = p /\ \A q \in DOMAIN e.in : q # r => g[q] = e.in[q]
  OBVIOUS
<1> HIDE DEF g, f, D
<1>6. f \in Entries /\ f.in = g /\ f.out = e.out
  BY <1>3, <1>4 DEF Entries
<1> QED BY <1>5, <1>6 DEF f

\* What leaving changes.
LEMMA PartingFields ==
    ASSUME NEW e \in Entries, NEW r \in Ranks[bench]
    PROVE  LET f == Parting(e, r) IN f \in Entries /\ f.out = e.out \cup {r} /\ f.in = e.in
BY DEF Parting, Entries

\* What the first rank finds.
LEMMA OpenedFields ==
    ASSUME NEW op \in Calls, op.op = "enter", NEW r \in Ranks[bench], NEW p \in Parts
    PROVE  LET f == Opened(op, r, p) IN
           f \in Entries /\ f.out = {} /\ DOMAIN f.in = {r} /\ f.in[r] = p
<1>1. [q \in {r} |-> p] \in UNION {[S -> Parts] : S \in SUBSET Ranks[bench]}
  <2>1. {r} \in SUBSET Ranks[bench] /\ [q \in {r} |-> p] \in [{r} -> Parts]
    OBVIOUS
  <2> QED BY <2>1
<1>2. op.kind \in CollectiveKinds /\ op.root \in Nat /\ op.data \in SUBSET Nat /\ op.form \in Forms
  BY CallTypes
<1> QED BY <1>1, <1>2 DEF Opened, Entries

\* A rank joins an operation.
LEMMA Joins ==
    ASSUME NEW L \in Ledgers, NEW r \in Ranks[bench], NEW p \in Parts, NEW k \in DOMAIN L,
           \A j \in 1 .. k - 1 : r \in DOMAIN L[j].in, r \notin DOMAIN L[k].in, ~IsIn(L, r)
    PROVE  LET M == Joined(L, k, r, p) IN
           /\ M \in Ledgers /\ IsIn(M, r)
           /\ \A q : q # r => (IsIn(M, q) <=> IsIn(L, q))
           /\ \A S : Brought(L, S) /\ p \in S => Brought(M, S)
<1> DEFINE M == Joined(L, k, r, p)
           e == Joining(L[k], r, p)
<1>1. L \in Seq(Entries) /\ Ordered(L) /\ Entered(L) /\ DOMAIN L = 1 .. Len(L) /\ Len(L) \in Nat
  BY DEF Ledgers
<1>2. /\ e \in Entries /\ e.out = L[k].out /\ DOMAIN e.in = DOMAIN L[k].in \cup {r}
      /\ e.in[r] = p /\ \A q \in DOMAIN L[k].in : q # r => e.in[q] = L[k].in[q]
  BY <1>1, JoiningFields
<1>3. M = [L EXCEPT ![k] = e]
  BY DEF Joined, Joining
<1> HIDE DEF M, e
<1>4. /\ M \in Seq(Entries) /\ DOMAIN M = DOMAIN L /\ M[k] = e
      /\ \A j \in DOMAIN L : j # k => M[j] = L[j]
  BY <1>1, <1>2, <1>3
<1>5. \A j \in DOMAIN L : M[j].out = L[j].out
  BY <1>2, <1>4
<1>6. \A j \in DOMAIN L : \A q : q \in DOMAIN M[j].in <=> q \in DOMAIN L[j].in \/ (j = k /\ q = r)
  BY <1>2, <1>4
<1>7. Ordered(M)
  <2> SUFFICES ASSUME NEW i \in DOMAIN M, NEW q \in DOMAIN M[i].in, NEW j \in 1 .. i - 1
               PROVE  q \in M[j].out
    BY DEF Ordered
  <2>1. i \in DOMAIN L /\ j \in DOMAIN L /\ M[j].out = L[j].out
    BY <1>1, <1>4, <1>5
  <2>2. CASE q \in DOMAIN L[i].in
    BY <1>1, <2>1, <2>2 DEF Ordered
  <2>3. CASE i = k /\ q = r
    BY <2>1, <2>3 DEF IsIn
  <2> QED BY <1>6, <2>1, <2>2, <2>3
<1>8. Entered(M)
  BY <1>1, <1>4, <1>5, <1>6 DEF Entered
<1>9. IsIn(M, r)
  BY <1>1, <1>4, <1>5, <1>6 DEF IsIn, Entered
<1>10. \A q : q # r => (IsIn(M, q) <=> IsIn(L, q))
  BY <1>4, <1>5, <1>6 DEF IsIn
<1>11. ASSUME NEW S, Brought(L, S), p \in S PROVE Brought(M, S)
  <2> SUFFICES ASSUME NEW i \in DOMAIN M, NEW q \in DOMAIN M[i].in PROVE M[i].in[q] \in S
    BY DEF Brought
  <2>1. i \in DOMAIN L
    BY <1>4
  <2>2. CASE i # k
    BY <1>4, <1>11, <2>1, <2>2 DEF Brought
  <2>3. CASE i = k
    BY <1>2, <1>4, <1>11, <2>1, <2>3 DEF Brought
  <2> QED BY <2>2, <2>3
<1> QED BY <1>4, <1>7, <1>8, <1>9, <1>10, <1>11 DEF Ledgers, M

\* A rank is the first to enter an operation.
LEMMA StartsNew ==
    ASSUME NEW L \in Ledgers, NEW r \in Ranks[bench], NEW p \in Parts, NEW e \in Entries,
           e.out = {}, DOMAIN e.in = {r}, e.in[r] = p,
           \A j \in 1 .. Len(L) : r \in DOMAIN L[j].in, ~IsIn(L, r),
           NEW M, M = Append(L, e)
    PROVE  /\ M \in Ledgers /\ IsIn(M, r)
           /\ \A q : q # r => (IsIn(M, q) <=> IsIn(L, q))
           /\ \A S : Brought(L, S) /\ p \in S => Brought(M, S)
<1> DEFINE n == Len(L)
<1>1. L \in Seq(Entries) /\ Ordered(L) /\ Entered(L) /\ DOMAIN L = 1 .. n /\ n \in Nat
  BY DEF Ledgers
<1>2. /\ M \in Seq(Entries) /\ DOMAIN M = 1 .. n + 1 /\ M[n + 1] = e
      /\ \A j \in DOMAIN L : M[j] = L[j]
  BY <1>1
<1> HIDE DEF n
<1>3. DOMAIN M = DOMAIN L \cup {n + 1} /\ n + 1 \notin DOMAIN L
  BY <1>1, <1>2
<1>4. Ordered(M)
  <2> SUFFICES ASSUME NEW i \in DOMAIN M, NEW q \in DOMAIN M[i].in, NEW j \in 1 .. i - 1
               PROVE  q \in M[j].out
    BY DEF Ordered
  <2>1. j \in DOMAIN L /\ M[j] = L[j]
    BY <1>1, <1>2
  <2>2. CASE i \in DOMAIN L
    BY <1>1, <1>2, <2>1, <2>2 DEF Ordered
  <2>3. CASE i = n + 1
    <3>1. q = r
      BY <1>2, <2>3
    <3>2. r \in DOMAIN L[j].in
      BY <1>1, <2>1 DEF n
    <3> QED BY <2>1, <3>1, <3>2 DEF IsIn
  <2> QED BY <1>3, <2>2, <2>3
<1>5. Entered(M)
  <2>1. \A j \in DOMAIN M : j \in DOMAIN L \/ j = n + 1
    BY <1>3
  <2> QED BY <1>1, <1>2, <2>1 DEF Entered
<1>6. IsIn(M, r)
  <2>1. n + 1 \in DOMAIN M /\ r \in DOMAIN M[n + 1].in \ M[n + 1].out
    BY <1>2, <1>3
  <2> QED BY <2>1 DEF IsIn
<1>7. ASSUME NEW q, q # r PROVE IsIn(M, q) <=> IsIn(L, q)
  <2>1. q \notin DOMAIN M[n + 1].in
    BY <1>2, <1>7
  <2> QED BY <1>2, <1>3, <2>1 DEF IsIn
<1>8. ASSUME NEW S, Brought(L, S), p \in S PROVE Brought(M, S)
  BY <1>2, <1>3, <1>8 DEF Brought
<1>9. M \in Ledgers
  BY <1>2, <1>4, <1>5 DEF Ledgers
<1>10. \A q : q # r => (IsIn(M, q) <=> IsIn(L, q))
  BY <1>7
<1>11. \A S : Brought(L, S) /\ p \in S => Brought(M, S)
  BY <1>8
<1> QED BY <1>6, <1>9, <1>10, <1>11

\* A rank leaves an operation.
LEMMA Departs ==
    ASSUME NEW L \in Ledgers, NEW r \in Ranks[bench], NEW k \in DOMAIN L,
           r \in DOMAIN L[k].in \ L[k].out,
           \A j \in DOMAIN L : r \in DOMAIN L[j].in \ L[j].out => j = k
    PROVE  LET M == Parted(L, k, r) IN
           /\ M \in Ledgers /\ ~IsIn(M, r) /\ Len(M) = Len(L) /\ Len(L) \in Nat \ {0}
           /\ \A q : q # r => (IsIn(M, q) <=> IsIn(L, q))
           /\ \A S : Brought(L, S) => Brought(M, S)
<1> DEFINE M == Parted(L, k, r)
           e == Parting(L[k], r)
<1>1. L \in Seq(Entries) /\ Ordered(L) /\ Entered(L) /\ DOMAIN L = 1 .. Len(L) /\ Len(L) \in Nat
  BY DEF Ledgers
<1>2. e \in Entries /\ e.out = L[k].out \cup {r} /\ e.in = L[k].in
  BY <1>1, PartingFields
<1>3. M = [L EXCEPT ![k] = e]
  BY DEF Parted, Parting
<1> HIDE DEF M, e
<1>4. /\ M \in Seq(Entries) /\ DOMAIN M = DOMAIN L /\ M[k] = e
      /\ \A j \in DOMAIN L : j # k => M[j] = L[j]
  BY <1>1, <1>2, <1>3
<1>5. Len(M) = Len(L) /\ Len(L) # 0
  BY <1>1, <1>3, <1>4
<1>6. \A j \in DOMAIN L : M[j].in = L[j].in
  BY <1>2, <1>4
<1>7. \A j \in DOMAIN L : \A q : q \in M[j].out <=> q \in L[j].out \/ (j = k /\ q = r)
  BY <1>2, <1>4
<1>8. Ordered(M)
  <2> SUFFICES ASSUME NEW i \in DOMAIN M, NEW q \in DOMAIN M[i].in, NEW j \in 1 .. i - 1
               PROVE  q \in M[j].out
    BY DEF Ordered
  <2>1. i \in DOMAIN L /\ j \in DOMAIN L /\ q \in DOMAIN L[i].in
    BY <1>1, <1>4, <1>6
  <2> QED BY <1>1, <1>7, <2>1 DEF Ordered
<1>9. Entered(M)
  BY <1>1, <1>4, <1>6, <1>7 DEF Entered
<1>10. ~IsIn(M, r)
  BY <1>4, <1>6, <1>7 DEF IsIn
<1>11. \A q : q # r => (IsIn(M, q) <=> IsIn(L, q))
  BY <1>4, <1>6, <1>7 DEF IsIn
<1>12. \A S : Brought(L, S) => Brought(M, S)
  BY <1>4, <1>6 DEF Brought
<1>13. M \in Ledgers
  BY <1>4, <1>8, <1>9 DEF Ledgers
<1> QED BY <1>1, <1>5, <1>10, <1>11, <1>12, <1>13 DEF M

\* The first operation has been left by all.
LEMMA Shrinks ==
    ASSUME NEW L \in Ledgers, Len(L) # 0, L[1].out = Ranks[bench]
    PROVE  LET M == Tail(L) IN
           /\ M \in Ledgers
           /\ \A q : IsIn(M, q) <=> IsIn(L, q)
           /\ \A S : Brought(L, S) => Brought(M, S)
<1> DEFINE M == Tail(L)
           n == Len(L)
<1>1. L \in Seq(Entries) /\ Ordered(L) /\ Entered(L) /\ DOMAIN L = 1 .. n /\ n \in Nat \ {0}
  BY DEF Ledgers
<1>2. /\ M \in Seq(Entries) /\ DOMAIN M = 1 .. n - 1
      /\ \A j \in 1 .. n - 1 : M[j] = L[j + 1] /\ j + 1 \in DOMAIN L
  BY <1>1
<1> HIDE DEF M, n
<1>3. Ordered(M)
  <2> SUFFICES ASSUME NEW i \in DOMAIN M, NEW q \in DOMAIN M[i].in, NEW j \in 1 .. i - 1
               PROVE  q \in M[j].out
    BY DEF Ordered
  <2>1. i \in 1 .. n - 1 /\ j \in 1 .. n - 1 /\ j + 1 \in 1 .. (i + 1) - 1
    BY <1>1, <1>2
  <2>2. i + 1 \in DOMAIN L /\ q \in DOMAIN L[i + 1].in
    BY <1>2, <2>1
  <2>3. q \in L[j + 1].out
    BY <1>1, <2>1, <2>2 DEF Ordered
  <2> QED BY <1>2, <2>1, <2>3
<1>4. Entered(M)
  BY <1>1, <1>2 DEF Entered
<1>5. M \in Ledgers
  BY <1>2, <1>3, <1>4 DEF Ledgers
<1>6. ASSUME NEW q, IsIn(M, q) PROVE IsIn(L, q)
  BY <1>2, <1>6 DEF IsIn
<1>7. ASSUME NEW q, IsIn(L, q) PROVE IsIn(M, q)
  <2>1. PICK i \in DOMAIN L : q \in DOMAIN L[i].in \ L[i].out
    BY <1>7 DEF IsIn
  <2>2. i # 1
    <3>1. L[1] \in Entries
      BY <1>1
    <3> QED BY <2>1, <3>1, EntryFields
  <2> DEFINE j == i - 1
  <2>3. j \in 1 .. n - 1 /\ j + 1 = i
    BY <1>1, <2>2
  <2> HIDE DEF j
  <2>4. M[j] = L[i]
    BY <1>2, <2>3
  <2> QED BY <1>2, <2>1, <2>3, <2>4 DEF IsIn
<1>8. ASSUME NEW S, Brought(L, S) PROVE Brought(M, S)
  <2> SUFFICES ASSUME NEW j \in DOMAIN M, NEW q \in DOMAIN M[j].in PROVE M[j].in[q] \in S
    BY DEF Brought
  <2>1. M[j] = L[j + 1] /\ j + 1 \in DOMAIN L
    BY <1>2
  <2> QED BY <1>8, <2>1 DEF Brought
<1> QED BY <1>5, <1>6, <1>7, <1>8 DEF M

LedgerTyped == ledger \in Ledgers

\* A rank is in an operation if one of its actors is.
Inside == \A r \in Ranks[bench] :
    IsIn(ledger, r) <=> \E a \in Actors[bench] : a[1] = r /\ Phase(a) = "in"

\* It suffices to know of the rank that calls.
LEMMA InsideStep ==
    ASSUME Inside, bench' = bench, NEW a \in Actors[bench],
           \A b \in Actors[bench] : b # a => Phase(b)' = Phase(b),
           \A q : q # a[1] => (IsIn(ledger', q) <=> IsIn(ledger, q)),
           IsIn(ledger', a[1]) <=> \E b \in Actors[bench] : b[1] = a[1] /\ Phase(b)' = "in"
    PROVE  Inside'
<1>1. ASSUME NEW q \in Ranks[bench]
      PROVE  IsIn(ledger', q) <=> \E b \in Actors[bench] : b[1] = q /\ Phase(b)' = "in"
  <2>1. CASE q = a[1]
    BY <2>1
  <2>2. CASE q # a[1]
    <3>1. \A b \in Actors[bench] : b[1] = q => Phase(b)' = Phase(b)
      BY <2>2
    <3>2. IsIn(ledger', q) <=> IsIn(ledger, q)
      BY <2>2
    <3>3. IsIn(ledger, q) <=> \E b \in Actors[bench] : b[1] = q /\ Phase(b) = "in"
      BY DEF Inside
    <3> QED BY <3>1, <3>2, <3>3
  <2> QED BY <2>1, <2>2
<1>2. Inside' <=> \A q \in Ranks[bench] :
                     IsIn(ledger', q) <=> \E b \in Actors[bench] : b[1] = q /\ Phase(b)' = "in"
  BY DEF Inside, IsIn
<1> QED BY <1>1, <1>2

\* Entering an operation.
LEMMA EnterStep ==
    ASSUME RunTyped, PlaceTyped, OnCourse, DataTyped, RemoteTyped, MeetsAt, Elected,
           LedgerTyped, Inside, Blame, NEW a \in Actors[bench], EnterCollective(a)
    PROVE  LedgerTyped' /\ Inside' /\ Blame'
<1> DEFINE r == a[1]
           k == EntryOf(r)
           p == [stamp |-> buffer[a].stamp, errors |-> errors[a], age |-> age[r] + 1]
           op == Now(a)
<1>1. /\ At(a, {"enter"}) /\ bench' = bench /\ errors' = errors /\ spoiled' = spoiled /\ Acts(a)
      /\ IF k > Len(ledger) THEN ledger' = Append(ledger, Opened(op, r, p))
                            ELSE ledger' = Joined(ledger, k, r, p)
  BY DEF EnterCollective, run, counts, Acts, Opened, Joined
<1>2. r \in Ranks[bench] /\ op \in Calls /\ op.op = "enter"
  BY <1>1, Doing
<1>3. p \in Parts /\ p \in Innocent
  <2>1. buffer[a].stamp \in Stamps /\ errors[a] \in BOOLEAN /\ age[r] + 1 \in Nat
    BY <1>2 DEF DataTyped, RemoteTyped
  <2>2. errors[a] => spoiled
    BY DEF Blame
  <2> QED BY <2>1, <2>2 DEF Parts, Innocent
<1>4. /\ Phase(a)' = "in"
      /\ bench # "osu_latency_mt" => Phase(a) = "out"
      /\ bench = "osu_latency_mt" => Phase(a) = "chosen"
  BY PhaseEnters
<1>5. ~IsIn(ledger, r)
  <2>1. ASSUME NEW b \in Actors[bench], b[1] = r, Phase(b) = "in" PROVE FALSE
    <3>1. a = b
      BY <1>4, <2>1, OneInside
    <3> QED BY <1>4, <2>1, <3>1
  <2> HIDE DEF r
  <2> QED BY <1>2, <2>1 DEF Inside
<1> HIDE DEF p, k, op
<1>6. /\ k \in 1 .. Len(ledger) + 1 /\ Len(ledger) \in Nat
      /\ \A j \in 1 .. k - 1 : r \in DOMAIN ledger[j].in
      /\ k <= Len(ledger) => r \notin DOMAIN ledger[k].in
  BY NextEntry DEF LedgerTyped, k
<1> DEFINE Result == /\ ledger' \in Ledgers /\ IsIn(ledger', r)
                     /\ \A q : q # r => (IsIn(ledger', q) <=> IsIn(ledger, q))
                     /\ \A S : Brought(ledger, S) /\ p \in S => Brought(ledger', S)
<1>7. ASSUME k > Len(ledger) PROVE Result
  <2> DEFINE e == Opened(op, r, p)
  <2>1. e \in Entries /\ e.out = {} /\ DOMAIN e.in = {r} /\ e.in[r] = p
    BY <1>2, <1>3, OpenedFields
  <2>2. \A j \in 1 .. Len(ledger) : r \in DOMAIN ledger[j].in
    BY <1>6, <1>7
  <2>3. ledger' = Append(ledger, e)
    BY <1>1, <1>7
  <2> HIDE DEF e, r
  <2> QED BY <1>2, <1>3, <1>5, <2>1, <2>2, <2>3, StartsNew DEF LedgerTyped
<1>8. ASSUME ~(k > Len(ledger)) PROVE Result
  <2>1. k \in DOMAIN ledger /\ k <= Len(ledger)
    BY <1>6, <1>8 DEF LedgerTyped, Ledgers
  <2>2. ledger' = Joined(ledger, k, r, p)
    BY <1>1, <1>8
  <2> HIDE DEF r
  <2> QED BY <1>2, <1>3, <1>5, <1>6, <2>1, <2>2, Joins DEF LedgerTyped
<1>9. Result
  BY <1>7, <1>8
<1>10. Inside'
  <2>1. \A b \in Actors[bench] : b # a => Phase(b)' = Phase(b)
    BY <1>1, PhaseOthers
  <2>2. \E b \in Actors[bench] : b[1] = a[1] /\ Phase(b)' = "in"
    BY <1>4
  <2> QED BY <1>1, <1>9, <2>1, <2>2, InsideStep
<1>11. Blame'
  <2>1. Innocent' = Innocent
    BY <1>1 DEF Innocent, Parts, Stamps
  <2>2. Brought(ledger', Innocent)
    BY <1>3, <1>9 DEF Blame
  <2>3. Brought(ledger, Innocent)' <=> Brought(ledger', Innocent')
    BY DEF Brought
  <2> QED BY <1>1, <2>1, <2>2, <2>3 DEF Blame
<1>12. LedgerTyped'
  <2>1. Ledgers' = Ledgers
    BY <1>1 DEF Ledgers, Entries, Ordered, Entered
  <2> QED BY <1>9, <2>1 DEF LedgerTyped
<1> QED BY <1>10, <1>11, <1>12

\* Leaving one.
LEMMA LeaveStep ==
    ASSUME RunTyped, PlaceTyped, OnCourse, DataTyped, MeetsAt, Elected,
           LedgerTyped, Inside, Blame, NEW a \in Actors[bench], LeaveCollective(a)
    PROVE  LedgerTyped' /\ Inside' /\ Blame'
<1> DEFINE r == a[1]
           k == UnderWay(r)
           left == Parted(ledger, k, r)
           needed == Needed(ledger[k], r)
           bad == IF ledger[k].kind = "sum_errors" THEN \E q \in needed : ledger[k].in[q].errors ELSE errors[a]
<1>1. /\ At(a, {"leave"}) /\ bench' = bench /\ spoiled' = spoiled /\ Acts(a) /\ Complete(r)
      /\ ledger' = IF left[1].out = Ranks[bench] THEN Tail(left) ELSE left
  BY DEF LeaveCollective, run, Acts, Parted
<1>2. errors' = [errors EXCEPT ![a] = bad]
  BY DEF LeaveCollective
<1>3. r \in Ranks[bench] /\ Phase(a) = "in" /\ Phase(a)' = "out"
  BY <1>1, Doing, PhaseLeaves
<1>4. IsIn(ledger, r)
  <2> HIDE DEF r
  <2>1. a[1] = r
    BY DEF r
  <2> QED BY <1>3, <2>1 DEF Inside
<1>5. /\ k \in DOMAIN ledger /\ r \in DOMAIN ledger[k].in \ ledger[k].out
      /\ \A j \in DOMAIN ledger : r \in DOMAIN ledger[j].in \ ledger[j].out => j = k
  BY <1>4, EntryUnderWay DEF LedgerTyped
<1>6. needed \subseteq DOMAIN ledger[k].in
  BY <1>1 DEF Complete
<1>7. bad => spoiled
  <2>1. \A q \in DOMAIN ledger[k].in : ledger[k].in[q].errors => spoiled
    BY <1>5 DEF Blame, Brought, Innocent
  <2>2. errors[a] => spoiled
    BY DEF Blame
  <2> HIDE DEF k, needed
  <2> QED BY <1>6, <2>1, <2>2
<1> HIDE DEF needed, k, left
<1>8. /\ left \in Ledgers /\ ~IsIn(left, r) /\ Len(left) # 0
      /\ \A q : q # r => (IsIn(left, q) <=> IsIn(ledger, q))
      /\ \A S : Brought(ledger, S) => Brought(left, S)
  <2> HIDE DEF r
  <2> QED BY <1>3, <1>5, Departs DEF LedgerTyped, left
<1>9. /\ ledger' \in Ledgers /\ ~IsIn(ledger', r)
      /\ \A q : q # r => (IsIn(ledger', q) <=> IsIn(ledger, q))
      /\ \A S : Brought(ledger, S) => Brought(ledger', S)
  <2>1. CASE left[1].out = Ranks[bench]
    <3>1. ledger' = Tail(left)
      BY <1>1, <2>1
    <3> QED BY <1>8, <2>1, <3>1, Shrinks
  <2>2. CASE left[1].out # Ranks[bench]
    <3>1. ledger' = left
      BY <1>1, <2>2
    <3> QED BY <1>8, <3>1
  <2> QED BY <2>1, <2>2
<1>10. Inside'
  <2>1. \A b \in Actors[bench] : b # a => Phase(b)' = Phase(b)
    BY <1>1, PhaseOthers
  <2>2. ASSUME NEW b \in Actors[bench], b[1] = a[1], Phase(b)' = "in" PROVE FALSE
    <3>1. b # a /\ Phase(b) = "in"
      BY <1>3, <2>1, <2>2
    <3>2. a = b
      BY <1>3, <2>2, <3>1, OneInside
    <3> QED BY <3>1, <3>2
  <2>3. ~IsIn(ledger', a[1]) /\ \A q : q # a[1] => (IsIn(ledger', q) <=> IsIn(ledger, q))
    BY <1>9
  <2> QED BY <1>1, <2>1, <2>2, <2>3, InsideStep
<1>11. Blame'
  <2>1. Innocent' = Innocent
    BY <1>1 DEF Innocent, Parts, Stamps
  <2>2. Brought(ledger', Innocent)
    BY <1>9 DEF Blame
  <2>3. Brought(ledger, Innocent)' <=> Brought(ledger', Innocent')
    BY DEF Brought
  <2>4. \A b \in Actors[bench] : errors'[b] => spoiled
    <3> HIDE DEF bad
    <3>1. errors \in [Actors[bench] -> BOOLEAN] /\ \A b \in Actors[bench] : errors[b] => spoiled
      BY DEF DataTyped, Blame
    <3> QED BY <1>2, <1>7, <3>1
  <2> QED BY <1>1, <2>1, <2>2, <2>3, <2>4 DEF Blame
<1>12. LedgerTyped'
  <2>1. Ledgers' = Ledgers
    BY <1>1 DEF Ledgers, Entries, Ordered, Entered
  <2> QED BY <1>9, <2>1 DEF LedgerTyped
<1> QED BY <1>10, <1>11, <1>12

\* Every call.
LEMMA LedgerStep ==
    ASSUME RunTyped, PlaceTyped, OnCourse, DataTyped, ClockTyped, RemoteTyped, MeetsAt, Elected,
           LedgerTyped, Inside, Blame, NEW a \in Actors[bench], Acts(a)
    PROVE  LedgerTyped' /\ Inside' /\ Blame'
<1>1. CASE EnterCollective(a) \/ LeaveCollective(a)
  BY <1>1, EnterStep, LeaveStep
<1>2. CASE ~EnterCollective(a) /\ ~LeaveCollective(a)
  <2>1. ledger' = ledger /\ bench' = bench
    BY <1>2, Frames DEF run
  <2>2. LedgerTyped'
    <3>1. Ledgers' = Ledgers
      BY <2>1 DEF Ledgers, Entries, Ordered, Entered
    <3> QED BY <2>1, <3>1 DEF LedgerTyped
  <2>3. \A b \in Actors[bench] : Phase(b)' = "in" <=> Phase(b) = "in"
    <3>1. Phase(a)' = "in" <=> Phase(a) = "in"
      <4>1. CASE Elect(a)
        <5>1. Phase(a) = "out"
          BY <4>1, PhaseElects
        <5>2. Phase(a)' = "chosen" \/ Phase(a)' = "out"
          BY <4>1, PhaseElects
        <5> QED BY <5>1, <5>2
      <4>2. CASE Phase(a)' = Phase(a)
        BY <4>2
      <4> QED BY <1>2, <4>1, <4>2, PhaseRests
    <3> QED BY <3>1, PhaseOthers
  <2>4. Inside'
    <3>1. Inside' <=> \A q \in Ranks[bench] :
                 IsIn(ledger, q) <=> \E b \in Actors[bench] : b[1] = q /\ Phase(b)' = "in"
      BY <2>1 DEF Inside, IsIn
    <3> QED BY <2>3, <3>1 DEF Inside
  <2>5. Blame'
    <3>1. Blame' <=> /\ \A b \in Actors[bench] : errors'[b] => spoiled'
                     /\ \A k \in DOMAIN ledger : \A q \in DOMAIN ledger[k].in : ledger[k].in[q] \in Innocent'
      BY <2>1 DEF Blame, Brought
    <3>2. \A b \in Actors[bench] : errors[b] => spoiled
      BY DEF Blame
    <3>3. errors \in [Actors[bench] -> BOOLEAN] /\ spoiled \in BOOLEAN
      BY DEF DataTyped
    <3>4. (spoiled => spoiled') /\ \A b \in Actors[bench] : errors'[b] => spoiled'
      <4>1. CASE CheckBuffer(a)
        <5>1. PICK bad \in BOOLEAN : errors' = [errors EXCEPT ![a] = @ \/ bad] /\ spoiled' = (spoiled \/ bad)
          BY <4>1 DEF CheckBuffer
        <5> QED BY <3>2, <3>3, <5>1
      <4>2. CASE Clear(a)
        BY <3>2, <3>3, <4>2 DEF Clear
      <4>3. CASE ReportErrors(a)
        BY <3>2, <4>3 DEF ReportErrors
      <4>4. CASE UNCHANGED counts
        BY <3>2, <4>4 DEF counts
      <4> QED BY <1>2, <4>1, <4>2, <4>3, <4>4, Frames
    <3>5. \A p \in Innocent : p \in Innocent'
      BY <3>4 DEF Innocent, Parts, Stamps
    <3>6. \A k \in DOMAIN ledger : \A q \in DOMAIN ledger[k].in : ledger[k].in[q] \in Innocent
      BY DEF Blame, Brought
    <3> QED BY <3>1, <3>4, <3>5, <3>6
  <2> QED BY <2>2, <2>4, <2>5
<1> QED BY <1>1, <1>2

-----------------------------------------------------------------------------
(* The inductive invariant, and what follows from it. *)

\* But for the benchmark that starts a request it has not made.
Legal == bench # Unmade => wrong \cap Illegal = {}

Typed == /\ RunTyped /\ PlaceTyped /\ MessagesTyped /\ DataTyped /\ ClockTyped
         /\ ThreadsTyped /\ CallsTyped /\ RemoteTyped /\ WrongTyped

IInv == /\ Typed /\ Waiting
        /\ OnCourse /\ MeetsAt /\ Elected
        /\ LedgerTyped /\ Inside /\ Blame
        /\ Legal

\* Every call: no complaint about an actor that is on course is one of those.
LEMMA ComplaintsStep ==
    ASSUME RunTyped, PlaceTyped, WrongTyped, OnCourse, Legal, NEW a \in Actors[bench], Acts(a)
    PROVE  WrongTyped' /\ Legal'
<1>1. PICK what : /\ wrong' = wrong \cup what /\ what \subseteq Complaints
                  /\ OnCourse /\ bench # Unmade => what \cap Illegal = {}
  BY Complains
<1>2. bench' = bench
  BY Frames DEF run
<1>3. WrongTyped'
  BY <1>1 DEF WrongTyped
<1>4. Legal'
  BY <1>1, <1>2 DEF Legal
<1> QED BY <1>3, <1>4

\* Every call keeps the invariant.
LEMMA ActionStep ==
    ASSUME IInv, NEW a \in Actors[bench], Acts(a)
    PROVE  IInv'
<1>1. /\ RunTyped /\ PlaceTyped /\ MessagesTyped /\ DataTyped /\ ClockTyped
      /\ ThreadsTyped /\ CallsTyped /\ RemoteTyped /\ WrongTyped
      /\ Waiting /\ OnCourse /\ MeetsAt /\ Elected /\ LedgerTyped /\ Inside /\ Blame /\ Legal
  BY DEF IInv, Typed
<1>2. RunTyped'
  BY <1>1, Frames DEF run, RunTyped
<1>3. PlaceTyped' /\ OnCourse'
  BY <1>1, CourseStep
<1>4. MessagesTyped' /\ Waiting'
  BY <1>1, MessagesStep
<1>5. DataTyped' /\ ClockTyped' /\ CallsTyped' /\ RemoteTyped' /\ ThreadsTyped'
  BY <1>1, DataStep, ClockStep, CallsStep, RemoteStep, ThreadsStep
<1>6. MeetsAt' /\ Elected'
  BY <1>1, MeetsAtStep, ElectedStep
<1>7. LedgerTyped' /\ Inside' /\ Blame'
  BY <1>1, LedgerStep
<1>8. WrongTyped' /\ Legal'
  BY <1>1, ComplaintsStep
<1> QED BY <1>2, <1>3, <1>4, <1>5, <1>6, <1>7, <1>8 DEF IInv, Typed

\* So does a step without one.
LEMMA Stutters == ASSUME IInv, UNCHANGED vars PROVE IInv'
<1>1. /\ RunTyped' = RunTyped /\ PlaceTyped' = PlaceTyped /\ DataTyped' = DataTyped
      /\ ClockTyped' = ClockTyped /\ ThreadsTyped' = ThreadsTyped /\ CallsTyped' = CallsTyped
      /\ WrongTyped' = WrongTyped /\ Legal' = Legal
  BY DEF vars, run, messages, threading, counts, calls, remote, RunTyped, PlaceTyped, Script,
         DataTyped, ClockTyped, ThreadsTyped, CallsTyped, Requests, WrongTyped, Legal, Stamps
<1>2. RemoteTyped' = RemoteTyped
  BY DEF vars, run, remote, RemoteTyped
<1>3. MessagesTyped' = MessagesTyped
  BY DEF vars, run, messages, MessagesTyped, Sent, Awaited, Stamps
<1>4. Waiting' = Waiting
  BY DEF vars, run, messages, Waiting, ReceivesOf, SendsOf, Sent, Awaited, Stamps
<1>5. ASSUME NEW a PROVE Here(a)' = Here(a) /\ At(a, {"meet"})' = At(a, {"meet"})
                         /\ Astray(a)' = Astray(a)
  BY DEF vars, run, counts, Here, At, Astray, Finished, Script
<1>6. MeetsAt' = MeetsAt
  BY <1>5 DEF vars, run, threading, MeetsAt
<1>7. Elected' = Elected /\ Inside' = Inside
  BY <1>5 DEF vars, run, threading, Elected, Inside, Phase
<1>8. OnCourse' = OnCourse
  <2>1. \A a : Follows(a)' = Follows(a)
    BY <1>5 DEF vars, run, calls, remote, Follows, Standing
  <2> QED BY <1>5, <2>1 DEF vars, run, OnCourse
<1>9. LedgerTyped' = LedgerTyped /\ Blame' = Blame
  BY DEF vars, run, counts, LedgerTyped, Blame, Ledgers, Entries, Parts, Innocent, Stamps
<1> QED BY <1>1, <1>2, <1>3, <1>4, <1>6, <1>7, <1>8, <1>9 DEF IInv, Typed

\* The invariant is inductive.
LEMMA Consecution == IInv /\ [Next]_vars => IInv'
<1> SUFFICES ASSUME IInv, [Next]_vars PROVE IInv'
  OBVIOUS
<1>1. CASE UNCHANGED vars
  BY <1>1, Stutters
<1>2. CASE \E a \in Actors[bench] : Acts(a)
  BY <1>2, ActionStep
<1> QED BY <1>1, <1>2, SomeoneActs

\* It holds initially: the types,
LEMMA BeginsTyped == ASSUME Init PROVE Typed /\ \A a \in Actors[bench] : a[1] \in Ranks[bench]
<1>1. bench \in Benchmarks /\ opt \in OptionsOf(bench)
  BY RepresentativesAre DEF Init
<1>2. \A a \in Actors[bench] : a[1] \in Ranks[bench]
  BY <1>1, ActorType
<1>3. \A a \in Actors[bench] : Len(Script(a)) \in Nat
  BY <1>1, <1>2, CourseRuns DEF Script
<1>4. PlaceTyped
  <2>1. pc = [a \in Actors[bench] |-> 1]
    BY DEF Init
  <2> QED BY <1>3, <2>1 DEF PlaceTyped
<1>5. MessagesTyped
  <2>1. /\ queue = [c \in Channels[bench] |-> <<>>] /\ posted = [c \in Channels[bench] |-> <<>>]
        /\ pending = [a \in Actors[bench] |-> [isend |-> 0, irecv |-> 0]]
    BY DEF Init
  <2> QED BY <2>1 DEF MessagesTyped
<1>6. 0 \in Stamps
  BY SkipAssumption, ItersAssumption DEF Stamps
<1>7. DataTyped
  <2>1. /\ buffer = [a \in Actors[bench] |-> [holds |-> "idle", stamp |-> 0]]
        /\ errors = [a \in Actors[bench] |-> FALSE] /\ failed = [a \in Actors[bench] |-> FALSE]
        /\ spoiled = FALSE
    BY DEF Init
  <2>2. /\ errors \in [Actors[bench] -> BOOLEAN] /\ failed \in [Actors[bench] -> BOOLEAN]
        /\ spoiled \in BOOLEAN
    BY <2>1
  <2>3. buffer \in [Actors[bench] -> [holds : {"idle", "filled", "good", "stale"}, stamp : Stamps]]
    BY <1>6, <2>1
  <2> QED BY <2>2, <2>3 DEF DataTyped
<1>8. ClockTyped
  <2>1. clock = [a \in Actors[bench] |-> [running |-> FALSE, burst |-> 0, total |-> 0]]
    BY DEF Init
  <2> QED BY <2>1 DEF ClockTyped
<1>9. ThreadsTyped
  <2>1. met = [r \in Ranks[bench] |-> {}] /\ serial = [r \in Ranks[bench] |-> 0]
    BY DEF Init
  <2> QED BY <2>1 DEF ThreadsTyped
<1>10. CallsTyped
  <2>1. /\ active = [r \in Ranks[bench] |-> [send |-> "buffer", recv |-> "buffer"]]
        /\ request = [r \in Ranks[bench] |-> [kind |-> "none"]]
    BY DEF Init
  <2> QED BY <2>1 DEF CallsTyped, Requests, Buffers
<1>11. RemoteTyped
  <2>1. RemoteInit(Ranks[bench], IF bench \in PgasBenchmarks THEN "open" ELSE "closed")
    BY DEF Init
  <2>2. /\ air = [r \in Ranks[bench] |-> EmptyBag] /\ age = [r \in Ranks[bench] |-> 0]
        /\ posts = [r \in Ranks[bench] |-> 0] /\ done = [r \in Ranks[bench] |-> 0]
        /\ access = [r \in Ranks[bench] |-> IF bench \in PgasBenchmarks THEN "open" ELSE "closed"]
    BY <2>1 DEF RemoteInit
  <2>3. /\ air = [r \in Ranks[bench] |-> air[r]] /\ \A r \in Ranks[bench] : IsABag(air[r])
    BY <2>2, OneInBag
  <2> QED BY <2>2, <2>3 DEF RemoteTyped
<1>12. WrongTyped
  BY DEF Init, WrongTyped
<1>13. RunTyped
  BY <1>1 DEF RunTyped
<1> QED BY <1>2, <1>4, <1>5, <1>7, <1>8, <1>9, <1>10, <1>11, <1>12, <1>13 DEF Typed

\* every actor at the beginning of its course,
LEMMA BeginsOnCourse ==
    ASSUME Init, Typed, NEW a \in Actors[bench], a[1] \in Ranks[bench]
    PROVE  Follows(a) /\ Phase(a) = "out"
<1> DEFINE f == Course(bench, opt, a[1])
<1>1. f[0].local = Beginning(bench) /\ f[0].clock = Idle(0)
  BY CourseRuns DEF Typed, RunTyped
<1>2. pc[a] = 1 /\ pc[a] - 1 = 0
  BY DEF Init
<1>3. Here(a) = f[0]
  BY <1>2 DEF Here
<1> HIDE DEF f
<1>4. Phase(a) = "out"
  BY <1>1, <1>3, BeginningType DEF Phase
<1>5. Reads(clock[a], Here(a).clock)
  <2>1. clock[a] = [running |-> FALSE, burst |-> 0, total |-> 0]
    BY DEF Init
  <2>2. /\ Here(a).clock.running = FALSE /\ Here(a).clock.total = 0
        /\ ~Here(a).clock.known
    BY <1>1, <1>3 DEF Idle
  <2>3. clock[a].running = FALSE /\ clock[a].total = 0
    BY <2>1
  <2> QED BY <2>2, <2>3, Zenon DEF Reads
<1>6. Here(a).local = Standing(a)
  <2>1. active[a[1]] = Unchanged0 /\ request[a[1]] = NoRequest
    BY DEF Init, Unchanged0, NoRequest
  <2>2. access[a[1]] = IF bench \in PgasBenchmarks THEN "open" ELSE "closed"
    BY DEF Init, RemoteInit
  <2> DEFINE x == Here(a).local
  <2>3. x = Beginning(bench)
    BY <1>1, <1>3
  <2> HIDE DEF x
  <2>4. x = Knowing(bench, x.access, x.active, x.request, x.phase)
    BY <2>3, BeginningType, KnownFrom DEF ReportsErrors, UsesArrays, Outside
  <2>5. x.access = access[a[1]] /\ x.active = active[a[1]] /\ x.request = request[a[1]]
    BY <2>1, <2>2, <2>3, BeginningType
  <2> QED BY <2>4, <2>5 DEF Standing, x
<1> QED BY <1>4, <1>5, <1>6 DEF Follows

\* and all the rest.
LEMMA Initiation == ASSUME Init PROVE IInv
<1>1. Typed /\ \A a \in Actors[bench] : a[1] \in Ranks[bench]
  BY BeginsTyped
<1>2. \A a \in Actors[bench] : Follows(a) /\ Phase(a) = "out"
  BY <1>1, BeginsOnCourse
<1>3. Waiting
  <2>1. ASSUME NEW D, NEW q, q = [c \in D |-> <<>>], NEW G PROVE Owed(q, D, G, 0)
    <3>1. Found(q, D, G) = {}
      BY <2>1 DEF Found
    <3> QED BY <3>1, FS_EmptySet DEF Owed
  <2>2. /\ queue = [c \in Channels[bench] |-> <<>>] /\ posted = [c \in Channels[bench] |-> <<>>]
        /\ \A a \in Actors[bench] : pending[a].isend = 0 /\ pending[a].irecv = 0
    BY DEF Init
  <2> QED BY <2>1, <2>2 DEF Waiting
<1>4. OnCourse /\ Elected
  BY <1>2 DEF OnCourse, Elected
<1>5. MeetsAt
  <2>1. \A r \in Ranks[bench] : met[r] = {}
    BY DEF Init
  <2> QED BY <1>1, <2>1 DEF MeetsAt
<1>6. ledger = <<>>
  BY DEF Init
<1>7. ~\E k : k \in DOMAIN ledger
  BY <1>6
<1>8. LedgerTyped
  <2>1. ledger \in Seq(Entries)
    BY <1>6
  <2> QED BY <1>7, <2>1 DEF LedgerTyped, Ledgers, Ordered, Entered
<1>9. Inside
  BY <1>2, <1>7 DEF Inside, IsIn
<1>10. Blame
  <2>1. \A a \in Actors[bench] : errors[a] = FALSE
    BY DEF Init
  <2> QED BY <1>7, <2>1 DEF Blame, Brought
<1>11. Legal
  BY DEF Init, Legal
<1> QED BY <1>1, <1>3, <1>4, <1>5, <1>8, <1>9, <1>10, <1>11 DEF IInv

\* IInv holds in every state of every benchmark of the suite, whatever its
\* options.
THEOREM Invariance == Spec => []IInv
BY Initiation, Consecution, PTL DEF Spec

\* The inductive invariant contains the types.
LEMMA TypesFollow == ASSUME IInv PROVE TypeOK
<1>1. Typed
  BY DEF IInv
<1>2. bench \in Benchmarks /\ opt \in DOMAIN Scripts[bench]
  BY <1>1, ScriptsAre DEF Typed, RunTyped
<1>3. {age, posts, done} \subseteq [Ranks[bench] -> Nat]
  BY <1>1 DEF Typed, RemoteTyped
<1>4. buffer \in [Actors[bench] -> [holds : {"idle", "filled", "good", "stale"},
                                     stamp : 0 .. Skip + Iters - 1]]
  BY <1>1 DEF Typed, DataTyped, Stamps
<1>5. errors \in [Actors[bench] -> BOOLEAN] /\ failed \in [Actors[bench] -> BOOLEAN]
  BY <1>1 DEF Typed, DataTyped
<1> QED BY <1>1, <1>2, <1>3, <1>4, <1>5
        DEF Typed, PlaceTyped, MessagesTyped, ThreadsTyped, RemoteTyped, WrongTyped, TypeOK

\* Every variable of the suite keeps its type (TypeOK), in every benchmark and
\* with every option.
THEOREM TypeCorrect == Spec => []TypeOK
BY Invariance, TypesFollow, PTL

\* MPI_IN_PLACE stands only where MPI allows it, no request is started or freed
\* that was not made, and every remote operation is in an epoch and within the
\* memory of both ranks (ArgumentsLegal), in every benchmark but the one that
\* starts a request it has not made.
THEOREM LegalArguments ==
    Spec => [](bench # "osu_reduce_scatter_block_persistent" => ArgumentsLegal)
<1>1. IInv => (bench # "osu_reduce_scatter_block_persistent" => ArgumentsLegal)
  BY DEF IInv, Legal, Unmade, Illegal, ArgumentsLegal
<1> QED BY <1>1, Invariance, PTL

\* Where the course ends the total of a clock is what is reported.
LEMMA CountsFollow == ASSUME IInv PROVE RateCountsTransfers
<1> SUFFICES ASSUME Over, ~spoiled, bench \notin FanOut, NEW a \in Actors[bench], HasClock(a)
             PROVE  clock[a].total = Reported(bench)
  BY DEF RateCountsTransfers
<1>1. RunTyped /\ PlaceTyped /\ OnCourse
  BY DEF IInv, Typed
<1>2. a[1] \in Ranks[bench] /\ Clocked(bench, a[1])
  <2>1. a[1] \in Ranks[bench]
    BY <1>1, ActorType DEF RunTyped
  <2> QED BY <2>1 DEF HasClock, Clocked
<1> DEFINE n == Len(Script(a))
           f == Course(bench, opt, a[1])
<1>3. n \in Nat /\ f[n].clock = Idle(Reported(bench))
  BY <1>1, <1>2, CourseRuns DEF RunTyped, Script
<1>4. pc[a] = n + 1
  BY <1>1, <1>3 DEF PlaceTyped, Over, Finished
<1>5. Here(a) = f[n]
  <2>1. pc[a] - 1 = n
    BY <1>3, <1>4
  <2> QED BY <2>1 DEF Here
<1>6. Reads(clock[a], Here(a).clock)
  BY <1>1 DEF OnCourse, Astray, Follows
<1> HIDE DEF n, f
<1> QED BY <1>3, <1>5, <1>6 DEF Reads, Idle

\* In a run without errors the clock of every rank that prints has counted the
\* transfers its line stands for (RateCountsTransfers): what
\* calculate_and_print_stats and its relatives divide by, for any number of
\* sizes, windows, iterations and warm-up rounds.
THEOREM RatesCountTransfers == Spec => []RateCountsTransfers
BY Invariance, CountsFollow, PTL

-----------------------------------------------------------------------------
(* The other exchanges of the point-to-point benchmarks in C. *)

\* The queues of the congestion benchmarks: rank 0 has all others, they have rank 0.
LEMMA QueuesAre ==
    ASSUME NEW b \in Congestion, NEW r \in CPt2ptRanks(b)
    PROVE  /\ r \in Nat /\ RanksQueue(r) \in Seq(Nat)
           /\ r = 0 => /\ Len(RanksQueue(r)) = Nodes - 1
                       /\ \A k \in 1 .. Nodes - 1 : RanksQueue(r)[k] = k
           /\ r # 0 => r \in 1 .. Nodes - 1 /\ RanksQueue(r) = <<0>>
           /\ IsSender(b, r) <=> ((b \in FanOut) = (r = 0))
<1>1. CPt2ptRanks(b) = 0 .. Nodes - 1 /\ Nodes \in Nat /\ Nodes >= 2
  BY NodesAssumption DEF CPt2ptRanks
<1>2. IsSender(b, r) <=> ((b \in FanOut) = (r = 0))
  BY DEF IsSender
<1>3. r = 0 => RanksQueue(r) = [k \in 1 .. Nodes - 1 |-> k]
  BY DEF RanksQueue
<1>4. r # 0 => RanksQueue(r) = <<0>>
  BY DEF RanksQueue
<1>5. r \in Nat /\ r \in 0 .. Nodes - 1
  BY <1>1
<1>6. r = 0 => /\ RanksQueue(r) \in Seq(Nat) /\ Len(RanksQueue(r)) = Nodes - 1
               /\ \A k \in 1 .. Nodes - 1 : RanksQueue(r)[k] = k
  BY <1>1, <1>3
<1>7. r # 0 => r \in 1 .. Nodes - 1
  BY <1>1, <1>5
<1>8. <<0>> \in Seq(Nat)
  OBVIOUS
<1>9. RanksQueue(r) \in Seq(Nat)
  BY <1>4, <1>6, <1>8
<1> QED BY <1>2, <1>4, <1>5, <1>6, <1>7, <1>9

\* The window of each in a queue, as a loop.
LEMMA QueueLoop ==
    ASSUME NEW r \in Nat, NEW q \in Nat, NEW peers \in Seq(Nat), NEW f, NEW t, NEW ss,
           ss = [k \in 1 .. Len(peers) |-> f[peers[k]]],
           \A p \in Nat \ {q} : Aside(q, f[p])
    PROVE  /\ (\A k \in 1 .. Len(peers) : peers[k] # q) => Aside(q, FlattenSeq(ss))
           /\ \A j \in 1 .. Len(peers) :
                 peers[j] = q /\ (\A k \in 1 .. Len(peers) : k # j => peers[k] # q)
                     /\ Fits(r, q, f[q], t) =>
                 Fits(r, q, FlattenSeq(ss), t) /\ Fits(q, r, t, FlattenSeq(ss))
<1> DEFINE n == Len(peers)
<1>1. n \in Nat /\ IsLoop(ss, n) /\ \A k \in 1 .. n : peers[k] \in Nat /\ ss[k] = f[peers[k]]
  BY DEF IsLoop
<1> HIDE DEF n
<1>2. ASSUME \A k \in 1 .. n : peers[k] # q PROVE Aside(q, FlattenSeq(ss))
  BY <1>1, <1>2, AsideLoop
<1>3. ASSUME NEW j \in 1 .. n, peers[j] = q, \A k \in 1 .. n : k # j => peers[k] # q, Fits(r, q, f[q], t)
      PROVE  Fits(r, q, FlattenSeq(ss), t) /\ Fits(q, r, t, FlattenSeq(ss))
  <2>1. \A k \in 1 .. n : k # j => Fits(r, q, ss[k], <<>>)
    BY <1>1, <1>3, AsideFits
  <2>2. Fits(r, q, ss[j], t)
    BY <1>1, <1>3
  <2> QED BY <1>1, <2>1, <2>2, FitsOnce
<1> QED BY <1>2, <1>3 DEF n

\* What goes to, or comes from, those in a queue.
LEMMA QueuesFit ==
    ASSUME NEW peers \in Seq(Nat), NEW n \in Nat, NEW s \in Nat
    PROVE  /\ \A q \in Nat : (\A k \in 1 .. Len(peers) : peers[k] # q) =>
                  /\ Aside(q, CongestionSender(peers, n, s))
                  /\ Aside(q, CongestionReceiver(peers, n, s))
           /\ \A r, q \in Nat : \A j \in 1 .. Len(peers) :
                  peers[j] = q /\ (\A k \in 1 .. Len(peers) : k # j => peers[k] # q) =>
                  /\ Fits(r, q, CongestionSender(peers, n, s), CongestionReceiver(<<r>>, n, s))
                  /\ Fits(r, q, CongestionReceiver(peers, n, s), CongestionSender(<<r>>, n, s))
<1> DEFINE out == [p \in Nat |-> Times(n, ISend(p, "ping", s))]
           ans == [p \in Nat |-> Recv(p, "pong", ReplySize)]
           inn == [p \in Nat |-> Times(n, IRecv(p, "ping", s))]
           rep == [p \in Nat |-> Send(p, "pong", ReplySize)]
           All(f, qu) == FlattenSeq([k \in 1 .. Len(qu) |-> f[qu[k]]])
<1>1. "ping" \in Tags /\ "pong" \in Tags /\ ReplySize \in Nat
  BY DEF Tags, ReplySize
<1>2. \A qu \in Seq(Nat) :
        /\ CongestionSender(qu, n, s) =
              StartClock \o All(out, qu) \o Wait("isend") \o All(ans, qu) \o StopClock
        /\ CongestionReceiver(qu, n, s) = All(inn, qu) \o Wait("irecv") \o All(rep, qu)
  <2> SUFFICES ASSUME NEW qu \in Seq(Nat)
               PROVE  /\ CongestionSender(qu, n, s) =
                            StartClock \o All(out, qu) \o Wait("isend") \o All(ans, qu) \o StopClock
                      /\ CongestionReceiver(qu, n, s) = All(inn, qu) \o Wait("irecv") \o All(rep, qu)
    OBVIOUS
  <2>1. \A k \in 1 .. Len(qu) : qu[k] \in Nat
    OBVIOUS
  <2>2. /\ [k \in 1 .. Len(qu) |-> Times(n, ISend(qu[k], "ping", s))] = [k \in 1 .. Len(qu) |-> out[qu[k]]]
        /\ [k \in 1 .. Len(qu) |-> Recv(qu[k], "pong", ReplySize)] = [k \in 1 .. Len(qu) |-> ans[qu[k]]]
    BY <2>1
  <2>3. /\ [k \in 1 .. Len(qu) |-> Times(n, IRecv(qu[k], "ping", s))] = [k \in 1 .. Len(qu) |-> inn[qu[k]]]
        /\ [k \in 1 .. Len(qu) |-> Send(qu[k], "pong", ReplySize)] = [k \in 1 .. Len(qu) |-> rep[qu[k]]]
    BY <2>1
  <2> QED BY <2>2, <2>3 DEF CongestionSender, CongestionReceiver, ForEach
<1>3. \A q : \A p \in Nat \ {q} :
        Aside(q, out[p]) /\ Aside(q, ans[p]) /\ Aside(q, inn[p]) /\ Aside(q, rep[p])
  BY <1>1, MessagesAside, WindowsAside
<1>4. \A r, q \in Nat :
        /\ Fits(r, q, out[q], inn[r]) /\ Fits(r, q, ans[q], rep[r])
        /\ Fits(r, q, inn[q], out[r]) /\ Fits(r, q, rep[q], ans[r])
  BY <1>1, SendsFit, WindowsFit
<1>5. \A r \in Nat : \A f \in {out, ans, inn, rep} : All(f, <<r>>) = f[r]
  <2> SUFFICES ASSUME NEW r \in Nat, NEW f \in {out, ans, inn, rep} PROVE All(f, <<r>>) = f[r]
    OBVIOUS
  <2>1. [k \in 1 .. Len(<<r>>) |-> f[(<<r>>)[k]]] = [k \in 1 .. 1 |-> IF k = 1 THEN f[r] ELSE <<>>]
    OBVIOUS
  <2>2. f[r] \in Seq(Calls)
    <3> HIDE DEF out, ans, inn, rep
    <3> QED BY <1>4 DEF Fits
  <2> HIDE DEF out, ans, inn, rep
  <2>3. FlattenSeq([k \in 1 .. 1 |-> IF k = 1 THEN f[r] ELSE <<>>]) = f[r]
    <3> DEFINE m == 1
               t == f[r]
    <3>1. m \in Nat /\ m \in 1 .. m /\ t \in Seq(Calls)
      BY <2>2
    <3> HIDE DEF m, t
    <3>2. FlattenSeq([k \in 1 .. m |-> IF k = m THEN t ELSE <<>>]) = t
      BY <3>1, FlattenOnce
    <3> QED BY <3>2 DEF m, t
  <2> DEFINE g == [k \in 1 .. Len(<<r>>) |-> f[(<<r>>)[k]]]
             h == [k \in 1 .. 1 |-> IF k = 1 THEN f[r] ELSE <<>>]
  <2>4. g = h /\ FlattenSeq(h) = f[r]
    BY <2>1, <2>3
  <2>5. FlattenSeq(g) = f[r]
    <3> HIDE DEF g, h
    <3> QED BY <2>4
  <2> QED BY <2>5
<1> HIDE DEF out, ans, inn, rep
<1>6. ASSUME NEW q \in Nat, \A k \in 1 .. Len(peers) : peers[k] # q
      PROVE  Aside(q, CongestionSender(peers, n, s)) /\ Aside(q, CongestionReceiver(peers, n, s))
  <2>1. \A f \in {out, ans, inn, rep} : Aside(q, All(f, peers))
    <3> SUFFICES ASSUME NEW f \in {out, ans, inn, rep} PROVE Aside(q, All(f, peers))
      OBVIOUS
    <3>1. \A p \in Nat \ {q} : Aside(q, f[p])
      BY <1>3
    <3> QED BY <1>6, <3>1, QueueLoop
  <2>2. /\ Aside(q, StartClock) /\ Aside(q, StopClock)
        /\ Aside(q, Wait("isend")) /\ Aside(q, Wait("irecv"))
    BY OwnPieces, OwnIs
  <2> HIDE DEF All
  <2> QED BY <1>2, <2>1, <2>2, AsideOn
<1>7. ASSUME NEW r \in Nat, NEW q \in Nat, NEW j \in 1 .. Len(peers), peers[j] = q,
             \A k \in 1 .. Len(peers) : k # j => peers[k] # q
      PROVE  /\ Fits(r, q, CongestionSender(peers, n, s), CongestionReceiver(<<r>>, n, s))
             /\ Fits(r, q, CongestionReceiver(peers, n, s), CongestionSender(<<r>>, n, s))
  <2>1. ASSUME NEW f \in {out, ans, inn, rep}, NEW t, Fits(r, q, f[q], t)
        PROVE  Fits(r, q, All(f, peers), t)
    <3>1. \A p \in Nat \ {q} : Aside(q, f[p])
      BY <1>3
    <3> QED BY <1>7, <2>1, <3>1, QueueLoop
  <2>2. /\ Fits(r, q, All(out, peers), All(inn, <<r>>)) /\ Fits(r, q, All(ans, peers), All(rep, <<r>>))
        /\ Fits(r, q, All(inn, peers), All(out, <<r>>)) /\ Fits(r, q, All(rep, peers), All(ans, <<r>>))
    <3> HIDE DEF All
    <3> QED BY <1>4, <1>5, <2>1
  <2>3. <<r>> \in Seq(Nat)
    OBVIOUS
  <2> HIDE DEF All
  <2>4. Fits(r, q, CongestionSender(peers, n, s), CongestionReceiver(<<r>>, n, s))
    BY <1>2, <2>2, <2>3, OwnPieces, OwnFits, FitsOn
  <2>5. Fits(r, q, CongestionReceiver(peers, n, s), CongestionSender(<<r>>, n, s))
    BY <1>2, <2>2, <2>3, OwnPieces, OwnFits, FitsOn
  <2> QED BY <2>4, <2>5
<1> QED BY <1>6, <1>7

\* The exchange of an iteration, where rank 0 faces all others.
LEMMA CongestionFits ==
    ASSUME NEW b \in Congestion, NEW r \in CPt2ptRanks(b), NEW q \in CPt2ptRanks(b),
           NEW n \in Nat, NEW s \in Nat
    PROVE  Fits(r, q, Exchange(b, r, n, s), Exchange(b, q, n, s))
<1>1. \A x \in {r, q} : Exchange(b, x, n, s) =
          IF (b \in FanOut) = (x = 0) THEN CongestionSender(RanksQueue(x), n, s)
                                      ELSE CongestionReceiver(RanksQueue(x), n, s)
  <2> SUFFICES ASSUME NEW x \in {r, q}
               PROVE  Exchange(b, x, n, s) =
                        IF (b \in FanOut) = (x = 0) THEN CongestionSender(RanksQueue(x), n, s)
                                                    ELSE CongestionReceiver(RanksQueue(x), n, s)
    OBVIOUS
  <2>0. /\ b \notin LatencyTest /\ b \notin Partitioned /\ b \notin Persistent
        /\ b \notin BiBandwidthTest /\ b \in BandwidthTest
    BY DEF LatencyTest, Partitioned, Persistent, Congestion, FanOut, BandwidthTest, BiBandwidthTest
  <2>1. SenderExchange(b, x, n, s) = CongestionSender(RanksQueue(x), n, s)
    BY <2>0 DEF SenderExchange
  <2>2. ReceiverExchange(b, x, n, s) = CongestionReceiver(RanksQueue(x), n, s)
    BY <2>0 DEF ReceiverExchange
  <2> QED BY <2>1, <2>2, QueuesAre DEF Exchange
<1>2. \A x \in {r, q} :
          /\ x \in Nat /\ RanksQueue(x) \in Seq(Nat)
          /\ x = 0 => /\ Len(RanksQueue(x)) = Nodes - 1
                      /\ \A k \in 1 .. Nodes - 1 : RanksQueue(x)[k] = k
          /\ x # 0 => x \in 1 .. Nodes - 1 /\ RanksQueue(x) = <<0>>
  BY QueuesAre
<1>3. ASSUME NEW x \in {r, q}, NEW y \in Nat, \A k \in 1 .. Len(RanksQueue(x)) : RanksQueue(x)[k] # y
      PROVE  Aside(y, Exchange(b, x, n, s))
  <2>1. /\ Aside(y, CongestionSender(RanksQueue(x), n, s))
        /\ Aside(y, CongestionReceiver(RanksQueue(x), n, s))
    BY <1>2, <1>3, QueuesFit
  <2> QED BY <1>1, <2>1
<1>4. CASE r = 0 /\ q = 0
  <2>1. Nodes \in Nat /\ \A k \in 1 .. Nodes - 1 : k # 0
    BY NodesAssumption
  <2>2. Aside(0, Exchange(b, 0, n, s))
    BY <1>2, <1>3, <1>4, <2>1
  <2> QED BY <1>4, <2>2, BothAside
<1>5. CASE r # 0 /\ q # 0
  <2>1. Len(<<0>>) = 1 /\ \A k \in 1 .. 1 : (<<0>>)[k] = 0
    OBVIOUS
  <2>2. Aside(q, Exchange(b, r, n, s)) /\ Aside(r, Exchange(b, q, n, s))
    BY <1>2, <1>3, <1>5, <2>1
  <2> QED BY <2>2, BothAside
<1>6. ASSUME NEW x \in {r, q}, NEW y \in {r, q}, x = 0, y # 0
      PROVE  Fits(x, y, Exchange(b, x, n, s), Exchange(b, y, n, s))
  <2>1. y \in 1 .. Len(RanksQueue(x)) /\ RanksQueue(x)[y] = y
        /\ \A k \in 1 .. Len(RanksQueue(x)) : k # y => RanksQueue(x)[k] # y
    BY <1>2, <1>6
  <2>2. /\ Fits(x, y, CongestionSender(RanksQueue(x), n, s), CongestionReceiver(<<x>>, n, s))
        /\ Fits(x, y, CongestionReceiver(RanksQueue(x), n, s), CongestionSender(<<x>>, n, s))
    BY <1>2, <2>1, QueuesFit
  <2>3. RanksQueue(y) = <<x>>
    BY <1>2, <1>6
  <2>4. CASE b \in FanOut
    <3>1. /\ Exchange(b, x, n, s) = CongestionSender(RanksQueue(x), n, s)
          /\ Exchange(b, y, n, s) = CongestionReceiver(<<x>>, n, s)
      BY <1>1, <1>6, <2>3, <2>4
    <3> QED BY <2>2, <3>1
  <2>5. CASE b \notin FanOut
    <3>1. /\ Exchange(b, x, n, s) = CongestionReceiver(RanksQueue(x), n, s)
          /\ Exchange(b, y, n, s) = CongestionSender(<<x>>, n, s)
      BY <1>1, <1>6, <2>3, <2>5
    <3> QED BY <2>2, <3>1
  <2> QED BY <2>4, <2>5
<1>7. r = 0 /\ q # 0 => Fits(r, q, Exchange(b, r, n, s), Exchange(b, q, n, s))
  BY <1>6
<1>8. r # 0 /\ q = 0 => Fits(q, r, Exchange(b, q, n, s), Exchange(b, r, n, s))
  BY <1>6
<1> QED BY <1>4, <1>5, <1>7, <1>8, FitsBack

\* What both sides do in an iteration.
LEMMA CoresFit ==
    ASSUME NEW b \in CPt2pt, NEW r \in CPt2ptRanks(b), NEW q \in CPt2ptRanks(b),
           NEW n \in Nat, NEW s \in Nat, NEW v \in BOOLEAN, NEW i
    PROVE  Fits(r, q, IF IsSender(b, r) THEN SenderCore(b, r, n, s, v, i) ELSE ReceiverCore(b, r, n, s, v),
                      IF IsSender(b, q) THEN SenderCore(b, q, n, s, v, i) ELSE ReceiverCore(b, q, n, s, v))
<1> DEFINE m == WarmupValidation(v) + 1
           T(x) == Times(m, Exchange(b, x, n, s))
           sampled == Given(Measured(i), Sample)
<1>1. Fits(r, q, Exchange(b, r, n, s), Exchange(b, q, n, s))
  BY PairsFit, CongestionFits
<1>2. m \in Nat
  BY WarmupType
<1>3. Own(sampled)
  BY OwnPieces, OwnOn
<1>4. \A x : /\ IsSender(b, x) => SenderCore(b, x, n, s, v, i) = T(x) \o sampled
             /\ ~IsSender(b, x) => ReceiverCore(b, x, n, s, v) = T(x)
  BY DEF SenderCore, ReceiverCore, Exchange
<1> HIDE DEF m, sampled
<1>5. Fits(r, q, T(r), T(q))
  BY <1>1, <1>2, FitsTimes
<1> HIDE DEF T
<1>6. Fits(r, q, T(r) \o sampled, T(q)) /\ Fits(r, q, T(r), T(q) \o sampled)
  BY <1>3, <1>5, OwnFits
<1>7. Fits(r, q, T(r) \o sampled, T(q) \o sampled)
  BY <1>3, <1>6, OwnFits
<1> DEFINE core(x) == IF IsSender(b, x) THEN SenderCore(b, x, n, s, v, i) ELSE ReceiverCore(b, x, n, s, v)
<1>8. \A x : core(x) = T(x) \o sampled \/ core(x) = T(x)
  BY <1>4
<1>9. Fits(r, q, core(r), core(q))
  <2>1. core(r) = T(r) \o sampled \/ core(r) = T(r)
    BY <1>8
  <2>2. core(q) = T(q) \o sampled \/ core(q) = T(q)
    BY <1>8
  <2> HIDE DEF core
  <2> DEFINE r1 == T(r) \o sampled
             q1 == T(q) \o sampled
  <2>3. /\ Fits(r, q, T(r), T(q)) /\ Fits(r, q, r1, T(q))
        /\ Fits(r, q, T(r), q1) /\ Fits(r, q, r1, q1)
    BY <1>5, <1>6, <1>7
  <2>4. (core(r) = r1 \/ core(r) = T(r)) /\ (core(q) = q1 \/ core(q) = T(q))
    BY <2>1, <2>2
  <2> HIDE DEF r1, q1
  <2> QED BY <2>3, <2>4
<1> QED BY <1>9

\* A loop over the iterations, with what comes before and after.
LEMMA IterationsFit ==
    ASSUME NEW r, NEW q, NEW ss, NEW tt, IsLoop(ss, Len(Iterations)), IsLoop(tt, Len(Iterations)),
           \A k \in 1 .. Len(Iterations) : Fits(r, q, ss[k], tt[k])
    PROVE  Fits(r, q, FlattenSeq(ss), FlattenSeq(tt))
<1>1. Len(Iterations) \in Nat
  BY IterationsAre, TurnsType
<1> QED BY <1>1, FitsLoop

\* Processes meet in a barrier; only the threads of osu_latency_mt do not.
LEMMA PtSync == \A b \in CPt2pt \ {"osu_latency_mt"} : SyncInterThreads(b) = Barrier
BY DEF SyncInterThreads

\* Where data is validated, the buffers are prepared and checked alike.
LEMMA ValidatingFits ==
    ASSUME NEW b \in CPt2pt \ {"osu_latency_mt"}, NEW v \in BOOLEAN
    PROVE  /\ \A k \in 1 .. Len(Iterations) :
                 Common(Given(v, PrepareValidationBuffers(b, Iterations[k])))
           /\ \A x : Own(Given(v, UpdateValidationErrors(b, x)))
<1>1. ASSUME NEW k \in 1 .. Len(Iterations)
      PROVE  Common(Given(v, PrepareValidationBuffers(b, Iterations[k])))
  <2>1. Iterations[k] \in 0 .. Turns - 1
    BY IterationsAre DEF Turns
  <2>2. Common(Fill(Iterations[k])) /\ Common(SyncInterThreads(b))
    BY <2>1, OwnPieces, OwnIs, CommonCalls, PtSync
  <2> QED BY <2>2, CommonOn DEF PrepareValidationBuffers
<1>2. \A x : Own(Given(v, UpdateValidationErrors(b, x)))
  BY OwnPieces, OwnOn DEF UpdateValidationErrors
<1> QED BY <1>1, <1>2

\* The iterations of one size.
LEMMA DefaultLoopsFit ==
    ASSUME NEW b \in CPt2pt \ {"osu_latency_mt"}, NEW r \in CPt2ptRanks(b), NEW q \in CPt2ptRanks(b),
           NEW n \in Nat, NEW s \in Nat, NEW v \in BOOLEAN
    PROVE  Fits(r, q, DefaultIterationsLoop(b, r, n, s, v), DefaultIterationsLoop(b, q, n, s, v))
<1> DEFINE core(x, i) == IF IsSender(b, x) THEN SenderCore(b, x, n, s, v, i)
                                           ELSE ReceiverCore(b, x, n, s, v)
           pre(i) == Given(v, PrepareValidationBuffers(b, i))
           post(x) == Given(v, UpdateValidationErrors(b, x))
           L(x) == [k \in 1 .. Len(Iterations) |->
                     pre(Iterations[k]) \o core(x, Iterations[k]) \o post(x)]
<1>1. \A x : DefaultIterationsLoop(b, x, n, s, v) = FlattenSeq(L(x))
  BY DEF DefaultIterationsLoop, ForEach
<1>2. \A i : Fits(r, q, core(r, i), core(q, i))
  BY CoresFit
<1>3. \A k \in 1 .. Len(Iterations) : Fits(r, q, pre(Iterations[k]), pre(Iterations[k]))
  BY ValidatingFits, CommonFits
<1>4. \A x : Own(post(x))
  BY ValidatingFits
<1>5. \A x : IsLoop(L(x), Len(Iterations)) /\ \A k \in 1 .. Len(Iterations) :
          L(x)[k] = pre(Iterations[k]) \o core(x, Iterations[k]) \o post(x)
  BY DEF IsLoop
<1> HIDE DEF core, pre, post, L
<1>6. ASSUME NEW k \in 1 .. Len(Iterations) PROVE Fits(r, q, L(r)[k], L(q)[k])
  BY <1>2, <1>3, <1>4, <1>5, FitsOn, OwnFits
<1>7. Fits(r, q, FlattenSeq(L(r)), FlattenSeq(L(q)))
  BY <1>5, <1>6, IterationsFit
<1> QED BY <1>1, <1>7

\* The iterations that overlap an exchange with computation.
LEMMA OverlapsFit ==
    ASSUME NEW b \in CPt2pt \ Congestion, NEW r \in CPt2ptRanks(b), NEW q \in CPt2ptRanks(b), NEW s \in Nat
    PROVE  Fits(r, q, Overlap(b, r, s), Overlap(b, q, s))
<1> DEFINE X == [p \in Nat |-> Send(p, "ping", s) \o Recv(p, "ping", s)]
           Y == [p \in Nat |-> Recv(p, "ping", s) \o Send(p, "ping", s)]
           side(x) == IF IsSender(b, x) THEN X[Partner(b, x)] ELSE Y[Partner(b, x)]
<1>1. \A x \in {r, q} : Overlap(b, x, s) = side(x) \o Barrier
  BY PartnersMeet DEF Overlap
<1>2. "ping" \in Tags
  BY DEF Tags
<1>3. \A x \in Nat : \A p \in Nat \ {x} : Aside(x, X[p]) /\ Aside(x, Y[p])
  BY <1>2, MessagesAside, AsideOn
<1>4. \A x, y \in Nat : Fits(x, y, X[y], Y[x])
  BY <1>2, SendsFit, FitsOn
<1> HIDE DEF X, Y
<1>5. Fits(r, q, side(r), side(q))
  BY <1>3, <1>4, PairKind
<1> HIDE DEF side
<1> QED BY <1>1, <1>5, BarriersFit, FitsOn

\* The iterations with partitioned requests.
LEMMA PartitionedLoopsFit ==
    ASSUME NEW b \in Partitioned, NEW r \in CPt2ptRanks(b), NEW q \in CPt2ptRanks(b),
           NEW n \in Nat, NEW s \in Nat, NEW v \in BOOLEAN
    PROVE  Fits(r, q, PartitionedIterationLoops(b, r, n, s, v), PartitionedIterationLoops(b, q, n, s, v))
<1> DEFINE core(x) == Times(WarmupValidation(v) + 1, Overlap(b, x, s))
           pre(i) == Given(v, PrepareValidationBuffers(b, i))
           post(x) == Given(v, UpdateValidationErrors(b, x))
           L(x) == [k \in 1 .. Len(Iterations) |-> pre(Iterations[k]) \o core(x) \o post(x)]
<1>0. b \in CPt2pt \ {"osu_latency_mt"} /\ b \in CPt2pt \ Congestion
  BY PartitionedAre
<1>1. \A x : PartitionedIterationLoops(b, x, n, s, v) = DefaultIterationsLoop(b, x, n, s, v) \o FlattenSeq(L(x))
  BY DEF PartitionedIterationLoops, ForEach
<1>2. Fits(r, q, core(r), core(q))
  BY <1>0, OverlapsFit, WarmupType, FitsTimes
<1>3. \A k \in 1 .. Len(Iterations) : Fits(r, q, pre(Iterations[k]), pre(Iterations[k]))
  BY <1>0, ValidatingFits, CommonFits
<1>4. \A x : Own(post(x))
  BY <1>0, ValidatingFits
<1>5. \A x : IsLoop(L(x), Len(Iterations)) /\ \A k \in 1 .. Len(Iterations) :
          L(x)[k] = pre(Iterations[k]) \o core(x) \o post(x)
  BY DEF IsLoop
<1> HIDE DEF core, pre, post, L
<1>6. ASSUME NEW k \in 1 .. Len(Iterations) PROVE Fits(r, q, L(r)[k], L(q)[k])
  BY <1>2, <1>3, <1>4, <1>5, FitsOn, OwnFits
<1>7. Fits(r, q, FlattenSeq(L(r)), FlattenSeq(L(q)))
  BY <1>5, <1>6, IterationsFit
<1> QED BY <1>0, <1>1, <1>7, DefaultLoopsFit, FitsOn

\* The point-to-point benchmarks in C, but for the threads of osu_latency_mt.
LEMMA CPt2ptFits ==
    ASSUME NEW b \in CPt2pt \ {"osu_latency_mt"}, NEW r \in CPt2ptRanks(b), NEW q \in CPt2ptRanks(b),
           NEW v \in BOOLEAN
    PROVE  Fits(r, q, CPt2ptProgram(b, r, v), CPt2ptProgram(b, q, v))
<1>1. ASSUME NEW n \in Nat, NEW s \in Nat
      PROVE  Fits(r, q, WindowOfIterations(b, r, n, s, v), WindowOfIterations(b, q, n, s, v))
  <2> DEFINE loop(x) == IF b \in Partitioned THEN PartitionedIterationLoops(b, x, n, s, v)
                                             ELSE DefaultIterationsLoop(b, x, n, s, v)
  <2>1. Fits(r, q, loop(r), loop(q))
    BY PartitionedLoopsFit, DefaultLoopsFit
  <2>2. \A x : WindowOfIterations(b, x, n, s, v) =
            ClearErrors \o loop(x) \o Given(v /\ b # "osu_latency_mt", SumErrors)
                        \o Given(b # "osu_latency_mt", Reduce)
    BY DEF WindowOfIterations
  <2> HIDE DEF loop
  <2>3. Fits(r, q, Given(v /\ b # "osu_latency_mt", SumErrors), Given(v /\ b # "osu_latency_mt", SumErrors))
        /\ Fits(r, q, Given(b # "osu_latency_mt", Reduce), Given(b # "osu_latency_mt", Reduce))
    BY BarriersFit, FitsGiven
  <2>4. Fits(r, q, ClearErrors \o loop(r), ClearErrors \o loop(q))
    BY <2>1, OwnPieces, OwnFits
  <2> QED BY <2>2, <2>3, <2>4, FitsOn
<1>2. ASSUME NEW s \in Nat
      PROVE  Fits(r, q, RunIterationsForMsgSize(b, r, s, v), RunIterationsForMsgSize(b, q, s, v))
  <2> DEFINE W == WindowSizes(b)
             L(x) == [k \in 1 .. Len(W) |-> WindowOfIterations(b, x, W[k], s, v)]
  <2>1. Len(W) \in Nat /\ \A k \in 1 .. Len(W) : W[k] \in Nat
    BY WindowsAre
  <2>2. \A x : RunIterationsForMsgSize(b, x, s, v) = FlattenSeq(L(x))
    BY DEF RunIterationsForMsgSize, ForEach
  <2>3. \A x : IsLoop(L(x), Len(W)) /\ \A k \in 1 .. Len(W) : L(x)[k] = WindowOfIterations(b, x, W[k], s, v)
    BY DEF IsLoop
  <2> HIDE DEF W, L
  <2>4. \A k \in 1 .. Len(W) : Fits(r, q, L(r)[k], L(q)[k])
    BY <1>1, <2>1, <2>3
  <2>5. Fits(r, q, FlattenSeq(L(r)), FlattenSeq(L(q)))
    BY <2>1, <2>3, <2>4, FitsLoop
  <2> QED BY <2>2, <2>5
<1> DEFINE inner(x, s) == RunIterationsForMsgSize(b, x, s, v)
           stop == Given(v, BreakOnErrors)
           L(x) == [k \in 1 .. Len(Sizes) |-> Barrier \o inner(x, Sizes[k]) \o Barrier \o stop]
<1>3. \A x : CPt2ptProgram(b, x, v) = FlattenSeq(L(x)) \o Report
  BY PtSync DEF CPt2ptProgram, ForEach
<1>4. Own(stop) /\ Own(Report)
  BY OwnPieces, OwnOn
<1>5. \A x : IsLoop(L(x), Len(Sizes)) /\ \A k \in 1 .. Len(Sizes) :
                L(x)[k] = Barrier \o inner(x, Sizes[k]) \o Barrier \o stop
  BY DEF IsLoop
<1>6. \A s \in Nat : Fits(r, q, inner(r, s), inner(q, s))
  BY <1>2
<1> HIDE DEF inner, stop, L
<1>7. ASSUME NEW k \in 1 .. Len(Sizes) PROVE Fits(r, q, L(r)[k], L(q)[k])
  <2>1. Fits(r, q, inner(r, Sizes[k]), inner(q, Sizes[k]))
    BY <1>6, SizesAre
  <2> QED BY <1>4, <1>5, <2>1, BarriersFit, FitsOn, OwnFits
<1>8. Len(Sizes) \in Nat
  BY SizesAre
<1>9. Fits(r, q, FlattenSeq(L(r)), FlattenSeq(L(q)))
  BY <1>5, <1>7, <1>8, FitsLoop
<1> QED BY <1>3, <1>4, <1>9, OwnFits

-----------------------------------------------------------------------------
(* The point-to-point benchmarks in Java, in Python, and for NCCL or RCCL. *)

\* Calls in the other order, where only one of them says something of each kind.
LEMMA FitsSwap ==
    ASSUME NEW r, NEW q, NEW s, NEW t, NEW u, NEW w, Fits(r, q, s, t), Fits(r, q, u, w),
           \A v \in Couples(r, q) : Seen(v[1], s) = <<>> \/ Seen(v[1], u) = <<>>
    PROVE  Fits(r, q, s \o u, w \o t)
<1>1. s \in Seq(Calls) /\ t \in Seq(Calls) /\ u \in Seq(Calls) /\ w \in Seq(Calls)
  BY DEF Fits
<1>2. s \o u \in Seq(Calls) /\ w \o t \in Seq(Calls)
  BY <1>1, ConcatProperties
<1>3. ASSUME NEW v \in Couples(r, q) PROVE Seen(v[1], s \o u) = Seen(v[2], w \o t)
  <2> DEFINE a == Seen(v[1], s)
             d == Seen(v[1], u)
  <2>1. v[1] \in Views /\ v[2] \in Views
    BY PairsOfViews
  <2>2. Seen(v[1], s \o u) = a \o d
    BY <1>1, <2>1, SeenOn
  <2>3. Seen(v[2], w \o t) = Seen(v[2], w) \o Seen(v[2], t)
    BY <1>1, <2>1, SeenOn
  <2>4. Seen(v[2], t) = a /\ Seen(v[2], w) = d
    BY DEF Fits
  <2>5. a \in Seq(Letters) /\ d \in Seq(Letters)
    BY <1>1, <2>1, SeenType
  <2>6. a = <<>> \/ d = <<>>
    OBVIOUS
  <2> HIDE DEF a, d
  <2>7. a \o d = d \o a
    BY <2>5, <2>6, ConcatEmptySeq
  <2> QED BY <2>2, <2>3, <2>4, <2>7
<1> QED BY <1>2, <1>3 DEF Fits

\* Windows that are received and sent, with the receives first on both sides.
LEMMA SwappedFit ==
    \A r, q \in Nat : \A t1, t2 \in Tags : \A n, s \in Nat :
        Fits(r, q, Times(n, IRecv(q, t1, s)) \o Times(n, ISend(q, t2, s)),
                   Times(n, IRecv(r, t2, s)) \o Times(n, ISend(r, t1, s)))
<1> SUFFICES ASSUME NEW r \in Nat, NEW q \in Nat, NEW t1 \in Tags, NEW t2 \in Tags,
                    NEW n \in Nat, NEW s \in Nat
             PROVE  Fits(r, q, Times(n, IRecv(q, t1, s)) \o Times(n, ISend(q, t2, s)),
                               Times(n, IRecv(r, t2, s)) \o Times(n, ISend(r, t1, s)))
  OBVIOUS
<1> DEFINE inn == Times(n, IRecv(q, t1, s))
           out == Times(n, ISend(q, t2, s))
           Only(o) == {c \in Calls : c.op = o}
<1>1. Fits(r, q, inn, Times(n, ISend(r, t1, s))) /\ Fits(r, q, out, Times(n, IRecv(r, t2, s)))
  BY WindowsFit
<1>2. inn \in Seq(Only("irecv")) /\ out \in Seq(Only("isend"))
  <2>1. [op |-> "irecv", peer |-> q, tag |-> t1, size |-> s] \in Only("irecv")
    BY DEF Calls
  <2>2. [op |-> "isend", peer |-> q, tag |-> t2, size |-> s] \in Only("isend")
    BY DEF Calls
  <2> HIDE DEF Only
  <2>3. IRecv(q, t1, s) \in Seq(Only("irecv")) /\ ISend(q, t2, s) \in Seq(Only("isend"))
    BY <2>1, <2>2 DEF IRecv, ISend
  <2> QED BY <2>3, Within0
<1>3. ASSUME NEW v \in Couples(r, q) PROVE Seen(v[1], inn) = <<>> \/ Seen(v[1], out) = <<>>
  <2>1. \/ \A c \in Only("irecv") : v[1][c] = <<>>
        \/ \A c \in Only("isend") : v[1][c] = <<>>
    BY DEF Couples, Agreed, To, From
  <2>2. /\ Len(inn) \in Nat /\ \A k \in 1 .. Len(inn) : inn[k] \in Only("irecv")
        /\ Len(out) \in Nat /\ \A k \in 1 .. Len(out) : out[k] \in Only("isend")
    <3> HIDE DEF inn, out, Only
    <3> QED BY <1>2
  <2> HIDE DEF inn, out, Only
  <2> QED BY <2>1, <2>2, SeenNone
<1> HIDE DEF inn, out
<1> QED BY <1>1, <1>3, FitsSwap DEF inn, out

\* The two sides of a benchmark of two ranks.
LEMMA TwoSides ==
    \A r, q \in {0, 1} : \A s, t :
        Fits(0, 1, s, t) /\ Aside(0, s) /\ Aside(1, t) =>
        Fits(r, q, IF r = 0 THEN s ELSE t, IF q = 0 THEN s ELSE t)
<1> SUFFICES ASSUME NEW r \in {0, 1}, NEW q \in {0, 1}, NEW s, NEW t,
                    Fits(0, 1, s, t), Aside(0, s), Aside(1, t)
             PROVE  Fits(r, q, IF r = 0 THEN s ELSE t, IF q = 0 THEN s ELSE t)
  OBVIOUS
<1>1. Fits(0, 0, s, s) /\ Fits(1, 1, t, t)
  BY BothAside
<1>2. Fits(1, 0, t, s)
  BY FitsBack
<1> QED BY <1>1, <1>2

\* The same in each iteration.
LEMMA TwoLoops ==
    ASSUME NEW r \in {0, 1}, NEW q \in {0, 1}, NEW S, NEW T,
           \A k \in 1 .. Len(Iterations) : Fits(0, 1, S[k], T[k]) /\ Aside(0, S[k]) /\ Aside(1, T[k]),
           NEW ss, NEW tt, IsLoop(ss, Len(Iterations)), IsLoop(tt, Len(Iterations)),
           \A k \in 1 .. Len(Iterations) : /\ ss[k] = IF r = 0 THEN S[k] ELSE T[k]
                                           /\ tt[k] = IF q = 0 THEN S[k] ELSE T[k]
    PROVE  Fits(r, q, FlattenSeq(ss), FlattenSeq(tt))
BY TwoSides, IterationsFit

\* A loop over the sizes.
LEMMA SizesFit ==
    ASSUME NEW r, NEW q, NEW ss, NEW tt, IsLoop(ss, Len(Sizes)), IsLoop(tt, Len(Sizes)),
           \A k \in 1 .. Len(Sizes) : Fits(r, q, ss[k], tt[k])
    PROVE  Fits(r, q, FlattenSeq(ss), FlattenSeq(tt))
<1>1. Len(Sizes) \in Nat
  BY SizesAre
<1> QED BY <1>1, FitsLoop

\* The warm-up of the Java benchmarks.
LEMMA WarmupLoopFits ==
    \A r, q \in {0, 1} : Fits(r, q, JavaWarmupLoop(r), JavaWarmupLoop(q))
<1> SUFFICES ASSUME NEW r \in {0, 1}, NEW q \in {0, 1}
             PROVE  Fits(r, q, JavaWarmupLoop(r), JavaWarmupLoop(q))
  OBVIOUS
<1> DEFINE S == Recv(1, "998", WarmupSize) \o Send(1, "998", WarmupSize)
           T == Send(0, "998", WarmupSize) \o Recv(0, "998", WarmupSize)
           side(x) == IF x = 0 THEN S ELSE T
<1>1. "998" \in Tags /\ WarmupSize \in Nat /\ InitialWarmup \in Nat
  BY InitialWarmupAssumption DEF Tags, WarmupSize
<1>2. Fits(0, 1, S, T) /\ Aside(0, S) /\ Aside(1, T)
  <2> DEFINE m1 == Recv(1, "998", WarmupSize)
             m2 == Send(1, "998", WarmupSize)
             w1 == Send(0, "998", WarmupSize)
             w2 == Recv(0, "998", WarmupSize)
  <2>1. Fits(0, 1, m1, w1) /\ Fits(0, 1, m2, w2)
    BY <1>1, SendsFit
  <2>2. Aside(0, m1) /\ Aside(0, m2) /\ Aside(1, w1) /\ Aside(1, w2)
    BY <1>1, MessagesAside
  <2> HIDE DEF m1, m2, w1, w2
  <2> QED BY <2>1, <2>2, FitsOn, AsideOn DEF m1, m2, w1, w2
<1>3. \A x : JavaWarmupLoop(x) = Times(InitialWarmup, side(x))
  BY DEF JavaWarmupLoop
<1> HIDE DEF S, T
<1>4. Fits(r, q, side(r), side(q))
  BY <1>2, TwoSides
<1> HIDE DEF side
<1> QED BY <1>1, <1>3, <1>4, FitsTimes

\* Calls of the own rank before two windows.
LEMMA GroupTwo ==
    \A q, u, s, t : Own(u) /\ Aside(q, s) /\ Aside(q, t) => u \o s \o t = u \o (s \o t)
<1> SUFFICES ASSUME NEW q, NEW u, NEW s, NEW t, Own(u), Aside(q, s), Aside(q, t)
             PROVE  u \o s \o t = u \o (s \o t)
  OBVIOUS
<1>1. u \in Seq(AsideCall(q)) /\ s \in Seq(AsideCall(q)) /\ t \in Seq(AsideCall(q))
  BY OwnIs DEF Aside
<1> QED BY <1>1, ConcatAssociative

\* The two sides of OSULatency in Java.
LEMMA OSULatencyFits ==
    ASSUME NEW r \in {0, 1}, NEW q \in {0, 1}, NEW v \in BOOLEAN
    PROVE  Fits(r, q, OSULatency(r, v), OSULatency(q, v))
<1> DEFINE S(s, i) == StartOnce(i) \o JavaFill(v) \o Send(1, "998", s) \o JavaFill(v) \o Recv(1, "998", s) \o JavaCheck(v) \o StopOnce(i)
           T(s, i) == JavaFill(v) \o Recv(0, "998", s) \o JavaCheck(v) \o JavaFill(v) \o Send(0, "998", s)
           L(x, s) == [k \in 1 .. Len(Iterations) |-> IF x = 0 THEN S(s, Iterations[k]) ELSE T(s, Iterations[k])]
           O(x) == [k \in 1 .. Len(Sizes) |-> FlattenSeq(L(x, Sizes[k])) \o Barrier]
<1>1. \A x : OSULatency(x, v) = JavaWarmupLoop(x) \o FlattenSeq(O(x))
  BY DEF OSULatency, JavaSizes, ForEach
<1>2. \A s \in Nat : \A i : Fits(0, 1, S(s, i), T(s, i)) /\ Aside(0, S(s, i)) /\ Aside(1, T(s, i))
  <2>0. "998" \in Tags /\ ReplySize \in Nat
    BY DEF Tags, ReplySize
  <2>1. ASSUME NEW s \in Nat, NEW i
        PROVE  Fits(0, 1, S(s, i), T(s, i)) /\ Aside(0, S(s, i)) /\ Aside(1, T(s, i))
    <3> DEFINE o1 == StartOnce(i) \o JavaFill(v)
               m1 == Send(1, "998", s)
               o2 == JavaFill(v)
               m2 == Recv(1, "998", s)
               o3 == JavaCheck(v)
               o4 == StopOnce(i)
               w1 == Recv(0, "998", s)
               w2 == Send(0, "998", s)
    <3>1. Own(o1) /\ Own(o2) /\ Own(o3) /\ Own(o4)
      BY OwnPieces, OwnOn
    <3>2. Fits(0, 1, m1, w1) /\ Fits(0, 1, m2, w2)
      BY <2>0, SendsFit, WindowsFit, MessagesFit
    <3>3. Aside(0, m1) /\ Aside(0, m2) /\ Aside(1, w1) /\ Aside(1, w2)
      <4>1. Aside(0, m1)
        BY <2>0, MessagesAside
      <4>2. Aside(0, m2)
        BY <2>0, MessagesAside
      <4>3. Aside(1, w1)
        BY <2>0, MessagesAside
      <4>4. Aside(1, w2)
        BY <2>0, MessagesAside
      <4> QED BY <4>1, <4>2, <4>3, <4>4
    <3>4. /\ S(s, i) = o1 \o m1 \o o2 \o m2 \o o3 \o o4
          /\ T(s, i) = o2 \o w1 \o o3 \o o2 \o w2
      BY DEF XcclTimed, SynchronizeStream
    <3> HIDE DEF o1, m1, o2, m2, o3, o4, w1, w2, S, T
    <3>5. Fits(0, 1, o1 \o m1, o2 \o w1)
      BY <3>1, <3>2, OwnFits, FitsOn
    <3>6. Fits(0, 1, o1 \o m1 \o o2, o2 \o w1 \o o3 \o o2)
      BY <3>1, <3>2, <3>5, OwnFits, FitsOn
    <3>7. Fits(0, 1, o1 \o m1 \o o2 \o m2, o2 \o w1 \o o3 \o o2 \o w2)
      BY <3>1, <3>2, <3>6, OwnFits, FitsOn
    <3>8. Fits(0, 1, o1 \o m1 \o o2 \o m2 \o o3 \o o4, o2 \o w1 \o o3 \o o2 \o w2)
      BY <3>1, <3>2, <3>7, OwnFits, FitsOn
    <3>9. Aside(0, S(s, i)) /\ Aside(1, T(s, i))
      BY <3>1, <3>3, <3>4, OwnIs, AsideOn
    <3> QED BY <3>4, <3>8, <3>9
  <2> QED BY <2>1
<1>3. \A x, s : /\ IsLoop(L(x, s), Len(Iterations))
                /\ \A k \in 1 .. Len(Iterations) :
                      L(x, s)[k] = IF x = 0 THEN S(s, Iterations[k]) ELSE T(s, Iterations[k])
  BY DEF IsLoop
<1>4. \A x : /\ IsLoop(O(x), Len(Sizes))
             /\ \A k \in 1 .. Len(Sizes) : O(x)[k] = FlattenSeq(L(x, Sizes[k])) \o Barrier
  BY DEF IsLoop
<1> HIDE DEF S, T, L, O
<1>5. ASSUME NEW s \in Nat PROVE Fits(r, q, FlattenSeq(L(r, s)), FlattenSeq(L(q, s)))
  <2>1. ASSUME NEW k \in 1 .. Len(Iterations) PROVE Fits(r, q, L(r, s)[k], L(q, s)[k])
    BY <1>2, <1>3, TwoSides
  <2> QED BY <1>3, <2>1, IterationsFit
<1>6. ASSUME NEW k \in 1 .. Len(Sizes) PROVE Fits(r, q, O(r)[k], O(q)[k])
  <2>1. Fits(r, q, FlattenSeq(L(r, Sizes[k])), FlattenSeq(L(q, Sizes[k])))
    BY <1>5, SizesAre
  <2>2. Fits(r, q, Barrier, Barrier)
    BY BarriersFit
  <2>9. /\ O(r)[k] = FlattenSeq(L(r, Sizes[k])) \o Barrier
        /\ O(q)[k] = FlattenSeq(L(q, Sizes[k])) \o Barrier
    BY <1>4
  <2> QED BY <2>1, <2>2, <2>9, FitsOn
<1>7. Fits(r, q, FlattenSeq(O(r)), FlattenSeq(O(q)))
  BY <1>4, <1>6, SizesFit
<1> QED BY <1>1, <1>7, WarmupLoopFits, FitsOn

\* The two sides of OSUBandwidth in Java.
LEMMA OSUBandwidthFits ==
    ASSUME NEW r \in {0, 1}, NEW q \in {0, 1}, NEW n \in Nat, NEW v \in BOOLEAN
    PROVE  Fits(r, q, OSUBandwidth(r, n, v), OSUBandwidth(q, n, v))
<1> DEFINE S(s, i) == StartOnce(i) \o JavaFill(v) \o Times(n, ISend(1, "100", s)) \o Wait("isend") \o JavaFill(v) \o Recv(1, "101", ReplySize) \o StopOnce(i)
           T(s, i) == JavaFill(v) \o Times(n, IRecv(0, "100", s)) \o Wait("irecv") \o JavaCheck(v) \o JavaFill(v) \o Send(0, "101", ReplySize)
           L(x, s) == [k \in 1 .. Len(Iterations) |-> IF x = 0 THEN S(s, Iterations[k]) ELSE T(s, Iterations[k])]
           O(x) == [k \in 1 .. Len(Sizes) |-> FlattenSeq(L(x, Sizes[k])) \o Barrier]
<1>1. \A x : OSUBandwidth(x, n, v) = FlattenSeq(O(x))
  BY DEF OSUBandwidth, JavaSizes, ForEach
<1>2. \A s \in Nat : \A i : Fits(0, 1, S(s, i), T(s, i)) /\ Aside(0, S(s, i)) /\ Aside(1, T(s, i))
  <2>0. "100" \in Tags /\ "101" \in Tags /\ ReplySize \in Nat
    BY DEF Tags, ReplySize
  <2>1. ASSUME NEW s \in Nat, NEW i
        PROVE  Fits(0, 1, S(s, i), T(s, i)) /\ Aside(0, S(s, i)) /\ Aside(1, T(s, i))
    <3> DEFINE o1 == StartOnce(i) \o JavaFill(v)
               m1 == Times(n, ISend(1, "100", s))
               o4 == Wait("isend")
               o2 == JavaFill(v)
               m2 == Recv(1, "101", ReplySize)
               o5 == StopOnce(i)
               w1 == Times(n, IRecv(0, "100", s))
               o6 == Wait("irecv")
               o3 == JavaCheck(v)
               w2 == Send(0, "101", ReplySize)
    <3>1. Own(o1) /\ Own(o4) /\ Own(o2) /\ Own(o5) /\ Own(o6) /\ Own(o3)
      BY OwnPieces, OwnOn
    <3>2. Fits(0, 1, m1, w1) /\ Fits(0, 1, m2, w2)
      BY <2>0, SendsFit, WindowsFit, MessagesFit
    <3>3. Aside(0, m1) /\ Aside(0, m2) /\ Aside(1, w1) /\ Aside(1, w2)
      <4>1. Aside(0, m1)
        BY <2>0, WindowsAside
      <4>2. Aside(0, m2)
        BY <2>0, MessagesAside
      <4>3. Aside(1, w1)
        BY <2>0, WindowsAside
      <4>4. Aside(1, w2)
        BY <2>0, MessagesAside
      <4> QED BY <4>1, <4>2, <4>3, <4>4
    <3>4. /\ S(s, i) = o1 \o m1 \o o4 \o o2 \o m2 \o o5
          /\ T(s, i) = o2 \o w1 \o o6 \o o3 \o o2 \o w2
      BY DEF XcclTimed, SynchronizeStream
    <3> HIDE DEF o1, m1, o4, o2, m2, o5, w1, o6, o3, w2, S, T
    <3>5. Fits(0, 1, o1 \o m1, o2 \o w1)
      BY <3>1, <3>2, OwnFits, FitsOn
    <3>6. Fits(0, 1, o1 \o m1 \o o4 \o o2, o2 \o w1 \o o6 \o o3 \o o2)
      BY <3>1, <3>2, <3>5, OwnFits, FitsOn
    <3>7. Fits(0, 1, o1 \o m1 \o o4 \o o2 \o m2, o2 \o w1 \o o6 \o o3 \o o2 \o w2)
      BY <3>1, <3>2, <3>6, OwnFits, FitsOn
    <3>8. Fits(0, 1, o1 \o m1 \o o4 \o o2 \o m2 \o o5, o2 \o w1 \o o6 \o o3 \o o2 \o w2)
      BY <3>1, <3>2, <3>7, OwnFits, FitsOn
    <3>9. Aside(0, S(s, i)) /\ Aside(1, T(s, i))
      BY <3>1, <3>3, <3>4, OwnIs, AsideOn
    <3> QED BY <3>4, <3>8, <3>9
  <2> QED BY <2>1
<1>3. \A x, s : /\ IsLoop(L(x, s), Len(Iterations))
                /\ \A k \in 1 .. Len(Iterations) :
                      L(x, s)[k] = IF x = 0 THEN S(s, Iterations[k]) ELSE T(s, Iterations[k])
  BY DEF IsLoop
<1>4. \A x : /\ IsLoop(O(x), Len(Sizes))
             /\ \A k \in 1 .. Len(Sizes) : O(x)[k] = FlattenSeq(L(x, Sizes[k])) \o Barrier
  BY DEF IsLoop
<1> HIDE DEF S, T, L, O
<1>5. ASSUME NEW s \in Nat PROVE Fits(r, q, FlattenSeq(L(r, s)), FlattenSeq(L(q, s)))
  <2>1. ASSUME NEW k \in 1 .. Len(Iterations) PROVE Fits(r, q, L(r, s)[k], L(q, s)[k])
    BY <1>2, <1>3, TwoSides
  <2> QED BY <1>3, <2>1, IterationsFit
<1>6. ASSUME NEW k \in 1 .. Len(Sizes) PROVE Fits(r, q, O(r)[k], O(q)[k])
  <2>1. Fits(r, q, FlattenSeq(L(r, Sizes[k])), FlattenSeq(L(q, Sizes[k])))
    BY <1>5, SizesAre
  <2>2. Fits(r, q, Barrier, Barrier)
    BY BarriersFit
  <2>9. /\ O(r)[k] = FlattenSeq(L(r, Sizes[k])) \o Barrier
        /\ O(q)[k] = FlattenSeq(L(q, Sizes[k])) \o Barrier
    BY <1>4
  <2> QED BY <2>1, <2>2, <2>9, FitsOn
<1>7. Fits(r, q, FlattenSeq(O(r)), FlattenSeq(O(q)))
  BY <1>4, <1>6, SizesFit
<1> QED BY <1>1, <1>7, WarmupLoopFits, FitsOn

\* The two sides of osu_bw in Python.
LEMMA PythonBandwidthFits ==
    ASSUME NEW r \in {0, 1}, NEW q \in {0, 1}, NEW n \in Nat
    PROVE  Fits(r, q, PythonBandwidth(r, n), PythonBandwidth(q, n))
<1> DEFINE S(s, i) == StartOnce(i) \o Times(n, ISend(1, "100", s)) \o Wait("isend") \o Recv(1, "101", ReplySize)
           T(s, i) == Times(n, IRecv(0, "100", s)) \o Wait("irecv") \o Send(0, "101", ReplySize)
           L(x, s) == [k \in 1 .. Len(Iterations) |-> IF x = 0 THEN S(s, Iterations[k]) ELSE T(s, Iterations[k])]
           O(x) == [k \in 1 .. Len(Sizes) |-> Barrier \o FlattenSeq(L(x, Sizes[k])) \o Given(x = 0, StopClock \o Sample)]
<1>1. \A x : PythonBandwidth(x, n) = FlattenSeq(O(x))
  BY DEF PythonBandwidth, ForEach
<1>2. \A s \in Nat : \A i : Fits(0, 1, S(s, i), T(s, i)) /\ Aside(0, S(s, i)) /\ Aside(1, T(s, i))
  <2>0. "100" \in Tags /\ "101" \in Tags /\ ReplySize \in Nat
    BY DEF Tags, ReplySize
  <2>1. ASSUME NEW s \in Nat, NEW i
        PROVE  Fits(0, 1, S(s, i), T(s, i)) /\ Aside(0, S(s, i)) /\ Aside(1, T(s, i))
    <3> DEFINE o1 == StartOnce(i)
               m1 == Times(n, ISend(1, "100", s))
               o2 == Wait("isend")
               m2 == Recv(1, "101", ReplySize)
               w1 == Times(n, IRecv(0, "100", s))
               o3 == Wait("irecv")
               w2 == Send(0, "101", ReplySize)
    <3>1. Own(o1) /\ Own(o2) /\ Own(o3)
      BY OwnPieces, OwnOn
    <3>2. Fits(0, 1, m1, w1) /\ Fits(0, 1, m2, w2)
      BY <2>0, SendsFit, WindowsFit, MessagesFit
    <3>3. Aside(0, m1) /\ Aside(0, m2) /\ Aside(1, w1) /\ Aside(1, w2)
      <4>1. Aside(0, m1)
        BY <2>0, WindowsAside
      <4>2. Aside(0, m2)
        BY <2>0, MessagesAside
      <4>3. Aside(1, w1)
        BY <2>0, WindowsAside
      <4>4. Aside(1, w2)
        BY <2>0, MessagesAside
      <4> QED BY <4>1, <4>2, <4>3, <4>4
    <3>4. /\ S(s, i) = o1 \o m1 \o o2 \o m2
          /\ T(s, i) = w1 \o o3 \o w2
      BY DEF XcclTimed, SynchronizeStream
    <3> HIDE DEF o1, m1, o2, m2, w1, o3, w2, S, T
    <3>5. Fits(0, 1, o1 \o m1, w1)
      BY <3>1, <3>2, OwnFits, FitsOn
    <3>6. Fits(0, 1, o1 \o m1 \o o2, w1 \o o3)
      BY <3>1, <3>2, <3>5, OwnFits, FitsOn
    <3>7. Fits(0, 1, o1 \o m1 \o o2 \o m2, w1 \o o3 \o w2)
      BY <3>1, <3>2, <3>6, OwnFits, FitsOn
    <3>8. Aside(0, S(s, i)) /\ Aside(1, T(s, i))
      BY <3>1, <3>3, <3>4, OwnIs, AsideOn
    <3> QED BY <3>4, <3>7, <3>8
  <2> QED BY <2>1
<1>3. \A x, s : /\ IsLoop(L(x, s), Len(Iterations))
                /\ \A k \in 1 .. Len(Iterations) :
                      L(x, s)[k] = IF x = 0 THEN S(s, Iterations[k]) ELSE T(s, Iterations[k])
  BY DEF IsLoop
<1>4. \A x : /\ IsLoop(O(x), Len(Sizes))
             /\ \A k \in 1 .. Len(Sizes) : O(x)[k] = Barrier \o FlattenSeq(L(x, Sizes[k])) \o Given(x = 0, StopClock \o Sample)
  BY DEF IsLoop
<1> HIDE DEF S, T, L, O
<1>5. ASSUME NEW s \in Nat PROVE Fits(r, q, FlattenSeq(L(r, s)), FlattenSeq(L(q, s)))
  <2>1. ASSUME NEW k \in 1 .. Len(Iterations) PROVE Fits(r, q, L(r, s)[k], L(q, s)[k])
    BY <1>2, <1>3, TwoSides
  <2> QED BY <1>3, <2>1, IterationsFit
<1>6. ASSUME NEW k \in 1 .. Len(Sizes) PROVE Fits(r, q, O(r)[k], O(q)[k])
  <2>1. Fits(r, q, FlattenSeq(L(r, Sizes[k])), FlattenSeq(L(q, Sizes[k])))
    BY <1>5, SizesAre
  <2>2. Fits(r, q, Barrier, Barrier) /\ Own(Given(r = 0, StopClock \o Sample)) /\ Own(Given(q = 0, StopClock \o Sample))
    BY BarriersFit, OwnPieces, OwnOn
  <2>9. /\ O(r)[k] = Barrier \o FlattenSeq(L(r, Sizes[k])) \o Given(r = 0, StopClock \o Sample)
        /\ O(q)[k] = Barrier \o FlattenSeq(L(q, Sizes[k])) \o Given(q = 0, StopClock \o Sample)
    BY <1>4
  <2> QED BY <2>1, <2>2, <2>9, FitsOn, OwnFits
<1>7. Fits(r, q, FlattenSeq(O(r)), FlattenSeq(O(q)))
  BY <1>4, <1>6, SizesFit
<1> QED BY <1>1, <1>7, WarmupLoopFits, FitsOn

\* The two sides of osu_xccl_latency.
LEMMA XcclLatencyFits ==
    ASSUME NEW r \in {0, 1}, NEW q \in {0, 1}
    PROVE  Fits(r, q, XcclLatency(r), XcclLatency(q))
<1> DEFINE none == ""
           S(s, i) == XcclTimed(i, ISend(1, none, s) \o SynchronizeStream \o IRecv(1, none, s) \o SynchronizeStream)
           T(s, i) == IRecv(0, none, s) \o SynchronizeStream \o ISend(0, none, s) \o SynchronizeStream
           L(x, s) == [k \in 1 .. Len(Iterations) |-> IF x = 0 THEN S(s, Iterations[k]) ELSE T(s, Iterations[k])]
           O(x) == [k \in 1 .. Len(Sizes) |-> Barrier \o FlattenSeq(L(x, Sizes[k]))]
<1>1. \A x : XcclLatency(x) = FlattenSeq(O(x))
  BY DEF XcclLatency, ForEach
<1>0. none \in Tags
  BY Zenon DEF Tags
<1> HIDE DEF none
<1>2. \A s \in Nat : \A i : Fits(0, 1, S(s, i), T(s, i)) /\ Aside(0, S(s, i)) /\ Aside(1, T(s, i))
  <2>0. none \in Tags /\ ReplySize \in Nat
    BY <1>0 DEF ReplySize
  <2>1. ASSUME NEW s \in Nat, NEW i
        PROVE  Fits(0, 1, S(s, i), T(s, i)) /\ Aside(0, S(s, i)) /\ Aside(1, T(s, i))
    <3> DEFINE o1 == Given(Measured(i), StartClock)
               m1 == ISend(1, none, s)
               o2 == SynchronizeStream
               m2 == IRecv(1, none, s)
               o3 == Given(Measured(i), StopClock \o Sample)
               w1 == IRecv(0, none, s)
               w2 == ISend(0, none, s)
    <3>1. Own(o1) /\ Own(o2) /\ Own(o3)
      BY OwnPieces, OwnOn
    <3>2. Fits(0, 1, m1, w1) /\ Fits(0, 1, m2, w2)
      BY <2>0, SendsFit, WindowsFit, MessagesFit
    <3>3. Aside(0, m1) /\ Aside(0, m2) /\ Aside(1, w1) /\ Aside(1, w2)
      <4>1. Aside(0, m1)
        BY <2>0, MessagesAside
      <4>2. Aside(0, m2)
        BY <2>0, MessagesAside
      <4>3. Aside(1, w1)
        BY <2>0, MessagesAside
      <4>4. Aside(1, w2)
        BY <2>0, MessagesAside
      <4> QED BY <4>1, <4>2, <4>3, <4>4
    <3>4. /\ S(s, i) = o1 \o (m1 \o o2 \o m2 \o o2) \o o3
          /\ T(s, i) = w1 \o o2 \o w2 \o o2
      BY DEF XcclTimed, SynchronizeStream
    <3> HIDE DEF o1, m1, o2, m2, o3, w1, w2, S, T
    <3>5. Fits(0, 1, m1, w1)
      BY <3>1, <3>2, OwnFits, FitsOn
    <3>6. Fits(0, 1, m1 \o o2, w1 \o o2)
      BY <3>1, <3>2, <3>5, OwnFits, FitsOn
    <3>7. Fits(0, 1, m1 \o o2 \o m2, w1 \o o2 \o w2)
      BY <3>1, <3>2, <3>6, OwnFits, FitsOn
    <3>8. Fits(0, 1, m1 \o o2 \o m2 \o o2, w1 \o o2 \o w2 \o o2)
      BY <3>1, <3>2, <3>7, OwnFits, FitsOn
    <3>9. Fits(0, 1, S(s, i), T(s, i))
      BY <3>1, <3>4, <3>8, OwnFits
    <3>10. Aside(0, S(s, i)) /\ Aside(1, T(s, i))
      BY <3>1, <3>3, <3>4, OwnIs, AsideOn
    <3> QED BY <3>9, <3>10
  <2> QED BY <2>1
<1>3. \A x, s : /\ IsLoop(L(x, s), Len(Iterations))
                /\ \A k \in 1 .. Len(Iterations) :
                      L(x, s)[k] = IF x = 0 THEN S(s, Iterations[k]) ELSE T(s, Iterations[k])
  BY DEF IsLoop
<1>4. \A x : /\ IsLoop(O(x), Len(Sizes))
             /\ \A k \in 1 .. Len(Sizes) : O(x)[k] = Barrier \o FlattenSeq(L(x, Sizes[k]))
  BY DEF IsLoop
<1> HIDE DEF S, T, L, O
<1>5. ASSUME NEW s \in Nat PROVE Fits(r, q, FlattenSeq(L(r, s)), FlattenSeq(L(q, s)))
  <2>1. ASSUME NEW k \in 1 .. Len(Iterations) PROVE Fits(r, q, L(r, s)[k], L(q, s)[k])
    BY <1>2, <1>3, TwoSides
  <2> QED BY <1>3, <2>1, IterationsFit
<1>6. ASSUME NEW k \in 1 .. Len(Sizes) PROVE Fits(r, q, O(r)[k], O(q)[k])
  <2>1. Fits(r, q, FlattenSeq(L(r, Sizes[k])), FlattenSeq(L(q, Sizes[k])))
    BY <1>5, SizesAre
  <2>2. Fits(r, q, Barrier, Barrier)
    BY BarriersFit
  <2>9. /\ O(r)[k] = Barrier \o FlattenSeq(L(r, Sizes[k]))
        /\ O(q)[k] = Barrier \o FlattenSeq(L(q, Sizes[k]))
    BY <1>4
  <2> QED BY <2>1, <2>2, <2>9, FitsOn
<1>7. Fits(r, q, FlattenSeq(O(r)), FlattenSeq(O(q)))
  BY <1>4, <1>6, SizesFit
<1> QED BY <1>1, <1>7, WarmupLoopFits, FitsOn

\* The two sides of osu_xccl_bw.
LEMMA XcclBandwidthFits ==
    ASSUME NEW r \in {0, 1}, NEW q \in {0, 1}, NEW n \in Nat
    PROVE  Fits(r, q, XcclBandwidth(r, n), XcclBandwidth(q, n))
<1> DEFINE none == ""
           S(s, i) == XcclTimed(i, Times(n, ISend(1, none, s)) \o SynchronizeStream \o IRecv(1, none, ReplySize))
           T(s, i) == Times(n, IRecv(0, none, s)) \o SynchronizeStream \o ISend(0, none, ReplySize)
           L(x, s) == [k \in 1 .. Len(Iterations) |-> IF x = 0 THEN S(s, Iterations[k]) ELSE T(s, Iterations[k])]
           O(x) == [k \in 1 .. Len(Sizes) |-> FlattenSeq(L(x, Sizes[k]))]
<1>1. \A x : XcclBandwidth(x, n) = FlattenSeq(O(x))
  BY DEF XcclBandwidth, ForEach
<1>0. none \in Tags
  BY Zenon DEF Tags
<1> HIDE DEF none
<1>2. \A s \in Nat : \A i : Fits(0, 1, S(s, i), T(s, i)) /\ Aside(0, S(s, i)) /\ Aside(1, T(s, i))
  <2>0. none \in Tags /\ ReplySize \in Nat
    BY <1>0 DEF ReplySize
  <2>1. ASSUME NEW s \in Nat, NEW i
        PROVE  Fits(0, 1, S(s, i), T(s, i)) /\ Aside(0, S(s, i)) /\ Aside(1, T(s, i))
    <3> DEFINE o1 == Given(Measured(i), StartClock)
               m1 == Times(n, ISend(1, none, s))
               o2 == SynchronizeStream
               m2 == IRecv(1, none, ReplySize)
               o3 == Given(Measured(i), StopClock \o Sample)
               w1 == Times(n, IRecv(0, none, s))
               w2 == ISend(0, none, ReplySize)
    <3>1. Own(o1) /\ Own(o2) /\ Own(o3)
      BY OwnPieces, OwnOn
    <3>2. Fits(0, 1, m1, w1) /\ Fits(0, 1, m2, w2)
      BY <2>0, SendsFit, WindowsFit, MessagesFit
    <3>3. Aside(0, m1) /\ Aside(0, m2) /\ Aside(1, w1) /\ Aside(1, w2)
      <4>1. Aside(0, m1)
        BY <2>0, WindowsAside
      <4>2. Aside(0, m2)
        BY <2>0, MessagesAside
      <4>3. Aside(1, w1)
        BY <2>0, WindowsAside
      <4>4. Aside(1, w2)
        BY <2>0, MessagesAside
      <4> QED BY <4>1, <4>2, <4>3, <4>4
    <3>4. /\ S(s, i) = o1 \o (m1 \o o2 \o m2) \o o3
          /\ T(s, i) = w1 \o o2 \o w2
      BY DEF XcclTimed, SynchronizeStream
    <3> HIDE DEF o1, m1, o2, m2, o3, w1, w2, S, T
    <3>5. Fits(0, 1, m1, w1)
      BY <3>1, <3>2, OwnFits, FitsOn
    <3>6. Fits(0, 1, m1 \o o2, w1 \o o2)
      BY <3>1, <3>2, <3>5, OwnFits, FitsOn
    <3>7. Fits(0, 1, m1 \o o2 \o m2, w1 \o o2 \o w2)
      BY <3>1, <3>2, <3>6, OwnFits, FitsOn
    <3>8. Fits(0, 1, S(s, i), T(s, i))
      BY <3>1, <3>4, <3>7, OwnFits
    <3>9. Aside(0, S(s, i)) /\ Aside(1, T(s, i))
      BY <3>1, <3>3, <3>4, OwnIs, AsideOn
    <3> QED BY <3>8, <3>9
  <2> QED BY <2>1
<1>3. \A x, s : /\ IsLoop(L(x, s), Len(Iterations))
                /\ \A k \in 1 .. Len(Iterations) :
                      L(x, s)[k] = IF x = 0 THEN S(s, Iterations[k]) ELSE T(s, Iterations[k])
  BY DEF IsLoop
<1>4. \A x : /\ IsLoop(O(x), Len(Sizes))
             /\ \A k \in 1 .. Len(Sizes) : O(x)[k] = FlattenSeq(L(x, Sizes[k]))
  BY DEF IsLoop
<1> HIDE DEF S, T, L, O
<1>5. ASSUME NEW s \in Nat PROVE Fits(r, q, FlattenSeq(L(r, s)), FlattenSeq(L(q, s)))
  <2>1. ASSUME NEW k \in 1 .. Len(Iterations) PROVE Fits(r, q, L(r, s)[k], L(q, s)[k])
    BY <1>2, <1>3, TwoSides
  <2> QED BY <1>3, <2>1, IterationsFit
<1>6. ASSUME NEW k \in 1 .. Len(Sizes) PROVE Fits(r, q, O(r)[k], O(q)[k])
  <2>1. Fits(r, q, FlattenSeq(L(r, Sizes[k])), FlattenSeq(L(q, Sizes[k])))
    BY <1>5, SizesAre
  <2>9. O(r)[k] = FlattenSeq(L(r, Sizes[k])) /\ O(q)[k] = FlattenSeq(L(q, Sizes[k]))
    BY <1>4
  <2> QED BY <2>1, <2>9
<1>7. Fits(r, q, FlattenSeq(O(r)), FlattenSeq(O(q)))
  BY <1>4, <1>6, SizesFit
<1> QED BY <1>1, <1>7, WarmupLoopFits, FitsOn

\* The two sides of OSUBiBandwidth in Java.
LEMMA OSUBiBandwidthFits ==
    ASSUME NEW r \in {0, 1}, NEW q \in {0, 1}, NEW n \in Nat, NEW v \in BOOLEAN
    PROVE  Fits(r, q, OSUBiBandwidth(r, n, v), OSUBiBandwidth(q, n, v))
<1> DEFINE S(s, i) == StartOnce(i) \o JavaFill(v) \o Times(n, IRecv(1, "100", s)) \o Times(n, ISend(1, "101", s)) \o Wait("isend") \o Wait("irecv") \o JavaCheck(v) \o StopOnce(i)
           T(s, i) == JavaFill(v) \o Times(n, IRecv(0, "101", s)) \o Times(n, ISend(0, "100", s)) \o Wait("irecv") \o Wait("isend") \o JavaCheck(v)
           L(x, s) == [k \in 1 .. Len(Iterations) |-> IF x = 0 THEN S(s, Iterations[k]) ELSE T(s, Iterations[k])]
           O(x) == [k \in 1 .. Len(Sizes) |-> FlattenSeq(L(x, Sizes[k])) \o Barrier]
<1>1. \A x : OSUBiBandwidth(x, n, v) = JavaWarmupLoop(x) \o FlattenSeq(O(x))
  BY DEF OSUBiBandwidth, JavaSizes, ForEach
<1>2. \A s \in Nat : \A i : Fits(0, 1, S(s, i), T(s, i)) /\ Aside(0, S(s, i)) /\ Aside(1, T(s, i))
  <2>0. "100" \in Tags /\ "101" \in Tags
    BY DEF Tags
  <2>1. ASSUME NEW s \in Nat, NEW i
        PROVE  Fits(0, 1, S(s, i), T(s, i)) /\ Aside(0, S(s, i)) /\ Aside(1, T(s, i))
    <3> DEFINE o1 == StartOnce(i) \o JavaFill(v)
               o4 == Wait("isend")
               o5 == Wait("irecv")
               o3 == JavaCheck(v)
               o6 == StopOnce(i)
               o2 == JavaFill(v)
               in0 == Times(n, IRecv(1, "100", s))
               out0 == Times(n, ISend(1, "101", s))
               in1 == Times(n, IRecv(0, "101", s))
               out1 == Times(n, ISend(0, "100", s))
    <3>1. Own(o1) /\ Own(o4) /\ Own(o5) /\ Own(o3) /\ Own(o6) /\ Own(o2)
      BY OwnPieces, OwnOn
    <3>2. Fits(0, 1, in0 \o out0, in1 \o out1)
      BY <2>0, SwappedFit
    <3>3. Aside(0, in0) /\ Aside(0, out0) /\ Aside(1, in1) /\ Aside(1, out1)
      BY <2>0, WindowsAside
    <3>4. /\ S(s, i) = o1 \o in0 \o out0 \o o4 \o o5 \o o3 \o o6
          /\ T(s, i) = o2 \o in1 \o out1 \o o5 \o o4 \o o3
      OBVIOUS
    <3> HIDE DEF o1, o4, o5, o3, o6, o2, in0, out0, in1, out1, S, T
    <3>8. o1 \o in0 \o out0 = o1 \o (in0 \o out0)
      BY <3>1, <3>3, GroupTwo
    <3>9. o2 \o in1 \o out1 = o2 \o (in1 \o out1)
      BY <3>1, <3>3, GroupTwo
    <3>5. /\ S(s, i) = o1 \o (in0 \o out0) \o o4 \o o5 \o o3 \o o6
          /\ T(s, i) = o2 \o (in1 \o out1) \o o5 \o o4 \o o3
      BY <3>4, <3>8, <3>9
    <3>6. Fits(0, 1, S(s, i), T(s, i))
      BY <3>1, <3>2, <3>5, OwnFits
    <3>7. Aside(0, S(s, i)) /\ Aside(1, T(s, i))
      BY <3>1, <3>3, <3>4, OwnIs, AsideOn
    <3> QED BY <3>6, <3>7
  <2> QED BY <2>1
<1>3. \A x, s : /\ IsLoop(L(x, s), Len(Iterations))
                /\ \A k \in 1 .. Len(Iterations) :
                      L(x, s)[k] = IF x = 0 THEN S(s, Iterations[k]) ELSE T(s, Iterations[k])
  BY DEF IsLoop
<1>4. \A x : /\ IsLoop(O(x), Len(Sizes))
             /\ \A k \in 1 .. Len(Sizes) : O(x)[k] = FlattenSeq(L(x, Sizes[k])) \o Barrier
  BY DEF IsLoop
<1> HIDE DEF S, T, L, O
<1>5. ASSUME NEW s \in Nat PROVE Fits(r, q, FlattenSeq(L(r, s)), FlattenSeq(L(q, s)))
  <2>1. ASSUME NEW k \in 1 .. Len(Iterations) PROVE Fits(r, q, L(r, s)[k], L(q, s)[k])
    BY <1>2, <1>3, TwoSides
  <2> QED BY <1>3, <2>1, IterationsFit
<1>6. ASSUME NEW k \in 1 .. Len(Sizes) PROVE Fits(r, q, O(r)[k], O(q)[k])
  <2>1. Fits(r, q, FlattenSeq(L(r, Sizes[k])), FlattenSeq(L(q, Sizes[k])))
    BY <1>5, SizesAre
  <2>2. Fits(r, q, Barrier, Barrier)
    BY BarriersFit
  <2>9. /\ O(r)[k] = FlattenSeq(L(r, Sizes[k])) \o Barrier
        /\ O(q)[k] = FlattenSeq(L(q, Sizes[k])) \o Barrier
    BY <1>4
  <2> QED BY <2>1, <2>2, <2>9, FitsOn
<1>7. Fits(r, q, FlattenSeq(O(r)), FlattenSeq(O(q)))
  BY <1>4, <1>6, SizesFit
<1> QED BY <1>1, <1>7, WarmupLoopFits, FitsOn

\* The two sides of osu_bibw in Python.
LEMMA PythonBiBandwidthFits ==
    ASSUME NEW r \in {0, 1}, NEW q \in {0, 1}, NEW n \in Nat
    PROVE  Fits(r, q, PythonBiBandwidth(r, n), PythonBiBandwidth(q, n))
<1> DEFINE S(s, i) == StartOnce(i) \o Times(n, IRecv(1, "10", s)) \o Times(n, ISend(1, "100", s)) \o Wait("isend") \o Wait("irecv")
           T(s, i) == Times(n, IRecv(0, "100", s)) \o Times(n, ISend(0, "10", s)) \o Wait("isend") \o Wait("irecv")
           L(x, s) == [k \in 1 .. Len(Iterations) |-> IF x = 0 THEN S(s, Iterations[k]) ELSE T(s, Iterations[k])]
           O(x) == [k \in 1 .. Len(Sizes) |-> Barrier \o FlattenSeq(L(x, Sizes[k])) \o Given(x = 0, StopClock \o Sample)]
<1>1. \A x : PythonBiBandwidth(x, n) = FlattenSeq(O(x))
  BY DEF PythonBiBandwidth, ForEach
<1>2. \A s \in Nat : \A i : Fits(0, 1, S(s, i), T(s, i)) /\ Aside(0, S(s, i)) /\ Aside(1, T(s, i))
  <2>0. "10" \in Tags /\ "100" \in Tags
    BY DEF Tags
  <2>1. ASSUME NEW s \in Nat, NEW i
        PROVE  Fits(0, 1, S(s, i), T(s, i)) /\ Aside(0, S(s, i)) /\ Aside(1, T(s, i))
    <3> DEFINE o1 == StartOnce(i)
               o4 == Wait("isend")
               o5 == Wait("irecv")
               in0 == Times(n, IRecv(1, "10", s))
               out0 == Times(n, ISend(1, "100", s))
               in1 == Times(n, IRecv(0, "100", s))
               out1 == Times(n, ISend(0, "10", s))
    <3>1. Own(o1) /\ Own(o4) /\ Own(o5)
      BY OwnPieces, OwnOn
    <3>2. Fits(0, 1, in0 \o out0, in1 \o out1)
      BY <2>0, SwappedFit
    <3>3. Aside(0, in0) /\ Aside(0, out0) /\ Aside(1, in1) /\ Aside(1, out1)
      BY <2>0, WindowsAside
    <3>4. /\ S(s, i) = o1 \o in0 \o out0 \o o4 \o o5
          /\ T(s, i) = in1 \o out1 \o o4 \o o5
      OBVIOUS
    <3> HIDE DEF o1, o4, o5, in0, out0, in1, out1, S, T
    <3>8. o1 \o in0 \o out0 = o1 \o (in0 \o out0)
      BY <3>1, <3>3, GroupTwo
    <3>9. TRUE
      OBVIOUS
    <3>5. /\ S(s, i) = o1 \o (in0 \o out0) \o o4 \o o5
          /\ T(s, i) = (in1 \o out1) \o o4 \o o5
      BY <3>4, <3>8, <3>9
    <3>6. Fits(0, 1, S(s, i), T(s, i))
      BY <3>1, <3>2, <3>5, OwnFits
    <3>7. Aside(0, S(s, i)) /\ Aside(1, T(s, i))
      BY <3>1, <3>3, <3>4, OwnIs, AsideOn
    <3> QED BY <3>6, <3>7
  <2> QED BY <2>1
<1>3. \A x, s : /\ IsLoop(L(x, s), Len(Iterations))
                /\ \A k \in 1 .. Len(Iterations) :
                      L(x, s)[k] = IF x = 0 THEN S(s, Iterations[k]) ELSE T(s, Iterations[k])
  BY DEF IsLoop
<1>4. \A x : /\ IsLoop(O(x), Len(Sizes))
             /\ \A k \in 1 .. Len(Sizes) : O(x)[k] = Barrier \o FlattenSeq(L(x, Sizes[k])) \o Given(x = 0, StopClock \o Sample)
  BY DEF IsLoop
<1> HIDE DEF S, T, L, O
<1>5. ASSUME NEW s \in Nat PROVE Fits(r, q, FlattenSeq(L(r, s)), FlattenSeq(L(q, s)))
  <2>1. ASSUME NEW k \in 1 .. Len(Iterations) PROVE Fits(r, q, L(r, s)[k], L(q, s)[k])
    BY <1>2, <1>3, TwoSides
  <2> QED BY <1>3, <2>1, IterationsFit
<1>6. ASSUME NEW k \in 1 .. Len(Sizes) PROVE Fits(r, q, O(r)[k], O(q)[k])
  <2>1. Fits(r, q, FlattenSeq(L(r, Sizes[k])), FlattenSeq(L(q, Sizes[k])))
    BY <1>5, SizesAre
  <2>2. Fits(r, q, Barrier, Barrier) /\ Own(Given(r = 0, StopClock \o Sample)) /\ Own(Given(q = 0, StopClock \o Sample))
    BY BarriersFit, OwnPieces, OwnOn
  <2>9. /\ O(r)[k] = Barrier \o FlattenSeq(L(r, Sizes[k])) \o Given(r = 0, StopClock \o Sample)
        /\ O(q)[k] = Barrier \o FlattenSeq(L(q, Sizes[k])) \o Given(q = 0, StopClock \o Sample)
    BY <1>4
  <2> QED BY <2>1, <2>2, <2>9, FitsOn, OwnFits
<1>7. Fits(r, q, FlattenSeq(O(r)), FlattenSeq(O(q)))
  BY <1>4, <1>6, SizesFit
<1> QED BY <1>1, <1>7, WarmupLoopFits, FitsOn

\* The two sides of osu_xccl_bibw.
LEMMA XcclBiBandwidthFits ==
    ASSUME NEW r \in {0, 1}, NEW q \in {0, 1}, NEW n \in Nat
    PROVE  Fits(r, q, XcclBiBandwidth(r, n), XcclBiBandwidth(q, n))
<1> DEFINE none == ""
           group(x, s) == Times(n, IRecv(1 - x, none, s)) \o Times(n, ISend(1 - x, none, s))
           timed(x, s, i) == XcclTimed(i, group(x, s) \o SynchronizeStream)
           L(x, s) == [k \in 1 .. Len(Iterations) |-> timed(x, s, Iterations[k])]
           O(x) == [k \in 1 .. Len(Sizes) |-> FlattenSeq(L(x, Sizes[k]))]
<1>1. \A x : XcclBiBandwidth(x, n) = FlattenSeq(O(x))
  BY DEF XcclBiBandwidth, ForEach
<1>2. none \in Tags
  BY Zenon DEF Tags
<1> HIDE DEF none
<1>3. ASSUME NEW s \in Nat PROVE Fits(r, q, group(r, s), group(q, s))
  <2>1. CASE r = q
    <3>1. 1 - r \in Nat \ {r}
      OBVIOUS
    <3>2. Aside(r, group(r, s))
      BY <1>2, <3>1, WindowsAside, AsideOn
    <3> QED BY <2>1, <3>2, BothAside
  <2>2. CASE r # q
    <3>1. r = 1 - q /\ q = 1 - r /\ r \in Nat /\ q \in Nat
      BY <2>2
    <3>2. Fits(r, q, Times(n, IRecv(q, none, s)) \o Times(n, ISend(q, none, s)),
                     Times(n, IRecv(r, none, s)) \o Times(n, ISend(r, none, s)))
      BY <1>2, <3>1, SwappedFit
    <3> QED BY <3>1, <3>2
  <2> QED BY <2>1, <2>2
<1> HIDE DEF group
<1>4. ASSUME NEW s \in Nat, NEW i PROVE Fits(r, q, timed(r, s, i), timed(q, s, i))
  <2> DEFINE a == Given(Measured(i), StartClock)
             z == Given(Measured(i), StopClock \o Sample)
  <2>1. Own(a) /\ Own(z) /\ Own(SynchronizeStream)
    BY OwnPieces, OwnOn
  <2>2. \A x : timed(x, s, i) = a \o (group(x, s) \o SynchronizeStream) \o z
    BY DEF XcclTimed
  <2> HIDE DEF a, z, timed
  <2>3. Fits(r, q, group(r, s) \o SynchronizeStream, group(q, s) \o SynchronizeStream)
    BY <1>3, <2>1, OwnFits
  <2> DEFINE u == group(r, s) \o SynchronizeStream
             w == group(q, s) \o SynchronizeStream
  <2>4. timed(r, s, i) = a \o u \o z /\ timed(q, s, i) = a \o w \o z
    BY <2>2
  <2> HIDE DEF u, w
  <2>5. Fits(r, q, u, w)
    BY <2>3 DEF u, w
  <2> QED BY <2>1, <2>4, <2>5, OwnFits
<1>5. \A x, s : /\ IsLoop(L(x, s), Len(Iterations))
                /\ \A k \in 1 .. Len(Iterations) : L(x, s)[k] = timed(x, s, Iterations[k])
  BY DEF IsLoop
<1>6. \A x : IsLoop(O(x), Len(Sizes)) /\ \A k \in 1 .. Len(Sizes) : O(x)[k] = FlattenSeq(L(x, Sizes[k]))
  BY DEF IsLoop
<1> HIDE DEF timed, L, O
<1>7. ASSUME NEW s \in Nat PROVE Fits(r, q, FlattenSeq(L(r, s)), FlattenSeq(L(q, s)))
  BY <1>4, <1>5, IterationsFit
<1>8. ASSUME NEW k \in 1 .. Len(Sizes) PROVE Fits(r, q, O(r)[k], O(q)[k])
  BY <1>6, <1>7, SizesAre
<1> QED BY <1>1, <1>6, <1>8, SizesFit

\* A ping-pong of partners: whoever of them is first has the other as second.
LEMMA PingPongFits ==
    ASSUME NEW r \in Nat, NEW q \in Nat, NEW p \in Nat, NEW p1 \in Nat, NEW f \in BOOLEAN, NEW f1 \in BOOLEAN,
           p = q => p1 = r /\ (f <=> ~f1), p # q => p1 # r
    PROVE  Fits(r, q, PythonPingPong(p, f), PythonPingPong(p1, f1))
<1> DEFINE X(a, s) == Send(a, "1", s) \o Recv(a, "1", s)
           Y(a, s) == Recv(a, "1", s) \o Send(a, "1", s)
           body(a, e, s) == IF e THEN X(a, s) ELSE Y(a, s)
           L(a, e, s) == [k \in 1 .. Len(Iterations) |-> StartOnce(Iterations[k]) \o body(a, e, s)]
           O(a, e) == [k \in 1 .. Len(Sizes) |->
                         Barrier \o FlattenSeq(L(a, e, Sizes[k])) \o StopClock \o Sample \o Reduce]
<1>1. \A a, e : PythonPingPong(a, e) = FlattenSeq(O(a, e))
  BY DEF PythonPingPong, ForEach
<1>2. "1" \in Tags
  BY DEF Tags
<1>3. ASSUME NEW s \in Nat PROVE Fits(r, q, body(p, f, s), body(p1, f1, s))
  <2>1. CASE p = q
    <3>1. Fits(r, q, X(q, s), Y(r, s)) /\ Fits(r, q, Y(q, s), X(r, s))
      BY <1>2, SendsFit, FitsOn
    <3> HIDE DEF X, Y
    <3> QED BY <2>1, <3>1
  <2>2. CASE p # q
    <3>1. Aside(q, X(p, s)) /\ Aside(q, Y(p, s)) /\ Aside(r, X(p1, s)) /\ Aside(r, Y(p1, s))
      BY <1>2, <2>2, MessagesAside, AsideOn
    <3> HIDE DEF X, Y
    <3>2. Aside(q, body(p, f, s)) /\ Aside(r, body(p1, f1, s))
      BY <3>1
    <3> QED BY <3>2, BothAside
  <2> QED BY <2>1, <2>2
<1>4. \A a, e, s : /\ IsLoop(L(a, e, s), Len(Iterations))
                   /\ \A k \in 1 .. Len(Iterations) :
                         L(a, e, s)[k] = StartOnce(Iterations[k]) \o body(a, e, s)
  BY DEF IsLoop
<1>5. \A a, e : /\ IsLoop(O(a, e), Len(Sizes))
                /\ \A k \in 1 .. Len(Sizes) :
                      O(a, e)[k] = Barrier \o FlattenSeq(L(a, e, Sizes[k])) \o StopClock \o Sample \o Reduce
  BY DEF IsLoop
<1> HIDE DEF body, L, O
<1>6. ASSUME NEW s \in Nat PROVE Fits(r, q, FlattenSeq(L(p, f, s)), FlattenSeq(L(p1, f1, s)))
  <2>1. ASSUME NEW k \in 1 .. Len(Iterations) PROVE Fits(r, q, L(p, f, s)[k], L(p1, f1, s)[k])
    <3> DEFINE u == StartOnce(Iterations[k])
    <3>1. Own(u)
      BY OwnPieces
    <3>2. L(p, f, s)[k] = u \o body(p, f, s) /\ L(p1, f1, s)[k] = u \o body(p1, f1, s)
      BY <1>4
    <3> HIDE DEF u
    <3> QED BY <1>3, <3>1, <3>2, OwnFits
  <2> QED BY <1>4, <2>1, IterationsFit
<1>7. ASSUME NEW k \in 1 .. Len(Sizes) PROVE Fits(r, q, O(p, f)[k], O(p1, f1)[k])
  <2> DEFINE u == FlattenSeq(L(p, f, Sizes[k]))
             w == FlattenSeq(L(p1, f1, Sizes[k]))
  <2>1. Fits(r, q, u, w)
    BY <1>6, SizesAre
  <2>2. /\ O(p, f)[k] = Barrier \o u \o StopClock \o Sample \o Reduce
        /\ O(p1, f1)[k] = Barrier \o w \o StopClock \o Sample \o Reduce
    BY <1>5
  <2> HIDE DEF u, w
  <2>3. Fits(r, q, Barrier, Barrier) /\ Fits(r, q, Reduce, Reduce) /\ Own(StopClock) /\ Own(Sample)
    BY BarriersFit, OwnPieces
  <2>4. Fits(r, q, Barrier \o u \o StopClock \o Sample, Barrier \o w \o StopClock \o Sample)
    BY <2>1, <2>3, FitsOn, OwnFits
  <2> QED BY <2>2, <2>3, <2>4, FitsOn
<1> QED BY <1>1, <1>5, <1>7, SizesFit

\* The point-to-point benchmarks that are not written in C.
LEMMA OtherPt2ptFits ==
    ASSUME NEW b \in OtherPt2ptBenchmarks, NEW v \in BOOLEAN,
           NEW r \in 0 .. (IF b = "py_multi_lat" THEN 3 ELSE 1),
           NEW q \in 0 .. (IF b = "py_multi_lat" THEN 3 ELSE 1)
    PROVE  Fits(r, q, OtherPt2ptProgram(b, r, v), OtherPt2ptProgram(b, q, v))
<1> DEFINE n == Head(Windows)
<1>1. n \in Nat
  BY WindowsAssumption
<1>2. \A x : Fits(r, q, JavaWarmupLoop(r), JavaWarmupLoop(q)) \/ r \notin {0, 1} \/ q \notin {0, 1}
  BY WarmupLoopFits
<1>3. CASE b = "py_multi_lat"
  <2>1. r \in 0 .. 3 /\ q \in 0 .. 3
    BY <1>3
  <2>2. ASSUME NEW x \in 0 .. 3, x < 2
        PROVE  OtherPt2ptProgram(b, x, v) = PythonPingPong(x + 2, TRUE) /\ x + 2 \in Nat
    <3>1. OtherPt2ptProgram(b, x, v) = PythonMultiLat(x)
      BY <1>3 DEF OtherPt2ptProgram
    <3> QED BY <2>2, <3>1 DEF PythonMultiLat, PythonPairs
  <2>3. ASSUME NEW x \in 0 .. 3, ~(x < 2)
        PROVE  OtherPt2ptProgram(b, x, v) = PythonPingPong(x - 2, FALSE) /\ x - 2 \in Nat
    <3>1. OtherPt2ptProgram(b, x, v) = PythonMultiLat(x)
      BY <1>3 DEF OtherPt2ptProgram
    <3> QED BY <2>3, <3>1 DEF PythonMultiLat, PythonPairs
  <2>4. CASE (r < 2) /\ (q < 2)
    <3>1. OtherPt2ptProgram(b, r, v) = PythonPingPong(r + 2, TRUE) /\ r + 2 \in Nat
      BY <2>1, <2>2, <2>4
    <3>2. OtherPt2ptProgram(b, q, v) = PythonPingPong(q + 2, TRUE) /\ q + 2 \in Nat
      BY <2>1, <2>2, <2>4
    <3>3. /\ r + 2 = q => q + 2 = r /\ (TRUE <=> ~TRUE)
          /\ r + 2 # q => q + 2 # r
      BY <2>1, <2>4
    <3> DEFINE f == TRUE
               f1 == TRUE
    <3>4. /\ f \in BOOLEAN /\ f1 \in BOOLEAN
          /\ r + 2 = q => q + 2 = r /\ (f <=> ~f1)
      BY <3>3
    <3> HIDE DEF f, f1
    <3>5. Fits(r, q, PythonPingPong(r + 2, f), PythonPingPong(q + 2, f1))
      BY <2>1, <3>1, <3>2, <3>3, <3>4, PingPongFits
    <3> QED BY <3>1, <3>2, <3>5 DEF f, f1
  <2>5. CASE (r < 2) /\ ~(q < 2)
    <3>1. OtherPt2ptProgram(b, r, v) = PythonPingPong(r + 2, TRUE) /\ r + 2 \in Nat
      BY <2>1, <2>2, <2>5
    <3>2. OtherPt2ptProgram(b, q, v) = PythonPingPong(q - 2, FALSE) /\ q - 2 \in Nat
      BY <2>1, <2>3, <2>5
    <3>3. /\ r + 2 = q => q - 2 = r /\ (TRUE <=> ~FALSE)
          /\ r + 2 # q => q - 2 # r
      BY <2>1, <2>5
    <3> DEFINE f == TRUE
               f1 == FALSE
    <3>4. /\ f \in BOOLEAN /\ f1 \in BOOLEAN
          /\ r + 2 = q => q - 2 = r /\ (f <=> ~f1)
      BY <3>3
    <3> HIDE DEF f, f1
    <3>5. Fits(r, q, PythonPingPong(r + 2, f), PythonPingPong(q - 2, f1))
      BY <2>1, <3>1, <3>2, <3>3, <3>4, PingPongFits
    <3> QED BY <3>1, <3>2, <3>5 DEF f, f1
  <2>6. CASE ~(r < 2) /\ (q < 2)
    <3>1. OtherPt2ptProgram(b, r, v) = PythonPingPong(r - 2, FALSE) /\ r - 2 \in Nat
      BY <2>1, <2>3, <2>6
    <3>2. OtherPt2ptProgram(b, q, v) = PythonPingPong(q + 2, TRUE) /\ q + 2 \in Nat
      BY <2>1, <2>2, <2>6
    <3>3. /\ r - 2 = q => q + 2 = r /\ (FALSE <=> ~TRUE)
          /\ r - 2 # q => q + 2 # r
      BY <2>1, <2>6
    <3> DEFINE f == FALSE
               f1 == TRUE
    <3>4. /\ f \in BOOLEAN /\ f1 \in BOOLEAN
          /\ r - 2 = q => q + 2 = r /\ (f <=> ~f1)
      BY <3>3
    <3> HIDE DEF f, f1
    <3>5. Fits(r, q, PythonPingPong(r - 2, f), PythonPingPong(q + 2, f1))
      BY <2>1, <3>1, <3>2, <3>3, <3>4, PingPongFits
    <3> QED BY <3>1, <3>2, <3>5 DEF f, f1
  <2>7. CASE ~(r < 2) /\ ~(q < 2)
    <3>1. OtherPt2ptProgram(b, r, v) = PythonPingPong(r - 2, FALSE) /\ r - 2 \in Nat
      BY <2>1, <2>3, <2>7
    <3>2. OtherPt2ptProgram(b, q, v) = PythonPingPong(q - 2, FALSE) /\ q - 2 \in Nat
      BY <2>1, <2>3, <2>7
    <3>3. /\ r - 2 = q => q - 2 = r /\ (FALSE <=> ~FALSE)
          /\ r - 2 # q => q - 2 # r
      BY <2>1, <2>7
    <3> DEFINE f == FALSE
               f1 == FALSE
    <3>4. /\ f \in BOOLEAN /\ f1 \in BOOLEAN
          /\ r - 2 = q => q - 2 = r /\ (f <=> ~f1)
      BY <3>3
    <3> HIDE DEF f, f1
    <3>5. Fits(r, q, PythonPingPong(r - 2, f), PythonPingPong(q - 2, f1))
      BY <2>1, <3>1, <3>2, <3>3, <3>4, PingPongFits
    <3> QED BY <3>1, <3>2, <3>5 DEF f, f1
  <2> QED BY <2>4, <2>5, <2>6, <2>7
<1>4. CASE b # "py_multi_lat"
  <2>1. r \in {0, 1} /\ q \in {0, 1}
    BY <1>4
  <2>2. CASE b = "OSULatency"
    BY <2>1, <2>2, OSULatencyFits DEF OtherPt2ptProgram
  <2>3. CASE b \in JavaBandwidth
    <3>1. \A x : OtherPt2ptProgram(b, x, v) =
              (IF b = "OSUBandwidthOMPI" THEN JavaWarmupLoop(x) \o OSUBandwidth(x, n, v) ELSE OSUBandwidth(x, n, v))
      BY <2>3 DEF OtherPt2ptProgram, JavaBandwidth, OSUBandwidthOMPI
    <3> QED BY <1>1, <2>1, <3>1, OSUBandwidthFits, WarmupLoopFits, FitsOn
  <2>4. CASE b \in JavaBiBandwidth
    <3>1. \A x : OtherPt2ptProgram(b, x, v) = OSUBiBandwidth(x, n, v)
      BY <2>4 DEF OtherPt2ptProgram, JavaBiBandwidth, OSUBiBandwidthOMPI
    <3> QED BY <1>1, <2>1, <3>1, OSUBiBandwidthFits
  <2>5. CASE b = "py_latency"
    <3>1. \A x : OtherPt2ptProgram(b, x, v) = PythonPingPong(1 - x, x = 0)
      BY <2>5 DEF OtherPt2ptProgram, PythonLatency
    <3>2. /\ r \in Nat /\ q \in Nat /\ 1 - r \in Nat /\ 1 - q \in Nat
          /\ 1 - r = q => 1 - q = r /\ ((r = 0) <=> ~(q = 0))
          /\ 1 - r # q => 1 - q # r
      BY <2>1
    <3>3. Fits(r, q, PythonPingPong(1 - r, r = 0), PythonPingPong(1 - q, q = 0))
      BY <3>2, PingPongFits
    <3> QED BY <3>1, <3>3
  <2>6. CASE b = "py_bw"
    <3>1. \A x : OtherPt2ptProgram(b, x, v) = PythonBandwidth(x, n)
      BY <2>6 DEF OtherPt2ptProgram
    <3> QED BY <1>1, <2>1, <3>1, PythonBandwidthFits
  <2>7. CASE b = "py_bibw"
    <3>1. \A x : OtherPt2ptProgram(b, x, v) = PythonBiBandwidth(x, n)
      BY <2>7 DEF OtherPt2ptProgram
    <3> QED BY <1>1, <2>1, <3>1, PythonBiBandwidthFits
  <2>8. CASE b = "osu_xccl_latency"
    BY <2>1, <2>8, XcclLatencyFits DEF OtherPt2ptProgram
  <2>9. CASE b = "osu_xccl_bw"
    <3>1. \A x : OtherPt2ptProgram(b, x, v) = XcclBandwidth(x, n)
      BY <2>9 DEF OtherPt2ptProgram
    <3> QED BY <1>1, <2>1, <3>1, XcclBandwidthFits
  <2>10. CASE b = "osu_xccl_bibw"
    <3>1. \A x : OtherPt2ptProgram(b, x, v) = XcclBiBandwidth(x, n)
      BY <2>10 DEF OtherPt2ptProgram
    <3> QED BY <1>1, <2>1, <3>1, XcclBiBandwidthFits
  <2> QED BY <1>4, <2>2, <2>3, <2>4, <2>5, <2>6, <2>7, <2>8, <2>9, <2>10
          DEF OtherPt2ptBenchmarks, JavaPt2pt, JavaLatency, PythonPt2pt, PythonLatencies, XcclPt2pt
<1> QED BY <1>3, <1>4

-----------------------------------------------------------------------------
(* The collective benchmarks. *)

\* A loop whose rounds have no messages, or only calls of the own rank.
LEMMA CommonLoop ==
    ASSUME NEW n \in Nat, NEW ss, IsLoop(ss, n)
    PROVE  /\ (\A k \in 1 .. n : Common(ss[k])) => Common(FlattenSeq(ss))
           /\ (\A k \in 1 .. n : Own(ss[k])) => Own(FlattenSeq(ss))
BY LoopWithin DEF Common, Own

\* The calls of a collective benchmark in C.
LEMMA CollectivePieces ==
    ASSUME NEW b \in CCollective, NEW root \in 0 .. Procs - 1, NEW i \in 0 .. Turns - 1, NEW n
    PROVE  /\ Common(Call(b, root, n)) /\ Common(CollInit(b, root, n))
           /\ Common(LatencyStep(b, n)[root]) /\ Common(OverlapStep(b, n)[root])
           /\ Own(InPlace(b, root)) /\ Own(RequestFree)
           /\ Common(RunValidationWarmups(b, root, i, n))
           /\ \A r : Own(AccumulateLocalErrors(b, root, r, n))
<1>1. root \in Nat
  BY ProcsAssumption
<1>2. /\ KindOf(CollectiveType[b]) \in CollectiveKinds /\ "all" \in CollectiveKinds
      /\ {"plain", "in_place", "persistent"} \subseteq Forms
  BY KindIs DEF CollectiveKinds, Forms
<1>3. Common(Call(b, root, n))
  <2> DEFINE form == IF b \in DOMAIN PersistentColl THEN "persistent"
                     ELSE IF CollectiveType[b] \in {"bcast", "barrier"} THEN "plain" ELSE "in_place"
             data == Receivers(b, n)
  <2>1. form \in Forms /\ data \in SUBSET Nat
    BY <1>2, AudiencesAre
  <2>2. Call(b, root, n) = Enter(KindOf(CollectiveType[b]), root, data, form) \o Leave
    BY DEF Call
  <2> HIDE DEF form, data
  <2> QED BY <1>1, <1>2, <2>1, <2>2, CommonCalls
<1>4. Common(CollInit(b, root, n))
  <2>1. CASE b = "osu_reduce_scatter_block_persistent"
    BY <1>1, <1>2, <2>1, AudiencesAre, CommonCalls DEF CollInit
  <2>2. CASE b # "osu_reduce_scatter_block_persistent"
    <3> DEFINE c == [op |-> "init", kind |-> KindOf(CollectiveType[b]), root |-> root]
    <3>1. c \in Calls /\ c.op \notin {"isend", "irecv", "enter"}
      BY <1>1, <1>2 DEF Calls
    <3>2. CollInit(b, root, n) = <<c>>
      BY <2>2 DEF CollInit
    <3> HIDE DEF c
    <3> QED BY <3>1, <3>2, OneOwn, OwnIs
  <2> QED BY <2>1, <2>2
<1>5. Common(LatencyStep(b, n)[root]) /\ Common(OverlapStep(b, n)[root])
  <2>1. LatencyStep(b, n)[root] = StartClock \o Call(b, root, n) \o StopClock
        /\ OverlapStep(b, n)[root] = StartClock \o Call(b, root, n) \o StopClock
    BY DEF LatencyStep, OverlapStep
  <2> QED BY <1>3, <2>1, OwnPieces, OwnIs, CommonOn
<1>6. Own(InPlace(b, root))
  <2> DEFINE c == [op |-> "in_place", type |-> CollectiveType[b], root |-> root]
  <2>1. c \in Calls /\ c.op \notin {"isend", "irecv", "enter"}
    BY <1>1, CollectiveTyped DEF Calls
  <2>2. InPlace(b, root) = <<c>>
    BY DEF InPlace
  <2> HIDE DEF c
  <2> QED BY <2>1, <2>2, OneOwn
<1>7. Own(RequestFree)
  <2>1. "free" \in Plain
    BY DEF Plain
  <2> QED BY <2>1, OwnNamed DEF RequestFree
<1>8. Common(RunValidationWarmups(b, root, i, n))
  <2>1. Common(Fill(i)) /\ Common(Barrier)
    BY OwnPieces, OwnIs, CommonCalls
  <2>2. Common(Times(Warmup, LatencyStep(b, n)[root]))
    BY <1>5, WarmupAssumption, CommonOn
  <2> QED BY <2>1, <2>2, CommonOn DEF RunValidationWarmups
<1>9. \A r : Own(AccumulateLocalErrors(b, root, r, n))
  BY OwnPieces, OwnOn DEF AccumulateLocalErrors
<1> QED BY <1>3, <1>4, <1>5, <1>6, <1>7, <1>8, <1>9

\* The iterations of a size.
LEMMA CollectiveCoresFit ==
    ASSUME NEW b \in CCollective, NEW o \in OptionsOf(b), NEW r, NEW q, NEW n, NEW step,
           \A root \in 0 .. Procs - 1 : Common(step[root])
    PROVE  Fits(r, q, RunIterationsCore(b, r, n, o, step), RunIterationsCore(b, q, n, o, step))
<1> DEFINE pre(i) == Given(o.validate, RunValidationWarmups(b, RootOf(b, o, i), i, n))
                       \o Given(o.in_place, InPlace(b, RootRank(o, i)))
                       \o step[RootOf(b, o, i)]
                       \o Barrier
           check(x, i) == Given(o.validate, AccumulateLocalErrors(b, RootRank(o, i), x, n))
           post(i) == Given(Measured(i), Sample)
           L(x) == [k \in 1 .. Len(Iterations) |->
                      pre(Iterations[k]) \o check(x, Iterations[k]) \o post(Iterations[k])]
<1>1. \A x : RunIterationsCore(b, x, n, o, step) = FlattenSeq(L(x))
  BY DEF RunIterationsCore, ForEach
<1>2. ASSUME NEW k \in 1 .. Len(Iterations)
      PROVE  /\ Common(pre(Iterations[k])) /\ \A x : Own(check(x, Iterations[k]))
             /\ Own(post(Iterations[k]))
  <2> DEFINE i == Iterations[k]
             root == RootOf(b, o, i)
             at == RootRank(o, i)
  <2>1. i \in 0 .. Turns - 1 /\ i \in Nat
    BY IterationsAre DEF Turns
  <2>2. root \in 0 .. Procs - 1 /\ at \in 0 .. Procs - 1
    BY <2>1, RootsAre
  <2> HIDE DEF i, root, at
  <2>3. /\ Common(RunValidationWarmups(b, root, i, n)) /\ Own(InPlace(b, at))
        /\ \A x : Own(AccumulateLocalErrors(b, at, x, n))
    BY <2>1, <2>2, CollectivePieces
  <2>4. Common(step[root]) /\ Common(Barrier)
    BY <2>2, CommonCalls
  <2>5. Common(Given(o.validate, RunValidationWarmups(b, root, i, n))) /\ Common(Given(o.in_place, InPlace(b, at)))
    BY <2>3, OwnIs, CommonOn
  <2>6. Common(Given(o.validate, RunValidationWarmups(b, root, i, n)) \o Given(o.in_place, InPlace(b, at))
                   \o step[root] \o Barrier)
    BY <2>4, <2>5, CommonOn
  <2>7. \A x : Own(Given(o.validate, AccumulateLocalErrors(b, at, x, n)))
    BY <2>3, OwnOn
  <2>8. Own(Given(Measured(i), Sample))
    BY OwnPieces, OwnOn
  <2> QED BY <2>6, <2>7, <2>8 DEF i, root, at
<1>3. \A x : /\ IsLoop(L(x), Len(Iterations))
             /\ \A k \in 1 .. Len(Iterations) :
                   L(x)[k] = pre(Iterations[k]) \o check(x, Iterations[k]) \o post(Iterations[k])
  BY DEF IsLoop
<1> HIDE DEF pre, check, post, L
<1>4. ASSUME NEW k \in 1 .. Len(Iterations) PROVE Fits(r, q, L(r)[k], L(q)[k])
  <2> DEFINE u == pre(Iterations[k])
             w == post(Iterations[k])
             y == check(r, Iterations[k])
             z == check(q, Iterations[k])
  <2>1. Fits(r, q, u, u) /\ Own(w) /\ Own(y) /\ Own(z)
    BY <1>2, CommonFits
  <2>2. L(r)[k] = u \o y \o w /\ L(q)[k] = u \o z \o w
    BY <1>3
  <2> HIDE DEF u, w, y, z
  <2>3. Fits(r, q, u \o y, u \o z)
    BY <2>1, OwnFits
  <2> QED BY <2>1, <2>2, <2>3, OwnFits
<1>5. Fits(r, q, FlattenSeq(L(r)), FlattenSeq(L(q)))
  BY <1>3, <1>4, IterationsFit
<1> QED BY <1>1, <1>5

\* A size of a collective benchmark in C.
LEMMA CollectiveSizesFit ==
    ASSUME NEW b \in CCollective, NEW o \in OptionsOf(b), NEW r, NEW q, NEW k \in Nat
    PROVE  Fits(r, q, RunBenchmarkForMsgSize(b, r, k, o), RunBenchmarkForMsgSize(b, q, k, o))
<1> DEFINE n == Sizes[k]
           lat(x) == RunIterationsCore(b, x, n, o, LatencyStep(b, n))
           over(x) == RunIterationsCore(b, x, n, o, OverlapStep(b, n))
           sum == Given(o.validate, SumErrors)
<1>1. 0 \in 0 .. Turns - 1 /\ 0 \in Nat
  BY TurnsType
<1>2. Fits(r, q, lat(r), lat(q)) /\ Fits(r, q, over(r), over(q))
  BY <1>1, CollectivePieces, CollectiveCoresFit
<1>3. Fits(r, q, sum, sum) /\ Fits(r, q, Barrier, Barrier) /\ Fits(r, q, Reduce, Reduce)
  BY BarriersFit, FitsGiven
<1>4. CASE IsNonBlocking(b)
  <2>1. \A x : RunBenchmarkForMsgSize(b, x, k, o) =
            (lat(x) \o sum \o Barrier \o over(x) \o sum \o Reduce \o Barrier) \o Barrier
    BY <1>4 DEF RunBenchmarkForMsgSize, RunNonBlockingForMsgSize
  <2> HIDE DEF lat, over, sum
  <2>2. Fits(r, q, lat(r) \o sum \o Barrier \o over(r), lat(q) \o sum \o Barrier \o over(q))
    BY <1>2, <1>3, FitsOn
  <2>3. Fits(r, q, lat(r) \o sum \o Barrier \o over(r) \o sum \o Reduce \o Barrier,
                   lat(q) \o sum \o Barrier \o over(q) \o sum \o Reduce \o Barrier)
    BY <1>3, <2>2, FitsOn
  <2> QED BY <1>3, <2>1, <2>3, FitsOn
<1>5. CASE ~IsNonBlocking(b)
  <2> DEFINE root == StaleRoot(b, o, k)
             place == Given(o.in_place, InPlace(b, root))
             begin == Given(b \in DOMAIN PersistentColl, CollInit(b, root, n) \o Barrier)
             end == Given(b \in DOMAIN PersistentColl, RequestFree)
  <2>1. \A x : RunBenchmarkForMsgSize(b, x, k, o) =
            (place \o begin \o lat(x) \o Reduce \o sum \o end \o Barrier) \o Barrier
    BY <1>5 DEF RunBenchmarkForMsgSize, RunBlockingForMsgSize
  <2>2. root \in 0 .. Procs - 1
    BY <1>1, RootsAre
  <2> HIDE DEF root
  <2>3. Own(InPlace(b, root)) /\ Own(RequestFree) /\ Common(CollInit(b, root, n))
    BY <1>1, <2>2, CollectivePieces
  <2>4. Common(place) /\ Common(begin) /\ Common(end)
    <3>1. Common(CollInit(b, root, n) \o Barrier)
      BY <2>3, CommonCalls, CommonOn
    <3> QED BY <2>3, <3>1, OwnIs, CommonOn
  <2>5. Fits(r, q, place, place) /\ Fits(r, q, begin, begin) /\ Fits(r, q, end, end)
    BY <2>4, CommonFits
  <2> HIDE DEF lat, over, sum, place, begin, end
  <2>6. Fits(r, q, place \o begin \o lat(r) \o Reduce, place \o begin \o lat(q) \o Reduce)
    BY <1>2, <1>3, <2>5, FitsOn
  <2>7. Fits(r, q, place \o begin \o lat(r) \o Reduce \o sum \o end \o Barrier,
                   place \o begin \o lat(q) \o Reduce \o sum \o end \o Barrier)
    BY <1>3, <2>5, <2>6, FitsOn
  <2> QED BY <1>3, <2>1, <2>7, FitsOn
<1> QED BY <1>4, <1>5

\* The collective benchmarks in C.
LEMMA CCollectiveFits ==
    ASSUME NEW b \in CCollective, NEW o \in OptionsOf(b), NEW r, NEW q
    PROVE  Fits(r, q, CCollectiveProgram(b, r, o), CCollectiveProgram(b, q, o))
<1> DEFINE create == Given(b \in Neighborhood, CreateDistGraph)
           size(x, k) == RunBenchmarkForMsgSize(b, x, k, o)
           S == CollectiveSizes(b)
           n == Len(S)
           L(x) == [k \in 1 .. n |-> Barrier \o size(x, S[k]) \o Barrier \o BreakOnErrors]
<1>1. \A x : CCollectiveProgram(b, x, o) = create \o FlattenSeq(L(x)) \o Report
  BY DEF CCollectiveProgram, ForEach
<1>2. Fits(r, q, create, create)
  <2>1. Common(Enter("all", 0, {}, "plain") \o Leave)
    <3>1. "all" \in CollectiveKinds /\ 0 \in Nat /\ {} \in SUBSET Nat /\ "plain" \in Forms
      BY DEF CollectiveKinds, Forms
    <3> QED BY <3>1, CommonCalls
  <2>2. Common(CreateDistGraph)
    BY <2>1, CommonCalls, CommonOn DEF CreateDistGraph
  <2> QED BY <2>2, CommonOn, CommonFits
<1>3. n \in Nat /\ \A k \in 1 .. n : S[k] \in Nat
  BY CollectiveSizesAre
<1>4. \A x : IsLoop(L(x), n) /\ \A k \in 1 .. n : L(x)[k] = Barrier \o size(x, S[k]) \o Barrier \o BreakOnErrors
  BY DEF IsLoop
<1>5. \A k \in Nat : Fits(r, q, size(r, k), size(q, k))
  BY CollectiveSizesFit
<1> HIDE DEF create, size, S, n, L
<1>6. ASSUME NEW k \in 1 .. n PROVE Fits(r, q, L(r)[k], L(q)[k])
  <2> DEFINE u == size(r, S[k])
             w == size(q, S[k])
  <2>1. Fits(r, q, u, w) /\ Fits(r, q, Barrier, Barrier) /\ Own(BreakOnErrors)
    BY <1>3, <1>5, BarriersFit, OwnPieces
  <2>2. L(r)[k] = Barrier \o u \o Barrier \o BreakOnErrors /\ L(q)[k] = Barrier \o w \o Barrier \o BreakOnErrors
    BY <1>4
  <2> HIDE DEF u, w
  <2>3. Fits(r, q, Barrier \o u \o Barrier, Barrier \o w \o Barrier)
    BY <2>1, FitsOn
  <2> QED BY <2>1, <2>2, <2>3, OwnFits
<1>7. Fits(r, q, FlattenSeq(L(r)), FlattenSeq(L(q)))
  BY <1>3, <1>4, <1>6, FitsLoop
<1>8. Fits(r, q, create \o FlattenSeq(L(r)), create \o FlattenSeq(L(q))) /\ Own(Report)
  BY <1>2, <1>7, FitsOn, OwnPieces
<1> QED BY <1>1, <1>8, OwnFits

\* The loop of a Java collective, whoever compares.
LEMMA JavaLoopsFit ==
    ASSUME NEW r, NEW q, NEW call, Common(call), NEW v, NEW c, NEW d
    PROVE  Fits(r, q, JavaLoop(call, v, c), JavaLoop(call, v, d))
<1> DEFINE body(i, e) == StartOnce(i) \o JavaFill(v) \o call \o JavaCheck(v /\ e) \o StopOnce(i)
           L(e) == [k \in 1 .. Len(Iterations) |-> body(Iterations[k], e)]
<1>1. JavaLoop(call, v, c) = FlattenSeq(L(c)) /\ JavaLoop(call, v, d) = FlattenSeq(L(d))
  BY DEF JavaLoop, ForEach
<1>2. ASSUME NEW i PROVE Fits(r, q, body(i, c), body(i, d))
  <2> DEFINE u == StartOnce(i) \o JavaFill(v) \o call
             y == JavaCheck(v /\ c)
             z == JavaCheck(v /\ d)
             w == StopOnce(i)
  <2>1. Common(u)
    BY OwnPieces, OwnIs, CommonOn
  <2>2. Own(y) /\ Own(z) /\ Own(w)
    <3>1. \A e : Own(JavaCheck(e))
      BY OwnPieces
    <3> QED BY <3>1, OwnPieces
  <2> HIDE DEF u, y, z, w
  <2>3. Fits(r, q, u \o y, u \o z)
    BY <2>1, <2>2, CommonFits, OwnFits
  <2>4. Fits(r, q, u \o y \o w, u \o z \o w)
    BY <2>2, <2>3, OwnFits
  <2> QED BY <2>4 DEF u, y, z, w
<1>3. /\ IsLoop(L(c), Len(Iterations)) /\ IsLoop(L(d), Len(Iterations))
      /\ \A k \in 1 .. Len(Iterations) : /\ L(c)[k] = body(Iterations[k], c)
                                         /\ L(d)[k] = body(Iterations[k], d)
  BY DEF IsLoop
<1> HIDE DEF body, L
<1>4. Fits(r, q, FlattenSeq(L(c)), FlattenSeq(L(d)))
  BY <1>2, <1>3, IterationsFit
<1> QED BY <1>1, <1>4

\* A collective operation is no message.
LEMMA RootedCommon ==
    \A kind \in RootedKinds : Common(Collective(kind))
<1> SUFFICES ASSUME NEW kind \in RootedKinds PROVE Common(Collective(kind))
  OBVIOUS
<1>1. kind \in CollectiveKinds /\ 0 \in Nat /\ Everyone \in SUBSET Nat /\ "plain" \in Forms
  BY AudiencesAre DEF RootedKinds, CollectiveKinds, Forms
<1>2. Common(Enter(kind, 0, Everyone, "plain") \o Leave)
  BY <1>1, CommonCalls
<1> QED BY <1>2 DEF Collective

\* The benchmarks in Java; c and d say whether a rank checks what it gets.
LEMMA JavaProgramsFit ==
    ASSUME NEW r, NEW q, NEW kind \in RootedKinds, NEW v, NEW c, NEW d
    PROVE  Fits(r, q, JavaProgram(kind, v, c), JavaProgram(kind, v, d))
<1> DEFINE call == Collective(kind)
           warm == Times(InitialWarmup, call \o Barrier)
           x == JavaLoop(call, v, c)
           y == JavaLoop(call, v, d)
<1>1. Common(call) /\ Common(Barrier)
  BY RootedCommon, CommonCalls
<1>2. Common(warm)
  <2>1. Common(call \o Barrier)
    BY <1>1, CommonOn
  <2> QED BY <2>1, InitialWarmupAssumption, CommonOn
<1>3. Fits(r, q, x, y)
  BY <1>1, JavaLoopsFit
<1>4. /\ JavaProgram(kind, v, c) = warm \o Times(Len(Sizes), x \o Reduce \o Barrier)
      /\ JavaProgram(kind, v, d) = warm \o Times(Len(Sizes), y \o Reduce \o Barrier)
  BY DEF JavaProgram
<1> HIDE DEF warm, x, y
<1>5. Fits(r, q, x \o Reduce \o Barrier, y \o Reduce \o Barrier)
  BY <1>3, BarriersFit, FitsOn
<1>6. Fits(r, q, Times(Len(Sizes), x \o Reduce \o Barrier), Times(Len(Sizes), y \o Reduce \o Barrier))
  BY <1>5, SizesAre, FitsTimes
<1>7. Fits(r, q, warm, warm)
  BY <1>2, CommonFits
<1> QED BY <1>4, <1>6, <1>7, FitsOn

\* The collective benchmarks in Python and for NCCL do not look at the rank.
LEMMA LoopsCommon ==
    ASSUME NEW call, Common(call)
    PROVE  /\ Common(PythonLoop(call))
           /\ \A kind : call = Collective(kind) => Common(XcclLoop(kind))
<1>0. Len(Iterations) \in Nat
  BY IterationsAre, TurnsType
<1>1. Common(StopClock) /\ Common(StartClock) /\ Common(Sample) /\ Common(Barrier) /\ Common(Reduce)
      /\ \A i : Common(StartOnce(i))
  BY OwnPieces, OwnIs, CommonCalls
<1>2. Common(PythonLoop(call))
  <2> DEFINE ss == [k \in 1 .. Len(Iterations) |-> StartOnce(Iterations[k]) \o call]
  <2>1. PythonLoop(call) = Barrier \o FlattenSeq(ss) \o StopClock \o Sample \o Barrier \o Reduce
    BY DEF PythonLoop, ForEach
  <2>2. IsLoop(ss, Len(Iterations)) /\ \A k \in 1 .. Len(Iterations) : ss[k] = StartOnce(Iterations[k]) \o call
    BY DEF IsLoop
  <2> HIDE DEF ss
  <2>3. \A k \in 1 .. Len(Iterations) : Common(ss[k])
    BY <1>1, <2>2, CommonOn
  <2>4. Common(FlattenSeq(ss))
    BY <1>0, <2>2, <2>3, CommonLoop
  <2> QED BY <1>1, <2>1, <2>4, CommonOn
<1>3. ASSUME NEW kind, call = Collective(kind) PROVE Common(XcclLoop(kind))
  <2> DEFINE body(i) == StartClock \o call \o StopClock \o Given(Measured(i), Sample) \o Barrier
             ss == [k \in 1 .. Len(Iterations) |-> body(Iterations[k])]
  <2>1. XcclLoop(kind) = FlattenSeq(ss)
    BY <1>3 DEF XcclLoop, ForEach
  <2>2. \A i : Common(body(i))
    <3>1. \A i : Common(Given(Measured(i), Sample))
      BY <1>1, CommonOn
    <3> QED BY <1>1, <3>1, CommonOn
  <2>3. IsLoop(ss, Len(Iterations)) /\ \A k \in 1 .. Len(Iterations) : ss[k] = body(Iterations[k])
    BY DEF IsLoop
  <2>4. Common(FlattenSeq(ss))
    <3> HIDE DEF ss, body
    <3> QED BY <1>0, <2>2, <2>3, CommonLoop
  <2> QED BY <2>1, <2>4
<1> QED BY <1>2, <1>3

\* The collective benchmarks in Python and for NCCL exchange no messages.
LEMMA OtherProgramsCommon ==
    ASSUME NEW kind \in RootedKinds
    PROVE  /\ Common(PythonProgram(kind)) /\ Common(XcclProgram(kind)) /\ Common(XcclProgramShort(kind))
           /\ Common(PythonLoop(Barrier))
<1>1. Common(Collective(kind)) /\ Common(Barrier) /\ Common(Reduce) /\ Len(Sizes) \in Nat
  BY RootedCommon, CommonCalls, SizesAre
<1>2. Common(PythonLoop(Collective(kind))) /\ Common(PythonLoop(Barrier)) /\ Common(XcclLoop(kind))
  BY <1>1, LoopsCommon
<1>3. Common(PythonProgram(kind))
  BY <1>1, <1>2, CommonOn DEF PythonProgram
<1>4. Common(Barrier \o XcclLoop(kind) \o Barrier \o Reduce \o Barrier)
      /\ Common(Barrier \o XcclLoop(kind) \o Reduce \o Barrier)
  BY <1>1, <1>2, CommonOn
<1>5. Common(XcclProgram(kind)) /\ Common(XcclProgramShort(kind))
  BY <1>1, <1>4, CommonOn DEF XcclProgram, XcclProgramShort
<1> QED BY <1>2, <1>3, <1>5

\* A benchmark is written in one of the languages.
LEMMA OthersApart ==
    \A b : /\ b \in JavaCollective => b \notin PythonCollective /\ b \notin XcclCollective
           /\ b \in PythonCollective => b \notin XcclCollective
BY DEF JavaCollective, PythonCollective, XcclCollective

\* The collective benchmarks that are not written in C.
LEMMA OtherCollectiveFits ==
    ASSUME NEW b \in OtherCollectiveBenchmarks, NEW r, NEW q, NEW v
    PROVE  Fits(r, q, OtherCollectiveProgram(b, r, v), OtherCollectiveProgram(b, q, v))
<1>1. CASE b \in JavaCollective
  <2>1. \A x : OtherCollectiveProgram(b, x, v) = JavaCollectiveProgram(b, x, v)
    BY <1>1, OthersApart DEF OtherCollectiveProgram
  <2>2. CASE b = "OSUBarrier"
    <3>1. \A x : JavaCollectiveProgram(b, x, v) = OSUBarrier
      BY <2>2 DEF JavaCollectiveProgram
    <3>2. Common(Barrier)
      BY CommonCalls
    <3>3. Fits(r, q, JavaLoop(Barrier, FALSE, FALSE), JavaLoop(Barrier, FALSE, FALSE))
      BY <3>2, JavaLoopsFit
    <3>4. Fits(r, q, Times(InitialWarmup, Barrier), Times(InitialWarmup, Barrier))
      BY BarriersFit, InitialWarmupAssumption, FitsTimes
    <3>5. Fits(r, q, OSUBarrier, OSUBarrier)
      BY <3>3, <3>4, BarriersFit, FitsOn DEF OSUBarrier
    <3> QED BY <2>1, <3>1, <3>5
  <2>3. CASE b # "OSUBarrier"
    <3>1. PICK kind \in RootedKinds : \A x : \E c : JavaCollectiveProgram(b, x, v) = JavaProgram(kind, v, c)
      <4>1. {"all", "from_root", "to_root"} \subseteq RootedKinds
        BY DEF RootedKinds
      <4> DEFINE kind == CASE b \in {"OSUBcast", "OSUScatter", "OSUScatterv"} -> "from_root"
                           [] b \in {"OSUGather", "OSUGatherv", "OSUReduce"} -> "to_root"
                           [] OTHER -> "all"
      <4>2. ASSUME NEW x PROVE \E c : JavaCollectiveProgram(b, x, v) = JavaProgram(kind, v, c)
        BY <1>1, <2>3 DEF JavaCollectiveProgram, JavaCollective, OSUAllReduce, OSUAllgather, OSUAllgatherv,
           OSUAlltoall, OSUAlltoallv, OSUBcast, OSUGather, OSUGatherv, OSUReduce, OSUScatter,
           OSUScatterv, OSUReduceScatter
      <4>3. kind \in RootedKinds
        BY <4>1
      <4> HIDE DEF kind
      <4> QED BY <4>2, <4>3
    <3>2. PICK c : JavaCollectiveProgram(b, r, v) = JavaProgram(kind, v, c)
      BY <3>1
    <3>3. PICK d : JavaCollectiveProgram(b, q, v) = JavaProgram(kind, v, d)
      BY <3>1
    <3>4. Fits(r, q, JavaProgram(kind, v, c), JavaProgram(kind, v, d))
      BY JavaProgramsFit
    <3> QED BY <2>1, <3>2, <3>3, <3>4
  <2> QED BY <2>2, <2>3
<1>2. CASE b \in PythonCollective
  <2>2. \A x : OtherCollectiveProgram(b, x, v) = PythonCollectiveProgram(b)
    BY <1>2, OthersApart DEF OtherCollectiveProgram
  <2>3. Common(PythonCollectiveProgram(b))
    <3>1. {"all", "from_root", "to_root"} \subseteq RootedKinds
      BY DEF RootedKinds
    <3>2. \/ PythonCollectiveProgram(b) = PythonLoop(Barrier)
          \/ PythonCollectiveProgram(b) = PythonProgram("all")
          \/ PythonCollectiveProgram(b) = PythonProgram("from_root")
          \/ PythonCollectiveProgram(b) = PythonProgram("to_root")
      BY <1>2 DEF PythonCollective, PythonCollectiveProgram, PyAllgather, PyAllgatherv, PyAllreduce,
         PyAlltoall, PyAlltoallv, PyReduceScatter, PyBcast, PyScatter, PyScatterv, PyGather, PyGatherv,
         PyReduce, PyBarrier
    <3> QED BY <3>1, <3>2, OtherProgramsCommon
  <2> QED BY <2>2, <2>3, CommonFits
<1>3. CASE b \in XcclCollective
  <2>2. \A x : OtherCollectiveProgram(b, x, v) = XcclCollectiveProgram(b)
    BY <1>3, OthersApart DEF OtherCollectiveProgram
  <2>3. Common(XcclCollectiveProgram(b))
    <3>1. {"all", "from_root", "to_root"} \subseteq RootedKinds
      BY DEF RootedKinds
    <3>2. \E kind \in {"all", "from_root", "to_root"} :
              \/ XcclCollectiveProgram(b) = XcclProgram(kind)
              \/ XcclCollectiveProgram(b) = XcclProgramShort(kind)
      BY <1>3 DEF XcclCollective, XcclCollectiveProgram, XcclAllgather, XcclAllreduce, XcclAlltoall,
         XcclReduceScatter, XcclBcast, XcclReduce
    <3> QED BY <3>1, <3>2, OtherProgramsCommon
  <2> QED BY <2>2, <2>3, CommonFits
<1> QED BY <1>1, <1>2, <1>3 DEF OtherCollectiveBenchmarks

-----------------------------------------------------------------------------
(* The one-sided and the PGAS benchmarks, and striding. *)

\* Two ranks whose calls fit, whoever looks at whom.
Both(s, t) == Fits(0, 1, s, t) /\ Fits(0, 0, s, s) /\ Fits(1, 1, t, t)

\* Calls of the own rank fit whatever others do of that kind.
LEMMA OwnApart == \A r, q, s, t : Own(s) /\ Own(t) => Fits(r, q, s, t)
BY OwnIs, BothAside

\* What fits, whichever of the two ranks looks at whichever.
LEMMA BothRanks ==
    ASSUME NEW s, NEW t, Both(s, t), NEW r \in {0, 1}, NEW q \in {0, 1}
    PROVE  Fits(r, q, IF r = 0 THEN s ELSE t, IF q = 0 THEN s ELSE t)
<1>1. Fits(0, 1, s, t) /\ Fits(0, 0, s, s) /\ Fits(1, 1, t, t) /\ Fits(1, 0, t, s)
  BY FitsBack DEF Both
<1> QED BY <1>1

\* Calls after each other.
LEMMA BothOn ==
    \A s, t, u, w : Both(s, t) /\ Both(u, w) => Both(s \o u, t \o w)
BY FitsOn DEF Both

\* Calls of the own rank, and calls that both make.
LEMMA BothOwn ==
    \A s, t, u :
        /\ Own(s) /\ Own(t) => Both(s, t)
        /\ Common(s) => Both(s, s)
        /\ Own(u) /\ Both(s, t) => /\ Both(s \o u, t) /\ Both(u \o s, t)
                                   /\ Both(s, t \o u) /\ Both(s, u \o t)
<1> SUFFICES ASSUME NEW s, NEW t, NEW u
             PROVE  /\ Own(s) /\ Own(t) => Both(s, t)
                    /\ Common(s) => Both(s, s)
                    /\ Own(u) /\ Both(s, t) => /\ Both(s \o u, t) /\ Both(u \o s, t)
                                               /\ Both(s, t \o u) /\ Both(s, u \o t)
  OBVIOUS
<1>1. Own(s) /\ Own(t) => Both(s, t)
  BY OwnApart DEF Both
<1>2. Common(s) => Both(s, s)
  BY CommonFits DEF Both
<1>3. ASSUME Own(u), Both(s, t)
      PROVE  Both(s \o u, t) /\ Both(u \o s, t) /\ Both(s, t \o u) /\ Both(s, u \o t)
  <2>1. \A r, q : Fits(r, q, u, u)
    BY <1>3, OwnApart
  <2>2. /\ Fits(0, 0, s \o u, s \o u) /\ Fits(0, 0, u \o s, u \o s)
        /\ Fits(1, 1, t \o u, t \o u) /\ Fits(1, 1, u \o t, u \o t)
    BY <1>3, <2>1, FitsOn DEF Both
  <2>3. /\ Fits(0, 1, s \o u, t) /\ Fits(0, 1, u \o s, t)
        /\ Fits(0, 1, s, t \o u) /\ Fits(0, 1, s, u \o t)
    BY <1>3, OwnFits DEF Both
  <2> QED BY <1>3, <2>2, <2>3 DEF Both
<1> QED BY <1>1, <1>2, <1>3

\* Calls of the two ranks on the same condition.
LEMMA BothGiven ==
    \A c, s, t : (c => Both(s, t)) => Both(Given(c, s), Given(c, t))
BY FitsGiven DEF Both

\* Loops of the two ranks, round by round.
LEMMA BothLoops ==
    /\ \A n \in Nat : \A s, t : Both(s, t) => Both(Times(n, s), Times(n, t))
    /\ \A ss, tt :
          IsLoop(ss, Len(Iterations)) /\ IsLoop(tt, Len(Iterations))
              /\ (\A k \in 1 .. Len(Iterations) : Both(ss[k], tt[k])) =>
          Both(FlattenSeq(ss), FlattenSeq(tt))
<1>1. \A n \in Nat : \A s, t : Both(s, t) => Both(Times(n, s), Times(n, t))
  BY FitsTimes DEF Both
<1>2. ASSUME NEW ss, NEW tt, IsLoop(ss, Len(Iterations)), IsLoop(tt, Len(Iterations)),
             \A k \in 1 .. Len(Iterations) : Both(ss[k], tt[k])
      PROVE  Both(FlattenSeq(ss), FlattenSeq(tt))
  <2>1. \A k \in 1 .. Len(Iterations) :
           Fits(0, 1, ss[k], tt[k]) /\ Fits(0, 0, ss[k], ss[k]) /\ Fits(1, 1, tt[k], tt[k])
    BY <1>2 DEF Both
  <2>2. Fits(0, 1, FlattenSeq(ss), FlattenSeq(tt))
    BY <1>2, <2>1, IterationsFit
  <2>3. Fits(0, 0, FlattenSeq(ss), FlattenSeq(ss))
    BY <1>2, <2>1, IterationsFit
  <2>4. Fits(1, 1, FlattenSeq(tt), FlattenSeq(tt))
    BY <1>2, <2>1, IterationsFit
  <2> QED BY <2>2, <2>3, <2>4 DEF Both
<1> QED BY <1>1, <1>2

\* The epochs of the two ranks of a one-sided benchmark.
LEMMA SyncsFit ==
    ASSUME NEW y \in SyncKinds, NEW p \in Nat, NEW q \in Nat, NEW op, Own(op)
    PROVE  /\ Own(LoopLock(y)) /\ Own(LoopUnlock(y))
           /\ Both(OpPreSync(y), NonOpPreSync(y)) /\ Both(OpPostSync(y), NonOpPostSync(y, p))
           /\ Both(Ping(y, p), Pong(y, op))
           /\ Both(BibwPreSync(y), BibwPreSync(y)) /\ Both(BibwPostSync(y, p), BibwPostSync(y, q))
<1>1. /\ Own(Post) /\ Own(Await(p)) /\ Own(Await(q)) /\ Own(OpenEpoch("lock")) /\ Own(OpenEpoch("start"))
      /\ Own(CloseEpoch("lock")) /\ Own(CloseEpoch("start")) /\ Own(Flush("all")) /\ Own(Flush("fetched"))
      /\ Own(<<>>) /\ Common(Fence)
  BY OwnPieces, OwnAccesses, OwnOn, CommonCalls
<1>2. Own(LoopLock(y)) /\ Own(LoopUnlock(y))
  BY <1>1, OwnOn DEF LoopLock, LoopUnlock
<1>3. CASE y = "fence"
  <2>1. /\ OpPreSync(y) = Fence /\ OpPostSync(y) = Fence
        /\ NonOpPreSync(y) = <<>> \o Fence /\ NonOpPostSync(y, p) = <<>> \o Fence
        /\ Ping(y, p) = <<>> \o Fence /\ Pong(y, op) = <<>> \o (op \o Fence)
        /\ BibwPreSync(y) = <<>> \o Fence
        /\ BibwPostSync(y, p) = <<>> \o Fence /\ BibwPostSync(y, q) = <<>> \o Fence
    BY <1>3 DEF OpPreSync, OpPostSync, NonOpPreSync, NonOpPostSync, Ping, Pong, BibwPreSync,
       BibwPostSync, Given, Locking, Flushing
  <2>2. Both(Fence, Fence)
    BY <1>1, BothOwn
  <2>3. Both(Fence, <<>> \o Fence) /\ Both(<<>> \o Fence, <<>> \o Fence)
    BY <1>1, <2>2, BothOwn
  <2>4. Both(<<>> \o Fence, <<>> \o (op \o Fence))
    BY <1>1, <2>2, BothOwn
  <2> QED BY <1>2, <2>1, <2>3, <2>4
<1>4. CASE y # "fence"
  <2>1. Own(OpPreSync(y)) /\ Own(OpPostSync(y))
    BY <1>1, <1>4 DEF OpPreSync, OpPostSync, SyncKinds, Locking, Flushing, Active
  <2>2. \A s : Own(Given(y = "fence", s))
    BY <1>1, <1>4 DEF Given
  <2>3. /\ Own(Post \o Await(p)) /\ Own(OpPreSync(y) \o op \o OpPostSync(y))
        /\ Own(Post \o OpenEpoch("start"))
        /\ Own(CloseEpoch("start") \o Await(p)) /\ Own(CloseEpoch("start") \o Await(q))
    BY <1>1, <2>1, OwnOn
  <2>4. \A s : Own(s) => Own(Given(y = "pscw", s))
    BY OwnOn
  <2>5. Own(NonOpPreSync(y)) /\ Own(NonOpPostSync(y, p)) /\ Own(Ping(y, p)) /\ Own(Pong(y, op))
    BY <1>1, <2>2, <2>3, <2>4, OwnOn DEF NonOpPreSync, NonOpPostSync, Ping, Pong
  <2>6. Own(BibwPreSync(y)) /\ Own(BibwPostSync(y, p)) /\ Own(BibwPostSync(y, q))
    BY <1>1, <2>2, <2>3, <2>4, OwnOn DEF BibwPreSync, BibwPostSync
  <2> QED BY <1>2, <2>1, <2>5, <2>6, BothOwn
<1> QED BY <1>3, <1>4

\* The remote accesses of a benchmark have to do with the own rank alone.
LEMMA OpOwn == \A b : \A p \in Nat : Own(OpPtr(b, p))
<1> SUFFICES ASSUME NEW b, NEW p \in Nat PROVE Own(OpPtr(b, p))
  OBVIOUS
<1> DEFINE f == b \notin {"osu_put_bw", "osu_put_bibw", "osu_put_latency", "osu_acc_latency"}
<1>1. OpPtr(b, p) = Rma(p, f) /\ f \in BOOLEAN
  BY DEF OpPtr
<1> HIDE DEF f
<1> QED BY <1>1, OwnAccesses

\* run_op_bw, with every kind of synchronisation.
LEMMA RunOpBwBoth ==
    ASSUME NEW y \in SyncKinds, NEW b, NEW n \in Nat
    PROVE  Both(RunOpBw(y, 0, 1, OpPtr(b, 1), n), RunOpBw(y, 1, 0, OpPtr(b, 0), n))
<1> DEFINE op == OpPtr(b, 1)
           S == [k \in 1 .. Len(Iterations) |->
                    StartOnce(Iterations[k]) \o OpPreSync(y) \o Times(n, op) \o OpPostSync(y)]
           t == NonOpPreSync(y) \o NonOpPostSync(y, 0)
           T == [k \in 1 .. Len(Iterations) |-> t]
<1>1. Own(op) /\ Own(Times(n, op)) /\ Own(StopClock) /\ Own(Sample) /\ \A i : Own(StartOnce(i))
  BY OpOwn, OwnOn, OwnPieces
<1>2. /\ Own(LoopLock(y)) /\ Own(LoopUnlock(y))
      /\ Both(OpPreSync(y), NonOpPreSync(y)) /\ Both(OpPostSync(y), NonOpPostSync(y, 0))
  BY <1>1, SyncsFit
<1>3. /\ RunOpBw(y, 0, 1, op, n)
             = Barrier \o (LoopLock(y) \o FlattenSeq(S) \o StopClock \o Sample \o LoopUnlock(y)) \o Barrier
      /\ RunOpBw(y, 1, 0, OpPtr(b, 0), n) = Barrier \o FlattenSeq(T) \o Barrier
  <2>1. Times(Skip + Iters, t) = FlattenSeq(T)
    BY IterationsAre DEF Times, Turns
  <2>2. RunOpBw(y, 0, 1, op, n)
           = Barrier \o (LoopLock(y) \o FlattenSeq(S) \o StopClock \o Sample \o LoopUnlock(y)) \o Barrier
    BY DEF RunOpBw, ForEach
  <2>3. RunOpBw(y, 1, 0, OpPtr(b, 0), n) = Barrier \o Times(Skip + Iters, t) \o Barrier
    BY DEF RunOpBw, ForEach
  <2> QED BY <2>1, <2>2, <2>3
<1>4. /\ IsLoop(S, Len(Iterations)) /\ IsLoop(T, Len(Iterations))
      /\ \A k \in 1 .. Len(Iterations) :
            /\ S[k] = StartOnce(Iterations[k]) \o OpPreSync(y) \o Times(n, op) \o OpPostSync(y)
            /\ T[k] = NonOpPreSync(y) \o NonOpPostSync(y, 0)
  BY DEF IsLoop
<1>5. Both(Barrier, Barrier)
  BY CommonCalls, BothOwn
<1> HIDE DEF op, S, t, T
<1>6. \A k \in 1 .. Len(Iterations) : Both(S[k], T[k])
  BY <1>1, <1>2, <1>4, BothOn, BothOwn
<1>7. Both(FlattenSeq(S), FlattenSeq(T))
  BY <1>4, <1>6, BothLoops
<1>8. Both(LoopLock(y) \o FlattenSeq(S) \o StopClock \o Sample \o LoopUnlock(y), FlattenSeq(T))
  BY <1>1, <1>2, <1>7, BothOwn
<1>9. Both(RunOpBw(y, 0, 1, op, n), RunOpBw(y, 1, 0, OpPtr(b, 0), n))
  BY <1>3, <1>5, <1>8, BothOn
<1> QED BY <1>9 DEF op

\* run_op_lat, with every kind of synchronisation.
LEMMA RunOpLatBoth ==
    ASSUME NEW y \in SyncKinds, NEW b
    PROVE  Both(RunOpLat(y, 0, 1, OpPtr(b, 1)), RunOpLat(y, 1, 0, OpPtr(b, 0)))
<1> DEFINE op == OpPtr(b, 1)
           oq == OpPtr(b, 0)
           S == [k \in 1 .. Len(Iterations) |->
                    StartOnce(Iterations[k]) \o OpPreSync(y) \o op \o OpPostSync(y) \o Ping(y, 1)]
           t == NonOpPreSync(y) \o NonOpPostSync(y, 0) \o Pong(y, oq)
           T == [k \in 1 .. Len(Iterations) |-> t]
<1>1. Own(op) /\ Own(oq) /\ Own(StopClock) /\ Own(Sample) /\ \A i : Own(StartOnce(i))
  BY OpOwn, OwnPieces
<1>2. /\ Own(LoopLock(y)) /\ Own(LoopUnlock(y))
      /\ Both(OpPreSync(y), NonOpPreSync(y)) /\ Both(OpPostSync(y), NonOpPostSync(y, 0))
      /\ Both(Ping(y, 1), Pong(y, oq))
  <2> HIDE DEF oq
  <2> QED BY <1>1, SyncsFit
<1>3. /\ RunOpLat(y, 0, 1, op)
             = Barrier \o (LoopLock(y) \o FlattenSeq(S) \o StopClock \o Sample \o LoopUnlock(y)) \o Barrier
      /\ RunOpLat(y, 1, 0, oq) = Barrier \o FlattenSeq(T) \o Barrier
  <2>1. Times(Skip + Iters, t) = FlattenSeq(T)
    BY IterationsAre DEF Times, Turns
  <2>2. RunOpLat(y, 0, 1, op)
           = Barrier \o (LoopLock(y) \o FlattenSeq(S) \o StopClock \o Sample \o LoopUnlock(y)) \o Barrier
    BY DEF RunOpLat, ForEach
  <2>3. RunOpLat(y, 1, 0, oq) = Barrier \o Times(Skip + Iters, t) \o Barrier
    BY DEF RunOpLat, ForEach
  <2> QED BY <2>1, <2>2, <2>3
<1>4. /\ IsLoop(S, Len(Iterations)) /\ IsLoop(T, Len(Iterations))
      /\ \A k \in 1 .. Len(Iterations) :
            /\ S[k] = StartOnce(Iterations[k]) \o OpPreSync(y) \o op \o OpPostSync(y) \o Ping(y, 1)
            /\ T[k] = NonOpPreSync(y) \o NonOpPostSync(y, 0) \o Pong(y, oq)
  BY DEF IsLoop
<1>5. Both(Barrier, Barrier)
  BY CommonCalls, BothOwn
<1> HIDE DEF op, oq, S, t, T
<1>6. \A k \in 1 .. Len(Iterations) : Both(S[k], T[k])
  BY <1>1, <1>2, <1>4, BothOn, BothOwn
<1>7. Both(FlattenSeq(S), FlattenSeq(T))
  BY <1>4, <1>6, BothLoops
<1>8. Both(LoopLock(y) \o FlattenSeq(S) \o StopClock \o Sample \o LoopUnlock(y), FlattenSeq(T))
  BY <1>1, <1>2, <1>7, BothOwn
<1>9. Both(RunOpLat(y, 0, 1, op), RunOpLat(y, 1, 0, oq))
  BY <1>3, <1>5, <1>8, BothOn
<1> QED BY <1>9 DEF op, oq

\* run_op_bibw, with every kind of synchronisation.
LEMMA RunOpBibwBoth ==
    ASSUME NEW y \in SyncKinds, NEW b, NEW n \in Nat
    PROVE  Both(RunOpBibw(y, 0, 1, OpPtr(b, 1), n), RunOpBibw(y, 1, 0, OpPtr(b, 0), n))
<1> DEFINE op == OpPtr(b, 1)
           oq == OpPtr(b, 0)
           s == BibwPreSync(y) \o Times(n, op) \o BibwPostSync(y, 1)
           t == BibwPreSync(y) \o Times(n, oq) \o BibwPostSync(y, 0)
           S == [k \in 1 .. Len(Iterations) |-> StartOnce(Iterations[k]) \o s]
           T == [k \in 1 .. Len(Iterations) |-> t]
<1>1. /\ Own(Times(n, op)) /\ Own(Times(n, oq)) /\ Own(StopClock) /\ Own(Sample)
      /\ \A i : Own(StartOnce(i))
  BY OpOwn, OwnOn, OwnPieces
<1>2. Both(BibwPreSync(y), BibwPreSync(y)) /\ Both(BibwPostSync(y, 1), BibwPostSync(y, 0))
  <2>1. Own(op)
    BY OpOwn
  <2> HIDE DEF op
  <2> QED BY <2>1, SyncsFit
<1>3. /\ RunOpBibw(y, 0, 1, op, n) = Barrier \o (FlattenSeq(S) \o StopClock \o Sample) \o Barrier
      /\ RunOpBibw(y, 1, 0, oq, n) = Barrier \o FlattenSeq(T) \o Barrier
  BY DEF RunOpBibw, ForEach
<1>4. /\ IsLoop(S, Len(Iterations)) /\ IsLoop(T, Len(Iterations))
      /\ \A k \in 1 .. Len(Iterations) : S[k] = StartOnce(Iterations[k]) \o s /\ T[k] = t
  BY DEF IsLoop
<1>5. Both(Barrier, Barrier)
  BY CommonCalls, BothOwn
<1>6. Both(s, t)
  <2> HIDE DEF op, oq
  <2> QED BY <1>1, <1>2, BothOn, BothOwn
<1> HIDE DEF op, oq, s, S, t, T
<1>7. \A k \in 1 .. Len(Iterations) : Both(S[k], T[k])
  BY <1>1, <1>4, <1>6, BothOwn
<1>8. Both(FlattenSeq(S) \o StopClock \o Sample, FlattenSeq(T))
  BY <1>1, <1>4, <1>7, BothLoops, BothOwn
<1>9. Both(RunOpBibw(y, 0, 1, op, n), RunOpBibw(y, 1, 0, oq, n))
  BY <1>3, <1>5, <1>8, BothOn
<1> QED BY <1>9 DEF op, oq

\* The outcome of the target's comparison.
LEMMA FlagsFit == Both(Recv(1, "flag", ReplySize), Send(0, "flag", ReplySize))
<1> DEFINE tag == "flag"
<1>1. tag \in Tags /\ ReplySize \in Nat
  BY DEF Tags, ReplySize
<1> HIDE DEF tag
<1>2. Fits(0, 1, Recv(1, tag, ReplySize), Send(0, tag, ReplySize))
  BY <1>1, SendsFit
<1>3. Aside(0, Recv(1, tag, ReplySize)) /\ Aside(1, Send(0, tag, ReplySize))
  BY <1>1, MessagesAside
<1>4. Both(Recv(1, tag, ReplySize), Send(0, tag, ReplySize))
  BY <1>2, <1>3, BothAside DEF Both
<1> QED BY <1>4 DEF tag

\* run_op_acc, with every kind of synchronisation.
LEMMA RunOpAccBoth ==
    ASSUME NEW y \in SyncKinds, NEW b, NEW v \in BOOLEAN
    PROVE  Both(RunOpAcc(y, 0, 1, OpPtr(b, 1), v), RunOpAcc(y, 1, 0, OpPtr(b, 0), v))
<1> DEFINE op == OpPtr(b, 1)
           oq == OpPtr(b, 0)
           S == [k \in 1 .. Len(Iterations) |->
                    StartOnce(Iterations[k]) \o OpPreSync(y) \o op \o OpPostSync(y) \o Ping(y, 1)]
           t == NonOpPreSync(y) \o NonOpPostSync(y, 0) \o Pong(y, oq)
           T == [k \in 1 .. Len(Iterations) |-> t]
           pre0 == Given(v, Barrier)
           pre1 == Given(v, Touch \o Barrier)
           post0 == Given(v, Sync \o Recv(1, "flag", ReplySize))
           post1 == Given(v, Sync \o Touch \o Send(0, "flag", ReplySize))
<1>1. Own(op) /\ Own(oq) /\ Own(StopClock) /\ Own(Sample) /\ Own(Touch) /\ \A i : Own(StartOnce(i))
  BY OpOwn, OwnPieces
<1>2. /\ Own(LoopLock(y)) /\ Own(LoopUnlock(y))
      /\ Both(OpPreSync(y), NonOpPreSync(y)) /\ Both(OpPostSync(y), NonOpPostSync(y, 0))
      /\ Both(Ping(y, 1), Pong(y, oq))
  <2> HIDE DEF oq
  <2> QED BY <1>1, SyncsFit
<1>3. /\ RunOpAcc(y, 0, 1, op, v)
             = Barrier \o (LoopLock(y) \o pre0 \o FlattenSeq(S) \o post0
                             \o StopClock \o Sample \o LoopUnlock(y)) \o Barrier
      /\ RunOpAcc(y, 1, 0, oq, v) = Barrier \o (pre1 \o FlattenSeq(T) \o post1) \o Barrier
  <2>1. Times(Skip + Iters, t) = FlattenSeq(T)
    BY IterationsAre DEF Times, Turns
  <2>2. RunOpAcc(y, 0, 1, op, v)
           = Barrier \o (LoopLock(y) \o pre0 \o FlattenSeq(S) \o post0
                           \o StopClock \o Sample \o LoopUnlock(y)) \o Barrier
    BY DEF RunOpAcc, ForEach
  <2>3. RunOpAcc(y, 1, 0, oq, v) = Barrier \o (pre1 \o Times(Skip + Iters, t) \o post1) \o Barrier
    BY DEF RunOpAcc, ForEach
  <2> QED BY <2>1, <2>2, <2>3
<1>4. /\ IsLoop(S, Len(Iterations)) /\ IsLoop(T, Len(Iterations))
      /\ \A k \in 1 .. Len(Iterations) :
            /\ S[k] = StartOnce(Iterations[k]) \o OpPreSync(y) \o op \o OpPostSync(y) \o Ping(y, 1)
            /\ T[k] = NonOpPreSync(y) \o NonOpPostSync(y, 0) \o Pong(y, oq)
  BY DEF IsLoop
<1>5. Both(Barrier, Barrier) /\ Both(Sync, Sync)
  BY CommonCalls, BothOwn
<1>6. Both(pre0, pre1) /\ Both(post0, post1)
  <2>1. Both(Barrier, Touch \o Barrier)
    BY <1>1, <1>5, BothOwn
  <2>2. Both(Sync, Sync \o Touch)
    BY <1>1, <1>5, BothOwn
  <2>3. Both(Sync \o Recv(1, "flag", ReplySize), Sync \o Touch \o Send(0, "flag", ReplySize))
    BY <2>2, FlagsFit, BothOn
  <2> QED BY <2>1, <2>3, BothGiven
<1> HIDE DEF op, oq, S, t, T, pre0, pre1, post0, post1
<1>7. \A k \in 1 .. Len(Iterations) : Both(S[k], T[k])
  BY <1>1, <1>2, <1>4, BothOn, BothOwn
<1>8. Both(FlattenSeq(S), FlattenSeq(T))
  BY <1>4, <1>7, BothLoops
<1>9. Both(LoopLock(y) \o pre0 \o FlattenSeq(S) \o post0, pre1 \o FlattenSeq(T) \o post1)
  BY <1>2, <1>6, <1>8, BothOn, BothOwn
<1>10. Both(LoopLock(y) \o pre0 \o FlattenSeq(S) \o post0 \o StopClock \o Sample \o LoopUnlock(y),
            pre1 \o FlattenSeq(T) \o post1)
  BY <1>1, <1>2, <1>9, BothOwn
<1>11. Both(RunOpAcc(y, 0, 1, op, v), RunOpAcc(y, 1, 0, oq, v))
  BY <1>3, <1>5, <1>10, BothOn
<1> QED BY <1>11 DEF op, oq

\* run_op_cas, with every kind of synchronisation.
LEMMA RunOpCasBoth ==
    ASSUME NEW y \in SyncKinds, NEW b, NEW v \in BOOLEAN
    PROVE  Both(RunOpCas(y, 0, 1, OpPtr(b, 1), v), RunOpCas(y, 1, 0, OpPtr(b, 0), v))
<1> DEFINE op == OpPtr(b, 1)
           oq == OpPtr(b, 0)
           prepare(i) == Given(v /\ Measured(i), Touch)
           S == [k \in 1 .. Len(Iterations) |->
                    StartOnce(Iterations[k]) \o prepare(Iterations[k]) \o OpPreSync(y) \o op
                      \o OpPostSync(y) \o Ping(y, 1)]
           T == [k \in 1 .. Len(Iterations) |->
                    prepare(Iterations[k]) \o NonOpPreSync(y) \o NonOpPostSync(y, 0) \o Pong(y, oq)
                      \o prepare(Iterations[k])]
<1>1. /\ Own(op) /\ Own(oq) /\ Own(StopClock) /\ Own(Sample)
      /\ \A i : Own(StartOnce(i)) /\ Own(prepare(i))
  BY OpOwn, OwnPieces, OwnOn
<1>2. /\ Own(LoopLock(y)) /\ Own(LoopUnlock(y))
      /\ Both(OpPreSync(y), NonOpPreSync(y)) /\ Both(OpPostSync(y), NonOpPostSync(y, 0))
      /\ Both(Ping(y, 1), Pong(y, oq))
  <2> HIDE DEF oq
  <2> QED BY <1>1, SyncsFit
<1>3. /\ RunOpCas(y, 0, 1, op, v)
             = Barrier \o (LoopLock(y) \o FlattenSeq(S) \o StopClock \o Sample \o LoopUnlock(y)) \o Barrier
      /\ RunOpCas(y, 1, 0, oq, v) = Barrier \o FlattenSeq(T) \o Barrier
  BY DEF RunOpCas, ForEach
<1>4. /\ IsLoop(S, Len(Iterations)) /\ IsLoop(T, Len(Iterations))
      /\ \A k \in 1 .. Len(Iterations) :
            /\ S[k] = StartOnce(Iterations[k]) \o prepare(Iterations[k]) \o OpPreSync(y) \o op
                        \o OpPostSync(y) \o Ping(y, 1)
            /\ T[k] = prepare(Iterations[k]) \o NonOpPreSync(y) \o NonOpPostSync(y, 0) \o Pong(y, oq)
                        \o prepare(Iterations[k])
  BY DEF IsLoop
<1>5. Both(Barrier, Barrier)
  BY CommonCalls, BothOwn
<1> HIDE DEF op, oq, prepare, S, T
<1>6. ASSUME NEW k \in 1 .. Len(Iterations) PROVE Both(S[k], T[k])
  <2> DEFINE i == Iterations[k]
             u == StartOnce(i) \o prepare(i)
             w == prepare(i)
  <2>1. Own(u) /\ Own(w)
    BY <1>1, OwnOn
  <2>2. S[k] = u \o OpPreSync(y) \o op \o OpPostSync(y) \o Ping(y, 1)
        /\ T[k] = w \o NonOpPreSync(y) \o NonOpPostSync(y, 0) \o Pong(y, oq) \o w
    BY <1>4
  <2> HIDE DEF u, w
  <2>3. Both(u \o OpPreSync(y), w \o NonOpPreSync(y))
    BY <1>2, <2>1, BothOn, BothOwn
  <2>4. Both(u \o OpPreSync(y) \o op \o OpPostSync(y), w \o NonOpPreSync(y) \o NonOpPostSync(y, 0))
    BY <1>1, <1>2, <2>3, BothOn, BothOwn
  <2> QED BY <1>2, <2>1, <2>2, <2>4, BothOn, BothOwn
<1>7. Both(FlattenSeq(S), FlattenSeq(T))
  BY <1>4, <1>6, BothLoops
<1>8. Both(LoopLock(y) \o FlattenSeq(S) \o StopClock \o Sample \o LoopUnlock(y), FlattenSeq(T))
  BY <1>1, <1>2, <1>7, BothOwn
<1>9. Both(RunOpCas(y, 0, 1, op, v), RunOpCas(y, 1, 0, oq, v))
  BY <1>3, <1>5, <1>8, BothOn
<1> QED BY <1>9 DEF op, oq

\* The one-sided benchmarks.
LEMMA OneSidedFits ==
    ASSUME NEW b \in OneSidedBenchmarks, NEW y \in ValidateSyncType(b), NEW r \in {0, 1}, NEW q \in {0, 1},
           NEW n \in Nat, NEW v \in BOOLEAN
    PROVE  Fits(r, q, OneSidedProgram(b, y, r, n, v), OneSidedProgram(b, y, q, n, v))
<1> DEFINE s == OneSidedExchange(b, y, 0, n, v)
           t == OneSidedExchange(b, y, 1, n, v)
<1>1. y \in SyncKinds
  BY DEF ValidateSyncType, SyncKinds
<1>2. Both(s, t)
  <2>0. 1 - 0 = 1 /\ 1 - 1 = 0
    OBVIOUS
  <2>1. CASE b \in {"osu_put_bw", "osu_get_bw"}
    <3>1. s = RunOpBw(y, 0, 1, OpPtr(b, 1), n) /\ t = RunOpBw(y, 1, 0, OpPtr(b, 0), n)
      BY <2>0, <2>1 DEF OneSidedExchange, OneSidedBandwidth, OneSidedLatency
    <3> QED BY <1>1, <3>1, RunOpBwBoth
  <2>2. CASE b = "osu_put_bibw"
    <3>1. s = RunOpBibw(y, 0, 1, OpPtr(b, 1), n) /\ t = RunOpBibw(y, 1, 0, OpPtr(b, 0), n)
      BY <2>0, <2>2 DEF OneSidedExchange, OneSidedBandwidth, OneSidedLatency
    <3> QED BY <1>1, <3>1, RunOpBibwBoth
  <2>3. CASE b \in {"osu_put_latency", "osu_get_latency", "osu_get_acc_latency"}
    <3>1. s = RunOpLat(y, 0, 1, OpPtr(b, 1)) /\ t = RunOpLat(y, 1, 0, OpPtr(b, 0))
      BY <2>0, <2>3 DEF OneSidedExchange, OneSidedBandwidth, OneSidedLatency, RunOpGetAcc
    <3> QED BY <1>1, <3>1, RunOpLatBoth
  <2>4. CASE b = "osu_acc_latency"
    <3>1. s = RunOpAcc(y, 0, 1, OpPtr(b, 1), v) /\ t = RunOpAcc(y, 1, 0, OpPtr(b, 0), v)
      BY <2>0, <2>4 DEF OneSidedExchange, OneSidedBandwidth, OneSidedLatency
    <3> QED BY <1>1, <3>1, RunOpAccBoth
  <2>5. CASE b \in {"osu_cas_latency", "osu_fop_latency"}
    <3>1. s = RunOpCas(y, 0, 1, OpPtr(b, 1), v) /\ t = RunOpCas(y, 1, 0, OpPtr(b, 0), v)
      BY <2>0, <2>5 DEF OneSidedExchange, OneSidedBandwidth, OneSidedLatency, RunOpFop
    <3> QED BY <1>1, <3>1, RunOpCasBoth
  <2> QED BY <2>1, <2>2, <2>3, <2>4, <2>5
          DEF OneSidedBenchmarks, OneSidedBandwidth, OneSidedLatency, OneSidedAtomics
<1>3. OneSidedProgram(b, y, 0, n, v) = Times(Len(Sizes), Sync \o s \o Sync)
      /\ OneSidedProgram(b, y, 1, n, v) = Times(Len(Sizes), Sync \o t \o Sync)
  BY DEF OneSidedProgram, AllocateOneSidedMemory, FreeOneSidedMemory
<1> HIDE DEF s, t
<1>4. Both(Sync, Sync)
  BY CommonCalls, BothOwn
<1>5. Both(Sync \o s \o Sync, Sync \o t \o Sync)
  BY <1>2, <1>4, BothOn
<1>6. Both(OneSidedProgram(b, y, 0, n, v), OneSidedProgram(b, y, 1, n, v))
  BY <1>3, <1>5, SizesAre, BothLoops
<1>7. Fits(r, q, IF r = 0 THEN OneSidedProgram(b, y, 0, n, v) ELSE OneSidedProgram(b, y, 1, n, v),
                 IF q = 0 THEN OneSidedProgram(b, y, 0, n, v) ELSE OneSidedProgram(b, y, 1, n, v))
  BY <1>6, BothRanks
<1> QED BY <1>7

\* The calls of the PGAS benchmarks.
LEMMA SharedPieces ==
    /\ \A p \in Nat :
          /\ Own(Rma(p, TRUE)) /\ Own(Rma(p, FALSE))
          /\ Own(PutMem(p)) /\ Own(PutMemNbi(p)) /\ Own(GetMem(p)) /\ Own(GetMemNbi(p))
    /\ Own(Quiet) /\ Own(AsyncWait) /\ Common(BarrierAll) /\ Common(UpcBarrier) /\ Common(Sync)
<1> DEFINE yes == TRUE
           no == FALSE
<1>1. yes \in BOOLEAN /\ no \in BOOLEAN
  OBVIOUS
<1> HIDE DEF yes, no
<1>2. \A p \in Nat : Own(Rma(p, yes)) /\ Own(Rma(p, no)) /\ Own(Flush("all")) /\ Own(Flush("fetched"))
  BY <1>1, OwnAccesses
<1>3. \A p \in Nat : Own(Rma(p, TRUE)) /\ Own(Rma(p, FALSE))
  BY <1>2 DEF yes, no
<1>4. Own(Flush("all")) /\ Own(Flush("fetched"))
  BY OwnAccesses
<1>5. \A p \in Nat : Own(Rma(p, yes) \o Flush("fetched"))
  BY <1>2, OwnOn
<1>6. \A p \in Nat : Own(PutMem(p)) /\ Own(PutMemNbi(p)) /\ Own(GetMem(p)) /\ Own(GetMemNbi(p))
  BY <1>2, <1>5 DEF PutMem, PutMemNbi, GetMem, GetMemNbi, yes, no
<1>7. Own(Quiet) /\ Own(AsyncWait)
  BY <1>4 DEF Quiet, AsyncWait
<1>8. Common(Flush("all") \o Sync) /\ Common(Sync)
  BY <1>4, OwnIs, CommonCalls, CommonOn
<1> QED BY <1>3, <1>6, <1>7, <1>8 DEF BarrierAll, UpcBarrier, Quiet

\* A loop over calls of one kind has nothing but calls of that kind.
LEMMA SharedLoops ==
    ASSUME NEW call
    PROVE  /\ Own(call) => Own(OshmLoop(call))
           /\ Own(call) => Own(InRepeatedIntervals(call))
           /\ Common(call) => Common(InRepeatedIntervals(call))
<1>0. Len(Iterations) \in Nat
  BY IterationsAre, TurnsType
<1>1. Own(StartClock) /\ Own(StopClock) /\ Own(Sample) /\ (\A i : Own(StartOnce(i)))
      /\ \A c : Own(Given(c, Sample))
  BY OwnPieces, OwnOn
<1> DEFINE S == [k \in 1 .. Len(Iterations) |-> StartOnce(Iterations[k]) \o call]
           T == [k \in 1 .. Len(Iterations) |->
                    StartClock \o call \o StopClock \o Given(Measured(Iterations[k]), Sample)]
<1>2. OshmLoop(call) = FlattenSeq(S) \o StopClock \o Sample /\ InRepeatedIntervals(call) = FlattenSeq(T)
  BY DEF OshmLoop, InRepeatedIntervals, ForEach
<1>3. /\ IsLoop(S, Len(Iterations)) /\ IsLoop(T, Len(Iterations))
      /\ \A k \in 1 .. Len(Iterations) :
            /\ S[k] = StartOnce(Iterations[k]) \o call
            /\ T[k] = StartClock \o call \o StopClock \o Given(Measured(Iterations[k]), Sample)
  BY DEF IsLoop
<1> HIDE DEF S, T
<1>4. ASSUME Own(call) PROVE Own(OshmLoop(call)) /\ Own(InRepeatedIntervals(call))
  <2>1. \A k \in 1 .. Len(Iterations) : Own(S[k]) /\ Own(T[k])
    BY <1>1, <1>3, <1>4, OwnOn
  <2>2. Own(FlattenSeq(S)) /\ Own(FlattenSeq(T))
    BY <1>0, <1>3, <2>1, CommonLoop
  <2> QED BY <1>1, <1>2, <2>2, OwnOn
<1>5. ASSUME Common(call) PROVE Common(InRepeatedIntervals(call))
  <2>1. \A k \in 1 .. Len(Iterations) : Common(T[k])
    BY <1>1, <1>3, <1>5, OwnIs, CommonOn
  <2>2. Common(FlattenSeq(T))
    BY <1>0, <1>3, <2>1, CommonLoop
  <2> QED BY <1>2, <2>2
<1> QED BY <1>4, <1>5

\* The sizes of a put or get benchmark in OpenSHMEM, where one side measures.
LEMMA OshmSizesFit ==
    ASSUME NEW r, NEW q, NEW measure, Own(measure)
    PROVE  Fits(r, q, OshmSizes(r, measure), OshmSizes(q, measure))
<1> DEFINE part(x) == Given(x = 0, measure)
           u == part(r)
           w == part(q)
<1>1. Own(u) /\ Own(w) /\ Own(Touch) /\ Fits(r, q, BarrierAll, BarrierAll)
  BY OwnOn, OwnPieces, SharedPieces, CommonFits
<1>2. /\ OshmSizes(r, measure)
             = Times(Len(Sizes), Touch \o BarrierAll \o u \o BarrierAll) \o BarrierAll \o BarrierAll
      /\ OshmSizes(q, measure)
             = Times(Len(Sizes), Touch \o BarrierAll \o w \o BarrierAll) \o BarrierAll \o BarrierAll
  BY DEF OshmSizes
<1> HIDE DEF u, w
<1>3. Fits(r, q, Touch \o BarrierAll \o u, Touch \o BarrierAll \o w)
  BY <1>1, OwnFits
<1>4. Fits(r, q, Touch \o BarrierAll \o u \o BarrierAll, Touch \o BarrierAll \o w \o BarrierAll)
  BY <1>1, <1>3, FitsOn
<1>5. Fits(r, q, Times(Len(Sizes), Touch \o BarrierAll \o u \o BarrierAll),
                 Times(Len(Sizes), Touch \o BarrierAll \o w \o BarrierAll))
  BY <1>4, SizesAre, FitsTimes
<1> QED BY <1>1, <1>2, <1>5, FitsOn

\* The put and get benchmarks in OpenSHMEM.
LEMMA OshmPt2ptFits ==
    ASSUME NEW b \in OshmPt2pt, NEW r, NEW q
    PROVE  Fits(r, q, PgasProgram(b, r), PgasProgram(b, q))
<1> DEFINE transfers == {PutMem(1), GetMem(1), PutMem(1) \o Quiet, PutMemNbi(1) \o Quiet,
                         GetMemNbi(1) \o Quiet}
           measures == {OshmLoop(call) : call \in transfers}
                          \cup {InRepeatedIntervals(PutMem(1) \o Quiet) \o InRepeatedIntervals(PutMemNbi(1) \o Quiet),
                                InRepeatedIntervals(GetMemNbi(1) \o Quiet) \o InRepeatedIntervals(GetMemNbi(1) \o Quiet)}
<1>1. \A call \in transfers : Own(call)
  BY SharedPieces, OwnOn
<1>2. \A m \in measures : Own(m)
  <2>1. \A call \in transfers : Own(OshmLoop(call)) /\ Own(InRepeatedIntervals(call))
    BY <1>1, SharedLoops
  <2> QED BY <2>1, OwnOn
<1>3. \E m \in measures : \A x : PgasProgram(b, x) = OshmSizes(x, m)
  <2>1. CASE b = "osu_oshm_put_overlap"
    BY <2>1 DEF PgasProgram, OshmPutOverlap
  <2>2. CASE b = "osu_oshm_get_overlap"
    BY <2>2 DEF PgasProgram, OshmGetOverlap
  <2>3. CASE b \notin {"osu_oshm_put_overlap", "osu_oshm_get_overlap"}
    <3>1. \E call \in transfers : \A x : PgasProgram(b, x) = OshmSizes(x, OshmLoop(call))
      BY <2>3 DEF OshmPt2pt, PgasProgram, OshmPut, OshmPutNb, OshmGet, OshmGetNb, OshmPutBw,
              OshmPutNbBw, OshmGetBw, OshmGetNbBw
    <3> HIDE DEF transfers
    <3> QED BY <3>1
  <2> QED BY <2>1, <2>2, <2>3
<1> HIDE DEF measures
<1>4. PICK m \in measures : \A x : PgasProgram(b, x) = OshmSizes(x, m)
  BY <1>3
<1>5. PgasProgram(b, r) = OshmSizes(r, m) /\ PgasProgram(b, q) = OshmSizes(q, m)
  BY <1>4
<1> QED BY <1>2, <1>4, <1>5, OshmSizesFit

\* The sender of a UPC transfer meets its partner once in the loop.
LEMMA UpcTransfersFit ==
    ASSUME NEW r \in {0, 1}, NEW q \in {0, 1}, NEW barrier, Common(barrier), NEW call, Own(call),
           NEW end, Own(end)
    PROVE  Fits(r, q, UpcTransfers(r, barrier, call, end), UpcTransfers(q, barrier, call, end))
<1> DEFINE S == [k \in 1 .. Len(Iterations) |-> Given(Iterations[k] = Skip, barrier \o StartClock) \o call]
           s == FlattenSeq(S) \o end \o barrier \o StopClock \o Sample
           u == Times(Len(Sizes), Touch \o barrier \o s)
           w == Times(Len(Sizes), Touch \o barrier \o (barrier \o barrier))
<1>0. Len(Iterations) \in Nat /\ Skip + 1 \in 1 .. Len(Iterations)
  BY IterationsAre, TurnsType
<1>1. /\ Own(StartClock) /\ Own(StopClock) /\ Own(Sample) /\ Own(Touch) /\ Both(barrier, barrier)
      /\ Own(<<>>)
  BY OwnPieces, BothOwn, OwnOn
<1>2. UpcTransfers(0, barrier, call, end) = u /\ UpcTransfers(1, barrier, call, end) = w
  BY DEF UpcTransfers, ForEach
<1>3. /\ IsLoop(S, Len(Iterations)) /\ S[Skip + 1] = barrier \o StartClock \o call
      /\ \A k \in 1 .. Len(Iterations) : k # Skip + 1 => S[k] = <<>> \o call
  <2>1. \A k \in 1 .. Len(Iterations) : (Iterations[k] = Skip) <=> (k = Skip + 1)
    BY IterationsAre, TurnsType
  <2> QED BY <1>0, <2>1 DEF IsLoop, Given
<1> HIDE DEF S
<1>4. Both(FlattenSeq(S), barrier)
  <2>1. Both(S[Skip + 1], barrier)
    BY <1>1, <1>3, BothOwn
  <2>2. \A k \in 1 .. Len(Iterations) : k # Skip + 1 => Own(S[k])
    BY <1>1, <1>3, OwnOn
  <2>3. Fits(0, 1, S[Skip + 1], barrier)
        /\ \A k \in 1 .. Len(Iterations) : k # Skip + 1 => Fits(0, 1, S[k], <<>>)
    BY <2>1, <2>2, OwnFits DEF Both
  <2>4. Fits(0, 1, FlattenSeq(S), barrier)
    BY <1>0, <1>3, <2>3, FitsOnce
  <2>5. Common(FlattenSeq(S))
    <3>1. Common(S[Skip + 1])
      BY <1>1, <1>3, OwnIs, CommonOn
    <3>2. \A k \in 1 .. Len(Iterations) : Common(S[k])
      BY <2>2, <3>1, OwnIs
    <3> QED BY <1>0, <1>3, <3>2, CommonLoop
  <2> QED BY <1>1, <2>4, <2>5, CommonFits DEF Both
<1>5. Both(s, barrier \o barrier)
  BY <1>1, <1>4, BothOn, BothOwn
<1> HIDE DEF s
<1>6. Both(Touch \o barrier \o s, Touch \o barrier \o (barrier \o barrier))
  BY <1>1, <1>5, BothOn, BothOwn
<1>7. Both(u, w)
  BY <1>6, SizesAre, BothLoops
<1> HIDE DEF u, w
<1>8. Fits(r, q, IF r = 0 THEN u ELSE w, IF q = 0 THEN u ELSE w)
  BY <1>7, BothRanks
<1> QED BY <1>2, <1>8

\* The put and get benchmarks in UPC and UPC++.
LEMMA UpcPt2ptFits ==
    ASSUME NEW b \in UpcPt2pt \cup UpcxxPt2pt, NEW r \in {0, 1}, NEW q \in {0, 1}
    PROVE  Fits(r, q, PgasProgram(b, r), PgasProgram(b, q))
<1>1. /\ Own(Rma(1, TRUE)) /\ Own(Rma(1, FALSE)) /\ Own(AsyncWait) /\ Own(<<>>)
      /\ Common(UpcBarrier) /\ Common(Sync) /\ Own(Flush("all")) /\ Own(Flush("fetched"))
  BY SharedPieces, OwnOn, OwnAccesses
<1>2. CASE b \in UpcPt2pt
  <2> DEFINE transfers == {Rma(1, TRUE) \o Flush("fetched"), Rma(1, FALSE) \o Flush("all")}
  <2>1. \E call \in transfers : \A x : PgasProgram(b, x) = UpcTransfers(x, UpcBarrier, call, <<>>)
    BY <1>2 DEF UpcPt2pt, PgasProgram, UpcMemget, UpcMemput
  <2>2. PICK call \in transfers : \A x : PgasProgram(b, x) = UpcTransfers(x, UpcBarrier, call, <<>>)
    BY <2>1
  <2>3. Own(call)
    BY <1>1, <2>2, OwnOn
  <2>4. Fits(r, q, UpcTransfers(r, UpcBarrier, call, <<>>), UpcTransfers(q, UpcBarrier, call, <<>>))
    BY <1>1, <2>3, UpcTransfersFit
  <2> QED BY <2>2, <2>4
<1>3. CASE b \in UpcxxPt2pt
  <2> DEFINE transfers == {Rma(1, TRUE), Rma(1, FALSE)}
  <2>1. \E call \in transfers : \A x :
            PgasProgram(b, x) = Sync \o Sync \o UpcTransfers(x, Sync, call, AsyncWait) \o Sync
    BY <1>3 DEF UpcxxPt2pt, PgasProgram, UpcxxAsyncCopyGet, UpcxxAsyncCopyPut
  <2>2. PICK call \in transfers : \A x :
            PgasProgram(b, x) = Sync \o Sync \o UpcTransfers(x, Sync, call, AsyncWait) \o Sync
    BY <2>1
  <2>3. Own(call) /\ Fits(r, q, Sync, Sync)
    BY <1>1, <2>2, CommonFits
  <2>4. Fits(r, q, UpcTransfers(r, Sync, call, AsyncWait), UpcTransfers(q, Sync, call, AsyncWait))
    BY <1>1, <2>3, UpcTransfersFit
  <2>5. Fits(r, q, Sync \o Sync \o UpcTransfers(r, Sync, call, AsyncWait) \o Sync,
                   Sync \o Sync \o UpcTransfers(q, Sync, call, AsyncWait) \o Sync)
    BY <2>3, <2>4, FitsOn
  <2>6. /\ PgasProgram(b, r) = Sync \o Sync \o UpcTransfers(r, Sync, call, AsyncWait) \o Sync
        /\ PgasProgram(b, q) = Sync \o Sync \o UpcTransfers(q, Sync, call, AsyncWait) \o Sync
    BY <2>2
  <2> QED BY <2>5, <2>6
<1> QED BY <1>2, <1>3

\* Collective operations over a pSync array, or without one.
LEMMA FormsCommon ==
    \A kind \in RootedKinds : \A form \in {"plain"} \cup PSyncArrays : \A data \in SUBSET Nat :
        Common(Enter(kind, 0, data, form) \o Leave)
<1>1. /\ 0 \in Nat /\ RootedKinds \subseteq CollectiveKinds
      /\ {"plain"} \cup PSyncArrays \subseteq Forms
  BY DEF RootedKinds, CollectiveKinds, Forms
<1> QED BY <1>1, CommonCalls

\* A reduction to all, whatever pSync array it is given.
LEMMA ToAllCommon == \A psync \in PSyncArrays : Common(ToAll(psync))
<1>1. "all" \in RootedKinds
  BY DEF RootedKinds
<1>2. {} \in SUBSET Nat
  OBVIOUS
<1> QED BY <1>1, <1>2, FormsCommon DEF ToAll

\* The message rate benchmarks, where the first n ranks are the active ones.
LEMMA RatesFit ==
    ASSUME NEW r, NEW q, NEW n, NEW c, NEW d, Own(c), Own(d), NEW e, NEW f, Own(e), Own(f)
    PROVE  LET R == Touch \o Given(r < n, e) \o BarrierAll
                      \o Times(Len(Sizes), MessageRate(r, n, c) \o ToAll("psync")) \o BarrierAll
               Q == Touch \o Given(q < n, f) \o BarrierAll
                      \o Times(Len(Sizes), MessageRate(q, n, d) \o ToAll("psync")) \o BarrierAll
           IN  Fits(r, q, R, Q)
<1> DEFINE i(x, call) == Given(x < n, StartClock \o Times(Iters, call) \o Quiet \o StopClock \o Sample)
           u == i(r, c)
           w == i(q, d)
           all == ToAll("psync")
           s == Touch \o BarrierAll \o u \o all
           t == Touch \o BarrierAll \o w \o all
           g == Given(r < n, e)
           h == Given(q < n, f)
<1>1. /\ Own(Touch) /\ Own(g) /\ Own(h) /\ Fits(r, q, BarrierAll, BarrierAll) /\ Fits(r, q, all, all)
  <2>1. "psync" \in PSyncArrays
    BY DEF PSyncArrays
  <2> QED BY <2>1, OwnPieces, OwnOn, SharedPieces, ToAllCommon, CommonFits
<1>2. Own(u) /\ Own(w)
  <2>1. Own(StartClock) /\ Own(StopClock) /\ Own(Sample) /\ Own(Quiet) /\ Iters \in Nat
    BY OwnPieces, SharedPieces, TurnsType
  <2>2. Own(Times(Iters, c)) /\ Own(Times(Iters, d))
    BY <2>1, OwnOn
  <2>3. Own(StartClock \o Times(Iters, c) \o Quiet \o StopClock \o Sample)
        /\ Own(StartClock \o Times(Iters, d) \o Quiet \o StopClock \o Sample)
    BY <2>1, <2>2, OwnOn
  <2> QED BY <2>3, OwnOn
<1>3. MessageRate(r, n, c) \o ToAll("psync") = s /\ MessageRate(q, n, d) \o ToAll("psync") = t
  BY DEF MessageRate
<1> HIDE DEF u, w, all, g, h
<1>4. Fits(r, q, Touch \o BarrierAll \o u, Touch \o BarrierAll \o w)
  BY <1>1, <1>2, OwnFits
<1>5. Fits(r, q, s, t)
  BY <1>1, <1>4, FitsOn
<1> HIDE DEF s, t
<1>6. Fits(r, q, Times(Len(Sizes), s), Times(Len(Sizes), t))
  BY <1>5, SizesAre, FitsTimes
<1>7. Fits(r, q, Touch \o g, Touch \o h)
  BY <1>1, OwnOn, OwnApart
<1>8. Fits(r, q, Touch \o g \o BarrierAll \o Times(Len(Sizes), s) \o BarrierAll,
                 Touch \o h \o BarrierAll \o Times(Len(Sizes), t) \o BarrierAll)
  BY <1>1, <1>6, <1>7, FitsOn
<1> QED BY <1>3, <1>8 DEF g, h

\* A test of the atomic operations of OpenSHMEM.
LEMMA AtomicTestsFit ==
    ASSUME NEW r, NEW q, NEW n, NEW c, NEW d, Own(c), Own(d)
    PROVE  Fits(r, q, AtomicTest(r, n, c), AtomicTest(q, n, d))
<1> DEFINE i(x, call) == Given(x < n, StartClock \o Times(Iters, call) \o StopClock \o Sample)
           u == i(r, c)
           w == i(q, d)
           one == ToAll("psync1")
           two == ToAll("psync2")
<1>1. /\ Own(Touch) /\ Fits(r, q, BarrierAll, BarrierAll) /\ Fits(r, q, one, one) /\ Fits(r, q, two, two)
  <2>1. "psync1" \in PSyncArrays /\ "psync2" \in PSyncArrays
    BY DEF PSyncArrays
  <2> QED BY <2>1, OwnPieces, SharedPieces, ToAllCommon, CommonFits
<1>2. Own(u) /\ Own(w)
  <2>1. Own(StartClock) /\ Own(StopClock) /\ Own(Sample) /\ Iters \in Nat
    BY OwnPieces, TurnsType
  <2>2. Own(Times(Iters, c)) /\ Own(Times(Iters, d))
    BY <2>1, OwnOn
  <2>3. Own(StartClock \o Times(Iters, c) \o StopClock \o Sample)
        /\ Own(StartClock \o Times(Iters, d) \o StopClock \o Sample)
    BY <2>1, <2>2, OwnOn
  <2> QED BY <2>3, OwnOn
<1>3. /\ AtomicTest(r, n, c) = Touch \o BarrierAll \o u \o one \o two
      /\ AtomicTest(q, n, d) = Touch \o BarrierAll \o w \o one \o two
  BY DEF AtomicTest
<1> HIDE DEF u, w, one, two
<1>4. Fits(r, q, Touch \o BarrierAll \o u, Touch \o BarrierAll \o w)
  BY <1>1, <1>2, OwnFits
<1> QED BY <1>1, <1>3, <1>4, FitsOn

\* The message rate and atomics benchmarks in OpenSHMEM.
LEMMA OshmRateFits ==
    ASSUME NEW b \in OshmRate, NEW r \in 0 .. 3, NEW q \in 0 .. 3
    PROVE  Fits(r, q, PgasProgram(b, r), PgasProgram(b, q))
<1> DEFINE c == NxtPe(r, 2)
           d == NxtPe(q, 2)
<1>1. PgasPairs(b) = 2 /\ c \in Nat /\ d \in Nat
  BY NxtPeType DEF PgasPairs
<1>2. /\ Own(PutMem(c)) /\ Own(PutMemNbi(c)) /\ Own(GetMemNbi(c))
      /\ Own(PutMem(d)) /\ Own(PutMemNbi(d)) /\ Own(GetMemNbi(d))
      /\ Own(Rma(c, TRUE)) /\ Own(Rma(c, FALSE)) /\ Own(Rma(d, TRUE)) /\ Own(Rma(d, FALSE))
      /\ Own(Flush("fetched"))
  BY <1>1, SharedPieces, OwnAccesses
<1>3. CASE b = "osu_oshm_atomics"
  <2> DEFINE f(x) == Fetching(x, 2)
             g(x) == NotFetching(x, 2)
             put(x) == Given(x < 2, PutMem(NxtPe(x, 2)))
  <2>1. \A x : PgasProgram(b, x) = OshmAtomics(x, 2)
    BY <1>1, <1>3 DEF PgasProgram
  <2>2. \A x : OshmAtomics(x, 2)
            = BarrierAll \o Touch \o put(x) \o f(x) \o f(x) \o g(x) \o g(x) \o f(x) \o f(x) \o g(x) \o f(x)
                  \o f(x) \o f(x) \o g(x) \o g(x) \o f(x) \o f(x) \o g(x) \o f(x) \o BarrierAll
    BY DEF OshmAtomics, BenchmarkFadd, BenchmarkFinc, BenchmarkAdd, BenchmarkInc, BenchmarkCswap,
       BenchmarkSwap, BenchmarkSet, BenchmarkFetch, BenchmarkFaddLonglong, BenchmarkFincLonglong,
       BenchmarkAddLonglong, BenchmarkIncLonglong, BenchmarkCswapLonglong, BenchmarkSwapLonglong,
       BenchmarkSetLonglong, BenchmarkFetchLonglong
  <2>3. Fits(r, q, f(r), f(q)) /\ Fits(r, q, g(r), g(q))
    <3>1. Own(Rma(c, TRUE) \o Flush("fetched")) /\ Own(Rma(d, TRUE) \o Flush("fetched"))
      BY <1>2, OwnOn
    <3>2. Fits(r, q, AtomicTest(r, 2, Rma(c, TRUE) \o Flush("fetched")),
                     AtomicTest(q, 2, Rma(d, TRUE) \o Flush("fetched")))
      BY <3>1, AtomicTestsFit
    <3>3. Fits(r, q, AtomicTest(r, 2, Rma(c, FALSE)), AtomicTest(q, 2, Rma(d, FALSE)))
      BY <1>2, AtomicTestsFit
    <3> QED BY <3>2, <3>3 DEF Fetching, NotFetching
  <2>4. /\ Own(put(r)) /\ Own(put(q)) /\ Own(Touch) /\ Fits(r, q, BarrierAll, BarrierAll)
    BY <1>2, OwnOn, OwnPieces, SharedPieces, CommonFits
  <2> DEFINE f0 == f(r)
             f1 == f(q)
             g0 == g(r)
             g1 == g(q)
             p0 == put(r)
             p1 == put(q)
  <2>5. /\ PgasProgram(b, r)
            = BarrierAll \o Touch \o p0 \o f0 \o f0 \o g0 \o g0 \o f0 \o f0 \o g0 \o f0
                  \o f0 \o f0 \o g0 \o g0 \o f0 \o f0 \o g0 \o f0 \o BarrierAll
        /\ PgasProgram(b, q)
            = BarrierAll \o Touch \o p1 \o f1 \o f1 \o g1 \o g1 \o f1 \o f1 \o g1 \o f1
                  \o f1 \o f1 \o g1 \o g1 \o f1 \o f1 \o g1 \o f1 \o BarrierAll
    BY <2>1, <2>2
  <2> HIDE DEF f0, f1, g0, g1, p0, p1
  <2>6. Fits(r, q, f0, f1) /\ Fits(r, q, g0, g1) /\ Own(p0) /\ Own(p1)
    BY <2>3, <2>4 DEF f0, f1, g0, g1, p0, p1
  <2>7. Fits(r, q, BarrierAll \o Touch \o p0, BarrierAll \o Touch \o p1)
    BY <2>4, <2>6, OwnFits
  <2>8. ASSUME NEW s, NEW t, Fits(r, q, s, t)
        PROVE  Fits(r, q, s \o f0 \o f0 \o g0 \o g0, t \o f1 \o f1 \o g1 \o g1)
               /\ Fits(r, q, s \o f0 \o f0 \o g0 \o f0, t \o f1 \o f1 \o g1 \o f1)
    BY <2>6, <2>8, FitsOn
  <2>9. Fits(r, q, BarrierAll \o Touch \o p0 \o f0 \o f0 \o g0 \o g0,
                   BarrierAll \o Touch \o p1 \o f1 \o f1 \o g1 \o g1)
    BY <2>7, <2>8
  <2>10. Fits(r, q, BarrierAll \o Touch \o p0 \o f0 \o f0 \o g0 \o g0 \o f0 \o f0 \o g0 \o f0,
                    BarrierAll \o Touch \o p1 \o f1 \o f1 \o g1 \o g1 \o f1 \o f1 \o g1 \o f1)
    BY <2>8, <2>9
  <2>11. Fits(r, q, BarrierAll \o Touch \o p0 \o f0 \o f0 \o g0 \o g0 \o f0 \o f0 \o g0 \o f0
                        \o f0 \o f0 \o g0 \o g0,
                    BarrierAll \o Touch \o p1 \o f1 \o f1 \o g1 \o g1 \o f1 \o f1 \o g1 \o f1
                        \o f1 \o f1 \o g1 \o g1)
    BY <2>8, <2>10
  <2>12. Fits(r, q, BarrierAll \o Touch \o p0 \o f0 \o f0 \o g0 \o g0 \o f0 \o f0 \o g0 \o f0
                        \o f0 \o f0 \o g0 \o g0 \o f0 \o f0 \o g0 \o f0,
                    BarrierAll \o Touch \o p1 \o f1 \o f1 \o g1 \o g1 \o f1 \o f1 \o g1 \o f1
                        \o f1 \o f1 \o g1 \o g1 \o f1 \o f1 \o g1 \o f1)
    BY <2>8, <2>11
  <2> QED BY <2>4, <2>5, <2>12, FitsOn
<1>4. CASE b # "osu_oshm_atomics"
  <2> DEFINE R(x, call) == RateBenchmark(x, 2, call)
  <2>1. \/ PgasProgram(b, r) = R(r, PutMem(c)) /\ PgasProgram(b, q) = R(q, PutMem(d))
        \/ PgasProgram(b, r) = R(r, PutMemNbi(c)) /\ PgasProgram(b, q) = R(q, PutMemNbi(d))
        \/ PgasProgram(b, r) = R(r, GetMemNbi(c)) /\ PgasProgram(b, q) = R(q, GetMemNbi(d))
    BY <1>1, <1>4 DEF OshmRate, PgasProgram, OshmPutMr, OshmPutMrNb, OshmGetMrNb
  <2>2. ASSUME NEW s, NEW t, Own(s), Own(t) PROVE Fits(r, q, R(r, s), R(q, t))
    BY <1>2, <2>2, RatesFit DEF RateBenchmark
  <2> HIDE DEF R, c, d
  <2> QED BY <1>2, <2>1, <2>2
<1> QED BY <1>3, <1>4

\* The loops of the collectives, which have no messages.
LEMMA IntervalsCommon ==
    ASSUME NEW ss, IsLoop(ss, Len(Iterations)), NEW call, \A k \in 1 .. Len(Iterations) : Common(call[k]),
           NEW start, Common(start), NEW after, Common(after),
           \A k \in 1 .. Len(Iterations) :
              ss[k] = start \o call[k] \o StopClock \o Given(Measured(Iterations[k]), Sample) \o after
    PROVE  Common(FlattenSeq(ss))
<1>1. Common(StopClock) /\ \A k \in 1 .. Len(Iterations) : Common(Given(Measured(Iterations[k]), Sample))
  BY OwnPieces, OwnOn, OwnIs
<1>2. \A k \in 1 .. Len(Iterations) : Common(ss[k])
  BY <1>1, CommonOn
<1>3. Len(Iterations) \in Nat
  BY IterationsAre, TurnsType
<1> QED BY <1>2, <1>3, CommonLoop

\* The iterations of a collective benchmark in OpenSHMEM.
LEMMA OshmIterationsCommon ==
    ASSUME NEW kind \in RootedKinds, NEW odd \in PSyncArrays, NEW even \in PSyncArrays,
           NEW between, Common(between)
    PROVE  Common(OshmIterations(kind, odd, even, between))
<1> DEFINE form(i) == InTurn(i, odd, even)
           c == [k \in 1 .. Len(Iterations) |-> OshmCall(kind, form(Iterations[k]))]
           ss == [k \in 1 .. Len(Iterations) |->
                     StartClock \o OshmCall(kind, form(Iterations[k])) \o StopClock
                       \o Given(Measured(Iterations[k]), Sample) \o between]
<1>1. OshmIterations(kind, odd, even, between) = FlattenSeq(ss)
  BY DEF OshmIterations, ForEach
<1>2. /\ IsLoop(ss, Len(Iterations)) /\ Common(StartClock)
      /\ \A k \in 1 .. Len(Iterations) :
            /\ c[k] = OshmCall(kind, form(Iterations[k]))
            /\ ss[k] = StartClock \o c[k] \o StopClock \o Given(Measured(Iterations[k]), Sample) \o between
  BY OwnPieces, OwnIs DEF IsLoop
<1>3. ASSUME NEW k \in 1 .. Len(Iterations) PROVE Common(c[k])
  <2>1. form(Iterations[k]) \in {"plain"} \cup PSyncArrays
    BY DEF InTurn
  <2> HIDE DEF form, c
  <2> QED BY <1>2, <2>1, FormsCommon, AudiencesAre DEF OshmCall
<1> HIDE DEF ss, c, form
<1> QED BY <1>1, <1>2, <1>3, IntervalsCommon

\* The iterations of a collective benchmark in UPC.
LEMMA UpcIterationsCommon ==
    ASSUME NEW before, Common(before)
    PROVE  Common(UpcIterations(before)) /\ Common(UpcSizes(before)) /\ Common(UpcStatistics)
           /\ Common(UpcCall)
<1> DEFINE c == [k \in 1 .. Len(Iterations) |-> UpcCall]
           ss == [k \in 1 .. Len(Iterations) |->
                     before \o StartClock \o UpcCall \o StopClock
                       \o Given(Measured(Iterations[k]), Sample) \o UpcBarrier]
           start == before \o StartClock
<1>1. UpcIterations(before) = FlattenSeq(ss)
  BY DEF UpcIterations, ForEach
<1>2. Common(start) /\ Common(UpcBarrier) /\ Common(UpcCall)
  <2>1. "all" \in RootedKinds /\ "plain" \in {"plain"} \cup PSyncArrays
    BY DEF RootedKinds
  <2>2. Common(UpcCall)
    BY <2>1, FormsCommon, AudiencesAre DEF UpcCall
  <2> QED BY <2>2, OwnPieces, OwnIs, CommonOn, SharedPieces
<1>3. /\ IsLoop(ss, Len(Iterations))
      /\ \A k \in 1 .. Len(Iterations) :
            /\ c[k] = UpcCall
            /\ ss[k] = start \o c[k] \o StopClock \o Given(Measured(Iterations[k]), Sample) \o UpcBarrier
  BY DEF IsLoop
<1> HIDE DEF ss, c, start
<1>4. Common(UpcIterations(before))
  BY <1>1, <1>2, <1>3, IntervalsCommon
<1>5. 3 \in Nat /\ Len(Sizes) \in Nat
  BY SizesAre
<1>6. Common(UpcStatistics)
  BY <1>2, <1>5, CommonOn DEF UpcStatistics
<1>7. Common(UpcSizes(before))
  BY <1>2, <1>4, <1>5, <1>6, CommonOn DEF UpcSizes
<1> QED BY <1>2, <1>4, <1>6, <1>7

\* A collective benchmark in UPC++.
LEMMA UpcxxCommon ==
    ASSUME NEW kind \in RootedKinds
    PROVE  Common(UpcxxProgram(kind))
<1> DEFINE c == [k \in 1 .. Len(Iterations) |-> UpcxxCall(kind)]
           ss == [k \in 1 .. Len(Iterations) |->
                     StartClock \o UpcxxCall(kind) \o StopClock
                       \o Given(Measured(Iterations[k]), Sample) \o Sync]
           loop == FlattenSeq(ss)
<1>1. UpcxxProgram(kind) = Sync \o Times(Len(Sizes), loop \o Sync \o UpcxxStatistics \o Sync)
  BY DEF UpcxxProgram, ForEach
<1>2. Common(UpcxxCall(kind)) /\ Common(UpcxxStatistics) /\ Common(StartClock) /\ Common(Sync)
  <2>1. "to_root" \in RootedKinds /\ "plain" \in {"plain"} \cup PSyncArrays
    BY DEF RootedKinds
  <2>2. Common(UpcxxCall(kind)) /\ Common(UpcxxCall("to_root"))
    BY <2>1, FormsCommon, AudiencesAre DEF UpcxxCall
  <2>3. 3 \in Nat
    OBVIOUS
  <2> QED BY <2>2, <2>3, OwnPieces, OwnIs, CommonOn, SharedPieces DEF UpcxxStatistics
<1>3. /\ IsLoop(ss, Len(Iterations))
      /\ \A k \in 1 .. Len(Iterations) :
            /\ c[k] = UpcxxCall(kind)
            /\ ss[k] = StartClock \o c[k] \o StopClock \o Given(Measured(Iterations[k]), Sample) \o Sync
  BY DEF IsLoop
<1> HIDE DEF ss, c
<1>4. Common(loop)
  BY <1>2, <1>3, IntervalsCommon
<1> HIDE DEF loop
<1>5. Common(loop \o Sync \o UpcxxStatistics \o Sync)
  BY <1>2, <1>4, CommonOn
<1> QED BY <1>1, <1>2, <1>5, SizesAre, CommonOn

\* The PGAS collectives do not look at the rank.
LEMMA PgasCollectivesCommon ==
    ASSUME NEW b \in PgasCollective
    PROVE  \A x : PgasProgram(b, x) = PgasProgram(b, 0) /\ Common(PgasProgram(b, 0))
<1>0. /\ Common(BarrierAll) /\ Common(UpcBarrier) /\ Common(<<>>) /\ Len(Sizes) \in Nat
      /\ {"all", "from_root", "to_root"} \subseteq RootedKinds
      /\ {"pSyncBarrier1", "pSyncBarrier2", "pSyncBcast1", "pSyncBcast2", "pSyncCollect1",
           "pSyncCollect2", "pSyncRed1", "pSyncRed2"} \subseteq PSyncArrays
  BY SharedPieces, SizesAre, OwnOn, OwnIs DEF RootedKinds, PSyncArrays
<1>1. CASE b \in OshmCollective
  <2> DEFINE barrier == OshmIterations("all", "pSyncBarrier1", "pSyncBarrier2", <<>>)
             broadcast == OshmIterations("from_root", "pSyncBcast1", "pSyncBcast2", BarrierAll)
             collect == OshmIterations("all", "pSyncCollect1", "pSyncCollect2", BarrierAll)
             reduce == OshmIterations("all", "pSyncRed1", "pSyncRed2", BarrierAll)
             P1 == barrier \o BarrierAll \o OshmStatistics
             P2 == Times(Len(Sizes), broadcast \o BarrierAll \o OshmStatistics)
             P3 == Times(Len(Sizes), BarrierAll \o collect \o BarrierAll \o OshmStatistics) \o BarrierAll
             P4 == Times(Len(Sizes), BarrierAll \o reduce \o OshmStatistics \o BarrierAll) \o BarrierAll
  <2>1. Common(barrier) /\ Common(broadcast) /\ Common(collect) /\ Common(reduce)
    BY <1>0, OshmIterationsCommon
  <2>2. Common(OshmStatistics)
    BY <1>0, ToAllCommon, CommonOn DEF OshmStatistics
  <2>3. \/ \A x : PgasProgram(b, x) = P1
        \/ \A x : PgasProgram(b, x) = P2
        \/ \A x : PgasProgram(b, x) = P3
        \/ \A x : PgasProgram(b, x) = P4
    BY <1>1 DEF OshmCollective, PgasProgram, OshmBarrier, OshmBroadcast, OshmCollect, OshmFcollect,
                OshmReduce
  <2>4. Common(P1) /\ Common(P2) /\ Common(P3) /\ Common(P4)
    <3> HIDE DEF barrier, broadcast, collect, reduce
    <3>1. /\ Common(broadcast \o BarrierAll \o OshmStatistics)
          /\ Common(BarrierAll \o collect \o BarrierAll \o OshmStatistics)
          /\ Common(BarrierAll \o reduce \o OshmStatistics \o BarrierAll)
      BY <1>0, <2>1, <2>2, CommonOn
    <3> QED BY <1>0, <2>1, <2>2, <3>1, CommonOn
  <2> HIDE DEF P1, P2, P3, P4
  <2> QED BY <2>3, <2>4
<1>2. CASE b \in UpcCollective
  <2> DEFINE plain == UpcSizes(<<>>)
             synced == UpcSizes(UpcBarrier)
             loop == InRepeatedIntervals(UpcCall)
             P1 == UpcBarrier \o loop \o UpcBarrier \o UpcStatistics \o UpcBarrier
             P2 == UpcBarrier \o plain \o UpcBarrier
             P3 == UpcBarrier \o plain
  <2>1. Common(plain) /\ Common(synced) /\ Common(UpcStatistics) /\ Common(UpcCall)
    BY <1>0, UpcIterationsCommon
  <2>2. Common(loop)
    BY <2>1, SharedLoops
  <2>3. \/ \A x : PgasProgram(b, x) = P1
        \/ \A x : PgasProgram(b, x) = P2
        \/ \A x : PgasProgram(b, x) = P3
        \/ \A x : PgasProgram(b, x) = plain
        \/ \A x : PgasProgram(b, x) = synced
    BY <1>2 DEF UpcCollective, PgasProgram, UpcAllBarrier, UpcAllBroadcast, UpcAllExchange, UpcAllGather,
                UpcAllGatherAll, UpcAllReduce, UpcAllScatter
  <2> HIDE DEF plain, synced, loop
  <2>4. Common(P1) /\ Common(P2) /\ Common(P3)
    BY <1>0, <2>1, <2>2, CommonOn
  <2> HIDE DEF P1, P2, P3
  <2> QED BY <2>1, <2>3, <2>4
<1>3. CASE b \in UpcxxCollective
  <2>1. \/ \A x : PgasProgram(b, x) = UpcxxProgram("all")
        \/ \A x : PgasProgram(b, x) = UpcxxProgram("from_root")
        \/ \A x : PgasProgram(b, x) = UpcxxProgram("to_root")
    BY <1>3 DEF UpcxxCollective, PgasProgram, UpcxxAllgather, UpcxxAlltoall, UpcxxBcast,
                UpcxxScatter, UpcxxGather, UpcxxReduce
  <2> QED BY <1>0, <2>1, UpcxxCommon
<1> QED BY <1>1, <1>2, <1>3 DEF PgasCollective

\* Only rank 0 of striding has a window to fill, and only the others read it.
LEMMA StridingFits ==
    ASSUME NEW r, NEW q, NEW n \in Nat
    PROVE  Fits(r, q, StridingProgram(r, n), StridingProgram(q, n))
<1> DEFINE ss == [k \in 1 .. Len(BlockSizes) |-> Section(BlockSizes[k], n)]
           reads == Times(NTimes, FlattenSeq(ss))
           fill(x) == Given(x = 0, Touch)
           read(x) == Given(x # 0, reads)
           open == OpenEpoch("lock")
           close == CloseEpoch("lock")
<1>1. \A x : StridingProgram(x, n) = Sync \o fill(x) \o Sync \o open \o read(x) \o close \o Sync
  BY DEF StridingProgram, ForEach
<1>2. Own(open) /\ Own(close) /\ Own(Touch) /\ Fits(r, q, Sync, Sync)
  BY OwnAccesses, OwnPieces, BarriersFit
<1>3. IsLoop(ss, Len(BlockSizes)) /\ Len(BlockSizes) \in Nat
      /\ \A k \in 1 .. Len(BlockSizes) : ss[k] = Section(BlockSizes[k], n)
  BY DEF IsLoop, BlockSizes
<1>4. ASSUME NEW k \in 1 .. Len(BlockSizes) PROVE Own(ss[k])
  <2> DEFINE get == Get(BlockSizes[k])
             yes == TRUE
  <2>1. {NumBlocks(BlockSizes[k]) * BlockSizes[k], EndOfType(BlockSizes[k])} \subseteq 0 .. WINDOW_SIZE
    BY StridesFit
  <2>2. get = RmaWithin(0, yes, yes) /\ yes \in BOOLEAN /\ 0 \in Nat
    BY <2>1 DEF Get
  <2>3. Section(BlockSizes[k], n) = StartClock \o Times(n, get) \o Flush("all") \o StopClock \o Sample
    BY DEF Section
  <2> HIDE DEF get, yes
  <2>4. Own(get)
    BY <2>2, OwnAccesses
  <2>5. Own(Times(n, get)) /\ Own(StartClock) /\ Own(Flush("all")) /\ Own(StopClock) /\ Own(Sample)
    BY <2>4, OwnOn, OwnPieces, OwnAccesses
  <2> HIDE DEF ss
  <2> QED BY <1>3, <2>3, <2>5, OwnOn
<1> HIDE DEF ss, open, close
<1>5. Own(reads)
  <2>1. Own(FlattenSeq(ss)) /\ NTimes \in Nat
    BY <1>3, <1>4, CommonLoop, NTimesAssumption
  <2> QED BY <2>1, OwnOn
<1> HIDE DEF reads
<1> DEFINE f0 == fill(r)
           f1 == fill(q)
           g0 == read(r)
           g1 == read(q)
<1>6. Own(f0) /\ Own(f1) /\ Own(g0) /\ Own(g1)
  BY <1>2, <1>5, OwnOn
<1>7. /\ StridingProgram(r, n) = Sync \o f0 \o Sync \o open \o g0 \o close \o Sync
      /\ StridingProgram(q, n) = Sync \o f1 \o Sync \o open \o g1 \o close \o Sync
  BY <1>1
<1> HIDE DEF f0, f1, g0, g1
<1>8. Fits(r, q, Sync \o f0 \o Sync, Sync \o f1 \o Sync)
  <2>1. Fits(r, q, Sync \o f0, Sync \o f1)
    BY <1>2, <1>6, OwnFits
  <2> QED BY <1>2, <2>1, FitsOn
<1>9. Fits(r, q, Sync \o f0 \o Sync \o open \o g0 \o close, Sync \o f1 \o Sync \o open \o g1 \o close)
  BY <1>2, <1>6, <1>8, OwnFits
<1> QED BY <1>2, <1>7, <1>9, FitsOn

\* The programs of any two ranks of a benchmark agree about collective
\* operations and about the messages between the two.
THEOREM ProgramsFit ==
    ASSUME NEW b \in Benchmarks, b # "osu_latency_mt", NEW o \in OptionsOf(b),
           NEW r \in Ranks[b], NEW q \in Ranks[b]
    PROVE  Fits(r, q, Scripts[b][o][r], Scripts[b][o][q])
<1>1. Scripts[b][o][r] = Program(b, r, o) /\ Scripts[b][o][q] = Program(b, q, o)
  BY ScriptsAre
<1>2. o.validate \in BOOLEAN /\ Head(Windows) \in Nat
  BY OptionsAre, WindowType
<1>3. CASE b \in CPt2pt
  <2>1. r \in CPt2ptRanks(b) /\ q \in CPt2ptRanks(b)
    BY <1>3, RanksAre
  <2>2. Program(b, r, o) = CPt2ptProgram(b, r, o.validate) /\ Program(b, q, o) = CPt2ptProgram(b, q, o.validate)
    BY <1>3, ProgramsAre
  <2> QED BY <1>1, <1>2, <1>3, <2>1, <2>2, CPt2ptFits
<1>4. CASE b \in OtherPt2ptBenchmarks
  <2>1. r \in 0 .. (IF b = "py_multi_lat" THEN 3 ELSE 1) /\ q \in 0 .. (IF b = "py_multi_lat" THEN 3 ELSE 1)
    BY <1>4, RanksAre DEF OtherPt2ptRank
  <2>2. /\ Program(b, r, o) = OtherPt2ptProgram(b, r, o.validate)
        /\ Program(b, q, o) = OtherPt2ptProgram(b, q, o.validate)
    BY <1>4, ProgramsAre
  <2> QED BY <1>1, <1>2, <1>4, <2>1, <2>2, OtherPt2ptFits
<1>5. CASE b \in CCollective
  <2>1. Program(b, r, o) = CCollectiveProgram(b, r, o) /\ Program(b, q, o) = CCollectiveProgram(b, q, o)
    BY <1>5, ProgramsAre
  <2> QED BY <1>1, <1>5, <2>1, CCollectiveFits
<1>6. CASE b \in OtherCollectiveBenchmarks
  <2>1. /\ Program(b, r, o) = OtherCollectiveProgram(b, r, o.validate)
        /\ Program(b, q, o) = OtherCollectiveProgram(b, q, o.validate)
    BY <1>6, ProgramsAre
  <2> QED BY <1>1, <1>6, <2>1, OtherCollectiveFits
<1>7. CASE b \in OneSidedBenchmarks
  <2>1. /\ Program(b, r, o) = OneSidedProgram(b, o.sync, r, Head(Windows), o.validate)
        /\ Program(b, q, o) = OneSidedProgram(b, o.sync, q, Head(Windows), o.validate)
    BY <1>7, ProgramsAre
  <2>2. r \in {0, 1} /\ q \in {0, 1} /\ o.sync \in ValidateSyncType(b)
    BY <1>7, RanksAre, OptionsAre
  <2> QED BY <1>1, <1>2, <1>7, <2>1, <2>2, OneSidedFits
<1>8. CASE b \in PgasBenchmarks
  <2>1. Program(b, r, o) = PgasProgram(b, r) /\ Program(b, q, o) = PgasProgram(b, q)
    BY <1>8, ProgramsAre
  <2>2. CASE b \in PgasPt2pt
    <3>1. r \in {0, 1} /\ q \in {0, 1}
      BY <2>2, RanksAre
    <3> QED BY <1>1, <2>1, <2>2, <3>1, OshmPt2ptFits, UpcPt2ptFits DEF PgasPt2pt
  <2>3. CASE b \in OshmRate
    <3>1. r \in 0 .. 3 /\ q \in 0 .. 3
      BY <2>3, RanksAre
    <3> QED BY <1>1, <2>1, <2>3, <3>1, OshmRateFits
  <2>4. CASE b \in PgasCollective
    <3>1. /\ PgasProgram(b, r) = PgasProgram(b, 0) /\ PgasProgram(b, q) = PgasProgram(b, 0)
          /\ Common(PgasProgram(b, 0))
      BY <2>4, PgasCollectivesCommon
    <3> QED BY <1>1, <2>1, <3>1, CommonFits
  <2> QED BY <1>8, <2>2, <2>3, <2>4 DEF PgasBenchmarks
<1>9. CASE b = "striding"
  <2>1. Program(b, r, o) = StridingProgram(r, Head(Windows)) /\ Program(b, q, o) = StridingProgram(q, Head(Windows))
    BY <1>9, ProgramsAre
  <2> QED BY <1>1, <1>2, <2>1, StridingFits
<1> QED BY <1>3, <1>4, <1>5, <1>6, <1>7, <1>8, <1>9, BenchmarkKinds

-----------------------------------------------------------------------------
(* How far the ranks are in what they have to agree on. *)
\* How many letters of a view are in the first m calls.
Heard(K, s, m) == Len(Seen(K, SubSeq(s, 1, m)))

\* One more call adds what is read of it, which is what the view has there.
LEMMA Hearing ==
    ASSUME NEW K \in Views, NEW s \in Seq(Calls), NEW m \in Nat, m < Len(s)
    PROVE  /\ Heard(K, s, m) \in Nat
           /\ Heard(K, s, m + 1) = Heard(K, s, m) + Len(K[s[m + 1]])
           /\ \A e : K[s[m + 1]] = <<e>> => Seen(K, s)[Heard(K, s, m) + 1] = e
<1> DEFINE u == SubSeq(s, 1, m)
           v == SubSeq(s, 1, m + 1)
           w == SubSeq(s, m + 2, Len(s))
           c == s[m + 1]
<1>1. u \in Seq(Calls) /\ v \in Seq(Calls) /\ w \in Seq(Calls) /\ c \in Calls
  BY SubSeqProperties
<1>2. v = Append(u, c)
  <2>1. 1 \in 1 .. Len(s) /\ m + 1 \in 1 .. Len(s) /\ (m + 1) - 1 = m
    OBVIOUS
  <2>2. v = SubSeq(s, 1, (m + 1) - 1) \o <<c>>
    BY <2>1, SubSeqRecursiveSecond
  <2>3. Append(u, c) = u \o <<c>>
    BY <1>1, AppendIsConcat
  <2> QED BY <2>1, <2>2, <2>3
<1>3. s = v \o w
  <2>1. SubSeq(s, 1, m + 1) \o SubSeq(s, (m + 1) + 1, Len(s)) = SubSeq(s, 1, Len(s))
    <3>1. 1 \in 1 .. Len(s) + 1 /\ m + 1 \in 1 - 1 .. Len(s) /\ Len(s) \in m + 1 .. Len(s)
      OBVIOUS
    <3> HIDE DEF u, v, w, c
    <3> QED BY <3>1, ConcatAdjacentSubSeq
  <2>2. SubSeq(s, 1, Len(s)) = s /\ (m + 1) + 1 = m + 2
    BY SubSeqFull
  <2> QED BY <2>1, <2>2
<1> DEFINE p == Seen(K, u)
           q == Seen(K, w)
           k == K[c]
<1>4. p \in Seq(Letters) /\ q \in Seq(Letters) /\ k \in Seq(Letters)
  BY <1>1, SeenType DEF Views
<1>5. Seen(K, v) = p \o k
  BY <1>1, <1>2, SeenAppend
<1>6. Seen(K, s) = (p \o k) \o q
  <2>1. Seen(K, v \o w) = Seen(K, v) \o Seen(K, w)
    BY <1>1, SeenOn
  <2> HIDE DEF u, v, w, c
  <2>2. Seen(K, s) = Seen(K, v) \o Seen(K, w)
    BY <1>3, <2>1, Zenon
  <2> QED BY <1>5, <2>2, Zenon
<1>7. Heard(K, s, m) = Len(p) /\ Heard(K, s, m + 1) = Len(p \o k)
  BY <1>5 DEF Heard
<1> HIDE DEF p, q, k, u, v, w, c
<1>8. Len(p \o k) = Len(p) + Len(k)
  BY <1>4
<1>9. ASSUME NEW e, k = <<e>> PROVE ((p \o k) \o q)[Len(p) + 1] = e
  <2>1. p \o k \in Seq(Letters) /\ Len(p \o k) = Len(p) + 1 /\ Len(p) \in Nat
    <3>1. p \o k \in Seq(Letters)
      BY <1>4, ConcatProperties
    <3>2. Len(k) = 1 /\ Len(p) \in Nat
      BY <1>4, <1>9
    <3> QED BY <1>8, <3>1, <3>2
  <2>2. (p \o k)[Len(p) + 1] = k[1]
    BY <1>4, <1>9
  <2>3. ((p \o k) \o q)[Len(p) + 1] = (p \o k)[Len(p) + 1]
    <3> DEFINE x == p \o k
    <3>1. x \in Seq(Letters) /\ Len(x) = Len(p) + 1 /\ Len(q) \in Nat
      BY <1>4, <2>1
    <3> HIDE DEF x
    <3>2. \A i \in 1 .. Len(x) + Len(q) : (x \o q)[i] = IF i <= Len(x) THEN x[i] ELSE q[i - Len(x)]
      BY <1>4, <3>1, ConcatProperties
    <3>3. Len(p) + 1 \in 1 .. Len(x) + Len(q) /\ Len(p) + 1 <= Len(x)
      BY <2>1, <3>1
    <3>4. (x \o q)[Len(p) + 1] = x[Len(p) + 1]
      BY <3>2, <3>3
    <3> QED BY <3>4 DEF x
  <2> QED BY <1>9, <2>2, <2>3
<1>11. Len(p) \in Nat /\ Len(p \o k) = Len(p) + Len(k) /\ \A e : k = <<e>> => Seen(K, s)[Len(p) + 1] = e
  <2>1. Len(p) \in Nat
    BY <1>4
  <2> QED BY <1>6, <1>8, <1>9, <2>1
<1>12. k = K[s[m + 1]]
  BY DEF k, c
<1> HIDE DEF k
<1> QED BY <1>7, <1>11, <1>12

\* Before the first call nothing has been heard.
LEMMA HeardNothing ==
    ASSUME NEW K, NEW s \in Seq(Calls) PROVE Heard(K, s, 0) = 0
<1>1. SubSeq(s, 1, 0) = <<>>
  BY SubSeqEmpty
<1>2. Seen(K, SubSeq(s, 1, 0)) = <<>>
  BY <1>1, SeenNothing, Zenon
<1> QED BY <1>2 DEF Heard

\* What rank r will read in its program, and how much of it in its first n[r]
\* calls.
Word(K, r)    == Seen(K, Scripts[bench][opt][r])
Told(n, K, r) == IF r \in Ranks[bench] THEN Heard(K, Scripts[bench][opt][r], n[r]) ELSE 0

\* Every actor has made its first n calls, or left out sizes because of errors.
Paced(n) ==
    /\ n \in [Ranks[bench] -> Nat]
    /\ \A a \in Actors[bench] :
          /\ n[a[1]] \in 0 .. Len(Script(a))
          /\ \/ n[a[1]] = pc[a] - 1
             \/ Astray(a) /\ errors[a] /\ Script(a)[Len(Script(a))].op = "report"

\* The operations of the list are those at the places after B of what all read,
\* entered by those who have read them.
Key(e) == <<e.kind, e.root, IF PSync(e.form) THEN e.form ELSE "none">>
InStep(n, L) ==
    \E B \in Nat : \A r \in Ranks[bench] :
        /\ Told(n, Agreed, r) \in B .. B + Len(L)
        /\ \A k \in DOMAIN L :
              /\ r \in DOMAIN L[k].in <=> B + k <= Told(n, Agreed, r)
              /\ Key(L[k]) = Word(Agreed, r)[B + k]

\* The messages q and receives p of a channel are those that only one side has
\* read: the first has read x letters of X, the second y letters of Y.
Balanced(x, y, X, Y, q, p) ==
    /\ x + Len(p) = y + Len(q)
    /\ \A k \in DOMAIN q : q[k].size = X[y + k]
    /\ \A k \in DOMAIN p : p[k].size = Y[x + k]
InPairs(n, c, q, p) ==
    Balanced(Told(n, To(c[2], c[3]), c[1]), Told(n, From(c[1], c[3]), c[2]),
             Word(To(c[2], c[3]), c[1]), Word(From(c[1], c[3]), c[2]), q, p)

Agreeing(n, L, q, p) ==
    /\ Paced(n) /\ InStep(n, L)
    /\ \A c \in Channels[bench] : InPairs(n, c, q[c], p[c])
Agreement ==
    bench # "osu_latency_mt" =>
        /\ wrong \cap {"size", "collective"} = {}
        /\ \E n : Agreeing(n, ledger, queue, posted)

\* The programs of two ranks say the same, each in its own words.
LEMMA SameWords ==
    ASSUME RunTyped, bench # "osu_latency_mt", NEW r \in Ranks[bench], NEW q \in Ranks[bench]
    PROVE  /\ Word(Agreed, r) = Word(Agreed, q)
           /\ \A tag \in Tags : Word(To(q, tag), r) = Word(From(r, tag), q)
<1>1. Fits(r, q, Scripts[bench][opt][r], Scripts[bench][opt][q])
  BY ProgramsFit DEF RunTyped
<1>2. ASSUME NEW K, NEW J, <<K, J>> \in Couples(r, q) PROVE Word(K, r) = Word(J, q)
  <2> DEFINE v == <<K, J>>
  <2>1. v[1] = K /\ v[2] = J /\ v \in Couples(r, q)
    BY <1>2
  <2> HIDE DEF v
  <2>2. Seen(v[1], Scripts[bench][opt][r]) = Seen(v[2], Scripts[bench][opt][q])
    BY <1>1, <2>1 DEF Fits
  <2> QED BY <2>1, <2>2, Zenon DEF Word
<1>3. /\ <<Agreed, Agreed>> \in Couples(r, q)
      /\ \A tag \in Tags : <<To(q, tag), From(r, tag)>> \in Couples(r, q)
  BY DEF Couples
<1> QED BY <1>2, <1>3

\* Every rank has a script.
LEMMA RankScript ==
    ASSUME RunTyped, NEW r \in Ranks[bench]
    PROVE  /\ Scripts[bench][opt][r] \in Seq(Calls)
           /\ \E a \in Actors[bench] : a[1] = r /\ Script(a) = Scripts[bench][opt][r]
<1>1. Scripts[bench][opt][r] \in Seq(Calls)
  BY CourseRuns DEF RunTyped
<1>2. Ranks[bench] = {a[1] : a \in Actors[bench]}
  BY Tables DEF Ranks, RunTyped
<1> QED BY <1>1, <1>2 DEF Script

\* How much has been read is a number.
LEMMA ToldType ==
    ASSUME RunTyped, NEW n, Paced(n), NEW K \in Views, NEW r
    PROVE  Told(n, K, r) \in Nat
<1>1. CASE r \in Ranks[bench]
  <2> DEFINE s == Scripts[bench][opt][r]
  <2>1. s \in Seq(Calls) /\ n[r] \in 0 .. Len(s)
    BY <1>1, RankScript DEF Paced
  <2> HIDE DEF s
  <2>2. SubSeq(s, 1, n[r]) \in Seq(Calls)
    <3>1. n[r] \in Int /\ 1 \in Int /\ \A i \in 1 .. n[r] : s[i] \in Calls
      BY <2>1
    <3> QED BY <3>1, SubSeqProperties
  <2>3. Seen(K, SubSeq(s, 1, n[r])) \in Seq(Letters)
    BY <2>2, SeenType
  <2>4. Len(Seen(K, SubSeq(s, 1, n[r]))) \in Nat
    BY <2>3
  <2> QED BY <1>1, <2>4 DEF Told, Heard, s
<1>2. CASE r \notin Ranks[bench]
  BY <1>2 DEF Told
<1> QED BY <1>1, <1>2

\* What the next call of an actor adds to what its rank has read.
Tells(n, m, a, K) ==
    /\ \A r : r # a[1] => Told(m, K, r) = Told(n, K, r)
    /\ Told(m, K, a[1]) = Told(n, K, a[1]) + Len(K[Now(a)])
    /\ \A e : K[Now(a)] = <<e>> => Word(K, a[1])[Told(n, K, a[1]) + 1] = e

\* A call tells what the view has next, whatever the actor knows.
LEMMA Telling ==
    ASSUME RunTyped, PlaceTyped, NEW a \in Actors[bench], NEW ops, At(a, ops),
           NEW n, Paced(n), n[a[1]] = pc[a] - 1,
           NEW m, m = [n EXCEPT ![a[1]] = pc[a]], NEW K \in Views
    PROVE  Tells(n, m, a, K)
<1> DEFINE q == a[1]
           s == Script(a)
           i == n[q]
<1>1. /\ q \in Ranks[bench] /\ pc[a] \in 1 .. Len(s) /\ s \in Seq(Calls) /\ Len(s) \in Nat
      /\ s = Scripts[bench][opt][q] /\ Now(a) = s[pc[a]]
  BY Doing DEF Script, Now
<1>2. n \in [Ranks[bench] -> Nat]
  BY DEF Paced
<1>3. \A r \in Ranks[bench] : r # q => m[r] = n[r]
  BY <1>2
<1>4. m[q] = pc[a] /\ i \in Nat /\ i < Len(s) /\ i + 1 = pc[a]
  BY <1>1, <1>2
<1> HIDE DEF q, s, i
<1>5. /\ Heard(K, s, i + 1) = Heard(K, s, i) + Len(K[s[i + 1]])
      /\ \A e : K[s[i + 1]] = <<e>> => Seen(K, s)[Heard(K, s, i) + 1] = e
  BY <1>1, <1>4, Hearing
<1>6. Told(n, K, q) = Heard(K, s, i) /\ Told(m, K, q) = Heard(K, s, i + 1) /\ Word(K, q) = Seen(K, s)
  BY <1>1, <1>4 DEF Told, Word, i
<1>7. \A r : r # q => Told(m, K, r) = Told(n, K, r)
  BY <1>3 DEF Told
<1>8. K[Now(a)] = K[s[i + 1]]
  BY <1>1, <1>4
<1>9. /\ Told(m, K, q) = Told(n, K, q) + Len(K[Now(a)])
      /\ \A e : K[Now(a)] = <<e>> => Word(K, q)[Told(n, K, q) + 1] = e
  BY <1>5, <1>6, <1>8
<1> QED BY <1>7, <1>9 DEF q, Tells

\* As long as the benchmark and its options are the same, so is what is read.
LEMMA SameReading ==
    ASSUME UNCHANGED run
    PROVE  \A n, K, r : Told(n, K, r)' = Told(n, K, r) /\ Word(K, r)' = Word(K, r)
BY DEF run, Told, Word
-----------------------------------------------------------------------------
(* The collective operations. *)
Disagreement == {"size", "collective"}

\* What else a collective call is criticised for.
LEMMA OtherObjections ==
    ASSUME RunTyped, PlaceTyped, NEW a \in Actors[bench], At(a, {"enter"})
    PROVE  Objection(Now(a), a[1]) \cap Disagreement = {}
<1> DEFINE op == Now(a)
           r == a[1]
<1>1. op \in Calls /\ op.op = "enter" /\ op.form \in Forms
  BY Doing, CallTypes
<1> HIDE DEF op, r
<1>2. Unless(op.kind = "fence" => access[r] \in {"closed", "fence"}) \subseteq {"epoch"}
  BY DEF Unless
<1>3. CASE op.form = "plain"
  <2>1. ~PSync(op.form) /\ op.form # "in_place" /\ op.form # "persistent"
    BY <1>3 DEF PSync
  <2>2. Objection(op, r) = Unless(op.kind = "fence" => access[r] \in {"closed", "fence"})
    BY <1>3, <2>1 DEF Objection
  <2> QED BY <1>2, <2>2 DEF Disagreement, op, r
<1>4. CASE PSync(op.form)
  <2>1. op.form # "plain" /\ op.form # "in_place" /\ op.form # "persistent"
    BY <1>4 DEF PSync
  <2>2. Objection(op, r) \subseteq {"psync"}
    BY <1>4, <2>1 DEF Objection
  <2> QED BY <2>2 DEF Disagreement, op, r
<1>5. CASE op.form = "in_place"
  <2>1. ~PSync(op.form) /\ op.form # "plain" /\ op.form # "persistent"
    BY <1>5 DEF PSync
  <2>2. Objection(op, r) \subseteq {"in_place"}
    BY <1>5, <2>1 DEF Objection
  <2> QED BY <2>2 DEF Disagreement, op, r
<1>6. CASE op.form = "persistent"
  <2>1. ~PSync(op.form) /\ op.form # "plain" /\ op.form # "in_place"
    BY <1>6 DEF PSync
  <2>2. Objection(op, r) \subseteq {"request", "in_place"}
    BY <1>6, <2>1 DEF Objection
  <2> QED BY <2>2 DEF Disagreement, op, r
<1> QED BY <1>3, <1>4, <1>5, <1>6 DEF PSync

\* Two operations on which the ranks agree.
LEMMA SameKey ==
    ASSUME NEW e, NEW op, op.form \in Forms, Key(e) = Key(op)
    PROVE  e.kind = op.kind /\ e.root = op.root /\ (PSync(op.form) => e.form = op.form)
<1>1. "none" \notin Forms
  BY DEF Forms, PSyncArrays
<1>2. /\ e.kind = op.kind /\ e.root = op.root
      /\ (IF PSync(e.form) THEN e.form ELSE "none") = (IF PSync(op.form) THEN op.form ELSE "none")
  BY DEF Key
<1> QED BY <1>1, <1>2

\* A rank that enters an operation enters the one it has read of.
LEMMA EntersInStep ==
    ASSUME RunTyped, PlaceTyped, DataTyped, RemoteTyped, LedgerTyped, bench # "osu_latency_mt",
           NEW a \in Actors[bench], EnterCollective(a), NEW n, Paced(n), n[a[1]] = pc[a] - 1,
           NEW m, m = [n EXCEPT ![a[1]] = pc[a]], InStep(n, ledger)
    PROVE  InStep(m, ledger') /\ wrong' \cap Disagreement = wrong \cap Disagreement
<1> DEFINE r == a[1]
           k == EntryOf(r)
           p == [stamp |-> buffer[a].stamp, errors |-> errors[a], age |-> age[r] + 1]
           op == Now(a)
           told(q) == Told(n, Agreed, q)
           now(q) == Told(m, Agreed, q)
           word(q) == Word(Agreed, q)
           len == Len(ledger)
           what == IF ledger[k].kind = op.kind /\ ledger[k].root = op.root
                        /\ (PSync(op.form) => ledger[k].form = op.form)
                     THEN {} ELSE {"collective"}
<1>1. /\ At(a, {"enter"})
      /\ k > len => ledger' = Append(ledger, Opened(op, r, p)) /\ wrong' = wrong \cup Objection(op, r)
      /\ ~(k > len) => /\ ledger' = Joined(ledger, k, r, p)
                       /\ wrong' = wrong \cup (Objection(op, r) \cup what)
  BY DEF EnterCollective, Opened, Joined, Complain
<1>2. r \in Ranks[bench] /\ op \in Calls /\ op.op = "enter" /\ op.form \in Forms
  BY <1>1, Doing, CallTypes
<1>3. p \in Parts
  <2>1. buffer[a].stamp \in Stamps /\ errors[a] \in BOOLEAN /\ age[r] + 1 \in Nat
    BY <1>2 DEF DataTyped, RemoteTyped
  <2> QED BY <2>1 DEF Parts
<1>4. Objection(op, r) \cap Disagreement = {}
  BY <1>1, OtherObjections
<1>5. Agreed[op] = <<Key(op)>>
  BY <1>2 DEF Agreed, Key
<1>6. /\ \A q : q # r => now(q) = told(q)
      /\ now(r) = told(r) + 1 /\ word(r)[told(r) + 1] = Key(op)
  <2>1. Len(Agreed[op]) = 1
    BY <1>5
  <2>2. Agreed \in Views
    BY AreViews
  <2>3. At(a, {"enter"})
    BY <1>1
  <2>4. Tells(n, m, a, Agreed)
    BY <2>2, <2>3, Telling
  <2>5. /\ \A q : q # a[1] => Told(m, Agreed, q) = Told(n, Agreed, q)
        /\ Told(m, Agreed, a[1]) = Told(n, Agreed, a[1]) + Len(Agreed[Now(a)])
        /\ \A e : Agreed[Now(a)] = <<e>> => Word(Agreed, a[1])[Told(n, Agreed, a[1]) + 1] = e
    BY <2>4 DEF Tells
  <2>6. Word(Agreed, a[1])[Told(n, Agreed, a[1]) + 1] = Key(op)
    BY <1>5, <2>5, Zenon
  <2>7. Told(m, Agreed, a[1]) = Told(n, Agreed, a[1]) + 1
    BY <2>1, <2>5, Zenon
  <2> QED BY <2>5, <2>6, <2>7, Zenon
<1>7. \A q \in Ranks[bench] : told(q) \in Nat /\ word(q) = word(r)
  <2>1. Agreed \in Views
    BY AreViews
  <2> QED BY <1>2, <2>1, ToldType, SameWords
<1>8. PICK B \in Nat : \A q \in Ranks[bench] :
        /\ told(q) \in B .. B + len
        /\ \A j \in DOMAIN ledger : /\ q \in DOMAIN ledger[j].in <=> B + j <= told(q)
                                    /\ Key(ledger[j]) = word(q)[B + j]
  BY DEF InStep
<1>9. /\ k \in 1 .. len + 1 /\ len \in Nat /\ DOMAIN ledger = 1 .. len /\ ledger \in Seq(Entries)
      /\ \A j \in 1 .. k - 1 : r \in DOMAIN ledger[j].in
      /\ k <= len => r \notin DOMAIN ledger[k].in
  <2>1. ledger \in Seq(Entries)
    BY DEF LedgerTyped, Ledgers
  <2> QED BY <2>1, NextEntry DEF LedgerTyped
<1> HIDE DEF r, k, p, op, told, now, word, len, what
<1>10. told(r) = B + k - 1
  <2>1. told(r) \in B .. B + len /\ told(r) \in Nat
    BY <1>2, <1>7, <1>8
  <2>2. k - 1 >= 1 => told(r) >= B + (k - 1)
    <3>1. k - 1 >= 1 => k - 1 \in 1 .. k - 1 /\ k - 1 \in DOMAIN ledger
      BY <1>9
    <3> QED BY <1>2, <1>8, <1>9, <2>1, <3>1
  <2>3. k <= len => ~(B + k <= told(r))
    <3>1. k <= len => k \in DOMAIN ledger
      BY <1>9
    <3> QED BY <1>2, <1>8, <1>9, <3>1
  <2> QED BY <1>9, <2>1, <2>2, <2>3
<1>11. now(r) = B + k /\ \A q \in Ranks[bench] : word(q)[B + k] = Key(op)
  <2>1. told(r) + 1 = B + k
    BY <1>9, <1>10
  <2> QED BY <1>6, <1>7, <2>1
<1> DEFINE M == ledger'
           Good == \A q \in Ranks[bench] :
                      /\ now(q) \in B .. B + Len(M)
                      /\ \A j \in DOMAIN M : /\ q \in DOMAIN M[j].in <=> B + j <= now(q)
                                             /\ Key(M[j]) = word(q)[B + j]
<1>12. ASSUME k > len PROVE Good /\ wrong' \cap Disagreement = wrong \cap Disagreement
  <2> DEFINE e == Opened(op, r, p)
  <2>1. DOMAIN e.in = {r} /\ e \in Entries
    BY <1>2, <1>3, OpenedFields
  <2>2. Key(e) = Key(op)
    BY DEF Opened, Key
  <2> HIDE DEF e
  <2>3. M = Append(ledger, e) /\ k = len + 1
    BY <1>1, <1>9, <1>12 DEF e
  <2>4. /\ Len(M) = len + 1 /\ DOMAIN M = 1 .. len + 1 /\ M[len + 1] = e
        /\ \A j \in 1 .. len : M[j] = ledger[j]
    BY <1>9, <2>1, <2>3 DEF len
  <2> HIDE DEF M
  <2>5. ASSUME NEW q \in Ranks[bench]
        PROVE  /\ now(q) \in B .. B + Len(M)
               /\ \A j \in DOMAIN M : /\ q \in DOMAIN M[j].in <=> B + j <= now(q)
                                      /\ Key(M[j]) = word(q)[B + j]
    <3>1. told(q) \in B .. B + len /\ (q # r => now(q) = told(q)) /\ (q = r => now(q) = B + len + 1)
      BY <1>6, <1>8, <1>9, <1>11, <2>3
    <3>2. now(q) \in B .. B + Len(M)
      BY <1>9, <2>4, <3>1
    <3>3. ASSUME NEW j \in 1 .. len
          PROVE  /\ q \in DOMAIN M[j].in <=> B + j <= now(q)
                 /\ Key(M[j]) = word(q)[B + j]
      <4>1. j \in DOMAIN ledger /\ M[j] = ledger[j]
        BY <1>9, <2>4
      <4>2. (q \in DOMAIN ledger[j].in <=> B + j <= told(q)) /\ Key(ledger[j]) = word(q)[B + j]
        BY <1>8, <4>1
      <4>3. q = r => q \in DOMAIN ledger[j].in
        BY <1>9, <2>3
      <4>4. q = r => B + j <= now(q)
        BY <1>9, <3>1
      <4> QED BY <3>1, <4>1, <4>2, <4>3, <4>4
    <3>4. q \in DOMAIN M[len + 1].in <=> B + (len + 1) <= now(q)
      <4>1. q \in DOMAIN M[len + 1].in <=> q = r
        BY <2>1, <2>4
      <4> QED BY <1>9, <3>1, <4>1
    <3>5. Key(M[len + 1]) = word(q)[B + (len + 1)]
      BY <1>11, <2>2, <2>3, <2>4
    <3>6. \A j \in DOMAIN M : j \in 1 .. len \/ j = len + 1
      BY <1>9, <2>4
    <3> QED BY <3>2, <3>3, <3>4, <3>5, <3>6
  <2>6. wrong' \cap Disagreement = wrong \cap Disagreement
    BY <1>1, <1>4, <1>12
  <2> QED BY <2>5, <2>6
<1>13. ASSUME ~(k > len) PROVE Good /\ wrong' \cap Disagreement = wrong \cap Disagreement
  <2> DEFINE e == Joining(ledger[k], r, p)
  <2>1. k \in DOMAIN ledger /\ ledger[k] \in Entries
    BY <1>9, <1>13
  <2>2. DOMAIN e.in = DOMAIN ledger[k].in \cup {r} /\ e \in Entries
    BY <1>2, <1>3, <2>1, JoiningFields
  <2>3. Key(e) = Key(ledger[k])
    BY <2>1 DEF Joining, Key, Entries
  <2>4. M = [ledger EXCEPT ![k] = e]
    BY <1>1, <1>13 DEF Joined, Joining
  <2> HIDE DEF e
  <2>5. /\ Len(M) = len /\ DOMAIN M = DOMAIN ledger /\ M[k] = e
        /\ \A j \in DOMAIN ledger : j # k => M[j] = ledger[j]
    <3>1. M \in Seq(Entries)
      BY <1>9, <2>1, <2>2, <2>4
    <3>2. DOMAIN M = 1 .. len
      BY <1>9, <2>4
    <3>3. Len(M) = len
      BY <1>9, <3>1, <3>2
    <3> QED BY <1>9, <2>1, <2>4, <3>3
  <2> HIDE DEF M
  <2>6. ASSUME NEW q \in Ranks[bench]
        PROVE  /\ now(q) \in B .. B + Len(M)
               /\ \A j \in DOMAIN M : /\ q \in DOMAIN M[j].in <=> B + j <= now(q)
                                      /\ Key(M[j]) = word(q)[B + j]
    <3>1. told(q) \in B .. B + len /\ (q # r => now(q) = told(q)) /\ (q = r => now(q) = B + k)
      BY <1>6, <1>8, <1>11
    <3>2. now(q) \in B .. B + Len(M)
      BY <1>9, <1>13, <2>5, <3>1
    <3>3. ASSUME NEW j \in DOMAIN M
          PROVE  /\ q \in DOMAIN M[j].in <=> B + j <= now(q)
                 /\ Key(M[j]) = word(q)[B + j]
      <4>1. j \in DOMAIN ledger /\ j \in 1 .. len
        BY <1>9, <2>5
      <4>2. (q \in DOMAIN ledger[j].in <=> B + j <= told(q)) /\ Key(ledger[j]) = word(q)[B + j]
        BY <1>8, <4>1
      <4>3. Key(M[j]) = Key(ledger[j])
        BY <2>3, <2>5, <4>1
      <4>4. q \in DOMAIN M[j].in <=> q \in DOMAIN ledger[j].in \/ (j = k /\ q = r)
        BY <2>2, <2>5, <4>1
      <4>5. q = r => told(q) = B + k - 1
        BY <1>10
      <4> QED BY <1>9, <3>1, <4>1, <4>2, <4>3, <4>4, <4>5
    <3> QED BY <3>2, <3>3
  <2>7. what = {}
    <3>1. Key(ledger[k]) = Key(op)
      BY <1>2, <1>8, <1>11, <2>1
    <3>2. /\ ledger[k].kind = op.kind /\ ledger[k].root = op.root
          /\ (PSync(op.form) => ledger[k].form = op.form)
      BY <1>2, <3>1, SameKey
    <3> QED BY <3>2 DEF what
  <2>8. wrong' \cap Disagreement = wrong \cap Disagreement
    BY <1>1, <1>4, <1>13, <2>7
  <2> QED BY <2>6, <2>8
<1>14. Good => InStep(m, M)
  BY DEF InStep, now, word
<1> QED BY <1>12, <1>13, <1>14

\* A rank that leaves an operation, the last one of all removes it.
LEMMA LeavesInStep ==
    ASSUME RunTyped, PlaceTyped, OnCourse, LedgerTyped, Inside, NEW a \in Actors[bench],
           LeaveCollective(a), NEW n, Paced(n), InStep(n, ledger)
    PROVE  InStep(n, ledger')
<1> DEFINE r == a[1]
           k == UnderWay(r)
           left == Parted(ledger, k, r)
           told(q) == Told(n, Agreed, q)
           word(q) == Word(Agreed, q)
           len == Len(ledger)
           Good(B, M) == \A q \in Ranks[bench] :
              /\ told(q) \in B .. B + Len(M)
              /\ \A j \in DOMAIN M : /\ q \in DOMAIN M[j].in <=> B + j <= told(q)
                                     /\ Key(M[j]) = word(q)[B + j]
<1>1. /\ At(a, {"leave"}) /\ Acts(a)
      /\ ledger' = IF left[1].out = Ranks[bench] THEN Tail(left) ELSE left
  BY DEF LeaveCollective, Acts, Parted
<1>2. r \in Ranks[bench] /\ Phase(a) = "in"
  BY <1>1, Doing, PhaseLeaves
<1>3. IsIn(ledger, r)
  <2> HIDE DEF r
  <2>1. a[1] = r
    BY DEF r
  <2> QED BY <1>2, <2>1 DEF Inside
<1>4. /\ k \in DOMAIN ledger /\ r \in DOMAIN ledger[k].in \ ledger[k].out
      /\ \A j \in DOMAIN ledger : r \in DOMAIN ledger[j].in \ ledger[j].out => j = k
  BY <1>3, EntryUnderWay DEF LedgerTyped
<1>5. ledger \in Seq(Entries) /\ DOMAIN ledger = 1 .. len /\ len \in Nat
  BY DEF LedgerTyped, Ledgers
<1> HIDE DEF k, left
<1>6. left \in Ledgers /\ Len(left) = len /\ len # 0
  <2> HIDE DEF r
  <2> QED BY <1>2, <1>4, Departs DEF LedgerTyped, left
<1> DEFINE e == Parting(ledger[k], r)
<1>7. e \in Entries /\ e.in = ledger[k].in
  BY <1>2, <1>4, <1>5, PartingFields
<1>8. Key(e) = Key(ledger[k])
  <2>1. ledger[k] \in Entries
    BY <1>4, <1>5
  <2> QED BY <2>1 DEF Parting, Key, Entries
<1>9. left = [ledger EXCEPT ![k] = e]
  BY DEF left, Parted, Parting
<1> HIDE DEF e, r
<1>10. DOMAIN left = DOMAIN ledger
       /\ \A j \in DOMAIN ledger : left[j].in = ledger[j].in /\ Key(left[j]) = Key(ledger[j])
  <2>1. DOMAIN left = DOMAIN ledger /\ left[k] = e
        /\ \A j \in DOMAIN ledger : j # k => left[j] = ledger[j]
    BY <1>4, <1>5, <1>9
  <2> QED BY <1>7, <1>8, <2>1
<1> HIDE DEF told, word
<1>11. PICK B \in Nat : Good(B, ledger)
  BY DEF InStep, told, word
<1>12. Good(B, left)
  BY <1>6, <1>10, <1>11
<1>13. CASE left[1].out # Ranks[bench]
  <2>1. ledger' = left
    BY <1>1, <1>13
  <2> HIDE DEF Good
  <2>2. \E C \in Nat : Good(C, ledger')
    BY <1>12, <2>1
  <2> QED BY <2>2 DEF InStep, Good, told, word
<1>14. CASE left[1].out = Ranks[bench]
  <2> DEFINE M == Tail(left)
             C == B + 1
  <2>1. ledger' = M
    BY <1>1, <1>14
  <2>2. /\ 1 \in DOMAIN left /\ left \in Seq(Entries) /\ left # <<>>
        /\ Ranks[bench] \subseteq DOMAIN left[1].in
    <3>1. 1 \in DOMAIN left /\ left \in Seq(Entries) /\ left # <<>>
      BY <1>5, <1>6, <1>10 DEF Ledgers
    <3> QED BY <1>6, <1>14, <3>1 DEF Ledgers, Entered
  <2>3. Len(M) = len - 1 /\ DOMAIN M = 1 .. len - 1 /\ \A j \in 1 .. len - 1 : M[j] = left[j + 1]
    <3>1. M \in Seq(Entries) /\ Len(M) = len - 1 /\ \A j \in 1 .. Len(M) : M[j] = left[j + 1]
      BY <1>6, <2>2, HeadTailProperties
    <3> HIDE DEF M
    <3> QED BY <3>1
  <2> HIDE DEF M
  <2>4. Good(C, M)
    <3> SUFFICES ASSUME NEW q \in Ranks[bench]
                 PROVE  /\ told(q) \in C .. C + Len(M)
                        /\ \A j \in DOMAIN M : /\ q \in DOMAIN M[j].in <=> C + j <= told(q)
                                               /\ Key(M[j]) = word(q)[C + j]
      OBVIOUS
    <3>1. /\ told(q) \in B .. B + len
          /\ \A j \in 1 .. len : /\ q \in DOMAIN left[j].in <=> B + j <= told(q)
                                 /\ Key(left[j]) = word(q)[B + j]
      BY <1>5, <1>6, <1>10, <1>12
    <3>2. B + 1 <= told(q)
      BY <1>5, <1>10, <2>2, <3>1
    <3>3. ASSUME NEW j \in 1 .. len - 1
          PROVE  /\ q \in DOMAIN M[j].in <=> C + j <= told(q)
                 /\ Key(M[j]) = word(q)[C + j]
      <4>1. j + 1 \in 1 .. len /\ B + (j + 1) = C + j /\ M[j] = left[j + 1]
        BY <1>5, <2>3
      <4>2. /\ q \in DOMAIN left[j + 1].in <=> B + (j + 1) <= told(q)
            /\ Key(left[j + 1]) = word(q)[B + (j + 1)]
        BY <3>1, <4>1
      <4> QED BY <4>1, <4>2
    <3>4. told(q) \in C .. C + Len(M)
      BY <1>5, <1>6, <2>3, <3>1, <3>2
    <3> QED BY <2>3, <3>3, <3>4
  <2>5. C \in Nat
    OBVIOUS
  <2> HIDE DEF Good, C
  <2>6. \E c \in Nat : Good(c, ledger')
    BY <2>1, <2>4, <2>5
  <2> QED BY <2>6 DEF InStep, Good, told, word
<1> QED BY <1>13, <1>14

\* Who has read no more is in step as before.
LEMMA StaysInStep ==
    ASSUME NEW n, NEW m, NEW L, InStep(n, L),
           \A r \in Ranks[bench] : Told(m, Agreed, r) = Told(n, Agreed, r)
    PROVE  InStep(m, L)
BY DEF InStep
-----------------------------------------------------------------------------
(* The messages. *)
\* Messages and receives, seen from the other side.
LEMMA BalancedBack ==
    ASSUME NEW x \in Nat, NEW y \in Nat, NEW X, NEW Y, NEW S, NEW T, NEW q \in Seq(S), NEW p \in Seq(T)
    PROVE  Balanced(x, y, X, Y, q, p) <=> Balanced(y, x, Y, X, p, q)
<1>1. Len(p) \in Nat /\ Len(q) \in Nat
  OBVIOUS
<1> QED BY <1>1 DEF Balanced

\* A message finds the receive of its size.
LEMMA Matched ==
    ASSUME NEW x \in Nat, NEW y \in Nat, NEW X, NEW S, NEW p \in Seq(S), p # <<>>,
           Balanced(x, y, X, X, <<>>, p)
    PROVE  Balanced(x + 1, y, X, X, <<>>, Tail(p)) /\ Head(p).size = X[x + 1]
<1>1. /\ x + Len(p) = y + 0 /\ \A k \in 1 .. Len(p) : p[k].size = X[x + k]
      /\ Len(p) \in Nat \ {0} /\ Head(p) = p[1] /\ 1 \in 1 .. Len(p)
  BY DEF Balanced
<1> DEFINE t == Tail(p)
<1>2. t \in Seq(S) /\ Len(t) = Len(p) - 1 /\ \A k \in 1 .. Len(t) : t[k] = p[k + 1]
  BY HeadTailProperties
<1> HIDE DEF t
<1> DEFINE l == Len(p)
           o == Len(t)
<1>6. l \in Nat \ {0} /\ o = l - 1 /\ x + l = y /\ DOMAIN t = 1 .. o
  BY <1>1, <1>2
<1> HIDE DEF l, o
<1>7. (x + 1) + o = y + 0 /\ Len(<<>>) = 0
  BY <1>6
<1>3. (x + 1) + Len(t) = y + Len(<<>>)
  BY <1>7 DEF o
<1>4. ASSUME NEW k \in DOMAIN t PROVE t[k].size = X[(x + 1) + k]
  <2>0. k \in 1 .. o /\ k + 1 \in 1 .. l /\ x + (k + 1) = (x + 1) + k
    BY <1>6
  <2>1. k \in 1 .. Len(t) /\ k + 1 \in 1 .. Len(p) /\ x + (k + 1) = (x + 1) + k
    BY <2>0 DEF o, l
  <2> QED BY <1>1, <1>2, <2>1
<1>5. Head(p).size = X[x + 1]
  BY <1>1
<1> QED BY <1>3, <1>4, <1>5 DEF Balanced, t

\* A message waits for its receive.
LEMMA Unmatched ==
    ASSUME NEW x \in Nat, NEW y \in Nat, NEW X, NEW Y, NEW S, NEW q \in Seq(S),
           NEW e \in S, e.size = X[x + 1], Balanced(x, y, X, Y, q, <<>>)
    PROVE  Balanced(x + 1, y, X, Y, Append(q, e), <<>>)
<1>1. x + 0 = y + Len(q) /\ (\A k \in 1 .. Len(q) : q[k].size = X[y + k]) /\ Len(q) \in Nat
  BY DEF Balanced
<1> DEFINE t == Append(q, e)
<1>2. /\ t \in Seq(S) /\ Len(t) = Len(q) + 1 /\ t[Len(q) + 1] = e
      /\ \A k \in 1 .. Len(q) : t[k] = q[k]
  BY AppendProperties
<1> HIDE DEF t
<1>3. (x + 1) + Len(<<>>) = y + Len(t)
  BY <1>1, <1>2
<1>4. ASSUME NEW k \in DOMAIN t PROVE t[k].size = X[y + k]
  <2>1. k \in 1 .. Len(q) \/ (k = Len(q) + 1 /\ y + k = x + 1)
    BY <1>1, <1>2
  <2> QED BY <1>1, <1>2, <2>1
<1> QED BY <1>3, <1>4 DEF Balanced, t

\* What a send and a receive say to whom.
LEMMA MessageViews ==
    ASSUME NEW c \in Calls, NEW q, NEW tag
    PROVE  /\ c.op = "isend" =>
                /\ From(q, tag)[c] = <<>>
                /\ To(q, tag)[c] = IF c.peer = q /\ c.tag = tag THEN <<c.size>> ELSE <<>>
           /\ c.op = "irecv" =>
                /\ To(q, tag)[c] = <<>>
                /\ From(q, tag)[c] = IF c.peer = q /\ c.tag = tag THEN <<c.size>> ELSE <<>>
           /\ c.op \notin {"isend", "irecv"} => From(q, tag)[c] = <<>> /\ To(q, tag)[c] = <<>>
BY DEF To, From

\* Nothing is added by a call that says nothing.
LEMMA NothingTold ==
    ASSUME NEW n, NEW m, NEW a, NEW K, Tells(n, m, a, K), K[Now(a)] = <<>>,
           Told(n, K, a[1]) \in Nat
    PROVE  \A r : Told(m, K, r) = Told(n, K, r)
<1>1. Len(K[Now(a)]) = 0
  OBVIOUS
<1> QED BY <1>1 DEF Tells

\* A channel is served from one rank to another with one tag.
LEMMA ChannelType ==
    ASSUME RunTyped, NEW c \in Channels[bench]
    PROVE  c = <<c[1], c[2], c[3]>>
<1> DEFINE all(b) == UNION {UNION {ChannelsOf(Scripts[b][o][r], r) : o \in OptionsOf(b)} : r \in Ranks[b]}
           F == [b \in Benchmarks |-> all(b)]
<1>1. Channels = Table(F)
  BY DEF Channels
<1>2. F[bench] = all(bench)
  BY DEF RunTyped
<1>3. c \in all(bench)
  <2> HIDE DEF F, all
  <2> QED BY <1>1, <1>2, Tables
<1>4. PICK r \in Ranks[bench] : c \in UNION {ChannelsOf(Scripts[bench][o][r], r) : o \in OptionsOf(bench)}
  BY <1>3
<1>5. PICK o \in OptionsOf(bench) : c \in ChannelsOf(Scripts[bench][o][r], r)
  BY <1>4
<1> HIDE DEF F, all
<1>6. \E i, j, k : c = <<i, j, k>>
  BY <1>5 DEF ChannelsOf
<1> QED BY <1>6

\* A send is balanced by the receive it finds, or waits for.
LEMMA SendsPaired ==
    ASSUME RunTyped, PlaceTyped, MessagesTyped, DataTyped, bench # "osu_latency_mt",
           NEW a \in Actors[bench], PostSend(a), NEW n, Paced(n), n[a[1]] = pc[a] - 1,
           NEW m, m = [n EXCEPT ![a[1]] = pc[a]],
           \A c \in Channels[bench] : InPairs(n, c, queue[c], posted[c])
    PROVE  /\ \A c \in Channels[bench] : InPairs(m, c, queue'[c], posted'[c])
           /\ wrong' \cap Disagreement = wrong \cap Disagreement
<1> DEFINE op == Now(a)
           r == a[1]
           d == op.peer
           c == <<r, d, op.tag>>
           X == To(d, op.tag)
           Y == From(r, op.tag)
           x == Told(n, X, r)
           y == Told(n, Y, d)
           e == [by |-> a, size |-> op.size, stamp |-> buffer[a].stamp]
           D == Channels[bench]
<1>1. At(a, {"isend"})
  BY DEF PostSend
<1>2. c \in D /\ op \in Calls /\ op.op = "isend" /\ op.size \in Nat /\ op.tag \in Tags /\ r \in Ranks[bench]
  BY <1>1, ChannelUsed, Doing, CallTypes
<1>3. e \in Sent /\ e.size = op.size
  <2>1. buffer[a].stamp \in Stamps
    BY DEF DataTyped
  <2> HIDE DEF op
  <2> QED BY <1>2, <2>1 DEF Sent
<1>4. queue \in [D -> Seq(Sent)] /\ posted \in [D -> Seq(Awaited)] /\ (queue[c] = <<>> \/ posted[c] = <<>>)
  BY <1>2 DEF MessagesTyped
<1>5. /\ posted[c] # <<>> =>
            /\ posted' = Take(posted, c) /\ queue' = queue
            /\ wrong' = wrong \cup (IF Head(posted[c]).size # op.size THEN {"size"} ELSE {})
      /\ posted[c] = <<>> => queue' = Put(queue, c, e) /\ posted' = posted /\ wrong' = wrong
  BY DEF PostSend, Take, Put, Complain
<1>6. \A K \in Views : Tells(n, m, a, K) /\ \A q : Told(n, K, q) \in Nat
  <2>1. ASSUME NEW K \in Views PROVE Tells(n, m, a, K)
    BY <1>1, Telling
  <2> QED BY <2>1, ToldType
<1>7. X \in Views /\ Y \in Views /\ x \in Nat /\ y \in Nat
  BY <1>6, AreViews
<1>8. /\ X[op] = <<op.size>>
      /\ \A q, tag : /\ From(q, tag)[op] = <<>>
                      /\ To(q, tag)[op] = IF op.peer = q /\ op.tag = tag THEN <<op.size>> ELSE <<>>
  <2>1. op \in Calls /\ op.op = "isend"
    BY <1>2
  <2> HIDE DEF op
  <2> QED BY <2>1, MessageViews
<1>9. Told(m, X, r) = x + 1 /\ Word(X, r)[x + 1] = op.size
  <2>1. Tells(n, m, a, X) /\ Len(X[op]) = 1
    BY <1>6, <1>7, <1>8
  <2> HIDE DEF X
  <2> QED BY <1>8, <2>1, Zenon DEF Tells
<1> DEFINE Same(K) == \A b : Told(m, K, b) = Told(n, K, b)
<1>10. ASSUME NEW K \in Views, K[op] = <<>> PROVE Same(K)
  <2>1. Tells(n, m, a, K) /\ Told(n, K, a[1]) \in Nat /\ K[Now(a)] = <<>>
    BY <1>6, <1>10
  <2>2. \A b : Told(m, K, b) = Told(n, K, b)
    BY <2>1, NothingTold
  <2> QED BY <2>2
<1>11. Balanced(x, y, Word(X, r), Word(Y, d), queue[c], posted[c])
  <2>1. c[1] = r /\ c[2] = d /\ c[3] = op.tag /\ InPairs(n, c, queue[c], posted[c])
    BY <1>2
  <2> HIDE DEF c, r, d, op
  <2> QED BY <2>1 DEF InPairs
<1>12. InPairs(m, c, queue'[c], posted'[c]) <=>
         Balanced(x + 1, y, Word(X, r), Word(Y, d), queue'[c], posted'[c])
  <2>1. c[1] = r /\ c[2] = d /\ c[3] = op.tag
    OBVIOUS
  <2>2. Told(m, Y, d) = y
    <3>1. Y \in Views /\ Y[op] = <<>>
      BY <1>7, <1>8
    <3>2. Same(Y)
      BY <1>10, <3>1
    <3> HIDE DEF Y, d
    <3> QED BY <3>2 DEF y
  <2> HIDE DEF c, r, d, op
  <2> QED BY <1>9, <2>1, <2>2 DEF InPairs
<1>13. ASSUME NEW g \in D, g # c, queue'[g] = queue[g], posted'[g] = posted[g]
       PROVE  InPairs(m, g, queue'[g], posted'[g])
  <2> DEFINE K == To(g[2], g[3])
  <2>1. g = <<g[1], g[2], g[3]>>
    BY ChannelType
  <2>2. Told(m, K, g[1]) = Told(n, K, g[1])
    <3>1. K \in Views
      BY AreViews
    <3>2. Tells(n, m, a, K) /\ Told(n, K, a[1]) \in Nat
      BY <1>6, <3>1
    <3>3. CASE g[1] # r
      BY <3>2, <3>3 DEF Tells
    <3>4. CASE g[1] = r
      <4>1. K[op] = <<>>
        <5>1. ~(op.peer = g[2] /\ op.tag = g[3])
          BY <1>13, <2>1, <3>4
        <5> HIDE DEF op
        <5> QED BY <1>8, <5>1
      <4> HIDE DEF K
      <4>2. Same(K)
        BY <1>10, <3>1, <4>1
      <4> QED BY <4>2
    <3> QED BY <3>3, <3>4
  <2>3. Told(m, From(g[1], g[3]), g[2]) = Told(n, From(g[1], g[3]), g[2])
    <3> DEFINE J == From(g[1], g[3])
    <3>1. J \in Views /\ J[op] = <<>>
      BY <1>8, AreViews
    <3>2. Same(J)
      BY <1>10, <3>1
    <3> HIDE DEF J
    <3>3. Told(m, J, g[2]) = Told(n, J, g[2])
      BY <3>2
    <3> QED BY <3>3 DEF J
  <2>4. InPairs(n, g, queue[g], posted[g])
    BY <1>13
  <2> QED BY <1>13, <2>2, <2>3, <2>4 DEF InPairs
<1> DEFINE Result == /\ \A g \in D : InPairs(m, g, queue'[g], posted'[g])
                     /\ wrong' \cap Disagreement = wrong \cap Disagreement
<1> HIDE DEF op, r, d, c, X, Y, x, y, e, D
<1>14. ASSUME posted[c] # <<>> PROVE Result
  <2>1. queue[c] = <<>> /\ posted' = Take(posted, c) /\ queue' = queue
    BY <1>4, <1>5, <1>14
  <2>2. posted'[c] = Tail(posted[c]) /\ \A g \in D : g # c => posted'[g] = posted[g]
    BY <1>2, <1>4, <2>1 DEF Take
  <2>3. posted[c] \in Seq(Awaited)
    BY <1>2, <1>4
  <2>4. d \in Ranks[bench]
    <3>1. d \notin Ranks[bench] => y = 0
      BY DEF Told, y
    <3>2. x + Len(posted[c]) = y + Len(queue[c]) /\ Len(queue[c]) = 0
      BY <1>11, <2>1 DEF Balanced
    <3>3. Len(posted[c]) \in Nat \ {0}
      BY <1>14, <2>3
    <3> QED BY <1>7, <3>1, <3>2, <3>3
  <2>5. Word(X, r) = Word(Y, d)
    <3>1. \A tag \in Tags : Word(To(d, tag), r) = Word(From(r, tag), d)
      BY <1>2, <2>4, SameWords
    <3> QED BY <1>2, <3>1 DEF X, Y
  <2> DEFINE W == Word(X, r)
             p == posted[c]
  <2>6. Balanced(x, y, W, W, <<>>, p) /\ p \in Seq(Awaited) /\ p # <<>>
    BY <1>11, <1>14, <2>1, <2>3, <2>5
  <2> HIDE DEF W, p
  <2>7. Balanced(x + 1, y, W, W, <<>>, Tail(p)) /\ Head(p).size = W[x + 1]
    BY <1>7, <2>6, Matched
  <2>8. InPairs(m, c, queue'[c], posted'[c])
    BY <1>12, <2>1, <2>2, <2>5, <2>7 DEF W, p
  <2>9. Head(posted[c]).size = op.size
    BY <1>9, <2>7 DEF W, p
  <2>10. wrong' = wrong
    BY <1>5, <1>14, <2>9
  <2> QED BY <1>13, <2>1, <2>2, <2>8, <2>10
<1>15. ASSUME posted[c] = <<>> PROVE Result
  <2>1. queue' = Put(queue, c, e) /\ posted' = posted /\ wrong' = wrong
    BY <1>5, <1>15
  <2>2. queue'[c] = Append(queue[c], e) /\ \A g \in D : g # c => queue'[g] = queue[g]
    BY <1>2, <1>4, <2>1 DEF Put
  <2> DEFINE W == Word(X, r)
             V == Word(Y, d)
             q == queue[c]
  <2>3. Balanced(x, y, W, V, q, <<>>) /\ q \in Seq(Sent) /\ e.size = W[x + 1]
    BY <1>2, <1>3, <1>4, <1>9, <1>11, <1>15
  <2> HIDE DEF W, V, q
  <2>4. Balanced(x + 1, y, W, V, Append(q, e), <<>>)
    BY <1>3, <1>7, <2>3, Unmatched
  <2>5. InPairs(m, c, queue'[c], posted'[c])
    BY <1>12, <1>15, <2>1, <2>2, <2>4 DEF W, V, q
  <2> QED BY <1>13, <2>1, <2>2, <2>5
<1> QED BY <1>14, <1>15 DEF D

\* So is a receive, by the message.
LEMMA ReceivesPaired ==
    ASSUME RunTyped, PlaceTyped, MessagesTyped, bench # "osu_latency_mt",
           NEW a \in Actors[bench], PostReceive(a), NEW n, Paced(n), n[a[1]] = pc[a] - 1,
           NEW m, m = [n EXCEPT ![a[1]] = pc[a]],
           \A c \in Channels[bench] : InPairs(n, c, queue[c], posted[c])
    PROVE  /\ \A c \in Channels[bench] : InPairs(m, c, queue'[c], posted'[c])
           /\ wrong' \cap Disagreement = wrong \cap Disagreement
<1> DEFINE op == Now(a)
           r == a[1]
           d == op.peer
           c == <<d, r, op.tag>>
           X == To(r, op.tag)
           Y == From(d, op.tag)
           x == Told(n, X, d)
           y == Told(n, Y, r)
           e == [by |-> a, size |-> op.size]
           D == Channels[bench]
<1>1. At(a, {"irecv"})
  BY DEF PostReceive
<1>2. c \in D /\ op \in Calls /\ op.op = "irecv" /\ op.size \in Nat /\ op.tag \in Tags /\ r \in Ranks[bench]
  BY <1>1, ChannelUsed, Doing, CallTypes
<1>3. e \in Awaited /\ e.size = op.size
  <2> HIDE DEF op
  <2> QED BY <1>2 DEF Awaited
<1>4. queue \in [D -> Seq(Sent)] /\ posted \in [D -> Seq(Awaited)] /\ (queue[c] = <<>> \/ posted[c] = <<>>)
  BY <1>2 DEF MessagesTyped
<1>5. /\ queue[c] # <<>> =>
            /\ queue' = Take(queue, c) /\ posted' = posted
            /\ wrong' = wrong \cup (IF Head(queue[c]).size # op.size THEN {"size"} ELSE {})
      /\ queue[c] = <<>> => posted' = Put(posted, c, e) /\ queue' = queue /\ wrong' = wrong
  BY DEF PostReceive, Take, Put, Complain
<1>6. \A K \in Views : Tells(n, m, a, K) /\ \A q : Told(n, K, q) \in Nat
  <2>1. ASSUME NEW K \in Views PROVE Tells(n, m, a, K)
    BY <1>1, Telling
  <2> QED BY <2>1, ToldType
<1>7. X \in Views /\ Y \in Views /\ x \in Nat /\ y \in Nat
  BY <1>6, AreViews
<1>8. /\ Y[op] = <<op.size>>
      /\ \A q, tag : /\ To(q, tag)[op] = <<>>
                      /\ From(q, tag)[op] = IF op.peer = q /\ op.tag = tag THEN <<op.size>> ELSE <<>>
  <2>1. op \in Calls /\ op.op = "irecv"
    BY <1>2
  <2> HIDE DEF op
  <2> QED BY <2>1, MessageViews
<1>9. Told(m, Y, r) = y + 1 /\ Word(Y, r)[y + 1] = op.size
  <2>1. Tells(n, m, a, Y) /\ Len(Y[op]) = 1
    BY <1>6, <1>7, <1>8
  <2> HIDE DEF Y
  <2> QED BY <1>8, <2>1, Zenon DEF Tells
<1> DEFINE Same(K) == \A b : Told(m, K, b) = Told(n, K, b)
<1>10. ASSUME NEW K \in Views, K[op] = <<>> PROVE Same(K)
  <2>1. Tells(n, m, a, K) /\ Told(n, K, a[1]) \in Nat /\ K[Now(a)] = <<>>
    BY <1>6, <1>10
  <2>2. \A b : Told(m, K, b) = Told(n, K, b)
    BY <2>1, NothingTold
  <2> QED BY <2>2
<1>11. Balanced(x, y, Word(X, d), Word(Y, r), queue[c], posted[c])
  <2>1. c[1] = d /\ c[2] = r /\ c[3] = op.tag /\ InPairs(n, c, queue[c], posted[c])
    BY <1>2
  <2> HIDE DEF c, r, d, op
  <2> QED BY <2>1 DEF InPairs
<1>12. InPairs(m, c, queue'[c], posted'[c]) <=>
         Balanced(x, y + 1, Word(X, d), Word(Y, r), queue'[c], posted'[c])
  <2>1. c[1] = d /\ c[2] = r /\ c[3] = op.tag
    OBVIOUS
  <2>2. Told(m, X, d) = x
    <3>1. X \in Views /\ X[op] = <<>>
      BY <1>7, <1>8
    <3>2. Same(X)
      BY <1>10, <3>1
    <3> HIDE DEF X, d
    <3> QED BY <3>2 DEF x
  <2> HIDE DEF c, r, d, op
  <2> QED BY <1>9, <2>1, <2>2 DEF InPairs
<1>13. ASSUME NEW g \in D, g # c, queue'[g] = queue[g], posted'[g] = posted[g]
       PROVE  InPairs(m, g, queue'[g], posted'[g])
  <2> DEFINE K == From(g[1], g[3])
             J == To(g[2], g[3])
  <2>1. g = <<g[1], g[2], g[3]>>
    BY ChannelType
  <2>2. Told(m, K, g[2]) = Told(n, K, g[2])
    <3>1. K \in Views
      BY AreViews
    <3>2. Tells(n, m, a, K)
      BY <1>6, <3>1
    <3>3. CASE g[2] # r
      BY <3>2, <3>3 DEF Tells
    <3>4. CASE g[2] = r
      <4>1. K[op] = <<>>
        <5>1. ~(op.peer = g[1] /\ op.tag = g[3])
          BY <1>13, <2>1, <3>4
        <5> HIDE DEF op
        <5> QED BY <1>8, <5>1
      <4> HIDE DEF K
      <4>2. Same(K)
        BY <1>10, <3>1, <4>1
      <4> QED BY <4>2
    <3> QED BY <3>3, <3>4
  <2>3. Told(m, J, g[1]) = Told(n, J, g[1])
    <3>1. J \in Views /\ J[op] = <<>>
      BY <1>8, AreViews
    <3>2. Same(J)
      BY <1>10, <3>1
    <3> HIDE DEF J
    <3> QED BY <3>2
  <2>4. InPairs(n, g, queue[g], posted[g])
    BY <1>13
  <2> QED BY <1>13, <2>2, <2>3, <2>4 DEF InPairs
<1> DEFINE Result == /\ \A g \in D : InPairs(m, g, queue'[g], posted'[g])
                     /\ wrong' \cap Disagreement = wrong \cap Disagreement
<1> HIDE DEF op, r, d, c, X, Y, x, y, e, D
<1>14. ASSUME queue[c] # <<>> PROVE Result
  <2>1. posted[c] = <<>> /\ queue' = Take(queue, c) /\ posted' = posted
    BY <1>4, <1>5, <1>14
  <2>2. queue'[c] = Tail(queue[c]) /\ \A g \in D : g # c => queue'[g] = queue[g]
    BY <1>2, <1>4, <2>1 DEF Take
  <2>3. queue[c] \in Seq(Sent)
    BY <1>2, <1>4
  <2>4. d \in Ranks[bench]
    <3>1. d \notin Ranks[bench] => x = 0
      BY DEF Told, x
    <3>2. x + Len(posted[c]) = y + Len(queue[c]) /\ Len(posted[c]) = 0
      BY <1>11, <2>1 DEF Balanced
    <3>3. Len(queue[c]) \in Nat \ {0}
      BY <1>14, <2>3
    <3> QED BY <1>7, <3>1, <3>2, <3>3
  <2>5. Word(X, d) = Word(Y, r)
    <3>1. \A tag \in Tags : Word(To(r, tag), d) = Word(From(d, tag), r)
      BY <1>2, <2>4, SameWords
    <3> QED BY <1>2, <3>1 DEF X, Y
  <2> DEFINE W == Word(Y, r)
             q == queue[c]
  <2>6. Balanced(x, y, W, W, q, <<>>) /\ q \in Seq(Sent) /\ q # <<>> /\ <<>> \in Seq(Awaited)
    BY <1>11, <1>14, <2>1, <2>3, <2>5
  <2> HIDE DEF W, q
  <2>7. Balanced(y, x, W, W, <<>>, q)
    BY <1>7, <2>6, BalancedBack
  <2>8. Balanced(y + 1, x, W, W, <<>>, Tail(q)) /\ Head(q).size = W[y + 1]
    BY <1>7, <2>6, <2>7, Matched
  <2>9. Balanced(x, y + 1, W, W, Tail(q), <<>>)
    <3>1. Tail(q) \in Seq(Sent) /\ y + 1 \in Nat
      BY <1>7, <2>6, HeadTailProperties
    <3> QED BY <1>7, <2>6, <2>8, <3>1, BalancedBack
  <2>10. InPairs(m, c, queue'[c], posted'[c])
    BY <1>12, <2>1, <2>2, <2>5, <2>9 DEF W, q
  <2>11. Head(queue[c]).size = op.size
    BY <1>9, <2>8 DEF W, q
  <2>12. wrong' = wrong
    BY <1>5, <1>14, <2>11
  <2> QED BY <1>13, <2>1, <2>2, <2>10, <2>12
<1>15. ASSUME queue[c] = <<>> PROVE Result
  <2>1. posted' = Put(posted, c, e) /\ queue' = queue /\ wrong' = wrong
    BY <1>5, <1>15
  <2>2. posted'[c] = Append(posted[c], e) /\ \A g \in D : g # c => posted'[g] = posted[g]
    BY <1>2, <1>4, <2>1 DEF Put
  <2> DEFINE W == Word(X, d)
             V == Word(Y, r)
             p == posted[c]
  <2>3. Balanced(x, y, W, V, <<>>, p) /\ p \in Seq(Awaited) /\ <<>> \in Seq(Sent) /\ e.size = V[y + 1]
    BY <1>2, <1>3, <1>4, <1>9, <1>11, <1>15
  <2> HIDE DEF W, V, p
  <2>4. Balanced(y, x, V, W, p, <<>>)
    BY <1>7, <2>3, BalancedBack
  <2>5. Balanced(y + 1, x, V, W, Append(p, e), <<>>)
    BY <1>3, <1>7, <2>3, <2>4, Unmatched
  <2>6. Balanced(x, y + 1, W, V, <<>>, Append(p, e))
    <3>1. Append(p, e) \in Seq(Awaited) /\ y + 1 \in Nat
      BY <1>3, <1>7, <2>3, AppendProperties
    <3> QED BY <1>7, <2>3, <2>5, <3>1, BalancedBack
  <2>7. InPairs(m, c, queue'[c], posted'[c])
    BY <1>12, <1>15, <2>1, <2>2, <2>6 DEF W, V, p
  <2> QED BY <1>13, <2>1, <2>2, <2>7
<1> QED BY <1>14, <1>15 DEF D

\* Calls that are no messages leave the channels balanced.
LEMMA ChannelsStay ==
    ASSUME RunTyped, PlaceTyped, NEW a \in Actors[bench], NEW ops, At(a, ops),
           Now(a).op \notin {"isend", "irecv"}, NEW n, Paced(n), n[a[1]] = pc[a] - 1,
           NEW m, m = [n EXCEPT ![a[1]] = pc[a]], NEW c, NEW q, NEW p, InPairs(n, c, q, p)
    PROVE  InPairs(m, c, q, p)
<1> DEFINE X == To(c[2], c[3])
           Y == From(c[1], c[3])
<1>1. Now(a) \in Calls
  BY Doing
<1>2. X \in Views /\ Y \in Views /\ X[Now(a)] = <<>> /\ Y[Now(a)] = <<>>
  BY <1>1, AreViews, MessageViews
<1>3. ASSUME NEW K \in Views, K[Now(a)] = <<>> PROVE \A r : Told(m, K, r) = Told(n, K, r)
  <2>1. Tells(n, m, a, K) /\ Told(n, K, a[1]) \in Nat
    BY Telling, ToldType
  <2> QED BY <1>3, <2>1, NothingTold
<1>4. Told(m, X, c[1]) = Told(n, X, c[1]) /\ Told(m, Y, c[2]) = Told(n, Y, c[2])
  <2> HIDE DEF X, Y
  <2> QED BY <1>2, <1>3
<1> QED BY <1>4 DEF InPairs

\* Calls that are no collective operations keep the rank in step.
LEMMA LedgerStays ==
    ASSUME RunTyped, PlaceTyped, NEW a \in Actors[bench], NEW ops, At(a, ops),
           Now(a).op # "enter", NEW n, Paced(n), n[a[1]] = pc[a] - 1,
           NEW m, m = [n EXCEPT ![a[1]] = pc[a]], NEW L, InStep(n, L)
    PROVE  InStep(m, L)
<1>1. Now(a) \in Calls
  BY Doing
<1>2. Agreed \in Views /\ Agreed[Now(a)] = <<>>
  BY <1>1, AreViews DEF Agreed
<1>3. Tells(n, m, a, Agreed) /\ Told(n, Agreed, a[1]) \in Nat
  BY <1>2, Telling, ToldType
<1>4. \A r : Told(m, Agreed, r) = Told(n, Agreed, r)
  BY <1>2, <1>3, NothingTold
<1> QED BY <1>4, StaysInStep
-----------------------------------------------------------------------------
(* Every call keeps the agreement. *)
\* The calls that have nothing to do with other ranks.
LEMMA OtherCalls ==
    ASSUME NEW a, Acts(a), ~PostSend(a), ~PostReceive(a), ~EnterCollective(a)
    PROVE  /\ Land(a) \/ (Now(a).op \notin {"isend", "irecv", "enter"} /\ At(a, {Now(a).op}))
           /\ wrong' \cap Disagreement = wrong \cap Disagreement
           /\ "psync" \in wrong' => "psync" \in wrong
           /\ queue' = queue /\ posted' = posted
           /\ LeaveCollective(a) \/ ledger' = ledger
<1>1. queue' = queue /\ posted' = posted /\ (LeaveCollective(a) \/ ledger' = ledger)
  BY Frames DEF messages
<1> DEFINE Beside == {"unfinished", "unchecked", "alarm", "touched", "request", "epoch", "extent"}
<1>2. ASSUME NEW what, wrong' = wrong \cup what, what \subseteq Beside
      PROVE  /\ wrong' \cap Disagreement = wrong \cap Disagreement
             /\ "psync" \in wrong' => "psync" \in wrong
  BY <1>2 DEF Disagreement
<1>3. wrong' = wrong \/ \E what : wrong' = wrong \cup what /\ what \subseteq Beside
  <2> DEFINE Mild(w) == wrong' = wrong \cup w /\ w \subseteq Beside
  <2>1. ASSUME NEW w, Mild(w) PROVE \E v : Mild(v)
    <3> HIDE DEF Mild
    <3> QED BY <2>1
  <2>2. ASSUME NEW x \in Beside, wrong' = wrong \cup {x} PROVE \E v : Mild(v)
    <3>1. Mild({x})
      BY <2>2
    <3> HIDE DEF Mild
    <3> QED BY <3>1
  <2> SUFFICES wrong' = wrong \/ \E w : Mild(w)
    OBVIOUS
  <2>3. CASE Stop(a) \/ FillBuffers(a) \/ CheckBuffer(a) \/ TouchMemory(a) \/ FreeRequest(a)
    <3>1. wrong' = wrong \/ \E x \in Beside : wrong' = wrong \cup {x}
      BY <2>3 DEF Stop, FillBuffers, CheckBuffer, TouchMemory, FreeRequest, Complain
    <3> HIDE DEF Beside, Mild
    <3> QED BY <2>2, <3>1
  <2>4. CASE Access(a)
    <3> DEFINE what == Unless(access[a[1]] # "closed") \cup (IF Now(a).within THEN {} ELSE {"extent"})
    <3>1. wrong' = wrong \cup what
      BY <2>4 DEF Access, Complain
    <3>2. what \subseteq Beside
      BY DEF Unless
    <3> HIDE DEF what, Beside
    <3>3. Mild(what)
      BY <3>1, <3>2
    <3> QED BY <2>1, <3>3
  <2>5. CASE Open(a)
    <3> DEFINE what == Unless(access[a[1]] = "closed")
    <3>1. wrong' = wrong \cup what
      BY <2>5 DEF Open, Complain
    <3>2. what \subseteq Beside
      BY DEF Unless
    <3> HIDE DEF what, Beside
    <3>3. Mild(what)
      BY <3>1, <3>2
    <3> QED BY <2>1, <3>3
  <2>6. CASE Close(a)
    <3> DEFINE what == Unless(access[a[1]] = Now(a).kind)
    <3>1. wrong' = wrong \cup what
      BY <2>6 DEF Close, Complain
    <3>2. what \subseteq Beside
      BY DEF Unless
    <3> HIDE DEF what, Beside
    <3>3. Mild(what)
      BY <3>1, <3>2
    <3> QED BY <2>1, <3>3
  <2> HIDE DEF Mild, Beside
  <2> QED BY <2>3, <2>4, <2>5, <2>6, Frames
<1>4. /\ wrong' \cap Disagreement = wrong \cap Disagreement
      /\ "psync" \in wrong' => "psync" \in wrong
  <2> HIDE DEF Beside
  <2> QED BY <1>2, <1>3
<1>5. Land(a) \/ (Now(a).op \notin {"isend", "irecv", "enter"} /\ At(a, {Now(a).op}))
  <2> DEFINE others == {"leave", "rma", "touch", "wait", "start", "stop", "sample", "fill", "check",
                        "clear", "break", "report", "elect", "meet", "in_place", "init", "free",
                        "flush", "await", "open", "close", "post"}
  <2>1. ASSUME NEW o, At(a, o), o \subseteq others PROVE At(a, others)
    BY <2>1 DEF At
  <2>2. ASSUME \/ LeaveCollective(a) \/ Meet(a) \/ Elect(a) \/ Break(a)
               \/ Access(a) \/ TouchMemory(a) \/ Return(a)
        PROVE  At(a, others)
    BY <2>1, <2>2 DEF LeaveCollective, Meet, Elect, Break, Access, TouchMemory, Return
  <2>3. ASSUME \/ Start(a) \/ Stop(a) \/ AddSample(a) \/ FillBuffers(a)
               \/ CheckBuffer(a) \/ Clear(a) \/ ReportErrors(a)
        PROVE  At(a, others)
    BY <2>1, <2>3 DEF Start, Stop, AddSample, FillBuffers, CheckBuffer, Clear, ReportErrors
  <2>4. ASSUME \/ SetActive(a) \/ InitRequest(a) \/ FreeRequest(a) \/ Synchronised(a)
               \/ Open(a) \/ Close(a) \/ Expose(a)
        PROVE  At(a, others)
    BY <2>1, <2>4 DEF SetActive, InitRequest, FreeRequest, Synchronised, Open, Close, Expose
  <2>5. Land(a) \/ At(a, others)
    BY <2>2, <2>3, <2>4 DEF Acts
  <2>6. \A x \in others : x \notin {"isend", "irecv", "enter"}
    OBVIOUS
  <2> HIDE DEF others
  <2> QED BY <2>5, <2>6 DEF At, Now
<1> QED BY <1>1, <1>4, <1>5

\* One more call of a.
More(n, a) == [n EXCEPT ![a[1]] = pc[a]]

\* An actor that goes on to its next call.
LEMMA PacedOn ==
    ASSUME RunTyped, PlaceTyped, bench # "osu_latency_mt", UNCHANGED run, NEW a \in Actors[bench],
           NEW ops, At(a, ops), NEW n, Paced(n), n[a[1]] = pc[a] - 1, pc'[a] = pc[a] + 1,
           \A b \in Actors[bench] : b # a => pc'[b] = pc[b] /\ errors'[b] = errors[b],
           NEW m, m = More(n, a), spoiled => spoiled'
    PROVE  Paced(m)'
<1>1. /\ a[1] \in Ranks[bench] /\ pc[a] \in 1 .. Len(Script(a)) /\ Len(Script(a)) \in Nat
      /\ pc[a] \in Nat /\ n \in [Ranks[bench] -> Nat]
  BY Doing DEF Paced
<1>2. m \in [Ranks[bench] -> Nat] /\ m[a[1]] = pc[a] /\ \A r \in Ranks[bench] : r # a[1] => m[r] = n[r]
  BY <1>1 DEF More
<1>3. bench' = bench /\ \A b : Script(b)' = Script(b)
  BY DEF run, Script
<1>4. ASSUME NEW b \in Actors[bench]
      PROVE  /\ m[b[1]] \in 0 .. Len(Script(b))
             /\ \/ m[b[1]] = pc'[b] - 1
                \/ Astray(b)' /\ errors'[b] /\ Script(b)[Len(Script(b))].op = "report"
  <2>1. CASE b = a
    BY <1>1, <1>2, <2>1
  <2>2. CASE b # a
    <3>1. b[1] # a[1] /\ b[1] \in Ranks[bench]
      BY <2>2, OnlyOne, ActorType DEF RunTyped
    <3>2. (Astray(b) => Astray(b)') /\ errors'[b] = errors[b]
      BY <1>3, <2>2 DEF Astray
    <3> QED BY <1>2, <2>2, <3>1, <3>2 DEF Paced
  <2> QED BY <2>1, <2>2
<1> QED BY <1>2, <1>3, <1>4 DEF Paced

\* An actor that goes to its exit code.
LEMMA PacedOut ==
    ASSUME RunTyped, PlaceTyped, UNCHANGED run, NEW a \in Actors[bench], NEW n, Paced(n),
           \/ pc'[a] = pc[a] /\ errors'[a] = errors[a]
           \/ /\ spoiled' /\ bench \in ReportsErrors /\ pc'[a] >= Len(Script(a)) /\ errors'[a]
              /\ Script(a)[Len(Script(a))].op = "report",
           \A b \in Actors[bench] : b # a => pc'[b] = pc[b] /\ errors'[b] = errors[b],
           spoiled => spoiled'
    PROVE  Paced(n)'
<1>1. bench' = bench /\ \A b : Script(b)' = Script(b)
  BY DEF run, Script
<1>2. ASSUME NEW b \in Actors[bench]
      PROVE  /\ n[b[1]] \in 0 .. Len(Script(b))
             /\ \/ n[b[1]] = pc'[b] - 1
                \/ Astray(b)' /\ errors'[b] /\ Script(b)[Len(Script(b))].op = "report"
  <2>1. pc'[b] = pc[b] /\ Astray(b) => Astray(b)'
    BY <1>1 DEF Astray
  <2>2. CASE pc'[b] = pc[b] /\ errors'[b] = errors[b]
    BY <2>1, <2>2 DEF Paced
  <2>3. CASE ~(pc'[b] = pc[b] /\ errors'[b] = errors[b])
    <3>1. b = a
      BY <2>3
    <3>2. Astray(b)' /\ errors'[b] /\ Script(b)[Len(Script(b))].op = "report"
      BY <1>1, <2>3, <3>1 DEF Astray
    <3> QED BY <2>3, <3>1, <3>2 DEF Paced
  <2> QED BY <2>2, <2>3
<1> QED BY <1>1, <1>2 DEF Paced

\* An actor that is not where its rank has got to makes no call but its report.
LEMMA OutOfPace ==
    ASSUME RunTyped, PlaceTyped, NEW a \in Actors[bench], NEW ops, At(a, ops),
           NEW n, Paced(n), n[a[1]] # pc[a] - 1
    PROVE  /\ Now(a).op = "report" /\ pc[a] = Len(Script(a))
           /\ Script(a)[Len(Script(a))].op = "report" /\ pc[a] \in Nat
           /\ spoiled /\ bench \in ReportsErrors /\ errors[a]
<1>1. pc[a] \in 1 .. Len(Script(a)) /\ Len(Script(a)) \in Nat /\ pc[a] \in Nat
  BY Doing
<1>2. /\ pc[a] >= Len(Script(a)) /\ Script(a)[Len(Script(a))].op = "report"
      /\ spoiled /\ bench \in ReportsErrors /\ errors[a]
  BY DEF Paced, Astray
<1>3. pc[a] = Len(Script(a))
  BY <1>1, <1>2
<1> QED BY <1>1, <1>2, <1>3 DEF Now

\* Where the calls take their actor.
LEMMA Going ==
    ASSUME RunTyped, PlaceTyped, OnCourse, ClockTyped, Blame, bench # "osu_latency_mt",
           NEW a \in Actors[bench], Acts(a)
    PROVE  /\ \A b \in Actors[bench] : b # a => pc'[b] = pc[b]
           /\ \/ pc'[a] = pc[a] /\ (Land(a) \/ Meet(a))
              \/ pc'[a] = pc[a] + 1 /\ At(a, {Now(a).op})
              \/ /\ Break(a) /\ pc'[a] = Len(Script(a)) /\ At(a, {"break"})
                 /\ Script(a)[Len(Script(a))].op = "report" /\ Len(Script(a)) \in Nat
                 /\ spoiled /\ bench \in ReportsErrors /\ errors[a]
<1> DEFINE Rest0 == \A b \in Actors[bench] : b # a => pc'[b] = pc[b]
<1>0. ASSUME NEW ops, At(a, ops) PROVE At(a, {Now(a).op})
  BY <1>0 DEF At, Now
<1>1. CASE Meet(a)
  <2>1. At(a, {"meet"})
    BY <1>1 DEF Meet
  <2>2. pc' = pc \/ pc' = [x \in Actors[bench] |-> IF x[1] = a[1] THEN pc[x] + 1 ELSE pc[x]]
    BY <1>1 DEF Meet
  <2>3. \A b \in Actors[bench] : b # a => b[1] # a[1]
    BY OnlyOne
  <2>4. CASE pc' = pc
    BY <1>1, <2>4
  <2>5. CASE pc' = [x \in Actors[bench] |-> IF x[1] = a[1] THEN pc[x] + 1 ELSE pc[x]]
    <3>1. Rest0 /\ pc'[a] = pc[a] + 1
      BY <2>3, <2>5
    <3> QED BY <1>0, <2>1, <3>1
  <2> QED BY <2>2, <2>4, <2>5
<1>2. CASE Land(a)
  BY <1>2 DEF Land
<1>3. CASE Elect(a)
  BY <1>3, PhaseElects
<1>4. ASSUME Advance(a), NEW ops, At(a, ops)
      PROVE  Rest0 /\ pc'[a] = pc[a] + 1 /\ At(a, {Now(a).op})
  BY <1>0, <1>4 DEF Advance, Goto, PlaceTyped
<1>5. CASE Break(a)
  <2>1. At(a, {"break"})
    BY <1>5 DEF Break
  <2>2. CASE ~errors[a]
    <3>1. Advance(a)
      BY <1>5, <2>2 DEF Break
    <3> HIDE DEF Rest0
    <3>2. Rest0 /\ pc'[a] = pc[a] + 1 /\ At(a, {Now(a).op})
      BY <1>4, <2>1, <3>1
    <3> QED BY <3>2 DEF Rest0
  <2>3. CASE errors[a]
    <3>1. Goto(a, Len(Script(a)))
      BY <1>5, <2>3 DEF Break
    <3>2. Rest0 /\ pc'[a] = Len(Script(a))
      BY <3>1 DEF Goto, PlaceTyped
    <3>3. bench \in ReportsErrors
      <4>1. "report" \notin {"break"} /\ Now(a).op = "break"
        BY <2>1 DEF At, Now
      <4>2. Here(a).local.last /\ Here(a).local.last = (bench \in ReportsErrors)
        BY <2>1, <4>1, StandsSo DEF LocalMove, OrderlyMove
      <4> QED BY <4>2
    <3>4. Len(Script(a)) \in Nat \ {0} /\ Script(a)[Len(Script(a))].op = "report"
      <4>1. a[1] \in Ranks[bench]
        BY ActorType DEF RunTyped
      <4> QED BY <3>3, <4>1, ProgramReports DEF RunTyped, Script
    <3>5. spoiled
      BY <2>3 DEF Blame
    <3> QED BY <1>5, <2>1, <2>3, <3>2, <3>3, <3>4, <3>5
  <2> QED BY <2>2, <2>3
<1>6. CASE ~Meet(a) /\ ~Land(a) /\ ~Elect(a) /\ ~Break(a)
  <2>1. Advance(a)
    BY <1>6 DEF Acts, PostSend, PostReceive, EnterCollective, LeaveCollective, Access, TouchMemory,
       Return, Start, Stop, AddSample, FillBuffers, CheckBuffer, Clear, ReportErrors,
       SetActive, InitRequest, FreeRequest, Synchronised, Open, Close, Expose
  <2>2. At(a, {Now(a).op})
    <3>1. CASE PostSend(a) \/ PostReceive(a) \/ EnterCollective(a)
      BY <1>0, <3>1 DEF PostSend, PostReceive, EnterCollective
    <3>2. CASE ~PostSend(a) /\ ~PostReceive(a) /\ ~EnterCollective(a)
      BY <1>6, <3>2, OtherCalls
    <3> QED BY <3>1, <3>2
  <2> HIDE DEF Rest0
  <2>3. Rest0 /\ pc'[a] = pc[a] + 1
    BY <1>4, <2>1, <2>2
  <2> QED BY <2>2, <2>3 DEF Rest0
<1> QED BY <1>1, <1>2, <1>3, <1>5, <1>6

\* A call after which the ranks have read m keeps the agreement.
LEMMA Agrees ==
    ASSUME UNCHANGED run, bench # "osu_latency_mt", wrong \cap Disagreement = {},
           wrong' \cap Disagreement = wrong \cap Disagreement,
           NEW m, Paced(m)', InStep(m, ledger'),
           \A c \in Channels[bench] : InPairs(m, c, queue'[c], posted'[c])
    PROVE  Agreement'
<1>1. bench' = bench
  BY DEF run
<1>2. InStep(m, ledger)'
  <2>1. \A r : Told(m, Agreed, r)' = Told(m, Agreed, r) /\ Word(Agreed, r)' = Word(Agreed, r)
    BY SameReading
  <2>2. PICK B \in Nat : \A r \in Ranks[bench] :
            /\ Told(m, Agreed, r) \in B .. (B + Len(ledger'))
            /\ \A k \in DOMAIN ledger' :
                  /\ r \in DOMAIN ledger'[k].in <=> B + k <= Told(m, Agreed, r)
                  /\ Key(ledger'[k]) = Word(Agreed, r)[B + k]
    BY DEF InStep
  <2>3. \A r \in Ranks[bench]' :
            /\ Told(m, Agreed, r)' \in B .. (B + Len(ledger'))
            /\ \A k \in DOMAIN ledger' :
                  /\ r \in DOMAIN ledger'[k].in <=> B + k <= Told(m, Agreed, r)'
                  /\ Key(ledger'[k]) = (Word(Agreed, r)')[B + k]
    BY <1>1, <2>1, <2>2
  <2> QED BY <2>3 DEF InStep, Key
<1>3. ASSUME NEW c \in Channels[bench] PROVE InPairs(m, c, queue[c], posted[c])'
  <2> DEFINE X == To(c[2], c[3])
             Y == From(c[1], c[3])
             x == Told(m, X, c[1])
             y == Told(m, Y, c[2])
             W == Word(X, c[1])
             Z == Word(Y, c[2])
  <2>1. x' = x /\ y' = y /\ W' = W /\ Z' = Z
    BY SameReading
  <2>2. Balanced(x, y, W, Z, queue'[c], posted'[c])
    BY DEF InPairs
  <2>3. InPairs(m, c, queue[c], posted[c])' <=> Balanced(x', y', W', Z', queue'[c], posted'[c])
    BY DEF InPairs, Balanced
  <2> HIDE DEF x, y, W, Z
  <2> QED BY <2>1, <2>2, <2>3
<1>4. Agreeing(m, ledger, queue, posted)'
  BY <1>1, <1>2, <1>3 DEF Agreeing
<1>5. wrong' \cap {"size", "collective"} = {}
  BY DEF Disagreement
<1> QED BY <1>4, <1>5 DEF Agreement

\* No call undoes a fault.
LEMMA SpoiledStays ==
    ASSUME NEW a, Acts(a) PROVE spoiled => spoiled'
<1>1. CASE LeaveCollective(a)
  BY <1>1 DEF LeaveCollective
<1>2. CASE CheckBuffer(a)
  BY <1>2 DEF CheckBuffer
<1>3. CASE Clear(a) \/ ReportErrors(a)
  BY <1>3 DEF Clear, ReportErrors
<1> QED BY <1>1, <1>2, <1>3, Frames DEF counts

\* Only comparing, forgetting and adding up changes what an actor knows of errors.
LEMMA ErrorsStay ==
    ASSUME DataTyped, NEW a \in Actors[bench], Acts(a)
    PROVE  /\ \A b \in Actors[bench] : b # a => errors'[b] = errors[b]
           /\ ~LeaveCollective(a) /\ ~CheckBuffer(a) /\ ~Clear(a) => errors' = errors
<1>1. errors \in [Actors[bench] -> BOOLEAN]
  BY DEF DataTyped
<1>2. CASE LeaveCollective(a)
  <2>1. PICK x : errors' = [errors EXCEPT ![a] = x]
    BY <1>2 DEF LeaveCollective
  <2> QED BY <1>1, <1>2, <2>1
<1>3. CASE CheckBuffer(a)
  <2>1. PICK x : errors' = [errors EXCEPT ![a] = x]
    BY <1>3 DEF CheckBuffer
  <2> QED BY <1>1, <1>3, <2>1
<1>4. CASE Clear(a)
  BY <1>1, <1>4 DEF Clear
<1>5. CASE ReportErrors(a)
  BY <1>5 DEF ReportErrors
<1> QED BY <1>2, <1>3, <1>4, <1>5, Frames DEF counts

\* Every call keeps the ranks in agreement.
LEMMA AgreementStep ==
    ASSUME IInv, Agreement, NEW a \in Actors[bench], Acts(a)
    PROVE  Agreement'
<1>1. /\ RunTyped /\ PlaceTyped /\ MessagesTyped /\ DataTyped /\ ClockTyped /\ RemoteTyped
      /\ OnCourse /\ LedgerTyped /\ Inside /\ Blame /\ UNCHANGED run /\ (spoiled => spoiled')
  BY Frames, SpoiledStays DEF IInv, Typed
<1>2. CASE bench = "osu_latency_mt"
  BY <1>1, <1>2 DEF Agreement, run
<1>3. CASE bench # "osu_latency_mt"
  <2>1. PICK n : Agreeing(n, ledger, queue, posted)
    BY <1>3 DEF Agreement
  <2>2. /\ Paced(n) /\ InStep(n, ledger) /\ wrong \cap Disagreement = {}
        /\ \A c \in Channels[bench] : InPairs(n, c, queue[c], posted[c])
    BY <1>3, <2>1 DEF Agreement, Agreeing, Disagreement
  <2>3. ASSUME NEW m, Paced(m)', InStep(m, ledger'),
               \A c \in Channels[bench] : InPairs(m, c, queue'[c], posted'[c]),
               wrong' \cap Disagreement = wrong \cap Disagreement
        PROVE  Agreement'
    BY <1>1, <1>3, <2>2, <2>3, Agrees
  <2>4. /\ \A b \in Actors[bench] : b # a => pc'[b] = pc[b]
        /\ \A b \in Actors[bench] : b # a => errors'[b] = errors[b]
        /\ \/ pc'[a] = pc[a] /\ (Land(a) \/ Meet(a))
           \/ pc'[a] = pc[a] + 1 /\ At(a, {Now(a).op})
           \/ /\ Break(a) /\ pc'[a] = Len(Script(a)) /\ At(a, {"break"})
              /\ Script(a)[Len(Script(a))].op = "report" /\ Len(Script(a)) \in Nat
              /\ spoiled /\ bench \in ReportsErrors /\ errors[a]
    BY <1>1, <1>3, Going, ErrorsStay
  <2>5. ASSUME Paced(n)', ~PostSend(a), ~PostReceive(a), ~EnterCollective(a), ~LeaveCollective(a)
        PROVE  Agreement'
    <3>1. /\ wrong' \cap Disagreement = wrong \cap Disagreement
          /\ queue' = queue /\ posted' = posted /\ ledger' = ledger
      BY <2>5, OtherCalls
    <3> QED BY <2>2, <2>3, <2>5, <3>1
  <2>6. CASE pc'[a] = pc[a] /\ (Land(a) \/ Meet(a))
    <3>1. Paced(n)'
      <4>1. errors' = errors
        BY <2>6 DEF Land, Meet, counts
      <4> QED BY <1>1, <2>2, <2>4, <2>6, <4>1, PacedOut
    <3>2. CASE PostSend(a) \/ PostReceive(a) \/ EnterCollective(a) \/ LeaveCollective(a)
      <4>1. Advance(a) /\ a \in DOMAIN pc /\ pc[a] \in Nat
        BY <1>1, <3>2 DEF PostSend, PostReceive, EnterCollective, LeaveCollective, PlaceTyped
      <4>2. pc'[a] = pc[a] + 1
        BY <4>1 DEF Advance, Goto
      <4> QED BY <2>6, <4>1, <4>2
    <3> QED BY <2>5, <3>1, <3>2
  <2>7. CASE Break(a) /\ pc'[a] = Len(Script(a)) /\ At(a, {"break"})
             /\ Script(a)[Len(Script(a))].op = "report" /\ Len(Script(a)) \in Nat
             /\ spoiled /\ bench \in ReportsErrors /\ errors[a]
    <3>1. Paced(n)'
      <4>1. errors' = errors /\ pc'[a] >= Len(Script(a))
        BY <2>7 DEF Break, counts
      <4> QED BY <1>1, <2>2, <2>4, <2>7, <4>1, PacedOut
    <3>2. ~PostSend(a) /\ ~PostReceive(a) /\ ~EnterCollective(a) /\ ~LeaveCollective(a)
      BY <2>7 DEF PostSend, PostReceive, EnterCollective, LeaveCollective, At
    <3> QED BY <2>5, <3>1, <3>2
  <2>8. CASE pc'[a] = pc[a] + 1 /\ At(a, {Now(a).op}) /\ n[a[1]] # pc[a] - 1
    <3>1. /\ Now(a).op = "report" /\ pc[a] = Len(Script(a))
          /\ Script(a)[Len(Script(a))].op = "report" /\ pc[a] \in Nat
          /\ spoiled /\ bench \in ReportsErrors /\ errors[a]
      BY <1>1, <2>2, <2>8, OutOfPace
    <3>2. pc'[a] >= Len(Script(a))
      BY <2>8, <3>1
    <3>3. Paced(n)'
      <4>1. ~LeaveCollective(a) /\ ~CheckBuffer(a) /\ ~Clear(a)
        BY <3>1 DEF LeaveCollective, CheckBuffer, Clear, At, Now
      <4>2. errors' = errors
        BY <1>1, <4>1, ErrorsStay
      <4> QED BY <1>1, <2>2, <2>4, <3>1, <3>2, <4>2, PacedOut
    <3>4. ~PostSend(a) /\ ~PostReceive(a) /\ ~EnterCollective(a) /\ ~LeaveCollective(a)
      BY <3>1 DEF PostSend, PostReceive, EnterCollective, LeaveCollective, At, Now
    <3> QED BY <2>5, <3>3, <3>4
  <2>9. CASE pc'[a] = pc[a] + 1 /\ At(a, {Now(a).op}) /\ n[a[1]] = pc[a] - 1
    <3>m. PICK m : m = More(n, a)
      OBVIOUS
    <3>0. m = More(n, a) /\ m = [n EXCEPT ![a[1]] = pc[a]] /\ n[a[1]] = pc[a] - 1
      BY <2>9, <3>m DEF More
    <3>a. pc'[a] = pc[a] + 1 /\ At(a, {Now(a).op}) /\ UNCHANGED run
      BY <1>1, <2>9
    <3>1. Paced(m)'
      BY <1>1, <1>3, <2>2, <2>4, <3>0, <3>a, PacedOn
    <3>2. Now(a).op # "enter" => InStep(m, ledger)
      BY <1>1, <2>2, <3>0, <3>a, LedgerStays
    <3>3. Now(a).op \notin {"isend", "irecv"} =>
            \A c \in Channels[bench] : InPairs(m, c, queue[c], posted[c])
      BY <1>1, <2>2, <3>0, <3>a, ChannelsStay
    <3>4. CASE PostSend(a)
      <4>1. Now(a).op = "isend" /\ ledger' = ledger
        BY <3>4 DEF PostSend, At, Now
      <4>2. /\ \A c \in Channels[bench] : InPairs(m, c, queue'[c], posted'[c])
            /\ wrong' \cap Disagreement = wrong \cap Disagreement
        BY <1>1, <1>3, <2>2, <3>0, <3>4, SendsPaired
      <4> QED BY <2>3, <3>1, <3>2, <4>1, <4>2
    <3>5. CASE PostReceive(a)
      <4>1. Now(a).op = "irecv" /\ ledger' = ledger
        BY <3>5 DEF PostReceive, At, Now
      <4>2. /\ \A c \in Channels[bench] : InPairs(m, c, queue'[c], posted'[c])
            /\ wrong' \cap Disagreement = wrong \cap Disagreement
        BY <1>1, <1>3, <2>2, <3>0, <3>5, ReceivesPaired
      <4> QED BY <2>3, <3>1, <3>2, <4>1, <4>2
    <3>6. CASE EnterCollective(a)
      <4>1. Now(a).op = "enter" /\ queue' = queue /\ posted' = posted
        BY <3>6 DEF EnterCollective, At, Now, messages
      <4>2. InStep(m, ledger') /\ wrong' \cap Disagreement = wrong \cap Disagreement
        BY <1>1, <1>3, <2>2, <3>0, <3>6, EntersInStep
      <4> QED BY <2>3, <3>1, <3>3, <4>1, <4>2
    <3>7. CASE ~PostSend(a) /\ ~PostReceive(a) /\ ~EnterCollective(a)
      <4>1. /\ wrong' \cap Disagreement = wrong \cap Disagreement
            /\ queue' = queue /\ posted' = posted /\ (LeaveCollective(a) \/ ledger' = ledger)
        BY <3>7, OtherCalls
      <4>2. Now(a).op \notin {"isend", "irecv", "enter"}
        <5>1. CASE Land(a)
          <6>1. pc' = pc /\ pc[a] \in Nat
            BY <1>1, <5>1 DEF Land, PlaceTyped
          <6> QED BY <2>9, <6>1
        <5> QED BY <3>7, <5>1, OtherCalls
      <4>3. InStep(m, ledger')
        <5>1. CASE LeaveCollective(a)
          <6>1. InStep(n, ledger')
            BY <1>1, <2>2, <5>1, LeavesInStep
          <6> QED BY <1>1, <2>2, <3>0, <3>a, <4>2, <6>1, LedgerStays
        <5>2. CASE ledger' = ledger
          BY <3>2, <4>2, <5>2
        <5> QED BY <4>1, <5>1, <5>2
      <4> QED BY <2>3, <3>1, <3>3, <4>1, <4>2, <4>3
    <3> QED BY <3>4, <3>5, <3>6, <3>7
  <2> QED BY <2>4, <2>6, <2>7, <2>8, <2>9
<1> QED BY <1>2, <1>3

\* At the beginning nobody has read anything.
LEMMA AgreementBegins ==
    ASSUME Init PROVE Agreement
<1> SUFFICES ASSUME bench # "osu_latency_mt" PROVE Agreement
  BY DEF Agreement
<1>1. /\ RunTyped /\ wrong = {} /\ ledger = <<>>
      /\ \A c \in Channels[bench] : queue[c] = <<>> /\ posted[c] = <<>>
      /\ \A a \in Actors[bench] : pc[a] = 1
  BY BeginsTyped DEF Init, Typed
<1> DEFINE n == [r \in Ranks[bench] |-> 0]
<1>2. \A a \in Actors[bench] : a[1] \in Ranks[bench] /\ n[a[1]] = 0 /\ Len(Script(a)) \in Nat
  <2>1. ASSUME NEW a \in Actors[bench] PROVE a[1] \in Ranks[bench] /\ Len(Script(a)) \in Nat
    <3>1. a[1] \in Ranks[bench]
      BY <1>1, ActorType DEF RunTyped
    <3>2. Len(Script(a)) \in Nat
      BY <1>1, <3>1, CourseRuns DEF RunTyped, Script
    <3> QED BY <3>1, <3>2
  <2> QED BY <2>1
<1>3. n \in [Ranks[bench] -> Nat] /\ \A r \in Ranks[bench] : n[r] = 0
  OBVIOUS
<1> HIDE DEF n
<1>4. Paced(n)
  BY <1>1, <1>2, <1>3 DEF Paced
<1>5. ASSUME NEW K, NEW r PROVE Told(n, K, r) = 0
  <2>1. CASE r \in Ranks[bench]
    <3>1. Scripts[bench][opt][r] \in Seq(Calls)
      BY <1>1, <2>1, RankScript
    <3>2. Heard(K, Scripts[bench][opt][r], 0) = 0
      BY <3>1, HeardNothing
    <3> QED BY <1>3, <2>1, <3>2 DEF Told
  <2>2. CASE r \notin Ranks[bench]
    BY <2>2 DEF Told
  <2> QED BY <2>1, <2>2
<1>6. InStep(n, ledger)
  <2>1. Len(ledger) = 0 /\ ~\E k : k \in DOMAIN ledger
    BY <1>1
  <2>2. \A r \in Ranks[bench] : Told(n, Agreed, r) \in 0 .. 0 + Len(ledger)
    BY <1>5, <2>1
  <2> QED BY <2>1, <2>2 DEF InStep
<1>7. ASSUME NEW c \in Channels[bench] PROVE InPairs(n, c, queue[c], posted[c])
  <2>1. queue[c] = <<>> /\ posted[c] = <<>>
    BY <1>1
  <2>2. ASSUME NEW X, NEW Y PROVE Balanced(0, 0, X, Y, <<>>, <<>>)
    BY DEF Balanced
  <2>3. Told(n, To(c[2], c[3]), c[1]) = 0 /\ Told(n, From(c[1], c[3]), c[2]) = 0
    BY <1>5
  <2> QED BY <2>1, <2>2, <2>3 DEF InPairs
<1>8. Agreeing(n, ledger, queue, posted)
  BY <1>4, <1>6, <1>7 DEF Agreeing
<1> QED BY <1>1, <1>8 DEF Agreement

\* A step without a call changes nothing of it.
LEMMA AgreementStutters ==
    ASSUME Agreement, UNCHANGED vars PROVE Agreement'
<1>1. /\ UNCHANGED run /\ bench' = bench /\ pc' = pc /\ ledger' = ledger /\ queue' = queue
      /\ posted' = posted /\ wrong' = wrong
  BY DEF vars, run, messages
<1>2. CASE bench = "osu_latency_mt"
  BY <1>1, <1>2 DEF Agreement
<1>3. CASE bench # "osu_latency_mt"
  <2>1. PICK n : Agreeing(n, ledger, queue, posted)
    BY <1>3 DEF Agreement
  <2>2. wrong \cap Disagreement = {}
    BY <1>3 DEF Agreement, Disagreement
  <2>3. Paced(n)'
    <3>1. spoiled' = spoiled /\ errors' = errors
      BY DEF vars, counts
    <3> QED BY <1>1, <2>1, <3>1 DEF Agreeing, Paced, Astray, Script, run
  <2> QED BY <1>1, <1>3, <2>1, <2>2, <2>3, Agrees DEF Agreeing
<1> QED BY <1>2, <1>3

\* The sides of every benchmark but osu_latency_mt agree (CallsAgree): each message
\* meets a receive of its size, and the n-th collective call is the same operation
\* on every rank, with the same root and pSync array.
THEOREM SidesAgree == Spec => [](bench # "osu_latency_mt" => CallsAgree)
<1>1. Init => Agreement
  BY AgreementBegins
<1>2. IInv /\ Agreement /\ [Next]_vars => Agreement'
  BY SomeoneActs, AgreementStep, AgreementStutters
<1>3. Agreement => (bench # "osu_latency_mt" => CallsAgree)
  BY DEF Agreement, CallsAgree
<1> QED BY <1>1, <1>2, <1>3, Invariance, PTL DEF Spec

=============================================================================
