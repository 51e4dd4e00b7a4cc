--------------------------- MODULE BenchmarkSuite ---------------------------
(***************************************************************************)
(* One run of one benchmark of the OSU suite, or of striding: its actors   *)
(* execute their programs side by side over messages, collectives and      *)
(* accesses to each other's memory.                                        *)
(*                                                                         *)
(* Benchmarks whose actors have the same programs are run once, under the  *)
(* name of one of them.  What an actor does to its own buffers, clock and  *)
(* counters nobody else can see; it is done before anyone communicates.    *)
(***************************************************************************)
EXTENDS SuitePrograms, RemoteAccess

CONSTANTS
    Programs,       \* what the actors execute, as SuiteScripts says
    Eager           \* the largest message that leaves before it is received

ASSUME ProgramsAssumption == Programs = SuiteScripts
ASSUME EagerAssumption == Eager \in Nat

Scripts == Table(Programs)

\* One name for all the benchmarks that are the same to their actors.
Representatives == {CHOOSE c \in Benchmarks : Scripts[c] = Scripts[b] : b \in Benchmarks}

\* The channels a benchmark uses, each of which is served in order.
ChannelsOf(s, r) ==
    {<<r, op.peer, op.tag>> : op \in {c \in ToSet(s) : c.op = "isend"}}
        \cup {<<op.peer, r, op.tag>> : op \in {c \in ToSet(s) : c.op = "irecv"}}

Channels ==
    Table([b \in Benchmarks |->
        UNION {UNION {ChannelsOf(Scripts[b][o][r], r) : o \in OptionsOf(b)} : r \in Ranks[b]}])

VARIABLES
    bench, opt,     \* what was started, with which options
    pc,             \* how far each actor is in its program
    queue,          \* per channel, the messages nobody has posted a receive for
    posted,         \* per channel, the receives that wait for a message
    pending,        \* per actor, its requests that are not complete
    ledger,         \* the collective operations not everyone has left
    met, serial,    \* per rank, the threads at the barrier; the one chosen last
    clock,          \* per actor: running, transfers in this interval, their total
    buffer,         \* per actor, its receive buffer and the pattern it filled in
    errors, failed, \* per actor, its error count and its exit code
    spoiled,        \* a comparison of data has failed
    active, request,\* per rank, the buffers and request of a collective benchmark
    wrong           \* what has been done that MPI or the benchmark forbids

run == <<bench, opt>>
messages == <<queue, posted, pending>>
threading == <<met, serial>>
counts == <<errors, failed, spoiled>>
calls == <<active, request>>
vars == <<run, pc, messages, ledger, threading, clock, buffer, counts, calls, remote, wrong>>

Script(a) == Scripts[bench][opt][a[1]]

Finished(a) == pc[a] > Len(Script(a))

\* The actor's next call is one of the named ones.
At(a, ops) == ~Finished(a) /\ Script(a)[pc[a]].op \in ops

Now(a) == Script(a)[pc[a]]

Goto(a, n) == pc' = [pc EXCEPT ![a] = n]
Advance(a) == Goto(a, pc[a] + 1)

Complain(what) == wrong' = wrong \cup what

Init ==
    /\ bench \in Representatives
    /\ opt \in OptionsOf(bench)
    /\ pc = [a \in Actors[bench] |-> 1]
    /\ queue = [c \in Channels[bench] |-> <<>>]
    /\ posted = [c \in Channels[bench] |-> <<>>]
    /\ pending = [a \in Actors[bench] |-> [isend |-> 0, irecv |-> 0]]
    /\ ledger = <<>>
    /\ met = [r \in Ranks[bench] |-> {}]
    /\ serial = [r \in Ranks[bench] |-> 0]
    /\ clock = [a \in Actors[bench] |-> [running |-> FALSE, burst |-> 0, total |-> 0]]
    /\ buffer = [a \in Actors[bench] |-> [holds |-> "idle", stamp |-> 0]]
    /\ errors = [a \in Actors[bench] |-> FALSE]
    /\ failed = [a \in Actors[bench] |-> FALSE]
    /\ spoiled = FALSE
    /\ active = [r \in Ranks[bench] |-> [send |-> "buffer", recv |-> "buffer"]]
    /\ request = [r \in Ranks[bench] |-> [kind |-> "none"]]
    /\ RemoteInit(Ranks[bench], IF bench \in PgasBenchmarks THEN "open" ELSE "closed")
    /\ wrong = {}

\* Whose contribution rank r has to wait for.
Needed(entry, r) ==
    CASE entry.kind \in {"all", "sum_errors", "barrier", "sync", "fence"} -> Ranks[bench]
      [] entry.kind = "neighbours" -> {r, (r + 1) % Procs, (r + Procs - 1) % Procs}
      [] entry.kind = "from_root" -> {entry.root}
      [] entry.kind = "to_root" -> IF r = entry.root THEN Ranks[bench] ELSE {}

\* The first operation that the rank has entered and not left.
UnderWay(r) == CHOOSE k \in 1 .. Len(ledger) :
    /\ r \in DOMAIN ledger[k].in \ ledger[k].out
    /\ \A j \in 1 .. k - 1 : r \in ledger[j].out

Complete(r) ==
    LET entry == ledger[UnderWay(r)] IN
    /\ Needed(entry, r) \subseteq DOMAIN entry.in
    /\ entry.kind = "fence" => Fenced(r, [q \in DOMAIN entry.in |-> entry.in[q].age])

\* OpenSHMEM's synchronisation arrays.
PSync(form) == form \notin {"plain", "in_place", "persistent"}

\* What only the actor itself sees, and the return from a call that nobody can
\* keep it from any more: one after the other, before anyone starts a call.
PrivateOps == {"start", "stop", "sample", "fill", "check", "clear", "break", "report",
               "elect", "in_place", "init", "free", "open", "close", "post"}

Private == {a \in Actors[bench] :
    \/ At(a, PrivateOps)
    \/ At(a, {"wait"}) /\ pending[a][Now(a).kind] = 0
    \/ At(a, {"leave"}) /\ Complete(a[1]) /\ ~PSync(ledger[UnderWay(a[1])].form)
    \/ At(a, {"flush"}) /\ Flushed(a[1], Now(a).which)
    \/ At(a, {"await"}) /\ Exposed(a[1], Now(a).peer)}

-----------------------------------------------------------------------------
\* Transfers counted while the clock runs.
Counted(a) == IF clock[a].running THEN [clock[a] EXCEPT !.burst = @ + 1] ELSE clock[a]

\* What a buffer holds when data with these patterns has come in.
Received(b, stamps) ==
    IF b.holds = "idle" THEN b
    ELSE [b EXCEPT !.holds = IF stamps = {b.stamp} /\ @ # "stale" THEN "good" ELSE "stale"]

\* MPI_Isend, and MPI_Start and MPI_Pready of a persistent one.
PostSend(a) ==
    LET op == Now(a)
        c == <<a[1], op.peer, op.tag>>
        stamp == buffer[a].stamp
    IN  /\ At(a, {"isend"})
        /\ IF posted[c] # <<>>
             THEN LET to == Head(posted[c]) IN
                  /\ posted' = [posted EXCEPT ![c] = Tail(@)]
                  /\ pending' = [pending EXCEPT ![to.by].irecv = @ - 1]
                  /\ buffer' = [buffer EXCEPT ![to.by] =
                                  IF op.size = ReplySize THEN @ ELSE Received(@, {stamp})]
                  /\ Complain(IF to.size # op.size THEN {"size"} ELSE {})
                  /\ UNCHANGED queue
             ELSE /\ queue' = [queue EXCEPT ![c] =
                                  Append(@, [by |-> a, size |-> op.size, stamp |-> stamp])]
                  /\ pending' = [pending EXCEPT ![a].isend = IF op.size > Eager THEN @ + 1 ELSE @]
                  /\ UNCHANGED <<posted, buffer, wrong>>
        /\ clock' = [clock EXCEPT ![a] = IF op.size = ReplySize THEN @ ELSE Counted(a)]
        /\ Advance(a)
        /\ UNCHANGED <<run, ledger, threading, counts, calls, remote>>

\* MPI_Irecv.
PostReceive(a) ==
    LET op == Now(a)
        c == <<op.peer, a[1], op.tag>>
    IN  /\ At(a, {"irecv"})
        /\ IF queue[c] # <<>>
             THEN LET from == Head(queue[c]) IN
                  /\ queue' = [queue EXCEPT ![c] = Tail(@)]
                  /\ pending' = [pending EXCEPT ![from.by].isend =
                                  IF from.size > Eager THEN @ - 1 ELSE @]
                  /\ buffer' = [buffer EXCEPT ![a] =
                                  IF op.size = ReplySize THEN @ ELSE Received(@, {from.stamp})]
                  /\ Complain(IF from.size # op.size THEN {"size"} ELSE {})
                  /\ UNCHANGED posted
             ELSE /\ posted' = [posted EXCEPT ![c] = Append(@, [by |-> a, size |-> op.size])]
                  /\ pending' = [pending EXCEPT ![a].irecv = @ + 1]
                  /\ UNCHANGED <<queue, buffer, wrong>>
        /\ clock' = [clock EXCEPT ![a] = IF op.size = ReplySize THEN @ ELSE Counted(a)]
        /\ Advance(a)
        /\ UNCHANGED <<run, ledger, threading, counts, calls, remote>>

\* MPI_Wait and MPI_Waitall.
Return(a) ==
    /\ At(a, {"wait"})
    /\ Advance(a)
    /\ UNCHANGED <<run, messages, ledger, threading, clock, buffer, counts, calls, wrong, remote>>

-----------------------------------------------------------------------------
\* The n-th collective call of a rank belongs to the n-th operation.
EntryOf(r) == CHOOSE k \in 1 .. Len(ledger) + 1 :
    /\ \A j \in 1 .. k - 1 : r \in DOMAIN ledger[j].in
    /\ k <= Len(ledger) => r \notin DOMAIN ledger[k].in

\* A call with MPI_IN_PLACE where there may be none, of a request that has not
\* been made, inside an epoch, or with a pSync array that someone still uses.
Objection(op, r) ==
    CASE op.form = "plain" -> Unless(op.kind = "fence" => access[r] \in {"closed", "fence"})
      [] PSync(op.form) ->
            IF \E k \in DOMAIN ledger : ledger[k].form = op.form /\ r \in ledger[k].out
              THEN {"psync"} ELSE {}
      [] op.form = "in_place" ->
            IF LegalInPlace(op.kind, op.root, r, active[r]) THEN {} ELSE {"in_place"}
      [] op.form = "persistent" ->
            IF request[r].kind = "none" THEN {"request"}
            ELSE IF LegalInPlace(request[r].kind, request[r].root, r, request[r].active)
                 THEN {} ELSE {"in_place"}

EnterCollective(a) ==
    LET op == Now(a)
        r == a[1]
        k == EntryOf(r)
        fence == op.kind = "fence"
        mine == [stamp |-> buffer[a].stamp, errors |-> errors[a], age |-> age[r] + 1]
    IN  /\ At(a, {"enter"})
        /\ IF k > Len(ledger)
             THEN /\ ledger' = Append(ledger, [kind |-> op.kind, root |-> op.root,
                                               data |-> op.data, form |-> op.form,
                                               in |-> [q \in {r} |-> mine], out |-> {}])
                  /\ Complain(Objection(op, r))
             ELSE /\ ledger' = [ledger EXCEPT ![k].in =
                                   [q \in DOMAIN @ \cup {r} |-> IF q = r THEN mine ELSE @[q]]]
                  /\ Complain(Objection(op, r) \cup
                        (IF ledger[k].kind = op.kind /\ ledger[k].root = op.root
                              /\ (PSync(op.form) => ledger[k].form = op.form)
                           THEN {} ELSE {"collective"}))
        /\ clock' = [clock EXCEPT ![a] = IF op.kind \in {"sync", "fence"} THEN @ ELSE Counted(a)]
        /\ IF fence THEN BeginAccess(r, "fence") ELSE UNCHANGED remote
        /\ Advance(a)
        /\ UNCHANGED <<run, messages, threading, buffer, counts, calls>>

LeaveCollective(a) ==
    LET r == a[1]
        k == UnderWay(r)
        entry == ledger[k]
        needed == Needed(entry, r)
        left == [ledger EXCEPT ![k].out = @ \cup {r}]
    IN  /\ At(a, {"leave"})
        /\ Complete(r)
        /\ ledger' = IF left[1].out = Ranks[bench] THEN Tail(left) ELSE left
        /\ buffer' = [buffer EXCEPT ![a] =
                        IF r \in entry.data /\ needed # {}
                          THEN Received(@, {entry.in[q].stamp : q \in needed}) ELSE @]
        /\ errors' = [errors EXCEPT ![a] =
                        IF entry.kind = "sum_errors"
                          THEN \E q \in needed : entry.in[q].errors ELSE @]
        /\ Advance(a)
        /\ UNCHANGED <<run, messages, threading, clock, failed, spoiled, calls, wrong, remote>>

\* pthread_barrier_wait: the last thread lets all of them go on, one of them
\* as PTHREAD_BARRIER_SERIAL_THREAD.
Meet(a) ==
    LET r == a[1]
        here == met[r] \cup {a[2]}
        all == Threads(bench, r)
    IN  /\ At(a, {"meet"})
        /\ a[2] \notin met[r]
        /\ IF here = all
             THEN /\ pc' = [x \in Actors[bench] |-> IF x[1] = r THEN pc[x] + 1 ELSE pc[x]]
                  /\ \E t \in all : serial' = [serial EXCEPT ![r] = t]
                  /\ met' = [met EXCEPT ![r] = {}]
             ELSE /\ met' = [met EXCEPT ![r] = here]
                  /\ UNCHANGED <<pc, serial>>
        /\ UNCHANGED <<run, messages, ledger, clock, buffer, counts, calls, wrong, remote>>

-----------------------------------------------------------------------------
\* Only the thread chosen makes the calls that follow.
Elect(a) ==
    /\ At(a, {"elect"})
    /\ Goto(a, pc[a] + 1 + (IF serial[a[1]] = a[2] THEN 0 ELSE Now(a).else))
    /\ UNCHANGED <<run, messages, ledger, threading, clock, buffer, counts, calls, wrong, remote>>

Start(a) ==
    /\ At(a, {"start"})
    /\ clock' = [clock EXCEPT ![a].running = TRUE, ![a].burst = 0]
    /\ Advance(a)
    /\ UNCHANGED <<run, messages, ledger, threading, buffer, counts, calls, wrong, remote>>

\* A message of the actor that nobody has received.
Undelivered(a) ==
    \E c \in Channels[bench] : \E k \in DOMAIN queue[c] :
        queue[c][k].by = a /\ queue[c][k].size # ReplySize

Stop(a) ==
    /\ At(a, {"stop"})
    /\ clock' = [clock EXCEPT ![a].running = FALSE]
    /\ Complain(IF Undelivered(a) \/ InFlight(a[1]) # {} THEN {"unfinished"} ELSE {})
    /\ Advance(a)
    /\ UNCHANGED <<run, messages, ledger, threading, buffer, counts, calls, remote>>

AddSample(a) ==
    /\ At(a, {"sample"})
    /\ clock' = [clock EXCEPT ![a].total = @ + clock[a].burst]
    /\ Advance(a)
    /\ UNCHANGED <<run, messages, ledger, threading, buffer, counts, calls, wrong, remote>>

FillBuffers(a) ==
    /\ At(a, {"fill"})
    /\ Complain(IF buffer[a].holds \in {"good", "stale"} THEN {"unchecked"} ELSE {})
    /\ buffer' = [buffer EXCEPT ![a] = [holds |-> "filled", stamp |-> Now(a).stamp]]
    /\ Advance(a)
    /\ UNCHANGED <<run, messages, ledger, threading, clock, counts, calls, remote>>

\* The data may have been spoiled on its way, once in a run.
CheckBuffer(a) ==
    /\ At(a, {"check"})
    /\ Complain(IF buffer[a].holds # "good" THEN {"alarm"} ELSE {})
    /\ buffer' = [buffer EXCEPT ![a].holds = "idle"]
    /\ \E bad \in IF spoiled THEN {FALSE} ELSE BOOLEAN :
          /\ errors' = [errors EXCEPT ![a] = @ \/ bad]
          /\ spoiled' = (spoiled \/ bad)
    /\ Advance(a)
    /\ UNCHANGED <<run, messages, ledger, threading, clock, failed, calls, remote>>

Clear(a) ==
    /\ At(a, {"clear"})
    /\ errors' = [errors EXCEPT ![a] = FALSE]
    /\ Advance(a)
    /\ UNCHANGED <<run, messages, ledger, threading, clock, buffer, failed, spoiled, calls, wrong, remote>>

\* With errors the remaining sizes are left out.
Break(a) ==
    /\ At(a, {"break"})
    /\ IF errors[a] THEN Goto(a, Len(Script(a))) ELSE Advance(a)
    /\ UNCHANGED <<run, messages, ledger, threading, clock, buffer, counts, calls, wrong, remote>>

ReportErrors(a) ==
    /\ At(a, {"report"})
    /\ failed' = [failed EXCEPT ![a] = errors[a]]
    /\ Advance(a)
    /\ UNCHANGED <<run, messages, ledger, threading, clock, buffer, errors, spoiled, calls, wrong, remote>>

SetActive(a) ==
    LET r == a[1] IN
    /\ At(a, {"in_place"})
    /\ active' = [active EXCEPT ![r] = OmbApplyMpiInPlace(Now(a).type, Now(a).root, r, @)]
    /\ Advance(a)
    /\ UNCHANGED <<run, messages, ledger, threading, clock, buffer, counts, request, wrong, remote>>

InitRequest(a) ==
    LET r == a[1] IN
    /\ At(a, {"init"})
    /\ request' = [request EXCEPT ![r] =
                     [kind |-> Now(a).kind, root |-> Now(a).root, active |-> active[r]]]
    /\ Advance(a)
    /\ UNCHANGED <<run, messages, ledger, threading, clock, buffer, counts, active, wrong, remote>>

FreeRequest(a) ==
    LET r == a[1] IN
    /\ At(a, {"free"})
    /\ Complain(IF request[r].kind = "none" THEN {"request"} ELSE {})
    /\ request' = [request EXCEPT ![r] = [kind |-> "none"]]
    /\ Advance(a)
    /\ UNCHANGED <<run, messages, ledger, threading, clock, buffer, counts, active, remote>>

-----------------------------------------------------------------------------
Access(a) ==
    /\ At(a, {"rma"})
    /\ Issue(a[1], Now(a))
    /\ clock' = [clock EXCEPT ![a] = Counted(a)]
    /\ Complain(Unless(access[a[1]] # "closed") \cup (IF Now(a).within THEN {} ELSE {"extent"}))
    /\ Advance(a)
    /\ UNCHANGED <<run, messages, ledger, threading, buffer, counts, calls>>

Land(a) ==
    /\ LandOne(a[1])
    /\ UNCHANGED <<run, pc, messages, ledger, threading, clock, buffer, counts, calls, wrong>>

\* The return from a call that waits for remote operations: a flush, MPI_Win_wait.
Synchronised(a) ==
    /\ \/ At(a, {"flush"}) /\ Flushed(a[1], Now(a).which)
       \/ At(a, {"await"}) /\ Exposed(a[1], Now(a).peer)
    /\ Advance(a)
    /\ UNCHANGED <<run, messages, ledger, threading, clock, buffer, counts, calls, remote, wrong>>

Open(a) ==
    /\ At(a, {"open"})
    /\ Complain(Unless(access[a[1]] = "closed"))
    /\ BeginAccess(a[1], Now(a).kind)
    /\ Advance(a)
    /\ UNCHANGED <<run, messages, ledger, threading, clock, buffer, counts, calls>>

Close(a) ==
    /\ At(a, {"close"})
    /\ Complain(Unless(access[a[1]] = Now(a).kind))
    /\ EndAccess(a[1], Now(a).kind)
    /\ Advance(a)
    /\ UNCHANGED <<run, messages, ledger, threading, clock, buffer, counts, calls>>

Expose(a) ==
    /\ At(a, {"post"})
    /\ BeginExposure(a[1])
    /\ Advance(a)
    /\ UNCHANGED <<run, messages, ledger, threading, clock, buffer, counts, calls, wrong>>

TouchMemory(a) ==
    /\ At(a, {"touch"})
    /\ Complain(IF Busy(a[1]) THEN {"touched"} ELSE {})
    /\ Advance(a)
    /\ UNCHANGED <<run, messages, ledger, threading, clock, buffer, counts, calls, remote>>

-----------------------------------------------------------------------------
LeaveWithPSync(a) == LeaveCollective(a) /\ PSync(ledger[UnderWay(a[1])].form)

Communicate(a) ==
    \/ PostSend(a) \/ PostReceive(a) \/ EnterCollective(a) \/ LeaveWithPSync(a) \/ Meet(a)
    \/ Access(a) \/ Land(a) \/ TouchMemory(a)

OnItsOwn(a) ==
    \/ Return(a) \/ LeaveCollective(a) \/ Elect(a)
    \/ Start(a) \/ Stop(a) \/ AddSample(a)
    \/ FillBuffers(a) \/ CheckBuffer(a)
    \/ Clear(a) \/ Break(a) \/ ReportErrors(a)
    \/ SetActive(a) \/ InitRequest(a) \/ FreeRequest(a)
    \/ Synchronised(a) \/ Open(a) \/ Close(a) \/ Expose(a)

Over == \A a \in Actors[bench] : Finished(a)

Step ==
    LET private == Private IN
    IF private = {} THEN \E a \in Actors[bench] : Communicate(a)
                    ELSE OnItsOwn(CHOOSE a \in private : TRUE)

\* MPI_Finalize has returned everywhere.
Rest == Over /\ UNCHANGED vars

Next == Step \/ Rest

\* Every step takes an actor forward in its finite program, so that it is
\* enough that the system goes on as long as someone can.
Spec == Init /\ [][Next]_vars /\ WF_vars(Step)

-----------------------------------------------------------------------------
Complaints == {"size", "collective", "in_place", "request", "unfinished", "unchecked", "alarm",
               "epoch", "extent", "psync", "touched"}

\* The variables have their types; no channel has messages and receives at once.
TypeOK ==
    /\ bench \in Benchmarks /\ opt \in DOMAIN Scripts[bench]
    /\ \A a \in Actors[bench] : pc[a] \in 1 .. Len(Script(a)) + 1
    /\ pending \in [Actors[bench] -> [isend : Nat, irecv : Nat]]
    /\ \A c \in Channels[bench] : queue[c] = <<>> \/ posted[c] = <<>>
    /\ met \in [Ranks[bench] -> SUBSET (0 .. SenderThreads + ReceiverThreads)]
    /\ buffer \in [Actors[bench] -> [holds : {"idle", "filled", "good", "stale"},
                                     stamp : 0 .. Skip + Iters - 1]]
    /\ errors \in [Actors[bench] -> BOOLEAN] /\ failed \in [Actors[bench] -> BOOLEAN]
    /\ \A r \in Ranks[bench] : IsABag(air[r])
    /\ access \in [Ranks[bench] -> {"open", "closed", "lock", "start", "fence"}]
    /\ {age, posts, done} \subseteq [Ranks[bench] -> Nat]
    /\ wrong \subseteq Complaints

\* Every benchmark comes to its end, whatever the options, whichever thread is
\* elected and however late an operation takes effect: no two of its actors wait
\* for each other, none for a message, an exposure or a collective operation
\* that is not to come, not even when an error has ended the sizes early.
Termination == <>Over

\* When all actors have finished, every message has been received, every receive
\* and request completed, every collective operation left by all, every epoch
\* closed and every remote operation has taken effect: MPI_Finalize, or
\* MPI_Win_free before it, finds nothing under way.
NothingLeftBehind ==
    Over => /\ ledger = <<>>
            /\ \A c \in Channels[bench] : queue[c] = <<>> /\ posted[c] = <<>>
            /\ \A a \in Actors[bench] : pending[a] = [isend |-> 0, irecv |-> 0]
            /\ \A r \in Ranks[bench] : InFlight(r) = {} /\ access[r] \notin {"lock", "start"}

\* The sides of a benchmark, written as different branches of the code, agree:
\* a message meets a receive of its size, and the n-th collective call is the
\* same operation, with the same root and pSync array, on every rank.
CallsAgree == wrong \cap {"size", "collective"} = {}

\* MPI_IN_PLACE stands only where MPI allows it, however the buffers were left
\* by the iteration or the size before; no request is started or freed that was
\* not made; every remote operation is in an epoch and keeps to the memory of
\* both ranks, and no epoch begins in another or ends where none began.
ArgumentsLegal == wrong \cap {"in_place", "request", "epoch", "extent"} = {}

\* Without a fault of the transport no comparison fails: what is compared is the
\* data of the same iteration, all of it has come in, and it was not overwritten.
ValidationSound == "alarm" \notin wrong

\* Benchmarks where -c leaves something uncompared.  Those of Java compare at
\* the root alone; those of MPI_Reduce_scatter on rank 0 alone, where the loop of
\* validate_reduce_scatter is not empty, and with a block of as many elements
\* as ranks not even there.
Uncompared == CheckedAtRootOnly \cup {b \in CCollective : CollectiveType[b] = "reduce_scatter"}

\* With -c no buffer is filled anew before the data in it has been compared,
\* except in those, and on the ranks that are not the root of the next iteration.
EveryReceiptChecked == "unchecked" \in wrong => bench \in Uncompared \/ opt.rotate

\* Benchmarks whose clock is stopped before what it measures is over.  The ends
\* of MPI_Win_complete, MPI_Win_fence and MPI_Win_flush_local say that a put is
\* complete at its origin, not at its target.
StopsEarly ==
    \/ bench \in {"osu_xccl_bw", "osu_latency_mt"} \cup PythonLatencies
    \/ bench \in {"osu_put_bw", "osu_put_bibw"} /\ opt.sync \in Active \cup {"flush_local"}
    \/ bench \in {"osu_put_latency", "osu_acc_latency"} /\ opt.sync = "flush_local"
    \/ bench \in {"osu_oshm_put_bw", "osu_oshm_atomics"}

\* When a clock stops, every message its actor sent has been received, and every
\* remote operation it made has taken effect, in all benchmarks but those above:
\* the times are those of whole transfers, also where a reply, a barrier or the
\* ping of the other side is all that ensures it.
ClockCoversDelivery == "unfinished" \in wrong => StopsEarly

\* No element enters an OpenSHMEM collective with a pSync array that another one
\* is still using in an earlier operation.
PSyncApart == "psync" \notin wrong

\* Benchmarks that prepare or compare memory without having met the others.
TouchedUnguarded ==
    \/ bench \in OshmRate
    \/ /\ opt.validate
       /\ \/ bench \in {"osu_cas_latency", "osu_fop_latency"} /\ opt.sync \notin Active
          \/ bench = "osu_acc_latency" /\ opt.sync = "flush_local"

\* Nobody reads or writes its buffers with loads and stores while a remote
\* operation, its own or another's, may use them, except in those.
TouchAlone == "touched" \in wrong => TouchedUnguarded

Limit ==
    CASE bench = "osu_latency_mt" -> SenderThreads
      [] bench \in {"osu_xccl_bw"} \cup BiBandwidthTest -> 2 * Head(Windows)
      [] OTHER -> Head(Windows)

\* A receiver never has more unexpected messages on a channel than one window,
\* or two where nothing keeps the other side from running one ahead, or one for
\* each thread that sends.
UnexpectedBounded == \A c \in Channels[bench] : Len(queue[c]) <= Limit

\* What the line that is printed divides the time of an actor by.
Reported(b) ==
    CASE b \in CPt2pt -> CPt2ptReported(b)
      [] b \in OtherPt2ptBenchmarks -> OtherPt2ptReported(b)
      [] b \in CCollective -> CCollectiveReported(b)
      [] b \in OtherCollectiveBenchmarks -> OtherCollectiveReported(b)
      [] b \in OneSidedBenchmarks -> OneSidedReported(b, Head(Windows))
      [] b \in PgasBenchmarks -> PgasReported(b)
      [] b = "striding" -> StridingReported(Head(Windows))

HasClock(a) ==
    CASE bench \in CPt2pt -> IsSender(bench, a[1])
      [] bench \in PythonLatencies -> TRUE
      [] bench \in (OtherPt2ptBenchmarks \ PythonLatencies) \cup OneSidedBenchmarks \cup PgasPt2pt
            -> a[1] = 0
      [] bench \in OshmRate -> a[1] < PgasPairs(bench)
      [] bench = "striding" -> a[1] # 0
      [] OTHER -> TRUE

\* In a run without errors the transfers that happened while the clock of an
\* actor ran are as many as the printed rate or latency is computed from, with
\* the warm-ups left out on both sides; but for osu_bw_fan_out, which counts one
\* window for all its receivers.
RateCountsTransfers ==
    Over /\ ~spoiled /\ bench \notin FanOut =>
        \A a \in Actors[bench] : HasClock(a) => clock[a].total = Reported(bench)

\* With -c one failed comparison on one rank, in any size, makes every rank of
\* a point-to-point or collective MPI benchmark in C exit with an error, and
\* nothing else does.  Of osu_latency_mt, whose -c is not modelled, it says
\* nothing: it takes -c on accelerators only, and the errors of its threads
\* never reach its exit code.  The congestion tests have no -c.
ErrorsReported ==
    Over /\ bench \in CPt2pt \cup CCollective =>
        \A a \in Actors[bench] : failed[a] = spoiled
=============================================================================
