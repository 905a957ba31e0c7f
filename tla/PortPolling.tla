----------------------------- MODULE PortPolling -----------------------------
(***************************************************************************)
(* The refreshing of the known ports, in time: flushPortInfo and its timer *)
(* on the serial strand, SerialPortFinder's blocking query and its promise *)
(* on the web strand, and the shutdown, whose delay waits on the web       *)
(* strand behind the queries.                                              *)
(*                                                                         *)
(* Only a query takes time: `now` moves when no thread has anything else   *)
(* to do.  Strands are asio's: a strand with handlers is scheduled once in *)
(* the io_context's queue, and a thread that takes it runs the handlers it *)
(* held when it was scheduled; later ones wait for its next turn.          *)
(*                                                                         *)
(* Queries are numbered, and portsInfo is the number of the query whose    *)
(* result it holds, 0 at first.  The sweep of the sessions is in           *)
(* SerialControl.                                                          *)
(*                                                                         *)
(* A definition whose comment starts with "Variant" is not part of the     *)
(* model: it is a slip that a property would notice.                       *)
(***************************************************************************)
EXTENDS Naturals, Sequences, FiniteSets

CONSTANTS
    ThreadCounts,   \* threads that may run the io_context
    QueryTimes,     \* how long the slowest query may take
    Period,         \* 5000 ms
    Delay,          \* 500 ms
    MaxTime         \* bound: the clock

ASSUME TimesOK ==
    /\ ThreadCounts \subseteq Nat \ {0}
    /\ QueryTimes \subseteq Nat
    /\ Period \in Nat \ {0} /\ Delay \in Nat /\ MaxTime \in Nat

Strand == {"ser", "web"}

VARIABLES
    threads, slowest,  \* the threads and the slowest query of this machine
    now,
    timer, expiry,     \* the timer: "armed", "queued" or "null", and timer->expiry()
    io,                \* the io_context's queue: strands, and the signal handler "sig"
    held,              \* those that a thread is running
    queue, batch,      \* of each strand: its handlers, and how many run in this turn
    ser,               \* inside flushPortInfo: "idle", "post", "attach", "wait"
    web, until,        \* inside a query: "idle", "query", and when it will end
    polls,             \* queries asked for
    attached,          \* the last one whose promise has its then()
    settled,           \* the last one that succeeded before it had
    portsInfo,
    sig,               \* the signal: where it is, since when, whether a tick was under way
    phase,             \* "up", "exited", "crashed"
    asked              \* history: when the last query began

machine == <<threads, slowest>>
promise == <<polls, attached, settled, portsInfo>>
work == <<io, held, queue, batch>>
vars == <<machine, now, timer, expiry, work, ser, web, until, promise, sig, phase, asked>>

-----------------------------------------------------------------------------
(* Strands and threads.                                                    *)

ThreadFree == phase = "up" /\ Cardinality(held) < threads

\* asio::post, and what a timer does when its wait ends.
Post(st, h) ==
    /\ queue' = [queue EXCEPT ![st] = Append(@, h)]
    /\ IF batch[st] = 0
       THEN batch' = [batch EXCEPT ![st] = 1] /\ io' = Append(io, st)
       ELSE UNCHANGED <<batch, io>>
    /\ UNCHANGED held

\* The handler that runs on the strand returns.
Finish(st) ==
    LET rest == Tail(queue[st])
    IN  /\ queue' = [queue EXCEPT ![st] = rest]
        /\ IF batch[st] > 1
           THEN batch' = [batch EXCEPT ![st] = @ - 1] /\ UNCHANGED <<io, held>>
           ELSE /\ batch' = [batch EXCEPT ![st] = Len(rest)]
                /\ io' = IF rest = <<>> THEN io ELSE Append(io, st)
                /\ held' = held \ {st}

Take ==
    /\ ThreadFree /\ io # <<>>
    /\ held' = held \cup {Head(io)}
    /\ io' = Tail(io)
    /\ UNCHANGED <<machine, now, timer, expiry, queue, batch, ser, web, until, promise, sig,
                   phase, asked>>

\* A strand is at the start of a handler of this kind.
Runs(st, kind) == phase = "up" /\ st \in held /\ Head(queue[st]).k = kind
SerStarts(kind) == Runs("ser", kind) /\ ser = "idle"

Handler(kind, n) == [k |-> kind, n |-> n]

-----------------------------------------------------------------------------
(* Time.  A thread that is free waits for the timers that are due.         *)

TimerDue == timer = "armed" /\ now >= expiry
DelayDue == sig.pc = "delay" /\ now >= sig.at + Delay

Urgent ==
    \/ ThreadFree /\ (io # <<>> \/ TimerDue \/ DelayDue)
    \/ held \ {"web"} # {}
    \/ "web" \in held /\ (web = "idle" \/ until <= now)

Advance ==
    /\ phase = "up" /\ ~Urgent /\ now < MaxTime
    /\ now' = now + 1
    /\ UNCHANGED <<machine, timer, expiry, work, ser, web, until, promise, sig, phase, asked>>

TimerExpires ==
    /\ ThreadFree /\ TimerDue
    /\ timer' = "queued"
    /\ Post("ser", Handler("tick", 0))
    /\ UNCHANGED <<machine, now, expiry, ser, web, until, promise, sig, phase, asked>>

\* asyncDelay's timer, on the web strand.
DelayExpires ==
    /\ ThreadFree /\ DelayDue
    /\ sig' = [sig EXCEPT !.pc = "over"]
    /\ Post("web", Handler("exit", 0))
    /\ UNCHANGED <<machine, now, timer, expiry, ser, web, until, promise, phase, asked>>

-----------------------------------------------------------------------------
(* The serial strand: the timer's handler and flushPortInfo.               *)

\* Variant: the timer is not moved on.
TickStay ==
    /\ SerStarts("tick")
    /\ IF timer = "null" THEN phase' = "crashed" /\ UNCHANGED <<expiry, ser>>
       ELSE ser' = "post" /\ UNCHANGED <<expiry, phase>>
    /\ UNCHANGED <<machine, now, timer, work, web, until, promise, sig, asked>>

\* timer->expires_at(timer->expiry() + 5000), through a pointer that may be null.
Tick ==
    /\ SerStarts("tick")
    /\ IF timer = "null" THEN phase' = "crashed" /\ UNCHANGED <<expiry, ser>>
       ELSE expiry' = expiry + Period /\ ser' = "post" /\ UNCHANGED phase
    /\ UNCHANGED <<machine, now, timer, work, web, until, promise, sig, asked>>

\* Variant: the error is not looked at.
TickAbortedOn ==
    /\ SerStarts("aborted")
    /\ phase' = "crashed"
    /\ UNCHANGED <<machine, now, timer, expiry, work, ser, web, until, promise, sig, asked>>

\* A cancelled wait.
TickAborted ==
    /\ SerStarts("aborted")
    /\ Finish("ser")
    /\ UNCHANGED <<machine, now, timer, expiry, ser, web, until, promise, sig, phase, asked>>

\* Variant: the query is run on the spot.
FindInline ==
    /\ phase = "up" /\ ser = "post"
    /\ polls' = polls + 1 /\ settled' = polls + 1
    /\ ser' = "attach" /\ asked' = now
    /\ UNCHANGED <<machine, now, timer, expiry, work, web, until, attached, portsInfo, sig, phase>>

\* promiseFind and find: the query is posted to the web strand.
Find ==
    /\ phase = "up" /\ ser = "post"
    /\ polls' = polls + 1
    /\ Post("web", Handler("query", polls + 1))
    /\ ser' = "attach"
    /\ UNCHANGED <<machine, now, timer, expiry, web, until, attached, settled, portsInfo, sig,
                   phase, asked>>

\* .then(...): a promise that has been resolved meanwhile calls back here and now.
Then ==
    /\ phase = "up" /\ ser = "attach"
    /\ attached' = polls
    /\ portsInfo' = IF settled = polls THEN polls ELSE portsInfo
    /\ ser' = "wait"
    /\ UNCHANGED <<machine, now, timer, expiry, work, web, until, polls, settled, sig, phase, asked>>

\* Variant: the wait is not started again.
WaitOnce ==
    /\ phase = "up" /\ ser = "wait"
    /\ ser' = "idle" /\ Finish("ser")
    /\ UNCHANGED <<machine, now, timer, expiry, web, until, promise, sig, phase, asked>>

\* timer->async_wait(c)
Wait ==
    /\ phase = "up" /\ ser = "wait"
    /\ ser' = "idle" /\ Finish("ser")
    /\ IF timer = "null" THEN phase' = "crashed" /\ UNCHANGED timer
       ELSE timer' = "armed" /\ UNCHANGED phase
    /\ UNCHANGED <<machine, now, expiry, web, until, promise, sig, asked>>

-----------------------------------------------------------------------------
(* The web strand: the query and the end of the delay.                     *)

QueryBegins ==
    /\ Runs("web", "query") /\ web = "idle"
    /\ asked' = now
    /\ web' = "query" /\ until' \in now..(now + slowest)
    /\ UNCHANGED <<machine, now, timer, expiry, work, ser, promise, sig, phase>>

\* Variant: a query that failed resolves its promise, with no ports.
QueryEndsEmpty ==
    /\ web = "query" /\ Runs("web", "query") /\ until = now
    /\ web' = "idle" /\ until' = 0 /\ Finish("web")
    /\ LET n == Head(queue["web"]).n
       IN  \/ n <= attached /\ portsInfo' = n /\ UNCHANGED settled
           \/ n > attached /\ settled' = n /\ UNCHANGED portsInfo
           \/ portsInfo' = 0 /\ UNCHANGED settled
    /\ UNCHANGED <<machine, now, timer, expiry, ser, polls, attached, sig, phase, asked>>

\* d.resolve(ports) calls back if then() is there; d.reject(e) calls nobody.
QueryEnds ==
    /\ web = "query" /\ Runs("web", "query") /\ until = now
    /\ web' = "idle" /\ until' = 0 /\ Finish("web")
    /\ LET n == Head(queue["web"]).n
       IN  \/ n <= attached /\ portsInfo' = n /\ UNCHANGED settled
           \/ n > attached /\ settled' = n /\ UNCHANGED portsInfo
           \/ UNCHANGED <<portsInfo, settled>>
    /\ UNCHANGED <<machine, now, timer, expiry, ser, polls, attached, sig, phase, asked>>

\* ioc.stop()
Exit ==
    /\ Runs("web", "exit")
    /\ phase' = "exited"
    /\ UNCHANGED <<machine, now, timer, expiry, work, ser, web, until, promise, sig, asked>>

-----------------------------------------------------------------------------
(* SIGINT or SIGTERM.                                                      *)

SignalArrives ==
    /\ phase = "up" /\ sig.pc = "none"
    /\ sig' = [sig EXCEPT !.pc = "queued"]
    /\ io' = Append(io, "sig")
    /\ UNCHANGED <<machine, now, timer, expiry, held, queue, batch, ser, web, until, promise,
                   phase, asked>>

TickUnderWay == timer = "queued" \/ ser # "idle"

\* Variant: the timer goes on.
SignalLax ==
    /\ phase = "up" /\ "sig" \in held /\ sig.pc = "queued"
    /\ sig' = [pc |-> "sweep", at |-> now, tick |-> TickUnderWay]
    /\ UNCHANGED <<machine, now, timer, expiry, work, ser, web, until, promise, phase, asked>>

\* stop(): timer->cancel(), timer.reset()
Signal ==
    /\ phase = "up" /\ "sig" \in held /\ sig.pc = "queued"
    /\ timer' = "null"
    /\ IF timer = "armed" THEN Post("ser", Handler("aborted", 0)) ELSE UNCHANGED work
    /\ sig' = [pc |-> "sweep", at |-> now, tick |-> TickUnderWay]
    /\ UNCHANGED <<machine, now, expiry, ser, web, until, promise, phase, asked>>

\* The sweep is over: asyncDelay(500, ex, ...), and the handler returns.
AsyncDelay ==
    /\ phase = "up" /\ "sig" \in held /\ sig.pc = "sweep"
    /\ sig' = [sig EXCEPT !.pc = "delay"]
    /\ held' = held \ {"sig"}
    /\ UNCHANGED <<machine, now, timer, expiry, io, queue, batch, ser, web, until, promise,
                   phase, asked>>

-----------------------------------------------------------------------------
\* main up to ioc.run(): start() has asked for the first query and armed the timer.
Init ==
    /\ threads \in ThreadCounts /\ slowest \in QueryTimes
    /\ now = 0
    /\ timer = "armed" /\ expiry = Period
    /\ io = <<"web">> /\ held = {}
    /\ queue = [st \in Strand |-> IF st = "web" THEN <<Handler("query", 1)>> ELSE <<>>]
    /\ batch = [st \in Strand |-> IF st = "web" THEN 1 ELSE 0]
    /\ ser = "idle" /\ web = "idle" /\ until = 0
    /\ polls = 1 /\ attached = 1 /\ settled = 0 /\ portsInfo = 0
    /\ sig = [pc |-> "none", at |-> 0, tick |-> FALSE]
    /\ phase = "up" /\ asked = 0

Next ==
    \/ Take \/ Advance \/ TimerExpires \/ DelayExpires
    \/ Tick \/ TickAborted \/ Find \/ Then \/ Wait
    \/ QueryBegins \/ QueryEnds \/ Exit
    \/ SignalArrives \/ Signal \/ AsyncDelay

Spec == Init /\ [][Next]_vars
-----------------------------------------------------------------------------
Kinds == {"tick", "aborted", "query", "exit"}

\* Types of the variables; a strand's turn does not outlast its handlers, who is inside a
\* handler has a thread, and a timer that expired has its handler queued or running.
TypeOK ==
    /\ threads \in ThreadCounts /\ slowest \in QueryTimes
    /\ now \in 0..MaxTime /\ asked \in 0..now
    /\ timer \in {"armed", "queued", "null"} /\ expiry \in Nat
    /\ io \in Seq(Strand \cup {"sig"}) /\ held \subseteq Strand \cup {"sig"}
    /\ queue \in [Strand -> Seq([k : Kinds, n : 0..polls])]
    /\ batch \in [Strand -> Nat] /\ \A st \in Strand : batch[st] <= Len(queue[st])
    /\ ser \in {"idle", "post", "attach", "wait"}
    /\ web \in {"idle", "query"} /\ until \in Nat
    /\ ser # "idle" => "ser" \in held
    /\ web # "idle" => "web" \in held
    /\ timer = "queued" =>
          ser # "idle" \/ \E i \in DOMAIN queue["ser"] : queue["ser"][i].k = "tick"
    /\ polls \in Nat /\ attached \in 0..polls /\ settled \in 0..polls
    /\ portsInfo \in 0..polls
    /\ sig \in [pc : {"none", "queued", "sweep", "delay", "over"}, at : 0..now,
                tick : BOOLEAN]
    /\ phase \in {"up", "exited", "crashed"}

Larger(x, y) == IF x >= y THEN x ELSE y

\* With one thread, or when queries take less than the period.
Paced == threads = 1 \/ slowest < Period

\* Queries do not pile up on the web strand: the next one is asked for when the last has
\* ended, even if each takes longer than the period and the timer catches up tick after
\* tick (SerialPortControlServer.h:418-419).
Backlog ==
    Paced => Cardinality({i \in DOMAIN queue["web"] : queue["web"][i].k = "query"}) <= 1

\* The refreshing keeps pace: the next query begins a period after the last one, or as
\* soon as a slower one ends, whatever delayed the timer's handler.
Fresh ==
    phase = "up" /\ sig.pc \in {"none", "queued"} => now - asked <= Larger(Period, slowest)

\* An older result never replaces a newer one, and a failed query replaces none, whether
\* then() came before the end of the query or after it.
ResultsInOrder == [][portsInfo' >= portsInfo]_vars

\* With one thread portsInfo is assigned on the strand whose requests read it.
AssignedOnWeb == [][threads = 1 /\ portsInfo' # portsInfo => held = {"web"}]_vars

\* The process is gone 500 ms after the signal is handled, or when a query that was
\* asked for before has ended.
ExitInTime ==
    Paced /\ phase = "up" /\ sig.pc \in {"delay", "over"}
        => now - sig.at <= Larger(Delay, slowest)

\* stop() crashes the process only through a timer handler that was queued or running
\* when it reset the timer (SerialPortControlServer.h:393, 418): the handler of the wait
\* that it cancels does no harm.
CrashOnlyQueuedTick == phase = "crashed" => sig.tick
=============================================================================
