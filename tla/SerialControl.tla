---------------------------- MODULE SerialControl ----------------------------
(***************************************************************************)
(* The serial side of VorzeControlServer and everything that calls it:     *)
(*                                                                         *)
(*   - SerialPortControlServer: the list of sessions, the known ports and  *)
(*     the timer that refreshes them;                                      *)
(*   - SerialPortSession: one serial port, its copies of the data being    *)
(*     written, init, stop, setState, sendAsync, sendSync and close;       *)
(*   - HttpConnectSession::path_op, the only client of both;               *)
(*   - the SIGINT/SIGTERM handler of main.                                 *)
(*                                                                         *)
(* Handlers run on the threads of one io_context.  Those of the web strand *)
(* `ex` exclude each other, and so do those of the serial strand           *)
(* `exSerial`; the signal handler is on no strand.  So there are three     *)
(* actors, web, ser and sig, each inside at most one handler at a time,    *)
(* and a handler is split where another actor can see a difference.        *)
(*                                                                         *)
(* Sessions are numbered in the order create() makes them.  create() only  *)
(* appends and stopAll() only clears, so `sessions` is the set of numbers  *)
(* in the list, and list order is numeric order.  Commands are numbered in *)
(* the order their data is copied into sendingData.                        *)
(*                                                                         *)
(* A definition whose comment starts with "Variant" is not part of the     *)
(* model: it is a slip the code might have made, kept to show that the     *)
(* properties would notice it.                                             *)
(***************************************************************************)
EXTENDS Naturals, Sequences, FiniteSets

CONSTANTS
    Port,         \* COM names
    NoPort,       \* the empty serialPortName
    Request,      \* the /op requests that pass path_op's checks (none, as built: CommandDecode)
    NoRequest,
    Threads,      \* threads that run the io_context
    OpenFaults,   \* may opening a free port fail?
    MaxSession,   \* bound: sessions created
    MaxCommand,   \* bound: commands issued before a request is no longer taken
    MaxFind       \* bound: port queries waiting on the web strand

Byte == 0..255
Session == 1..MaxSession
Stop == 0

\* What path_op has decoded: the COM name, whether the mode is "none", and the
\* command byte that setState makes of direct and speed.
Requests == [com : Port, none : BOOLEAN, cmd : Byte]

ASSUME ConstantsOK ==
    /\ NoPort \notin Port
    /\ Request \subseteq Requests
    /\ NoRequest \notin Request
    /\ Threads \in Nat \ {0}
    /\ OpenFaults \in BOOLEAN
    /\ MaxSession \in Nat
    /\ MaxCommand \in Nat
    /\ MaxFind \in Nat \ {0}

VARIABLES
    portsInfo,    \* ports the last successful query found
    finds,        \* queries posted to the web strand and not yet run
    timer,        \* "armed", "queued" (its handler can no longer be cancelled), "null"
    sessions,     \* the list
    created,      \* sessions made so far
    name,         \* serialPortName of each session
    opened,       \* sessions whose serialPort was opened and not closed
    sendingData,  \* copies of data each session holds
    ops,          \* the commands issued: session and byte
    strand,       \* handlers queued on exSerial, oldest first
    driver,       \* writes of each session that the system has not completed
    ser, web, sig,\* the three actors
    last,         \* the last command byte the device on each port received
    phase         \* "up", "exited" (ioc.stop() ran), "crashed"

serialVars == <<name, opened, sendingData, ops, driver, last>>
pollVars == <<portsInfo, finds, timer>>
vars == <<serialVars, pollVars, sessions, created, strand, ser, web, sig, phase>>

-----------------------------------------------------------------------------
(* Handlers queued on the serial strand.                                   *)

InitTask(s, p)   == [k |-> "init", s |-> s, op |-> 0, p |-> p,      ok |-> TRUE]
StopTask(s, o)   == [k |-> "stop", s |-> s, op |-> o, p |-> NoPort, ok |-> TRUE]
DoneTask(s, o, ok) == [k |-> "done", s |-> s, op |-> o, p |-> NoPort, ok |-> ok]
TickTask(ok)     == [k |-> "tick", s |-> 0, op |-> 0, p |-> NoPort, ok |-> ok]

SerIdle == [pc |-> "idle", t |-> TickTask(FALSE)]
WebIdle == [pc |-> "idle", s |-> 0, req |-> NoRequest, op |-> 0]

Head1 == Head(strand)

-----------------------------------------------------------------------------
(* Threads.  asio::dispatch runs the function at once, on the calling      *)
(* thread, when the strand is idle, and queues it when it is not; a caller *)
(* whose function runs at once is inside the handler, pc "inline".         *)
(*                                                                         *)
(* Completions, of a write or of the timer's wait, come to the strand by   *)
(* way of the io_context's queue, when a thread takes them from there.     *)
(* `strand` does not tell those that have come from those that wait, so a  *)
(* function that finds only completions may still run before all of them,  *)
(* and with one thread it does: nobody could have brought one meanwhile.   *)

Completion(t) == t.k \in {"done", "tick"}
OnlyCompletions == \A i \in DOMAIN strand : Completion(strand[i])

\* boost::asio::dispatch(exSerial, t): at once, or behind what is queued.
AtOnce == ser.pc = "idle" /\ OnlyCompletions
MayQueue == ~AtOnce \/ (Threads > 1 /\ strand # <<>>)
Dispatch(t, inline) ==
    IF inline THEN AtOnce /\ strand' = <<t>> \o strand
    ELSE MayQueue /\ strand' = Append(strand, t)

Hosted == web.pc = "inline" \/ sig.pc = "inline"

Busy == (IF web.pc # "idle" THEN {"web"} ELSE {})
    \cup (IF sig.pc \in {"sweep", "inline"} THEN {"sig"} ELSE {})
    \cup (IF ser.pc # "idle" /\ ~Hosted THEN {"ser"} ELSE {})

ThreadFree == phase = "up" /\ Cardinality(Busy) < Threads

\* The serial strand may start the handler at its head.
SerReady(kind) ==
    /\ phase = "up"
    /\ ser.pc = "idle"
    /\ strand # <<>>
    /\ Head1.k = kind
    /\ Hosted \/ ThreadFree

-----------------------------------------------------------------------------
(* SerialPortControlServer: lookups.                                       *)

\* Variant: the list searched from its end.
GetLatest(p) ==
    LET found == {s \in sessions : name[s] = p}
    IN  IF found = {} THEN 0 ELSE CHOOSE s \in found : \A x \in found : s >= x

\* get(): the first session of the list with that serialPortName, 0 if none.
Get(p) ==
    LET found == {s \in sessions : name[s] = p}
    IN  IF found = {} THEN 0 ELSE CHOOSE s \in found : \A x \in found : s <= x

checkNameValid(p) == p \in portsInfo

\* A session object lives while the list, a handler or a pending write holds a
\* shared_ptr to it; its destructor closes the port.
Alive(s) ==
    \/ s \in sessions
    \/ web.s = s
    \/ ser.pc # "idle" /\ ser.t.s = s
    \/ \E i \in DOMAIN strand : strand[i].s = s
    \/ driver[s] # <<>>

\* The system opens a port for one handle at a time.
CanOpen(p) == \A x \in opened : name[x] = p => ~Alive(x)

-----------------------------------------------------------------------------
(* The web strand: path_op of a request that passed the checks.            *)

\* serialPortControlServer->get(comName)
WebLookup(r) ==
    /\ ThreadFree /\ web.pc = "idle"
    /\ LET s == Get(r.com)
       IN  /\ IF s = 0 THEN created < MaxSession ELSE Len(ops) < MaxCommand
           /\ web' = [pc |-> IF s = 0 THEN "create" ELSE "check",
                      s |-> s, req |-> r, op |-> 0]
    /\ UNCHANGED <<serialVars, pollVars, sessions, created, strand, ser, sig, phase>>

\* port->is_open(), and setState(mode, ...): a mode other than "none" only asks the
\* mode manager for a session and drops what it gets.
WebCheck ==
    /\ phase = "up" /\ web.pc = "check"
    /\ web' = IF web.s \in opened /\ web.req.none
              THEN [web EXCEPT !.pc = "send"] ELSE WebIdle
    /\ UNCHANGED <<serialVars, pollVars, sessions, created, strand, ser, sig, phase>>

\* setState, sendCommand and sendAsync up to the copy of the data.
WebSend ==
    /\ phase = "up" /\ web.pc = "send"
    /\ IF web.s \in opened
       THEN /\ ops' = Append(ops, [s |-> web.s, cmd |-> web.req.cmd])
            /\ sendingData' = [sendingData EXCEPT ![web.s] = @ \cup {Len(ops) + 1}]
            /\ web' = [web EXCEPT !.pc = "write", !.op = Len(ops) + 1]
       ELSE web' = WebIdle /\ UNCHANGED <<ops, sendingData>>
    /\ UNCHANGED <<name, opened, driver, last, pollVars, sessions, created, strand, ser,
                   sig, phase>>

\* boost::asio::async_write
WebWrite ==
    /\ phase = "up" /\ web.pc = "write"
    /\ driver' = [driver EXCEPT ![web.s] = Append(@, web.op)]
    /\ web' = WebIdle
    /\ UNCHANGED <<name, opened, sendingData, ops, last, pollVars, sessions, created,
                   strand, ser, sig, phase>>

\* Variant: create() posts init instead of dispatching it.
WebCreatePost ==
    /\ phase = "up" /\ web.pc = "create"
    /\ web' = WebIdle
    /\ IF checkNameValid(web.req.com)
       THEN /\ created' = created + 1
            /\ sessions' = sessions \cup {created + 1}
            /\ strand' = Append(strand, InitTask(created + 1, web.req.com))
       ELSE UNCHANGED <<created, sessions, strand>>
    /\ UNCHANGED <<serialVars, pollVars, ser, sig, phase>>

\* Variant: create() that does not call init.
WebCreateBare ==
    /\ phase = "up" /\ web.pc = "create"
    /\ web' = WebIdle
    /\ IF checkNameValid(web.req.com)
       THEN created' = created + 1 /\ sessions' = sessions \cup {created + 1}
       ELSE UNCHANGED <<created, sessions>>
    /\ UNCHANGED <<serialVars, pollVars, strand, ser, sig, phase>>

\* Variant: path_op creates sessions until it finds one, and none has its name yet.
WebCreateAgain ==
    /\ phase = "up" /\ web.pc = "create"
    /\ IF checkNameValid(web.req.com)
       THEN /\ created' = created + 1
            /\ sessions' = sessions \cup {created + 1}
            /\ strand' = Append(strand, InitTask(created + 1, web.req.com))
            /\ UNCHANGED web
       ELSE web' = WebIdle /\ UNCHANGED <<created, sessions, strand>>
    /\ UNCHANGED <<serialVars, pollVars, ser, sig, phase>>

\* create(comName): push_back and init, which dispatches to the serial strand.
WebCreate ==
    /\ phase = "up" /\ web.pc = "create"
    /\ IF checkNameValid(web.req.com)
       THEN LET s == created + 1
            IN  /\ created' = s
                /\ sessions' = sessions \cup {s}
                /\ \E inline \in BOOLEAN :
                      /\ Dispatch(InitTask(s, web.req.com), inline)
                      /\ web' = IF inline THEN [web EXCEPT !.pc = "inline", !.s = s]
                                ELSE WebIdle
       ELSE web' = WebIdle /\ UNCHANGED <<created, sessions, strand>>
    /\ UNCHANGED <<serialVars, pollVars, ser, sig, phase>>

\* SerialPortFinder::find runs the query; its callback stores the ports, or
\* leaves them when the query failed.
PortsFound ==
    /\ ThreadFree /\ web.pc = "idle" /\ finds > 0
    /\ finds' = finds - 1
    /\ portsInfo' \in SUBSET Port
    /\ UNCHANGED <<serialVars, timer, sessions, created, strand, ser, web, sig, phase>>

-----------------------------------------------------------------------------
(* The serial strand.                                                      *)

\* init on its strand, up to the name: nothing to close, open() sets the name first.
InitName ==
    /\ SerReady("init")
    /\ name' = [name EXCEPT ![Head1.s] = Head1.p]
    /\ ser' = [pc |-> "open", t |-> Head1]
    /\ strand' = Tail(strand)
    /\ UNCHANGED <<opened, sendingData, ops, driver, last, pollVars, sessions, created,
                   web, sig, phase>>

\* Variant: an open that failed is tried again later.
InitOpenRetry ==
    /\ phase = "up" /\ ser.pc = "open"
    /\ \/ CanOpen(ser.t.p) /\ opened' = opened \cup {ser.t.s} /\ UNCHANGED strand
       \/ /\ OpenFaults \/ ~CanOpen(ser.t.p)
          /\ strand' = Append(strand, ser.t) /\ UNCHANGED opened
    /\ ser' = SerIdle
    /\ web' = IF web.pc = "inline" THEN WebIdle ELSE web
    /\ UNCHANGED <<name, sendingData, ops, driver, last, pollVars, sessions, created,
                   sig, phase>>

\* serialPort.open(); the result only reaches noop.
InitOpen ==
    /\ phase = "up" /\ ser.pc = "open"
    /\ \/ CanOpen(ser.t.p) /\ opened' = opened \cup {ser.t.s}
       \/ (OpenFaults \/ ~CanOpen(ser.t.p)) /\ UNCHANGED opened
    /\ ser' = SerIdle
    /\ web' = IF web.pc = "inline" THEN WebIdle ELSE web
    /\ UNCHANGED <<name, sendingData, ops, driver, last, pollVars, sessions, created,
                   strand, sig, phase>>

\* Variant: the blocking write overtakes the writes that are pending.
StopWriteFirst ==
    /\ SerReady("stop")
    /\ strand' = Tail(strand)
    /\ driver' = [driver EXCEPT ![Head1.s] = <<Head1.op>> \o @]
    /\ ser' = [pc |-> "write", t |-> Head1]
    /\ UNCHANGED <<name, opened, sendingData, ops, last, pollVars, sessions, created, web,
                   sig, phase>>

\* Variant: close() does not wait for its write.
StopWriteAsync ==
    /\ SerReady("stop")
    /\ strand' = Tail(strand)
    /\ IF Head1.s \in opened
       THEN /\ driver' = [driver EXCEPT ![Head1.s] = Append(@, Head1.op)]
            /\ ser' = [pc |-> "close", t |-> Head1]
            /\ UNCHANGED sig
       ELSE /\ sig' = IF sig.pc = "inline" THEN [sig EXCEPT !.pc = "sweep"] ELSE sig
            /\ UNCHANGED <<driver, ser>>
    /\ UNCHANGED <<name, opened, sendingData, ops, last, pollVars, sessions, created, web,
                   phase>>

\* The function sendSync dispatched: start the blocking write.  When the port is no
\* longer open it calls back and leaves the copy of the data where it is.
StopWrite ==
    /\ SerReady("stop")
    /\ strand' = Tail(strand)
    /\ IF Head1.s \in opened
       THEN /\ driver' = [driver EXCEPT ![Head1.s] = Append(@, Head1.op)]
            /\ ser' = [pc |-> "write", t |-> Head1]
            /\ UNCHANGED sig
       ELSE /\ sig' = IF sig.pc = "inline" THEN [sig EXCEPT !.pc = "sweep"] ELSE sig
            /\ UNCHANGED <<driver, ser>>
    /\ UNCHANGED <<name, opened, sendingData, ops, last, pollVars, sessions, created, web,
                   phase>>

\* Variant: closing drops every copy, those of pending writes too.
StopCloseClear ==
    /\ phase = "up" /\ ser.pc = "close"
    /\ sendingData' = [sendingData EXCEPT ![ser.t.s] = {}]
    /\ opened' = opened \ {ser.t.s}
    /\ ser' = SerIdle
    /\ sig' = IF sig.pc = "inline" THEN [sig EXCEPT !.pc = "sweep"] ELSE sig
    /\ UNCHANGED <<name, ops, driver, last, pollVars, sessions, created, strand, web, phase>>

\* After the blocking write: erase the copy, and close()'s callback closes the port.
StopClose ==
    /\ phase = "up" /\ ser.pc = "close"
    /\ sendingData' = [sendingData EXCEPT ![ser.t.s] = @ \ {ser.t.op}]
    /\ opened' = opened \ {ser.t.s}
    /\ ser' = SerIdle
    /\ sig' = IF sig.pc = "inline" THEN [sig EXCEPT !.pc = "sweep"] ELSE sig
    /\ UNCHANGED <<name, ops, driver, last, pollVars, sessions, created, strand, web, phase>>

\* Variant: a failed write returns before it erases its copy.
WriteDoneKeep ==
    /\ SerReady("done")
    /\ sendingData' = [sendingData EXCEPT ![Head1.s] = @ \ {x \in {Head1.op} : Head1.ok}]
    /\ strand' = Tail(strand)
    /\ UNCHANGED <<name, opened, ops, driver, last, pollVars, sessions, created, ser, web,
                   sig, phase>>

\* The completion handler of async_write: erase the copy, call back.
WriteDone ==
    /\ SerReady("done")
    /\ sendingData' = [sendingData EXCEPT ![Head1.s] = @ \ {Head1.op}]
    /\ strand' = Tail(strand)
    /\ UNCHANGED <<name, opened, ops, driver, last, pollVars, sessions, created, ser, web,
                   sig, phase>>

\* The timer's handler: a cancelled wait returns; else timer->expires_at, through a
\* pointer that stop() may have reset.
Tick ==
    /\ SerReady("tick")
    /\ strand' = Tail(strand)
    /\ ser' = IF Head1.ok /\ timer # "null" THEN [pc |-> "tick", t |-> Head1] ELSE SerIdle
    /\ phase' = IF Head1.ok /\ timer = "null" THEN "crashed" ELSE phase
    /\ UNCHANGED <<serialVars, pollVars, sessions, created, web, sig>>

\* Variant: the next wait is not started.
TickArmOnce ==
    /\ phase = "up" /\ ser.pc = "tick"
    /\ ser' = SerIdle
    /\ finds' = finds + 1
    /\ UNCHANGED <<serialVars, portsInfo, timer, sessions, created, strand, web, sig, phase>>

\* flushPortInfo: post the query, wait for the timer again.
TickArm ==
    /\ phase = "up" /\ ser.pc = "tick"
    /\ ser' = SerIdle
    /\ finds' = finds + 1
    /\ timer' = IF timer = "null" THEN "null" ELSE "armed"
    /\ phase' = IF timer = "null" THEN "crashed" ELSE phase
    /\ UNCHANGED <<serialVars, portsInfo, sessions, created, strand, web, sig>>

-----------------------------------------------------------------------------
(* The signal handler: SerialPortControlServer::stop(), then a delay on    *)
(* the web strand before ioc.stop().                                       *)

\* timer->cancel() and timer.reset()
Signal ==
    /\ ThreadFree /\ sig.pc = "idle"
    /\ strand' = IF timer = "armed" THEN Append(strand, TickTask(FALSE)) ELSE strand
    /\ timer' = "null"
    /\ sig' = [pc |-> "sweep", at |-> 0]
    /\ UNCHANGED <<serialVars, portsInfo, finds, sessions, created, ser, web, phase>>

ToClose == {s \in sessions : s > sig.at}

\* Variant: the loop advances twice.
SweepCloseSkip ==
    /\ phase = "up" /\ sig.pc = "sweep"
    /\ \E s \in ToClose :
        /\ \A x \in ToClose : s <= x
        /\ IF s \in opened
           THEN /\ ops' = Append(ops, [s |-> s, cmd |-> Stop])
                /\ sendingData' = [sendingData EXCEPT ![s] = @ \cup {Len(ops) + 1}]
                /\ \E inline \in BOOLEAN :
                      /\ Dispatch(StopTask(s, Len(ops) + 1), inline)
                      /\ sig' = [pc |-> IF inline THEN "inline" ELSE "sweep", at |-> s + 1]
           ELSE /\ sig' = [sig EXCEPT !.at = s + 1]
                /\ UNCHANGED <<ops, sendingData, strand>>
    /\ UNCHANGED <<name, opened, driver, last, pollVars, sessions, created, ser, web, phase>>

\* stopAll: close() of the next session: is_open(), and stop() through sendSync.
SweepClose ==
    /\ phase = "up" /\ sig.pc = "sweep"
    /\ \E s \in ToClose :
        /\ \A x \in ToClose : s <= x
        /\ IF s \in opened
           THEN /\ ops' = Append(ops, [s |-> s, cmd |-> Stop])
                /\ sendingData' = [sendingData EXCEPT ![s] = @ \cup {Len(ops) + 1}]
                /\ \E inline \in BOOLEAN :
                      /\ Dispatch(StopTask(s, Len(ops) + 1), inline)
                      /\ sig' = [pc |-> IF inline THEN "inline" ELSE "sweep", at |-> s]
           ELSE /\ sig' = [sig EXCEPT !.at = s]
                /\ UNCHANGED <<ops, sendingData, strand>>
    /\ UNCHANGED <<name, opened, driver, last, pollVars, sessions, created, ser, web, phase>>

\* stopAll: sessions.clear(); then asyncDelay(500, ex, ...)
SweepClear ==
    /\ phase = "up" /\ sig.pc = "sweep" /\ ToClose = {}
    /\ sessions' = {}
    /\ sig' = [sig EXCEPT !.pc = "delay"]
    /\ UNCHANGED <<serialVars, pollVars, created, strand, ser, web, phase>>

\* Variant: the process waits until every port is closed.
ExitWhenClosed ==
    /\ ThreadFree /\ sig.pc = "delay" /\ web.pc = "idle" /\ opened = {}
    /\ phase' = "exited"
    /\ UNCHANGED <<serialVars, pollVars, sessions, created, strand, ser, web, sig>>

\* The delay is over: ioc.stop() on the web strand.
Exit ==
    /\ ThreadFree /\ sig.pc = "delay" /\ web.pc = "idle"
    /\ phase' = "exited"
    /\ UNCHANGED <<serialVars, pollVars, sessions, created, strand, ser, web, sig>>

\* std::list without a lock: create() appends while stopAll() iterates, or a web
\* handler walks the list (get, listOpenPortsName) while stopAll() clears it.
\* The race may do no harm, which the other actions show, or crash.
ListRace ==
    /\ phase = "up" /\ sig.pc = "sweep"
    /\ \/ web.pc = "create" /\ checkNameValid(web.req.com)
       \/ web.pc = "idle" /\ ToClose = {} /\ ThreadFree
    /\ phase' = "crashed"
    /\ UNCHANGED <<serialVars, pollVars, sessions, created, strand, ser, web, sig>>

-----------------------------------------------------------------------------
(* Outside src/: the timer's expiry and the system's serial driver.  A     *)
(* completion waits in strand from then on, though the strand may be idle  *)
(* until a thread comes for it; Dispatch takes this into account.          *)

TimerExpire ==
    /\ phase = "up" /\ timer = "armed" /\ finds < MaxFind
    /\ timer' = "queued"
    /\ strand' = Append(strand, TickTask(TRUE))
    /\ UNCHANGED <<serialVars, portsInfo, finds, sessions, created, ser, web, sig, phase>>

\* The oldest pending write of a session ends: the device received it, or it failed
\* (always, once the port is closed).  A blocking write returns to its handler, an
\* asynchronous one queues its completion handler.
DriverDone(s, ok) ==
    /\ phase = "up" /\ driver[s] # <<>>
    /\ ok => s \in opened
    /\ LET o == Head(driver[s])
       IN  /\ last' = IF ok THEN [last EXCEPT ![name[s]] = ops[o].cmd] ELSE last
           /\ IF ser.pc = "write" /\ ser.t.op = o
              THEN /\ ser' = [pc |-> "close", t |-> [ser.t EXCEPT !.ok = ok]]
                   /\ UNCHANGED strand
              ELSE /\ strand' = Append(strand, DoneTask(s, o, ok))
                   /\ UNCHANGED ser
    /\ driver' = [driver EXCEPT ![s] = Tail(@)]
    /\ UNCHANGED <<name, opened, sendingData, ops, pollVars, sessions, created, web, sig,
                   phase>>

-----------------------------------------------------------------------------
\* main up to ioc.run(): start() has posted the first query and armed the timer.
Init ==
    /\ portsInfo = {} /\ finds = 1 /\ timer = "armed"
    /\ sessions = {} /\ created = 0
    /\ name = [s \in Session |-> NoPort]
    /\ opened = {}
    /\ sendingData = [s \in Session |-> {}]
    /\ ops = <<>>
    /\ strand = <<>>
    /\ driver = [s \in Session |-> <<>>]
    /\ ser = SerIdle /\ web = WebIdle /\ sig = [pc |-> "idle", at |-> 0]
    /\ last = [p \in Port |-> Stop]
    /\ phase = "up"

WebStep == WebCheck \/ WebSend \/ WebWrite \/ WebCreate
SerStep ==
    \/ InitName \/ InitOpen \/ StopWrite \/ StopClose \/ WriteDone \/ Tick \/ TickArm
SigStep == SweepClose \/ SweepClear

Halted == phase # "up" /\ UNCHANGED vars

Next ==
    \/ \E r \in Request : WebLookup(r)
    \/ WebCheck \/ WebSend \/ WebWrite \/ WebCreate \/ PortsFound
    \/ InitName \/ InitOpen \/ StopWrite \/ StopClose \/ WriteDone \/ Tick \/ TickArm
    \/ Signal \/ SweepClose \/ SweepClear \/ Exit \/ ListRace
    \/ TimerExpire
    \/ \E s \in Session, ok \in BOOLEAN : DriverDone(s, ok)
    \/ Halted

Spec == Init /\ [][Next]_vars
-----------------------------------------------------------------------------
(* Properties.                                                             *)

Kinds == {"init", "stop", "done", "tick"}
Tasks == [k : Kinds, s : Session \cup {0}, op : Nat, p : Port \cup {NoPort}, ok : BOOLEAN]
Sers == [pc : {"idle", "open", "write", "close", "tick"}, t : Tasks]
Webs == [pc : {"idle", "check", "send", "write", "create", "inline"},
         s : Session \cup {0}, req : Request \cup {NoRequest}, op : Nat]
Sigs == [pc : {"idle", "sweep", "inline", "delay"}, at : Session \cup {0}]

\* Types of the variables.
TypeOK ==
    /\ portsInfo \subseteq Port
    /\ finds \in Nat
    /\ timer \in {"armed", "queued", "null"}
    /\ sessions \subseteq Session
    /\ created \in 0..MaxSession
    /\ name \in [Session -> Port \cup {NoPort}]
    /\ opened \subseteq Session
    /\ sendingData \in [Session -> SUBSET Nat]
    /\ ops \in Seq([s : Session, cmd : Byte])
    /\ strand \in Seq(Tasks)
    /\ driver \in [Session -> Seq(Nat)]
    /\ ser \in Sers
    /\ web \in Webs
    /\ sig \in Sigs
    /\ last \in [Port -> Byte]
    /\ phase \in {"up", "exited", "crashed"}

\* Where a command of session s can be while its data is needed.
Carries(t) == t.k \in {"stop", "done"}
Carried(q, s) == {q[i].op : i \in {j \in DOMAIN q : Carries(q[j]) /\ q[j].s = s}}
InStrand(s) == Carried(strand, s)
Entries(q) == {q[i] : i \in DOMAIN q}
InDriver(s) == Entries(driver[s])
InHandler(s) ==
    (IF ser.pc = "close" /\ ser.t.s = s THEN {ser.t.op} ELSE {})
    \cup (IF web.pc = "write" /\ web.s = s THEN {web.op} ELSE {})
Outstanding(s) == InStrand(s) \cup InDriver(s) \cup InHandler(s)

\* sendAsync and sendSync keep a copy of the data "alive during write"
\* (SerialPortControlServer.h:190, 227): a session holds the copy of every command
\* that some queue or handler still refers to, and of no other, so no write reads
\* freed data and no copy is leaked, whatever the three actors do.
SendingDataExact == \A s \in Session : sendingData[s] = Outstanding(s)

\* With several threads create() can make two sessions for one COM name, since a session
\* gets its name only when init runs (SerialPortControlServer.h:436-446).  If a free port
\* always opens, the one that get() returns is the one that has the port: until the
\* shutdown no open port is out of the reach of requests.
OpenFound == sig.pc = "idle" => \A s \in opened : Get(name[s]) = s

\* Once a COM name resolves to a session, it resolves to the same one until stopAll
\* clears the list, though later sessions may carry the same name.
LookupStable ==
    [][\A p \in Port : Get(p) # 0 /\ sessions \subseteq sessions' => Get(p)' = Get(p)]_vars

\* flushPortInfo: the chain of timer waits neither forks nor dies.  Until stop()
\* there is exactly one wait, queued handler or running handler, and at most one after.
TicksAlive ==
    Cardinality({i \in DOMAIN strand : strand[i].k = "tick" /\ strand[i].ok})
    + (IF timer = "armed" THEN 1 ELSE 0) + (IF ser.pc = "tick" THEN 1 ELSE 0)
PollChain ==
    phase = "up" => IF timer = "null" THEN TicksAlive <= 1 ELSE TicksAlive = 1

\* close() is to "send end op" and "then close it" (SerialPortControlServer.h:262-265):
\* when it closes a port whose stop command was written, stop is the last command the
\* device received.
StopIsLast ==
    [][\A s \in opened \ opened' : ser.t.ok => last[name[s]] = Stop]_vars

\* stopAll is to close every session before it drops them (SerialPortControlServer.h:
\* 466-473): the port of none that the sweep has passed, and of none that the list has
\* lost, is open or opens later, unless its stop command is on the way; whatever init was
\* still to come.
StopPending(s) ==
    \/ ser.pc \in {"write", "close"} /\ ser.t.s = s
    \/ \E i \in DOMAIN strand : strand[i].k = "stop" /\ strand[i].s = s
NoneLeftBehind ==
    \A s \in opened : s <= sig.at \/ s \notin sessions => StopPending(s)

-----------------------------------------------------------------------------
(* Fairness.  The io_context runs ready handlers from a FIFO queue and each *)
(* strand runs its own in order, so a handler that waits for a thread or for *)
(* the web strand again and again is run at last (SF); a handler that runs  *)
(* goes on, and a pending write ends (WF).  Requests, the timer and the     *)
(* signal owe nothing.                                                      *)

Fairness ==
    /\ WF_vars(WebStep) /\ WF_vars(SigStep)
    /\ SF_vars(SerStep) /\ SF_vars(PortsFound) /\ SF_vars(Exit)
    /\ \A s \in Session : WF_vars(\E ok \in BOOLEAN : DriverDone(s, ok))

FairSpec == Spec /\ Fairness

\* After the signal the process ends.
ShutdownEnds == sig.pc # "idle" ~> phase # "up"

\* The data of every command is released, which is when its callback runs.
DataReleased ==
    \A s \in Session : sendingData[s] # {} ~> (sendingData[s] = {} \/ phase # "up")

\* A session that create() put in the list gets its name, so that get() can find it.
SessionNamed ==
    \A s \in Session : (created >= s) ~> (name[s] # NoPort \/ phase # "up")
=============================================================================
