------------------------------ MODULE Lifecycle ------------------------------
(***************************************************************************)
(* The process from main() to its exit code: the configuration, the        *)
(* servers' construction, which may fail half way, the threads that run    *)
(* the io_context and what an exception does to them, and the two accept   *)
(* loops with their connections, which share the process's descriptors.    *)
(*                                                                         *)
(* Ended operations queue their handlers in the io_context, first in first *)
(* out, and a free thread takes the oldest.  Handlers of one strand could  *)
(* run here at the same time: none of them reads what another one writes.  *)
(* What a request and a connection do is in HttpConnections, EmbedSession  *)
(* and CommandDecode, the ports and the length of a shutdown in            *)
(* SerialControl and PortPolling.                                          *)
(*                                                                         *)
(* A definition whose comment starts with "Variant" is not part of the     *)
(* model: it is a slip that a property would notice.                       *)
(***************************************************************************)
EXTENDS ConfigLoader, Sequences, FiniteSets

CONSTANTS
    Trees,            \* configuration files
    HardwareThreads,  \* what hardware_concurrency() may return, 0 when it does not know
    Client,           \* clients of the two servers
    MaxFd             \* connections for which the system gives descriptors

ASSUME LimitsOK == HardwareThreads \subseteq Nat /\ MaxFd \in Nat \ {0}
ASSUME TreesOK == \A t \in Trees : IsTree(t)

Server == {"control", "embed"}
Dynamic == {49152, 49153}    \* ports that the system chooses for port 0

VARIABLES
    tree,       \* the tree that load() reads, empty afterwards
    config,     \* Parse of it
    pc,         \* main: "load", "control", "embed", "threads", "run", "stopped", "exited"
    code,       \* exit code, without its sign
    bound,      \* of each server: the port it listens on, -1 when it does not
    op,         \* its async_accept: "none", "pending", "ok", "error", "fatal" (over, with
                \* its handler due), "stopped"
    threads,    \* threads in ioc.run()
    pool,       \* whether they are a thread_group
    thrown,     \* exceptions that left a handler
    io,         \* handlers due, oldest first
    running,    \* handlers that a thread runs
    client,     \* of each client: "away", "waiting", "accepted", "session", "gone"
    at,         \* the server it connected to
    asked,      \* clients whose request has been read
    sig         \* "none", "due", "delay", "over"

setup == <<tree, config, bound>>
run == <<threads, pool, thrown>>
conns == <<op, client, at, asked>>
vars == <<setup, pc, code, run, io, running, conns, sig>>

\* A handler due or running: an end of accept of a server, a request read or the
\* deadline of a client, the signal's, ioc.stop().
Item(k, of) == [k |-> k, of |-> of]
Items ==
    [k : {"accept"}, of : Server] \cup [k : {"request", "deadline"}, of : Client]
    \cup [k : {"sig", "exit"}, of : {"main"}]
Due(x) == x \in running \/ \E i \in DOMAIN io : io[i] = x

InUse == {c \in Client : client[c] \in {"accepted", "session"}}
Free == Cardinality(InUse) < MaxFd
Up == pc = "run"

-----------------------------------------------------------------------------
(* main() up to ioc.run()                                                  *)

Exit(n) == pc' = "exited" /\ code' = n

\* The file is missing or is no JSON: read_json throws.
LoadThrows ==
    /\ pc = "load" /\ Exit(1)
    /\ UNCHANGED <<setup, run, io, running, conns, sig>>

\* load(); the tree is a local of it.
Load ==
    /\ pc = "load" /\ pc' = "control"
    /\ config' = Parse(tree) /\ tree' = Empty
    /\ UNCHANGED <<code, bound, run, io, running, conns, sig>>

\* Whether bind and listen succeed: not on a foreign address.  Both servers reuse addresses,
\* which on Windows lets them listen on one port; another process may keep it from them.
Binds(host) == IF host = "here" THEN BOOLEAN ELSE {FALSE}
Listens(s, port) ==
    \E p \in IF port = 0 THEN Dynamic \ {bound[r] : r \in Server} ELSE {port} :
        bound' = [bound EXCEPT ![s] = p]

\* WebControlServer: make_address, or the acceptor's constructor, throws.
ControlThrows ==
    /\ pc = "control"
    /\ FALSE \in Binds(config.controlServerHost)
    /\ Exit(1)
    /\ UNCHANGED <<setup, run, io, running, conns, sig>>

\* The servers listen from here on, although nothing runs their handlers yet.
Control ==
    /\ pc = "control" /\ pc' = "embed"
    /\ TRUE \in Binds(config.controlServerHost)
    /\ Listens("control", config.controlServerPort)
    /\ op' = [op EXCEPT !["control"] = "pending"]
    /\ UNCHANGED <<tree, config, code, run, io, running, client, at, asked, sig>>

NoEmbed ==
    /\ pc = "embed" /\ ~config.enable /\ pc' = "threads"
    /\ UNCHANGED <<setup, code, run, io, running, conns, sig>>

\* make_address throws, with the control server listening.
EmbedThrows ==
    /\ pc = "embed" /\ config.enable /\ config.host = "name" /\ Exit(1)
    /\ UNCHANGED <<setup, run, io, running, conns, sig>>

\* EmbedWebServer's constructor only reports an error, and start() accepts all the same.
Embed ==
    /\ pc = "embed" /\ config.enable /\ config.host # "name" /\ pc' = "threads"
    /\ \E b \in Binds(config.host) :
          IF b THEN Listens("embed", config.port) ELSE UNCHANGED bound
    /\ op' = [op EXCEPT !["embed"] = "pending"]
    /\ UNCHANGED <<tree, config, code, run, io, running, client, at, asked, sig>>

\* Variant: a pool for any configured number.
ThreadsPool ==
    /\ pc = "threads" /\ pc' = "run"
    /\ \E hc \in HardwareThreads :
          LET n == IF hc < config.threadNum THEN hc ELSE config.threadNum
          IN  pool' = (n > 1) /\ threads' = IF n > 1 THEN n - 1 ELSE 1
    /\ UNCHANGED <<setup, code, thrown, io, running, conns, sig>>

\* More than two: a thread_group of one less.  Otherwise main's own thread.
Threads ==
    /\ pc = "threads" /\ pc' = "run"
    /\ \E hc \in HardwareThreads :
          LET n == IF hc < config.threadNum THEN hc ELSE config.threadNum
          IN  pool' = (n > 2) /\ threads' = IF n > 2 THEN n - 1 ELSE 1
    /\ UNCHANGED <<setup, code, thrown, io, running, conns, sig>>

-----------------------------------------------------------------------------
(* Outside the program: the clients, the system, the clock.                *)

\* A client connects: it waits in the backlog of a server that listens, of either if they
\* share the port.
Connect(c) ==
    /\ pc \in {"embed", "threads", "run"} /\ client[c] = "away"
    /\ client' = [client EXCEPT ![c] = "waiting"]
    /\ \E s \in Server : bound[s] # -1 /\ at' = [at EXCEPT ![c] = s]
    /\ UNCHANGED <<setup, pc, code, run, io, running, op, asked, sig>>

\* The backlog of a server.
Waiting(s) == {c \in Client : client[c] = "waiting" /\ at[c] = s}

Ends(s, how) ==
    /\ Up /\ op[s] = "pending"
    /\ op' = [op EXCEPT ![s] = how]
    /\ io' = Append(io, Item("accept", s))
    /\ UNCHANGED <<setup, pc, code, run, running, at, asked, sig>>

AcceptEnds(s) ==
    /\ Ends(s, "ok") /\ Free
    /\ \E c \in Waiting(s) : client' = [client EXCEPT ![c] = "accepted"]

\* With no descriptor left, or on a socket that does not listen, accept fails at once.
AcceptFails(s) ==
    /\ Ends(s, "error")
    /\ bound[s] = -1 \/ (~Free /\ Waiting(s) # {})
    /\ UNCHANGED client

\* The waiting connection broke: accept reports its error, host_unreachable say.
AcceptBreaks(s) ==
    /\ Ends(s, "fatal")
    /\ \E c \in Waiting(s) : client' = [client EXCEPT ![c] = "gone"]

BecomesDue(x) ==
    /\ Up /\ ~Due(x)
    /\ io' = Append(io, x)
    /\ UNCHANGED <<setup, pc, code, run, running, op, client, at, sig>>

\* A request has been read from a client that the control server has accepted.
Ask(c) ==
    /\ at[c] = "control" /\ client[c] = "session" /\ c \notin asked
    /\ BecomesDue(Item("request", c)) /\ asked' = asked \cup {c}

\* Variant: the deadline is cancelled when the request has been read.
DeadlineUnasked(c) ==
    /\ client[c] = "session" /\ c \notin asked
    /\ BecomesDue(Item("deadline", c)) /\ UNCHANGED asked

\* A session's deadline, if nothing ended it before.
Deadline(c) == client[c] = "session" /\ BecomesDue(Item("deadline", c)) /\ UNCHANGED asked

Signal ==
    /\ Up /\ sig = "none" /\ sig' = "due"
    /\ io' = Append(io, Item("sig", "main"))
    /\ UNCHANGED <<setup, pc, code, run, running, conns>>

DelayOver ==
    /\ Up /\ sig = "delay" /\ sig' = "over"
    /\ io' = Append(io, Item("exit", "main"))
    /\ UNCHANGED <<setup, pc, code, run, running, conns>>

-----------------------------------------------------------------------------
(* The threads and the handlers.                                           *)

Take ==
    /\ Up /\ io # <<>> /\ Cardinality(running) < threads
    /\ running' = running \cup {Head(io)} /\ io' = Tail(io)
    /\ UNCHANGED <<setup, pc, code, run, conns, sig>>

\* The handler returns to ioc.run().
Returns(x) == x \in running /\ running' = running \ {x}

\* http_server and on_accept: a session is made, and another accept begun.
Accepted(s) ==
    /\ op[s] = "ok" /\ Returns(Item("accept", s))
    /\ client' = [c \in Client |-> IF at[c] = s /\ client[c] = "accepted"
                                   THEN "session" ELSE client[c]]
    /\ op' = [op EXCEPT ![s] = "pending"]
    /\ UNCHANGED <<setup, pc, code, run, io, at, asked, sig>>

\* Variant: on_accept tries until it succeeds, and does not return before.
NotAcceptedLoop(s) ==
    /\ op[s] = "error" /\ Returns(Item("accept", s)) /\ bound[s] # -1
    /\ op' = [op EXCEPT ![s] = "pending"]
    /\ UNCHANGED <<setup, pc, code, run, io, client, at, asked, sig>>

\* Variant: on_accept returns after an error.
NotAcceptedReturn(s) ==
    /\ op[s] \in {"error", "fatal"} /\ Returns(Item("accept", s))
    /\ op' = [op EXCEPT ![s] = IF s = "control" THEN "pending" ELSE @]
    /\ UNCHANGED <<setup, pc, code, run, io, client, at, asked, sig>>

\* Nothing but another accept; of "fatal" errors only on_accept makes nothing.
NotAccepted(s) ==
    /\ op[s] = "error" \/ (op[s] = "fatal" /\ s = "embed")
    /\ Returns(Item("accept", s))
    /\ op' = [op EXCEPT ![s] = "pending"]
    /\ UNCHANGED <<setup, pc, code, run, io, client, at, asked, sig>>

\* http_server returns.
GivesUp ==
    /\ op["control"] = "fatal" /\ Returns(Item("accept", "control"))
    /\ op' = [op EXCEPT !["control"] = "stopped"]
    /\ UNCHANGED <<setup, pc, code, run, io, client, at, asked, sig>>

\* process_request; the connection waits for its deadline, at the latest.
Answers(c) ==
    /\ Returns(Item("request", c))
    /\ UNCHANGED <<setup, pc, code, run, io, conns, sig>>

\* process_request throws, as regex_match may, through ioc.run(): the end of main's own
\* thread, with the process, or of one of the pool.  interrupt_all() ends no other
\* thread, since none waits at an interruption point; join_all() returns after the last.
Throws(c) ==
    /\ Returns(Item("request", c))
    /\ threads' = threads - 1 /\ thrown' = thrown + 1
    /\ IF threads = 1 THEN Exit(IF pool THEN 0 ELSE 1) ELSE UNCHANGED <<pc, code>>
    /\ UNCHANGED <<setup, pool, io, conns, sig>>

Closed(c) ==
    /\ Returns(Item("deadline", c))
    /\ client' = [client EXCEPT ![c] = "gone"]
    /\ UNCHANGED <<setup, pc, code, run, io, op, at, asked, sig>>

\* The signal's handler: stop() and asyncDelay; it does not wait for a second signal.
Stop ==
    /\ Returns(Item("sig", "main")) /\ sig' = "delay"
    /\ UNCHANGED <<setup, pc, code, run, io, conns>>

\* ioc.stop(): what is queued is dropped, running handlers come to their end.
IocStop ==
    /\ Returns(Item("exit", "main")) /\ pc' = "stopped"
    /\ UNCHANGED <<setup, code, run, io, conns, sig>>

Leave ==
    /\ pc = "stopped" /\ running = {} /\ Exit(0)
    /\ UNCHANGED <<setup, run, io, running, conns, sig>>

-----------------------------------------------------------------------------
Init ==
    /\ tree \in Trees /\ config = Parse(Empty)
    /\ pc = "load" /\ code = 0
    /\ bound = [s \in Server |-> -1] /\ op = [s \in Server |-> "none"]
    /\ threads = 0 /\ pool = FALSE /\ thrown = 0
    /\ io = <<>> /\ running = {}
    /\ client = [c \in Client |-> "away"] /\ at = [c \in Client |-> "control"] /\ asked = {}
    /\ sig = "none"

Main == Load \/ Control \/ NoEmbed \/ EmbedThrows \/ Embed \/ Threads \/ Take \/ Leave

Handler(x) ==
    /\ x \in running
    /\ \/ x.k = "accept" /\ (Accepted(x.of) \/ NotAccepted(x.of) \/ (x.of = "control" /\ GivesUp))
       \/ x.k = "request" /\ (Answers(x.of) \/ Throws(x.of))
       \/ x.k = "deadline" /\ Closed(x.of)
       \/ x.k = "sig" /\ Stop
       \/ x.k = "exit" /\ IocStop

Next ==
    \/ LoadThrows \/ Load \/ ControlThrows \/ Control
    \/ NoEmbed \/ EmbedThrows \/ Embed \/ Threads
    \/ \E c \in Client : Connect(c) \/ Ask(c) \/ Deadline(c)
    \/ \E s \in Server : AcceptEnds(s) \/ AcceptFails(s) \/ AcceptBreaks(s)
    \/ Signal \/ DelayOver
    \/ Take \/ Leave
    \/ \E s \in Server : Accepted(s) \/ NotAccepted(s)
    \/ GivesUp
    \/ \E c \in Client : Answers(c) \/ Throws(c) \/ Closed(c)
    \/ Stop \/ IocStop

Spec == Init /\ [][Next]_vars

\* The queue is served in order, whatever is in it, handlers return, accepts that can
\* end do, and time passes; clients and signals owe nothing.
FairSpec ==
    /\ Spec /\ WF_vars(Main) /\ WF_vars(DelayOver)
    /\ \A x \in Items : WF_vars(Handler(x))
    /\ \A s \in Server : WF_vars(AcceptEnds(s) \/ AcceptFails(s))
    /\ \A c \in Client : WF_vars(Deadline(c))
-----------------------------------------------------------------------------
\* Types of the variables.
TypeOK ==
    /\ config \in Config
    /\ pc \in {"load", "control", "embed", "threads", "run", "stopped", "exited"}
    /\ code \in {0, 1}
    /\ bound \in [Server -> -1..MaxPort]
    /\ op \in [Server -> {"none", "pending", "ok", "error", "fatal", "stopped"}]
    /\ threads \in Nat /\ pool \in BOOLEAN /\ thrown \in Nat
    /\ io \in Seq(Items) /\ running \subseteq Items /\ Cardinality(running) <= threads
    /\ client \in [Client -> {"away", "waiting", "accepted", "session", "gone"}]
    /\ at \in [Client -> Server] /\ asked \subseteq Client
    /\ sig \in {"none", "due", "delay", "over"}

\* The page finds its backend (ConfigLoader.cpp:100-106): the port that it is told, unless
\* one was configured, is the one that the control server listens on, whatever the file
\* says or fails to say about either.  A controlServerPort of 0 is the exception: the
\* system chooses the port, and the page is told 0.
BackendFound ==
    Up /\ config.enable /\ config.backendPort = 0 /\ config.controlServerPort # 0
        => config.backend = bound["control"]

\* Each server has one accept under way, never none and never two (on_accept: "Accept
\* another connection", EmbedWebServer.cpp:446): through a bind that failed, descriptors
\* that ran out, broken connections and threads that died.  Only http_server may stop.
OneLoop ==
    Up => \A s \in Server :
        LET due == Cardinality({i \in DOMAIN io : io[i] = Item("accept", s)})
                   + Cardinality({x \in running : x = Item("accept", s)})
        IN  CASE op[s] = "none" -> due = 0 /\ s = "embed" /\ ~config.enable
              [] op[s] = "stopped" -> due = 0 /\ s = "control"
              [] op[s] = "pending" -> due = 0
              [] OTHER -> due = 1

\* The process ends for a cause: a failed start, an exception on main's own thread, a
\* signal, or one exception for each thread of a pool, of which there are at least two:
\* a single bad request never ends a pool, nor is it taken for a normal end.
EndsForCause ==
    pc = "exited" =>
        \/ code = 1 /\ ~pool /\ threads = 0
        \/ code = 0 /\ (sig = "over" \/ (pool /\ threads = 0 /\ thrown >= 2))

\* A client is served, though the other server fails to accept over and over, descriptors
\* run out, threads die or the servers share a port; unless the loop that has its
\* connection gave up, or the process ends.
Served ==
    \A c \in Client :
        client[c] = "waiting" ~>
            client[c] # "waiting" \/ op[at[c]] = "stopped" \/ pc = "exited"

\* A descriptor comes back, also when a request's handler threw: the connection's
\* deadline still holds it and closes it.
Freed == \A c \in Client : client[c] = "accepted" ~> client[c] = "gone" \/ pc = "exited"
=============================================================================
