# VorzeControlServer in TLA+

VorzeControlServer is an HTTP server that drives Vorze devices on serial ports.
These modules model its concurrent core and the algorithms around it; TLC checks
them on small instances and TLAPS proves the main results for every size. Paths
are relative to the repository's root; the code is in `src/`.

## The system

One `io_context` runs everything (`main.cpp:127`). `main` makes two strands: `ex`
for the web side and the port queries, `exSerial` for the serial side. The signal
handler is on no strand. With the default `threadNum` (0), and up to 2, one thread
runs the `io_context`; with n > 2 it is n - 1 threads (`main.cpp:214-249`).

| component | state | operations | talks to |
|---|---|---|---|
| `SerialPortSession` | the port, its name, the copies of data being written | `init`, `open`, `close`, `stop`, `setState`, `sendCommand`, `sendAsync`, `sendSync` | the system's serial driver, `ActionModeManager` |
| `SerialPortControlServer` | list of sessions, known ports, timer | `start`, `stop`, `stopAll`, `flushPortInfo`, `create`, `get`, `checkNameValid`, `listOpenPortsName` | sessions, `SerialPortFinder` |
| `SerialPortFinder` | none | `find`, `promiseFind` (a blocking WMI query posted to `ex`) | its callback |
| `WebControlServer` | the acceptor and one socket | the accept loop | `HttpConnectSession` |
| `HttpConnectSession` | socket, request, response, 60 s deadline | `start`, read, `process_request`, `path_op`, write, deadline | `SerialPortControlServer` |
| `ActionModeManager`, `ActionSession` | library of recorded actions (always empty in this version), start time | `init`, `getNowAction` | none |
| `EmbedWebServer` | acceptor, sessions with a 30 s timeout | accept, read, `handle_request`, write | files |
| `ConfigLoader`, `AsyncDelay`, `error_info` | configuration; one-shot timers; an error text | `load`, `asyncDelay` | `main` |
| `main` | strands, threads, exit code | start-up, `ioc.run()`, signal handler | all of them |

Behaviours that are hard: a web request calls into the serial session from the web
strand while the serial strand works on it; the signal handler sweeps the list of
sessions while requests append to it; a session is in the list before it has its
name or its port; completions and timer handlers are queued and run later than what
they report; deadlines race answers. `PROJECT.json` lists these hazards at their
lines, with the properties that watch them, or the reason none does.

What makes each component correct:

- sessions: a copy of the data lives exactly as long as its write; the device is left
  stopped when its port is closed;
- control server: a COM name resolves to one session, the one with the port; no session
  escapes the sweep of a shutdown; the chain of timer waits neither forks nor dies;
- HTTP side: no operation waits without a deadline; every connection is let go; the
  accept loop has one accept under way; a valid command is accepted and its byte
  means what was asked;
- actions: the item played is the one the time asks for;
- port list: fresh, never replaced by an older one, and no burden on the web strand;
- process: up as a whole or gone; a bad request, a broken listener or a lack of
  descriptors costs no other client its service for good.

## Modules

| module | models | proofs |
|---|---|---|
| `SerialControl` | `SerialPortControlServer`, `SerialPortSession`, their client `path_op`, the signal handler | `SerialControlProofs` |
| `CommandChannel` | what the serial side promises: the abstract specification | |
| `SerialRefinement` | the mapping by which `SerialControl` implements `CommandChannel` | `SerialRefinementProofs` |
| `PortPolling` | `flushPortInfo`, its timer, `SerialPortFinder`'s query and promise, the length of a shutdown | `PortPollingProofs` |
| `CommandDecode` | request to branch and status; direction and speed to the command byte | `CommandDecodeProofs` |
| `HttpConnections` | `WebControlServer`'s accept loop and the life of its connections | `HttpConnectionsProofs` |
| `ActionSchedule` | `ActionSession::getNowAction` | `ActionScheduleProofs` |
| `EmbedSession` | a connection of `EmbedWebServer`: `EmbedWebServerSession`, `handle_request` | `EmbedSessionProofs` |
| `ConfigLoader` | `ConfigLoader::parse_json` | a lemma of `LifecycleProofs` |
| `Lifecycle` | `main` from the configuration to the exit code; both servers' constructors and accept loops; threads, exceptions, descriptors | `LifecycleProofs` |

`Lifecycle` extends `ConfigLoader`, `SerialRefinement` extends `SerialControl` and
instantiates `CommandChannel`. `MCSerialControl` (which extends `SerialRefinement`),
`MCCommandDecode`, `MCActionSchedule` and `MCLifecycle` give the constants their
values for TLC. Definitions whose comment begins with "Variant" are not part of a
model: each is an action or operator as a slip would have left it (a copy that is not
erased, a wait that is not started again), and TLC finds the property violated when
it takes the place of the real one.

### SerialControl

There are three actors: `web` (a handler of strand `ex`), `ser` (one of `exSerial`)
and `sig` (the signal handler). Each is inside at most one handler. A handler is one
action where nobody can see between its parts, and several where somebody can:

- `path_op`: `WebLookup` (`get`), `WebCheck` (`is_open`, `setState`'s mode), `WebSend`
  (`setState`, `sendCommand`, `sendAsync` up to the copy), `WebWrite` (`async_write`),
  or `WebCreate` (`create`: name check, `push_back`, `init`'s dispatch).
- `init` on the serial strand: `InitName`, `InitOpen`. The options it sets change no
  state of the program. The branches for a session that is already open, in `init` and
  in `open`, are left out: `create` is the only caller, on a new session.
- `close` and `stop`: `SweepClose` (`is_open`, the copy, the dispatch), `StopWrite` (the
  second `is_open`, the blocking write), `StopClose` (erase the copy, call back, close
  the port). `WriteDone` is `async_write`'s completion handler.
- `flushPortInfo`: `Tick` (the handler up to `timer->expires_at`) and `TickArm`, where
  stop() may have reset `timer` in between; dereferencing null is phase `"crashed"`.
- the signal: `Signal` (cancel and reset the timer), `SweepClose` for each session,
  `SweepClear`, then the 500 ms delay and `Exit` (`ioc.stop()`).
- `ListRace`: the unlocked `std::list` is walked by one actor while another changes
  it. The undefined outcomes are "no harm" (the other actions) and a crash.

`asio::dispatch` (`Dispatch`) runs its function at once when the strand is idle: the
caller is then at pc `"inline"` and lends its thread (`Hosted`, `Busy`, `ThreadFree`).
Otherwise it queues the function. A completion, of a write or of the timer's wait, waits
in the `io_context`'s queue until a thread brings it to its strand, which may be idle
meanwhile; `strand` holds both kinds, so with nothing but completions in it a function
may run before all of them (`AtOnce`), and with several threads it may also be queued
behind them, since one of these may have brought one (`MayQueue`). With `Threads = 1` it
always runs at once, and a handler that started cannot be interleaved with another
actor's. Outside the program are `TimerExpire`, `CanOpen` and `DriverDone`: a port opens for one
handle at a time, a write ends well or badly, in order per port, and whole.

`Request` is the set of requests that get past `path_op`'s checks. **As the code
stands it is empty**: see `CommandDecode`. The theorems hold for any `Request`; the
runs use the requests the checks are meant to let through, because with the empty set
the serial side would stay idle. So the runs say how the serial side behaves once a
request reaches it, which in this version it does not.

Not in the model: the data race on `serialPortName` (assigned on one strand, read on
the other; here the assignment is atomic). The promise's `then` and the length of a
query are in `PortPolling`.

### CommandChannel and SerialRefinement

`CommandChannel` says what the serial side is for, without strands, threads, queues and
pointers. A session gets its port once (`Assign`) and opens at most once (`Settle`);
while it is open it accepts commands (`Accept`); each reaches the device at most once
(`Finish`), its data is held until then and let go later (`Release`); a port closes only
with the release of a stop command whose write has ended (`Close`).

`SerialRefinement` maps `SerialControl` to it: the state of a session from `opened` and
`init`'s progress, a command waits while a copy of its data is held and no handler has
its completion, and it has ended from then until the copy is erased. `ChannelSpec` is
checked as a property of both large runs, so with any number of threads up to three and
with opens that fail. It does not say that the stop command is the *last* one: with two
threads it is not (`stop_then_close`).

### PortPolling

`SerialControl` lets the timer fire at any time; here time counts. A query takes up to
`slowest`, during which it keeps a thread and the web strand; everything else takes no
time. The strands are asio's: a strand with handlers is one entry of the `io_context`'s
FIFO queue, and in its turn runs the handlers it held when the turn began. `Tick`,
`Find`, `Then` and `Wait` are the timer's handler, separated where another thread can
come between: the query can be over before `then()` is attached. `PM_MULTITHREAD` makes
`then` and `resolve` exclude each other, so each is one step. The branch for a build
without PromiseCpp does not compile (line 411) and is not modelled. `Signal` and
`AsyncDelay` are the signal handler around the sweep.

### CommandDecode

`_targetDirect` and `_targetSpeed` go through `boost::lexical_cast<uint8_t>`. `uint8_t`
is a character type, so the conversion takes the single character of a text and gives
its code, and refuses any other length. `"1"` is 49. The check `direct == 1 ||
direct == 0` can hold only for the characters 0 and 1, which the HTTP parser refuses in
a target, and nothing decodes `%01`. A text is therefore its length and the code of its
first character, and `Code`, any subset of 33..255, is an assumption about the parser.

The regular expression and the splitting of the query are abstracted to what
`create_response` distinguishes: `"/"`, the path `/op` with the set of keys given, and
anything else. What a call of the branch "get" throws (`get`, `create`, `setState`) is
caught like a bad cast, so `Statuses` has 400 for it beside 200.

### HttpConnections

Everything is on the strand `ex`, so a handler is one action, and the interleaving is
in the queue: a request, a failure, the expiry of the deadline or the end of a write
queues a handler, and those ahead of it run first. The deadline may close the socket
while the request is already queued; the request is then still carried out and its
response fails at once. A connection is let go when no operation, timer or handler
holds its `shared_ptr`. A failed read leaves the connection to its deadline, as in the
code, and so does a `process_request` that throws (`ReadThrows`). The end of the process
is the subject of `SerialControl` and `Lifecycle`.

### ActionSchedule

`getNowAction` up to the search, one action per halving of `std::upper_bound`, and the
return or one of the two exceptions, the one for a clock that went back among them; the
model's clock does not. Time passes meanwhile. The actions are sorted, as `ActionInfo`
asks, and not empty and of positive length, since the code reads the last item and
divides by its `timeTick`; nothing checks either. `round` and
`played` are history variables for `PlaysInOrder`.

### EmbedSession

A session runs on a strand of its own and has one operation at a time, so the end of an
operation and its handler are one step. `OnRead` answers a GET of `/backend` at once;
`handle_request` is `Check` (method, form of the target, `canonical()`, root, extension)
and `Open` (`body.open` and the response), because files come and go between the two.
`OnWrite` reads again or closes; `Timeout` is the 30 s of `do_read`, which cover request
and response, and any other error. The client sends requests without waiting for
answers and may end its side. A target is the backend path, a page, any other path or
one that is refused by its form; headers and contents are left out.

### ConfigLoader and Lifecycle

`Parse` turns the tree of the file into the values that `main` uses. `get` falls back to
the default for a key that is absent and for a value that does not convert; the stream
conversion to an unsigned type takes a sign, so -1 is 65535 for a port and the largest
`size_t` for `threadNum`, and 70000 is no port at all.

`Lifecycle` follows `main`: `Load`, `Control`, `Embed`, `Threads`, each with the way it
fails. A bind may fail or not (`Binds`), and fails on a foreign address; both servers set
`reuse_address`, with which Windows lets both listen on one port, and the system then
gives a client to either (`at`). The control server's constructor throws when it cannot
listen; the embedded one only logs and accepts on a socket that does not listen, which fails at once, again and
again (`AcceptFails`, `NotAccepted`). Then handlers run: `Take` gives the oldest to a
free thread, and the handler's own action runs it. Sessions are reduced to a descriptor,
a request that may throw and a deadline. `Throws` ends a thread: main's own with exit
code -1 (here 1), one of the pool without a replacement; `interrupt_all()` reaches no
thread, since none waits at a boost interruption point. Strands are left out, as no
handler here reads what another writes. An exception while a server makes a session
(memory) is not modelled, nor a signal before the handler is installed.

## Runs

| run | bounds | shows |
|---|---|---|
| `serial_single` | 1 thread, 2 ports, 3 sessions, 2 commands, ports open when free | copies, the poll chain, the sweep, the stop command and `ChannelSpec` in the default configuration |
| `serial_multi` | 3 threads, 1 port, 2 sessions, 2 commands, opens may fail, any mode | types, `SendingDataExact`, `LookupStable`, `ChannelSpec` in every interleaving |
| `serial_live` | 2 threads, 1 port, 2 sessions, 1 command, ports open when free | `OpenFound` among two sessions for one port, and the three liveness properties |
| `stop_then_close` | 2 threads, 1 port | a violation: a command behind the stop command |
| `command_decode` | every kind of request with texts up to two of seven characters; all 512 arguments of `setState` | no request reaches a port; the byte is right |
| `bad_direct` | the same | a violation: "0" and "1" take the branch for bad directions |
| `action_schedule` | every sorted action of up to 4 items within 4 ticks, 17 ms at 2 ms a tick | search, no exception, order |
| `http_connections` | 3 connections | deadlines, accepts, release |
| `embed_session` | 2 requests, sent at any time; paths appear and vanish at any time | order of answers, what "not found" means, release |
| `port_polling` | 1 to 3 threads, period 3, delay 1, queries up to 2, 3 or 4, 16 ticks of the clock | queries do not pile up, the ports stay fresh, results in order, when a shutdown ends, what can crash it |
| `lifecycle` | 10 files, 1 or 2 threads, 2 clients of either server, 1 descriptor | the backend's port, accept loops, causes of an end, service beside a failed server, descriptors |
| `missing_file` | 1 request | a violation: a path where nothing is answers "bad request" |

Bounds. Two sessions for one COM name are what a second request before `init` makes,
which takes several threads. With one thread each of the two ports gets its session
before the sweep, which so has two to close, and the third session comes after it. Two
commands put an
asynchronous write beside the stop command on one port, `MaxCommand` limiting only when
requests for an existing session are still taken (stop commands come on top). One waiting query (`MaxFind`) is
enough for the port list to change at any time. Three threads are as many as there are
actors. Seven characters bring a text to each side of every comparison; for actions,
four items give every shape of halving, items of no length and shared ends included,
and 17 ms more than two repetitions of the longest. A third connection is one more than
any race involves. In `port_polling` the queries are shorter than, equal to and longer
than the period, the delay is shorter than each of them, and 16 ticks hold five periods,
after which the pattern of delays repeats. In `lifecycle` one descriptor makes every
second client wait, the two may be of different servers, and two
requests that throw end a pool of two; each file is unusual in one or two keys. Two
requests put one behind another that is read, handled or closing.

**What holds only with one thread.** `StopIsLast`, `NoneLeftBehind`: with a second thread
`StopIsLast` fails (below), and a session whose `init` is under way when the sweep
passes it opens behind it and is never stopped.

**What holds only when free ports open, and until the shutdown.** `OpenFound`: after a
transient failure the first session stays in the list, named and closed, and hides a
later one that did open; and behind the sweep a second session may open the port that
the first has just left.

**Findings.** (1) `stop_then_close`: `close()` promises "send end op" "then close it"
(`SerialPortControlServer.h:262-265`); `sendAsync` starts its write on the web strand's
thread, so with two threads a `setState` that passed `is_open()` before the `close()` of
its session can write behind the stop command, and the device is left moving. As the
code stands no request gets that far (2), so this waits for the checks to be mended.
(2) `bad_direct`: see `CommandDecode`. (3) `missing_file`:
`handle_request` announces "Handle the case where the file doesn't exist"
(`EmbedWebServer.cpp:219-221`) with `not_found`, but `canonical()` (line 176) has failed
before on such a path, and the answer is `bad_request`.

Also shown by the models, without a promise to compare it with: a timer handler queued
when `stop()` resets the timer crashes the process (line 418), with one thread too
(`CrashOnlyQueuedTick` says that nothing else does); requests served in the 500 ms after
the sweep start devices that nothing stops; with several threads and queries longer than
the period the queries pile up and the delay of a shutdown waits for all of them
(`Backlog` and `ExitInTime` hold with one thread or shorter queries); an embedded server
that cannot listen keeps a thread busy for ever, though it starves nobody (`Served`); a
pool whose threads were all ended by exceptions exits with code 0; `controlServerPort` 0
leaves the page with backend port 0.

### Fairness

`serial_live`: the `io_context` takes handlers from a FIFO queue and a strand runs its
own in order, so a handler that is ready again and again runs at last: strong fairness
of the serial strand's steps, of `PortsFound` and of `Exit`, which wait for a free thread
or for the web strand. A handler that has begun goes on, and a pending write ends:
weak fairness of `WebStep`, `SigStep` and `DriverDone`. Requests, the timer and the
signal owe nothing. A crash counts as an end in all three properties.
`http_connections`: the strand runs what is queued and a deadline expires, both weak;
peers owe nothing, and whether an accept ever ends is left open. Deadlock is not
checked there: with every connection released the model rests.
`embed_session`: a handler that runs goes on (`Check`, `Open`) and a timer expires, all
weak; the client owes nothing.
`lifecycle`: the queue is first in first out and a handler returns, weak fairness of
`Take` and of each handler by itself, since a loop of one must not stand for progress of
another; an accept that can end does, deadlines and the delay pass. Clients connect once
each: with new clients for ever the one descriptor could always go to the other server.
Signals and requests owe nothing.

## Proofs

Every safety property that a passing run checks is a theorem about every value of the
constants, under the named assumptions beside them. Two hold for one thread only,
as their run does, and one needs ports that open when they are free.

**`SerialControlProofs`**, any number of threads.
`TypeCorrect`: types.
`CopiesExact`: `SendingDataExact`. The equation between the copies and the places where
a command can be is not inductive alone. `DataInv` adds that a command is in one place
at a time (strand, driver, a handler), so that erasing one copy removes the last
reference; `StopInv` adds that a session gets at most one stop command and that its port
is still open when that runs, which is why `sendSync`'s early return leaks nothing.
`LookupsStable`: `LookupStable`, from `NameInv`: sessions get their names in the order of
the list, because `init`s are queued in order, so no earlier session takes a name later.
`PollsChained`: `PollChain`, from `PollInv`: an armed wait, a queued handler and a running
one are a link each, and only one of the three places holds one; the count of the
property is the size of a set with that one element.

**`SerialControlProofs`**, names, the sweep and the stop command. The three theorems share
`HeldInv`: the invariants above, `SettledInv` and `StopCommands` (an open port has a name;
the sweep queues stop commands), `IssuedInv` (a command belongs to a session whose `init`
is over) and `OwnerInv` (of the open ports somebody holds, no two have one name, since a
port opens for one handle at a time). To these come

- `FoundInv`, for `OpenPortsFound` (`OpenFound`), any number of threads, without open
  faults: until the signal the list holds every session, nothing closes, and the name of
  a settled session finds an open port. The first session of a name gets the port: when
  it opens, no later one has a name yet.

and, with `Threads = 1`,

- `Alone`: who is at work while another waits. The web strand and the sweep exclude each
  other, and the serial strand works for the one that dispatched to it. `Fronted`: what
  was dispatched is never queued, but at the head of the strand while its dispatcher
  waits. Every use of "with one thread" below goes through them.
- `SweepInv`, for `SweepComplete` (`NoneLeftBehind`): the list holds every session until
  it is cleared, no `init` is to come of a session that the sweep has passed, and the
  ports of these that are open have their stop command on its way (`Swept`).
- `LastInv`, for `StopsAreLast` (`StopIsLast`, an action property): while the blocking
  write runs, the stop command is the last one with the driver of its port, so that the
  driver is empty and stop is what the device received when the callback closes it.

**`SerialRefinementProofs`**. `ChannelImplemented`: `Spec => ChannelSpec`, any number of
threads. Initial states map to initial states; for each action a lemma says which step
of the channel it is, or that it is a stutter (`InitOpenMaps`, `DriverDoneMaps`,
`StopCloseMaps` and so on). They need `TypeInv`, `DataInv`, `StopInv` and `NameInv`, and
`SettledInv` and `StopCommands` to know that `InitName` and `InitOpen` settle a session
once and that what `StopClose` releases is a stop command.

**`CommandDecodeProofs`**. `PortUnreachable`: a text reads as a code from 33 up or not at
all. `CommandsFaithful`: for each direction and speed.

**`ActionScheduleProofs`**. `SearchCorrect` and `NeverThrows` from the loop invariant
`Halving`: what is left of the range is not after the tick, what is right of it is.
`ItemsInOrder`: `PlaysInOrder`, from `PlayedSoFar`: the item played last began at or
before the moment of the call, as a pair (repetition, tick), and the quotient and the
rest by the action's length keep the order of moments.

**`HttpConnectionsProofs`**. `ConnectionsTyped`: types. `DeadlinesAhead`: an operation is
under way only on an open socket (`OpenOnly`), an open socket has its deadline ahead
(`Guarded`), and an operation is under way or its end is queued, once (`InOnePlace`), so
the handler that cancels the deadline runs when nothing is under way. `AcceptsOne`:
`OneAccept`, from `AcceptInv`: the handler of an accept is queued once, as long as
`accept` says so.

**`EmbedSessionProofs`**. `SessionTyped`; `AnsweredInOrder` (`RepliesInOrder`): what was
read and not answered is at most the request in `handle_request`, so the number of
replies is the number of the request (`OneHandled`), and a session that reads has not
announced its end (`StillOpen`). `OnlyVanishedNotFound` (`NotFoundVanished`): `Open`
comes after a `Check` that found the path (`LookedFirst`).

**`PortPollingProofs`**, under `TimesOK`, any number of threads, period, delay and length
of a query. One invariant for seven theorems. `Turns`: a strand with handlers is queued
or running, once. `SerSide`: the timer, its handler and the wait take turns, until
`stop()` takes the timer away. `WebSide`: queries wait in the order of their numbers, all
newer than any result. These give `PollingTyped`, `ResultsAdvance` (`ResultsInOrder`),
`PortsOnWebStrand` (`AssignedOnWeb`) and `CrashNeedsTick` (`CrashOnlyQueuedTick`). For the
times, the clock moves only when every free thread has nothing to do (`Times`). A tick
then finds the queries ended: with several threads because a query is shorter than the
period (`OnTime`), with one because the web strand stands before the serial one in the
queue (`WebFirst`). So `OneQuery` holds, hence `QueriesTakeTurns` (`Backlog`) and
`PollsOnTime` (`Fresh`); a query that begins after the signal begins when its handler
runs (`LastQuery`), hence `ShutdownInTime` (`ExitInTime`).

**`LifecycleProofs`**, under `LimitsOK` and `TreesOK` (`IsTree`: a value that is no
number, text or Boolean as its key asks is left out of the tree, since `get` treats it
like an absent key; a number may be any integer). `ProcessTyped`: with the lemma that `Parse` gives ports of 16 bits
whatever the file says. `PageFindsBackend` (`BackendFound`) from `Told`. `OneAcceptLoop`
(`OneLoop`) from `OnceDue` and `Loops`: an accept's handler is due exactly when the accept
is over, so the handler that begins another finds none under way. `EndHasCause`
(`EndsForCause`) from `Crew` and `Stopping`: a pool begins with two threads at least and
loses one to each exception.

The proofs rest on lemmas stated once: sequences (`TailFacts`, `AppendFacts`,
`JoinFacts` for a function that dispatch puts before or behind the queue), the strand as a set of handlers (`QueuedStep`), what a step does to one variable (`SerMoves`,
`WebSteps`, `OpsStep`, `DriverStep`, `SessionsStep`, `SigSteps`), and the lookup (`StepLookup`,
`FoundStays`).

Only model-checked, because it is out of the prover's reach: liveness under fairness,
that is `serial_live`'s three properties, the release of connections in
`http_connections` and `embed_session`, and `Served` and `Freed` of `lifecycle`. The
three violations are TLC's, too.

## Not modelled

`error_info` (models only tell success from failure); `createJsonString`; the command
line, `print()` and the keys `listenHost` and `listenPort`, which nothing reads; mime
types, headers and the text of extensions in `EmbedWebServer`; `main0`, `main1` (dead
code); the WMI library and its filter; the serial line's settings; the torn read of
`serialPortName` and a frame written in parts.

## Plan

All parts of the first plan are modelled, and every safety property of a run is proved.
What is left:

1. `SerialControl` for several threads: what survives of `NoneLeftBehind` (only a session
   whose `init` was under way when the sweep passed is missed).
2. `Lifecycle`: what the seven keys of the file become, as lemmas about `Parse`.
3. `CommandChannel`: what the abstract specification itself promises (a command reaches
   its device at most once, in one session), as theorems that `SerialControl` inherits.
