--------------------------- MODULE LifecycleProofs ---------------------------
(***************************************************************************)
(* For any configuration files, clients, descriptors and processors: the   *)
(* safety of the process from main() to its exit code.  The argument for   *)
(* the accept loops: an accept's end is due once, from the end until its   *)
(* handler begins another.  For the end: a pool starts with two threads at *)
(* least, and a thread is lost to each exception.                          *)
(***************************************************************************)
EXTENDS Lifecycle, FiniteSetTheorems, TLAPS

Over == {"ok", "error", "fatal"}
Started == {"embed", "threads", "run", "stopped"}

\* A handler is due once.
OnceDue ==
    /\ \A i, j \in DOMAIN io : io[i] = io[j] => i = j
    /\ \A i \in DOMAIN io : io[i] \notin running

\* The servers' accepts: a handler is due exactly when an accept is over, and the servers
\* begin with main().
Loops ==
    /\ \A s \in Server : Due(Item("accept", s)) <=> op[s] \in Over
    /\ op["embed"] # "stopped"
    /\ pc \in {"load", "control"} => op["control"] = "none"
    /\ pc \in {"load", "control", "embed"} => op["embed"] = "none"
    /\ pc \in Started => op["control"] # "none"
    /\ pc \in {"threads", "run"} /\ op["embed"] = "none" => ~config.enable

\* The page is told the port that the control server asks for, and gets.
Told ==
    /\ config.backendPort = 0 => config.backend = config.controlServerPort
    /\ pc \in Started /\ config.controlServerPort # 0
        => bound["control"] = config.controlServerPort

\* The threads that run, and those that an exception ended.
Crew ==
    /\ pc \in {"load", "control", "embed", "threads"} =>
          threads = 0 /\ ~pool /\ thrown = 0 /\ running = {}
    /\ pc \in {"run", "stopped"} =>
          /\ threads >= 1
          /\ IF pool THEN threads + thrown >= 2 ELSE threads = 1
    /\ pc = "exited" => running = {}

\* The signal is handled once, and ioc.stop() comes after it.
Stopping ==
    /\ Due(Item("sig", "main")) => sig = "due"
    /\ Due(Item("exit", "main")) => sig = "over"
    /\ pc = "stopped" => sig = "over"

Inv ==
    /\ TypeOK /\ tree \in Trees \cup {Empty} /\ IsFiniteSet(running)
    /\ OnceDue /\ Loops /\ Told /\ Crew /\ Stopping /\ EndsForCause

-----------------------------------------------------------------------------
(* What load() makes of a file.                                            *)

LEMMA Wraps == ASSUME NEW m \in Nat, NEW n \in Int PROVE n % (m + 1) \in 0..m
OBVIOUS

LEMMA PortRange ==
    MaxPort \in Nat /\ -1 \in -1..MaxPort /\ Dynamic \subseteq -1..MaxPort
BY DEF MaxPort, Dynamic

LEMMA ListensOK ==
    ASSUME bound \in [Server -> -1..MaxPort],
           NEW s \in Server, NEW port \in 0..MaxPort, Listens(s, port)
    PROVE  /\ bound' \in [Server -> -1..MaxPort]
           /\ port # 0 => bound'[s] = port
           /\ \A r \in Server \ {s} : bound'[r] = bound[r]
<1>1. port \in -1..MaxPort
  BY PortRange
<1>2. PICK p \in -1..MaxPort : (port # 0 => p = port) /\ bound' = [bound EXCEPT ![s] = p]
  BY <1>1, PortRange DEF Listens
<1> QED
  BY <1>2

LEMMA PortTyped ==
    ASSUME NEW t, Typed(t), NEW k \in {"controlServerPort", "port", "backendPort"},
           NEW d \in 0..MaxPort
    PROVE  Port(t, k, d) \in 0..MaxPort
<1>1. k \in DOMAIN t => t[k] \in Int
  BY DEF Typed
<1>2. \A n \in Int : n % (MaxPort + 1) \in 0..MaxPort
  BY PortRange, Wraps
<1> QED
  BY <1>1, <1>2 DEF Port, GetUnsigned

LEMMA ParseOK ==
    ASSUME NEW t, IsTree(t)
    PROVE  /\ Parse(t) \in Config
           /\ Parse(t).backendPort = 0 => Parse(t).backend = Parse(t).controlServerPort
<1> DEFINE s == Section(t)
<1>1. Typed(t) /\ Typed(Empty)
  BY DEF IsTree, Typed, Empty
<1>2. Typed(s)
  <2>1. Typed(Get(t, "EmbedWebServerConfig", Empty))
    BY <1>1 DEF IsTree, Get
  <2> QED
    BY <1>1, <2>1 DEF Section
<1>3. 5010 \in 0..MaxPort /\ 5002 \in 0..MaxPort /\ 0 \in 0..MaxPort
  BY DEF MaxPort
<1> HIDE DEF s
<1>4. /\ Port(t, "controlServerPort", 5010) \in 0..MaxPort
      /\ Port(s, "port", 5002) \in 0..MaxPort
      /\ Port(s, "backendPort", 0) \in 0..MaxPort
  BY <1>1, <1>2, <1>3, PortTyped
<1>5. Get(t, "controlServerHost", "here") \in Host /\ Get(s, "host", "here") \in Host
  BY <1>1, <1>2 DEF Get, Typed, Host
<1>6. Get(s, "enable", FALSE) \in BOOLEAN
  BY <1>2 DEF Get, Typed
<1>7. GetUnsigned(t, "threadNum", 0, MaxSize) \in 0..MaxSize
  <2>1. "threadNum" \in DOMAIN t => t["threadNum"] \in Int
    BY <1>1 DEF Typed
  <2>2. MaxSize \in Nat /\ 0 \in 0..MaxSize
    BY MaxSizeOK
  <2>3. \A n \in Int : n % (MaxSize + 1) \in 0..MaxSize
    BY <2>2, Wraps
  <2> QED
    BY <2>1, <2>2, <2>3 DEF GetUnsigned
<1>8. /\ Backend(t) \in 0..MaxPort
      /\ Port(s, "backendPort", 0) = 0 => Backend(t) = Port(t, "controlServerPort", 5010)
  BY <1>4 DEF Backend, s
<1>9. Parse(t) =
         [controlServerHost |-> Get(t, "controlServerHost", "here"),
          controlServerPort |-> Port(t, "controlServerPort", 5010),
          threadNum |-> GetUnsigned(t, "threadNum", 0, MaxSize),
          enable |-> Get(s, "enable", FALSE),
          host |-> Get(s, "host", "here"),
          port |-> Port(s, "port", 5002),
          backendPort |-> Port(s, "backendPort", 0),
          backend |-> Backend(t)]
  BY DEF Parse, s
<1>10. \A a, e \in Host, b, f, g, h \in 0..MaxPort, c \in 0..MaxSize, d \in BOOLEAN :
           [controlServerHost |-> a, controlServerPort |-> b, threadNum |-> c, enable |-> d,
            host |-> e, port |-> f, backendPort |-> g, backend |-> h] \in Config
  BY DEF Config
<1>11. Parse(t) \in Config
  <2> DEFINE a == Get(t, "controlServerHost", "here")
             b == Port(t, "controlServerPort", 5010)
             c == GetUnsigned(t, "threadNum", 0, MaxSize)
             d == Get(s, "enable", FALSE)
             e == Get(s, "host", "here")
             f == Port(s, "port", 5002)
             g == Port(s, "backendPort", 0)
             h == Backend(t)
  <2>1. /\ a \in Host /\ b \in 0..MaxPort /\ c \in 0..MaxSize /\ e \in Host
        /\ f \in 0..MaxPort /\ g \in 0..MaxPort /\ h \in 0..MaxPort
    BY <1>4, <1>5, <1>7, <1>8
  <2>2. d \in BOOLEAN
    BY <1>6, Zenon
  <2>3. Parse(t) =
          [controlServerHost |-> a, controlServerPort |-> b, threadNum |-> c, enable |-> d,
           host |-> e, port |-> f, backendPort |-> g, backend |-> h]
    BY <1>9
  <2> HIDE DEF a, b, c, d, e, f, g, h
  <2> QED
    BY <1>10, <2>1, <2>2, <2>3
<1> QED
  BY <1>8, <1>9, <1>11

LEMMA TreeOK == ASSUME NEW t \in Trees \cup {Empty} PROVE IsTree(t)
BY TreesOK DEF IsTree, Typed, Empty

-----------------------------------------------------------------------------
(* The handlers that are due.                                              *)

LEMMA ItemFacts ==
    /\ \A s \in Server : Item("accept", s) \in Items
    /\ \A c \in Client : Item("request", c) \in Items
    /\ \A c \in Client : Item("deadline", c) \in Items
    /\ Item("sig", "main") \in Items /\ Item("exit", "main") \in Items
    /\ \A k, l, a, b : Item(k, a) = Item(l, b) => k = l /\ a = b
BY DEF Items, Item

LEMMA Appended ==
    ASSUME io \in Seq(Items), NEW x \in Items, ~Due(x), OnceDue,
           io' = Append(io, x), running' = running
    PROVE  /\ io' \in Seq(Items) /\ OnceDue'
           /\ \A y : Due(y)' <=> Due(y) \/ y = x
<1>1. /\ io' \in Seq(Items) /\ Len(io) \in Nat /\ DOMAIN io = 1..Len(io)
      /\ DOMAIN io' = 1..(Len(io) + 1) /\ io'[Len(io) + 1] = x
      /\ \A i \in DOMAIN io : io'[i] = io[i]
  OBVIOUS
<1> DEFINE n == Len(io)
<1>2. n \in Nat /\ DOMAIN io' = DOMAIN io \cup {n + 1} /\ io'[n + 1] = x
  BY <1>1
<1> HIDE DEF n
<1> QED
  BY <1>1, <1>2 DEF Due, OnceDue

LEMMA Removed ==
    ASSUME NEW x, Returns(x), io' = io, OnceDue, IsFiniteSet(running)
    PROVE  /\ OnceDue' /\ IsFiniteSet(running') /\ running' \subseteq running /\ Due(x)
           /\ \A y : Due(y)' <=> Due(y) /\ y # x
           /\ Cardinality(running) \in Nat /\ Cardinality(running') \in Nat
           /\ Cardinality(running) = Cardinality(running') + 1
<1>1. x \in running /\ running' = running \ {x}
  BY DEF Returns
<1>2. /\ IsFiniteSet(running') /\ Cardinality(running) \in Nat /\ Cardinality(running') \in Nat
      /\ Cardinality(running') = Cardinality(running) - 1
  <2>1. IsFiniteSet(running')
    BY <1>1, FS_Subset
  <2>2. Cardinality(running \ {x}) = Cardinality(running) - 1
    BY <1>1, FS_RemoveElement
  <2> QED
    BY <1>1, <2>1, <2>2, FS_CardinalityType
<1>3. \A y : Due(y)' <=> Due(y) /\ y # x
  BY <1>1 DEF Due, OnceDue
<1>4. OnceDue'
  BY <1>1 DEF OnceDue
<1> QED
  BY <1>1, <1>2, <1>3, <1>4 DEF Due

LEMMA Taken ==
    ASSUME TypeOK, OnceDue, IsFiniteSet(running), Take
    PROVE  /\ io' \in Seq(Items) /\ running' \subseteq Items /\ IsFiniteSet(running')
           /\ Cardinality(running') <= threads
           /\ OnceDue' /\ \A y : Due(y)' <=> Due(y)
<1>1. /\ io \in Seq(Items) /\ io # <<>> /\ Cardinality(running) < threads
      /\ running' = running \cup {Head(io)} /\ io' = Tail(io) /\ threads \in Nat
      /\ running \subseteq Items
  BY DEF Take, TypeOK
<1>2. /\ io' \in Seq(Items) /\ Head(io) \in Items /\ Head(io) = io[1]
      /\ Len(io) \in Nat /\ Len(io) >= 1
      /\ DOMAIN io = 1..Len(io) /\ DOMAIN io' = 1..(Len(io) - 1)
      /\ \A i \in DOMAIN io' : i + 1 \in DOMAIN io /\ io'[i] = io[i + 1]
  BY <1>1
<1>3. /\ 1 \in DOMAIN io /\ DOMAIN io' \subseteq Nat
      /\ \A i \in DOMAIN io' : i + 1 # 1
      /\ \A i \in DOMAIN io : i # 1 => i - 1 \in DOMAIN io' /\ (i - 1) + 1 = i
  <2> DEFINE n == Len(io)
  <2>1. n \in Nat /\ n >= 1 /\ DOMAIN io = 1..n /\ DOMAIN io' = 1..(n - 1)
    BY <1>2
  <2> HIDE DEF n
  <2> QED
    BY <2>1
<1>4. \A i \in DOMAIN io : i # 1 => i - 1 \in DOMAIN io' /\ io'[i - 1] = io[i]
  BY <1>2, <1>3
<1>5. \A y : Due(y)' <=> Due(y)
  BY <1>1, <1>2, <1>3, <1>4 DEF Due
<1>6. OnceDue'
  <2>1. \A i, j \in DOMAIN io' : io'[i] = io'[j] => i = j
    <3> SUFFICES ASSUME NEW i \in DOMAIN io', NEW j \in DOMAIN io', io'[i] = io'[j] PROVE i = j
      OBVIOUS
    <3>1. i + 1 = j + 1 /\ i \in Nat /\ j \in Nat
      BY <1>2, <1>3 DEF OnceDue
    <3> QED
      BY <3>1
  <2>2. \A i \in DOMAIN io' : io'[i] \notin running'
    BY <1>1, <1>2, <1>3 DEF OnceDue
  <2> QED
    BY <2>1, <2>2 DEF OnceDue
<1>7. IsFiniteSet(running') /\ Cardinality(running') <= threads
  <2>1. /\ IsFiniteSet(running \cup {Head(io)}) /\ Cardinality(running) \in Nat
        /\ Cardinality(running \cup {Head(io)})
              = IF Head(io) \in running THEN Cardinality(running) ELSE Cardinality(running) + 1
    BY FS_AddElement, FS_CardinalityType
  <2> QED
    BY <1>1, <2>1
<1> QED
  BY <1>1, <1>2, <1>5, <1>6, <1>7

-----------------------------------------------------------------------------
(* One lemma per kind of step.                                             *)

LEMMA InitOK == Init => Inv
<1> SUFFICES ASSUME Init PROVE Inv
  OBVIOUS
<1>1. IsTree(Empty)
  BY DEF IsTree, Typed, Empty
<1>2. /\ config \in Config /\ (config.backendPort = 0 => config.backend = config.controlServerPort)
  BY <1>1, ParseOK DEF Init
<1>3. IsFiniteSet(running) /\ Cardinality(running) = 0
  BY FS_EmptySet DEF Init
<1>4. DOMAIN io = {} /\ io \in Seq(Items)
  BY DEF Init
<1>5. \A x : ~Due(x)
  BY <1>4 DEF Init, Due
<1>6. TypeOK
  <2>1. bound \in [Server -> -1..MaxPort]
    <3>1. -1 \in -1..MaxPort
      BY PortRange
    <3> QED
      BY <3>1 DEF Init
  <2>2. /\ op \in [Server -> {"none", "pending", "ok", "error", "fatal", "stopped"}]
        /\ client \in [Client -> {"away", "waiting", "accepted", "session", "gone"}]
        /\ at \in [Client -> Server]
    BY DEF Init, Server
  <2>3. /\ threads \in Nat /\ thrown \in Nat
        /\ running \subseteq Items /\ Cardinality(running) <= threads
    BY <1>3 DEF Init
  <2>4. pool \in BOOLEAN
    BY Zenon DEF Init
  <2> QED
    BY <1>2, <1>4, <2>1, <2>2, <2>3, <2>4 DEF Init, TypeOK
<1>7. OnceDue /\ Loops /\ Told /\ Crew /\ Stopping /\ EndsForCause
  BY <1>2, <1>4, <1>5
  DEF Init, OnceDue, Loops, Told, Crew, Stopping, EndsForCause, Over, Started, Server
<1> QED
  BY <1>3, <1>6, <1>7 DEF Init, Inv

\* main() before ioc.run().
LEMMA StartOK ==
    Inv /\ (LoadThrows \/ Load \/ ControlThrows \/ Control \/ NoEmbed \/ EmbedThrows \/ Embed) => Inv'
<1> SUFFICES ASSUME Inv PROVE (LoadThrows \/ Load \/ ControlThrows \/ Control
                               \/ NoEmbed \/ EmbedThrows \/ Embed) => Inv'
  OBVIOUS
<1> USE DEF setup, run, conns
<1>1. UNCHANGED <<io, running>> => OnceDue' /\ (\A x : Due(x)' <=> Due(x)) /\ IsFiniteSet(running)'
  BY DEF Inv, OnceDue, Due
<1>2. ASSUME LoadThrows \/ ControlThrows \/ EmbedThrows PROVE Inv'
  <2>1. /\ pc \in {"load", "control", "embed"} /\ pc' = "exited" /\ code' = 1
        /\ UNCHANGED <<setup, run, io, running, conns, sig>>
    BY <1>2 DEF LoadThrows, ControlThrows, EmbedThrows, Exit
  <2>2. TypeOK'
    BY <2>1 DEF Inv, TypeOK
  <2>3. Loops' /\ Told'
    BY <1>1, <2>1 DEF Inv, Loops, Told, Started
  <2>4. Crew' /\ Stopping' /\ EndsForCause'
    BY <1>1, <2>1 DEF Inv, Crew, Stopping, EndsForCause
  <2> QED
    BY <1>1, <2>1, <2>2, <2>3, <2>4 DEF Inv
<1>3. ASSUME Load PROVE Inv'
  <2>1. /\ pc = "load" /\ pc' = "control" /\ config' = Parse(tree) /\ tree' = Empty
        /\ UNCHANGED <<code, bound, run, io, running, conns, sig>>
    BY <1>3 DEF Load
  <2>2. /\ config' \in Config
        /\ config'.backendPort = 0 => config'.backend = config'.controlServerPort
    BY <2>1, TreeOK, ParseOK DEF Inv
  <2>3. TypeOK'
    BY <2>1, <2>2 DEF Inv, TypeOK
  <2>4. Loops' /\ Told'
    BY <1>1, <2>1, <2>2 DEF Inv, Loops, Told, Started
  <2>5. Crew' /\ Stopping' /\ EndsForCause'
    BY <1>1, <2>1 DEF Inv, Crew, Stopping, EndsForCause
  <2> QED
    BY <1>1, <2>1, <2>3, <2>4, <2>5 DEF Inv
<1>4. config.controlServerPort \in 0..MaxPort /\ config.port \in 0..MaxPort
      /\ config.enable \in BOOLEAN
  BY DEF Inv, TypeOK, Config
<1>6. ASSUME Control PROVE Inv'
  <2>1. /\ pc = "control" /\ pc' = "embed"
        /\ Listens("control", config.controlServerPort)
        /\ op' = [op EXCEPT !["control"] = "pending"]
        /\ UNCHANGED <<tree, config, code, run, io, running, client, at, asked, sig>>
    BY <1>6 DEF Control
  <2>2. bound \in [Server -> -1..MaxPort]
        /\ op \in [Server -> {"none", "pending", "ok", "error", "fatal", "stopped"}]
    BY DEF Inv, TypeOK
  <2>3. /\ bound' \in [Server -> -1..MaxPort]
        /\ config.controlServerPort # 0 => bound'["control"] = config.controlServerPort
    BY <1>4, <2>1, <2>2, ListensOK DEF Server
  <2>4. /\ op' \in [Server -> {"none", "pending", "ok", "error", "fatal", "stopped"}]
        /\ op'["control"] = "pending" /\ op'["embed"] = op["embed"]
    BY <2>1, <2>2 DEF Server
  <2>5. TypeOK'
    BY <2>1, <2>3, <2>4 DEF Inv, TypeOK
  <2>6. op["control"] \notin Over
    BY <2>1 DEF Inv, Loops, Over
  <2>7. Loops' /\ Told'
    BY <1>1, <2>1, <2>3, <2>4, <2>6 DEF Inv, Loops, Told, Started, Over, Server
  <2>8. Crew' /\ Stopping' /\ EndsForCause'
    BY <1>1, <2>1 DEF Inv, Crew, Stopping, EndsForCause
  <2> QED
    BY <1>1, <2>1, <2>5, <2>7, <2>8 DEF Inv
<1>7. ASSUME NoEmbed PROVE Inv'
  <2>1. /\ pc = "embed" /\ ~config.enable /\ pc' = "threads"
        /\ UNCHANGED <<setup, code, run, io, running, conns, sig>>
    BY <1>7 DEF NoEmbed
  <2>2. TypeOK'
    BY <2>1 DEF Inv, TypeOK
  <2>3. Loops' /\ Told'
    BY <1>1, <2>1 DEF Inv, Loops, Told, Started
  <2>4. Crew' /\ Stopping' /\ EndsForCause'
    BY <1>1, <2>1 DEF Inv, Crew, Stopping, EndsForCause
  <2> QED
    BY <1>1, <2>1, <2>2, <2>3, <2>4 DEF Inv
<1>8. ASSUME Embed PROVE Inv'
  <2>1. /\ pc = "embed" /\ pc' = "threads"
        /\ bound' = bound \/ Listens("embed", config.port)
        /\ op' = [op EXCEPT !["embed"] = "pending"]
        /\ UNCHANGED <<tree, config, code, run, io, running, client, at, asked, sig>>
    BY <1>8 DEF Embed
  <2>2. bound \in [Server -> -1..MaxPort]
        /\ op \in [Server -> {"none", "pending", "ok", "error", "fatal", "stopped"}]
    BY DEF Inv, TypeOK
  <2>3. bound' \in [Server -> -1..MaxPort] /\ bound'["control"] = bound["control"]
    BY <1>4, <2>1, <2>2, ListensOK DEF Server
  <2>4. /\ op' \in [Server -> {"none", "pending", "ok", "error", "fatal", "stopped"}]
        /\ op'["embed"] = "pending" /\ op'["control"] = op["control"]
    BY <2>1, <2>2 DEF Server
  <2>5. TypeOK'
    BY <2>1, <2>3, <2>4 DEF Inv, TypeOK
  <2>6. op["embed"] \notin Over
    BY <2>1 DEF Inv, Loops, Over
  <2>7. Loops' /\ Told'
    BY <1>1, <2>1, <2>3, <2>4, <2>6 DEF Inv, Loops, Told, Started, Over, Server
  <2>8. Crew' /\ Stopping' /\ EndsForCause'
    BY <1>1, <2>1 DEF Inv, Crew, Stopping, EndsForCause
  <2> QED
    BY <1>1, <2>1, <2>5, <2>7, <2>8 DEF Inv
<1> QED
  BY <1>2, <1>3, <1>6, <1>7, <1>8

LEMMA ThreadsOK == Inv /\ Threads => Inv'
<1> SUFFICES ASSUME Inv, Threads PROVE Inv'
  OBVIOUS
<1> USE DEF setup, conns
<1>1. /\ pc = "threads" /\ pc' = "run"
      /\ UNCHANGED <<setup, code, thrown, io, running, conns, sig>>
  BY DEF Threads
<1>2. PICK n : /\ n \in HardwareThreads \cup {config.threadNum}
               /\ pool' = (n > 2) /\ threads' = IF n > 2 THEN n - 1 ELSE 1
  BY DEF Threads
<1>3. n \in Nat
  BY <1>2, LimitsOK, MaxSizeOK DEF Inv, TypeOK, Config
<1>4. threads' \in Nat /\ threads' >= 1 /\ pool' \in BOOLEAN
      /\ (pool' => threads' >= 2) /\ (~pool' => threads' = 1)
  <2>1. /\ n > 2 => threads' = n - 1 /\ threads' \in Nat /\ threads' >= 2
        /\ ~(n > 2) => threads' = 1
    BY <1>2, <1>3
  <2>2. pool' \in BOOLEAN
    BY <1>2, <1>3
  <2>3. pool' <=> n > 2
    BY <1>2, <1>3
  <2> QED
    BY <2>1, <2>2, <2>3
<1>5. OnceDue' /\ (\A x : Due(x)' <=> Due(x)) /\ IsFiniteSet(running)'
  BY <1>1 DEF Inv, OnceDue, Due
<1>6. running = {} /\ thrown = 0
  BY <1>1 DEF Inv, Crew
<1>7. Cardinality(running') <= threads'
  BY <1>1, <1>4, <1>6, FS_EmptySet
<1>8. TypeOK'
  BY <1>1, <1>4, <1>7 DEF Inv, TypeOK
<1>9. Loops' /\ Told'
  BY <1>1, <1>5 DEF Inv, Loops, Told, Started
<1>10. Crew'
  <2>1. thrown' \in Nat /\ running' = {} /\ threads' \in Nat
    BY <1>1, <1>4, <1>6
  <2>2. threads' >= 2 => threads' + thrown' >= 2
    <3>1. \A u, v \in Nat : u >= 2 => u + v >= 2
      OBVIOUS
    <3> QED
      BY <2>1, <3>1
  <2> QED
    BY <1>1, <1>4, <2>1, <2>2 DEF Crew
<1>11. Stopping' /\ EndsForCause'
  BY <1>1, <1>5 DEF Inv, Stopping, EndsForCause
<1> QED
  BY <1>1, <1>5, <1>8, <1>9, <1>10, <1>11 DEF Inv

\* A step that appends a handler to the queue, or none: main() and the threads are as before.
LEMMA EnvironmentOK ==
    ASSUME Inv, Up,
           \E x \in Items :
              /\ ~Due(x) /\ io' = Append(io, x)
              /\ \/ /\ UNCHANGED <<op, sig>> /\ x.k \in {"request", "deadline"}
                 \/ /\ x = Item("sig", "main") /\ sig' = "due" /\ op' = op
                 \/ /\ x = Item("exit", "main") /\ sig' = "over" /\ op' = op
                 \/ /\ sig' = sig
                    /\ \E s \in Server, how \in Over :
                          x = Item("accept", s) /\ op' = [op EXCEPT ![s] = how],
           sig \notin {"due", "over"} \/ sig' = sig,
           client' \in [Client -> {"away", "waiting", "accepted", "session", "gone"}],
           asked' \subseteq Client, at' = at,
           UNCHANGED <<setup, pc, code, run, running>>
    PROVE  Inv'
<1> USE DEF setup, run, conns
<1>1. PICK x \in Items :
        /\ ~Due(x) /\ io' = Append(io, x)
        /\ \/ /\ UNCHANGED <<op, sig>> /\ x.k \in {"request", "deadline"}
           \/ /\ x = Item("sig", "main") /\ sig' = "due" /\ op' = op
           \/ /\ x = Item("exit", "main") /\ sig' = "over" /\ op' = op
           \/ /\ sig' = sig
              /\ \E s \in Server, how \in Over :
                    x = Item("accept", s) /\ op' = [op EXCEPT ![s] = how]
  OBVIOUS
<1>2. io' \in Seq(Items) /\ OnceDue' /\ \A y : Due(y)' <=> Due(y) \/ y = x
  BY <1>1, Appended DEF Inv, TypeOK
<1>3. /\ op \in [Server -> {"none", "pending", "ok", "error", "fatal", "stopped"}]
      /\ sig \in {"none", "due", "delay", "over"}
      /\ pc = "run" /\ pc' = pc
  BY DEF Inv, TypeOK, Up
<1>4. /\ op' \in [Server -> {"none", "pending", "ok", "error", "fatal", "stopped"}]
      /\ sig' \in {"none", "due", "delay", "over"}
  BY <1>1, <1>3 DEF Over
<1>5. TypeOK'
  BY <1>2, <1>4 DEF Inv, TypeOK
<1>6. Loops'
  <2>1. CASE x.k # "accept" /\ op' = op
    <3>1. \A s \in Server : x # Item("accept", s)
      BY <2>1 DEF Item
    <3>2. \A s \in Server : Due(Item("accept", s))' <=> op'[s] \in Over
      BY <1>2, <2>1, <3>1 DEF Inv, Loops
    <3> QED
      BY <1>3, <2>1, <3>2 DEF Inv, Loops, Started
  <2>2. ASSUME NEW s \in Server, NEW how \in Over,
               x = Item("accept", s), op' = [op EXCEPT ![s] = how]
        PROVE  Loops'
    <3>1. op'[s] = how /\ \A r \in Server \ {s} : op'[r] = op[r]
      BY <1>3, <2>2
    <3>2. \A r \in Server : Due(Item("accept", r))' <=> op'[r] \in Over
      BY <1>2, <2>2, <3>1, ItemFacts DEF Inv, Loops
    <3>3. "control" \in Server /\ "embed" \in Server /\ how \notin {"none", "stopped"}
      BY DEF Server, Over
    <3>4. /\ op'["embed"] # "stopped" /\ op'["control"] # "none"
          /\ op'["embed"] = "none" => ~config.enable
      BY <1>3, <3>1, <3>3 DEF Inv, Loops, Started
    <3> QED
      BY <1>3, <3>2, <3>4 DEF Loops, Started
  <2> QED
    BY <1>1, <2>1, <2>2 DEF Item
<1>7. Told' /\ Crew' /\ EndsForCause' /\ IsFiniteSet(running)'
  BY <1>3 DEF Inv, Told, Crew, EndsForCause
<1>8. Stopping'
  <2>1. Due(Item("sig", "main"))' => sig' = "due"
    BY <1>1, <1>2, ItemFacts DEF Inv, Stopping, Item
  <2>2. Due(Item("exit", "main"))' => sig' = "over"
    BY <1>1, <1>2, ItemFacts DEF Inv, Stopping, Item
  <2> QED
    BY <1>3, <2>1, <2>2 DEF Stopping
<1> QED
  BY <1>2, <1>5, <1>6, <1>7, <1>8 DEF Inv

LEMMA ConnectOK == ASSUME Inv, NEW c \in Client, Connect(c) PROVE Inv'
<1> USE DEF setup, run, conns
<1>1. /\ client' = [client EXCEPT ![c] = "waiting"]
      /\ \E s \in Server : at' = [at EXCEPT ![c] = s]
      /\ UNCHANGED <<setup, pc, code, run, io, running, op, asked, sig>>
  BY DEF Connect
<1>2. \A x : Due(x)' <=> Due(x)
  BY <1>1 DEF Due
<1>3. TypeOK'
  BY <1>1 DEF Inv, TypeOK
<1> QED
  BY <1>1, <1>2, <1>3
  DEF Inv, OnceDue, Loops, Told, Crew, Stopping, EndsForCause

LEMMA AskOK == ASSUME Inv, NEW c \in Client, Ask(c) \/ Deadline(c) PROVE Inv'
<1> USE DEF setup, run, conns
<1>1. PICK x \in Items :
        /\ x.k \in {"request", "deadline"} /\ BecomesDue(x)
        /\ asked' = asked \/ asked' = asked \cup {c}
  <2>1. CASE Ask(c)
    BY <2>1, ItemFacts DEF Ask, Item
  <2>2. CASE Deadline(c)
    BY <2>2, ItemFacts DEF Deadline, Item
  <2> QED
    BY <2>1, <2>2
<1>2. /\ Up /\ ~Due(x) /\ io' = Append(io, x)
      /\ UNCHANGED <<setup, pc, code, run, running, op, client, at, sig>>
  BY <1>1 DEF BecomesDue
<1>3. /\ client' \in [Client -> {"away", "waiting", "accepted", "session", "gone"}]
      /\ asked' \subseteq Client
  BY <1>1, <1>2 DEF Inv, TypeOK
<1> QED
  BY <1>1, <1>2, <1>3, EnvironmentOK

LEMMA EndsOK ==
    ASSUME Inv, NEW s \in Server, AcceptEnds(s) \/ AcceptFails(s) \/ AcceptBreaks(s)
    PROVE  Inv'
<1> USE DEF setup, run, conns
<1>1. PICK how \in Over : Ends(s, how)
  BY DEF AcceptEnds, AcceptFails, AcceptBreaks, Over
<1>2. /\ Up /\ op[s] = "pending" /\ op' = [op EXCEPT ![s] = how]
      /\ io' = Append(io, Item("accept", s))
      /\ UNCHANGED <<setup, pc, code, run, running, at, asked, sig>>
  BY <1>1 DEF Ends
<1>3. client' = client \/ \E c \in Client, v \in {"accepted", "gone"} : client' = [client EXCEPT ![c] = v]
  BY DEF AcceptEnds, AcceptFails, AcceptBreaks, Waiting
<1>4. /\ client' \in [Client -> {"away", "waiting", "accepted", "session", "gone"}]
      /\ asked' \subseteq Client
  BY <1>2, <1>3 DEF Inv, TypeOK
<1>5. ~Due(Item("accept", s)) /\ Item("accept", s) \in Items
  BY <1>2, ItemFacts DEF Inv, Loops, Over
<1> QED
  BY <1>2, <1>4, <1>5, EnvironmentOK

LEMMA SignalOK == Inv /\ (Signal \/ DelayOver) => Inv'
<1> SUFFICES ASSUME Inv, Signal \/ DelayOver PROVE Inv'
  OBVIOUS
<1> USE DEF setup, run, conns
<1>1. /\ client' \in [Client -> {"away", "waiting", "accepted", "session", "gone"}]
      /\ asked' \subseteq Client
  BY DEF Signal, DelayOver, Inv, TypeOK
<1>2. CASE Signal
  <2>1. /\ Up /\ sig = "none" /\ sig' = "due" /\ io' = Append(io, Item("sig", "main"))
        /\ UNCHANGED <<setup, pc, code, run, running, conns>>
    BY <1>2 DEF Signal
  <2>2. ~Due(Item("sig", "main")) /\ Item("sig", "main") \in Items
    BY <2>1, ItemFacts DEF Inv, Stopping
  <2> QED
    BY <1>1, <2>1, <2>2, EnvironmentOK
<1>3. CASE DelayOver
  <2>1. /\ Up /\ sig = "delay" /\ sig' = "over" /\ io' = Append(io, Item("exit", "main"))
        /\ UNCHANGED <<setup, pc, code, run, running, conns>>
    BY <1>3 DEF DelayOver
  <2>2. ~Due(Item("exit", "main")) /\ Item("exit", "main") \in Items
    BY <2>1, ItemFacts DEF Inv, Stopping
  <2> QED
    BY <1>1, <2>1, <2>2, EnvironmentOK
<1> QED
  BY <1>2, <1>3

LEMMA TakeOK == Inv /\ Take => Inv'
<1> SUFFICES ASSUME Inv, Take PROVE Inv'
  OBVIOUS
<1> USE DEF setup, run, conns
<1>1. Up /\ UNCHANGED <<setup, pc, code, run, conns, sig>>
  BY DEF Take
<1>2. /\ io' \in Seq(Items) /\ running' \subseteq Items /\ IsFiniteSet(running')
      /\ Cardinality(running') <= threads
      /\ OnceDue' /\ \A y : Due(y)' <=> Due(y)
  BY Taken DEF Inv
<1>3. TypeOK'
  BY <1>1, <1>2 DEF Inv, TypeOK
<1>4. Loops' /\ Told'
  BY <1>1, <1>2 DEF Inv, Loops, Told
<1>5. Crew' /\ Stopping' /\ EndsForCause'
  BY <1>1, <1>2 DEF Inv, Crew, Stopping, EndsForCause, Up
<1> QED
  BY <1>1, <1>2, <1>3, <1>4, <1>5 DEF Inv

\* A handler that returns, and nothing becomes due with it.
LEMMA HandlerOK ==
    ASSUME Inv, NEW x, Returns(x), UNCHANGED <<setup, pc, code, run, io, at, asked>>,
           client' \in [Client -> {"away", "waiting", "accepted", "session", "gone"}],
           \/ UNCHANGED <<op, sig>> /\ x.k \in {"request", "deadline"}
           \/ x = Item("sig", "main") /\ sig' = "delay" /\ op' = op
           \/ /\ sig' = sig
              /\ \E s \in Server, v \in {"pending", "stopped"} :
                    /\ x = Item("accept", s) /\ op' = [op EXCEPT ![s] = v]
                    /\ v = "stopped" => s = "control"
    PROVE  Inv'
<1> USE DEF setup, run, conns
<1>1. /\ OnceDue' /\ IsFiniteSet(running') /\ running' \subseteq running /\ Due(x)
      /\ \A y : Due(y)' <=> Due(y) /\ y # x
      /\ Cardinality(running) \in Nat /\ Cardinality(running') \in Nat
      /\ Cardinality(running) = Cardinality(running') + 1
  BY Removed DEF Inv
<1>2. /\ op \in [Server -> {"none", "pending", "ok", "error", "fatal", "stopped"}]
      /\ sig \in {"none", "due", "delay", "over"} /\ threads \in Nat
      /\ Cardinality(running) <= threads
  BY DEF Inv, TypeOK
<1>3. pc \in {"run", "stopped"}
  <2>1. running # {}
    BY DEF Returns
  <2> QED
    BY <2>1 DEF Inv, TypeOK, Crew
<1>4. Cardinality(running') <= threads
  BY <1>1, <1>2
<1>5. /\ op' \in [Server -> {"none", "pending", "ok", "error", "fatal", "stopped"}]
      /\ sig' \in {"none", "due", "delay", "over"}
  BY <1>2
<1>6. TypeOK'
  BY <1>1, <1>4, <1>5 DEF Inv, TypeOK
<1>7. Loops'
  <2>1. CASE x.k # "accept" /\ op' = op
    <3>1. \A s \in Server : x # Item("accept", s)
      BY <2>1 DEF Item
    <3>2. \A s \in Server : Due(Item("accept", s))' <=> op'[s] \in Over
      BY <1>1, <2>1, <3>1 DEF Inv, Loops
    <3> QED
      BY <2>1, <3>2 DEF Inv, Loops
  <2>2. ASSUME NEW s \in Server, NEW v \in {"pending", "stopped"},
               x = Item("accept", s), op' = [op EXCEPT ![s] = v],
               v = "stopped" => s = "control"
        PROVE  Loops'
    <3>1. op'[s] = v /\ \A r \in Server \ {s} : op'[r] = op[r]
      BY <1>2, <2>2
    <3>2. \A r \in Server : Due(Item("accept", r))' <=> op'[r] \in Over
      BY <1>1, <2>2, <3>1, ItemFacts DEF Inv, Loops, Over
    <3>3. "control" \in Server /\ "embed" \in Server /\ v # "none"
      BY DEF Server
    <3>4. /\ op'["embed"] # "stopped" /\ op'["control"] # "none"
          /\ pc = "run" /\ op'["embed"] = "none" => ~config.enable
      BY <1>3, <2>2, <3>1, <3>3 DEF Inv, Loops, Started
    <3> QED
      BY <1>3, <3>2, <3>4 DEF Loops, Started
  <2> QED
    BY <2>1, <2>2 DEF Item
<1>8. Told' /\ Crew' /\ EndsForCause'
  BY <1>1, <1>3 DEF Inv, Told, Crew, EndsForCause
<1>9. Stopping'
  <2>1. CASE sig' = sig
    BY <1>1, <2>1 DEF Inv, Stopping
  <2>2. CASE x = Item("sig", "main") /\ sig' = "delay"
    BY <1>1, <1>3, <2>2 DEF Inv, Stopping
  <2> QED
    BY <2>1, <2>2
<1> QED
  BY <1>1, <1>6, <1>7, <1>8, <1>9 DEF Inv

LEMMA AcceptHandlersOK ==
    ASSUME Inv, NEW s \in Server, Accepted(s) \/ NotAccepted(s) \/ (s = "control" /\ GivesUp)
    PROVE  Inv'
<1> USE DEF setup, run, conns
<1>1. Returns(Item("accept", s)) /\ UNCHANGED <<setup, pc, code, run, io, at, asked, sig>>
  BY DEF Accepted, NotAccepted, GivesUp
<1>2. \E v \in {"pending", "stopped"} :
          op' = [op EXCEPT ![s] = v] /\ (v = "stopped" => s = "control")
  BY DEF Accepted, NotAccepted, GivesUp
<1>3. client' \in [Client -> {"away", "waiting", "accepted", "session", "gone"}]
  <2>1. CASE client' = client
    BY <2>1 DEF Inv, TypeOK
  <2>2. CASE Accepted(s)
    <3>1. client' = [c \in Client |-> IF at[c] = s /\ client[c] = "accepted"
                                      THEN "session" ELSE client[c]]
      BY <2>2 DEF Accepted
    <3> QED
      BY <3>1 DEF Inv, TypeOK
  <2> QED
    BY <2>1, <2>2 DEF NotAccepted, GivesUp
<1> QED
  BY <1>1, <1>2, <1>3, HandlerOK

LEMMA ConnectionHandlersOK == ASSUME Inv, NEW c \in Client, Answers(c) \/ Closed(c) PROVE Inv'
<1> USE DEF setup, run, conns
<1>1. PICK k \in {"request", "deadline"} : Returns(Item(k, c))
  BY DEF Answers, Closed
<1>2. UNCHANGED <<setup, pc, code, run, io, at, asked, op, sig>>
  BY DEF Answers, Closed
<1>3. client' \in [Client -> {"away", "waiting", "accepted", "session", "gone"}]
  BY DEF Answers, Closed, Inv, TypeOK
<1>4. Item(k, c).k \in {"request", "deadline"}
  BY DEF Item
<1> QED
  BY <1>1, <1>2, <1>3, <1>4, HandlerOK

LEMMA StopOK == Inv /\ Stop => Inv'
<1> SUFFICES ASSUME Inv, Stop PROVE Inv'
  OBVIOUS
<1> USE DEF setup, run, conns
<1>1. /\ Returns(Item("sig", "main")) /\ sig' = "delay"
      /\ UNCHANGED <<setup, pc, code, run, io, op, client, at, asked>>
  BY DEF Stop
<1>2. client' \in [Client -> {"away", "waiting", "accepted", "session", "gone"}]
  BY <1>1 DEF Inv, TypeOK
<1> QED
  BY <1>1, <1>2, HandlerOK

LEMMA ThrowsOK == ASSUME Inv, NEW c \in Client, Throws(c) PROVE Inv'
<1> USE DEF setup, run, conns
<1> DEFINE x == Item("request", c)
<1>1. /\ Returns(x) /\ threads' = threads - 1 /\ thrown' = thrown + 1
      /\ IF threads = 1 THEN Exit(IF pool THEN 0 ELSE 1) ELSE UNCHANGED <<pc, code>>
      /\ UNCHANGED <<setup, pool, io, conns, sig>>
  BY DEF Throws
<1>2. /\ OnceDue' /\ IsFiniteSet(running') /\ running' \subseteq running
      /\ \A y : Due(y)' <=> Due(y) /\ y # x
      /\ Cardinality(running) \in Nat /\ Cardinality(running') \in Nat
      /\ Cardinality(running) = Cardinality(running') + 1
  BY <1>1, Removed DEF Inv
<1>3. /\ \A s \in Server : x # Item("accept", s)
      /\ x # Item("sig", "main") /\ x # Item("exit", "main")
  BY DEF Item
<1> HIDE DEF x
<1>4. /\ threads \in Nat /\ thrown \in Nat /\ pool \in BOOLEAN /\ Cardinality(running) <= threads
      /\ code \in {0, 1}
  BY DEF Inv, TypeOK
<1>5. pc \in {"run", "stopped"} /\ threads >= 1
      /\ IF pool THEN threads + thrown >= 2 ELSE threads = 1
  <2>1. running # {}
    BY <1>1 DEF Returns
  <2> QED
    BY <2>1 DEF Inv, TypeOK, Crew
<1>6. /\ threads' \in Nat /\ thrown' \in Nat /\ Cardinality(running') <= threads'
      /\ threads # 1 => threads' >= 1
      /\ threads + thrown >= 2 => threads' + thrown' >= 2
  <2>1. \A t, n, r, q \in Nat :
            t >= 1 /\ r = q + 1 /\ r <= t =>
               /\ t - 1 \in Nat /\ n + 1 \in Nat /\ q <= t - 1 /\ (t # 1 => t - 1 >= 1)
               /\ t + n >= 2 => (t - 1) + (n + 1) >= 2
    OBVIOUS
  <2> QED
    BY <1>1, <1>2, <1>4, <1>5, <2>1
<1>7. \/ pc' = pc
      \/ pc' = "exited" /\ code' \in {0, 1}
  BY <1>1, <1>4 DEF Exit
<1>8. TypeOK'
  BY <1>1, <1>2, <1>6, <1>7 DEF Inv, TypeOK, Exit
<1>9. Loops' /\ Told'
  <2>1. \A s \in Server : Due(Item("accept", s))' <=> Due(Item("accept", s))
    BY <1>2, <1>3
  <2> QED
    BY <1>1, <1>7, <2>1 DEF Inv, Loops, Told, Started
<1>10. Stopping'
  BY <1>1, <1>2, <1>7 DEF Inv, Stopping
<1>11. CASE threads = 1
  <2>1. /\ pc' = "exited" /\ threads' = 0 /\ (pool => code' = 0) /\ (~pool => code' = 1)
        /\ pool' = pool
    BY <1>1, <1>11 DEF Exit
  <2>2. running' = {}
    BY <1>2, <1>6, <2>1, FS_EmptySet
  <2>3. pool => thrown' >= 2
    BY <1>1, <1>4, <1>5, <1>11
  <2>4. Crew' /\ EndsForCause'
    BY <2>1, <2>2, <2>3 DEF Crew, EndsForCause
  <2> QED
    BY <1>1, <1>2, <1>8, <1>9, <1>10, <2>4 DEF Inv
<1>12. CASE threads # 1
  <2>1. pc' = pc /\ pool' = pool /\ pool
    BY <1>1, <1>5, <1>12
  <2>2. threads + thrown >= 2
    BY <1>5, <2>1
  <2>3. Crew' /\ EndsForCause'
    BY <1>5, <1>6, <1>12, <2>1, <2>2 DEF Crew, EndsForCause
  <2> QED
    BY <1>1, <1>2, <1>8, <1>9, <1>10, <2>3 DEF Inv
<1> QED
  BY <1>11, <1>12

LEMMA IocStopOK == Inv /\ IocStop => Inv'
<1> SUFFICES ASSUME Inv, IocStop PROVE Inv'
  OBVIOUS
<1> USE DEF setup, run, conns
<1> DEFINE x == Item("exit", "main")
<1>1. /\ Returns(x) /\ pc' = "stopped"
      /\ UNCHANGED <<setup, code, run, io, conns, sig>>
  BY DEF IocStop
<1>2. /\ OnceDue' /\ IsFiniteSet(running') /\ running' \subseteq running /\ Due(x)
      /\ \A y : Due(y)' <=> Due(y) /\ y # x
      /\ Cardinality(running) \in Nat /\ Cardinality(running') \in Nat
      /\ Cardinality(running) = Cardinality(running') + 1
  BY <1>1, Removed DEF Inv
<1>3. \A s \in Server : x # Item("accept", s)
  BY DEF Item
<1>4. sig = "over"
  BY <1>2 DEF Inv, Stopping
<1> HIDE DEF x
<1>5. pc \in {"run", "stopped"}
  <2>1. running # {}
    BY <1>1 DEF Returns
  <2> QED
    BY <2>1 DEF Inv, TypeOK, Crew
<1>6. Cardinality(running') <= threads'
  BY <1>1, <1>2 DEF Inv, TypeOK
<1>7. TypeOK'
  BY <1>1, <1>2, <1>6 DEF Inv, TypeOK
<1>8. Loops' /\ Told'
  <2>1. \A s \in Server : Due(Item("accept", s))' <=> Due(Item("accept", s))
    BY <1>2, <1>3
  <2> QED
    BY <1>1, <1>5, <2>1 DEF Inv, Loops, Told, Started
<1>9. Stopping' /\ Crew' /\ EndsForCause'
  BY <1>1, <1>2, <1>4, <1>5 DEF Inv, Stopping, Crew, EndsForCause
<1> QED
  BY <1>1, <1>2, <1>7, <1>8, <1>9 DEF Inv

LEMMA LeaveOK == Inv /\ (Leave \/ UNCHANGED vars) => Inv'
<1> SUFFICES ASSUME Inv, Leave \/ UNCHANGED vars PROVE Inv'
  OBVIOUS
<1> USE DEF setup, run, conns
<1>1. /\ UNCHANGED <<setup, run, io, running, conns, sig>>
      /\ UNCHANGED <<pc, code>> \/ (pc = "stopped" /\ running = {} /\ pc' = "exited" /\ code' = 0)
  BY DEF Leave, Exit, vars
<1>2. OnceDue' /\ (\A x : Due(x)' <=> Due(x)) /\ IsFiniteSet(running)'
  BY <1>1 DEF Inv, OnceDue, Due
<1>3. TypeOK'
  BY <1>1 DEF Inv, TypeOK
<1>4. Loops' /\ Told'
  BY <1>1, <1>2 DEF Inv, Loops, Told, Started
<1>5. Crew' /\ Stopping' /\ EndsForCause'
  BY <1>1, <1>2 DEF Inv, Crew, Stopping, EndsForCause
<1> QED
  BY <1>1, <1>2, <1>3, <1>4, <1>5 DEF Inv

LEMMA StepOK == Inv /\ [Next]_vars => Inv'
<1> SUFFICES ASSUME Inv, [Next]_vars PROVE Inv'
  OBVIOUS
<1>1. "control" \in Server
  BY DEF Server
<1> QED
  BY <1>1, StartOK, ThreadsOK, ConnectOK, AskOK, EndsOK, SignalOK, TakeOK, AcceptHandlersOK,
     ConnectionHandlersOK, StopOK, ThrowsOK, IocStopOK, LeaveOK
  DEF Next

LEMMA Invariant == Spec => []Inv
<1> QED
  BY InitOK, StepOK, PTL DEF Spec

-----------------------------------------------------------------------------
(* The theorems.                                                           *)

\* The types of the variables: whatever the file says, ports fit in 16 bits; and no more
\* handlers run than there are threads left.
THEOREM ProcessTyped == Spec => []TypeOK
<1>1. Inv => TypeOK
  BY DEF Inv
<1> QED
  BY <1>1, Invariant, PTL

\* The page is told the port that the control server listens on, for every file: read,
\* wrapped or defaulted the same way twice.
THEOREM PageFindsBackend == Spec => []BackendFound
<1>1. Inv => BackendFound
  BY DEF Inv, Told, BackendFound, Started, Up
<1> QED
  BY <1>1, Invariant, PTL

\* Whatever fails, each server has one accept under way: errors do not double it, and they
\* stop no loop but http_server's.
THEOREM OneAcceptLoop == Spec => []OneLoop
<1>1. Inv => OneLoop
  <2> SUFFICES ASSUME Inv, Up, NEW s \in Server
               PROVE  LET due == Cardinality({i \in DOMAIN io : io[i] = Item("accept", s)})
                                 + Cardinality({x \in running : x = Item("accept", s)})
                      IN  CASE op[s] = "none" -> due = 0 /\ s = "embed" /\ ~config.enable
                            [] op[s] = "stopped" -> due = 0 /\ s = "control"
                            [] op[s] = "pending" -> due = 0
                            [] OTHER -> due = 1
    BY DEF OneLoop
  <2> DEFINE I == {i \in DOMAIN io : io[i] = Item("accept", s)}
             R == {x \in running : x = Item("accept", s)}
  <2>1. I # {} => \E i : I = {i} /\ R = {}
    BY DEF Inv, OnceDue
  <2>2. R # {} => \E x : R = {x} /\ I = {}
    BY DEF Inv, OnceDue
  <2>3. Due(Item("accept", s)) <=> I # {} \/ R # {}
    BY DEF Due
  <2> HIDE DEF I, R
  <2>4. Due(Item("accept", s)) => Cardinality(I) + Cardinality(R) = 1
    <3>1. CASE I # {}
      <4>1. PICK i : I = {i} /\ R = {}
        BY <2>1, <3>1
      <4>2. Cardinality(I) = 1 /\ Cardinality(R) = 0
        BY <4>1, FS_Singleton, FS_EmptySet
      <4> QED
        BY <4>2
    <3>2. CASE R # {}
      <4>1. PICK x : R = {x} /\ I = {}
        BY <2>2, <3>2
      <4>2. Cardinality(I) = 0 /\ Cardinality(R) = 1
        BY <4>1, FS_Singleton, FS_EmptySet
      <4> QED
        BY <4>2
    <3> QED
      BY <2>3, <3>1, <3>2
  <2>5. ~Due(Item("accept", s)) => Cardinality(I) + Cardinality(R) = 0
    <3>1. ~Due(Item("accept", s)) => Cardinality(I) = 0 /\ Cardinality(R) = 0
      BY <2>3, FS_EmptySet
    <3> QED
      BY <3>1
  <2>6. Due(Item("accept", s)) <=> op[s] \in Over
    BY DEF Inv, Loops
  <2>7. op[s] \in {"none", "pending", "ok", "error", "fatal", "stopped"} /\ s \in {"control", "embed"}
    BY DEF Inv, TypeOK, Server
  <2>8. /\ op[s] = "none" => s = "embed" /\ ~config.enable
        /\ op[s] = "stopped" => s = "control"
    BY <2>7 DEF Inv, Loops, Up, Started
  <2> QED
    BY <2>4, <2>5, <2>6, <2>7, <2>8 DEF Over, I, R
<1> QED
  BY <1>1, Invariant, PTL

\* The process ends for a cause: a failed start, an exception on main's own thread, a
\* signal, or one exception for each of the at least two threads of a pool.
THEOREM EndHasCause == Spec => []EndsForCause
<1>1. Inv => EndsForCause
  BY DEF Inv
<1> QED
  BY <1>1, Invariant, PTL
=============================================================================
