------------------------- MODULE SerialControlProofs -------------------------
(***************************************************************************)
(* Theorems about SerialControl, for any ports, requests, threads, faults  *)
(* and bounds.                                                             *)
(***************************************************************************)
EXTENDS SerialControl, TLAPS, FiniteSetTheorems, WellFoundedInduction

-----------------------------------------------------------------------------
(* Lookups.                                                                *)

\* A set of session numbers with a member has a least one.
LEMMA LeastSession ==
    ASSUME NEW S, S \subseteq Session, S # {}
    PROVE  \E s \in S : \A x \in S : s <= x
<1>1. Session \subseteq Nat
  BY ConstantsOK DEF Session
<1> DEFINE R == {pair \in Nat \X Nat : pair[1] < pair[2]}
<1>2. IsWellFoundedOn(R, Nat)
  BY NatLessThanWellFounded, Zenon DEF OpToRel
<1> HIDE DEF R
<1>3. PICK s \in S : \A y \in S : ~(<<y, s>> \in R)
  BY <1>1, <1>2, WFMin
<1>4. ASSUME NEW x \in S PROVE s <= x
  <2>1. s \in Nat /\ x \in Nat /\ ~(<<x, s>> \in R)
    BY <1>1, <1>3
  <2> QED
    BY <2>1 DEF R
<1> QED
  BY <1>4

\* get() returns a session of the list that carries the name, and no later one does
\* better; it returns none only when no session carries it.
LEMMA GetFound ==
    ASSUME sessions \subseteq Session, NEW p
    PROVE  \/ Get(p) = 0 /\ ~(\E s \in sessions : name[s] = p)
           \/ /\ Get(p) \in sessions /\ name[Get(p)] = p
              /\ \A x \in sessions : name[x] = p => Get(p) <= x
<1> DEFINE found == {s \in sessions : name[s] = p}
<1>1. CASE found = {}
  BY <1>1 DEF Get
<1>2. CASE found # {}
  <2>1. \E s \in found : \A x \in found : s <= x
    BY <1>2, LeastSession
  <2>2. Get(p) = CHOOSE s \in found : \A x \in found : s <= x
    BY <1>2 DEF Get
  <2>3. Get(p) \in found /\ \A x \in found : Get(p) <= x
    BY <2>1, <2>2
  <2> QED
    BY <2>3
<1> QED
  BY <1>1, <1>2

LEMMA GetType ==
    ASSUME sessions \subseteq Session, NEW p
    PROVE  Get(p) \in Session \cup {0}
BY GetFound

-----------------------------------------------------------------------------
(* Types.  TypeOK is not inductive: a handler also relies on what it       *)
(* checked before it was split, and on what was put into the queued task.  *)

\* Among the commands q, number o is one of session s.
Mine(q, o, s) == o \in 1..Len(q) /\ q[o].s = s

WebTyped ==
    /\ web.pc \in {"check", "send", "write", "create"} => web.req \in Request
    /\ web.pc \in {"check", "send", "write"} => web.s \in Session
    /\ web.pc = "create" => created < MaxSession
    /\ web.pc = "write" => Mine(ops, web.op, web.s)

TaskTyped ==
    \A i \in 1..Len(strand) :
        /\ strand[i].k # "tick" => strand[i].s \in Session
        /\ strand[i].k \in {"stop", "done"} => Mine(ops, strand[i].op, strand[i].s)

SerTyped ==
    /\ ser.pc \in {"open", "write", "close"} => ser.t.s \in Session
    /\ ser.pc \in {"write", "close"} => Mine(ops, ser.t.op, ser.t.s)

DriverTyped == \A s \in Session : \A i \in 1..Len(driver[s]) : Mine(ops, driver[s][i], s)

TypeInv == TypeOK /\ WebTyped /\ TaskTyped /\ SerTyped /\ DriverTyped

LEMMA TasksMade ==
    /\ \A s \in Session, p \in Port : InitTask(s, p) \in Tasks
    /\ \A s \in Session, o \in Nat : StopTask(s, o) \in Tasks
    /\ \A s \in Session, o \in Nat, ok \in BOOLEAN : DoneTask(s, o, ok) \in Tasks
    /\ \A ok \in BOOLEAN : TickTask(ok) \in Tasks
    /\ SerIdle \in Sers /\ SerIdle.pc = "idle"
    /\ WebIdle \in Webs /\ WebIdle.pc = "idle"
BY DEF InitTask, StopTask, DoneTask, TickTask, SerIdle, WebIdle, Tasks, Kinds, Sers, Webs

LEMMA InitType == Init => TypeInv
<1> SUFFICES ASSUME Init PROVE TypeInv
  OBVIOUS
<1>1. TypeOK
  BY TasksMade, ConstantsOK DEF Init, TypeOK, Byte, Stop, Sigs
<1>2. WebTyped /\ TaskTyped /\ SerTyped /\ DriverTyped
  BY DEF Init, WebTyped, TaskTyped, SerTyped, DriverTyped, SerIdle, WebIdle
<1> QED
  BY <1>1, <1>2 DEF TypeInv

\* Queues: what Append and Tail leave where it was.
LEMMA AppendFacts ==
    ASSUME NEW S, NEW q \in Seq(S), NEW e \in S
    PROVE  /\ Append(q, e) \in Seq(S) /\ Len(q) \in Nat /\ Len(Append(q, e)) = Len(q) + 1
           /\ Append(q, e)[Len(q) + 1] = e
           /\ \A i \in 1..Len(q) : Append(q, e)[i] = q[i] /\ q[i] \in S
OBVIOUS

\* A handler t joins the queue q, which becomes r: queued behind the others, or run at
\* once, before them.
Joins(q, t, r) == r = Append(q, t) \/ r = <<t>> \o q

\* The new handler has a place n, the last if it is queued; those of q keep their order,
\* d places on.
Placed(q, t, r, n, d) ==
    /\ r \in Seq(Tasks) /\ Len(q) \in Nat /\ Len(r) = Len(q) + 1
    /\ n \in 1..Len(r) /\ r[n] = t /\ (r = Append(q, t) => n = Len(r))
    /\ \A i \in 1..Len(r) : i # n => i - d \in 1..Len(q) /\ r[i] = q[i - d]
    /\ \A i \in 1..Len(q) : /\ i + d \in 1..Len(r) /\ i + d # n
                          /\ r[i + d] = q[i] /\ q[i] \in Tasks

LEMMA JoinFacts ==
    ASSUME NEW q \in Seq(Tasks), NEW t \in Tasks, NEW r, Joins(q, t, r)
    PROVE  \E n, d \in Nat : Placed(q, t, r, n, d)
<1>1. Len(q) \in Nat /\ \A i \in 1..Len(q) : q[i] \in Tasks
  OBVIOUS
<1>2. CASE r = Append(q, t)
  <2>1. /\ r \in Seq(Tasks) /\ Len(r) = Len(q) + 1 /\ r[Len(q) + 1] = t
        /\ \A i \in 1..Len(q) : r[i] = q[i]
    BY <1>2, AppendFacts
  <2>2. Placed(q, t, r, Len(q) + 1, 0)
    BY <1>1, <2>1 DEF Placed
  <2>3. Len(q) + 1 \in Nat /\ 0 \in Nat
    BY <1>1
  <2> QED
    BY <2>2, <2>3, Zenon
<1>3. CASE r = <<t>> \o q /\ r # Append(q, t)
  <2>1. /\ r \in Seq(Tasks) /\ Len(r) = Len(q) + 1 /\ r[1] = t
        /\ \A i \in 1..Len(q) : r[i + 1] = q[i]
    BY <1>3
  <2>2. \A i \in 1..Len(r) : i # 1 => i - 1 \in 1..Len(q) /\ (i - 1) + 1 = i
    BY <1>1, <2>1
  <2>3. Placed(q, t, r, 1, 1)
    BY <1>1, <1>3, <2>1, <2>2 DEF Placed
  <2>4. 1 \in Nat
    OBVIOUS
  <2> QED
    BY <2>3, <2>4, Zenon
<1> QED
  BY <1>2, <1>3 DEF Joins

LEMMA SeqElement == ASSUME NEW S, NEW q \in Seq(S), NEW i \in 1..Len(q) PROVE q[i] \in S
OBVIOUS

LEMMA TailFacts ==
    ASSUME NEW S, NEW q \in Seq(S), q # <<>>
    PROVE  /\ Tail(q) \in Seq(S) /\ Head(q) \in S /\ Head(q) = q[1]
           /\ Len(q) \in Nat \ {0} /\ Len(Tail(q)) = Len(q) - 1
           /\ \A i \in 1..(Len(q) - 1) : Tail(q)[i] = q[i + 1]
OBVIOUS

\* A step that issues a command, and a step that issues none.
LEMMA OpsGrow ==
    ASSUME TypeOK, NEW s \in Session, NEW c \in Byte,
           ops' = Append(ops, [s |-> s, cmd |-> c])
    PROVE  /\ ops' \in Seq([s : Session, cmd : Byte])
           /\ Len(ops) \in Nat /\ Len(ops') = Len(ops) + 1
           /\ Mine(ops', Len(ops) + 1, s)
           /\ \A o, x : Mine(ops, o, x) => Mine(ops', o, x)
<1>1. [s |-> s, cmd |-> c] \in [s : Session, cmd : Byte]
  OBVIOUS
<1>2. ops \in Seq([s : Session, cmd : Byte])
  BY DEF TypeOK
<1>3. /\ ops' \in Seq([s : Session, cmd : Byte])
      /\ Len(ops) \in Nat /\ Len(ops') = Len(ops) + 1
      /\ ops'[Len(ops) + 1] = [s |-> s, cmd |-> c]
      /\ \A i \in 1..Len(ops) : ops'[i] = ops[i]
  BY <1>1, <1>2, AppendFacts
<1> QED
  BY <1>3 DEF Mine

LEMMA OpsStay == ASSUME UNCHANGED ops PROVE \A o, x : Mine(ops, o, x) <=> Mine(ops', o, x)
BY DEF Mine

LEMMA WebMoves ==
    ASSUME web \in Webs
    PROVE  /\ \A pc \in {"send", "write", "inline"} : [web EXCEPT !.pc = pc] \in Webs
           /\ \A o \in Nat : [web EXCEPT !.pc = "write", !.op = o] \in Webs
           /\ \A s \in Session : [web EXCEPT !.pc = "inline", !.s = s] \in Webs
BY DEF Webs

LEMMA WebLookupType ==
    ASSUME TypeInv, NEW r \in Request, WebLookup(r)
    PROVE  TypeInv'
<1>1. Get(r.com) \in Session \cup {0}
  BY GetType DEF TypeInv, TypeOK
<1>2. /\ web' \in Webs /\ web'.pc \in {"create", "check"} /\ web'.req \in Request
      /\ (web'.pc = "check" => web'.s \in Session)
      /\ (web'.pc = "create" => created < MaxSession)
  BY <1>1 DEF WebLookup, Webs
<1>3. TypeOK'
  BY <1>2 DEF WebLookup, TypeInv, TypeOK, serialVars, pollVars
<1>4. \A o, x : Mine(ops, o, x) <=> Mine(ops', o, x)
  BY OpsStay DEF WebLookup, serialVars
<1>5. WebTyped'
  BY <1>2, <1>4 DEF WebLookup, WebTyped
<1>6. TaskTyped' /\ SerTyped' /\ DriverTyped'
  BY <1>4 DEF WebLookup, TypeInv, TaskTyped, SerTyped, DriverTyped, serialVars
<1> QED
  BY <1>3, <1>5, <1>6 DEF TypeInv

LEMMA WebCheckType ==
    ASSUME TypeInv, WebCheck
    PROVE  TypeInv'
<1>1. web' \in Webs
  BY WebMoves, TasksMade DEF WebCheck, TypeInv, TypeOK
<1>2. TypeOK'
  BY <1>1 DEF WebCheck, TypeInv, TypeOK, serialVars, pollVars
<1>3. \A o, x : Mine(ops, o, x) <=> Mine(ops', o, x)
  BY OpsStay DEF WebCheck, serialVars
<1>4. WebTyped'
  BY <1>3, TasksMade DEF WebCheck, TypeInv, TypeOK, WebTyped, Webs
<1>5. TaskTyped' /\ SerTyped' /\ DriverTyped'
  BY <1>3 DEF WebCheck, TypeInv, TaskTyped, SerTyped, DriverTyped, serialVars
<1> QED
  BY <1>2, <1>4, <1>5 DEF TypeInv

LEMMA WebSendType ==
    ASSUME TypeInv, WebSend
    PROVE  TypeInv'
<1>1. /\ web \in Webs /\ web.s \in Session /\ web.req \in Request /\ web.req.cmd \in Byte
      /\ sendingData \in [Session -> SUBSET Nat]
  BY ConstantsOK DEF WebSend, TypeInv, TypeOK, WebTyped, Requests
<1>2. CASE web.s \in opened
  <2>1. PICK s \in Session, c \in Byte :
            s = web.s /\ ops' = Append(ops, [s |-> s, cmd |-> c])
    BY <1>1, <1>2 DEF WebSend
  <2>2. /\ ops' \in Seq([s : Session, cmd : Byte])
        /\ Len(ops) \in Nat /\ Len(ops') = Len(ops) + 1
        /\ Mine(ops', Len(ops) + 1, s)
        /\ \A o, x : Mine(ops, o, x) => Mine(ops', o, x)
    <3>1. TypeOK
      BY DEF TypeInv
    <3> QED
      BY <3>1, <2>1, OpsGrow, Zenon
  <2>3. web' = [web EXCEPT !.pc = "write", !.op = Len(ops) + 1]
    BY <1>2 DEF WebSend
  <2>4. /\ web' \in Webs /\ web'.pc = "write" /\ web'.s = web.s
        /\ web'.op = Len(ops) + 1 /\ web'.req = web.req
    <3>1. Len(ops) + 1 \in Nat
      BY <2>2
    <3> QED
      BY <1>1, <3>1, <2>3 DEF Webs
  <2>5. sendingData' \in [Session -> SUBSET Nat]
    BY <1>1, <1>2, <2>2 DEF WebSend
  <2>6. TypeOK'
    BY <2>2, <2>4, <2>5 DEF WebSend, TypeInv, TypeOK, pollVars
  <2>7. WebTyped'
    BY <1>1, <2>1, <2>2, <2>4 DEF WebTyped
  <2>8. TaskTyped' /\ SerTyped' /\ DriverTyped'
    BY <2>2 DEF WebSend, TypeInv, TaskTyped, SerTyped, DriverTyped
  <2> QED
    BY <2>6, <2>7, <2>8 DEF TypeInv
<1>3. CASE web.s \notin opened
  <2>1. TypeOK'
    BY <1>3, TasksMade DEF WebSend, TypeInv, TypeOK, pollVars
  <2>2. \A o, x : Mine(ops, o, x) <=> Mine(ops', o, x)
    BY <1>3, OpsStay DEF WebSend
  <2>3. WebTyped'
    BY <1>3, TasksMade DEF WebSend, WebTyped
  <2>4. TaskTyped' /\ SerTyped' /\ DriverTyped'
    BY <1>3, <2>2 DEF WebSend, TypeInv, TaskTyped, SerTyped, DriverTyped
  <2> QED
    BY <2>1, <2>3, <2>4 DEF TypeInv
<1> QED
  BY <1>2, <1>3

LEMMA WebWriteType ==
    ASSUME TypeInv, WebWrite
    PROVE  TypeInv'
<1>1. /\ driver \in [Session -> Seq(Nat)] /\ web.s \in Session /\ web.op \in Nat
      /\ Mine(ops, web.op, web.s) /\ DriverTyped
  BY DEF WebWrite, TypeInv, TypeOK, WebTyped, Webs
<1>2. driver' = [driver EXCEPT ![web.s] = Append(@, web.op)]
  BY DEF WebWrite
<1>3. driver' \in [Session -> Seq(Nat)]
  BY <1>1, <1>2
<1>4. TypeOK'
  BY <1>3, TasksMade DEF WebWrite, TypeInv, TypeOK, pollVars
<1>5. \A o, x : Mine(ops, o, x) <=> Mine(ops', o, x)
  BY OpsStay DEF WebWrite
<1>6. ASSUME NEW s \in Session, NEW i \in 1..Len(driver'[s]) PROVE Mine(ops, driver'[s][i], s)
  <2>1. CASE s = web.s
    <3>1. driver'[s] = Append(driver[s], web.op) /\ driver[s] \in Seq(Nat)
      BY <1>1, <1>2, <2>1
    <3>2. CASE i = Len(driver[s]) + 1
      BY <1>1, <2>1, <3>1, <3>2
    <3>3. CASE i # Len(driver[s]) + 1
      <4>1. i \in 1..Len(driver[s]) /\ driver'[s][i] = driver[s][i]
        BY <1>1, <3>1, <3>3
      <4> QED
        BY <1>1, <4>1 DEF DriverTyped
    <3> QED
      BY <3>2, <3>3
  <2>2. CASE s # web.s
    BY <1>1, <1>2, <2>2 DEF DriverTyped
  <2> QED
    BY <2>1, <2>2
<1>7. DriverTyped'
  BY <1>5, <1>6 DEF DriverTyped
<1>8. WebTyped' /\ TaskTyped' /\ SerTyped'
  BY <1>5, TasksMade DEF WebWrite, TypeInv, WebTyped, TaskTyped, SerTyped
<1> QED
  BY <1>4, <1>7, <1>8 DEF TypeInv

\* A handler that joins with good references keeps the strand typed.
LEMMA TaskQueued ==
    ASSUME TypeInv, NEW t \in Tasks, Joins(strand, t, strand'),
           \A o, x : Mine(ops, o, x) => Mine(ops', o, x),
           t.k # "tick" => t.s \in Session,
           t.k \in {"stop", "done"} => Mine(ops', t.op, t.s)
    PROVE  strand' \in Seq(Tasks) /\ TaskTyped'
<1>1. strand \in Seq(Tasks)
  BY DEF TypeInv, TypeOK
<1>0. PICK n, d \in Nat : Placed(strand, t, strand', n, d)
  BY <1>1, JoinFacts, Zenon
<1>2. /\ strand' \in Seq(Tasks) /\ strand'[n] = t
      /\ \A i \in 1..Len(strand') : i # n =>
             i - d \in 1..Len(strand) /\ strand'[i] = strand[i - d]
  BY <1>0 DEF Placed
<1>3. ASSUME NEW i \in 1..Len(strand')
      PROVE  /\ strand'[i].k # "tick" => strand'[i].s \in Session
             /\ strand'[i].k \in {"stop", "done"} => Mine(ops', strand'[i].op, strand'[i].s)
  <2>1. CASE i = n
    BY <1>2, <2>1
  <2>2. CASE i # n
    <3>1. PICK j \in 1..Len(strand) : strand'[i] = strand[j]
      BY <1>2, <1>3, <2>2
    <3> QED
      BY <3>1 DEF TypeInv, TaskTyped
  <2> QED
    BY <2>1, <2>2
<1> QED
  BY <1>2, <1>3 DEF TaskTyped

LEMMA WebCreateType ==
    ASSUME TypeInv, WebCreate
    PROVE  TypeInv'
<1>1. \A o, x : Mine(ops, o, x) <=> Mine(ops', o, x)
  BY OpsStay DEF WebCreate, serialVars
<1>2. SerTyped' /\ DriverTyped'
  BY <1>1 DEF WebCreate, TypeInv, SerTyped, DriverTyped, serialVars
<1>3. CASE checkNameValid(web.req.com)
  <2>1. /\ web \in Webs /\ web.req \in Request /\ web.req.com \in Port
        /\ created \in Nat /\ created + 1 \in Session /\ created + 1 \in 0..MaxSession
    <3>1. web \in Webs /\ web.req \in Request /\ created \in 0..MaxSession
          /\ created < MaxSession
      BY DEF WebCreate, TypeInv, TypeOK, WebTyped
    <3>2. web.req.com \in Port
      BY <3>1, ConstantsOK DEF Requests
    <3> QED
      BY <3>1, <3>2, ConstantsOK DEF Session
  <2>2. PICK s \in Session, p \in Port :
            /\ s = created + 1 /\ p = web.req.com
            /\ created' = s /\ sessions' = sessions \cup {s}
            /\ Joins(strand, InitTask(s, p), strand')
            /\ web' \in {[web EXCEPT !.pc = "inline", !.s = s], WebIdle}
    BY <1>3, <2>1 DEF WebCreate, Dispatch, Joins
  <2>3. web' \in Webs /\ web'.pc \in {"inline", "idle"}
    <3>1. /\ [web EXCEPT !.pc = "inline", !.s = s] \in Webs /\ WebIdle \in Webs
          /\ [web EXCEPT !.pc = "inline", !.s = s].pc = "inline" /\ WebIdle.pc = "idle"
      BY <2>1, WebMoves, TasksMade DEF Webs
    <3> QED
      BY <2>2, <3>1
  <2>4. /\ InitTask(s, p) \in Tasks /\ strand \in Seq(Tasks)
        /\ InitTask(s, p).k = "init" /\ InitTask(s, p).s = s
    BY TasksMade DEF InitTask, TypeInv, TypeOK
  <2>5. strand' \in Seq(Tasks) /\ TaskTyped'
    BY <1>1, <2>2, <2>4, TaskQueued
  <2>6. TypeOK'
    BY <2>1, <2>2, <2>3, <2>5 DEF WebCreate, TypeInv, TypeOK, serialVars, pollVars
  <2>7. WebTyped'
    BY <2>3 DEF WebTyped
  <2> QED
    BY <1>2, <2>5, <2>6, <2>7 DEF TypeInv
<1>4. CASE ~checkNameValid(web.req.com)
  <2>1. TypeOK'
    BY <1>4, TasksMade DEF WebCreate, TypeInv, TypeOK, serialVars, pollVars
  <2>2. WebTyped' /\ TaskTyped'
    BY <1>1, <1>4, TasksMade DEF WebCreate, TypeInv, WebTyped, TaskTyped
  <2> QED
    BY <1>2, <2>1, <2>2 DEF TypeInv
<1> QED
  BY <1>3, <1>4

\* The steps that neither issue a command nor touch the writes and the web handler's
\* progress keep the typing of what those have.
LEMMA RestTyped ==
    ASSUME TypeInv, TypeOK', UNCHANGED <<ops, driver>>,
           web' = web \/ web' = WebIdle, created' = created,
           TaskTyped', SerTyped'
    PROVE  TypeInv'
<1>1. \A o, x : Mine(ops, o, x) <=> Mine(ops', o, x)
  BY OpsStay
<1>2. WebTyped'
  BY <1>1, TasksMade DEF TypeInv, WebTyped
<1>3. DriverTyped'
  BY <1>1 DEF TypeInv, DriverTyped
<1> QED
  BY <1>2, <1>3 DEF TypeInv

\* Taking the handler at the head of the strand leaves the others typed.
LEMMA TaskTaken ==
    ASSUME TypeInv, strand # <<>>, strand' = Tail(strand),
           \A o, x : Mine(ops, o, x) => Mine(ops', o, x)
    PROVE  /\ strand' \in Seq(Tasks) /\ TaskTyped'
           /\ Head1 \in Tasks
           /\ Head1.k # "tick" => Head1.s \in Session
           /\ Head1.k \in {"stop", "done"} => Mine(ops, Head1.op, Head1.s)
<1>1. strand \in Seq(Tasks)
  BY DEF TypeInv, TypeOK
<1>2. /\ Tail(strand) \in Seq(Tasks) /\ Head(strand) \in Tasks /\ Head(strand) = strand[1]
      /\ Len(strand) \in Nat \ {0} /\ Len(Tail(strand)) = Len(strand) - 1
      /\ \A i \in 1..(Len(strand) - 1) : Tail(strand)[i] = strand[i + 1]
  BY <1>1, TailFacts
<1>3. TaskTyped'
  BY <1>2 DEF TypeInv, TaskTyped
<1>4. 1 \in 1..Len(strand)
  BY <1>2
<1> QED
  BY <1>2, <1>3, <1>4 DEF TypeInv, TaskTyped, Head1

LEMMA PortsFoundType ==
    ASSUME TypeInv, PortsFound
    PROVE  TypeInv'
<1>1. \A o, x : Mine(ops, o, x) <=> Mine(ops', o, x)
  BY OpsStay DEF PortsFound, serialVars
<1>2. TypeOK'
  BY DEF PortsFound, TypeInv, TypeOK, serialVars
<1>3. TaskTyped' /\ SerTyped'
  BY <1>1 DEF PortsFound, TypeInv, TaskTyped, SerTyped
<1> QED
  BY <1>2, <1>3, RestTyped DEF PortsFound, serialVars

LEMMA InitNameType ==
    ASSUME TypeInv, InitName
    PROVE  TypeInv'
<1>1. \A o, x : Mine(ops, o, x) <=> Mine(ops', o, x)
  BY OpsStay DEF InitName
<1>2. /\ strand' \in Seq(Tasks) /\ TaskTyped'
      /\ Head1 \in Tasks /\ Head1.s \in Session
  BY <1>1, TaskTaken DEF InitName, SerReady
<1>3. name' \in [Session -> Port \cup {NoPort}]
  BY <1>2 DEF InitName, TypeInv, TypeOK, Tasks
<1>4. ser' \in Sers /\ SerTyped'
  BY <1>2 DEF InitName, Sers, SerTyped
<1>5. TypeOK'
  BY <1>2, <1>3, <1>4 DEF InitName, TypeInv, TypeOK, pollVars
<1> QED
  BY <1>2, <1>4, <1>5, RestTyped DEF InitName

LEMMA InitOpenType ==
    ASSUME TypeInv, InitOpen
    PROVE  TypeInv'
<1>1. \A o, x : Mine(ops, o, x) <=> Mine(ops', o, x)
  BY OpsStay DEF InitOpen
<1>2. opened' \subseteq Session
  BY DEF InitOpen, TypeInv, TypeOK, SerTyped
<1>3. TypeOK'
  BY <1>2, TasksMade DEF InitOpen, TypeInv, TypeOK, pollVars
<1>4. TaskTyped' /\ SerTyped'
  BY <1>1, TasksMade DEF InitOpen, TypeInv, TaskTyped, SerTyped
<1> QED
  BY <1>3, <1>4, RestTyped DEF InitOpen

LEMMA StopWriteType ==
    ASSUME TypeInv, StopWrite
    PROVE  TypeInv'
<1>1. \A o, x : Mine(ops, o, x) <=> Mine(ops', o, x)
  BY OpsStay DEF StopWrite
<1>2. /\ strand' \in Seq(Tasks) /\ TaskTyped' /\ Head1 \in Tasks
      /\ Head1.s \in Session /\ Mine(ops, Head1.op, Head1.s) /\ Head1.op \in Nat
  BY <1>1, TaskTaken DEF StopWrite, SerReady, Tasks
<1>3. sig' \in Sigs
  BY DEF StopWrite, TypeInv, TypeOK, Sigs
<1>4. ser' \in Sers /\ SerTyped'
  BY <1>1, <1>2 DEF StopWrite, Sers, SerTyped, TypeInv, TypeOK
<1>5. driver \in [Session -> Seq(Nat)]
  BY DEF TypeInv, TypeOK
<1>6. driver' \in [Session -> Seq(Nat)]
  <2>1. CASE driver' = driver
    BY <1>5, <2>1
  <2>2. CASE driver' = [driver EXCEPT ![Head1.s] = Append(@, Head1.op)]
    BY <1>2, <1>5, <2>2
  <2> QED
    BY <2>1, <2>2 DEF StopWrite
<1>7. TypeOK'
  BY <1>2, <1>3, <1>4, <1>6 DEF StopWrite, TypeInv, TypeOK, pollVars
<1>8. ASSUME NEW s \in Session, NEW i \in 1..Len(driver'[s])
      PROVE  Mine(ops, driver'[s][i], s)
  <2>1. driver[s] \in Seq(Nat) /\ DriverTyped
    BY <1>5 DEF TypeInv
  <2>2. CASE driver'[s] = driver[s]
    BY <2>1, <2>2 DEF DriverTyped
  <2>3. CASE s = Head1.s /\ driver'[s] = Append(driver[s], Head1.op)
    <3>1. /\ Len(driver'[s]) = Len(driver[s]) + 1 /\ Len(driver[s]) \in Nat
          /\ driver'[s][Len(driver[s]) + 1] = Head1.op
          /\ \A j \in 1..Len(driver[s]) : driver'[s][j] = driver[s][j]
      BY <1>2, <2>1, <2>3, AppendFacts
    <3> QED
      BY <1>2, <2>1, <2>3, <3>1 DEF DriverTyped
  <2> QED
    BY <1>2, <1>5, <2>2, <2>3 DEF StopWrite
<1>9. DriverTyped'
  BY <1>1, <1>8 DEF DriverTyped
<1>10. WebTyped'
  BY <1>1 DEF StopWrite, TypeInv, WebTyped
<1> QED
  BY <1>2, <1>4, <1>7, <1>9, <1>10 DEF TypeInv

LEMMA StopCloseType ==
    ASSUME TypeInv, StopClose
    PROVE  TypeInv'
<1>1. \A o, x : Mine(ops, o, x) <=> Mine(ops', o, x)
  BY OpsStay DEF StopClose
<1>2. sig' \in Sigs
  BY DEF StopClose, TypeInv, TypeOK, Sigs
<1>3. sendingData' \in [Session -> SUBSET Nat]
  BY DEF StopClose, TypeInv, TypeOK
<1>4. TypeOK'
  BY <1>2, <1>3, TasksMade DEF StopClose, TypeInv, TypeOK, pollVars
<1>5. TaskTyped' /\ SerTyped'
  BY <1>1, TasksMade DEF StopClose, TypeInv, TaskTyped, SerTyped
<1> QED
  BY <1>4, <1>5, RestTyped DEF StopClose

LEMMA WriteDoneType ==
    ASSUME TypeInv, WriteDone
    PROVE  TypeInv'
<1>1. \A o, x : Mine(ops, o, x) <=> Mine(ops', o, x)
  BY OpsStay DEF WriteDone
<1>2. strand' \in Seq(Tasks) /\ TaskTyped'
  BY <1>1, TaskTaken DEF WriteDone, SerReady
<1>3. sendingData' \in [Session -> SUBSET Nat]
  BY DEF WriteDone, TypeInv, TypeOK
<1>4. TypeOK'
  BY <1>2, <1>3 DEF WriteDone, TypeInv, TypeOK, pollVars
<1>5. SerTyped'
  BY <1>1 DEF WriteDone, TypeInv, SerTyped
<1> QED
  BY <1>2, <1>4, <1>5, RestTyped DEF WriteDone

LEMMA TickType ==
    ASSUME TypeInv, Tick
    PROVE  TypeInv'
<1>1. \A o, x : Mine(ops, o, x) <=> Mine(ops', o, x)
  BY OpsStay DEF Tick, serialVars
<1>2. strand' \in Seq(Tasks) /\ TaskTyped' /\ Head1 \in Tasks
  BY <1>1, TaskTaken DEF Tick, SerReady
<1>3. ser' \in Sers /\ SerTyped'
  BY <1>2, TasksMade DEF Tick, Sers, SerTyped
<1>4. TypeOK'
  BY <1>2, <1>3 DEF Tick, TypeInv, TypeOK, serialVars, pollVars
<1> QED
  BY <1>2, <1>3, <1>4, RestTyped DEF Tick, serialVars

LEMMA TickArmType ==
    ASSUME TypeInv, TickArm
    PROVE  TypeInv'
<1>1. \A o, x : Mine(ops, o, x) <=> Mine(ops', o, x)
  BY OpsStay DEF TickArm, serialVars
<1>2. TypeOK'
  BY TasksMade DEF TickArm, TypeInv, TypeOK, serialVars
<1>3. TaskTyped' /\ SerTyped'
  BY <1>1, TasksMade DEF TickArm, TypeInv, TaskTyped, SerTyped
<1> QED
  BY <1>2, <1>3, RestTyped DEF TickArm, serialVars

LEMMA SignalType ==
    ASSUME TypeInv, Signal
    PROVE  TypeInv'
<1>1. \A o, x : Mine(ops, o, x) <=> Mine(ops', o, x)
  BY OpsStay DEF Signal, serialVars
<1>2. TickTask(FALSE) \in Tasks /\ TickTask(FALSE).k = "tick"
  BY TasksMade DEF TickTask
<1>3. strand' \in Seq(Tasks) /\ TaskTyped'
  <2>1. CASE strand' = strand
    BY <1>1, <2>1 DEF TypeInv, TypeOK, TaskTyped
  <2>2. CASE strand' = Append(strand, TickTask(FALSE))
    BY <1>1, <1>2, <2>2, TaskQueued DEF Joins
  <2> QED
    BY <2>1, <2>2 DEF Signal
<1>4. TypeOK'
  BY <1>3 DEF Signal, TypeInv, TypeOK, Sigs, serialVars
<1>5. SerTyped'
  BY <1>1 DEF Signal, TypeInv, SerTyped
<1> QED
  BY <1>3, <1>4, <1>5, RestTyped DEF Signal, serialVars

LEMMA SweepCloseType ==
    ASSUME TypeInv, SweepClose
    PROVE  TypeInv'
<1>1. PICK s \in Session :
          IF s \in opened
          THEN /\ ops' = Append(ops, [s |-> s, cmd |-> Stop])
               /\ sendingData' = [sendingData EXCEPT ![s] = @ \cup {Len(ops) + 1}]
               /\ Joins(strand, StopTask(s, Len(ops) + 1), strand')
               /\ \E pc \in {"inline", "sweep"} : sig' = [pc |-> pc, at |-> s]
          ELSE /\ sig' = [sig EXCEPT !.at = s]
               /\ UNCHANGED <<ops, sendingData, strand>>
  BY DEF SweepClose, Dispatch, Joins, ToClose, TypeInv, TypeOK
<1>2. sig' \in Sigs
  BY <1>1 DEF TypeInv, TypeOK, Sigs
<1>3. CASE s \in opened
  <2>1. TypeOK /\ Stop \in Byte
    BY DEF TypeInv, Stop, Byte
  <2>2. /\ ops' \in Seq([s : Session, cmd : Byte])
        /\ Len(ops) \in Nat /\ Len(ops') = Len(ops) + 1
        /\ Mine(ops', Len(ops) + 1, s)
        /\ \A o, x : Mine(ops, o, x) => Mine(ops', o, x)
    BY <1>1, <1>3, <2>1, OpsGrow, Zenon
  <2>3. PICK o \in Nat : o = Len(ops) + 1
    BY <2>2
  <2>4. /\ StopTask(s, o) \in Tasks /\ StopTask(s, o).k = "stop"
        /\ StopTask(s, o).s = s /\ StopTask(s, o).op = o
    BY TasksMade DEF StopTask
  <2>5. strand' \in Seq(Tasks) /\ TaskTyped'
    BY <1>1, <1>3, <2>2, <2>3, <2>4, TaskQueued
  <2>6. sendingData' \in [Session -> SUBSET Nat]
    <3>1. sendingData' = [sendingData EXCEPT ![s] = @ \cup {o}]
      BY <1>1, <1>3, <2>3
    <3>2. sendingData \in [Session -> SUBSET Nat]
      BY DEF TypeInv, TypeOK
    <3> QED
      BY <3>1, <3>2
  <2>7. TypeOK'
    BY <1>2, <2>2, <2>5, <2>6 DEF SweepClose, TypeInv, TypeOK, pollVars
  <2>8. WebTyped' /\ SerTyped' /\ DriverTyped'
    BY <2>2 DEF SweepClose, TypeInv, WebTyped, SerTyped, DriverTyped
  <2> QED
    BY <2>5, <2>7, <2>8 DEF TypeInv
<1>4. CASE s \notin opened
  <2>1. \A o, x : Mine(ops, o, x) <=> Mine(ops', o, x)
    BY <1>1, <1>4, OpsStay
  <2>2. TypeOK'
    BY <1>1, <1>2, <1>4 DEF SweepClose, TypeInv, TypeOK, pollVars
  <2>3. TaskTyped' /\ SerTyped'
    BY <1>1, <1>4, <2>1 DEF SweepClose, TypeInv, TaskTyped, SerTyped
  <2> QED
    BY <1>1, <1>4, <2>2, <2>3, RestTyped DEF SweepClose
<1> QED
  BY <1>3, <1>4

LEMMA TimerExpireType ==
    ASSUME TypeInv, TimerExpire
    PROVE  TypeInv'
<1>1. \A o, x : Mine(ops, o, x) <=> Mine(ops', o, x)
  BY OpsStay DEF TimerExpire, serialVars
<1>2. TickTask(TRUE) \in Tasks /\ TickTask(TRUE).k = "tick"
  BY TasksMade DEF TickTask
<1>3. strand' \in Seq(Tasks) /\ TaskTyped'
  BY <1>1, <1>2, TaskQueued DEF TimerExpire, Joins
<1>4. TypeOK'
  BY <1>3 DEF TimerExpire, TypeInv, TypeOK, serialVars
<1>5. SerTyped'
  BY <1>1 DEF TimerExpire, TypeInv, SerTyped
<1> QED
  BY <1>3, <1>4, <1>5, RestTyped DEF TimerExpire, serialVars

LEMMA DriverDoneType ==
    ASSUME TypeInv, NEW s \in Session, NEW ok \in BOOLEAN, DriverDone(s, ok)
    PROVE  TypeInv'
<1> DEFINE o == Head(driver[s])
<1>1. \A n, x : Mine(ops, n, x) <=> Mine(ops', n, x)
  BY OpsStay DEF DriverDone
<1>2. driver \in [Session -> Seq(Nat)] /\ driver[s] \in Seq(Nat) /\ driver[s] # <<>>
  BY DEF DriverDone, TypeInv, TypeOK
<1>3. driver' = [driver EXCEPT ![s] = Tail(@)]
  BY DEF DriverDone
<1>4. /\ Tail(driver[s]) \in Seq(Nat) /\ o \in Nat /\ o = driver[s][1]
      /\ Len(driver[s]) \in Nat \ {0} /\ Len(Tail(driver[s])) = Len(driver[s]) - 1
      /\ \A i \in 1..(Len(driver[s]) - 1) : Tail(driver[s])[i] = driver[s][i + 1]
  BY <1>2, TailFacts
<1>5. Mine(ops, o, s)
  <2>1. 1 \in 1..Len(driver[s])
    BY <1>4
  <2> QED
    BY <1>4, <2>1 DEF TypeInv, DriverTyped
<1>6. driver' \in [Session -> Seq(Nat)]
  BY <1>2, <1>3, <1>4
<1>7. DriverTyped'
  <2>1. ASSUME NEW x \in Session, NEW i \in 1..Len(driver'[x])
        PROVE  Mine(ops, driver'[x][i], x)
    <3>1. CASE x = s
      <4>1. driver'[x] = Tail(driver[s])
        BY <1>2, <1>3, <3>1
      <4>2. i \in 1..(Len(driver[s]) - 1) /\ i + 1 \in 1..Len(driver[s])
        BY <1>4, <4>1
      <4> QED
        BY <1>4, <3>1, <4>1, <4>2 DEF TypeInv, DriverTyped
    <3>2. CASE x # s
      BY <1>2, <1>3, <3>2 DEF TypeInv, DriverTyped
    <3> QED
      BY <3>1, <3>2
  <2> QED
    BY <1>1, <2>1 DEF DriverTyped
<1>8. last' \in [Port -> Byte]
  <2>1. ops[o].cmd \in Byte
    <3>1. ops \in Seq([s : Session, cmd : Byte])
      BY DEF TypeInv, TypeOK
    <3>2. \A n \in 1..Len(ops) : ops[n] \in [s : Session, cmd : Byte]
      BY <3>1, SeqElement
    <3>3. ops[o] \in [s : Session, cmd : Byte]
      BY <1>5, <3>2 DEF Mine
    <3> QED
      BY <3>3
  <2>2. last \in [Port -> Byte]
    BY DEF TypeInv, TypeOK
  <2> QED
    BY <2>1, <2>2 DEF DriverDone
<1>9. /\ DoneTask(s, o, ok) \in Tasks /\ DoneTask(s, o, ok).k = "done"
      /\ DoneTask(s, o, ok).s = s /\ DoneTask(s, o, ok).op = o
  BY <1>4, TasksMade DEF DoneTask
<1>10. /\ ser' \in Sers /\ SerTyped'
       /\ strand' \in Seq(Tasks) /\ TaskTyped'
  <2>1. CASE ser.pc = "write" /\ ser.t.op = o
    <3>1. ser' = [pc |-> "close", t |-> [ser.t EXCEPT !.ok = ok]] /\ strand' = strand
      BY <2>1 DEF DriverDone
    <3>2. ser' \in Sers
      BY <3>1 DEF TypeInv, TypeOK, Sers, Tasks
    <3>3. SerTyped'
      BY <1>1, <2>1, <3>1 DEF TypeInv, TypeOK, SerTyped, Sers, Tasks
    <3> QED
      BY <1>1, <3>1, <3>2, <3>3 DEF TypeInv, TypeOK, TaskTyped
  <2>2. CASE ~(ser.pc = "write" /\ ser.t.op = o)
    <3>1. ser' = ser /\ strand' = Append(strand, DoneTask(s, o, ok))
      BY <2>2 DEF DriverDone
    <3>2. strand' \in Seq(Tasks) /\ TaskTyped'
      BY <1>1, <1>5, <1>9, <3>1, TaskQueued DEF Joins
    <3> QED
      BY <1>1, <3>1, <3>2 DEF TypeInv, TypeOK, SerTyped
  <2> QED
    BY <2>1, <2>2
<1>11. TypeOK'
  BY <1>6, <1>8, <1>10 DEF DriverDone, TypeInv, TypeOK, pollVars
<1>12. WebTyped'
  BY <1>1 DEF DriverDone, TypeInv, WebTyped
<1> QED
  BY <1>7, <1>10, <1>11, <1>12 DEF TypeInv

\* Exit, the crash of ListRace, the end of the sweep and stuttering.
LEMMA QuietType ==
    ASSUME TypeInv, SweepClear \/ Exit \/ ListRace \/ UNCHANGED vars
    PROVE  TypeInv'
<1>1. UNCHANGED <<serialVars, created, strand, ser, web>>
  BY DEF SweepClear, Exit, ListRace, vars
<1>2. \A o, x : Mine(ops, o, x) <=> Mine(ops', o, x)
  BY <1>1, OpsStay DEF serialVars
<1>3. sig' \in Sigs /\ sessions' \subseteq Session /\ phase' \in {"up", "exited", "crashed"}
  BY DEF SweepClear, Exit, ListRace, vars, TypeInv, TypeOK, Sigs
<1>4. UNCHANGED pollVars
  BY DEF SweepClear, Exit, ListRace, vars
<1>5. TypeOK'
  BY <1>1, <1>3, <1>4 DEF TypeInv, TypeOK, serialVars, pollVars
<1>6. TaskTyped' /\ SerTyped'
  BY <1>1, <1>2 DEF TypeInv, TaskTyped, SerTyped
<1> QED
  BY <1>1, <1>5, <1>6, RestTyped DEF serialVars

LEMMA StepType == TypeInv /\ [Next]_vars => TypeInv'
<1> SUFFICES ASSUME TypeInv, [Next]_vars PROVE TypeInv'
  OBVIOUS
<1>1. CASE Next
  BY <1>1, WebLookupType, WebCheckType, WebSendType, WebWriteType, WebCreateType,
     PortsFoundType, InitNameType, InitOpenType, StopWriteType, StopCloseType,
     WriteDoneType, TickType, TickArmType, SignalType, SweepCloseType,
     TimerExpireType, DriverDoneType, QuietType
  DEF Next, Halted
<1>2. CASE UNCHANGED vars
  BY <1>2, QuietType
<1> QED
  BY <1>1, <1>2

LEMMA TypeInvariant == Spec => []TypeInv
BY InitType, StepType, PTL DEF Spec

\* Every variable keeps its type, and every handler finds in its queue entry and in
\* its own state what it relies on.
THEOREM TypeCorrect == Spec => []TypeOK
<1>1. TypeInv => TypeOK
  BY DEF TypeInv
<1> QED
  BY <1>1, TypeInvariant, PTL

-----------------------------------------------------------------------------
(* Stop commands.  sendSync's second check, that the port is still open,   *)
(* never fails: a session gets one stop command, since the sweep visits it *)
(* once, and only that command's callback closes the port.                 *)

DistinctStops(q) ==
    \A i, j \in 1..Len(q) : q[i].k = "stop" /\ q[j].k = "stop" /\ q[i].s = q[j].s => i = j

StopQueued(q, s) == \E i \in 1..Len(q) : q[i].k = "stop" /\ q[i].s = s

StopInv ==
    /\ DistinctStops(strand)
    /\ \A s \in Session : StopQueued(strand, s) => s \in opened /\ s <= sig.at
    /\ ser.pc \in {"write", "close"} =>
           ser.t.s \in opened /\ ser.t.s <= sig.at /\ ~StopQueued(strand, ser.t.s)
    /\ sig.pc = "idle" => sig.at = 0

LEMMA InitStop == Init => StopInv
<1> SUFFICES ASSUME Init PROVE StopInv
  OBVIOUS
<1>1. Len(strand) = 0 /\ ser.pc = "idle" /\ sig.at = 0
  BY DEF Init, SerIdle
<1> QED
  BY <1>1 DEF StopInv, DistinctStops, StopQueued

\* Any change of the queue but one adds no stop command.
LEMMA StopQueue ==
    ASSUME TypeInv, StopInv,
           \/ strand' = strand
           \/ strand # <<>> /\ strand' = Tail(strand)
           \/ \E t \in Tasks : t.k # "stop" /\ Joins(strand, t, strand')
    PROVE  /\ DistinctStops(strand')
           /\ \A s : StopQueued(strand', s) => StopQueued(strand, s)
<1>1. strand \in Seq(Tasks) /\ DistinctStops(strand)
  BY DEF TypeInv, TypeOK, StopInv
<1>2. CASE strand' = strand
  BY <1>1, <1>2 DEF StopQueued
<1>3. CASE strand # <<>> /\ strand' = Tail(strand)
  <2>1. /\ Len(strand) \in Nat \ {0} /\ Len(strand') = Len(strand) - 1
        /\ \A i \in 1..(Len(strand) - 1) : strand'[i] = strand[i + 1]
    BY <1>1, <1>3, TailFacts
  <2>2. \A i \in 1..Len(strand') : i + 1 \in 1..Len(strand) /\ strand'[i] = strand[i + 1]
    BY <2>1
  <2>3. ASSUME NEW i \in 1..Len(strand'), NEW j \in 1..Len(strand'),
               strand'[i].k = "stop", strand'[j].k = "stop", strand'[i].s = strand'[j].s
        PROVE  i = j
    <3>1. i + 1 = j + 1
      BY <1>1, <2>2, <2>3 DEF DistinctStops
    <3> QED
      BY <3>1
  <2>4. DistinctStops(strand')
    BY <2>3 DEF DistinctStops
  <2>5. \A s : StopQueued(strand', s) => StopQueued(strand, s)
    BY <2>2 DEF StopQueued
  <2> QED
    BY <2>4, <2>5
<1>4. ASSUME NEW t \in Tasks, t.k # "stop", Joins(strand, t, strand')
      PROVE  DistinctStops(strand') /\ \A s : StopQueued(strand', s) => StopQueued(strand, s)
  <2>0. PICK n, d \in Nat : Placed(strand, t, strand', n, d)
    BY <1>1, <1>4, JoinFacts, Zenon
  <2>1. /\ Len(strand') \in Nat /\ strand'[n] = t
        /\ \A i \in 1..Len(strand') : i # n =>
               i - d \in 1..Len(strand) /\ strand'[i] = strand[i - d]
    BY <2>0 DEF Placed
  <2>2. \A i \in 1..Len(strand') : strand'[i].k = "stop" =>
            i - d \in 1..Len(strand) /\ strand'[i] = strand[i - d]
    BY <1>4, <2>1
  <2>3. ASSUME NEW i \in 1..Len(strand'), NEW j \in 1..Len(strand'),
               strand'[i].k = "stop", strand'[j].k = "stop", strand'[i].s = strand'[j].s
        PROVE  i = j
    <3>1. i - d = j - d
      BY <1>1, <2>2, <2>3 DEF DistinctStops
    <3> QED
      BY <3>1
  <2> QED
    BY <2>2, <2>3 DEF DistinctStops, StopQueued
<1> QED
  BY <1>2, <1>3, <1>4

LEMMA StopKept ==
    ASSUME TypeInv, StopInv,
           \/ strand' = strand
           \/ strand # <<>> /\ strand' = Tail(strand)
           \/ \E t \in Tasks : t.k # "stop" /\ Joins(strand, t, strand'),
           opened \subseteq opened',
           \/ sig' = sig
           \/ sig'.at = sig.at /\ sig'.pc # "idle"
           \/ sig'.at \in Nat /\ sig.at <= sig'.at /\ sig'.pc # "idle",
           \/ ser' = ser
           \/ ser'.pc = "close" /\ ser.pc = "write" /\ ser'.t.s = ser.t.s
           \/ ser'.pc \notin {"write", "close"}
    PROVE  StopInv'
<1>1. DistinctStops(strand') /\ \A s : StopQueued(strand', s) => StopQueued(strand, s)
  BY StopQueue
<1>2. Session \subseteq Nat
  BY ConstantsOK DEF Session
<1>3. sig.at \in Nat /\ sig'.at \in Nat /\ sig.at <= sig'.at /\ (sig'.pc = "idle" => sig'.at = 0)
  <2>1. sig \in Sigs /\ (sig.pc = "idle" => sig.at = 0)
    BY DEF TypeInv, TypeOK, StopInv
  <2>2. sig.at \in Session \cup {0}
    BY <2>1 DEF Sigs
  <2>3. sig.at \in Nat
    BY <2>2, ConstantsOK DEF Session
  <2> QED
    BY <2>1, <2>3
<1>4. \A s \in Session : StopQueued(strand', s) => s \in opened' /\ s <= sig'.at
  <2>1. \A s \in Session : StopQueued(strand, s) => s \in opened /\ s <= sig.at
    BY DEF StopInv
  <2>2. ASSUME NEW s \in Session, StopQueued(strand', s) PROVE s \in opened' /\ s <= sig'.at
    <3>1. s \in opened /\ s <= sig.at /\ s \in Nat
      BY <1>1, <1>2, <2>1, <2>2
    <3> QED
      BY <1>3, <3>1
  <2> QED
    BY <2>2
<1>5. ser'.pc \in {"write", "close"} => ser.pc \in {"write", "close"} /\ ser'.t.s = ser.t.s
  OBVIOUS
<1>6. ser.pc \in {"write", "close"} => ser.t.s \in Session
  BY DEF TypeInv, SerTyped
<1>7. ser'.pc \in {"write", "close"} =>
          ser'.t.s \in opened' /\ ser'.t.s <= sig'.at /\ ~StopQueued(strand', ser'.t.s)
  <2> SUFFICES ASSUME ser'.pc \in {"write", "close"}
               PROVE  ser'.t.s \in opened' /\ ser'.t.s <= sig'.at
                      /\ ~StopQueued(strand', ser'.t.s)
    OBVIOUS
  <2>1. ser'.t.s = ser.t.s /\ ser.t.s \in Nat
    BY <1>2, <1>5, <1>6
  <2>2. ser.t.s \in opened /\ ser.t.s <= sig.at /\ ~StopQueued(strand, ser.t.s)
    BY <1>5 DEF StopInv
  <2> QED
    BY <1>1, <1>3, <2>1, <2>2
<1> QED
  BY <1>1, <1>3, <1>4, <1>7 DEF StopInv

LEMMA StopWriteStop ==
    ASSUME TypeInv, StopInv, StopWrite
    PROVE  StopInv'
<1> DEFINE h == Head1
<1>1. /\ strand \in Seq(Tasks) /\ strand # <<>> /\ strand' = Tail(strand)
      /\ h = strand[1] /\ h.k = "stop" /\ Len(strand) \in Nat \ {0}
      /\ Len(strand') = Len(strand) - 1
      /\ \A i \in 1..(Len(strand) - 1) : strand'[i] = strand[i + 1]
  BY TailFacts DEF StopWrite, SerReady, TypeInv, TypeOK, Head1
<1>2. h.s \in Session /\ h.s \in opened /\ h.s <= sig.at
  <2>1. 1 \in 1..Len(strand)
    BY <1>1
  <2>2. h.s \in Session /\ StopQueued(strand, h.s)
    BY <1>1, <2>1 DEF TypeInv, TaskTyped, StopQueued
  <2> QED
    BY <2>2 DEF StopInv
<1>3. ~StopQueued(strand', h.s)
  <2>1. \A i \in 1..Len(strand') :
            i + 1 \in 1..Len(strand) /\ i + 1 # 1 /\ strand'[i] = strand[i + 1]
    BY <1>1
  <2>2. 1 \in 1..Len(strand) /\ DistinctStops(strand)
    BY <1>1 DEF StopInv
  <2> QED
    BY <1>1, <2>1, <2>2 DEF StopQueued, DistinctStops
<1>4. DistinctStops(strand') /\ \A s : StopQueued(strand', s) => StopQueued(strand, s)
  BY <1>1, StopQueue
<1>5. opened' = opened /\ sig' = sig /\ ser' = [pc |-> "write", t |-> h]
  BY <1>2 DEF StopWrite
<1> QED
  BY <1>2, <1>3, <1>4, <1>5 DEF StopInv

LEMMA StopCloseStop ==
    ASSUME TypeInv, StopInv, StopClose
    PROVE  StopInv'
<1>1. /\ strand' = strand /\ ser'.pc = "idle" /\ opened' = opened \ {ser.t.s}
      /\ sig'.at = sig.at /\ (sig'.pc = "idle" => sig.pc = "idle")
  BY TasksMade DEF StopClose, TypeInv, TypeOK, Sigs
<1>2. ~StopQueued(strand, ser.t.s)
  BY DEF StopClose, StopInv
<1> QED
  BY <1>1, <1>2 DEF StopInv

LEMMA SweepCloseStop ==
    ASSUME TypeInv, StopInv, SweepClose
    PROVE  StopInv'
<1>1. PICK s \in Session :
          /\ s > sig.at
          /\ IF s \in opened
             THEN /\ Joins(strand, StopTask(s, Len(ops) + 1), strand')
                  /\ \E pc \in {"inline", "sweep"} : sig' = [pc |-> pc, at |-> s]
             ELSE /\ sig' = [sig EXCEPT !.at = s]
                  /\ UNCHANGED strand
  BY DEF SweepClose, Dispatch, Joins, ToClose, TypeInv, TypeOK
<1>2. sig.at \in Nat /\ Session \subseteq Nat /\ strand \in Seq(Tasks) /\ Len(ops) + 1 \in Nat
  BY ConstantsOK DEF TypeInv, TypeOK, Sigs, Session
<1>3. /\ opened' = opened /\ ser' = ser /\ sig'.at = s /\ sig'.pc # "idle"
  <2>1. opened' = opened /\ ser' = ser /\ sig.pc = "sweep" /\ sig \in Sigs
    BY DEF SweepClose, TypeInv, TypeOK
  <2>2. CASE s \in opened
    BY <1>1, <2>1, <2>2
  <2>3. CASE s \notin opened
    <3>1. sig' = [sig EXCEPT !.at = s]
      BY <1>1, <2>3
    <3> QED
      BY <2>1, <3>1 DEF Sigs
  <2> QED
    BY <2>2, <2>3
<1>4. CASE s \in opened
  <2>1. PICK t \in Tasks : t.k = "stop" /\ t.s = s /\ Joins(strand, t, strand')
    BY <1>1, <1>2, <1>4, TasksMade DEF StopTask
  <2>0. PICK n, d \in Nat : Placed(strand, t, strand', n, d)
    BY <1>2, <2>1, JoinFacts, Zenon
  <2>2. /\ strand'[n] = t
        /\ \A i \in 1..Len(strand') : i # n =>
               i - d \in 1..Len(strand) /\ strand'[i] = strand[i - d]
    BY <2>0 DEF Placed
  <2>3. ~StopQueued(strand, s)
    BY <1>1, <1>2 DEF StopInv
  <2>4. \A x : StopQueued(strand', x) => StopQueued(strand, x) \/ x = s
    BY <2>1, <2>2 DEF StopQueued
  <2>5. DistinctStops(strand')
    <3>1. ASSUME NEW i \in 1..Len(strand'), NEW j \in 1..Len(strand'),
                 strand'[i].k = "stop", strand'[j].k = "stop", strand'[i].s = strand'[j].s
          PROVE  i = j
      <4>1. CASE i # n /\ j # n
        <5>1. i - d = j - d
          BY <2>2, <3>1, <4>1 DEF StopInv, DistinctStops
        <5> QED
          BY <5>1
      <4>2. CASE i = n /\ j # n
        BY <2>1, <2>2, <2>3, <3>1, <4>2 DEF StopQueued
      <4>3. CASE i # n /\ j = n
        BY <2>1, <2>2, <2>3, <3>1, <4>3 DEF StopQueued
      <4> QED
        BY <4>1, <4>2, <4>3
    <3> QED
      BY <3>1 DEF DistinctStops
  <2>6. \A x \in Session : StopQueued(strand', x) => x \in opened /\ x <= s
    <3>1. ASSUME NEW x \in Session, StopQueued(strand', x) PROVE x \in opened /\ x <= s
      <4>1. CASE x = s
        BY <1>2, <1>4, <4>1
      <4>2. CASE StopQueued(strand, x)
        <5>1. x \in opened /\ x <= sig.at
          BY <4>2 DEF StopInv
        <5> QED
          BY <1>1, <1>2, <5>1
      <4> QED
        BY <2>4, <3>1, <4>1, <4>2
    <3> QED
      BY <3>1
  <2>7. ser.pc \in {"write", "close"} =>
            ser.t.s \in opened /\ ser.t.s <= s /\ ~StopQueued(strand', ser.t.s)
    <3> SUFFICES ASSUME ser.pc \in {"write", "close"}
                 PROVE  ser.t.s \in opened /\ ser.t.s <= s /\ ~StopQueued(strand', ser.t.s)
      OBVIOUS
    <3>1. ser.t.s \in opened /\ ser.t.s <= sig.at /\ ~StopQueued(strand, ser.t.s)
      BY DEF StopInv
    <3>2. ser.t.s \in Nat
      BY <1>2 DEF TypeInv, SerTyped
    <3> QED
      BY <1>1, <1>2, <2>4, <3>1, <3>2
  <2> QED
    BY <1>3, <2>5, <2>6, <2>7 DEF StopInv
<1>5. CASE s \notin opened
  <2>1. strand' = strand
    BY <1>1, <1>5
  <2> QED
    BY <1>1, <1>2, <1>3, <2>1, StopKept
<1> QED
  BY <1>4, <1>5

LEMMA OtherStop ==
    ASSUME TypeInv, StopInv,
           \/ \E r \in Request : WebLookup(r)
           \/ WebStep \/ PortsFound
           \/ InitName \/ InitOpen \/ WriteDone \/ Tick \/ TickArm
           \/ Signal \/ SweepClear \/ Exit \/ ListRace \/ TimerExpire
           \/ \E s \in Session, ok \in BOOLEAN : DriverDone(s, ok)
           \/ UNCHANGED vars
    PROVE  StopInv'
<1>1. CASE (\E r \in Request : WebLookup(r)) \/ PortsFound
  BY <1>1, StopKept DEF WebLookup, PortsFound, serialVars
<1>2. CASE WebStep
  <2>1. CASE WebCreate
    <3>1. \/ strand' = strand
          \/ \E t \in Tasks : t.k # "stop" /\ Joins(strand, t, strand')
      <4>1. CASE checkNameValid(web.req.com)
        <5>1. created \in 0..MaxSession /\ created < MaxSession /\ web.req \in Request
          BY <2>1 DEF WebCreate, TypeInv, TypeOK, WebTyped
        <5>2. created + 1 \in Session /\ web.req.com \in Port
          BY <5>1, ConstantsOK DEF Session, Requests
        <5>3. InitTask(created + 1, web.req.com) \in Tasks
              /\ InitTask(created + 1, web.req.com).k # "stop"
          BY <5>2, TasksMade DEF InitTask
        <5> QED
          BY <2>1, <4>1, <5>3 DEF WebCreate, Dispatch, Joins
      <4>2. CASE ~checkNameValid(web.req.com)
        BY <2>1, <4>2 DEF WebCreate
      <4> QED
        BY <4>1, <4>2
    <3>2. opened' = opened /\ sig' = sig /\ ser' = ser
      BY <2>1 DEF WebCreate, serialVars
    <3> QED
      BY <3>1, <3>2, StopKept
  <2>2. CASE WebCheck \/ WebSend \/ WebWrite
    BY <2>2, StopKept DEF WebCheck, WebSend, WebWrite, serialVars
  <2> QED
    BY <1>2, <2>1, <2>2 DEF WebStep
<1>3. CASE InitName
  BY <1>3, StopKept DEF InitName, SerReady
<1>4. CASE InitOpen
  <2>1. opened \subseteq opened'
    BY <1>4 DEF InitOpen
  <2> QED
    BY <1>4, <2>1, StopKept, TasksMade DEF InitOpen
<1>5. CASE WriteDone
  BY <1>5, StopKept DEF WriteDone, SerReady
<1>6. CASE Tick
  BY <1>6, StopKept, TasksMade DEF Tick, SerReady, serialVars
<1>7. CASE TickArm
  BY <1>7, StopKept, TasksMade DEF TickArm, serialVars
<1>8. CASE Signal
  <2>1. sig' = [pc |-> "sweep", at |-> 0] /\ sig.at = 0
    BY <1>8 DEF Signal, StopInv
  <2>2. sig'.at = sig.at /\ sig'.pc # "idle"
    BY <2>1
  <2>3. \/ strand' = strand
        \/ \E t \in Tasks : t.k # "stop" /\ Joins(strand, t, strand')
    BY <1>8, TasksMade DEF Signal, TickTask, Joins
  <2> QED
    BY <1>8, <2>2, <2>3, StopKept DEF Signal, serialVars
<1>9. CASE SweepClear
  <2>1. sig'.at = sig.at /\ sig'.pc # "idle"
    BY <1>9 DEF SweepClear, TypeInv, TypeOK, Sigs
  <2> QED
    BY <1>9, <2>1, StopKept DEF SweepClear, serialVars
<1>10. CASE Exit \/ ListRace
  BY <1>10, StopKept DEF Exit, ListRace, serialVars
<1>11. CASE TimerExpire
  <2>1. \E t \in Tasks : t.k # "stop" /\ Joins(strand, t, strand')
    BY <1>11, TasksMade DEF TimerExpire, TickTask, Joins
  <2> QED
    BY <1>11, <2>1, StopKept DEF TimerExpire, serialVars
<1>12. ASSUME NEW s \in Session, NEW ok \in BOOLEAN, DriverDone(s, ok)
       PROVE  StopInv'
  <2>1. Head(driver[s]) \in Nat
    BY <1>12, TailFacts DEF DriverDone, TypeInv, TypeOK
  <2>2. \/ strand' = strand
        \/ \E t \in Tasks : t.k # "stop" /\ Joins(strand, t, strand')
    BY <1>12, <2>1, TasksMade DEF DriverDone, DoneTask, Joins
  <2>3. \/ ser' = ser
        \/ ser'.pc = "close" /\ ser.pc = "write" /\ ser'.t.s = ser.t.s
    BY <1>12 DEF DriverDone, TypeInv, TypeOK, Sers, Tasks
  <2>4. opened' = opened /\ sig' = sig
    BY <1>12 DEF DriverDone
  <2> QED
    BY <2>2, <2>3, <2>4, StopKept
<1>13. CASE UNCHANGED vars
  BY <1>13, StopKept DEF vars, serialVars
<1> QED
  BY <1>1, <1>2, <1>3, <1>4, <1>5, <1>6, <1>7, <1>8, <1>9, <1>10, <1>11, <1>12, <1>13

LEMMA StepStop == TypeInv /\ StopInv /\ [Next]_vars => StopInv'
<1> SUFFICES ASSUME TypeInv, StopInv, [Next]_vars PROVE StopInv'
  OBVIOUS
<1>1. CASE Next
  BY <1>1, StopWriteStop, StopCloseStop, SweepCloseStop, OtherStop
  DEF Next, WebStep, Halted
<1>2. CASE UNCHANGED vars
  BY <1>2, OtherStop
<1> QED
  BY <1>1, <1>2

LEMMA StopInvariant == Spec => []StopInv
BY InitStop, StepStop, TypeInvariant, PTL DEF Spec

-----------------------------------------------------------------------------
(* The copies of the data.  SendingDataExact is not inductive: releasing a *)
(* copy is right only if no other queue still refers to the command.  So   *)
(* the invariant also says that a command is in one place at a time.       *)

\* No two entries of the queue carry one command; no session writes one twice.
DistinctTasks(q) ==
    \A i, j \in 1..Len(q) : Carries(q[i]) /\ Carries(q[j]) /\ q[i].op = q[j].op => i = j

Distinct(q) == \A i, j \in 1..Len(q) : q[i] = q[j] => i = j

PlacesApart ==
    \A s \in Session :
        /\ InStrand(s) \cap InDriver(s) = {}
        /\ InHandler(s) \cap (InStrand(s) \cup InDriver(s)) = {}

HandlersApart == ser.pc = "close" /\ web.pc = "write" => ser.t.op # web.op

\* A blocking write waits for a command that the driver has.
Waiting == ser.pc = "write" => ser.t.op \in InDriver(ser.t.s)

DataInv ==
    /\ SendingDataExact
    /\ DistinctTasks(strand)
    /\ \A s \in Session : Distinct(driver[s])
    /\ PlacesApart
    /\ HandlersApart
    /\ Waiting

LEMMA CarriedIndex ==
    ASSUME NEW q \in Seq(Tasks), NEW s, NEW o
    PROVE  o \in Carried(q, s) <=>
               \E i \in 1..Len(q) : Carries(q[i]) /\ q[i].s = s /\ q[i].op = o
BY DEF Carried

\* A handler joins.
LEMMA CarriedJoin ==
    ASSUME NEW q \in Seq(Tasks), NEW t \in Tasks, NEW r, Joins(q, t, r)
    PROVE  \A s : Carried(r, s) =
                   Carried(q, s) \cup (IF Carries(t) /\ t.s = s THEN {t.op} ELSE {})
<1>0. PICK n, d \in Nat : Placed(q, t, r, n, d)
  BY JoinFacts, Zenon
<1>1. /\ r \in Seq(Tasks) /\ Len(q) \in Nat /\ Len(r) = Len(q) + 1
      /\ n \in 1..Len(r) /\ r[n] = t /\ (r = Append(q, t) => n = Len(r))
      /\ \A i \in 1..Len(r) : i # n => i - d \in 1..Len(q) /\ r[i] = q[i - d]
      /\ \A i \in 1..Len(q) : /\ i + d \in 1..Len(r) /\ i + d # n
                            /\ r[i + d] = q[i] /\ q[i] \in Tasks
  BY <1>0 DEF Placed
<1>2. ASSUME NEW s, NEW o \in Carried(r, s)
      PROVE  o \in Carried(q, s) \/ (Carries(t) /\ t.s = s /\ o = t.op)
  <2>0. r \in Seq(Tasks)
    BY <1>1
  <2>1. PICK i \in 1..Len(r) : Carries(r[i]) /\ r[i].s = s /\ r[i].op = o
    BY <1>2, <2>0, CarriedIndex
  <2>2. CASE i = n
    BY <1>1, <2>1, <2>2
  <2>3. CASE i # n
    <3>1. PICK j \in 1..Len(q) : r[i] = q[j]
      BY <1>1, <2>3
    <3>2. Carries(q[j]) /\ q[j].s = s /\ q[j].op = o
      BY <2>1, <3>1
    <3> QED
      BY <3>2, CarriedIndex
  <2> QED
    BY <2>2, <2>3
<1>3. ASSUME NEW s, NEW o \in Carried(q, s) PROVE o \in Carried(r, s)
  <2>1. PICK i \in 1..Len(q) : Carries(q[i]) /\ q[i].s = s /\ q[i].op = o
    BY <1>3, CarriedIndex
  <2>2. PICK j \in 1..Len(r) : r[j] = q[i]
    BY <1>1
  <2>3. Carries(r[j]) /\ r[j].s = s /\ r[j].op = o
    BY <2>1, <2>2
  <2>4. r \in Seq(Tasks)
    BY <1>1
  <2> QED
    BY <2>3, <2>4, CarriedIndex
<1>4. \A s : Carries(t) /\ t.s = s => t.op \in Carried(r, s)
  BY <1>1, CarriedIndex
<1>5. ASSUME NEW s
      PROVE  Carried(r, s) =
                 Carried(q, s) \cup (IF Carries(t) /\ t.s = s THEN {t.op} ELSE {})
  BY <1>2, <1>3, <1>4
<1> QED
  BY <1>5

LEMMA DistinctTasksJoin ==
    ASSUME NEW q \in Seq(Tasks), NEW t \in Tasks, NEW r, Joins(q, t, r), DistinctTasks(q),
           Carries(t) => \A i \in 1..Len(q) : Carries(q[i]) => q[i].op # t.op
    PROVE  DistinctTasks(r)
<1>0. PICK n, d \in Nat : Placed(q, t, r, n, d)
  BY JoinFacts, Zenon
<1>1. /\ Len(r) \in Nat /\ r[n] = t
      /\ \A i \in 1..Len(r) : i # n => i - d \in 1..Len(q) /\ r[i] = q[i - d]
  BY <1>0 DEF Placed
<1>2. ASSUME NEW i \in 1..Len(r), NEW j \in 1..Len(r),
             Carries(r[i]), Carries(r[j]), r[i].op = r[j].op
      PROVE  i = j
  <2>1. CASE i # n /\ j # n
    <3>1. i - d = j - d
      BY <1>1, <1>2, <2>1 DEF DistinctTasks
    <3> QED
      BY <3>1
  <2>2. CASE i = n /\ j # n
    BY <1>1, <1>2, <2>2
  <2>3. CASE i # n /\ j = n
    BY <1>1, <1>2, <2>3
  <2> QED
    BY <2>1, <2>2, <2>3
<1> QED
  BY <1>2 DEF DistinctTasks

\* Taking the handler at the head.
LEMMA CarriedTail ==
    ASSUME NEW q \in Seq(Tasks), q # <<>>, DistinctTasks(q)
    PROVE  /\ DistinctTasks(Tail(q))
           /\ \A s : Carried(Tail(q), s) = Carried(q, s) \
                     (IF Carries(Head(q)) /\ Head(q).s = s THEN {Head(q).op} ELSE {})
           /\ Carries(Head(q)) => Head(q).op \in Carried(q, Head(q).s)
<1> DEFINE r == Tail(q)
           h == Head(q)
<1>1. /\ r \in Seq(Tasks) /\ h = q[1] /\ Len(q) \in Nat \ {0} /\ Len(r) = Len(q) - 1
      /\ \A i \in 1..(Len(q) - 1) : r[i] = q[i + 1]
  BY TailFacts
<1> HIDE DEF r, h
<1>2. \A i \in 1..Len(r) : i + 1 \in 1..Len(q) /\ i + 1 # 1 /\ r[i] = q[i + 1]
  BY <1>1
<1>3. 1 \in 1..Len(q) /\ \A i \in 1..Len(q) : i # 1 => i - 1 \in 1..Len(r) /\ r[i - 1] = q[i]
  <2>1. ASSUME NEW i \in 1..Len(q), i # 1 PROVE i - 1 \in 1..Len(r) /\ r[i - 1] = q[i]
    <3>1. i - 1 \in 1..(Len(q) - 1) /\ (i - 1) + 1 = i
      BY <1>1, <2>1
    <3>2. r[i - 1] = q[(i - 1) + 1]
      BY <1>1, <3>1
    <3> QED
      BY <1>1, <3>1, <3>2
  <2> QED
    BY <1>1, <2>1
<1>4. DistinctTasks(r)
  <2>1. ASSUME NEW i \in 1..Len(r), NEW j \in 1..Len(r),
               Carries(r[i]), Carries(r[j]), r[i].op = r[j].op
        PROVE  i = j
    <3>1. i + 1 = j + 1
      BY <1>2, <2>1 DEF DistinctTasks
    <3> QED
      BY <3>1
  <2> QED
    BY <2>1 DEF DistinctTasks
<1>5. ASSUME NEW s, NEW o \in Carried(r, s)
      PROVE  o \in Carried(q, s) /\ ~(Carries(h) /\ h.s = s /\ o = h.op)
  <2>1. PICK i \in 1..Len(r) : Carries(r[i]) /\ r[i].s = s /\ r[i].op = o
    BY <1>1, CarriedIndex
  <2>2. i + 1 \in 1..Len(q) /\ i + 1 # 1 /\ r[i] = q[i + 1]
    BY <1>2
  <2>3. o \in Carried(q, s)
    BY <2>1, <2>2, CarriedIndex
  <2>4. ~(Carries(h) /\ h.s = s /\ o = h.op)
    BY <1>1, <1>3, <2>1, <2>2 DEF DistinctTasks
  <2> QED
    BY <2>3, <2>4
<1>6. ASSUME NEW s, NEW o \in Carried(q, s), ~(Carries(h) /\ h.s = s /\ o = h.op)
      PROVE  o \in Carried(r, s)
  <2>1. PICK i \in 1..Len(q) : Carries(q[i]) /\ q[i].s = s /\ q[i].op = o
    BY CarriedIndex
  <2>2. i - 1 \in 1..Len(r) /\ r[i - 1] = q[i]
    BY <1>1, <1>3, <1>6, <2>1
  <2> QED
    BY <1>1, <2>1, <2>2, CarriedIndex
<1>7. Carries(h) => h.op \in Carried(q, h.s)
  BY <1>1, <1>3, CarriedIndex
<1>8. \A s : Carried(r, s) = Carried(q, s) \ (IF Carries(h) /\ h.s = s THEN {h.op} ELSE {})
  BY <1>5, <1>6
<1> QED
  BY <1>4, <1>7, <1>8 DEF r, h

LEMMA EntriesAppend ==
    ASSUME NEW q \in Seq(Nat), NEW o \in Nat, Distinct(q), o \notin Entries(q)
    PROVE  Distinct(Append(q, o)) /\ Entries(Append(q, o)) = Entries(q) \cup {o}
<1> DEFINE r == Append(q, o)
<1>1. /\ r \in Seq(Nat) /\ Len(q) \in Nat /\ Len(r) = Len(q) + 1 /\ r[Len(q) + 1] = o
      /\ \A i \in 1..Len(q) : r[i] = q[i]
  BY AppendFacts
<1> HIDE DEF r
<1>2. DOMAIN q = 1..Len(q) /\ DOMAIN r = 1..Len(r)
  BY <1>1
<1>3. ASSUME NEW x PROVE x \in Entries(r) <=> x \in Entries(q) \/ x = o
  <2>1. ASSUME x \in Entries(r) PROVE x \in Entries(q) \/ x = o
    <3>1. PICK i \in 1..Len(r) : r[i] = x
      BY <1>2, <2>1 DEF Entries
    <3>2. CASE i = Len(q) + 1
      BY <1>1, <3>1, <3>2
    <3>3. CASE i \in 1..Len(q)
      BY <1>1, <1>2, <3>1, <3>3 DEF Entries
    <3> QED
      BY <1>1, <3>2, <3>3
  <2>2. ASSUME x \in Entries(q) PROVE x \in Entries(r)
    <3>1. PICK i \in 1..Len(q) : q[i] = x
      BY <1>2, <2>2 DEF Entries
    <3>2. i \in 1..Len(r) /\ r[i] = x
      BY <1>1, <3>1
    <3> QED
      BY <1>2, <3>2 DEF Entries
  <2>3. o \in Entries(r)
    <3>1. Len(q) + 1 \in 1..Len(r)
      BY <1>1
    <3> QED
      BY <1>1, <1>2, <3>1 DEF Entries
  <2> QED
    BY <2>1, <2>2, <2>3
<1>4. ASSUME NEW i \in 1..Len(r), NEW j \in 1..Len(r), r[i] = r[j] PROVE i = j
  <2>1. \A n \in 1..Len(q) : q[n] # o
    BY <1>2 DEF Entries
  <2>2. CASE i \in 1..Len(q) /\ j \in 1..Len(q)
    BY <1>1, <1>4, <2>2 DEF Distinct
  <2>3. CASE i = Len(q) + 1 /\ j \in 1..Len(q)
    BY <1>1, <1>4, <2>1, <2>3
  <2>4. CASE i \in 1..Len(q) /\ j = Len(q) + 1
    BY <1>1, <1>4, <2>1, <2>4
  <2> QED
    BY <1>1, <2>2, <2>3, <2>4
<1>5. Distinct(r) /\ Entries(r) = Entries(q) \cup {o}
  BY <1>3, <1>4 DEF Distinct
<1> QED
  BY <1>5 DEF r

LEMMA EntriesTail ==
    ASSUME NEW q \in Seq(Nat), q # <<>>, Distinct(q)
    PROVE  /\ Distinct(Tail(q)) /\ Entries(Tail(q)) = Entries(q) \ {Head(q)}
           /\ Head(q) \in Entries(q) /\ Head(q) \in Nat
<1> DEFINE r == Tail(q)
           h == Head(q)
<1>1. /\ r \in Seq(Nat) /\ h = q[1] /\ h \in Nat /\ Len(q) \in Nat \ {0}
      /\ Len(r) = Len(q) - 1 /\ \A i \in 1..(Len(q) - 1) : r[i] = q[i + 1]
  BY TailFacts
<1> HIDE DEF r, h
<1>2. DOMAIN q = 1..Len(q) /\ DOMAIN r = 1..Len(r) /\ 1 \in 1..Len(q)
  BY <1>1
<1>3. \A i \in 1..Len(r) : i + 1 \in 1..Len(q) /\ i + 1 # 1 /\ r[i] = q[i + 1]
  BY <1>1
<1>4. ASSUME NEW x PROVE x \in Entries(r) <=> x \in Entries(q) /\ x # h
  <2>1. ASSUME x \in Entries(r) PROVE x \in Entries(q) /\ x # h
    <3>1. PICK i \in 1..Len(r) : r[i] = x
      BY <1>2, <2>1 DEF Entries
    <3>2. i + 1 \in 1..Len(q) /\ i + 1 # 1 /\ q[i + 1] = x
      BY <1>3, <3>1
    <3>3. x # h
      BY <1>1, <1>2, <3>2 DEF Distinct
    <3> QED
      BY <1>2, <3>2, <3>3 DEF Entries
  <2>2. ASSUME x \in Entries(q), x # h PROVE x \in Entries(r)
    <3>1. PICK i \in 1..Len(q) : q[i] = x
      BY <1>2, <2>2 DEF Entries
    <3>2. i # 1
      BY <1>1, <2>2, <3>1
    <3>3. i - 1 \in 1..(Len(q) - 1) /\ (i - 1) + 1 = i
      BY <1>1, <3>2
    <3>4. i - 1 \in 1..Len(r) /\ r[i - 1] = x
      BY <1>1, <3>1, <3>3
    <3> QED
      BY <1>2, <3>4 DEF Entries
  <2> QED
    BY <2>1, <2>2
<1>5. ASSUME NEW i \in 1..Len(r), NEW j \in 1..Len(r), r[i] = r[j] PROVE i = j
  <2>1. i + 1 = j + 1
    BY <1>3, <1>5 DEF Distinct
  <2> QED
    BY <2>1
<1>6. h \in Entries(q)
  BY <1>1, <1>2 DEF Entries
<1>7. Distinct(r) /\ Entries(r) = Entries(q) \ {h}
  BY <1>4, <1>5 DEF Distinct
<1> QED
  BY <1>1, <1>6, <1>7 DEF r, h

\* A command is outstanding only for its own session, so what is outstanding for two
\* sessions differs; and a new number is outstanding for none.
LEMMA OutstandingMine ==
    ASSUME TypeInv, NEW s \in Session, NEW o \in Outstanding(s)
    PROVE  Mine(ops, o, s)
<1>1. strand \in Seq(Tasks) /\ driver \in [Session -> Seq(Nat)]
  BY DEF TypeInv, TypeOK
<1>2. CASE o \in InStrand(s)
  BY <1>1, <1>2, CarriedIndex DEF InStrand, TypeInv, TaskTyped, Carries
<1>3. CASE o \in InDriver(s)
  <2>1. driver[s] \in Seq(Nat)
    BY <1>1
  <2>2. PICK i \in 1..Len(driver[s]) : driver[s][i] = o
    BY <1>3, <2>1 DEF InDriver, Entries
  <2> QED
    BY <2>2 DEF TypeInv, DriverTyped
<1>4. CASE o \in InHandler(s)
  BY <1>4 DEF TypeInv, SerTyped, WebTyped, InHandler
<1> QED
  BY <1>2, <1>3, <1>4 DEF Outstanding

LEMMA OneOwner ==
    ASSUME TypeInv, NEW s \in Session, NEW x \in Session, s # x
    PROVE  Outstanding(s) \cap Outstanding(x) = {}
BY OutstandingMine DEF Mine

LEMMA NewNumber ==
    ASSUME TypeInv, NEW s \in Session
    PROVE  Len(ops) + 1 \notin Outstanding(s)
<1>1. Len(ops) \in Nat
  BY DEF TypeInv, TypeOK
<1> QED
  BY <1>1, OutstandingMine DEF Mine

LEMMA InitData == Init => DataInv
<1> SUFFICES ASSUME Init PROVE DataInv
  OBVIOUS
<1>1. /\ strand = <<>> /\ Len(strand) = 0 /\ DOMAIN strand = {}
      /\ \A s \in Session : /\ driver[s] = <<>> /\ DOMAIN driver[s] = {}
                            /\ Len(driver[s]) = 0 /\ sendingData[s] = {}
      /\ ser.pc = "idle" /\ web.pc = "idle"
  BY DEF Init, SerIdle, WebIdle
<1>2. \A s \in Session : InStrand(s) = {} /\ InDriver(s) = {} /\ InHandler(s) = {}
  BY <1>1 DEF InStrand, InDriver, InHandler, Carried, Entries
<1> QED
  BY <1>1, <1>2
  DEF DataInv, SendingDataExact, Outstanding, DistinctTasks, Distinct, PlacesApart,
      HandlersApart, Waiting

\* The steps that move no command.
LEMMA DataKept ==
    ASSUME TypeInv, DataInv, UNCHANGED <<sendingData, driver>>,
           \/ strand' = strand
           \/ strand # <<>> /\ ~Carries(Head1) /\ strand' = Tail(strand)
           \/ \E t \in Tasks : ~Carries(t) /\ Joins(strand, t, strand'),
           ser' = ser \/ {ser.pc, ser'.pc} \cap {"write", "close"} = {},
           web' = web \/ "write" \notin {web.pc, web'.pc}
    PROVE  DataInv'
<1>1. strand \in Seq(Tasks) /\ DistinctTasks(strand)
  BY DEF TypeInv, TypeOK, DataInv
<1>2. DistinctTasks(strand') /\ \A s \in Session : Carried(strand', s) = Carried(strand, s)
  <2>1. CASE strand' = strand
    BY <1>1, <2>1
  <2>2. CASE strand # <<>> /\ ~Carries(Head1) /\ strand' = Tail(strand)
    <3>1. /\ DistinctTasks(Tail(strand))
          /\ \A s : Carried(Tail(strand), s) = Carried(strand, s) \
                    (IF Carries(Head1) /\ Head1.s = s THEN {Head1.op} ELSE {})
      BY <1>1, <2>2, CarriedTail, Zenon DEF Head1
    <3>2. \A s : Carried(Tail(strand), s) = Carried(strand, s) \ {}
      BY <2>2, <3>1
    <3> QED
      BY <2>2, <3>1, <3>2
  <2>3. ASSUME NEW t \in Tasks, ~Carries(t), Joins(strand, t, strand')
        PROVE  /\ DistinctTasks(strand')
               /\ \A s \in Session : Carried(strand', s) = Carried(strand, s)
    <3>1. DistinctTasks(strand')
      BY <1>1, <2>3, DistinctTasksJoin
    <3>2. \A s : Carried(strand', s) = Carried(strand, s) \cup
                    (IF Carries(t) /\ t.s = s THEN {t.op} ELSE {})
      BY <1>1, <2>3, CarriedJoin, Zenon
    <3>3. \A s : Carried(strand', s) = Carried(strand, s) \cup {}
      BY <2>3, <3>2
    <3> QED
      BY <2>3, <3>1, <3>3
  <2> QED
    BY <2>1, <2>2, <2>3
<1>3. \A s \in Session : /\ InStrand(s)' = InStrand(s) /\ InDriver(s)' = InDriver(s)
                         /\ InHandler(s)' = InHandler(s)
  BY <1>2 DEF InStrand, InDriver, InHandler
<1>4. SendingDataExact' /\ PlacesApart'
  BY <1>3 DEF DataInv, SendingDataExact, Outstanding, PlacesApart
<1>5. HandlersApart'
  BY DEF DataInv, HandlersApart
<1>6. Waiting'
  BY DEF DataInv, Waiting, InDriver
<1> QED
  BY <1>2, <1>4, <1>5, <1>6 DEF DataInv

\* A copy is made in sendAsync.
LEMMA WebSendData ==
    ASSUME TypeInv, DataInv, WebSend
    PROVE  DataInv'
<1>1. CASE web.s \notin opened
  <2>1. web.pc # "write" /\ web'.pc # "write"
    BY <1>1, TasksMade DEF WebSend
  <2> QED
    BY <1>1, <2>1, DataKept DEF WebSend
<1>2. CASE web.s \in opened
  <2>1. web \in Webs /\ web.s \in Session /\ Len(ops) \in Nat
    BY DEF WebSend, TypeInv, TypeOK, WebTyped
  <2>2. PICK n \in Nat : n = Len(ops) + 1
    BY <2>1
  <2>3. /\ sendingData' = [sendingData EXCEPT ![web.s] = @ \cup {n}]
        /\ web' = [web EXCEPT !.pc = "write", !.op = n]
        /\ web.pc = "send" /\ UNCHANGED <<driver, strand, ser>>
    BY <1>2, <2>2 DEF WebSend
  <2>4. web'.pc = "write" /\ web'.s = web.s /\ web'.op = n
    BY <2>1, <2>3 DEF Webs
  <2>5. \A s \in Session : n \notin Outstanding(s)
    BY <2>2, NewNumber
  <2>6. \A s \in Session :
            /\ InStrand(s)' = InStrand(s) /\ InDriver(s)' = InDriver(s)
            /\ InHandler(s)' = InHandler(s) \cup (IF s = web.s THEN {n} ELSE {})
    BY <2>3, <2>4 DEF InStrand, InDriver, InHandler
  <2>7. SendingDataExact'
    <3>1. \A s \in Session :
              sendingData'[s] = sendingData[s] \cup (IF s = web.s THEN {n} ELSE {})
      BY <2>1, <2>3 DEF TypeInv, TypeOK
    <3> QED
      BY <2>6, <3>1 DEF DataInv, SendingDataExact, Outstanding
  <2>8. PlacesApart'
    BY <2>5, <2>6 DEF DataInv, PlacesApart, Outstanding
  <2>9. HandlersApart'
    <3>1. ser.pc = "close" => ser.t.s \in Session /\ ser.t.op \in Outstanding(ser.t.s)
      BY DEF TypeInv, SerTyped, Outstanding, InHandler
    <3> QED
      BY <2>3, <2>4, <2>5, <3>1 DEF HandlersApart
  <2> QED
    BY <2>3, <2>7, <2>8, <2>9 DEF DataInv, Waiting, InDriver
<1> QED
  BY <1>1, <1>2

\* The driver gets the command that a web handler was about to write.
LEMMA WebWriteData ==
    ASSUME TypeInv, DataInv, WebWrite
    PROVE  DataInv'
<1> DEFINE w == web.s
           n == web.op
<1>1. /\ web.pc = "write" /\ w \in Session /\ n \in Nat
      /\ driver \in [Session -> Seq(Nat)] /\ driver[w] \in Seq(Nat)
      /\ driver' = [driver EXCEPT ![w] = Append(@, n)]
      /\ web'.pc = "idle" /\ UNCHANGED <<sendingData, strand, ser>>
  BY TasksMade DEF WebWrite, TypeInv, TypeOK, WebTyped, Webs
<1>2. n \in InHandler(w)
  BY <1>1 DEF InHandler
<1>3. n \notin InStrand(w) /\ n \notin InDriver(w)
  BY <1>1, <1>2 DEF DataInv, PlacesApart
<1>4. Distinct(Append(driver[w], n)) /\ Entries(Append(driver[w], n)) = InDriver(w) \cup {n}
  BY <1>1, <1>3, EntriesAppend DEF InDriver, DataInv
<1>5. /\ \A s \in Session : driver'[s] = IF s = w THEN Append(driver[w], n) ELSE driver[s]
      /\ \A s \in Session : InDriver(s)' = InDriver(s) \cup (IF s = w THEN {n} ELSE {})
  BY <1>1, <1>4 DEF InDriver
<1>6. \A s \in Session :
          /\ InStrand(s)' = InStrand(s)
          /\ InHandler(s)' = InHandler(s) \ (IF s = w THEN {n} ELSE {})
  <2>1. ser.pc = "close" => ser.t.op # n
    BY <1>1 DEF DataInv, HandlersApart
  <2> QED
    BY <1>1, <2>1 DEF InStrand, InHandler
<1>7. SendingDataExact'
  <2>1. \A s \in Session : Outstanding(s)' = Outstanding(s)
    BY <1>2, <1>5, <1>6 DEF Outstanding
  <2> QED
    BY <1>1, <2>1 DEF DataInv, SendingDataExact
<1>8. PlacesApart'
  BY <1>3, <1>5, <1>6 DEF DataInv, PlacesApart
<1>9. Waiting'
  <2>1. ser.pc = "write" => ser.t.s \in Session /\ ser.t.op \in InDriver(ser.t.s)
    BY DEF TypeInv, SerTyped, DataInv, Waiting
  <2>2. ser.pc = "write" => ser.t.op \in Entries(driver'[ser.t.s])
    BY <1>5, <2>1 DEF InDriver
  <2> QED
    BY <1>1, <2>2 DEF Waiting, InDriver
<1> QED
  BY <1>1, <1>4, <1>5, <1>7, <1>8, <1>9 DEF DataInv, HandlersApart

\* A copy is made in sendSync, and its handler queued.
LEMMA SweepCloseData ==
    ASSUME TypeInv, DataInv, SweepClose
    PROVE  DataInv'
<1>1. PICK s \in Session :
          IF s \in opened
          THEN /\ sendingData' = [sendingData EXCEPT ![s] = @ \cup {Len(ops) + 1}]
               /\ Joins(strand, StopTask(s, Len(ops) + 1), strand')
          ELSE UNCHANGED <<sendingData, strand>>
  BY DEF SweepClose, Dispatch, Joins, ToClose, TypeInv, TypeOK
<1>2. UNCHANGED <<driver, ser, web>>
  BY DEF SweepClose
<1>3. CASE s \notin opened
  BY <1>1, <1>2, <1>3, DataKept
<1>4. CASE s \in opened
  <2>1. strand \in Seq(Tasks) /\ Len(ops) \in Nat
    BY DEF TypeInv, TypeOK
  <2>2. PICK n \in Nat : n = Len(ops) + 1
    BY <2>1
  <2>3. PICK t \in Tasks : /\ Carries(t) /\ t.s = s /\ t.op = n
                           /\ Joins(strand, t, strand')
    BY <1>1, <1>4, <2>2, TasksMade DEF StopTask, Carries
  <2>4. \A x \in Session : n \notin Outstanding(x)
    BY <2>2, NewNumber
  <2>5. \A x \in Session : InStrand(x)' = InStrand(x) \cup (IF x = s THEN {n} ELSE {})
    <3>1. \A x : Carried(strand', x) = Carried(strand, x) \cup
                    (IF Carries(t) /\ t.s = x THEN {t.op} ELSE {})
      BY <2>1, <2>3, CarriedJoin, Zenon
    <3> QED
      BY <2>3, <3>1 DEF InStrand
  <2>6. DistinctTasks(strand')
    <3>1. \A i \in 1..Len(strand) : Carries(strand[i]) => strand[i].op # n
      <4>1. ASSUME NEW i \in 1..Len(strand), Carries(strand[i]) PROVE strand[i].op # n
        <5>1. strand[i].s \in Session
          BY <4>1 DEF TypeInv, TaskTyped, Carries
        <5>2. strand[i].op \in InStrand(strand[i].s)
          BY <2>1, <4>1, CarriedIndex DEF InStrand
        <5> QED
          BY <2>4, <5>1, <5>2 DEF Outstanding
      <4> QED
        BY <4>1
    <3> QED
      BY <2>1, <2>3, <3>1, DistinctTasksJoin DEF DataInv
  <2>7. \A x \in Session : InDriver(x)' = InDriver(x) /\ InHandler(x)' = InHandler(x)
    BY <1>2 DEF InDriver, InHandler
  <2>8. SendingDataExact'
    <3>1. \A x \in Session :
              sendingData'[x] = sendingData[x] \cup (IF x = s THEN {n} ELSE {})
      BY <1>1, <1>4, <2>2 DEF TypeInv, TypeOK
    <3> QED
      BY <2>5, <2>7, <3>1 DEF DataInv, SendingDataExact, Outstanding
  <2>9. PlacesApart'
    BY <2>4, <2>5, <2>7 DEF DataInv, PlacesApart, Outstanding
  <2> QED
    BY <1>2, <2>6, <2>8, <2>9 DEF DataInv, HandlersApart, Waiting, InDriver
<1> QED
  BY <1>3, <1>4

\* What taking the head of the strand does to the commands queued there.
LEMMA HeadTaken ==
    ASSUME TypeInv, DataInv, strand # <<>>, strand' = Tail(strand), Carries(Head1)
    PROVE  /\ Head1.s \in Session /\ Head1.op \in Nat
           /\ Head1.op \in InStrand(Head1.s) /\ DistinctTasks(strand')
           /\ \A s \in Session : InStrand(s)' = InStrand(s) \
                                     (IF s = Head1.s THEN {Head1.op} ELSE {})
<1>1. strand \in Seq(Tasks) /\ DistinctTasks(strand)
  BY DEF TypeInv, TypeOK, DataInv
<1>2. /\ DistinctTasks(Tail(strand)) /\ Head1.op \in Carried(strand, Head1.s)
      /\ \A s : Carried(Tail(strand), s) = Carried(strand, s) \
                    (IF Carries(Head1) /\ Head1.s = s THEN {Head1.op} ELSE {})
  BY <1>1, CarriedTail, Zenon DEF Head1
<1>3. Head1.s \in Session /\ Head1.op \in Nat
  <2>1. Head(strand) \in Tasks /\ Head(strand) = strand[1] /\ 1 \in 1..Len(strand)
    BY <1>1, TailFacts
  <2> QED
    BY <2>1 DEF Head1, TypeInv, TaskTyped, Carries, Tasks
<1> QED
  BY <1>2, <1>3 DEF InStrand

\* The blocking write starts: the port is still open, so the copy is not left behind.
LEMMA StopWriteData ==
    ASSUME TypeInv, StopInv, DataInv, StopWrite
    PROVE  DataInv'
<1> DEFINE w == Head1.s
           n == Head1.op
<1>1. strand # <<>> /\ strand' = Tail(strand) /\ Carries(Head1) /\ ser.pc = "idle"
  BY DEF StopWrite, SerReady, Carries
<1>2. /\ w \in Session /\ n \in Nat /\ n \in InStrand(w) /\ DistinctTasks(strand')
      /\ \A s \in Session : InStrand(s)' = InStrand(s) \ (IF s = w THEN {n} ELSE {})
  BY <1>1, HeadTaken
<1>3. w \in opened
  <2>1. Head1 = strand[1] /\ 1 \in 1..Len(strand) /\ Head1.k = "stop"
    BY TailFacts DEF StopWrite, SerReady, TypeInv, TypeOK, Head1
  <2> QED
    BY <1>2, <2>1 DEF StopInv, StopQueued
<1>4. /\ driver' = [driver EXCEPT ![w] = Append(@, n)]
      /\ ser' = [pc |-> "write", t |-> Head1] /\ UNCHANGED <<sendingData, web>>
  BY <1>3 DEF StopWrite
<1>5. driver \in [Session -> Seq(Nat)] /\ driver[w] \in Seq(Nat)
  BY <1>2 DEF TypeInv, TypeOK
<1>6. n \notin InDriver(w) /\ n \notin InHandler(w)
  BY <1>2 DEF DataInv, PlacesApart
<1>7. Distinct(Append(driver[w], n)) /\ Entries(Append(driver[w], n)) = InDriver(w) \cup {n}
  BY <1>2, <1>5, <1>6, EntriesAppend DEF InDriver, DataInv
<1>8. /\ \A s \in Session : driver'[s] = IF s = w THEN Append(driver[w], n) ELSE driver[s]
      /\ \A s \in Session : InDriver(s)' = InDriver(s) \cup (IF s = w THEN {n} ELSE {})
  BY <1>4, <1>5, <1>7 DEF InDriver
<1>9. \A s \in Session : InHandler(s)' = InHandler(s)
  BY <1>1, <1>4 DEF InHandler
<1>10. SendingDataExact'
  <2>1. \A s \in Session : Outstanding(s)' = Outstanding(s)
    BY <1>2, <1>8, <1>9 DEF Outstanding
  <2> QED
    BY <1>4, <2>1 DEF DataInv, SendingDataExact
<1>11. PlacesApart'
  BY <1>2, <1>6, <1>8, <1>9 DEF DataInv, PlacesApart
<1>12. Waiting'
  BY <1>2, <1>4, <1>7, <1>8 DEF Waiting, InDriver
<1>13. \A s \in Session : Distinct(driver'[s])
  BY <1>7, <1>8 DEF DataInv
<1> QED
  BY <1>2, <1>4, <1>10, <1>11, <1>12, <1>13 DEF DataInv, HandlersApart

\* The blocking write has returned: its copy goes.
LEMMA StopCloseData ==
    ASSUME TypeInv, DataInv, StopClose
    PROVE  DataInv'
<1> DEFINE w == ser.t.s
           n == ser.t.op
<1>1. /\ ser.pc = "close" /\ w \in Session /\ ser'.pc = "idle"
      /\ sendingData' = [sendingData EXCEPT ![w] = @ \ {n}]
      /\ UNCHANGED <<strand, driver, web>>
  BY TasksMade DEF StopClose, TypeInv, SerTyped
<1>2. n \in InHandler(w)
  BY <1>1 DEF InHandler
<1>3. \A s \in Session :
          /\ InStrand(s)' = InStrand(s) /\ InDriver(s)' = InDriver(s)
          /\ InHandler(s)' = InHandler(s) \ (IF s = w THEN {n} ELSE {})
  <2>1. web.pc = "write" => web.op # n
    BY <1>1 DEF DataInv, HandlersApart
  <2> QED
    BY <1>1, <2>1 DEF InStrand, InDriver, InHandler
<1>4. SendingDataExact'
  <2>1. \A s \in Session : sendingData'[s] = sendingData[s] \ (IF s = w THEN {n} ELSE {})
    BY <1>1 DEF TypeInv, TypeOK
  <2>2. n \notin InStrand(w) /\ n \notin InDriver(w)
    BY <1>1, <1>2 DEF DataInv, PlacesApart
  <2> QED
    BY <1>3, <2>1, <2>2 DEF DataInv, SendingDataExact, Outstanding
<1>5. PlacesApart'
  BY <1>3 DEF DataInv, PlacesApart
<1> QED
  BY <1>1, <1>4, <1>5 DEF DataInv, HandlersApart, Waiting

\* async_write's completion handler: its copy goes.
LEMMA WriteDoneData ==
    ASSUME TypeInv, DataInv, WriteDone
    PROVE  DataInv'
<1> DEFINE w == Head1.s
           n == Head1.op
<1>1. /\ strand # <<>> /\ strand' = Tail(strand) /\ Carries(Head1)
      /\ sendingData' = [sendingData EXCEPT ![w] = @ \ {n}]
      /\ UNCHANGED <<driver, ser, web>>
  BY DEF WriteDone, SerReady, Carries
<1>2. /\ w \in Session /\ n \in InStrand(w) /\ DistinctTasks(strand')
      /\ \A s \in Session : InStrand(s)' = InStrand(s) \ (IF s = w THEN {n} ELSE {})
  BY <1>1, HeadTaken
<1>3. \A s \in Session : InDriver(s)' = InDriver(s) /\ InHandler(s)' = InHandler(s)
  BY <1>1 DEF InDriver, InHandler
<1>4. SendingDataExact'
  <2>1. \A s \in Session : sendingData'[s] = sendingData[s] \ (IF s = w THEN {n} ELSE {})
    BY <1>1, <1>2 DEF TypeInv, TypeOK
  <2>2. n \notin InDriver(w) /\ n \notin InHandler(w)
    BY <1>2 DEF DataInv, PlacesApart
  <2> QED
    BY <1>2, <1>3, <2>1, <2>2 DEF DataInv, SendingDataExact, Outstanding
<1>5. PlacesApart'
  BY <1>2, <1>3 DEF DataInv, PlacesApart
<1> QED
  BY <1>1, <1>2, <1>4, <1>5 DEF DataInv, HandlersApart, Waiting, InDriver

\* The system completes a write: the command goes to the handler that waits for it, or
\* to a completion handler in the queue.
LEMMA DriverDoneData ==
    ASSUME TypeInv, DataInv, NEW w \in Session, NEW ok \in BOOLEAN, DriverDone(w, ok)
    PROVE  DataInv'
<1> DEFINE n == Head(driver[w])
<1>1. /\ driver \in [Session -> Seq(Nat)] /\ driver[w] \in Seq(Nat) /\ driver[w] # <<>>
      /\ driver' = [driver EXCEPT ![w] = Tail(@)] /\ UNCHANGED <<sendingData, web>>
      /\ strand \in Seq(Tasks) /\ Distinct(driver[w])
  BY DEF DriverDone, TypeInv, TypeOK, DataInv
<1>2. /\ Distinct(Tail(driver[w])) /\ Entries(Tail(driver[w])) = InDriver(w) \ {n}
      /\ n \in InDriver(w) /\ n \in Nat
  BY <1>1, EntriesTail DEF InDriver
<1>3. /\ \A s \in Session : driver'[s] = IF s = w THEN Tail(driver[w]) ELSE driver[s]
      /\ \A s \in Session : InDriver(s)' = InDriver(s) \ (IF s = w THEN {n} ELSE {})
  BY <1>1, <1>2 DEF InDriver
<1>4. n \notin InStrand(w) /\ n \notin InHandler(w)
  BY <1>2 DEF DataInv, PlacesApart
<1>5. \A s \in Session : n \in Outstanding(s) => s = w
  <2>1. n \in Outstanding(w)
    BY <1>2 DEF Outstanding
  <2> QED
    BY <2>1, OneOwner
<1>6. \A s \in Session : Distinct(driver'[s])
  BY <1>2, <1>3 DEF DataInv
<1> HIDE DEF n
<1>7. CASE ser.pc = "write" /\ ser.t.op = n
  <2>1. /\ ser' = [pc |-> "close", t |-> [ser.t EXCEPT !.ok = ok]] /\ strand' = strand
    BY <1>7 DEF DriverDone, n
  <2>2. ser.t.s = w
    BY <1>5, <1>7 DEF TypeInv, SerTyped, DataInv, Waiting, Outstanding
  <2>3. ser'.pc = "close" /\ ser'.t.s = w /\ ser'.t.op = n
    BY <1>7, <2>1, <2>2 DEF TypeInv, TypeOK, Sers, Tasks
  <2>4. \A s \in Session :
            /\ InStrand(s)' = InStrand(s)
            /\ InHandler(s)' = InHandler(s) \cup (IF s = w THEN {n} ELSE {})
    BY <1>1, <1>7, <2>1, <2>3 DEF InStrand, InHandler
  <2>5. SendingDataExact'
    <3>1. \A s \in Session : Outstanding(s)' = Outstanding(s)
      BY <1>2, <1>3, <2>4 DEF Outstanding
    <3> QED
      BY <1>1, <3>1 DEF DataInv, SendingDataExact
  <2>6. PlacesApart'
    BY <1>3, <1>4, <2>4 DEF DataInv, PlacesApart
  <2>7. HandlersApart'
    <3>1. web.pc = "write" => web.s \in Session /\ web.op \in InHandler(web.s)
      BY DEF TypeInv, WebTyped, InHandler
    <3>2. web.pc = "write" => web.op # n
      BY <1>4, <1>5, <3>1 DEF Outstanding
    <3> QED
      BY <1>1, <2>3, <3>2 DEF HandlersApart
  <2> QED
    BY <1>6, <2>1, <2>3, <2>5, <2>6, <2>7 DEF DataInv, Waiting
<1>8. CASE ~(ser.pc = "write" /\ ser.t.op = n)
  <2>1. ser' = ser /\ strand' = Append(strand, DoneTask(w, n, ok))
    BY <1>8 DEF DriverDone, n
  <2>2. PICK t \in Tasks : /\ Carries(t) /\ t.s = w /\ t.op = n
                           /\ Joins(strand, t, strand')
    BY <1>2, <2>1, TasksMade DEF DoneTask, Carries, Joins
  <2>3. \A s \in Session : InStrand(s)' = InStrand(s) \cup (IF s = w THEN {n} ELSE {})
    <3>1. \A s : Carried(strand', s) = Carried(strand, s) \cup
                    (IF Carries(t) /\ t.s = s THEN {t.op} ELSE {})
      BY <1>1, <2>2, CarriedJoin, Zenon
    <3> QED
      BY <2>2, <3>1 DEF InStrand
  <2>4. DistinctTasks(strand')
    <3>1. ASSUME NEW i \in 1..Len(strand), Carries(strand[i]) PROVE strand[i].op # n
      <4>1. strand[i].s \in Session
        BY <3>1 DEF TypeInv, TaskTyped, Carries
      <4>2. strand[i].op \in InStrand(strand[i].s)
        BY <1>1, <3>1, CarriedIndex DEF InStrand
      <4> QED
        BY <1>4, <1>5, <4>1, <4>2 DEF Outstanding
    <3> QED
      BY <1>1, <2>2, <3>1, DistinctTasksJoin DEF DataInv
  <2>5. \A s \in Session : InHandler(s)' = InHandler(s)
    BY <1>1, <2>1 DEF InHandler
  <2>6. SendingDataExact'
    <3>1. \A s \in Session : Outstanding(s)' = Outstanding(s)
      BY <1>2, <1>3, <2>3, <2>5 DEF Outstanding
    <3> QED
      BY <1>1, <3>1 DEF DataInv, SendingDataExact
  <2>7. PlacesApart'
    BY <1>3, <1>4, <2>3, <2>5 DEF DataInv, PlacesApart
  <2>8. Waiting'
    <3>1. ser.pc = "write" => ser.t.s \in Session /\ ser.t.op \in InDriver(ser.t.s)
      BY DEF TypeInv, SerTyped, DataInv, Waiting
    <3>2. ser.pc = "write" => ser.t.op \in Entries(driver'[ser.t.s])
      BY <1>3, <1>8, <3>1 DEF InDriver
    <3> QED
      BY <2>1, <3>2 DEF Waiting, InDriver
  <2> QED
    BY <1>1, <1>6, <2>1, <2>4, <2>6, <2>7, <2>8 DEF DataInv, HandlersApart
<1> QED
  BY <1>7, <1>8

LEMMA OtherData ==
    ASSUME TypeInv, DataInv,
           \/ \E r \in Request : WebLookup(r)
           \/ WebCheck \/ WebCreate \/ PortsFound
           \/ InitName \/ InitOpen \/ Tick \/ TickArm
           \/ Signal \/ SweepClear \/ Exit \/ ListRace \/ TimerExpire
           \/ UNCHANGED vars
    PROVE  DataInv'
<1>1. CASE \E r \in Request : WebLookup(r)
  <2>1. web.pc # "write" /\ web'.pc # "write"
    BY <1>1 DEF WebLookup
  <2> QED
    BY <1>1, <2>1, DataKept DEF WebLookup, serialVars
<1>2. CASE WebCheck
  <2>1. web.pc # "write" /\ web'.pc # "write"
    BY <1>2, TasksMade DEF WebCheck, TypeInv, TypeOK, Webs
  <2> QED
    BY <1>2, <2>1, DataKept DEF WebCheck, serialVars
<1>3. CASE WebCreate
  <2>1. web.pc # "write" /\ web'.pc # "write"
    BY <1>3, TasksMade DEF WebCreate, TypeInv, TypeOK, Webs
  <2>2. \/ strand' = strand
        \/ \E t \in Tasks : ~Carries(t) /\ Joins(strand, t, strand')
    <3>1. CASE checkNameValid(web.req.com)
      <4>1. created \in 0..MaxSession /\ created < MaxSession /\ web.req \in Request
        BY <1>3 DEF WebCreate, TypeInv, TypeOK, WebTyped
      <4>2. created + 1 \in Session /\ web.req.com \in Port
        BY <4>1, ConstantsOK DEF Session, Requests
      <4>3. InitTask(created + 1, web.req.com) \in Tasks
            /\ ~Carries(InitTask(created + 1, web.req.com))
        BY <4>2, TasksMade DEF InitTask, Carries
      <4> QED
        BY <1>3, <3>1, <4>3 DEF WebCreate, Dispatch, Joins
    <3>2. CASE ~checkNameValid(web.req.com)
      BY <1>3, <3>2 DEF WebCreate
    <3> QED
      BY <3>1, <3>2
  <2> QED
    BY <1>3, <2>1, <2>2, DataKept DEF WebCreate, serialVars
<1>4. CASE InitName
  <2>1. ~Carries(Head1)
    BY <1>4 DEF InitName, SerReady, Carries
  <2> QED
    BY <1>4, <2>1, DataKept DEF InitName, SerReady
<1>5. CASE InitOpen
  <2>1. web' = web \/ "write" \notin {web.pc, web'.pc}
    BY <1>5, TasksMade DEF InitOpen
  <2> QED
    BY <1>5, <2>1, DataKept, TasksMade DEF InitOpen
<1>6. CASE Tick
  <2>1. ~Carries(Head1)
    BY <1>6 DEF Tick, SerReady, Carries
  <2>2. {ser.pc, ser'.pc} \cap {"write", "close"} = {}
    BY <1>6, TasksMade DEF Tick, SerReady
  <2> QED
    BY <1>6, <2>1, <2>2, DataKept DEF Tick, SerReady, serialVars
<1>7. CASE TickArm
  <2>1. {ser.pc, ser'.pc} \cap {"write", "close"} = {}
    BY <1>7, TasksMade DEF TickArm
  <2> QED
    BY <1>7, <2>1, DataKept DEF TickArm, serialVars
<1>8. CASE Signal
  <2>1. \/ strand' = strand
        \/ \E t \in Tasks : ~Carries(t) /\ Joins(strand, t, strand')
    BY <1>8, TasksMade DEF Signal, TickTask, Carries, Joins
  <2> QED
    BY <1>8, <2>1, DataKept DEF Signal, serialVars
<1>9. CASE TimerExpire
  <2>1. \E t \in Tasks : ~Carries(t) /\ Joins(strand, t, strand')
    BY <1>9, TasksMade DEF TimerExpire, TickTask, Carries, Joins
  <2> QED
    BY <1>9, <2>1, DataKept DEF TimerExpire, serialVars
<1>10. CASE PortsFound \/ SweepClear \/ Exit \/ ListRace \/ UNCHANGED vars
  BY <1>10, DataKept DEF PortsFound, SweepClear, Exit, ListRace, vars, serialVars
<1> QED
  BY <1>1, <1>2, <1>3, <1>4, <1>5, <1>6, <1>7, <1>8, <1>9, <1>10

LEMMA StepData == TypeInv /\ StopInv /\ DataInv /\ [Next]_vars => DataInv'
<1> SUFFICES ASSUME TypeInv, StopInv, DataInv, [Next]_vars PROVE DataInv'
  OBVIOUS
<1>1. CASE Next
  BY <1>1, WebSendData, WebWriteData, SweepCloseData, StopWriteData, StopCloseData,
     WriteDoneData, DriverDoneData, OtherData
  DEF Next, Halted
<1>2. CASE UNCHANGED vars
  BY <1>2, OtherData
<1> QED
  BY <1>1, <1>2

\* A session holds the copy of every command that a queue, a handler or the driver
\* still refers to, and no other copy.
THEOREM CopiesExact == Spec => []SendingDataExact
<1>1. Spec => []DataInv
  BY InitData, StepData, TypeInvariant, StopInvariant, PTL DEF Spec
<1>2. DataInv => SendingDataExact
  BY DEF DataInv
<1> QED
  BY <1>1, <1>2, PTL

-----------------------------------------------------------------------------
(* Lookups are stable.  The strand runs the pending inits in the order in  *)
(* which create() queued them, so a session gets its name after every      *)
(* older one: it can never come before a session already found.            *)

NameInv ==
    /\ \A s \in sessions : s <= created
    /\ \A s \in Session : s > created => name[s] = NoPort
    /\ \A i \in 1..Len(strand) : strand[i].k = "init" =>
           /\ strand[i].s <= created
           /\ \A s \in Session : s >= strand[i].s => name[s] = NoPort
    /\ \A i, j \in 1..Len(strand) :
           strand[i].k = "init" /\ strand[j].k = "init" /\ i < j => strand[i].s < strand[j].s

LEMMA InitNames == Init => NameInv
<1> SUFFICES ASSUME Init PROVE NameInv
  OBVIOUS
<1>1. Len(strand) = 0 /\ sessions = {} /\ \A s \in Session : name[s] = NoPort
  BY DEF Init
<1> QED
  BY <1>1 DEF NameInv

\* The steps that name no session and create none.
LEMMA NamesKept ==
    ASSUME TypeInv, NameInv, UNCHANGED <<name, created>>, sessions' \subseteq sessions,
           \/ strand' = strand
           \/ strand # <<>> /\ strand' = Tail(strand)
           \/ \E t \in Tasks : t.k # "init" /\ Joins(strand, t, strand')
    PROVE  NameInv'
<1>1. strand \in Seq(Tasks)
  BY DEF TypeInv, TypeOK
<1>2. CASE strand' = strand
  BY <1>2 DEF NameInv
<1>3. CASE strand # <<>> /\ strand' = Tail(strand)
  <2>1. /\ Len(strand) \in Nat \ {0} /\ Len(strand') = Len(strand) - 1
        /\ \A i \in 1..(Len(strand) - 1) : strand'[i] = strand[i + 1]
    BY <1>1, <1>3, TailFacts
  <2>2. \A i \in 1..Len(strand') : i + 1 \in 1..Len(strand) /\ strand'[i] = strand[i + 1]
    BY <2>1
  <2>3. \A i, j \in 1..Len(strand') : i < j => i + 1 < j + 1
    OBVIOUS
  <2> QED
    BY <2>2, <2>3 DEF NameInv
<1>4. ASSUME NEW t \in Tasks, t.k # "init", Joins(strand, t, strand')
      PROVE  NameInv'
  <2>0. PICK n, d \in Nat : Placed(strand, t, strand', n, d)
    BY <1>1, <1>4, JoinFacts, Zenon
  <2>1. /\ Len(strand') \in Nat /\ strand'[n] = t
        /\ \A i \in 1..Len(strand') : i # n =>
               i - d \in 1..Len(strand) /\ strand'[i] = strand[i - d]
    BY <2>0 DEF Placed
  <2>2. \A i \in 1..Len(strand') : strand'[i].k = "init" =>
            i - d \in 1..Len(strand) /\ strand'[i] = strand[i - d]
    BY <1>4, <2>1
  <2>3. \A i, j \in 1..Len(strand') : i < j => i - d < j - d
    OBVIOUS
  <2> QED
    BY <2>2, <2>3 DEF NameInv
<1> QED
  BY <1>2, <1>3, <1>4

LEMMA WebCreateNames ==
    ASSUME TypeInv, NameInv, WebCreate
    PROVE  NameInv'
<1>1. CASE ~checkNameValid(web.req.com)
  BY <1>1, NamesKept DEF WebCreate, serialVars
<1>2. CASE checkNameValid(web.req.com)
  <2>1. /\ created \in Nat /\ created + 1 \in Session /\ web.req.com \in Port
        /\ Session \subseteq Nat /\ strand \in Seq(Tasks)
    <3>1. created \in 0..MaxSession /\ created < MaxSession /\ web.req \in Request
          /\ strand \in Seq(Tasks)
      BY DEF WebCreate, TypeInv, TypeOK, WebTyped
    <3> QED
      BY <3>1, ConstantsOK DEF Session, Requests
  <2>2. PICK s \in Session, t \in Tasks :
            /\ s = created + 1 /\ t.s = s /\ t.k = "init"
            /\ created' = s /\ sessions' = sessions \cup {s}
            /\ Joins(strand, t, strand') /\ name' = name
            /\ strand' = Append(strand, t) \/ OnlyCompletions
    <3>1. InitTask(created + 1, web.req.com) \in Tasks
      BY <2>1, TasksMade
    <3> QED
      BY <1>2, <2>1, <3>1 DEF WebCreate, Dispatch, AtOnce, Joins, InitTask, serialVars
  <2>0. PICK n, d \in Nat : Placed(strand, t, strand', n, d)
    BY <2>1, <2>2, JoinFacts, Zenon
  <2>3. /\ Len(strand') \in Nat /\ n \in 1..Len(strand') /\ strand'[n] = t
        /\ strand' = Append(strand, t) => n = Len(strand')
        /\ \A i \in 1..Len(strand') : i # n =>
               i - d \in 1..Len(strand) /\ strand'[i] = strand[i - d]
    BY <2>0 DEF Placed
  <2>4. /\ \A x \in sessions' : x <= created'
        /\ \A x \in Session : x > created' => name'[x] = NoPort
        /\ \A x \in Session : x >= s => name'[x] = NoPort
    <3>1. sessions \subseteq Nat
      BY <2>1 DEF TypeInv, TypeOK
    <3> QED
      BY <2>1, <2>2, <3>1 DEF NameInv
  <2>5. ASSUME NEW i \in 1..Len(strand'), strand'[i].k = "init"
        PROVE  /\ strand'[i].s <= created'
               /\ \A x \in Session : x >= strand'[i].s => name'[x] = NoPort
    <3>1. CASE i = n
      BY <2>1, <2>2, <2>3, <2>4, <3>1
    <3>2. CASE i # n
      <4>1. PICK k \in 1..Len(strand) : strand'[i] = strand[k]
        BY <2>3, <3>2
      <4>2. strand[k].k = "init" /\ strand[k].s \in Nat
        BY <2>1, <2>5, <4>1 DEF TypeInv, TaskTyped
      <4> QED
        BY <2>1, <2>2, <4>1, <4>2 DEF NameInv
    <3> QED
      BY <3>1, <3>2
  <2>6. ASSUME NEW i \in 1..Len(strand'), NEW j \in 1..Len(strand'),
               strand'[i].k = "init", strand'[j].k = "init", i < j
        PROVE  strand'[i].s < strand'[j].s
    <3>1. CASE i = n
      <4>1. j # n /\ j - d \in DOMAIN strand /\ strand[j - d].k = "init"
        BY <2>1, <2>3, <2>6, <3>1
      <4>2. n = Len(strand')
        BY <2>2, <2>3, <4>1 DEF OnlyCompletions, Completion
      <4> QED
        BY <2>3, <2>6, <3>1, <4>2
    <3>2. CASE i # n /\ j = n
      <4>1. PICK k \in 1..Len(strand) : strand'[i] = strand[k]
        BY <2>3, <3>2
      <4>2. strand[k].s \in Nat /\ strand[k].s <= created
        BY <2>1, <2>6, <4>1 DEF TypeInv, TaskTyped, NameInv
      <4>3. strand'[j].s = created + 1 /\ created \in Nat
        BY <2>1, <2>2, <2>3, <3>2
      <4> QED
        BY <4>1, <4>2, <4>3
    <3>3. CASE i # n /\ j # n
      <4>1. i - d < j - d
        BY <2>6
      <4> QED
        BY <2>3, <2>6, <3>3, <4>1 DEF NameInv
    <3> QED
      BY <3>1, <3>2, <3>3
  <2> QED
    BY <2>4, <2>5, <2>6 DEF NameInv
<1> QED
  BY <1>1, <1>2

\* What the init at the head of the strand knows of the other sessions.
LEMMA HeadInit ==
    ASSUME TypeInv, NameInv, InitName
    PROVE  /\ Head1.s \in Session /\ Head1.s <= created
           /\ \A s \in Session : s >= Head1.s => name[s] = NoPort
           /\ name' = [name EXCEPT ![Head1.s] = Head1.p]
<1>1. strand \in Seq(Tasks) /\ strand # <<>> /\ Head1.k = "init"
  BY DEF InitName, SerReady, TypeInv, TypeOK
<1>2. 1 \in 1..Len(strand) /\ Head1 = strand[1]
  BY <1>1, TailFacts DEF Head1
<1> QED
  BY <1>1, <1>2 DEF InitName, TypeInv, TaskTyped, NameInv

LEMMA InitNameNames ==
    ASSUME TypeInv, NameInv, InitName
    PROVE  NameInv'
<1> DEFINE h == Head1
<1>1. /\ h.s \in Session /\ h.s <= created /\ name' = [name EXCEPT ![h.s] = h.p]
      /\ name \in [Session -> Port \cup {NoPort}]
      /\ Session \subseteq Nat /\ created \in Nat
  BY HeadInit, ConstantsOK DEF TypeInv, TypeOK, Session
<1>2. /\ h = strand[1] /\ h.k = "init" /\ Len(strand) \in Nat \ {0}
      /\ Len(strand') = Len(strand) - 1
      /\ \A i \in 1..(Len(strand) - 1) : strand'[i] = strand[i + 1]
      /\ UNCHANGED <<sessions, created>>
  BY TailFacts DEF InitName, SerReady, TypeInv, TypeOK, Head1
<1>3. \A i \in 1..Len(strand') :
          /\ i + 1 \in 1..Len(strand) /\ 1 \in 1..Len(strand) /\ 1 < i + 1
          /\ strand'[i] = strand[i + 1]
  BY <1>2
<1>4. \A s \in Session : s > created' => name'[s] = NoPort
  BY <1>1, <1>2 DEF NameInv
<1>5. ASSUME NEW i \in 1..Len(strand'), strand'[i].k = "init"
      PROVE  /\ strand'[i].s <= created'
             /\ \A s \in Session : s >= strand'[i].s => name'[s] = NoPort
  <2>1. strand'[i].s \in Session /\ h.s < strand'[i].s /\ strand'[i].s <= created
        /\ \A s \in Session : s >= strand'[i].s => name[s] = NoPort
    BY <1>2, <1>3, <1>5 DEF NameInv, TypeInv, TaskTyped
  <2>2. ASSUME NEW s \in Session, s >= strand'[i].s PROVE name'[s] = NoPort
    <3>1. h.s \in Nat /\ strand'[i].s \in Nat /\ s \in Nat
      BY <1>1, <2>1, <2>2 DEF Session
    <3>2. name[s] = NoPort /\ s # h.s
      BY <2>1, <2>2, <3>1
    <3> QED
      BY <1>1, <3>2
  <2> QED
    BY <1>2, <2>1, <2>2
<1>6. ASSUME NEW i \in 1..Len(strand'), NEW j \in 1..Len(strand'),
             strand'[i].k = "init", strand'[j].k = "init", i < j
      PROVE  strand'[i].s < strand'[j].s
  <2>1. i + 1 < j + 1
    BY <1>6
  <2> QED
    BY <1>3, <1>6, <2>1 DEF NameInv
<1>7. \A s \in sessions' : s <= created'
  BY <1>2 DEF NameInv
<1> QED
  BY <1>4, <1>5, <1>6, <1>7 DEF NameInv

LEMMA OtherNames ==
    ASSUME TypeInv, NameInv, Next, ~WebCreate, ~InitName
    PROVE  NameInv' /\ UNCHANGED name /\ (sessions' = sessions \/ sessions' = {})
<1>1. CASE (\E r \in Request : WebLookup(r)) \/ WebCheck \/ WebSend \/ WebWrite \/ PortsFound
  BY <1>1, NamesKept
  DEF WebLookup, WebCheck, WebSend, WebWrite, PortsFound, serialVars
<1>2. CASE InitOpen \/ StopClose \/ TickArm
  BY <1>2, NamesKept DEF InitOpen, StopClose, TickArm, serialVars
<1>3. CASE StopWrite \/ WriteDone \/ Tick
  BY <1>3, NamesKept DEF StopWrite, WriteDone, Tick, SerReady, serialVars
<1>4. CASE Signal \/ TimerExpire
  <2>1. \/ strand' = strand
        \/ \E t \in Tasks : t.k # "init" /\ Joins(strand, t, strand')
    BY <1>4, TasksMade DEF Signal, TimerExpire, TickTask, Joins
  <2> QED
    BY <1>4, <2>1, NamesKept DEF Signal, TimerExpire, serialVars
<1>5. CASE SweepClose
  <2>1. PICK s \in Session :
            strand' = strand \/ Joins(strand, StopTask(s, Len(ops) + 1), strand')
    BY <1>5 DEF SweepClose, Dispatch, Joins, ToClose, TypeInv, TypeOK
  <2>2. Len(ops) + 1 \in Nat
    BY DEF TypeInv, TypeOK
  <2>3. \/ strand' = strand
        \/ \E t \in Tasks : t.k # "init" /\ Joins(strand, t, strand')
    BY <2>1, <2>2, TasksMade DEF StopTask
  <2> QED
    BY <1>5, <2>3, NamesKept DEF SweepClose
<1>6. CASE SweepClear \/ Exit \/ ListRace
  BY <1>6, NamesKept DEF SweepClear, Exit, ListRace, serialVars
<1>7. ASSUME NEW s \in Session, NEW ok \in BOOLEAN, DriverDone(s, ok)
      PROVE  NameInv' /\ UNCHANGED <<name, sessions>>
  <2>1. Head(driver[s]) \in Nat
    BY <1>7, TailFacts DEF DriverDone, TypeInv, TypeOK
  <2>2. \/ strand' = strand
        \/ \E t \in Tasks : t.k # "init" /\ Joins(strand, t, strand')
    BY <1>7, <2>1, TasksMade DEF DriverDone, DoneTask, Joins
  <2> QED
    BY <1>7, <2>2, NamesKept DEF DriverDone
<1>8. CASE Halted
  BY <1>8, NamesKept DEF Halted, vars, serialVars
<1> QED
  BY <1>1, <1>2, <1>3, <1>4, <1>5, <1>6, <1>7, <1>8 DEF Next

LEMMA StepNames == TypeInv /\ NameInv /\ [Next]_vars => NameInv'
<1> SUFFICES ASSUME TypeInv, NameInv, [Next]_vars PROVE NameInv'
  OBVIOUS
<1>1. CASE Next
  BY <1>1, WebCreateNames, InitNameNames, OtherNames
<1>2. CASE UNCHANGED vars
  BY <1>2, NamesKept DEF vars, serialVars
<1> QED
  BY <1>1, <1>2

LEMMA LeastIsChosen ==
    ASSUME NEW F, F \subseteq Session, NEW g \in F, \A x \in F : g <= x
    PROVE  (CHOOSE s \in F : \A x \in F : s <= x) = g
<1>1. \A s \in F : (\A x \in F : s <= x) => s = g
  BY ConstantsOK DEF Session
<1> QED
  BY <1>1

\* A session that is found stays found by a step that clears nothing.
LEMMA StepLookup ==
    ASSUME TypeInv, TypeInv', NameInv, [Next]_vars, NEW p \in Port, Get(p) # 0,
           sessions \subseteq sessions'
    PROVE  Get(p)' = Get(p)
<1> DEFINE g == Get(p)
           F == {s \in sessions' : name'[s] = p}
<1>1. /\ sessions \subseteq Session /\ sessions' \subseteq Session /\ p # NoPort
      /\ Session \subseteq Nat /\ created \in Nat
      /\ name \in [Session -> Port \cup {NoPort}]
  <2>1. Session \subseteq Nat /\ p # NoPort
    BY ConstantsOK DEF Session
  <2> QED
    BY <2>1 DEF TypeInv, TypeOK
<1>2. g \in sessions /\ name[g] = p /\ \A x \in sessions : name[x] = p => g <= x
  BY <1>1, GetFound
<1> HIDE DEF g
<1>3. g \in F /\ \A x \in F : g <= x
  <2>1. CASE WebCreate
    <3>1. name' = name /\ sessions' \subseteq sessions \cup {created + 1}
      BY <2>1 DEF WebCreate, serialVars
    <3>2. created + 1 \in Session => name[created + 1] = NoPort
      BY <1>1 DEF NameInv
    <3> QED
      BY <1>1, <1>2, <3>1, <3>2
  <2>2. CASE InitName
    <3>1. /\ Head1.s \in Session /\ name' = [name EXCEPT ![Head1.s] = Head1.p]
          /\ \A s \in Session : s >= Head1.s => name[s] = NoPort
      BY <2>2, HeadInit
    <3>2. sessions' = sessions
      BY <2>2 DEF InitName
    <3>3. g < Head1.s
      <4>1. g \in Session /\ g \in Nat /\ Head1.s \in Nat
        BY <1>1, <1>2, <3>1
      <4>2. ~(g >= Head1.s)
        BY <1>1, <1>2, <3>1, <4>1
      <4> QED
        BY <4>1, <4>2
    <3> QED
      BY <1>1, <1>2, <3>1, <3>2, <3>3
  <2>3. CASE Next /\ ~WebCreate /\ ~InitName
    <3>1. name' = name /\ (sessions' = sessions \/ sessions' = {})
      BY <2>3, OtherNames
    <3> QED
      BY <1>2, <3>1
  <2>4. CASE UNCHANGED vars
    BY <1>2, <2>4 DEF vars, serialVars
  <2> QED
    BY <2>1, <2>2, <2>3, <2>4
<1>4. Get(p)' = CHOOSE s \in F : \A x \in F : s <= x
  BY <1>3 DEF Get
<1>5. F \subseteq Session
  BY <1>1
<1> HIDE DEF F
<1>6. (CHOOSE s \in F : \A x \in F : s <= x) = g
  BY <1>3, <1>5, LeastIsChosen
<1> QED
  BY <1>4, <1>6 DEF g

\* While stopAll clears nothing, a COM name that resolves to a session keeps resolving
\* to it, although create() can append sessions of the same name.
THEOREM LookupsStable == Spec => LookupStable
<1>1. TypeInv /\ TypeInv' /\ NameInv /\ [Next]_vars =>
          [\A p \in Port : Get(p) # 0 /\ sessions \subseteq sessions' => Get(p)' = Get(p)]_vars
  BY StepLookup
<1>2. Spec => []NameInv
  BY InitNames, StepNames, TypeInvariant, PTL DEF Spec
<1> QED
  BY <1>1, <1>2, TypeInvariant, PTL DEF Spec, LookupStable

-----------------------------------------------------------------------------
(* The chain of timer waits.  A wait, its queued handler and its running   *)
(* handler are one link; the invariant places it.                          *)

\* Handler i of queue q is the timer's, and its wait was not cancelled.
Expired(q, i) == q[i].k = "tick" /\ q[i].ok

PollInv ==
    /\ \A i, j \in 1..Len(strand) : Expired(strand, i) /\ Expired(strand, j) => i = j
    /\ ser.pc = "tick" =>
           timer # "armed" /\ ~\E i \in 1..Len(strand) : Expired(strand, i)
    /\ timer = "armed" => ~\E i \in 1..Len(strand) : Expired(strand, i)
    /\ timer = "queued" /\ phase = "up" =>
           ser.pc = "tick" \/ \E i \in 1..Len(strand) : Expired(strand, i)

LEMMA InitPoll == Init => PollInv
<1> SUFFICES ASSUME Init PROVE PollInv
  OBVIOUS
<1>1. timer = "armed" /\ Len(strand) = 0 /\ ser.pc = "idle"
  BY DEF Init, SerIdle
<1> QED
  BY <1>1 DEF PollInv

\* The queue keeps its expired wait when something else is appended or taken.
LEMMA PollQueue ==
    ASSUME TypeInv,
           \/ strand' = strand
           \/ strand # <<>> /\ ~Expired(strand, 1) /\ strand' = Tail(strand)
           \/ \E t \in Tasks : ~(t.k = "tick" /\ t.ok) /\ Joins(strand, t, strand')
    PROVE  /\ (\E i \in 1..Len(strand') : Expired(strand', i))
                  <=> (\E i \in 1..Len(strand) : Expired(strand, i))
           /\ (\A i, j \in 1..Len(strand) : Expired(strand, i) /\ Expired(strand, j) => i = j)
                  => \A i, j \in 1..Len(strand') :
                         Expired(strand', i) /\ Expired(strand', j) => i = j
<1>1. strand \in Seq(Tasks)
  BY DEF TypeInv, TypeOK
<1>2. CASE strand' = strand
  BY <1>2
<1>3. CASE strand # <<>> /\ ~Expired(strand, 1) /\ strand' = Tail(strand)
  <2>1. /\ Len(strand) \in Nat \ {0} /\ Len(strand') = Len(strand) - 1
        /\ \A i \in 1..(Len(strand) - 1) : strand'[i] = strand[i + 1]
    BY <1>1, <1>3, TailFacts
  <2>2. \A i \in 1..Len(strand') :
            i + 1 \in 1..Len(strand) /\ (Expired(strand', i) <=> Expired(strand, i + 1))
    BY <2>1 DEF Expired
  <2>3. ASSUME NEW i \in 1..Len(strand), Expired(strand, i)
        PROVE  i - 1 \in 1..Len(strand') /\ Expired(strand', i - 1)
    <3>1. i # 1
      BY <1>3, <2>3
    <3>2. i - 1 \in 1..(Len(strand) - 1) /\ (i - 1) + 1 = i
      BY <2>1, <3>1
    <3>3. i - 1 \in 1..Len(strand')
      BY <2>1, <3>2
    <3>4. Expired(strand', i - 1) <=> Expired(strand, (i - 1) + 1)
      BY <2>2, <3>3
    <3> QED
      BY <2>3, <3>2, <3>3, <3>4
  <2>4. ASSUME NEW i \in 1..Len(strand'), NEW j \in 1..Len(strand'), i + 1 = j + 1
        PROVE  i = j
    BY <2>1, <2>4
  <2> QED
    BY <2>2, <2>3, <2>4
<1>4. ASSUME NEW t \in Tasks, ~(t.k = "tick" /\ t.ok), Joins(strand, t, strand')
      PROVE  /\ (\E i \in 1..Len(strand') : Expired(strand', i))
                    <=> (\E i \in 1..Len(strand) : Expired(strand, i))
             /\ (\A i, j \in 1..Len(strand) :
                     Expired(strand, i) /\ Expired(strand, j) => i = j)
                    => \A i, j \in 1..Len(strand') :
                           Expired(strand', i) /\ Expired(strand', j) => i = j
  <2>0. PICK n, d \in Nat : Placed(strand, t, strand', n, d)
    BY <1>1, <1>4, JoinFacts, Zenon
  <2>1. /\ Len(strand') \in Nat /\ strand'[n] = t
        /\ \A i \in 1..Len(strand') : i # n =>
               i - d \in 1..Len(strand) /\ strand'[i] = strand[i - d]
        /\ \A i \in 1..Len(strand) :
               i + d \in 1..Len(strand') /\ strand'[i + d] = strand[i]
    BY <2>0 DEF Placed
  <2>2. \A i \in 1..Len(strand') : Expired(strand', i) =>
            i - d \in 1..Len(strand) /\ Expired(strand, i - d)
    BY <1>4, <2>1 DEF Expired
  <2>3. \A i \in 1..Len(strand) : Expired(strand, i) =>
            i + d \in 1..Len(strand') /\ Expired(strand', i + d)
    BY <2>1 DEF Expired
  <2>4. \A i, j \in 1..Len(strand') : i - d = j - d => i = j
    OBVIOUS
  <2> QED
    BY <2>2, <2>3, <2>4
<1> QED
  BY <1>2, <1>3, <1>4

\* The steps that do not touch the timer or its handler.
LEMMA PollKept ==
    ASSUME TypeInv, PollInv, UNCHANGED timer, phase' = "up" => phase = "up",
           \/ strand' = strand
           \/ strand # <<>> /\ ~Expired(strand, 1) /\ strand' = Tail(strand)
           \/ \E t \in Tasks : ~(t.k = "tick" /\ t.ok) /\ Joins(strand, t, strand'),
           ser' = ser \/ "tick" \notin {ser.pc, ser'.pc}
    PROVE  PollInv'
BY PollQueue DEF PollInv

\* The head of the strand is taken.
LEMMA PollHead ==
    ASSUME TypeInv, strand # <<>>
    PROVE  /\ strand \in Seq(Tasks) /\ Head1 \in Tasks
           /\ 1 \in 1..Len(strand) /\ (Expired(strand, 1) <=> Head1.k = "tick" /\ Head1.ok)
<1>1. strand \in Seq(Tasks)
  BY DEF TypeInv, TypeOK
<1> QED
  BY <1>1, TailFacts DEF Expired, Head1

LEMMA TickPoll ==
    ASSUME TypeInv, PollInv, Tick
    PROVE  PollInv'
<1>1. /\ strand # <<>> /\ strand' = Tail(strand) /\ ser.pc = "idle" /\ phase = "up"
      /\ Head1.k = "tick" /\ timer' = timer
  BY DEF Tick, SerReady, pollVars
<1>2. /\ strand \in Seq(Tasks) /\ Head1 \in Tasks /\ 1 \in 1..Len(strand)
      /\ (Expired(strand, 1) <=> Head1.ok)
  BY <1>1, PollHead
<1>3. CASE ~Head1.ok
  <2>1. ser'.pc = "idle" /\ phase' = phase
    BY <1>3, TasksMade DEF Tick
  <2> QED
    BY <1>1, <1>2, <1>3, <2>1, PollKept
<1>4. CASE Head1.ok
  <2>1. \A i \in 1..Len(strand') : i + 1 \in 1..Len(strand) /\ i + 1 # 1
                                   /\ strand'[i] = strand[i + 1]
    BY <1>1, <1>2, TailFacts
  <2>2. ~\E i \in 1..Len(strand') : Expired(strand', i)
    <3> SUFFICES ASSUME NEW i \in 1..Len(strand'), Expired(strand', i) PROVE FALSE
      OBVIOUS
    <3>1. Expired(strand, i + 1)
      BY <2>1 DEF Expired
    <3> QED
      BY <1>2, <1>4, <2>1, <3>1 DEF PollInv
  <2>3. timer # "armed"
    BY <1>2, <1>4 DEF PollInv
  <2>4. /\ ser'.pc = IF timer # "null" THEN "tick" ELSE "idle"
    BY <1>4, TasksMade DEF Tick
  <2> QED
    BY <1>1, <2>2, <2>3, <2>4 DEF PollInv
<1> QED
  BY <1>3, <1>4

LEMMA StepPoll == TypeInv /\ PollInv /\ [Next]_vars => PollInv'
<1> SUFFICES ASSUME TypeInv, PollInv, [Next]_vars PROVE PollInv'
  OBVIOUS
<1>1. CASE \/ \E r \in Request : WebLookup(r)
           \/ WebCheck \/ WebSend \/ WebWrite \/ PortsFound \/ SweepClear \/ UNCHANGED vars
  BY <1>1, PollKept
  DEF WebLookup, WebCheck, WebSend, WebWrite, PortsFound, SweepClear, vars, serialVars, pollVars
<1>2. CASE WebCreate
  <2>1. CASE checkNameValid(web.req.com)
    <3>1. created \in 0..MaxSession /\ created < MaxSession /\ web.req \in Request
      BY <1>2 DEF WebCreate, TypeInv, TypeOK, WebTyped
    <3>2. created + 1 \in Session /\ web.req.com \in Port
      BY <3>1, ConstantsOK DEF Session, Requests
    <3>3. InitTask(created + 1, web.req.com) \in Tasks
          /\ InitTask(created + 1, web.req.com).k # "tick"
      BY <3>2, TasksMade DEF InitTask
    <3> QED
      BY <1>2, <2>1, <3>3, PollKept DEF WebCreate, Dispatch, Joins, pollVars
  <2>2. CASE ~checkNameValid(web.req.com)
    BY <1>2, <2>2, PollKept DEF WebCreate, pollVars
  <2> QED
    BY <2>1, <2>2
<1>3. CASE InitName \/ WriteDone
  <2>1. strand # <<>> /\ Head1.k # "tick" /\ ser.pc = "idle"
    BY <1>3 DEF InitName, WriteDone, SerReady
  <2>2. ~Expired(strand, 1)
    BY <2>1, PollHead
  <2> QED
    BY <1>3, <2>1, <2>2, PollKept DEF InitName, WriteDone, pollVars
<1>4. CASE InitOpen \/ StopClose
  <2>1. "tick" \notin {ser.pc, ser'.pc}
    BY <1>4, TasksMade DEF InitOpen, StopClose
  <2> QED
    BY <1>4, <2>1, PollKept DEF InitOpen, StopClose, pollVars
<1>5. CASE StopWrite
  <2>1. strand # <<>> /\ Head1.k # "tick" /\ ser.pc = "idle" /\ strand' = Tail(strand)
    BY <1>5 DEF StopWrite, SerReady
  <2>2. ~Expired(strand, 1)
    BY <2>1, PollHead
  <2>3. ser' = ser \/ "tick" \notin {ser.pc, ser'.pc}
    BY <1>5, <2>1 DEF StopWrite
  <2> QED
    BY <1>5, <2>1, <2>2, <2>3, PollKept DEF StopWrite, pollVars
<1>6. CASE Tick
  BY <1>6, TickPoll
<1>7. CASE TickArm
  <2>1. /\ ser.pc = "tick" /\ ser'.pc = "idle" /\ strand' = strand
        /\ timer' = IF timer = "null" THEN "null" ELSE "armed"
    BY <1>7, TasksMade DEF TickArm
  <2> QED
    BY <2>1 DEF PollInv
<1>8. CASE Signal
  <2>1. timer' = "null" /\ ser' = ser
    BY <1>8 DEF Signal
  <2>2. \/ strand' = strand
        \/ \E t \in Tasks : ~(t.k = "tick" /\ t.ok) /\ Joins(strand, t, strand')
    BY <1>8, TasksMade DEF Signal, TickTask, Joins
  <2> QED
    BY <2>1, <2>2, PollQueue DEF PollInv
<1>9. CASE TimerExpire
  <2>1. PICK t \in Tasks : t.k = "tick" /\ t.ok /\ strand' = Append(strand, t)
    BY <1>9, TasksMade DEF TimerExpire, TickTask
  <2>2. timer = "armed" /\ timer' = "queued" /\ ser' = ser /\ strand \in Seq(Tasks)
    BY <1>9 DEF TimerExpire, TypeInv, TypeOK
  <2>3. /\ Len(strand) \in Nat /\ Len(strand') = Len(strand) + 1
        /\ strand'[Len(strand) + 1] = t
        /\ \A i \in 1..Len(strand) : strand'[i] = strand[i]
    BY <2>1, <2>2, AppendFacts
  <2>4. \A i \in 1..Len(strand') : Expired(strand', i) => i = Len(strand) + 1
    BY <2>2, <2>3 DEF PollInv, Expired
  <2>5. Len(strand) + 1 \in 1..Len(strand') /\ Expired(strand', Len(strand) + 1)
    BY <2>1, <2>3 DEF Expired
  <2> QED
    BY <2>2, <2>4, <2>5 DEF PollInv
<1>10. CASE SweepClose
  <2>1. PICK s \in Session :
            strand' = strand \/ Joins(strand, StopTask(s, Len(ops) + 1), strand')
    BY <1>10 DEF SweepClose, Dispatch, Joins, ToClose, TypeInv, TypeOK
  <2>2. Len(ops) + 1 \in Nat
    BY DEF TypeInv, TypeOK
  <2>3. \/ strand' = strand
        \/ \E t \in Tasks : t.k # "tick" /\ Joins(strand, t, strand')
    BY <2>1, <2>2, TasksMade DEF StopTask
  <2> QED
    BY <1>10, <2>3, PollKept DEF SweepClose, pollVars
<1>11. CASE Exit \/ ListRace
  BY <1>11, PollKept DEF Exit, ListRace, pollVars
<1>12. ASSUME NEW s \in Session, NEW ok \in BOOLEAN, DriverDone(s, ok)
       PROVE  PollInv'
  <2>1. Head(driver[s]) \in Nat
    BY <1>12, TailFacts DEF DriverDone, TypeInv, TypeOK
  <2>2. \/ strand' = strand
        \/ \E t \in Tasks : t.k # "tick" /\ Joins(strand, t, strand')
    BY <1>12, <2>1, TasksMade DEF DriverDone, DoneTask, Joins
  <2>3. ser' = ser \/ "tick" \notin {ser.pc, ser'.pc}
    BY <1>12 DEF DriverDone
  <2> QED
    BY <1>12, <2>2, <2>3, PollKept DEF DriverDone, pollVars
<1> QED
  BY <1>1, <1>2, <1>3, <1>4, <1>5, <1>6, <1>7, <1>8, <1>9, <1>10, <1>11, <1>12 DEF Next, Halted

\* The number of links that the invariant allows.
LEMMA PollCount ==
    ASSUME TypeInv, PollInv
    PROVE  PollChain
<1> DEFINE E == {i \in DOMAIN strand : strand[i].k = "tick" /\ strand[i].ok}
<1>1. DOMAIN strand = 1..Len(strand)
  BY DEF TypeInv, TypeOK
<1>2. CASE E = {}
  <2>1. Cardinality(E) = 0
    BY <1>2, FS_EmptySet
  <2>2. ~\E i \in 1..Len(strand) : Expired(strand, i)
    BY <1>1, <1>2 DEF Expired
  <2> QED
    BY <2>1, <2>2 DEF PollInv, PollChain, TicksAlive, TypeInv, TypeOK
<1>3. CASE E # {}
  <2>1. PICK i \in 1..Len(strand) : Expired(strand, i)
    BY <1>1, <1>3 DEF Expired
  <2>2. E = {i}
    BY <1>1, <2>1 DEF Expired, PollInv
  <2>3. Cardinality(E) = 1
    BY <2>2, FS_Singleton
  <2> QED
    BY <2>1, <2>3 DEF PollInv, PollChain, TicksAlive, TypeInv, TypeOK
<1> QED
  BY <1>2, <1>3

\* The chain of timer waits neither forks nor dies: until stop() there is exactly one
\* armed wait, queued handler or running handler, and at most one after.
THEOREM PollsChained == Spec => []PollChain
<1>1. Spec => []PollInv
  BY InitPoll, StepPoll, TypeInvariant, PTL DEF Spec
<1> QED
  BY <1>1, PollCount, TypeInvariant, PTL

-----------------------------------------------------------------------------
(* Settled sessions and stop commands, which the theorems below and the    *)
(* refinement proof rely on.                                               *)

\* An open port has a name, and the init of a session that is being opened is the only
\* one it gets: it is not open yet.
SettledInv ==
    /\ \A s \in opened : name[s] # NoPort
    /\ ser.pc = "open" =>
           ser.t.s \notin opened /\ ser.t.p \in Port /\ name[ser.t.s] = ser.t.p
    /\ \A i \in 1..Len(strand) : strand[i].k = "init" => strand[i].p \in Port

\* What the sweep queues is a stop command, still when it is written and after.
StopCommands ==
    /\ \A i \in 1..Len(strand) : strand[i].k = "stop" => ops[strand[i].op].cmd = Stop
    /\ ser.pc \in {"write", "close"} => ops[ser.t.op].cmd = Stop

ChannelInv == SettledInv /\ StopCommands

LEMMA InitChannelInv == Init => ChannelInv
<1> SUFFICES ASSUME Init PROVE ChannelInv
  OBVIOUS
<1>1. opened = {} /\ Len(strand) = 0 /\ ser.pc = "idle"
  BY DEF Init, SerIdle
<1> QED
  BY <1>1 DEF ChannelInv, SettledInv, StopCommands

\* The steps that name and open no session.
LEMMA SettledKept ==
    ASSUME TypeInv, SettledInv, name' = name, opened' \subseteq opened,
           \/ strand' = strand
           \/ strand # <<>> /\ strand' = Tail(strand)
           \/ \E t \in Tasks : (t.k = "init" => t.p \in Port) /\ Joins(strand, t, strand'),
           ser' = ser \/ ser'.pc # "open"
    PROVE  SettledInv'
<1>1. strand \in Seq(Tasks)
  BY DEF TypeInv, TypeOK
<1>2. ASSUME NEW i \in 1..Len(strand'), strand'[i].k = "init" PROVE strand'[i].p \in Port
  <2>1. CASE strand' = strand
    BY <1>2, <2>1 DEF SettledInv
  <2>2. CASE strand # <<>> /\ strand' = Tail(strand)
    <3>1. i + 1 \in 1..Len(strand) /\ strand'[i] = strand[i + 1]
      BY <1>1, <2>2, TailFacts
    <3> QED
      BY <1>2, <3>1 DEF SettledInv
  <2>3. ASSUME NEW t \in Tasks, t.k = "init" => t.p \in Port, Joins(strand, t, strand')
        PROVE  strand'[i].p \in Port
    <3>1. strand'[i] = t \/ \E j \in 1..Len(strand) : strand'[i] = strand[j]
      <4>1. \E n, d \in Nat : Placed(strand, t, strand', n, d)
        BY <1>1, <2>3, JoinFacts, Zenon
      <4> QED
        BY <1>1, <2>3, <4>1 DEF Placed
    <3> QED
      BY <1>2, <2>3, <3>1 DEF SettledInv
  <2> QED
    BY <2>1, <2>2, <2>3
<1>3. \A s \in opened' : name'[s] # NoPort
  BY DEF SettledInv
<1>4. ser'.pc = "open" =>
          ser'.t.s \notin opened' /\ ser'.t.p \in Port /\ name'[ser'.t.s] = ser'.t.p
  BY DEF SettledInv
<1> QED
  BY <1>2, <1>3, <1>4 DEF SettledInv

LEMMA InitNameSettled ==
    ASSUME TypeInv, NameInv, SettledInv, InitName
    PROVE  SettledInv'
<1>1. /\ strand \in Seq(Tasks) /\ strand # <<>> /\ strand' = Tail(strand)
      /\ Head1.k = "init" /\ opened' = opened /\ ser' = [pc |-> "open", t |-> Head1]
  BY DEF InitName, SerReady, TypeInv, TypeOK
<1>2. /\ Head1.s \in Session /\ name[Head1.s] = NoPort
      /\ name' = [name EXCEPT ![Head1.s] = Head1.p]
  BY HeadInit, ConstantsOK DEF Session
<1>3. Head1 = strand[1] /\ 1 \in 1..Len(strand)
  BY <1>1, TailFacts DEF Head1
<1>4. Head1.p \in Port
  BY <1>1, <1>3 DEF SettledInv
<1>5. Head1.s \notin opened
  BY <1>2 DEF SettledInv
<1>6. name'[Head1.s] = Head1.p /\ \A s \in opened : name'[s] = name[s]
  BY <1>2, <1>5 DEF TypeInv, TypeOK
<1>7. \A i \in 1..Len(strand') : i + 1 \in 1..Len(strand) /\ strand'[i] = strand[i + 1]
  BY <1>1, TailFacts
<1> QED
  BY <1>1, <1>4, <1>5, <1>6, <1>7 DEF SettledInv

LEMMA StepSettled == TypeInv /\ NameInv /\ SettledInv /\ [Next]_vars => SettledInv'
<1> SUFFICES ASSUME TypeInv, NameInv, SettledInv, [Next]_vars PROVE SettledInv'
  OBVIOUS
<1>1. CASE (\E r \in Request : WebLookup(r)) \/ WebCheck \/ WebSend \/ WebWrite \/ PortsFound
  BY <1>1, SettledKept
  DEF WebLookup, WebCheck, WebSend, WebWrite, PortsFound, serialVars
<1>2. CASE WebCreate
  <2>1. CASE checkNameValid(web.req.com)
    <3>1. created \in 0..MaxSession /\ created < MaxSession /\ web.req \in Request
      BY <1>2 DEF WebCreate, TypeInv, TypeOK, WebTyped
    <3>2. created + 1 \in Session /\ web.req.com \in Port
      BY <3>1, ConstantsOK DEF Session, Requests
    <3>3. InitTask(created + 1, web.req.com) \in Tasks
          /\ InitTask(created + 1, web.req.com).p \in Port
      BY <3>2, TasksMade DEF InitTask
    <3> QED
      BY <1>2, <2>1, <3>3, SettledKept DEF WebCreate, Dispatch, Joins, serialVars
  <2>2. CASE ~checkNameValid(web.req.com)
    BY <1>2, <2>2, SettledKept DEF WebCreate, serialVars
  <2> QED
    BY <2>1, <2>2
<1>3. CASE InitName
  BY <1>3, InitNameSettled
<1>4. CASE InitOpen
  <2>1. /\ opened' \subseteq opened \cup {ser.t.s} /\ name' = name /\ strand' = strand
        /\ ser'.pc # "open" /\ name[ser.t.s] # NoPort
    BY <1>4, TasksMade, ConstantsOK DEF InitOpen, SettledInv
  <2> QED
    BY <2>1 DEF SettledInv
<1>5. CASE StopWrite
  <2>1. ser' = ser \/ ser'.pc # "open"
    BY <1>5 DEF StopWrite
  <2> QED
    BY <1>5, <2>1, SettledKept DEF StopWrite, SerReady
<1>6. CASE StopClose \/ WriteDone \/ Tick \/ TickArm
  BY <1>6, SettledKept, TasksMade DEF StopClose, WriteDone, Tick, TickArm, SerReady, serialVars
<1>7. CASE Signal \/ TimerExpire
  <2>1. \/ strand' = strand
        \/ \E t \in Tasks : t.k # "init" /\ Joins(strand, t, strand')
    BY <1>7, TasksMade DEF Signal, TimerExpire, TickTask, Joins
  <2> QED
    BY <1>7, <2>1, SettledKept DEF Signal, TimerExpire, serialVars
<1>8. CASE SweepClose
  <2>1. PICK s \in Session :
            strand' = strand \/ Joins(strand, StopTask(s, Len(ops) + 1), strand')
    BY <1>8 DEF SweepClose, Dispatch, Joins, ToClose, TypeInv, TypeOK
  <2>2. Len(ops) + 1 \in Nat
    BY DEF TypeInv, TypeOK
  <2>3. \/ strand' = strand
        \/ \E t \in Tasks : t.k # "init" /\ Joins(strand, t, strand')
    BY <2>1, <2>2, TasksMade DEF StopTask
  <2> QED
    BY <1>8, <2>3, SettledKept DEF SweepClose
<1>9. CASE SweepClear \/ Exit \/ ListRace \/ UNCHANGED vars
  BY <1>9, SettledKept DEF SweepClear, Exit, ListRace, vars, serialVars
<1>10. ASSUME NEW s \in Session, NEW ok \in BOOLEAN, DriverDone(s, ok)
       PROVE  SettledInv'
  <2>1. Head(driver[s]) \in Nat
    BY <1>10, TailFacts DEF DriverDone, TypeInv, TypeOK
  <2>2. \/ strand' = strand
        \/ \E t \in Tasks : t.k # "init" /\ Joins(strand, t, strand')
    BY <1>10, <2>1, TasksMade DEF DriverDone, DoneTask, Joins
  <2>3. ser' = ser \/ ser'.pc # "open"
    BY <1>10 DEF DriverDone
  <2> QED
    BY <1>10, <2>2, <2>3, SettledKept DEF DriverDone
<1> QED
  BY <1>1, <1>2, <1>3, <1>4, <1>5, <1>6, <1>7, <1>8, <1>9, <1>10 DEF Next, Halted

\* The steps that queue no stop command and start to write none.
LEMMA StopCommandsKept ==
    ASSUME TypeInv, StopCommands,
           \A o \in 1..Len(ops) : ops'[o] = ops[o],
           \/ strand' = strand
           \/ strand # <<>> /\ strand' = Tail(strand)
           \/ \E t \in Tasks : t.k # "stop" /\ Joins(strand, t, strand'),
           \/ ser' = ser
           \/ ser'.pc \notin {"write", "close"}
           \/ ser.pc = "write" /\ ser'.t.op = ser.t.op
    PROVE  StopCommands'
<1>1. strand \in Seq(Tasks)
  BY DEF TypeInv, TypeOK
<1>2. \A i \in 1..Len(strand) : strand[i].k = "stop" => ops'[strand[i].op].cmd = Stop
  BY DEF TypeInv, TaskTyped, Mine, StopCommands
<1>3. ASSUME NEW i \in 1..Len(strand'), strand'[i].k = "stop"
      PROVE  ops'[strand'[i].op].cmd = Stop
  <2>1. CASE strand' = strand
    BY <1>2, <1>3, <2>1
  <2>2. CASE strand # <<>> /\ strand' = Tail(strand)
    <3>1. i + 1 \in 1..Len(strand) /\ strand'[i] = strand[i + 1]
      BY <1>1, <2>2, TailFacts
    <3> QED
      BY <1>2, <1>3, <3>1
  <2>3. ASSUME NEW t \in Tasks, t.k # "stop", Joins(strand, t, strand')
        PROVE  ops'[strand'[i].op].cmd = Stop
    <3>1. strand'[i] = t \/ \E j \in 1..Len(strand) : strand'[i] = strand[j]
      <4>1. \E n, d \in Nat : Placed(strand, t, strand', n, d)
        BY <1>1, <2>3, JoinFacts, Zenon
      <4> QED
        BY <1>1, <2>3, <4>1 DEF Placed
    <3> QED
      BY <1>2, <1>3, <2>3, <3>1
  <2> QED
    BY <2>1, <2>2, <2>3
<1>4. ser'.pc \in {"write", "close"} => ops'[ser'.t.op].cmd = Stop
  BY DEF TypeInv, SerTyped, Mine, StopCommands
<1> QED
  BY <1>3, <1>4 DEF StopCommands

LEMMA StopWriteCommands ==
    ASSUME TypeInv, StopCommands, StopWrite
    PROVE  StopCommands'
<1>1. /\ strand \in Seq(Tasks) /\ strand # <<>> /\ strand' = Tail(strand)
      /\ Head1.k = "stop" /\ ops' = ops
      /\ ser' = ser \/ ser' = [pc |-> "write", t |-> Head1]
  BY DEF StopWrite, SerReady, TypeInv, TypeOK
<1>2. Head1 = strand[1] /\ 1 \in 1..Len(strand)
  BY <1>1, TailFacts DEF Head1
<1>3. ops[Head1.op].cmd = Stop
  BY <1>1, <1>2 DEF StopCommands
<1>4. \A i \in 1..Len(strand') : i + 1 \in 1..Len(strand) /\ strand'[i] = strand[i + 1]
  BY <1>1, TailFacts
<1> QED
  BY <1>1, <1>3, <1>4 DEF StopCommands

\* A session is swept: either a stop command is issued and its task queued, or nothing is.
LEMMA SweepCases ==
    ASSUME TypeInv, SweepClose
    PROVE  \E s \in Session :
               \/ /\ s \in opened /\ Len(ops) \in Nat
                  /\ ops' = Append(ops, [s |-> s, cmd |-> Stop])
                  /\ sendingData' = [sendingData EXCEPT ![s] = @ \cup {Len(ops) + 1}]
                  /\ \E t \in Tasks : /\ t.k = "stop" /\ t.s = s /\ t.op = Len(ops) + 1
                                      /\ Joins(strand, t, strand')
               \/ s \notin opened /\ UNCHANGED <<ops, sendingData, strand>>
<1>1. PICK s \in Session :
          IF s \in opened
          THEN /\ ops' = Append(ops, [s |-> s, cmd |-> Stop])
               /\ sendingData' = [sendingData EXCEPT ![s] = @ \cup {Len(ops) + 1}]
               /\ Joins(strand, StopTask(s, Len(ops) + 1), strand')
          ELSE UNCHANGED <<ops, sendingData, strand>>
  BY DEF SweepClose, Dispatch, Joins, ToClose, TypeInv, TypeOK
<1>2. Len(ops) \in Nat /\ Len(ops) + 1 \in Nat
  BY DEF TypeInv, TypeOK
<1>3. /\ StopTask(s, Len(ops) + 1) \in Tasks /\ StopTask(s, Len(ops) + 1).k = "stop"
      /\ StopTask(s, Len(ops) + 1).s = s /\ StopTask(s, Len(ops) + 1).op = Len(ops) + 1
  BY <1>2, TasksMade DEF StopTask
<1> QED
  BY <1>1, <1>2, <1>3

\* A command issued leaves the earlier ones as they were.
LEMMA OpsPrefix ==
    ASSUME TypeInv, NEW s \in Session, NEW c \in Byte,
           ops' = Append(ops, [s |-> s, cmd |-> c])
    PROVE  /\ \A o \in 1..Len(ops) : ops'[o] = ops[o]
           /\ ops'[Len(ops) + 1].cmd = c
<1>1. [s |-> s, cmd |-> c] \in [s : Session, cmd : Byte]
  OBVIOUS
<1>2. ops \in Seq([s : Session, cmd : Byte])
  BY DEF TypeInv, TypeOK
<1> QED
  BY <1>1, <1>2, AppendFacts

LEMMA SweepCloseCommands ==
    ASSUME TypeInv, StopCommands, SweepClose
    PROVE  StopCommands'
<1>1. PICK s \in Session :
          \/ /\ s \in opened /\ Len(ops) \in Nat
             /\ ops' = Append(ops, [s |-> s, cmd |-> Stop])
             /\ \E t \in Tasks : /\ t.k = "stop" /\ t.s = s /\ t.op = Len(ops) + 1
                                 /\ Joins(strand, t, strand')
          \/ s \notin opened /\ UNCHANGED <<ops, sendingData, strand>>
  BY SweepCases
<1>2. ser' = ser
  BY DEF SweepClose
<1>3. CASE s \notin opened
  BY <1>1, <1>2, <1>3, StopCommandsKept
<1>4. CASE s \in opened
  <2>1. PICK t \in Tasks : t.op = Len(ops) + 1 /\ Joins(strand, t, strand')
    BY <1>1, <1>4
  <2>2. /\ \A o \in 1..Len(ops) : ops'[o] = ops[o]
        /\ ops'[Len(ops) + 1].cmd = Stop
    <3>1. Stop \in Byte /\ ops' = Append(ops, [s |-> s, cmd |-> Stop])
      BY <1>1, <1>4 DEF Stop, Byte
    <3> QED
      BY <3>1, OpsPrefix
  <2>3. strand \in Seq(Tasks)
    BY DEF TypeInv, TypeOK
  <2>4. ASSUME NEW i \in 1..Len(strand'), strand'[i].k = "stop"
        PROVE  ops'[strand'[i].op].cmd = Stop
    <3>1. strand'[i] = t \/ \E j \in 1..Len(strand) : strand'[i] = strand[j]
      <4>1. \E n, d \in Nat : Placed(strand, t, strand', n, d)
        BY <2>1, <2>3, JoinFacts, Zenon
      <4> QED
        BY <2>1, <2>3, <4>1 DEF Placed
    <3> QED
      BY <2>1, <2>2, <2>4, <3>1 DEF TypeInv, TaskTyped, Mine, StopCommands
  <2>5. ser'.pc \in {"write", "close"} => ops'[ser'.t.op].cmd = Stop
    BY <1>2, <2>2 DEF TypeInv, SerTyped, Mine, StopCommands
  <2> QED
    BY <2>4, <2>5 DEF StopCommands
<1> QED
  BY <1>3, <1>4

LEMMA StepCommands == TypeInv /\ StopCommands /\ [Next]_vars => StopCommands'
<1> SUFFICES ASSUME TypeInv, StopCommands, [Next]_vars PROVE StopCommands'
  OBVIOUS
<1>1. CASE (\E r \in Request : WebLookup(r)) \/ WebCheck \/ WebWrite \/ PortsFound
  BY <1>1, StopCommandsKept
  DEF WebLookup, WebCheck, WebWrite, PortsFound, serialVars
<1>2. CASE WebSend
  <2>1. web.s \in Session /\ web.req.cmd \in Byte
    BY <1>2, ConstantsOK DEF WebSend, TypeInv, WebTyped, Requests
  <2>2. \A o \in 1..Len(ops) : ops'[o] = ops[o]
    BY <1>2, <2>1, OpsPrefix DEF WebSend
  <2> QED
    BY <1>2, <2>2, StopCommandsKept DEF WebSend
<1>3. CASE WebCreate
  <2>1. CASE checkNameValid(web.req.com)
    <3>1. created \in 0..MaxSession /\ created < MaxSession /\ web.req \in Request
      BY <1>3 DEF WebCreate, TypeInv, TypeOK, WebTyped
    <3>2. created + 1 \in Session /\ web.req.com \in Port
      BY <3>1, ConstantsOK DEF Session, Requests
    <3>3. InitTask(created + 1, web.req.com) \in Tasks
          /\ InitTask(created + 1, web.req.com).k # "stop"
      BY <3>2, TasksMade DEF InitTask
    <3> QED
      BY <1>3, <2>1, <3>3, StopCommandsKept DEF WebCreate, Dispatch, Joins, serialVars
  <2>2. CASE ~checkNameValid(web.req.com)
    BY <1>3, <2>2, StopCommandsKept DEF WebCreate, serialVars
  <2> QED
    BY <2>1, <2>2
<1>4. CASE InitName \/ InitOpen \/ StopClose \/ WriteDone \/ TickArm
  BY <1>4, StopCommandsKept, TasksMade
  DEF InitName, InitOpen, StopClose, WriteDone, TickArm, SerReady, serialVars
<1>5. CASE Tick
  BY <1>5, StopCommandsKept, TasksMade DEF Tick, SerReady, serialVars
<1>6. CASE StopWrite
  BY <1>6, StopWriteCommands
<1>7. CASE Signal \/ TimerExpire
  <2>1. \/ strand' = strand
        \/ \E t \in Tasks : t.k # "stop" /\ Joins(strand, t, strand')
    BY <1>7, TasksMade DEF Signal, TimerExpire, TickTask, Joins
  <2> QED
    BY <1>7, <2>1, StopCommandsKept DEF Signal, TimerExpire, serialVars
<1>8. CASE SweepClose
  BY <1>8, SweepCloseCommands
<1>9. CASE SweepClear \/ Exit \/ ListRace \/ UNCHANGED vars
  BY <1>9, StopCommandsKept DEF SweepClear, Exit, ListRace, vars, serialVars
<1>10. ASSUME NEW s \in Session, NEW ok \in BOOLEAN, DriverDone(s, ok)
       PROVE  StopCommands'
  <2>1. Head(driver[s]) \in Nat
    BY <1>10, TailFacts DEF DriverDone, TypeInv, TypeOK
  <2>2. \/ strand' = strand
        \/ \E t \in Tasks : t.k # "stop" /\ Joins(strand, t, strand')
    BY <1>10, <2>1, TasksMade DEF DriverDone, DoneTask, Joins
  <2>3. ser' = ser \/ (ser.pc = "write" /\ ser'.t.op = ser.t.op)
    BY <1>10 DEF DriverDone, TypeInv, TypeOK, Sers, Tasks
  <2> QED
    BY <1>10, <2>2, <2>3, StopCommandsKept DEF DriverDone
<1> QED
  BY <1>1, <1>2, <1>3, <1>4, <1>5, <1>6, <1>7, <1>8, <1>9, <1>10 DEF Next, Halted

-----------------------------------------------------------------------------
(* What a step does to the strand, the sessions and the commands, for any  *)
(* number of threads.                                                      *)

\* The handlers on the strand, in whatever order.
Queued == Entries(strand)

\* A session has its name, and its init is over.
Settled(s) == name[s] # NoPort /\ ~(ser.pc = "open" /\ ser.t.s = s)

LEMMA QueuedKept ==
    ASSUME strand \in Seq(Tasks)
    PROVE  /\ Queued \subseteq Tasks
           /\ \A i \in 1..Len(strand) : strand[i] \in Queued
           /\ \A t \in Queued : \E i \in 1..Len(strand) : strand[i] = t
           /\ strand' = strand => Queued' = Queued
           /\ strand # <<>> => Head1 \in Queued
           /\ strand # <<>> /\ strand' = Tail(strand) =>
                  Queued' \subseteq Queued /\ Queued \subseteq Queued' \cup {Head1}
           /\ \A t \in Tasks : Joins(strand, t, strand') => Queued' = Queued \cup {t}
<1> DEFINE n == Len(strand)
<1>1. n \in Nat /\ DOMAIN strand = 1..n /\ \A i \in 1..n : strand[i] \in Tasks
  OBVIOUS
<1>2. /\ Queued \subseteq Tasks
      /\ \A i \in 1..Len(strand) : strand[i] \in Queued
      /\ \A t \in Queued : \E i \in 1..Len(strand) : strand[i] = t
  BY <1>1 DEF Queued, Entries
<1>3. strand' = strand => Queued' = Queued
  BY DEF Queued, Entries
<1>4. ASSUME strand # <<>>
      PROVE  n # 0 /\ Head1 = strand[1] /\ Head1 \in Queued
  BY <1>1, <1>2, <1>4, TailFacts DEF Head1
<1>5. ASSUME strand # <<>>, strand' = Tail(strand)
      PROVE  Queued' \subseteq Queued /\ Queued \subseteq Queued' \cup {Head1}
  <2>1. /\ strand' \in Seq(Tasks) /\ Len(strand') = n - 1
        /\ \A i \in 1..(n - 1) : strand'[i] = strand[i + 1]
    BY <1>5, TailFacts
  <2>2. DOMAIN strand' = 1..(n - 1)
    BY <1>1, <1>4, <1>5, <2>1
  <2>3. ASSUME NEW i \in 1..n, i # 1 PROVE strand[i] \in Queued'
    <3>1. i - 1 \in 1..(n - 1) /\ (i - 1) + 1 = i
      BY <1>1, <2>3
    <3>2. strand'[i - 1] = strand[i]
      BY <2>1, <3>1
    <3> QED
      BY <2>2, <3>1, <3>2 DEF Queued, Entries
  <2>4. \A i \in 1..(n - 1) : i + 1 \in 1..n
    BY <1>1
  <2>5. Queued' \subseteq Queued
    BY <1>1, <2>1, <2>2, <2>4 DEF Queued, Entries
  <2>6. Queued \subseteq Queued' \cup {Head1}
    BY <1>1, <1>4, <1>5, <2>3 DEF Queued, Entries
  <2> QED
    BY <2>5, <2>6
<1>6. ASSUME NEW t \in Tasks, Joins(strand, t, strand')
      PROVE  Queued' = Queued \cup {t}
  <2>0. PICK m, d \in Nat : Placed(strand, t, strand', m, d)
    BY <1>6, JoinFacts, Zenon
  <2>1. /\ strand' \in Seq(Tasks) /\ m \in 1..Len(strand') /\ strand'[m] = t
        /\ \A i \in 1..Len(strand') : i # m =>
               i - d \in 1..n /\ strand'[i] = strand[i - d]
        /\ \A i \in 1..n : i + d \in 1..Len(strand') /\ strand'[i + d] = strand[i]
    BY <1>1, <2>0 DEF Placed
  <2>2. Queued' = {strand'[i] : i \in 1..Len(strand')}
    BY <2>1 DEF Queued, Entries
  <2>3. Queued = {strand[i] : i \in 1..n}
    BY <1>1 DEF Queued, Entries
  <2>4. ASSUME NEW x \in Queued' PROVE x \in Queued \cup {t}
    <3>1. PICK i \in 1..Len(strand') : x = strand'[i]
      BY <2>2, <2>4
    <3>2. CASE i = m
      BY <2>1, <3>1, <3>2
    <3>3. CASE i # m
      BY <2>1, <2>3, <3>1, <3>3
    <3> QED
      BY <3>2, <3>3
  <2>5. ASSUME NEW x \in Queued PROVE x \in Queued'
    <3>1. PICK i \in 1..n : x = strand[i]
      BY <2>3, <2>5
    <3>2. i + d \in 1..Len(strand') /\ strand'[i + d] = x
      BY <2>1, <3>1
    <3> QED
      BY <2>2, <3>2
  <2>6. t \in Queued'
    BY <2>1, <2>2
  <2> QED
    BY <2>4, <2>5, <2>6
<1> QED
  BY <1>2, <1>3, <1>4, <1>5, <1>6

\* The step that takes the oldest handler, by the handler's kind.
Taken ==
    \/ InitName /\ Head1.k = "init"
    \/ StopWrite /\ Head1.k = "stop"
    \/ WriteDone /\ Head1.k = "done"
    \/ Tick /\ Head1.k = "tick"

\* What a step does to the strand: it takes the oldest handler, or adds one.
LEMMA QueueStep ==
    ASSUME TypeInv, [Next]_vars
    PROVE  \/ strand' = strand
           \/ strand # <<>> /\ strand' = Tail(strand) /\ ser.pc = "idle" /\ Taken
           \/ \E t \in Tasks :
                /\ Joins(strand, t, strand')
                /\ \/ t.k = "tick" /\ t.s = 0 /\ strand' = Append(strand, t)
                   \/ WebCreate /\ t.k = "init" /\ t.s = created + 1
                   \/ SweepClose /\ t.k = "stop" /\ t.s \in opened \cap sessions
                   \/ /\ t.k = "done" /\ t.s \in Session /\ driver[t.s] # <<>>
                      /\ strand' = Append(strand, t)
<1>1. CASE \/ \E r \in Request : WebLookup(r)
           \/ WebCheck \/ WebSend \/ WebWrite \/ PortsFound \/ InitOpen \/ StopClose
           \/ TickArm \/ SweepClear \/ Exit \/ ListRace \/ UNCHANGED vars
  BY <1>1 DEF WebLookup, WebCheck, WebSend, WebWrite, PortsFound, InitOpen, StopClose,
              TickArm, SweepClear, Exit, ListRace, vars, serialVars
<1>2. CASE InitName \/ StopWrite \/ WriteDone \/ Tick
  BY <1>2 DEF InitName, StopWrite, WriteDone, Tick, SerReady, Taken
<1>3. CASE Signal \/ TimerExpire
  BY <1>3, TasksMade DEF Signal, TimerExpire, TickTask, Joins
<1>4. CASE WebCreate
  <2>1. CASE checkNameValid(web.req.com)
    <3>1. created \in 0..MaxSession /\ created < MaxSession /\ web.req \in Request
      BY <1>4 DEF WebCreate, TypeInv, TypeOK, WebTyped
    <3>2. created + 1 \in Session /\ web.req.com \in Port
      BY <3>1, ConstantsOK DEF Session, Requests
    <3>3. InitTask(created + 1, web.req.com) \in Tasks
          /\ InitTask(created + 1, web.req.com).k = "init"
          /\ InitTask(created + 1, web.req.com).s = created + 1
      BY <3>2, TasksMade DEF InitTask
    <3> QED
      BY <1>4, <2>1, <3>3 DEF WebCreate, Dispatch, Joins
  <2>2. CASE ~checkNameValid(web.req.com)
    BY <1>4, <2>2 DEF WebCreate
  <2> QED
    BY <2>1, <2>2
<1>5. CASE SweepClose
  <2>1. Len(ops) + 1 \in Nat /\ sessions \subseteq Session
    BY DEF TypeInv, TypeOK
  <2>2. PICK s \in sessions :
            \/ s \in opened /\ Joins(strand, StopTask(s, Len(ops) + 1), strand')
            \/ strand' = strand
    BY <1>5 DEF SweepClose, Dispatch, Joins, ToClose
  <2>3. /\ StopTask(s, Len(ops) + 1) \in Tasks /\ StopTask(s, Len(ops) + 1).k = "stop"
        /\ StopTask(s, Len(ops) + 1).s = s
    BY <2>1, TasksMade DEF StopTask
  <2> QED
    BY <1>5, <2>2, <2>3
<1>6. ASSUME NEW s \in Session, NEW ok \in BOOLEAN, DriverDone(s, ok)
      PROVE  \/ strand' = strand
             \/ \E t \in Tasks : /\ Joins(strand, t, strand') /\ strand' = Append(strand, t)
                                 /\ t.k = "done" /\ t.s = s /\ driver[s] # <<>>
  <2>1. Head(driver[s]) \in Nat
    BY <1>6, TailFacts DEF DriverDone, TypeInv, TypeOK
  <2>2. /\ DoneTask(s, Head(driver[s]), ok) \in Tasks
        /\ DoneTask(s, Head(driver[s]), ok).k = "done"
        /\ DoneTask(s, Head(driver[s]), ok).s = s
    BY <2>1, TasksMade DEF DoneTask
  <2> QED
    BY <1>6, <2>2 DEF DriverDone, Joins
<1> QED
  BY <1>1, <1>2, <1>3, <1>4, <1>5, <1>6 DEF Next, Halted

LEMMA QueuedStep ==
    ASSUME TypeInv, [Next]_vars
    PROVE  \/ Queued' = Queued
           \/ /\ strand # <<>> /\ ser.pc = "idle" /\ Head1 \in Queued /\ Taken
              /\ Queued' \subseteq Queued /\ Queued \subseteq Queued' \cup {Head1}
           \/ \E t \in Tasks :
                /\ Queued' = Queued \cup {t}
                /\ \/ t.k = "tick" /\ t.s = 0
                   \/ WebCreate /\ t.k = "init" /\ t.s = created + 1
                   \/ SweepClose /\ t.k = "stop" /\ t.s \in opened \cap sessions
                   \/ t.k = "done" /\ t.s \in Session /\ driver[t.s] # <<>>
<1>1. strand \in Seq(Tasks)
  BY DEF TypeInv, TypeOK
<1> QED
  BY <1>1, QueueStep, QueuedKept

\* A step of the serial strand, by what becomes of its handler.
LEMMA SerMoves ==
    ASSUME TypeInv, [Next]_vars
    PROVE  \/ ser' = ser
           \/ ser'.pc = "idle"
           \/ InitName /\ ser'.pc = "open" /\ ser'.t = Head1
           \/ StopWrite /\ ser'.pc = "write" /\ ser'.t = Head1
           \/ Tick /\ ser'.pc = "tick" /\ ser'.t = Head1
           \/ /\ ser.pc = "write" /\ ser'.pc = "close" /\ ser'.t.s = ser.t.s
              /\ ser'.t.op = ser.t.op
<1>1. CASE \/ \E r \in Request : WebLookup(r)
           \/ WebCheck \/ WebSend \/ WebWrite \/ WebCreate \/ PortsFound \/ Signal
           \/ SweepClose \/ SweepClear \/ Exit \/ ListRace \/ WriteDone \/ TimerExpire
           \/ UNCHANGED vars
  <2>1. ser' = ser
    BY <1>1 DEF WebLookup, WebCheck, WebSend, WebWrite, WebCreate, PortsFound, Signal,
                SweepClose, SweepClear, Exit, ListRace, WriteDone, TimerExpire, vars
  <2> QED
    BY <2>1
<1>2. CASE InitName
  <2>1. ser' = [pc |-> "open", t |-> Head1]
    BY <1>2 DEF InitName
  <2> QED
    BY <1>2, <2>1
<1>3. CASE InitOpen \/ StopClose \/ TickArm
  BY <1>3, TasksMade DEF InitOpen, StopClose, TickArm
<1>4. CASE StopWrite
  <2>1. ser' = ser \/ ser' = [pc |-> "write", t |-> Head1]
    BY <1>4 DEF StopWrite
  <2> QED
    BY <1>4, <2>1
<1>5. CASE Tick
  <2>1. ser' = SerIdle \/ ser' = [pc |-> "tick", t |-> Head1]
    BY <1>5 DEF Tick
  <2> QED
    BY <1>5, <2>1, TasksMade
<1>6. ASSUME NEW s \in Session, NEW ok \in BOOLEAN, DriverDone(s, ok)
      PROVE  \/ ser' = ser
             \/ /\ ser.pc = "write" /\ ser'.pc = "close" /\ ser'.t.s = ser.t.s
                /\ ser'.t.op = ser.t.op
  <2>1. \/ ser' = ser
        \/ ser.pc = "write" /\ ser' = [pc |-> "close", t |-> [ser.t EXCEPT !.ok = ok]]
    BY <1>6 DEF DriverDone
  <2>2. ser.t \in Tasks
    BY DEF TypeInv, TypeOK, Sers
  <2> QED
    BY <2>1, <2>2 DEF Tasks
<1> QED
  BY <1>1, <1>2, <1>3, <1>4, <1>5, <1>6 DEF Next, Halted

\* The order in which sessions settle: nobody goes back, and one that is being opened is
\* the youngest with a name.
LEMMA SettledStays ==
    ASSUME TypeInv, NameInv, SettledInv, [Next]_vars, NEW x \in Session, Settled(x)
    PROVE  Settled(x)' /\ name'[x] = name[x]
<1>1. CASE InitName
  <2>1. /\ Head1.s \in Session /\ name[Head1.s] = NoPort
        /\ name' = [name EXCEPT ![Head1.s] = Head1.p]
    BY <1>1, HeadInit, ConstantsOK DEF Session
  <2>2. ser' = [pc |-> "open", t |-> Head1]
    BY <1>1 DEF InitName
  <2> QED
    BY <2>1, <2>2 DEF Settled, TypeInv, TypeOK
<1>2. CASE Next /\ ~InitName
  <2>1. name' = name
    <3>1. WebCreate => name' = name
      BY DEF WebCreate, serialVars
    <3> QED
      BY <1>2, <3>1, OtherNames
  <2>2. ser' = ser \/ ser'.pc # "open"
    BY <1>2, SerMoves
  <2> QED
    BY <2>1, <2>2 DEF Settled
<1>3. CASE UNCHANGED vars
  BY <1>3 DEF vars, serialVars, Settled
<1> QED
  BY <1>1, <1>2, <1>3

\* Commands belong to settled sessions; a timer's handler belongs to none, nor does an idle
\* web strand; and a session that is being opened is the last one with a name.
IssuedInv ==
    /\ \A o \in 1..Len(ops) : Settled(ops[o].s)
    /\ \A t \in Queued : t.k = "tick" => t.s = 0
    /\ web.pc = "idle" => web.s = 0
    /\ ser.pc = "open" => \A x \in Session : x > ser.t.s => name[x] = NoPort

LEMMA InitIssued == Init => IssuedInv
<1> SUFFICES ASSUME Init PROVE IssuedInv
  OBVIOUS
<1>1. Len(ops) = 0 /\ strand = <<>> /\ ser.pc = "idle" /\ web.s = 0
  BY DEF Init, SerIdle, WebIdle
<1> QED
  BY <1>1 DEF IssuedInv, Queued, Entries

\* A step issues a command of an open session, or none.
LEMMA OpsStep ==
    ASSUME TypeInv, [Next]_vars
    PROVE  \/ ops' = ops
           \/ /\ WebSend \/ SweepClose
              /\ \E s \in opened, c \in Byte : ops' = Append(ops, [s |-> s, cmd |-> c])
<1>1. CASE WebSend
  <2>1. web.req.cmd \in Byte
    BY <1>1, ConstantsOK DEF WebSend, TypeInv, WebTyped, Requests
  <2> QED
    BY <1>1, <2>1 DEF WebSend
<1>2. CASE SweepClose
  <2>1. Stop \in Byte
    BY DEF Stop, Byte
  <2> QED
    BY <1>2, <2>1, SweepCases
<1>3. CASE UNCHANGED ops
  BY <1>3
<1> QED
  BY <1>1, <1>2, <1>3
  DEF Next, WebLookup, WebCheck, WebWrite, WebCreate, PortsFound, InitName, InitOpen,
      StopWrite, StopClose, WriteDone, Tick, TickArm, Signal, SweepClear, Exit,
      ListRace, TimerExpire, DriverDone, Halted, vars, serialVars

LEMMA StepIssued ==
    TypeInv /\ NameInv /\ SettledInv /\ IssuedInv /\ [Next]_vars => IssuedInv'
<1> SUFFICES ASSUME TypeInv, NameInv, SettledInv, IssuedInv, [Next]_vars PROVE IssuedInv'
  OBVIOUS
<1>1. ASSUME NEW o \in 1..Len(ops') PROVE Settled(ops[o].s)'
  <2>1. PICK x \in Session : x = ops'[o].s /\ Settled(x)
    <3> DEFINE R == [s : Session, cmd : Byte]
    <3>1. ops \in Seq(R) /\ \A i \in 1..Len(ops) : ops[i] \in R
      <4>1. ops \in Seq(R)
        BY DEF TypeInv, TypeOK
      <4> HIDE DEF R
      <4> QED
        BY <4>1, SeqElement
    <3>2. \A i \in 1..Len(ops) : ops[i].s \in Session /\ Settled(ops[i].s)
      BY <3>1 DEF IssuedInv
    <3>3. CASE ops' = ops
      BY <1>1, <3>2, <3>3
    <3>4. ASSUME NEW s \in opened, NEW c \in Byte, ops' = Append(ops, [s |-> s, cmd |-> c])
          PROVE  ops'[o].s \in Session /\ Settled(ops'[o].s)
      <4>1. s \in Session /\ Settled(s)
        BY DEF TypeInv, TypeOK, SettledInv, Settled
      <4>2. [s |-> s, cmd |-> c] \in [s : Session, cmd : Byte]
        BY <4>1
      <4>3. \/ ops'[o] = [s |-> s, cmd |-> c]
            \/ o \in 1..Len(ops) /\ ops'[o] = ops[o]
        BY <1>1, <3>1, <3>4, <4>2, AppendFacts
      <4> QED
        BY <3>2, <4>1, <4>3
    <3> QED
      BY <3>3, <3>4, OpsStep
  <2>2. Settled(x)'
    BY <2>1, SettledStays
  <2> QED
    BY <2>1, <2>2 DEF Settled
<1>2. \A t \in Queued' : t.k = "tick" => t.s = 0
  BY QueuedStep DEF IssuedInv
<1>3. web'.pc = "idle" => web'.s = 0
  <2>1. WebIdle.s = 0
    BY DEF WebIdle
  <2>2. \/ web' = web \/ web' = WebIdle \/ web'.pc # "idle"
    <3>1. CASE \E r \in Request : WebLookup(r)
      BY <3>1 DEF WebLookup
    <3>2. CASE WebCheck \/ WebSend \/ WebWrite \/ WebCreate
      <4>1. \/ web' = WebIdle \/ web' = [web EXCEPT !.pc = "send"]
            \/ web' = [web EXCEPT !.pc = "write", !.op = Len(ops) + 1]
            \/ web' = [web EXCEPT !.pc = "inline", !.s = created + 1]
        BY <3>2 DEF WebCheck, WebSend, WebWrite, WebCreate
      <4>2. web \in Webs
        BY DEF TypeInv, TypeOK
      <4> QED
        BY <4>1, <4>2 DEF Webs
    <3>3. CASE InitOpen
      BY <3>3 DEF InitOpen
    <3>4. CASE \/ PortsFound \/ InitName \/ StopWrite \/ StopClose \/ WriteDone \/ Tick
               \/ TickArm \/ Signal \/ SweepClose \/ SweepClear \/ Exit \/ ListRace
               \/ TimerExpire \/ UNCHANGED vars
      BY <3>4
      DEF PortsFound, InitName, StopWrite, StopClose, WriteDone, Tick, TickArm, Signal,
          SweepClose, SweepClear, Exit, ListRace, TimerExpire, vars
    <3>5. CASE \E s \in Session, ok \in BOOLEAN : DriverDone(s, ok)
      BY <3>5 DEF DriverDone
    <3> QED
      BY <3>1, <3>2, <3>3, <3>4, <3>5 DEF Next, Halted
  <2> QED
    BY <2>1, <2>2 DEF IssuedInv
<1>4. ser'.pc = "open" => \A x \in Session : x > ser'.t.s => name'[x] = NoPort
  <2>1. CASE InitName
    <3>1. /\ Head1.s \in Session /\ name' = [name EXCEPT ![Head1.s] = Head1.p]
          /\ \A s \in Session : s >= Head1.s => name[s] = NoPort
          /\ ser' = [pc |-> "open", t |-> Head1]
      BY <2>1, HeadInit DEF InitName
    <3>2. Session \subseteq Nat
      BY ConstantsOK DEF Session
    <3>3. ASSUME NEW x \in Session, x > Head1.s PROVE name'[x] = NoPort
      <4>1. x \in Nat /\ Head1.s \in Nat
        BY <3>1, <3>2
      <4>2. x >= Head1.s /\ x # Head1.s
        BY <3>3, <4>1
      <4> QED
        BY <3>1, <4>2 DEF TypeInv, TypeOK
    <3>4. ser'.t.s = Head1.s
      BY <3>1
    <3> QED
      BY <3>3, <3>4
  <2>2. CASE ~InitName
    <3>1. name' = name
      BY <2>2, OtherNames DEF WebCreate, vars, serialVars
    <3>2. ser'.pc = "open" => ser' = ser
      BY <2>2, SerMoves
    <3> QED
      BY <3>1, <3>2 DEF IssuedInv
  <2> QED
    BY <2>1, <2>2
<1> QED
  BY <1>1, <1>2, <1>3, <1>4 DEF IssuedInv

-----------------------------------------------------------------------------
(* A port that is open is not opened again while somebody holds it.        *)

LEMMA AliveParts ==
    ASSUME NEW x
    PROVE  Alive(x) <=> \/ x \in sessions
                        \/ web.s = x
                        \/ ser.pc # "idle" /\ ser.t.s = x
                        \/ \E t \in Queued : t.s = x
                        \/ driver[x] # <<>>
BY DEF Alive, Queued, Entries

LEMMA OpenedStep ==
    ASSUME TypeInv, [Next]_vars
    PROVE  \/ opened' \subseteq opened
           \/ /\ InitOpen /\ CanOpen(ser.t.p)
              /\ opened' = opened \cup {ser.t.s}
<1>1. CASE InitOpen
  BY <1>1 DEF InitOpen
<1>2. CASE StopClose
  BY <1>2 DEF StopClose
<1>3. CASE \/ \E r \in Request : WebLookup(r)
           \/ WebCheck \/ WebSend \/ WebWrite \/ WebCreate \/ PortsFound \/ InitName
           \/ StopWrite \/ WriteDone \/ Tick \/ TickArm \/ Signal \/ SweepClose
           \/ SweepClear \/ Exit \/ ListRace \/ TimerExpire \/ UNCHANGED vars
  <2>1. opened' = opened
    BY <1>3 DEF WebLookup, WebCheck, WebSend, WebWrite, WebCreate, PortsFound, InitName,
                StopWrite, WriteDone, Tick, TickArm, Signal, SweepClose, SweepClear, Exit,
                ListRace, TimerExpire, vars, serialVars
  <2> QED
    BY <2>1
<1>4. CASE \E s \in Session, ok \in BOOLEAN : DriverDone(s, ok)
  BY <1>4 DEF DriverDone
<1> QED
  BY <1>1, <1>2, <1>3, <1>4 DEF Next, Halted

LEMMA DriverStep ==
    ASSUME TypeInv, [Next]_vars
    PROVE  \/ driver' = driver
           \/ /\ WebWrite /\ web.s \in Session
              /\ driver' = [driver EXCEPT ![web.s] = Append(@, web.op)]
           \/ /\ StopWrite /\ Head1.s \in Session /\ Head1 \in Queued
              /\ driver' = [driver EXCEPT ![Head1.s] = Append(@, Head1.op)]
           \/ \E s \in Session, ok \in BOOLEAN :
                /\ DriverDone(s, ok) /\ driver[s] # <<>>
                /\ driver' = [driver EXCEPT ![s] = Tail(@)]
<1>1. CASE WebWrite
  BY <1>1 DEF WebWrite, TypeInv, WebTyped
<1>2. CASE StopWrite
  <2>1. strand \in Seq(Tasks) /\ strand # <<>> /\ Head1.k = "stop"
    BY <1>2 DEF StopWrite, SerReady, TypeInv, TypeOK
  <2>2. 1 \in 1..Len(strand) /\ Head1 = strand[1] /\ Head1 \in Queued
    BY <2>1, TailFacts, QueuedKept DEF Head1
  <2>3. Head1.s \in Session
    BY <2>1, <2>2 DEF TypeInv, TaskTyped
  <2> QED
    BY <1>2, <2>2, <2>3 DEF StopWrite
<1>3. CASE \/ \E r \in Request : WebLookup(r)
           \/ WebCheck \/ WebSend \/ WebCreate \/ PortsFound \/ InitName \/ InitOpen
           \/ StopClose \/ WriteDone \/ Tick \/ TickArm \/ Signal \/ SweepClose
           \/ SweepClear \/ Exit \/ ListRace \/ TimerExpire \/ UNCHANGED vars
  <2>1. driver' = driver
    BY <1>3 DEF WebLookup, WebCheck, WebSend, WebCreate, PortsFound, InitName, InitOpen,
                StopClose, WriteDone, Tick, TickArm, Signal, SweepClose, SweepClear, Exit,
                ListRace, TimerExpire, vars, serialVars
  <2> QED
    BY <2>1
<1>4. CASE \E s \in Session, ok \in BOOLEAN : DriverDone(s, ok)
  BY <1>4 DEF DriverDone
<1> QED
  BY <1>1, <1>2, <1>3, <1>4 DEF Next, Halted

\* What becomes of the session that the web strand is at work on.
LEMMA WebSteps ==
    ASSUME TypeInv, [Next]_vars
    PROVE  \/ web' = web
           \/ web'.s = web.s \/ web' = WebIdle
           \/ (\E r \in Request : WebLookup(r)) /\ web'.s \in sessions \cup {0}
           \/ WebCreate /\ web'.s = created + 1
<1>1. CASE \E r \in Request : WebLookup(r)
  <2>1. PICK r \in Request : WebLookup(r)
    BY <1>1
  <2>2. Get(r.com) \in sessions \cup {0}
    BY GetFound DEF TypeInv, TypeOK
  <2>3. web'.s = Get(r.com)
    BY <2>1 DEF WebLookup
  <2> QED
    BY <1>1, <2>2, <2>3
<1>2. CASE WebCheck \/ WebSend \/ WebWrite
  BY <1>2 DEF WebCheck, WebSend, WebWrite, TypeInv, TypeOK, Webs
<1>3. CASE WebCreate
  <2>1. web' = WebIdle \/ web' = [web EXCEPT !.pc = "inline", !.s = created + 1]
    BY <1>3 DEF WebCreate
  <2> QED
    BY <1>3, <2>1 DEF TypeInv, TypeOK, Webs
<1>4. CASE InitOpen
  BY <1>4 DEF InitOpen
<1>5. CASE \/ PortsFound \/ InitName \/ StopWrite \/ StopClose \/ WriteDone \/ Tick
           \/ TickArm \/ Signal \/ SweepClose \/ SweepClear \/ Exit \/ ListRace
           \/ TimerExpire \/ UNCHANGED vars
  <2>1. web' = web
    BY <1>5
    DEF PortsFound, InitName, StopWrite, StopClose, WriteDone, Tick, TickArm, Signal,
        SweepClose, SweepClear, Exit, ListRace, TimerExpire, vars
  <2> QED
    BY <2>1
<1>6. CASE \E s \in Session, ok \in BOOLEAN : DriverDone(s, ok)
  BY <1>6 DEF DriverDone
<1> QED
  BY <1>1, <1>2, <1>3, <1>4, <1>5, <1>6 DEF Next, Halted

\* The list of sessions gets one more, or is cleared.
LEMMA SessionsStep ==
    ASSUME TypeInv, NameInv, [Next]_vars
    PROVE  \/ sessions' = sessions /\ created' = created
           \/ SweepClear /\ sessions' = {} /\ created' = created
           \/ /\ WebCreate /\ created' = created + 1 /\ created' \in Session
              /\ sessions' = sessions \cup {created'}
<1>1. CASE WebCreate
  <2>1. CASE checkNameValid(web.req.com)
    <3>1. created \in 0..MaxSession /\ created < MaxSession
      BY <1>1 DEF WebCreate, TypeInv, TypeOK, WebTyped
    <3>2. created + 1 \in Session
      BY <3>1, ConstantsOK DEF Session
    <3> QED
      BY <1>1, <2>1, <3>2 DEF WebCreate
  <2>2. CASE ~checkNameValid(web.req.com)
    BY <1>1, <2>2 DEF WebCreate
  <2> QED
    BY <2>1, <2>2
<1>2. CASE SweepClear
  BY <1>2 DEF SweepClear
<1>3. CASE \/ \E r \in Request : WebLookup(r)
           \/ WebCheck \/ WebSend \/ WebWrite \/ PortsFound \/ InitName \/ InitOpen
           \/ StopWrite \/ StopClose \/ WriteDone \/ Tick \/ TickArm \/ Signal
           \/ SweepClose \/ Exit \/ ListRace \/ TimerExpire \/ UNCHANGED vars
  <2>1. sessions' = sessions /\ created' = created
    BY <1>3 DEF WebLookup, WebCheck, WebSend, WebWrite, PortsFound, InitName, InitOpen,
                StopWrite, StopClose, WriteDone, Tick, TickArm, Signal, SweepClose, Exit,
                ListRace, TimerExpire, vars, serialVars
  <2> QED
    BY <2>1
<1>4. CASE \E s \in Session, ok \in BOOLEAN : DriverDone(s, ok)
  BY <1>4 DEF DriverDone
<1> QED
  BY <1>1, <1>2, <1>3, <1>4 DEF Next, Halted

\* A session that nobody holds is not picked up again.
LEMMA AliveStays ==
    ASSUME TypeInv, NameInv, SettledInv, [Next]_vars, NEW x \in opened, Alive(x)'
    PROVE  Alive(x)
<1>1. x \in Session /\ x \in Nat /\ x # 0 /\ x # created + 1
  <2>1. x \in Session /\ name[x] # NoPort /\ created \in Nat
    BY DEF TypeInv, TypeOK, SettledInv
  <2>2. x \in Nat /\ x # 0
    BY <2>1, ConstantsOK DEF Session
  <2>3. ~(x > created)
    BY <2>1 DEF NameInv
  <2> QED
    BY <2>1, <2>2, <2>3
<1>2. CASE x \in sessions'
  <2>1. x \in sessions
    BY <1>1, <1>2, SessionsStep
  <2> QED
    BY <2>1, AliveParts
<1>3. CASE web'.s = x
  <2>1. web.s = x \/ x \in sessions
    BY <1>1, <1>3, WebSteps DEF WebIdle
  <2> QED
    BY <2>1, AliveParts
<1>4. CASE ser'.pc # "idle" /\ ser'.t.s = x
  <2>1. CASE ser' = ser
    BY <1>4, <2>1, AliveParts
  <2>2. CASE (InitName \/ StopWrite \/ Tick) /\ ser'.t = Head1
    <3>1. strand \in Seq(Tasks) /\ strand # <<>>
      BY <2>2 DEF InitName, StopWrite, Tick, SerReady, TypeInv, TypeOK
    <3>2. Head1 \in Queued /\ Head1.s = x
      BY <1>4, <2>2, <3>1, QueuedKept
    <3> QED
      BY <3>2, AliveParts
  <2>3. CASE ser.pc = "write" /\ ser'.t.s = ser.t.s
    BY <1>4, <2>3, AliveParts
  <2> QED
    BY <1>4, <2>1, <2>2, <2>3, SerMoves
<1>5. ASSUME NEW t \in Queued', t.s = x PROVE Alive(x)
  <2>1. CASE t \in Queued
    BY <1>5, <2>1, AliveParts
  <2>2. CASE t \notin Queued
    <3>1. \/ t.s = 0
          \/ t.s = created + 1
          \/ t.s \in sessions
          \/ t.s \in Session /\ driver[t.s] # <<>>
      BY <1>5, <2>2, QueuedStep
    <3> QED
      BY <1>1, <1>5, <3>1, AliveParts
  <2> QED
    BY <2>1, <2>2
<1>6. CASE driver'[x] # <<>>
  <2>1. CASE driver[x] # <<>>
    BY <2>1, AliveParts
  <2>2. CASE driver[x] = <<>>
    <3>1. driver \in [Session -> Seq(Nat)]
      BY DEF TypeInv, TypeOK
    <3>2. \/ web.s = x
          \/ Head1 \in Queued /\ Head1.s = x
      <4>1. CASE driver' = driver
        BY <1>6, <2>2, <4>1
      <4>2. CASE web.s \in Session /\ driver' = [driver EXCEPT ![web.s] = Append(@, web.op)]
        BY <1>1, <1>6, <2>2, <3>1, <4>2
      <4>3. CASE /\ Head1.s \in Session /\ Head1 \in Queued
                 /\ driver' = [driver EXCEPT ![Head1.s] = Append(@, Head1.op)]
        BY <1>1, <1>6, <2>2, <3>1, <4>3
      <4>4. CASE \E s \in Session : driver[s] # <<>> /\ driver' = [driver EXCEPT ![s] = Tail(@)]
        BY <1>1, <1>6, <2>2, <3>1, <4>4
      <4> QED
        BY <4>1, <4>2, <4>3, <4>4, DriverStep
    <3> QED
      BY <3>2, AliveParts
  <2> QED
    BY <2>1, <2>2
<1>7. \/ x \in sessions' \/ web'.s = x \/ (ser'.pc # "idle" /\ ser'.t.s = x)
      \/ (\E t \in Queued' : t.s = x) \/ driver'[x] # <<>>
  BY DEF Alive, Queued, Entries
<1> QED
  BY <1>2, <1>3, <1>4, <1>5, <1>6, <1>7

\* Of the open ports that are held, no two have the same name.
OwnerInv == \A x, y \in opened : Alive(x) /\ Alive(y) /\ name[x] = name[y] => x = y

LEMMA StepOwner ==
    TypeInv /\ NameInv /\ SettledInv /\ OwnerInv /\ [Next]_vars => OwnerInv'
<1> SUFFICES ASSUME TypeInv, NameInv, SettledInv, OwnerInv, [Next]_vars PROVE OwnerInv'
  OBVIOUS
<1>1. \A x \in opened : x \in Session /\ Settled(x)
  BY DEF TypeInv, TypeOK, SettledInv, Settled
<1>2. \A x \in opened : name'[x] = name[x] /\ (Alive(x)' => Alive(x))
  BY <1>1, SettledStays, AliveStays
<1>3. CASE opened' \subseteq opened
  BY <1>2, <1>3 DEF OwnerInv
<1>4. CASE InitOpen /\ CanOpen(ser.t.p) /\ opened' = opened \cup {ser.t.s}
  <2>1. name[ser.t.s] = ser.t.p /\ name' = name
    BY <1>4 DEF InitOpen, SettledInv
  <2>2. \A y \in opened : name[y] = ser.t.p => ~Alive(y)
    BY <1>4 DEF CanOpen
  <2>3. ASSUME NEW x \in opened', NEW y \in opened', Alive(x)', Alive(y)', name'[x] = name'[y]
        PROVE  x = y
    <3>1. CASE x \in opened /\ y \in opened
      BY <1>2, <2>1, <2>3, <3>1 DEF OwnerInv
    <3>2. CASE x = ser.t.s /\ y \in opened
      BY <1>2, <2>1, <2>2, <2>3, <3>2
    <3>3. CASE y = ser.t.s /\ x \in opened
      BY <1>2, <2>1, <2>2, <2>3, <3>3
    <3> QED
      BY <1>4, <3>1, <3>2, <3>3
  <2> QED
    BY <2>3 DEF OwnerInv
<1> QED
  BY <1>3, <1>4, OpenedStep

-----------------------------------------------------------------------------
(* One thread.  A handler that is not split by a blocking write runs to    *)
(* its end before another starts: the web strand and the sweep exclude     *)
(* each other, and the serial strand works for the one that dispatched to  *)
(* it.                                                                     *)

\* stopAll() is on the stack: its loop, or the stop task it dispatched inline.
Sweeping == sig.pc \in {"sweep", "inline"}

\* The strand runs session s's handler of this kind next.
HeadIs(k, s) == strand # <<>> /\ Head1.k = k /\ Head1.s = s

\* The web handler, the sweep and the serial strand: who is at work while another waits.
Alone ==
    /\ web.pc \notin {"idle", "inline"} => ser.pc = "idle" /\ ~Sweeping
    /\ web.pc = "inline" =>
           /\ ~Sweeping
           /\ \/ ser.pc = "open" /\ ser.t.s = web.s
              \/ ser.pc = "idle" /\ HeadIs("init", web.s)
    /\ sig.pc = "sweep" => ser.pc = "idle"
    /\ sig.pc = "inline" =>
           \/ ser.pc \in {"write", "close"}
           \/ ser.pc = "idle" /\ HeadIs("stop", sig.at)

\* An init or a stop command is never queued: its dispatcher runs it before anything else,
\* so it is on the strand as its head, while the dispatcher waits for it.
Fronted ==
    \A i \in 1..Len(strand) : Completion(strand[i]) \/ (i = 1 /\ ser.pc = "idle" /\ Hosted)

LEMMA InitAlone == Init => Alone /\ Fronted
BY DEF Init, Alone, Fronted, WebIdle, SerIdle, Sweeping

LEMMA FreeOne ==
    ASSUME Threads = 1, ThreadFree
    PROVE  web.pc = "idle" /\ ~Sweeping /\ ser.pc = "idle"
<1>1. Busy \subseteq {"web", "sig", "ser"}
  BY DEF Busy
<1>2. IsFiniteSet({"web", "sig", "ser"})
  <2>1. IsFiniteSet({})
    BY FS_EmptySet
  <2>2. IsFiniteSet({} \cup {"web"})
    BY <2>1, FS_AddElement
  <2>3. IsFiniteSet(({} \cup {"web"}) \cup {"sig"})
    BY <2>2, FS_AddElement
  <2>4. IsFiniteSet((({} \cup {"web"}) \cup {"sig"}) \cup {"ser"})
    BY <2>3, FS_AddElement
  <2>5. (({} \cup {"web"}) \cup {"sig"}) \cup {"ser"} = {"web", "sig", "ser"}
    OBVIOUS
  <2> QED
    BY <2>4, <2>5
<1>3. IsFiniteSet(Busy)
  BY <1>1, <1>2, FS_Subset
<1>4. Cardinality(Busy) \in Nat /\ Cardinality(Busy) < 1
  BY <1>3, FS_CardinalityType DEF ThreadFree
<1>5. Busy = {}
  BY <1>3, <1>4, FS_EmptySet
<1>6. web.pc = "idle"
  BY <1>5 DEF Busy
<1>7. ~Sweeping
  BY <1>5 DEF Busy, Sweeping
<1> QED
  BY <1>5, <1>6, <1>7 DEF Busy, Hosted, Sweeping

LEMMA HeadAppended ==
    ASSUME strand \in Seq(Tasks), NEW t \in Tasks, strand' = Append(strand, t)
    PROVE  /\ strand' # <<>>
           /\ strand # <<>> => Head1' = Head1
           /\ strand = <<>> => Head1' = t
<1>1. /\ Len(strand) \in Nat /\ Len(strand') = Len(strand) + 1
      /\ strand'[Len(strand) + 1] = t
      /\ \A i \in 1..Len(strand) : strand'[i] = strand[i]
  BY AppendFacts
<1>2. strand' # <<>> /\ strand' \in Seq(Tasks)
  BY AppendFacts
<1>3. Head1' = strand'[1]
  BY <1>2 DEF Head1
<1>4. strand # <<>> => Head1 = strand[1] /\ 1 \in 1..Len(strand)
  BY TailFacts DEF Head1
<1>5. strand = <<>> => Len(strand) = 0
  OBVIOUS
<1> QED
  BY <1>1, <1>2, <1>3, <1>4, <1>5

\* A handler that runs at once is before the others.
LEMMA HeadJoined ==
    ASSUME strand \in Seq(Tasks), NEW t \in Tasks, strand' = <<t>> \o strand
    PROVE  /\ strand' # <<>> /\ Head1' = t /\ Len(strand) \in Nat
           /\ Len(strand') = Len(strand) + 1 /\ strand'[1] = t
           /\ \A i \in 1..Len(strand) : strand'[i + 1] = strand[i]
<1>1. /\ Len(strand') = Len(strand) + 1 /\ strand'[1] = t /\ strand' \in Seq(Tasks)
      /\ \A i \in 1..Len(strand) : strand'[i + 1] = strand[i]
      /\ Len(strand) \in Nat
  OBVIOUS
<1>2. strand' # <<>>
  BY <1>1
<1>3. Head1' = strand'[1]
  BY <1>1, <1>2 DEF Head1
<1> QED
  BY <1>1, <1>2, <1>3

\* With one thread a dispatch from outside the strand never queues.
LEMMA DispatchesAtOnce ==
    ASSUME Threads = 1, TypeInv, Fronted, ser.pc = "idle", ~Hosted
    PROVE  /\ \A i \in 1..Len(strand) : Completion(strand[i])
           /\ \A t, inline : Dispatch(t, inline) => inline /\ strand' = <<t>> \o strand
<1>1. \A i \in 1..Len(strand) : Completion(strand[i])
  BY DEF Fronted
<1>2. DOMAIN strand = 1..Len(strand)
  BY DEF TypeInv, TypeOK
<1>3. AtOnce /\ ~MayQueue
  BY <1>1, <1>2 DEF AtOnce, OnlyCompletions, MayQueue
<1> QED
  BY <1>1, <1>3 DEF Dispatch

LEMMA HeadStays ==
    ASSUME TypeInv,
           strand' = strand \/ \E t \in Tasks : strand' = Append(strand, t),
           NEW k, NEW s, HeadIs(k, s)
    PROVE  HeadIs(k, s)'
<1>1. CASE strand' = strand
  BY <1>1 DEF HeadIs, Head1
<1>2. ASSUME NEW t \in Tasks, strand' = Append(strand, t)
      PROVE  HeadIs(k, s)'
  <2>1. strand' # <<>> /\ Head1' = Head1
    BY <1>2, HeadAppended DEF HeadIs, TypeInv, TypeOK
  <2> QED
    BY <2>1 DEF HeadIs
<1> QED
  BY <1>1, <1>2

\* Who runs when the serial strand starts a handler.
LEMMA StartsAlone ==
    ASSUME Threads = 1, Alone, NEW k, SerReady(k)
    PROVE  /\ ser.pc = "idle" /\ strand # <<>> /\ Head1.k = k
           /\ web.pc \in {"idle", "inline"}
           /\ web.pc = "inline" => k = "init" /\ Head1.s = web.s
           /\ sig.pc # "sweep"
           /\ sig.pc = "inline" => k = "stop" /\ Head1.s = sig.at /\ web.pc = "idle"
<1>1. ser.pc = "idle" /\ strand # <<>> /\ Head1.k = k /\ (Hosted \/ ThreadFree)
  BY DEF SerReady
<1>2. CASE ThreadFree
  BY <1>1, <1>2, FreeOne DEF Sweeping
<1>3. CASE web.pc = "inline"
  BY <1>1, <1>3 DEF Alone, Sweeping, HeadIs
<1>4. CASE sig.pc = "inline"
  BY <1>1, <1>4 DEF Alone, Sweeping, HeadIs
<1> QED
  BY <1>1, <1>2, <1>3, <1>4 DEF Hosted

LEMMA StepAlone == Threads = 1 /\ TypeInv /\ Alone /\ Fronted /\ [Next]_vars => Alone'
<1> SUFFICES ASSUME Threads = 1, TypeInv, Alone, Fronted, [Next]_vars PROVE Alone'
  OBVIOUS
<1>1. web \in Webs /\ sig \in Sigs /\ ser \in Sers /\ strand \in Seq(Tasks)
  BY DEF TypeInv, TypeOK
<1>2. CASE (\E r \in Request : WebLookup(r)) \/ PortsFound \/ Exit
  <2>1. ThreadFree /\ ser' = ser /\ sig' = sig /\ web'.pc # "inline"
    BY <1>2, FreeOne DEF WebLookup, PortsFound, Exit
  <2> QED
    BY <2>1, FreeOne DEF Alone, Sweeping
<1>3. CASE WebCheck \/ WebSend \/ WebWrite
  <2>1. web.pc \notin {"idle", "inline"} /\ ser' = ser /\ sig' = sig /\ web'.pc # "inline"
    <3>1. web.pc \notin {"idle", "inline"} /\ ser' = ser /\ sig' = sig
      BY <1>3 DEF WebCheck, WebSend, WebWrite
    <3>2. \/ web' = WebIdle
          \/ web' = [web EXCEPT !.pc = "send"]
          \/ web' = [web EXCEPT !.pc = "write", !.op = Len(ops) + 1]
      BY <1>3 DEF WebCheck, WebSend, WebWrite
    <3>3. web'.pc \in {"idle", "send", "write"}
      <4>1. WebIdle.pc = "idle"
        BY DEF WebIdle
      <4>2. [web EXCEPT !.pc = "send"].pc = "send"
        BY <1>1 DEF Webs
      <4>3. [web EXCEPT !.pc = "write", !.op = Len(ops) + 1].pc = "write"
        BY <1>1 DEF Webs
      <4> QED
        BY <3>2, <4>1, <4>2, <4>3
    <3> QED
      BY <3>1, <3>3
  <2> QED
    BY <2>1 DEF Alone, Sweeping
<1>4. CASE WebCreate
  <2>1. ser' = ser /\ sig' = sig /\ ser.pc = "idle" /\ ~Sweeping /\ ~Hosted
    BY <1>4 DEF WebCreate, Alone, Sweeping, Hosted
  <2>2. CASE web' = WebIdle
    BY <2>1, <2>2 DEF Alone, Sweeping, WebIdle
  <2>3. CASE web' # WebIdle
    <3>1. /\ checkNameValid(web.req.com)
          /\ web' = [web EXCEPT !.pc = "inline", !.s = created + 1]
          /\ strand' = <<InitTask(created + 1, web.req.com)>> \o strand
      BY <1>4, <2>1, <2>3, DispatchesAtOnce DEF WebCreate
    <3>2. web.req \in Request /\ created \in 0..MaxSession /\ created < MaxSession
      BY <1>4 DEF WebCreate, TypeInv, TypeOK, WebTyped
    <3>3. created + 1 \in Session /\ web.req.com \in Port
      BY <3>2, ConstantsOK DEF Session, Requests
    <3>4. InitTask(created + 1, web.req.com) \in Tasks
          /\ InitTask(created + 1, web.req.com).k = "init"
          /\ InitTask(created + 1, web.req.com).s = created + 1
      BY <3>3, TasksMade DEF InitTask
    <3>5. web'.pc = "inline" /\ web'.s = created + 1
      BY <1>1, <3>1 DEF Webs
    <3>6. strand' # <<>> /\ Head1'.k = "init" /\ Head1'.s = web'.s
      BY <1>1, <3>1, <3>4, <3>5, HeadJoined
    <3> QED
      BY <2>1, <3>5, <3>6 DEF Alone, Sweeping, HeadIs
  <2> QED
    BY <2>2, <2>3
<1>5. CASE InitName
  <2>1. SerReady("init") /\ ser' = [pc |-> "open", t |-> Head1] /\ web' = web /\ sig' = sig
    BY <1>5 DEF InitName
  <2>2. ~Sweeping /\ web.pc \in {"idle", "inline"} /\ (web.pc = "inline" => Head1.s = web.s)
    BY <2>1, StartsAlone DEF Sweeping
  <2> QED
    BY <2>1, <2>2 DEF Alone, Sweeping
<1>6. CASE InitOpen
  <2>1. ser.pc = "open" /\ ser' = SerIdle /\ sig' = sig /\ web' \in {web, WebIdle}
        /\ (web.pc = "inline" => web' = WebIdle)
    BY <1>6 DEF InitOpen
  <2>2. ~Sweeping /\ web.pc \in {"idle", "inline"}
    BY <1>1, <2>1 DEF Alone, Sweeping, Sigs
  <2> QED
    BY <2>1, <2>2 DEF Alone, Sweeping, WebIdle, SerIdle
<1>7. CASE StopWrite
  <2>1. /\ SerReady("stop") /\ web' = web
        /\ \/ ser' = [pc |-> "write", t |-> Head1] /\ sig' = sig
           \/ ser' = ser /\ sig' = IF sig.pc = "inline" THEN [sig EXCEPT !.pc = "sweep"] ELSE sig
    BY <1>7 DEF StopWrite
  <2>2. web.pc = "idle" /\ ser.pc = "idle" /\ sig.pc # "sweep"
    BY <2>1, StartsAlone
  <2>3. CASE ser' = [pc |-> "write", t |-> Head1] /\ sig' = sig
    BY <2>1, <2>2, <2>3 DEF Alone, Sweeping
  <2>4. CASE ser' = ser /\ sig' = IF sig.pc = "inline" THEN [sig EXCEPT !.pc = "sweep"] ELSE sig
    <3>1. sig'.pc # "inline"
      BY <1>1, <2>4 DEF Sigs
    <3> QED
      BY <2>1, <2>2, <2>4, <3>1 DEF Alone, Sweeping
  <2> QED
    BY <2>1, <2>3, <2>4
<1>8. CASE StopClose
  <2>1. /\ ser.pc = "close" /\ ser' = SerIdle /\ web' = web
        /\ sig' = IF sig.pc = "inline" THEN [sig EXCEPT !.pc = "sweep"] ELSE sig
    BY <1>8 DEF StopClose
  <2>2. web.pc = "idle" /\ sig'.pc # "inline"
    BY <1>1, <2>1 DEF Alone, Sweeping, Sigs, Webs
  <2> QED
    BY <2>1, <2>2 DEF Alone, Sweeping, SerIdle
<1>9. CASE WriteDone \/ Tick
  <2>1. (SerReady("done") \/ SerReady("tick")) /\ web' = web /\ sig' = sig
    BY <1>9 DEF WriteDone, Tick
  <2>2. web.pc = "idle" /\ ~Sweeping
    BY <1>1, <2>1, StartsAlone DEF Sweeping
  <2> QED
    BY <2>1, <2>2 DEF Alone, Sweeping
<1>10. CASE TickArm
  <2>1. ser.pc = "tick" /\ web' = web /\ sig' = sig
    BY <1>10 DEF TickArm
  <2>2. web.pc = "idle" /\ ~Sweeping
    BY <1>1, <2>1 DEF Alone, Sweeping, Sigs, Webs
  <2> QED
    BY <2>1, <2>2 DEF Alone, Sweeping
<1>11. CASE Signal
  <2>1. ThreadFree /\ sig' = [pc |-> "sweep", at |-> 0] /\ web' = web /\ ser' = ser
    BY <1>11 DEF Signal
  <2> QED
    BY <2>1, FreeOne DEF Alone, Sweeping
<1>12. CASE SweepClose
  <2>1. /\ sig.pc = "sweep" /\ web' = web /\ ser' = ser /\ ser.pc = "idle" /\ web.pc = "idle"
        /\ ~Hosted
    BY <1>1, <1>12 DEF SweepClose, Alone, Sweeping, Webs, Hosted
  <2>2. sig'.pc = "inline" => strand' # <<>> /\ Head1'.k = "stop" /\ Head1'.s = sig'.at
    <3> SUFFICES ASSUME sig'.pc = "inline"
                 PROVE  strand' # <<>> /\ Head1'.k = "stop" /\ Head1'.s = sig'.at
      OBVIOUS
    <3>1. PICK s \in sessions :
              \/ /\ s \in opened /\ strand' = <<StopTask(s, Len(ops) + 1)>> \o strand
                 /\ sig' = [pc |-> "inline", at |-> s]
              \/ sig' = [sig EXCEPT !.at = s]
      BY <1>12, <2>1, DispatchesAtOnce DEF SweepClose, ToClose
    <3>2. /\ strand' = <<StopTask(s, Len(ops) + 1)>> \o strand /\ s \in opened
          /\ sig'.at = s
      BY <1>1, <2>1, <3>1 DEF Sigs
    <3>3. /\ StopTask(s, Len(ops) + 1) \in Tasks /\ StopTask(s, Len(ops) + 1).k = "stop"
          /\ StopTask(s, Len(ops) + 1).s = s
      BY <3>2, TasksMade DEF StopTask, TypeInv, TypeOK
    <3>4. strand' # <<>> /\ Head1' = StopTask(s, Len(ops) + 1)
      BY <1>1, <3>2, <3>3, HeadJoined
    <3> QED
      BY <3>2, <3>3, <3>4 DEF HeadIs
  <2> QED
    BY <2>1, <2>2 DEF Alone, HeadIs
<1>13. CASE SweepClear
  <2>1. sig.pc = "sweep" /\ sig'.pc = "delay" /\ web' = web /\ ser' = ser
    BY <1>1, <1>13 DEF SweepClear, Sigs
  <2> QED
    BY <2>1 DEF Alone, Sweeping
<1>14. CASE ListRace \/ TimerExpire \/ UNCHANGED vars
  <2>1. web' = web /\ ser' = ser /\ sig' = sig
    BY <1>14 DEF ListRace, TimerExpire, vars
  <2>2. strand' = strand \/ \E t \in Tasks : strand' = Append(strand, t)
    BY <1>14, TasksMade DEF ListRace, TimerExpire, vars
  <2>3. HeadIs("init", web.s) => HeadIs("init", web.s)'
    <3>1. PICK s : s = web.s
      OBVIOUS
    <3>2. HeadIs("init", s) => HeadIs("init", s)'
      BY <2>2, HeadStays
    <3> QED
      BY <2>1, <3>1, <3>2 DEF HeadIs
  <2>4. HeadIs("stop", sig.at) => HeadIs("stop", sig.at)'
    <3>1. PICK s : s = sig.at
      OBVIOUS
    <3>2. HeadIs("stop", s) => HeadIs("stop", s)'
      BY <2>2, HeadStays
    <3> QED
      BY <2>1, <3>1, <3>2 DEF HeadIs
  <2> QED
    BY <2>1, <2>3, <2>4 DEF Alone, Sweeping
<1>15. ASSUME NEW x \in Session, NEW ok \in BOOLEAN, DriverDone(x, ok) PROVE Alone'
  <2>1. web' = web /\ sig' = sig
    BY <1>15 DEF DriverDone
  <2>2. strand' = strand \/ \E t \in Tasks : strand' = Append(strand, t)
    <3>1. Head(driver[x]) \in Nat
      BY <1>15, TailFacts DEF DriverDone, TypeInv, TypeOK
    <3> QED
      BY <1>15, <3>1, TasksMade DEF DriverDone
  <2>3. HeadIs("init", web.s) => HeadIs("init", web.s)'
    <3>1. PICK s : s = web.s
      OBVIOUS
    <3>2. HeadIs("init", s) => HeadIs("init", s)'
      BY <2>2, HeadStays
    <3> QED
      BY <2>1, <3>1, <3>2 DEF HeadIs
  <2>4. HeadIs("stop", sig.at) => HeadIs("stop", sig.at)'
    <3>1. PICK s : s = sig.at
      OBVIOUS
    <3>2. HeadIs("stop", s) => HeadIs("stop", s)'
      BY <2>2, HeadStays
    <3> QED
      BY <2>1, <3>1, <3>2 DEF HeadIs
  <2>5. ser' = ser \/ (ser.pc = "write" /\ ser'.pc = "close")
    <3>1. \/ ser' = ser
          \/ ser.pc = "write" /\ ser' = [pc |-> "close", t |-> [ser.t EXCEPT !.ok = ok]]
      BY <1>15 DEF DriverDone
    <3> QED
      BY <3>1
  <2>6. CASE ser' = ser
    BY <2>1, <2>3, <2>4, <2>6 DEF Alone, Sweeping
  <2>7. CASE ser.pc = "write" /\ ser'.pc = "close"
    BY <2>1, <2>7 DEF Alone, Sweeping
  <2> QED
    BY <2>5, <2>6, <2>7
<1> QED
  BY <1>2, <1>3, <1>4, <1>5, <1>6, <1>7, <1>8, <1>9, <1>10, <1>11, <1>12, <1>13, <1>14, <1>15
  DEF Next, Halted

\* Who waits for the serial strand waits until it has taken its handler.
LEMMA HostWaits ==
    ASSUME Threads = 1, TypeInv, Alone, ser.pc = "idle", Hosted, [Next]_vars,
           strand' = strand \/ \E t \in Tasks : strand' = Append(strand, t)
    PROVE  ser'.pc = "idle" /\ Hosted'
<1>1. strand \in Seq(Tasks) /\ strand # <<>> /\ ser.t \in Tasks
  BY DEF Alone, Hosted, HeadIs, TypeInv, TypeOK, Sers
<1>2. strand' # Tail(strand)
  <2>1. Len(Tail(strand)) = Len(strand) - 1 /\ Len(strand) \in Nat
    BY <1>1, TailFacts
  <2>2. Len(strand') = Len(strand) \/ Len(strand') = Len(strand) + 1
    BY <1>1, AppendFacts
  <2>3. Len(strand') # Len(strand) - 1
    BY <2>1, <2>2
  <2> QED
    BY <2>1, <2>3
<1>3. CASE (\E r \in Request : WebLookup(r)) \/ PortsFound \/ Exit \/ Signal
  BY <1>3, FreeOne DEF WebLookup, PortsFound, Exit, Signal, Hosted, Sweeping
<1>4. CASE WebCheck \/ WebSend \/ WebWrite \/ WebCreate
  <2>1. ser' = ser /\ sig' = sig /\ web.pc # "inline"
    BY <1>4 DEF WebCheck, WebSend, WebWrite, WebCreate
  <2> QED
    BY <2>1 DEF Hosted
<1>5. CASE SweepClose \/ SweepClear \/ ListRace
  <2>1. ser' = ser /\ web' = web /\ sig.pc = "sweep"
    BY <1>5 DEF SweepClose, SweepClear, ListRace
  <2> QED
    BY <2>1 DEF Hosted
<1>6. CASE InitName \/ StopWrite \/ WriteDone \/ Tick
  BY <1>2, <1>6 DEF InitName, StopWrite, WriteDone, Tick
<1>7. CASE InitOpen \/ StopClose \/ TickArm
  BY <1>7 DEF InitOpen, StopClose, TickArm
<1>8. CASE TimerExpire \/ UNCHANGED vars
  BY <1>8 DEF TimerExpire, vars, Hosted
<1>9. CASE \E s \in Session, ok \in BOOLEAN : DriverDone(s, ok)
  BY <1>9 DEF DriverDone, Hosted
<1> QED
  BY <1>3, <1>4, <1>5, <1>6, <1>7, <1>8, <1>9 DEF Next, Halted

LEMMA StepFronted == Threads = 1 /\ TypeInv /\ Alone /\ Fronted /\ [Next]_vars => Fronted'
<1> SUFFICES ASSUME Threads = 1, TypeInv, Alone, Fronted, [Next]_vars,
                    NEW i \in 1..Len(strand'), ~Completion(strand'[i])
             PROVE  i = 1 /\ ser'.pc = "idle" /\ Hosted'
  BY DEF Fronted, Completion
<1>1. strand \in Seq(Tasks) /\ Len(strand) \in Nat
  BY DEF TypeInv, TypeOK
<1>2. CASE strand' = strand
  BY <1>2, HostWaits DEF Fronted
<1>3. CASE strand # <<>> /\ strand' = Tail(strand)
  <2>1. i + 1 \in 1..Len(strand) /\ strand'[i] = strand[i + 1] /\ i \in Nat /\ i >= 1
    BY <1>1, <1>3, TailFacts
  <2>2. i + 1 # 1
    BY <2>1
  <2> QED
    BY <2>1, <2>2 DEF Fronted
<1>4. ASSUME NEW t \in Tasks, strand' = Append(strand, t), t.k \in {"tick", "done"}
      PROVE  i = 1 /\ ser'.pc = "idle" /\ Hosted'
  <2>1. i # Len(strand) + 1
    BY <1>1, <1>4, AppendFacts DEF Completion
  <2>2. i \in 1..Len(strand) /\ strand'[i] = strand[i]
    BY <1>1, <1>4, <2>1, AppendFacts
  <2> QED
    BY <1>4, <2>2, HostWaits DEF Fronted
<1>5. ASSUME NEW t \in Tasks, strand' = <<t>> \o strand,
             \A j \in 1..Len(strand) : Completion(strand[j])
      PROVE  i = 1
  <2>1. Len(strand') = Len(strand) + 1 /\ \A j \in 1..Len(strand) : strand'[j + 1] = strand[j]
    BY <1>1, <1>5, HeadJoined
  <2> SUFFICES ASSUME i # 1 PROVE FALSE
    OBVIOUS
  <2>2. i - 1 \in 1..Len(strand) /\ (i - 1) + 1 = i
    BY <1>1, <2>1
  <2>3. strand'[i] = strand[i - 1]
    BY <2>1, <2>2
  <2> QED
    BY <1>5, <2>2, <2>3
<1>6. CASE WebCreate
  <2>1. ser' = ser /\ ser.pc = "idle" /\ ~Hosted
    BY <1>6 DEF WebCreate, Alone, Sweeping, Hosted
  <2>2. CASE strand' = strand
    BY <1>2, <2>2
  <2>3. CASE strand' # strand
    <3>1. /\ strand' = <<InitTask(created + 1, web.req.com)>> \o strand
          /\ web' = [web EXCEPT !.pc = "inline", !.s = created + 1]
      BY <1>6, <2>1, <2>3, DispatchesAtOnce DEF WebCreate
    <3>2. web'.pc = "inline"
      BY <3>1 DEF TypeInv, TypeOK, Webs
    <3>3. InitTask(created + 1, web.req.com) \in Tasks
      <4>1. web.req \in Request /\ created \in 0..MaxSession /\ created < MaxSession
        BY <1>6 DEF WebCreate, TypeInv, TypeOK, WebTyped
      <4>2. created + 1 \in Session /\ web.req.com \in Port
        BY <4>1, ConstantsOK DEF Session, Requests
      <4> QED
        BY <4>2, TasksMade
    <3> QED
      BY <1>5, <2>1, <3>1, <3>2, <3>3, DispatchesAtOnce DEF Hosted
  <2> QED
    BY <2>2, <2>3
<1>7. CASE SweepClose
  <2>1. ser' = ser /\ ser.pc = "idle" /\ ~Hosted
    BY <1>7 DEF SweepClose, Alone, Sweeping, Hosted
  <2>2. CASE strand' = strand
    BY <1>2, <2>2
  <2>3. CASE strand' # strand
    <3>1. PICK s \in sessions :
              /\ strand' = <<StopTask(s, Len(ops) + 1)>> \o strand
              /\ sig' = [pc |-> "inline", at |-> s]
      BY <1>7, <2>1, <2>3, DispatchesAtOnce DEF SweepClose, ToClose
    <3>2. StopTask(s, Len(ops) + 1) \in Tasks
      BY TasksMade DEF TypeInv, TypeOK
    <3> QED
      BY <1>5, <2>1, <3>1, <3>2, DispatchesAtOnce DEF Hosted
  <2> QED
    BY <2>2, <2>3
<1> QED
  BY <1>2, <1>3, <1>4, <1>6, <1>7, QueueStep

-----------------------------------------------------------------------------
(* The sweep leaves no open port behind.                                   *)

\* The ports that the sweep has passed have their stop command on the way.
Swept == \A s \in opened : s <= sig.at => StopPending(s)

\* The list holds every session created since it was cleared, the sweep passes only those
\* created before, and no init is to come of a session that it has passed.
SweepInv ==
    /\ sig.pc # "delay" => sessions = 1..created
    /\ sig.pc = "delay" => sessions = (sig.at + 1)..created
    /\ sig.at <= created
    /\ ser.pc = "open" => ser.t.s > sig.at
    /\ \A t \in Queued : t.k = "init" => t.s > sig.at
    /\ Swept

LEMMA InitSweep == Init => SweepInv
<1> SUFFICES ASSUME Init PROVE SweepInv
  OBVIOUS
<1>1. sig.pc = "idle" /\ sig.at = 0 /\ created = 0 /\ sessions = {} /\ opened = {}
  BY DEF Init
<1>2. 1..0 = {}
  OBVIOUS
<1>3. Queued = {} /\ ser.pc = "idle"
  BY DEF Init, Queued, Entries, SerIdle
<1> QED
  BY <1>1, <1>2, <1>3 DEF SweepInv, Swept

\* What becomes of the signal.
LEMMA SigSteps ==
    ASSUME TypeInv, [Next]_vars
    PROVE  \/ sig' = sig
           \/ Signal /\ sig.pc = "idle" /\ sig'.pc = "sweep" /\ sig'.at = 0
           \/ SweepClose /\ sig.pc = "sweep" /\ sig'.pc \in {"sweep", "inline"}
           \/ sig.pc = "inline" /\ sig'.pc = "sweep" /\ sig'.at = sig.at
           \/ /\ SweepClear /\ sig.pc = "sweep" /\ ToClose = {}
              /\ sig'.pc = "delay" /\ sig'.at = sig.at
<1>1. sig \in Sigs
  BY DEF TypeInv, TypeOK
<1>2. CASE Signal
  BY <1>2 DEF Signal
<1>3. CASE SweepClose
  <2>1. \E s \in sessions :
          \/ \E pc \in {"inline", "sweep"} : sig' = [pc |-> pc, at |-> s]
          \/ sig' = [sig EXCEPT !.at = s]
    BY <1>3 DEF SweepClose, ToClose
  <2>2. sig.pc = "sweep"
    BY <1>3 DEF SweepClose
  <2>3. sig'.pc \in {"sweep", "inline"}
    BY <1>1, <2>1, <2>2 DEF Sigs
  <2> QED
    BY <1>3, <2>2, <2>3
<1>4. CASE SweepClear
  <2>1. sig.pc = "sweep" /\ ToClose = {} /\ sig' = [sig EXCEPT !.pc = "delay"]
    BY <1>4 DEF SweepClear
  <2>2. sig'.pc = "delay" /\ sig'.at = sig.at
    BY <1>1, <2>1 DEF Sigs
  <2> QED
    BY <1>4, <2>1, <2>2
<1>5. CASE StopWrite \/ StopClose
  <2>1. \/ sig' = sig
        \/ sig.pc = "inline" /\ sig' = [sig EXCEPT !.pc = "sweep"]
    BY <1>5 DEF StopWrite, StopClose
  <2> QED
    BY <1>1, <2>1 DEF Sigs
<1>6. CASE \/ \E r \in Request : WebLookup(r)
           \/ WebCheck \/ WebSend \/ WebWrite \/ WebCreate \/ PortsFound \/ InitName
           \/ InitOpen \/ WriteDone \/ Tick \/ TickArm \/ Exit \/ ListRace \/ TimerExpire
           \/ UNCHANGED vars
  <2>1. sig' = sig
    BY <1>6 DEF WebLookup, WebCheck, WebSend, WebWrite, WebCreate, PortsFound, InitName,
                InitOpen, WriteDone, Tick, TickArm, Exit, ListRace, TimerExpire, vars
  <2> QED
    BY <2>1
<1>7. CASE \E s \in Session, ok \in BOOLEAN : DriverDone(s, ok)
  BY <1>7 DEF DriverDone
<1> QED
  BY <1>2, <1>3, <1>4, <1>5, <1>6, <1>7 DEF Next, Halted

LEMMA PendingParts ==
    ASSUME NEW x
    PROVE  StopPending(x) <=> \/ ser.pc \in {"write", "close"} /\ ser.t.s = x
                              \/ \E t \in Queued : t.k = "stop" /\ t.s = x
BY DEF StopPending, Queued, Entries

LEMMA WritesGoOn ==
    ASSUME TypeInv, [Next]_vars, ser.pc \in {"write", "close"}
    PROVE  \/ ser' = ser
           \/ ser'.pc = "close" /\ ser'.t.s = ser.t.s
           \/ StopClose
<1>1. CASE InitName \/ StopWrite \/ WriteDone \/ Tick
  BY <1>1 DEF InitName, StopWrite, WriteDone, Tick, SerReady
<1>2. CASE InitOpen \/ TickArm
  BY <1>2 DEF InitOpen, TickArm
<1>3. CASE StopClose
  BY <1>3
<1>4. CASE \/ \E r \in Request : WebLookup(r)
           \/ WebCheck \/ WebSend \/ WebWrite \/ WebCreate \/ PortsFound \/ Signal
           \/ SweepClose \/ SweepClear \/ Exit \/ ListRace \/ TimerExpire \/ UNCHANGED vars
  <2>1. ser' = ser
    BY <1>4 DEF WebLookup, WebCheck, WebSend, WebWrite, WebCreate, PortsFound, Signal,
                SweepClose, SweepClear, Exit, ListRace, TimerExpire, vars
  <2> QED
    BY <2>1
<1>5. ASSUME NEW s \in Session, NEW ok \in BOOLEAN, DriverDone(s, ok)
      PROVE  ser' = ser \/ (ser'.pc = "close" /\ ser'.t.s = ser.t.s)
  <2>1. \/ ser' = ser
        \/ ser' = [pc |-> "close", t |-> [ser.t EXCEPT !.ok = ok]]
    BY <1>5 DEF DriverDone
  <2>2. ser.t \in Tasks
    BY DEF TypeInv, TypeOK, Sers
  <2> QED
    BY <2>1, <2>2 DEF Tasks
<1> QED
  BY <1>1, <1>2, <1>3, <1>4, <1>5 DEF Next, Halted

\* A stop command that is on its way to an open port stays on its way.
LEMMA PendingStays ==
    ASSUME TypeInv, [Next]_vars, NEW x \in opened, x \in opened', StopPending(x)
    PROVE  StopPending(x)'
<1>1. CASE ser.pc \in {"write", "close"} /\ ser.t.s = x
  <2>1. ~StopClose
    BY <1>1 DEF StopClose
  <2> QED
    BY <1>1, <2>1, WritesGoOn DEF StopPending
<1>2. ASSUME NEW t \in Queued, t.k = "stop", t.s = x
      PROVE  StopPending(x)'
  <2>1. CASE t \in Queued'
    <3>1. \E u \in Queued' : u.k = "stop" /\ u.s = x
      BY <1>2, <2>1
    <3> QED
      BY <3>1 DEF StopPending, Queued, Entries
  <2>2. CASE t \notin Queued'
    <3>1. Taken /\ t = Head1
      BY <2>2, QueuedStep
    <3>2. StopWrite
      BY <1>2, <3>1 DEF Taken
    <3>3. ser' = [pc |-> "write", t |-> Head1]
      BY <1>2, <3>1, <3>2 DEF StopWrite
    <3> QED
      BY <1>2, <3>1, <3>3 DEF StopPending
  <2> QED
    BY <2>1, <2>2
<1> QED
  BY <1>1, <1>2, PendingParts

LEMMA StepSweep ==
    /\ Threads = 1 /\ TypeInv /\ NameInv /\ SettledInv /\ Alone /\ Fronted
    /\ SweepInv /\ [Next]_vars
    => SweepInv'
<1> SUFFICES ASSUME Threads = 1, TypeInv, NameInv, SettledInv, Alone, Fronted, SweepInv,
                    [Next]_vars
             PROVE  SweepInv'
  OBVIOUS
<1>1. /\ created \in Nat /\ sig.at \in Nat /\ Session \subseteq Nat /\ opened \subseteq Session
      /\ sessions \subseteq Session /\ sig \in Sigs /\ \A x \in Session : x >= 1
      /\ strand \in Seq(Tasks)
  <2>1. Session \subseteq Nat /\ \A x \in Session : x >= 1
    BY ConstantsOK DEF Session
  <2>2. created \in 0..MaxSession /\ sig \in Sigs /\ opened \subseteq Session /\ sessions \subseteq Session
        /\ strand \in Seq(Tasks)
    BY DEF TypeInv, TypeOK
  <2>3. sig.at \in Nat
    <3>1. sig.at \in Session \cup {0}
      BY <2>2 DEF Sigs
    <3> QED
      BY <3>1, ConstantsOK DEF Session
  <2> QED
    BY <2>1, <2>2, <2>3, ConstantsOK
<1>2. \A x \in opened : x <= created
  <2>1. \A x \in opened : name[x] # NoPort
    BY DEF SettledInv
  <2> QED
    BY <1>1, <2>1 DEF NameInv
<1>3. sig'.pc # "delay" => sessions' = 1..created'
  <2> SUFFICES ASSUME sig'.pc # "delay" PROVE sessions' = 1..created'
    OBVIOUS
  <2>1. sig.pc # "delay" /\ ~SweepClear
    BY <1>1, SigSteps DEF SweepClear, Sigs
  <2>2. sessions = 1..created
    BY <2>1 DEF SweepInv
  <2>3. 1..(created + 1) = (1..created) \cup {created + 1}
    BY <1>1
  <2> QED
    BY <2>1, <2>2, <2>3, SessionsStep
\* The sweep moves to the next session that is to be closed.
<1>4. ASSUME SweepClose
      PROVE  /\ ser' = ser /\ ser.pc = "idle" /\ opened' = opened /\ sig.pc = "sweep"
             /\ \A t \in Queued' : t.k # "init"
             /\ \E s \in ToClose :
                  /\ \A y \in ToClose : s <= y
                  /\ sig'.at = s
                  /\ s \in opened => \E t \in Queued' : t.k = "stop" /\ t.s = s
  <2>1. ser' = ser /\ ser.pc = "idle" /\ opened' = opened /\ sig.pc = "sweep" /\ ~Hosted
    BY <1>4 DEF SweepClose, Alone, Sweeping, Hosted
  <2>2. \A t \in Queued : t.k # "init"
    <3>1. \A j \in 1..Len(strand) : Completion(strand[j])
      BY <2>1, DispatchesAtOnce
    <3> QED
      BY <1>1, <3>1, QueuedKept DEF Completion
  <2>3. \A t \in Queued' : t.k # "init"
    <3>1. ~WebCreate
      BY <2>1 DEF WebCreate, Alone, Sweeping
    <3> QED
      BY <2>2, <3>1, QueuedStep
  <2>4. PICK s \in ToClose :
          /\ \A y \in ToClose : s <= y
          /\ IF s \in opened
             THEN /\ Joins(strand, StopTask(s, Len(ops) + 1), strand')
                  /\ \E pc \in {"inline", "sweep"} : sig' = [pc |-> pc, at |-> s]
             ELSE sig' = [sig EXCEPT !.at = s]
    BY <1>4 DEF SweepClose, Dispatch, Joins
  <2>5. sig'.at = s
    BY <1>1, <2>4 DEF Sigs
  <2>6. s \in opened => \E t \in Queued' : t.k = "stop" /\ t.s = s
    <3>1. /\ StopTask(s, Len(ops) + 1).k = "stop" /\ StopTask(s, Len(ops) + 1).s = s
          /\ s \in opened => StopTask(s, Len(ops) + 1) \in Tasks
      <4>1. StopTask(s, Len(ops) + 1).k = "stop" /\ StopTask(s, Len(ops) + 1).s = s
        BY DEF StopTask
      <4>2. s \in opened => s \in Session
        BY DEF TypeInv, TypeOK
      <4>3. Len(ops) + 1 \in Nat
        BY DEF TypeInv, TypeOK
      <4> QED
        BY <4>1, <4>2, <4>3, TasksMade
    <3>2. s \in opened => StopTask(s, Len(ops) + 1) \in Queued'
      BY <1>1, <2>4, <3>1, QueuedKept
    <3> QED
      BY <3>1, <3>2
  <2> QED
    BY <2>1, <2>3, <2>4, <2>5, <2>6
<1>5. sig'.at \in Nat /\ sig'.at <= created'
  <2>1. created' \in Nat /\ created <= created'
    BY <1>1, SessionsStep
  <2>2. sig'.at = sig.at \/ sig'.at = 0 \/ sig'.at \in sessions
    BY <1>4, SigSteps DEF ToClose
  <2>3. \A x \in sessions : x <= created /\ x \in Nat
    BY <1>1 DEF NameInv
  <2>4. sig.at <= created
    BY DEF SweepInv
  <2>5. PICK a : a = sig'.at
    OBVIOUS
  <2>6. a = sig.at \/ a = 0 \/ a \in sessions
    BY <2>2, <2>5
  <2>7. a \in Nat /\ a <= created
    <3>1. CASE a = sig.at
      BY <1>1, <2>4, <3>1
    <3>2. CASE a = 0
      BY <1>1, <3>2
    <3>3. CASE a \in sessions
      BY <2>3, <3>3
    <3> QED
      BY <2>6, <3>1, <3>2, <3>3
  <2> QED
    BY <1>1, <2>1, <2>5, <2>7
<1>6. sig'.pc = "delay" => sessions' = (sig'.at + 1)..created'
  <2> SUFFICES ASSUME sig'.pc = "delay" PROVE sessions' = (sig'.at + 1)..created'
    OBVIOUS
  <2>1. CASE SweepClear
    <3>1. /\ sig.pc = "sweep" /\ ToClose = {} /\ sessions' = {} /\ created' = created
          /\ sig'.at = sig.at
      BY <1>1, <2>1, SigSteps DEF SweepClear, SweepClose, Signal, Sigs
    <3>2. sessions = 1..created /\ sig.at <= created
      BY <3>1 DEF SweepInv
    <3>3. sig.at = created
      <4> SUFFICES ASSUME sig.at # created PROVE FALSE
        OBVIOUS
      <4>1. created \in 1..created /\ created > sig.at
        BY <1>1, <3>2
      <4> QED
        BY <3>1, <3>2, <4>1 DEF ToClose
    <3>4. (created + 1)..created = {}
      BY <1>1
    <3> QED
      BY <3>1, <3>3, <3>4
  <2>2. CASE ~SweepClear
    <3>1. sig.pc = "delay" /\ sig' = sig
      BY <1>1, <2>2, SigSteps
    <3>2. sessions = (sig.at + 1)..created /\ sig.at <= created
      BY <3>1 DEF SweepInv
    <3>3. (sig.at + 1)..(created + 1) = ((sig.at + 1)..created) \cup {created + 1}
      BY <1>1, <3>2
    <3> QED
      BY <2>2, <3>1, <3>2, <3>3, SessionsStep
  <2> QED
    BY <2>1, <2>2
\* The session that is opened is younger than those the sweep has passed.
<1>7. ser'.pc = "open" => ser'.t.s > sig'.at
  <2> SUFFICES ASSUME ser'.pc = "open" PROVE ser'.t.s > sig'.at
    OBVIOUS
  <2>1. ~SweepClose
    BY <1>4
  <2>2. ser'.t.s > sig.at /\ ser'.t.s \in Session
    <3>1. CASE ser' = ser
      BY <3>1 DEF SweepInv, TypeInv, SerTyped
    <3>2. CASE InitName /\ ser'.t = Head1
      <4>1. Head1.k = "init" /\ strand # <<>>
        BY <3>2 DEF InitName, SerReady
      <4>2. Head1 \in Queued /\ Head1 = strand[1] /\ 1 \in 1..Len(strand)
        BY <1>1, <4>1, QueuedKept, TailFacts DEF Head1
      <4> QED
        BY <3>2, <4>1, <4>2 DEF SweepInv, TypeInv, TaskTyped
    <3> QED
      BY <3>1, <3>2, SerMoves
  <2>3. sig'.at = sig.at \/ sig'.at = 0
    BY <2>1, SigSteps
  <2>4. PICK x \in Session : x = ser'.t.s
    BY <2>2
  <2> QED
    BY <1>1, <2>2, <2>3, <2>4
<1>8. \A t \in Queued' : t.k = "init" => t.s > sig'.at
  <2> SUFFICES ASSUME NEW t \in Queued', t.k = "init" PROVE t.s > sig'.at
    OBVIOUS
  <2>1. ~SweepClose
    BY <1>4
  <2>2. t.s \in Nat /\ t.s >= 1 /\ t.s > sig.at
    <3>1. CASE t \in Queued
      <4>1. \E i \in 1..Len(strand) : strand[i] = t
        BY <1>1, <3>1, QueuedKept
      <4>2. t.s \in Session
        BY <4>1, <2>1 DEF TypeInv, TaskTyped
      <4> QED
        BY <1>1, <3>1, <4>2 DEF SweepInv
    <3>2. CASE t \notin Queued
      <4>1. t.s = created + 1
        BY <3>2, QueuedStep
      <4> QED
        BY <1>1, <4>1 DEF SweepInv
    <3> QED
      BY <3>1, <3>2
  <2>3. sig'.at = sig.at \/ sig'.at = 0
    BY <2>1, SigSteps
  <2> QED
    BY <1>1, <2>2, <2>3
<1>9. Swept'
  <2> SUFFICES ASSUME NEW x \in opened', x <= sig'.at PROVE StopPending(x)'
    BY DEF Swept
  <2>1. CASE SweepClose
    <3>1. x \in opened /\ sig.pc = "sweep"
      BY <1>4, <2>1
    <3>2. CASE x <= sig.at
      BY <3>1, <3>2, PendingStays DEF SweepInv, Swept
    <3>3. CASE ~(x <= sig.at)
      <4>1. PICK s \in ToClose :
              /\ \A y \in ToClose : s <= y
              /\ sig'.at = s
              /\ s \in opened => \E t \in Queued' : t.k = "stop" /\ t.s = s
        BY <1>4, <2>1
      <4>2. x \in sessions
        BY <1>1, <1>2, <3>1 DEF SweepInv
      <4>3. x \in ToClose /\ s \in Nat /\ x \in Nat
        BY <1>1, <3>3, <4>2 DEF ToClose
      <4>4. x = s
        BY <4>1, <4>3
      <4>5. \E t \in Queued' : t.k = "stop" /\ t.s = x
        BY <3>1, <4>1, <4>4
      <4> QED
        BY <4>5 DEF StopPending, Queued, Entries
    <3> QED
      BY <3>2, <3>3
  <2>2. CASE ~SweepClose
    <3>1. sig'.at = sig.at \/ sig'.at = 0
      BY <2>2, SigSteps
    <3>2. x \in Session
      <4>1. opened' \subseteq opened \/ (opened' = opened \cup {ser.t.s} /\ InitOpen)
        BY OpenedStep
      <4>2. InitOpen => ser.t.s \in Session
        BY DEF InitOpen, TypeInv, SerTyped
      <4> QED
        BY <1>1, <4>1, <4>2
    <3>3. sig'.at = sig.at /\ x <= sig.at
      BY <1>1, <3>1, <3>2
    <3>4. CASE x \in opened
      BY <3>3, <3>4, PendingStays DEF SweepInv, Swept
    <3>5. CASE x \notin opened
      <4>1. ser.pc = "open" /\ x = ser.t.s
        BY <3>5, OpenedStep DEF InitOpen
      <4>2. x > sig.at
        BY <4>1 DEF SweepInv
      <4> QED
        BY <1>1, <3>2, <3>3, <4>2
    <3> QED
      BY <3>4, <3>5
  <2> QED
    BY <2>1, <2>2
<1> QED
  BY <1>3, <1>5, <1>6, <1>7, <1>8, <1>9 DEF SweepInv

-----------------------------------------------------------------------------
(* When a free port always opens, the session that a lookup finds before   *)
(* the shutdown is the one that has the port.                              *)

\* Before the shutdown the list holds every session, and the name of a settled one finds
\* an open port.
FoundInv ==
    sig.pc = "idle" =>
        /\ sessions = 1..created
        /\ \A s \in sessions : Settled(s) => Get(name[s]) \in opened

LEMMA InitFound == Init => FoundInv
<1> SUFFICES ASSUME Init PROVE FoundInv
  OBVIOUS
<1>1. sessions = {} /\ created = 0 /\ 1..0 = {}
  BY DEF Init
<1> QED
  BY <1>1 DEF FoundInv

LEMMA OpenGoesOn ==
    ASSUME TypeInv, [Next]_vars, ser.pc = "open"
    PROVE  ser' = ser \/ InitOpen
<1>1. CASE InitName \/ StopWrite \/ WriteDone \/ Tick
  BY <1>1 DEF InitName, StopWrite, WriteDone, Tick, SerReady
<1>2. CASE StopClose \/ TickArm
  BY <1>2 DEF StopClose, TickArm
<1>3. CASE \/ \E r \in Request : WebLookup(r)
           \/ WebCheck \/ WebSend \/ WebWrite \/ WebCreate \/ PortsFound \/ Signal
           \/ SweepClose \/ SweepClear \/ Exit \/ ListRace \/ TimerExpire \/ UNCHANGED vars
  BY <1>3 DEF WebLookup, WebCheck, WebSend, WebWrite, WebCreate, PortsFound, Signal,
              SweepClose, SweepClear, Exit, ListRace, TimerExpire, vars
<1>4. CASE \E s \in Session, ok \in BOOLEAN : DriverDone(s, ok)
  BY <1>4 DEF DriverDone
<1> QED
  BY <1>1, <1>2, <1>3, <1>4 DEF Next, Halted

LEMMA OpenedShrinks ==
    ASSUME TypeInv, [Next]_vars, NEW x \in opened, x \notin opened'
    PROVE  StopClose /\ ser.pc = "close" /\ x = ser.t.s
<1>1. CASE StopClose
  BY <1>1 DEF StopClose
<1>2. CASE InitOpen
  BY <1>2 DEF InitOpen
<1>3. CASE \/ \E r \in Request : WebLookup(r)
           \/ WebCheck \/ WebSend \/ WebWrite \/ WebCreate \/ PortsFound \/ InitName
           \/ StopWrite \/ WriteDone \/ Tick \/ TickArm \/ Signal \/ SweepClose
           \/ SweepClear \/ Exit \/ ListRace \/ TimerExpire \/ UNCHANGED vars
  <2>1. opened' = opened
    BY <1>3 DEF WebLookup, WebCheck, WebSend, WebWrite, WebCreate, PortsFound, InitName,
                StopWrite, WriteDone, Tick, TickArm, Signal, SweepClose, SweepClear, Exit,
                ListRace, TimerExpire, vars, serialVars
  <2> QED
    BY <2>1
<1>4. CASE \E s \in Session, ok \in BOOLEAN : DriverDone(s, ok)
  BY <1>4 DEF DriverDone
<1> QED
  BY <1>1, <1>2, <1>3, <1>4 DEF Next, Halted

\* The lookup of a session's name finds the same session after a step that clears nothing.
LEMMA FoundStays ==
    ASSUME TypeInv, TypeInv', NameInv, SettledInv, [Next]_vars, sessions \subseteq sessions',
           NEW x \in sessions, Settled(x)
    PROVE  /\ Get(name[x])' = Get(name[x]) /\ Get(name[x]) \in sessions
           /\ name[Get(name[x])] = name[x]
<1>1. x \in Session /\ sessions \subseteq Session /\ 0 \notin Session
  BY ConstantsOK DEF TypeInv, TypeOK, Session
<1>2. PICK p \in Port : p = name[x] /\ p = name'[x]
  BY <1>1, SettledStays DEF Settled, TypeInv, TypeOK
<1>3. Get(p) \in sessions /\ name[Get(p)] = p
  BY <1>1, <1>2, GetFound
<1>4. Get(p)' = Get(p)
  BY <1>1, <1>2, <1>3, StepLookup
<1>5. Get(name[x])' = Get(p)'
  BY <1>2 DEF Get
<1> QED
  BY <1>2, <1>3, <1>4, <1>5

LEMMA StepFound ==
    /\ ~OpenFaults
    /\ TypeInv /\ TypeInv' /\ StopInv /\ NameInv /\ SettledInv /\ IssuedInv /\ FoundInv
    /\ [Next]_vars
    => FoundInv'
<1> SUFFICES ASSUME ~OpenFaults, TypeInv, TypeInv', StopInv, NameInv, SettledInv, IssuedInv,
                    FoundInv, [Next]_vars, sig'.pc = "idle"
             PROVE  /\ sessions' = 1..created'
                    /\ \A s \in sessions' : Settled(s)' => Get(name[s])' \in opened'
  BY DEF FoundInv
<1>1. /\ created \in Nat /\ Session \subseteq Nat /\ opened \subseteq Session
      /\ sessions \subseteq Session /\ \A x \in Session : x >= 1
  <2>1. Session \subseteq Nat /\ \A x \in Session : x >= 1
    BY ConstantsOK DEF Session
  <2>2. created \in 0..MaxSession
    BY DEF TypeInv, TypeOK
  <2> QED
    BY <2>1, <2>2, ConstantsOK DEF TypeInv, TypeOK
<1>2. sig.pc = "idle" /\ sig.at = 0 /\ ~SweepClear
  <2>1. sig' = sig
    BY SigSteps
  <2> QED
    BY <2>1 DEF StopInv, SweepClear
<1>3. sessions = 1..created /\ \A s \in sessions : Settled(s) => Get(name[s]) \in opened
  BY <1>2 DEF FoundInv
<1>4. sessions' = 1..created' /\ sessions \subseteq sessions'
  <2>1. 1..(created + 1) = (1..created) \cup {created + 1}
    BY <1>1
  <2> QED
    BY <1>2, <1>3, <2>1, SessionsStep
<1>5. ASSUME NEW s \in sessions', Settled(s)'
      PROVE  Get(name[s])' \in opened'
  <2>1. s \in sessions /\ name'[s] # NoPort
    <3>1. CASE WebCreate /\ created' = created + 1 /\ created' \in Session
               /\ sessions' = sessions \cup {created'}
      <4>1. name' = name
        BY <3>1 DEF WebCreate, serialVars
      <4>2. name[created + 1] = NoPort
        BY <1>1, <3>1 DEF NameInv
      <4> QED
        BY <1>5, <3>1, <4>1, <4>2 DEF Settled
    <3> QED
      BY <1>2, <1>5, <3>1, SessionsStep DEF Settled
  <2>2. CASE Settled(s)
    <3>1. PICK g : g = Get(name[s])
      OBVIOUS
    <3>2. Get(name[s])' = g /\ g \in opened /\ g \in sessions
      BY <1>3, <1>4, <2>1, <2>2, <3>1, FoundStays
    <3>3. g \in opened'
      <4> SUFFICES ASSUME g \notin opened' PROVE FALSE
        OBVIOUS
      <4>1. ser.pc = "close" /\ g = ser.t.s
        BY <3>2, OpenedShrinks
      <4>2. g <= sig.at /\ g \in Nat /\ g >= 1
        BY <1>1, <3>2, <4>1 DEF StopInv
      <4> QED
        BY <1>2, <4>2
    <3> QED
      BY <3>2, <3>3
  <2>3. CASE ~Settled(s)
    <3>1. InitOpen /\ s = ser.t.s
      <4>1. CASE InitName
        <5>1. /\ Head1.s \in Session /\ name' = [name EXCEPT ![Head1.s] = Head1.p]
              /\ ser' = [pc |-> "open", t |-> Head1] /\ ser.pc = "idle"
          BY <4>1, HeadInit DEF InitName, SerReady
        <5>2. s # Head1.s
          BY <1>5, <5>1 DEF Settled
        <5>3. name'[s] = name[s]
          BY <1>1, <2>1, <5>1, <5>2 DEF TypeInv, TypeOK
        <5> QED
          BY <2>1, <2>3, <5>1, <5>3 DEF Settled
      <4>2. CASE ~InitName
        <5>1. name' = name
          BY <4>2, OtherNames DEF WebCreate, vars, serialVars
        <5>2. ser.pc = "open" /\ s = ser.t.s
          BY <2>1, <2>3, <5>1 DEF Settled
        <5>3. ser' # ser
          BY <1>5, <5>2 DEF Settled
        <5> QED
          BY <5>2, <5>3, OpenGoesOn
      <4> QED
        BY <4>1, <4>2
    <3>2. /\ ser.pc = "open" /\ name[s] = ser.t.p /\ name[s] \in Port
          /\ UNCHANGED <<sessions, name>>
          /\ \/ CanOpen(name[s]) /\ opened' = opened \cup {s}
             \/ ~CanOpen(name[s]) /\ opened' = opened
      BY <3>1 DEF InitOpen, SettledInv
    <3>3. PICK p \in Port : p = name[s] /\ p = name'[s]
      BY <3>2
    \* The lookup of the name that is being opened.
    <3>4. PICK g \in sessions :
             /\ g = Get(p) /\ name[g] = p
             /\ \A x \in sessions : name[x] = p => g <= x
      <4>1. \E x \in sessions : name[x] = p
        BY <2>1, <3>3
      <4>2. /\ Get(p) \in sessions /\ name[Get(p)] = p
            /\ \A x \in sessions : name[x] = p => Get(p) <= x
        BY <1>1, <4>1, GetFound, Zenon
      <4> QED
        BY <4>2
    <3>5. Get(name[s])' = g
      <4>1. Get(p)' = g
        <5> DEFINE F == {x \in sessions : name[x] = p}
                   G == {x \in sessions' : name'[x] = p}
        <5>1. Get(p) = IF F = {} THEN 0 ELSE CHOOSE y \in F : \A x \in F : y <= x
          BY DEF Get
        <5>2. Get(p)' = IF G = {} THEN 0 ELSE CHOOSE y \in G : \A x \in G : y <= x
          BY DEF Get
        <5>3. F = G
          BY <3>2
        <5> HIDE DEF F, G
        <5> QED
          BY <3>4, <5>1, <5>2, <5>3
      <4>2. Get(name[s])' = Get(p)'
        BY <3>3 DEF Get
      <4> QED
        BY <4>1, <4>2
    <3>6. CASE g # s
      <4>1. Settled(g) /\ name[g] = name[s]
        BY <3>1, <3>3, <3>4, <3>6, ConstantsOK DEF Settled
      <4>2. g \in opened
        <5>1. Get(name[g]) \in opened
          BY <1>3, <4>1
        <5> QED
          BY <3>3, <3>4, <4>1, <5>1
      <4> QED
        BY <3>2, <3>5, <4>2
    <3>7. CASE g = s
      <4>1. CASE CanOpen(name[s])
        BY <3>2, <3>5, <3>7, <4>1
      <4>2. CASE ~CanOpen(name[s])
        <5>1. PICK x \in opened : name[x] = p
          BY <3>3, <4>2 DEF CanOpen
        <5>2. x # s
          BY <3>1, <3>2, <5>1 DEF SettledInv
        <5>3. x \in sessions
          <6>1. name[x] # NoPort /\ x \in Session
            BY <1>1, <5>1 DEF SettledInv
          <6>2. x \in Nat /\ x >= 1 /\ ~(x > created)
            BY <1>1, <6>1 DEF NameInv
          <6> QED
            BY <1>1, <1>3, <6>2
        <5>4. x > s
          <6>1. s <= x /\ x \in Nat /\ s \in Nat
            BY <1>1, <2>1, <3>4, <3>7, <5>1, <5>3
          <6> QED
            BY <5>2, <6>1
        <5>5. name[x] = NoPort
          BY <1>1, <3>1, <3>2, <5>3, <5>4 DEF IssuedInv
        <5> QED
          BY <3>3, <5>1, <5>5, ConstantsOK
      <4> QED
        BY <4>1, <4>2
    <3> QED
      BY <3>6, <3>7
  <2> QED
    BY <2>2, <2>3
<1> QED
  BY <1>4, <1>5

-----------------------------------------------------------------------------
(* With one thread nothing reaches a device between its stop command and   *)
(* the closing of its port.                                                *)

\* While a blocking write runs the stop command is the last one with the driver, and
\* while its callback closes the port the driver has none.
LastInv ==
    /\ ser.pc = "write" =>
           /\ driver[ser.t.s] # <<>>
           /\ driver[ser.t.s][Len(driver[ser.t.s])] = ser.t.op
    /\ ser.pc = "close" =>
           driver[ser.t.s] = <<>> /\ (ser.t.ok => last[name[ser.t.s]] = Stop)

LEMMA InitLast == Init => LastInv
BY DEF Init, LastInv, SerIdle

\* What a device receives is the oldest pending command of an open session.
LEMMA LastStep ==
    ASSUME TypeInv, [Next]_vars
    PROVE  \/ last' = last
           \/ \E s \in Session : /\ s \in opened /\ driver[s] # <<>>
                                 /\ last' = [last EXCEPT ![name[s]] = ops[Head(driver[s])].cmd]
<1>1. CASE \/ \E r \in Request : WebLookup(r)
           \/ WebCheck \/ WebSend \/ WebWrite \/ WebCreate \/ PortsFound \/ InitName
           \/ InitOpen \/ StopWrite \/ StopClose \/ WriteDone \/ Tick \/ TickArm \/ Signal
           \/ SweepClose \/ SweepClear \/ Exit \/ ListRace \/ TimerExpire \/ UNCHANGED vars
  <2>1. last' = last
    BY <1>1 DEF WebLookup, WebCheck, WebSend, WebWrite, WebCreate, PortsFound, InitName,
                InitOpen, StopWrite, StopClose, WriteDone, Tick, TickArm, Signal, SweepClose,
                SweepClear, Exit, ListRace, TimerExpire, vars, serialVars
  <2> QED
    BY <2>1
<1>2. CASE \E s \in Session, ok \in BOOLEAN : DriverDone(s, ok)
  BY <1>2 DEF DriverDone
<1> QED
  BY <1>1, <1>2 DEF Next, Halted

\* A blocking write returns when the driver is done with its command.
LEMMA WriteReturns ==
    ASSUME TypeInv, [Next]_vars, ser.pc = "write", ser'.pc = "close"
    PROVE  \E s \in Session, ok \in BOOLEAN :
               /\ DriverDone(s, ok) /\ Head(driver[s]) = ser.t.op
               /\ ser' = [pc |-> "close", t |-> [ser.t EXCEPT !.ok = ok]]
<1>1. CASE InitName \/ StopWrite \/ WriteDone \/ Tick
  BY <1>1 DEF InitName, StopWrite, WriteDone, Tick, SerReady
<1>2. CASE InitOpen \/ TickArm \/ StopClose
  BY <1>2 DEF InitOpen, TickArm, StopClose
<1>3. CASE \/ \E r \in Request : WebLookup(r)
           \/ WebCheck \/ WebSend \/ WebWrite \/ WebCreate \/ PortsFound \/ Signal
           \/ SweepClose \/ SweepClear \/ Exit \/ ListRace \/ TimerExpire \/ UNCHANGED vars
  <2>1. ser' = ser
    BY <1>3 DEF WebLookup, WebCheck, WebSend, WebWrite, WebCreate, PortsFound, Signal,
                SweepClose, SweepClear, Exit, ListRace, TimerExpire, vars
  <2> QED
    BY <2>1
<1>4. CASE \E s \in Session, ok \in BOOLEAN : DriverDone(s, ok)
  <2>1. PICK s \in Session, ok \in BOOLEAN : DriverDone(s, ok)
    BY <1>4
  <2>2. \/ /\ Head(driver[s]) = ser.t.op
           /\ ser' = [pc |-> "close", t |-> [ser.t EXCEPT !.ok = ok]]
        \/ ser' = ser
    BY <2>1 DEF DriverDone
  <2> QED
    BY <2>1, <2>2
<1> QED
  BY <1>1, <1>2, <1>3, <1>4 DEF Next, Halted

\* The only pending command of a session, and the last of several.
LEMMA LastTaken ==
    ASSUME NEW q \in Seq(Nat), q # <<>>, Distinct(q)
    PROVE  /\ Head(q) = q[Len(q)] => Tail(q) = <<>>
           /\ Head(q) # q[Len(q)] =>
                  Tail(q) # <<>> /\ Tail(q)[Len(Tail(q))] = q[Len(q)]
<1> DEFINE n == Len(q)
           r == Tail(q)
<1>1. /\ r \in Seq(Nat) /\ Head(q) = q[1] /\ n \in Nat \ {0} /\ Len(r) = n - 1
      /\ \A i \in 1..(n - 1) : r[i] = q[i + 1]
  BY TailFacts
<1>2. 1 \in 1..n /\ n \in 1..n
  BY <1>1
<1>3. (r = <<>>) <=> (Len(r) = 0)
  <2>1. \A s \in Seq(Nat) : (s = <<>>) <=> (Len(s) = 0)
    OBVIOUS
  <2> HIDE DEF r
  <2> QED
    BY <1>1, <2>1
<1>4. CASE n = 1
  BY <1>1, <1>3, <1>4
<1>5. CASE n # 1
  <2>1. q[1] # q[n]
    BY <1>2, <1>5 DEF Distinct
  <2>2. n - 1 \in 1..(n - 1) /\ (n - 1) + 1 = n
    BY <1>1, <1>5
  <2>3. r[n - 1] = q[n] /\ Len(r) # 0
    BY <1>1, <2>2
  <2> QED
    BY <1>1, <1>3, <2>1, <2>3
<1> QED
  BY <1>4, <1>5

LEMMA StepLast ==
    /\ Threads = 1
    /\ TypeInv /\ StopInv /\ DataInv /\ NameInv /\ SettledInv /\ StopCommands /\ OwnerInv
    /\ Alone /\ LastInv /\ [Next]_vars
    => LastInv'
<1> SUFFICES ASSUME Threads = 1, TypeInv, StopInv, DataInv, NameInv, SettledInv, StopCommands,
                    OwnerInv, Alone, LastInv, [Next]_vars
             PROVE  LastInv'
  OBVIOUS
<1>1. /\ driver \in [Session -> Seq(Nat)] /\ last \in [Port -> Byte]
      /\ name \in [Session -> Port \cup {NoPort}] /\ opened \subseteq Session
      /\ \A s \in Session : Distinct(driver[s])
      /\ \A s \in opened : name[s] \in Port
  BY DEF TypeInv, TypeOK, DataInv, SettledInv
\* While a blocking write runs and until the port is closed, commands only leave the
\* driver.
<1>2. ASSUME ser.pc \in {"write", "close"}
      PROVE  /\ ser.t.s \in opened /\ ser.t.s \in Session
             /\ \/ driver' = driver
                \/ \E s \in Session, ok \in BOOLEAN :
                     /\ DriverDone(s, ok) /\ driver[s] # <<>>
                     /\ driver' = [driver EXCEPT ![s] = Tail(@)]
  <2>1. ser.t.s \in opened
    BY <1>2 DEF StopInv
  <2>2. ~WebWrite
    BY <1>2 DEF WebWrite, Alone
  <2>3. ~StopWrite
    BY <1>2 DEF StopWrite, SerReady
  <2> QED
    BY <1>1, <2>1, <2>2, <2>3, DriverStep
<1>3. ASSUME ser'.pc = "write"
      PROVE  driver'[ser'.t.s] # <<>> /\ driver'[ser'.t.s][Len(driver'[ser'.t.s])] = ser'.t.op
  <2>1. CASE StopWrite /\ ser'.t = Head1
    <3>1. /\ Head1.s \in Session /\ ser.pc = "idle"
          /\ driver' = [driver EXCEPT ![Head1.s] = Append(@, Head1.op)]
      <4>1. ser.pc = "idle" /\ strand \in Seq(Tasks) /\ strand # <<>> /\ Head1.k = "stop"
        BY <2>1 DEF StopWrite, SerReady, TypeInv, TypeOK
      <4>2. Head1 = strand[1] /\ 1 \in 1..Len(strand)
        BY <4>1, TailFacts DEF Head1
      <4>3. Head1.s \in Session
        BY <4>1, <4>2 DEF TypeInv, TaskTyped
      <4> QED
        BY <1>3, <2>1, <4>1, <4>3 DEF StopWrite
    <3>2. Head1.op \in Nat
      <4>1. strand \in Seq(Tasks) /\ strand # <<>>
        BY <2>1 DEF StopWrite, SerReady, TypeInv, TypeOK
      <4>2. Head1 \in Tasks
        BY <4>1, TailFacts DEF Head1
      <4> QED
        BY <4>2 DEF Tasks
    <3>3. PICK q \in Seq(Nat) : q = driver[Head1.s]
      BY <1>1, <3>1
    <3>4. driver'[Head1.s] = Append(q, Head1.op)
      BY <1>1, <3>1, <3>3
    <3>5. /\ Append(q, Head1.op) # <<>>
          /\ Append(q, Head1.op)[Len(Append(q, Head1.op))] = Head1.op
      <4>1. PICK e \in Nat : e = Head1.op
        BY <3>2
      <4>2. Append(q, e) # <<>> /\ Append(q, e)[Len(Append(q, e))] = e
        BY AppendFacts
      <4> QED
        BY <4>1, <4>2
    <3> QED
      BY <2>1, <3>4, <3>5
  <2>2. CASE ser' = ser
    <3>1. PICK s \in Session : s = ser.t.s /\ s \in opened
      BY <1>2, <1>3, <2>2
    <3>2. driver[s] # <<>> /\ driver[s][Len(driver[s])] = ser.t.op
      BY <1>3, <2>2, <3>1 DEF LastInv
    <3>3. driver'[s] = driver[s] \/ (driver'[s] = Tail(driver[s]) /\ Head(driver[s]) # ser.t.op)
      <4>1. ASSUME NEW x \in Session, NEW ok \in BOOLEAN, DriverDone(x, ok),
                   driver' = [driver EXCEPT ![x] = Tail(@)]
            PROVE  driver'[s] = driver[s]
                   \/ (driver'[s] = Tail(driver[s]) /\ Head(driver[s]) # ser.t.op)
        <5>1. CASE x # s
          BY <1>1, <4>1, <5>1
        <5>2. CASE x = s
          <6>1. driver'[s] = Tail(driver[s])
            BY <1>1, <4>1, <5>2
          <6>2. Head(driver[s]) = ser.t.op =>
                    ser' = [pc |-> "close", t |-> [ser.t EXCEPT !.ok = ok]]
            BY <1>3, <2>2, <4>1, <5>2 DEF DriverDone
          <6>3. [pc |-> "close", t |-> [ser.t EXCEPT !.ok = ok]].pc = "close"
            OBVIOUS
          <6> QED
            BY <1>3, <6>1, <6>2, <6>3
        <5> QED
          BY <5>1, <5>2
      <4> QED
        BY <1>2, <1>3, <2>2, <4>1
    <3>4. PICK q \in Seq(Nat) : q = driver[s] /\ Distinct(q)
      BY <1>1, <3>1
    <3>5. driver'[s] # <<>> /\ driver'[s][Len(driver'[s])] = ser.t.op
      BY <3>2, <3>3, <3>4, LastTaken
    <3> QED
      BY <2>2, <3>1, <3>5
  <2> QED
    BY <1>3, <2>1, <2>2, SerMoves
<1>4. ASSUME ser'.pc = "close"
      PROVE  driver'[ser'.t.s] = <<>> /\ (ser'.t.ok => last'[name'[ser'.t.s]] = Stop)
  <2>1. ser.pc \in {"write", "close"} /\ ser'.t.s = ser.t.s
    BY <1>4, SerMoves
  <2>2. PICK s \in opened : s = ser.t.s /\ s \in Session
    BY <1>2, <2>1
  <2>3. name'[s] = name[s] /\ name[s] \in Port
    <3>1. Settled(s)
      BY <2>1, <2>2 DEF SettledInv, Settled
    <3> QED
      BY <1>1, <2>2, <3>1, SettledStays
  <2>4. CASE ser.pc = "write"
    <3>1. PICK x \in Session, ok \in BOOLEAN :
              /\ DriverDone(x, ok) /\ Head(driver[x]) = ser.t.op
              /\ ser' = [pc |-> "close", t |-> [ser.t EXCEPT !.ok = ok]]
      BY <1>4, <2>4, WriteReturns
    <3>2. x = s
      <4>1. driver[x] \in Seq(Nat) /\ driver[x] # <<>>
        BY <1>1, <3>1 DEF DriverDone
      <4>2. Head(driver[x]) = driver[x][1] /\ 1 \in 1..Len(driver[x])
        BY <4>1, TailFacts
      <4>3. Mine(ops, ser.t.op, x)
        BY <3>1, <4>2 DEF TypeInv, DriverTyped
      <4>4. Mine(ops, ser.t.op, s)
        BY <2>2, <2>4 DEF TypeInv, SerTyped
      <4> QED
        BY <4>3, <4>4 DEF Mine
    <3>3. driver'[s] = Tail(driver[s]) /\ driver[s] # <<>>
      BY <1>1, <3>1, <3>2 DEF DriverDone
    <3>4. driver[s][Len(driver[s])] = ser.t.op
      BY <2>2, <2>4 DEF LastInv
    <3>5. PICK q \in Seq(Nat) : q = driver[s] /\ Distinct(q)
      BY <1>1, <2>2
    <3>6. driver'[s] = <<>>
      BY <3>1, <3>2, <3>3, <3>4, <3>5, LastTaken
    <3>7. ser'.t.ok = ok
      <4>1. ser.t \in Tasks
        BY DEF TypeInv, TypeOK, Sers
      <4> QED
        BY <3>1, <4>1 DEF Tasks
    <3>8. ok => last'[name[s]] = Stop
      <4>1. ops[ser.t.op].cmd = Stop
        BY <2>4 DEF StopCommands
      <4>2. ok => last' = [last EXCEPT ![name[s]] = ops[ser.t.op].cmd]
        BY <3>1, <3>2 DEF DriverDone
      <4> QED
        BY <1>1, <2>3, <4>1, <4>2
    <3> QED
      BY <2>1, <2>2, <2>3, <3>6, <3>7, <3>8
  <2>5. CASE ser.pc = "close"
    <3>1. ser' = ser
      BY <1>4, <2>5, SerMoves
    <3>2. driver[s] = <<>> /\ (ser.t.ok => last[name[s]] = Stop)
      BY <2>2, <2>5 DEF LastInv
    <3>3. driver'[s] = <<>>
      BY <1>1, <1>2, <2>1, <2>2, <3>2
    <3>4. last'[name[s]] = last[name[s]]
      <4>1. ASSUME NEW x \in Session, x \in opened, driver[x] # <<>>,
                   last' = [last EXCEPT ![name[x]] = ops[Head(driver[x])].cmd]
            PROVE  last'[name[s]] = last[name[s]]
        <5>1. x # s /\ Alive(x) /\ Alive(s)
          BY <2>2, <2>5, <3>2, <4>1, AliveParts
        <5>2. name[x] # name[s]
          BY <4>1, <5>1 DEF OwnerInv
        <5> QED
          BY <1>1, <2>3, <4>1, <5>2
      <4> QED
        BY <4>1, LastStep
    <3> QED
      BY <2>2, <2>3, <3>1, <3>2, <3>3, <3>4
  <2> QED
    BY <2>1, <2>4, <2>5
<1> QED
  BY <1>3, <1>4 DEF LastInv

-----------------------------------------------------------------------------
(* The invariant of one thread, beside those that hold for any number.     *)

\* Four of its parts need one thread, and one that a free port always opens.
SoloInv ==
    /\ IssuedInv /\ OwnerInv
    /\ Threads = 1 => Alone /\ Fronted /\ SweepInv /\ LastInv
    /\ ~OpenFaults => FoundInv

\* The inductive invariant of the three theorems.
HeldInv ==
    TypeInv /\ StopInv /\ DataInv /\ NameInv /\ SettledInv /\ StopCommands /\ SoloInv

LEMMA InitHeld == Init => HeldInv
<1> SUFFICES ASSUME Init PROVE HeldInv
  OBVIOUS
<1>1. OwnerInv
  BY DEF Init, OwnerInv
<1>2. SettledInv /\ StopCommands
  BY InitChannelInv DEF ChannelInv
<1> QED
  BY <1>1, <1>2, InitType, InitStop, InitData, InitNames, InitIssued, InitAlone, InitSweep,
     InitLast, InitFound
  DEF HeldInv, SoloInv

LEMMA StepHeld == HeldInv /\ [Next]_vars => HeldInv'
<1> SUFFICES ASSUME HeldInv, [Next]_vars PROVE HeldInv'
  OBVIOUS
<1>1. /\ TypeInv /\ StopInv /\ DataInv /\ NameInv /\ SettledInv /\ StopCommands
      /\ IssuedInv /\ OwnerInv
      /\ Threads = 1 => Alone /\ Fronted /\ SweepInv /\ LastInv
      /\ ~OpenFaults => FoundInv
  BY DEF HeldInv, SoloInv
<1>2. TypeInv' /\ StopInv' /\ DataInv' /\ NameInv' /\ SettledInv' /\ StopCommands'
  BY <1>1, StepType, StepStop, StepData, StepNames, StepSettled, StepCommands
<1>3. IssuedInv' /\ OwnerInv'
  BY <1>1, StepIssued, StepOwner
<1>4. Threads = 1 => Alone' /\ Fronted' /\ SweepInv' /\ LastInv'
  BY <1>1, StepAlone, StepFronted, StepSweep, StepLast
<1>5. ~OpenFaults => FoundInv'
  BY <1>1, <1>2, StepFound
<1> QED
  BY <1>2, <1>3, <1>4, <1>5 DEF HeldInv, SoloInv

LEMMA HeldInvariant == Spec => []HeldInv
<1> QED
  BY InitHeld, StepHeld, PTL DEF Spec

\* With one thread, a port that the sweep has passed is open only while its stop command is
\* on the way, and none is opened later (SerialPortControlServer.h:466-473): the sweep
\* misses no session that was created before it cleared the list.
THEOREM SweepComplete == Spec => [](Threads = 1 => NoneLeftBehind)
<1>1. HeldInv => (Threads = 1 => NoneLeftBehind)
  <2> SUFFICES ASSUME HeldInv, Threads = 1 PROVE NoneLeftBehind
    OBVIOUS
  <2>1. /\ sig.pc # "delay" => sessions = 1..created
        /\ sig.pc = "delay" => sessions = (sig.at + 1)..created
    BY DEF HeldInv, SoloInv, SweepInv
  <2>2. ASSUME NEW s \in opened, s \notin sessions PROVE s <= sig.at
    <3>1. s \in Session /\ s \in Nat /\ s >= 1 /\ created \in Nat /\ sig.at \in Nat
      <4>1. s \in Session /\ created \in Nat /\ sig.at \in Session \cup {0}
        BY DEF HeldInv, TypeInv, TypeOK, Sigs
      <4> QED
        BY <4>1, ConstantsOK DEF Session
    <3>2. ~(s > created)
      BY <3>1 DEF HeldInv, SettledInv, NameInv
    <3>3. s \in 1..created /\ s \notin (sig.at + 1)..created
      BY <2>1, <2>2, <3>1, <3>2
    <3> QED
      BY <3>1, <3>3
  <2> QED
    BY <2>2 DEF HeldInv, SoloInv, SweepInv, Swept, NoneLeftBehind
<1> QED
  BY <1>1, HeldInvariant, PTL

\* If a free port always opens, then until the shutdown the session that get() returns for
\* the name of an open port is the one that has the port, for any number of threads:
\* create() may make a second session for the name, and requests do not find that one.
THEOREM OpenPortsFound == Spec => [](~OpenFaults => OpenFound)
<1>1. HeldInv => (~OpenFaults => OpenFound)
  <2> SUFFICES ASSUME HeldInv, ~OpenFaults, sig.pc = "idle", NEW s \in opened
               PROVE  Get(name[s]) = s
    BY DEF OpenFound
  <2>1. /\ sessions = 1..created /\ sessions \subseteq Session
        /\ \A x \in sessions : Settled(x) => Get(name[x]) \in opened
    BY DEF HeldInv, SoloInv, FoundInv, TypeInv, TypeOK
  <2>2. Settled(s) /\ s \in Session /\ name[s] \in Port
    BY DEF HeldInv, SettledInv, Settled, TypeInv, TypeOK
  <2>3. s \in sessions
    <3>1. s \in Nat /\ s >= 1 /\ created \in Nat
      <4>1. created \in 0..MaxSession
        BY DEF HeldInv, TypeInv, TypeOK
      <4> QED
        BY <2>2, <4>1, ConstantsOK DEF Session
    <3>2. ~(s > created)
      BY <2>2 DEF HeldInv, NameInv, Settled
    <3> QED
      BY <2>1, <3>1, <3>2
  <2>4. Get(name[s]) \in sessions /\ name[Get(name[s])] = name[s]
    <3>1. PICK p \in Port : p = name[s]
      BY <2>2
    <3>2. Get(p) \in sessions /\ name[Get(p)] = p
      BY <2>1, <2>3, <3>1, GetFound, ConstantsOK DEF Session
    <3> QED
      BY <3>1, <3>2
  <2>5. PICK g \in opened : g = Get(name[s]) /\ g \in sessions /\ name[g] = name[s]
    BY <2>1, <2>2, <2>3, <2>4
  <2>6. Alive(g) /\ Alive(s)
    BY <2>3, <2>5, AliveParts
  <2> QED
    BY <2>5, <2>6 DEF HeldInv, SoloInv, OwnerInv
<1> QED
  BY <1>1, HeldInvariant, PTL

\* With one thread, when close() closes a port whose stop command was written, stop is
\* the last command its device received (SerialPortControlServer.h:262-265).
THEOREM StopsAreLast == Threads = 1 => (Spec => StopIsLast)
<1> SUFFICES ASSUME Threads = 1 PROVE Spec => StopIsLast
  OBVIOUS
<1>1. HeldInv /\ [Next]_vars =>
          [\A s \in opened \ opened' : ser.t.ok => last[name[s]] = Stop]_vars
  <2> SUFFICES ASSUME HeldInv, [Next]_vars, NEW s \in opened \ opened', ser.t.ok
               PROVE  last[name[s]] = Stop
    OBVIOUS
  <2>1. ser.pc = "close" /\ s = ser.t.s
    BY OpenedShrinks DEF HeldInv
  <2> QED
    BY <2>1 DEF HeldInv, SoloInv, LastInv
<1> QED
  BY <1>1, HeldInvariant, PTL DEF Spec, StopIsLast
=============================================================================
