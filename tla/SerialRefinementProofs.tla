------------------------ MODULE SerialRefinementProofs ------------------------
(***************************************************************************)
(* SerialControl implements CommandChannel, for any ports, requests,       *)
(* threads, faults and bounds: initial states map to initial states, and   *)
(* every step maps to a step of the channel or to a stutter.               *)
(***************************************************************************)
EXTENDS SerialRefinement, SerialControlProofs

-----------------------------------------------------------------------------
(* Commands whose write has ended.                                         *)

\* Those with a completion handler in the queue q, and the one that the handler which
\* wrote a stop command has not released yet.
Completed(q, s) == {q[i].op : i \in {j \in DOMAIN q : q[j].k = "done" /\ q[j].s = s}}
InClose(s) == IF ser.pc = "close" /\ ser.t.s = s THEN {ser.t.op} ELSE {}

LEMMA EndedParts ==
    \A s : /\ Ended(s) = Completed(strand, s) \cup InClose(s)
           /\ Ended(s)' = Completed(strand', s) \cup InClose(s)'
BY DEF Ended, Completed, InClose

LEMMA CompletedIndex ==
    ASSUME NEW q \in Seq(Tasks), NEW s, NEW o
    PROVE  o \in Completed(q, s) <=>
               \E i \in 1..Len(q) : q[i].k = "done" /\ q[i].s = s /\ q[i].op = o
BY DEF Completed

LEMMA CompletedJoin ==
    ASSUME NEW q \in Seq(Tasks), NEW t \in Tasks, NEW r, Joins(q, t, r)
    PROVE  \A s : Completed(r, s) =
                   Completed(q, s) \cup (IF t.k = "done" /\ t.s = s THEN {t.op} ELSE {})
<1>0. PICK n, d \in Nat : Placed(q, t, r, n, d)
  BY JoinFacts, Zenon
<1>1. /\ r \in Seq(Tasks) /\ Len(q) \in Nat /\ Len(r) = Len(q) + 1
      /\ n \in 1..Len(r) /\ r[n] = t /\ (r = Append(q, t) => n = Len(r))
      /\ \A i \in 1..Len(r) : i # n => i - d \in 1..Len(q) /\ r[i] = q[i - d]
      /\ \A i \in 1..Len(q) : /\ i + d \in 1..Len(r) /\ i + d # n
                            /\ r[i + d] = q[i] /\ q[i] \in Tasks
  BY <1>0 DEF Placed
<1>2. r \in Seq(Tasks)
  BY <1>1
<1>3. ASSUME NEW s, NEW o \in Completed(r, s)
      PROVE  o \in Completed(q, s) \/ (t.k = "done" /\ t.s = s /\ o = t.op)
  <2>1. PICK i \in 1..Len(r) : r[i].k = "done" /\ r[i].s = s /\ r[i].op = o
    BY <1>3, <1>2, CompletedIndex
  <2>2. CASE i = n
    BY <1>1, <2>1, <2>2
  <2>3. CASE i # n
    <3>1. PICK j \in 1..Len(q) : r[i] = q[j]
      BY <1>1, <2>3
    <3>2. q[j].k = "done" /\ q[j].s = s /\ q[j].op = o
      BY <2>1, <3>1
    <3> QED
      BY <3>2, CompletedIndex
  <2> QED
    BY <2>2, <2>3
<1>4. ASSUME NEW s, NEW o \in Completed(q, s) PROVE o \in Completed(r, s)
  <2>1. PICK i \in 1..Len(q) : q[i].k = "done" /\ q[i].s = s /\ q[i].op = o
    BY <1>4, CompletedIndex
  <2>2. PICK j \in 1..Len(r) : r[j] = q[i]
    BY <1>1
  <2> QED
    BY <1>2, <2>1, <2>2, CompletedIndex
<1>5. \A s : t.k = "done" /\ t.s = s => t.op \in Completed(r, s)
  BY <1>1, <1>2, CompletedIndex
<1> QED
  BY <1>3, <1>4, <1>5

LEMMA CompletedTail ==
    ASSUME NEW q \in Seq(Tasks), q # <<>>, DistinctTasks(q)
    PROVE  /\ \A s : Completed(Tail(q), s) = Completed(q, s) \
                     (IF Head(q).k = "done" /\ Head(q).s = s THEN {Head(q).op} ELSE {})
           /\ Head(q).k = "done" => Head(q).op \in Completed(q, Head(q).s)
<1> DEFINE r == Tail(q)
           h == Head(q)
<1>1. /\ r \in Seq(Tasks) /\ h = q[1] /\ Len(q) \in Nat \ {0} /\ Len(r) = Len(q) - 1
      /\ \A i \in 1..(Len(q) - 1) : r[i] = q[i + 1]
  BY TailFacts
<1> HIDE DEF r, h
<1>2. \A i \in 1..Len(r) : i + 1 \in 1..Len(q) /\ i + 1 # 1 /\ r[i] = q[i + 1]
  BY <1>1
<1>3. 1 \in 1..Len(q) /\ \A i \in 1..Len(q) : i # 1 => i - 1 \in 1..Len(r) /\ r[i - 1] = q[i]
  <2>1. ASSUME NEW i \in 1..Len(q), i # 1 PROVE i - 1 \in 1..Len(r) /\ r[i - 1] = q[i]
    <3>1. i - 1 \in 1..(Len(q) - 1) /\ (i - 1) + 1 = i
      BY <1>1, <2>1
    <3> QED
      BY <1>1, <3>1
  <2> QED
    BY <1>1, <2>1
<1>4. ASSUME NEW s, NEW o \in Completed(r, s)
      PROVE  o \in Completed(q, s) /\ ~(h.k = "done" /\ h.s = s /\ o = h.op)
  <2>1. PICK i \in 1..Len(r) : r[i].k = "done" /\ r[i].s = s /\ r[i].op = o
    BY <1>1, CompletedIndex
  <2>2. i + 1 \in 1..Len(q) /\ i + 1 # 1 /\ r[i] = q[i + 1]
    BY <1>2
  <2>3. o \in Completed(q, s)
    BY <2>1, <2>2, CompletedIndex
  <2>4. ~(h.k = "done" /\ h.s = s /\ o = h.op)
    BY <1>1, <1>3, <2>1, <2>2 DEF DistinctTasks, Carries
  <2> QED
    BY <2>3, <2>4
<1>5. ASSUME NEW s, NEW o \in Completed(q, s), ~(h.k = "done" /\ h.s = s /\ o = h.op)
      PROVE  o \in Completed(r, s)
  <2>1. PICK i \in 1..Len(q) : q[i].k = "done" /\ q[i].s = s /\ q[i].op = o
    BY CompletedIndex
  <2>2. i - 1 \in 1..Len(r) /\ r[i - 1] = q[i]
    BY <1>1, <1>3, <1>5, <2>1
  <2> QED
    BY <1>1, <2>1, <2>2, CompletedIndex
<1>6. h.k = "done" => h.op \in Completed(q, h.s)
  BY <1>1, <1>3, CompletedIndex
<1>7. \A s : Completed(r, s) = Completed(q, s) \
                 (IF h.k = "done" /\ h.s = s THEN {h.op} ELSE {})
  BY <1>4, <1>5
<1> QED
  BY <1>6, <1>7 DEF r, h

\* A command whose write has ended still has its copy of the data, but is no longer with
\* the driver; so the others with a copy are those whose write has not ended.
LEMMA EndedHeld ==
    ASSUME TypeInv, DataInv, NEW s \in Session
    PROVE  /\ Ended(s) \subseteq sendingData[s]
           /\ Ended(s) \cap InDriver(s) = {}
           /\ Completed(strand, s) \cap InClose(s) = {}
           /\ InDriver(s) \subseteq sendingData[s]
           /\ Len(ops) + 1 \notin sendingData[s]
<1>1. strand \in Seq(Tasks)
  BY DEF TypeInv, TypeOK
<1>2. Completed(strand, s) \subseteq InStrand(s)
  BY <1>1, CompletedIndex, CarriedIndex DEF InStrand, Carries
<1>3. InClose(s) \subseteq InHandler(s)
  BY DEF InClose, InHandler
<1>4. sendingData[s] = Outstanding(s)
  BY DEF DataInv, SendingDataExact
<1>5. /\ InStrand(s) \cap InDriver(s) = {}
      /\ InHandler(s) \cap (InStrand(s) \cup InDriver(s)) = {}
  BY DEF DataInv, PlacesApart
<1>6. Len(ops) + 1 \notin sendingData[s]
  BY <1>4, NewNumber
<1> QED
  BY <1>2, <1>3, <1>4, <1>5, <1>6, EndedParts DEF Outstanding

\* What a change of the queue does to the commands that have ended.
LEMMA EndedStays ==
    ASSUME TypeInv, DataInv,
           \/ strand' = strand
           \/ strand # <<>> /\ Head1.k # "done" /\ strand' = Tail(strand)
           \/ \E t \in Tasks : t.k # "done" /\ Joins(strand, t, strand'),
           ser' = ser \/ "close" \notin {ser.pc, ser'.pc}
    PROVE  \A s : Ended(s)' = Ended(s)
<1>1. strand \in Seq(Tasks) /\ DistinctTasks(strand)
  BY DEF TypeInv, TypeOK, DataInv
<1>2. \A s : Completed(strand', s) = Completed(strand, s)
  <2>1. CASE strand' = strand
    BY <2>1
  <2>2. CASE strand # <<>> /\ Head1.k # "done" /\ strand' = Tail(strand)
    <3>1. \A s : Completed(Tail(strand), s) = Completed(strand, s) \
                    (IF Head(strand).k = "done" /\ Head(strand).s = s
                     THEN {Head(strand).op} ELSE {})
      BY <1>1, <2>2, CompletedTail, Zenon
    <3>2. \A s : Completed(Tail(strand), s) = Completed(strand, s) \ {}
      BY <2>2, <3>1 DEF Head1
    <3> QED
      BY <2>2, <3>2
  <2>3. ASSUME NEW t \in Tasks, t.k # "done", Joins(strand, t, strand')
        PROVE  \A s : Completed(strand', s) = Completed(strand, s)
    <3>1. \A s : Completed(strand', s) = Completed(strand, s) \cup
                    (IF t.k = "done" /\ t.s = s THEN {t.op} ELSE {})
      BY <1>1, <2>3, CompletedJoin
    <3>2. \A s : Completed(strand', s) = Completed(strand, s) \cup {}
      BY <2>3, <3>1
    <3> QED
      BY <3>2
  <2> QED
    BY <2>1, <2>2, <2>3
<1>3. \A s : InClose(s)' = InClose(s)
  BY DEF InClose
<1> QED
  BY <1>2, <1>3, EndedParts

-----------------------------------------------------------------------------
(* The mapping, step by step.                                              *)

LEMMA InitMaps == Init => Channel!Init
<1> SUFFICES ASSUME Init PROVE Channel!Init
  OBVIOUS
<1>1. /\ name = [s \in Session |-> NoPort] /\ ops = <<>> /\ DOMAIN strand = {}
      /\ ser.pc = "idle" /\ sendingData = [s \in Session |-> {}]
      /\ last = [p \in Port |-> Stop] /\ phase = "up"
  BY DEF Init, SerIdle
<1>2. \A s \in Session : Ended(s) = {}
  BY <1>1 DEF Ended
<1>3. StateOf = [s \in Session |-> "new"]
  BY <1>1 DEF StateOf, Unsettled
<1> QED
  BY <1>1, <1>2, <1>3 DEF Channel!Init

\* A session stays as settled, and as open, as it was.
LEMMA StateStays ==
    ASSUME UNCHANGED <<name, opened>>, ser' = ser \/ "open" \notin {ser.pc, ser'.pc}
    PROVE  StateOf' = StateOf
BY DEF StateOf, Unsettled

\* The steps that move commands from one queue to the other, or none.
LEMMA StutterMaps ==
    ASSUME UNCHANGED <<name, opened, sendingData, ops, last, phase>>,
           ser' = ser \/ "open" \notin {ser.pc, ser'.pc},
           \A s : Ended(s)' = Ended(s)
    PROVE  UNCHANGED Channel!vars
<1>1. StateOf' = StateOf
  BY StateStays
<1>2. [s \in Session |-> sendingData[s] \ Ended(s)]' = [s \in Session |-> sendingData[s] \ Ended(s)]
  OBVIOUS
<1>3. [s \in Session |-> Ended(s)]' = [s \in Session |-> Ended(s)]
  OBVIOUS
<1> QED
  BY <1>1, <1>2, <1>3 DEF Channel!vars

\* The steps that end the process.
LEMMA DownMaps ==
    ASSUME UNCHANGED <<name, opened, sendingData, ops, last>>,
           ser' = ser \/ "open" \notin {ser.pc, ser'.pc},
           \A s : Ended(s)' = Ended(s),
           phase = "up", phase' # "up"
    PROVE  Channel!Next
<1>1. StateOf' = StateOf
  BY StateStays
<1>2. Channel!Down
  BY <1>1 DEF Channel!Down
<1> QED
  BY <1>2 DEF Channel!Next

\* An open session is open in the channel too, and no other is.
LEMMA OpenMapped ==
    ASSUME ChannelInv, NEW s \in Session
    PROVE  (StateOf[s] = "open") <=> (s \in opened)
BY DEF ChannelInv, SettledInv, StateOf, Unsettled

LEMMA AcceptMaps ==
    ASSUME TypeInv, DataInv, ChannelInv, phase = "up",
           NEW s \in opened, NEW b \in {Stop} \cup {r.cmd : r \in Request},
           ops' = Append(ops, [s |-> s, cmd |-> b]),
           sendingData' = [sendingData EXCEPT ![s] = @ \cup {Len(ops) + 1}],
           UNCHANGED <<name, opened, last, phase, ser>>,
           \A x : Ended(x)' = Ended(x)
    PROVE  Channel!Next
<1> DEFINE waits == [x \in Session |-> sendingData[x] \ Ended(x)]
<1>1. s \in Session /\ sendingData \in [Session -> SUBSET Nat]
  BY DEF TypeInv, TypeOK
<1>2. StateOf' = StateOf /\ StateOf[s] = "open"
  BY <1>1, StateStays, OpenMapped
<1>3. Len(ops) + 1 \notin Ended(s)
  BY <1>1, EndedHeld
<1>4. \A x \in Session : sendingData'[x] =
          IF x = s THEN sendingData[x] \cup {Len(ops) + 1} ELSE sendingData[x]
  BY <1>1
<1>5. waits' = [waits EXCEPT ![s] = @ \cup {Len(ops) + 1}]
  BY <1>1, <1>3, <1>4
<1>6. Channel!Accept(s, b)
  BY <1>2, <1>5 DEF Channel!Accept
<1> QED
  BY <1>1, <1>6 DEF Channel!Next

\* init gives a session its port.
LEMMA InitNameMaps ==
    ASSUME TypeInv, DataInv, NameInv, ChannelInv, InitName
    PROVE  Channel!Next
<1> DEFINE h == Head1
<1>1. /\ strand \in Seq(Tasks) /\ strand # <<>> /\ h.k = "init" /\ ser.pc = "idle"
      /\ phase = "up" /\ strand' = Tail(strand) /\ ser' = [pc |-> "open", t |-> h]
      /\ UNCHANGED <<opened, sendingData, ops, last, phase>>
  BY DEF InitName, SerReady, TypeInv, TypeOK
<1>2. h.s \in Session /\ name[h.s] = NoPort /\ name' = [name EXCEPT ![h.s] = h.p]
  BY HeadInit, ConstantsOK DEF Session
<1>3. h.p \in Port
  <2>1. h = strand[1] /\ 1 \in 1..Len(strand)
    BY <1>1, TailFacts DEF Head1
  <2> QED
    BY <1>1, <2>1 DEF ChannelInv, SettledInv
<1>4. \A s : Ended(s)' = Ended(s)
  BY <1>1, EndedStays
<1> HIDE DEF h
<1>5. StateOf[h.s] = "new"
  BY <1>2 DEF StateOf, Unsettled
<1>6. StateOf' = StateOf
  <2>1. \A s \in Session : Unsettled(s)' <=> Unsettled(s)
    BY <1>1, <1>2 DEF Unsettled, TypeInv, TypeOK
  <2> QED
    BY <1>1, <2>1 DEF StateOf
<1>7. Channel!Assign(h.s, h.p)
  BY <1>1, <1>2, <1>4, <1>5, <1>6 DEF Channel!Assign
<1> QED
  BY <1>2, <1>3, <1>7 DEF Channel!Next

\* Its port opens, or does not.
LEMMA InitOpenMaps ==
    ASSUME TypeInv, DataInv, ChannelInv, InitOpen
    PROVE  Channel!Next
<1> DEFINE s == ser.t.s
<1>1. /\ ser.pc = "open" /\ ser'.pc = "idle" /\ phase = "up" /\ s \in Session
      /\ opened' = opened \/ opened' = opened \cup {s}
      /\ UNCHANGED <<name, strand, sendingData, ops, last, phase>>
  BY TasksMade DEF InitOpen, TypeInv, SerTyped
<1>2. name[s] # NoPort
  BY <1>1, ConstantsOK DEF ChannelInv, SettledInv
<1>3. \A x : Ended(x)' = Ended(x)
  BY <1>1, EndedStays
<1>4. StateOf[s] = "new"
  BY <1>1 DEF StateOf, Unsettled
<1> HIDE DEF s
<1>5. \A x \in Session : x # s => StateOf'[x] = StateOf[x]
  BY <1>1 DEF StateOf, Unsettled, s
<1>6. StateOf'[s] \in {"open", "closed"}
  BY <1>1, <1>2 DEF StateOf, Unsettled
<1>7. \E outcome \in {"open", "closed"} : StateOf' = [StateOf EXCEPT ![s] = outcome]
  BY <1>1, <1>5, <1>6 DEF StateOf
<1>8. Channel!Settle(s)
  BY <1>1, <1>2, <1>3, <1>4, <1>7 DEF Channel!Settle
<1> QED
  BY <1>1, <1>8 DEF Channel!Next

\* A write ends.
LEMMA DriverDoneMaps ==
    ASSUME TypeInv, DataInv, ChannelInv,
           NEW s \in Session, NEW ok \in BOOLEAN, DriverDone(s, ok)
    PROVE  Channel!Next
<1> DEFINE n == Head(driver[s])
           waits == [x \in Session |-> sendingData[x] \ Ended(x)]
           ends == [x \in Session |-> Ended(x)]
<1>1. /\ driver[s] \in Seq(Nat) /\ driver[s] # <<>> /\ strand \in Seq(Tasks)
      /\ Distinct(driver[s]) /\ phase = "up" /\ (ok => s \in opened)
      /\ last' = IF ok THEN [last EXCEPT ![name[s]] = ops[n].cmd] ELSE last
      /\ UNCHANGED <<name, opened, sendingData, ops, phase>>
  BY DEF DriverDone, TypeInv, TypeOK, DataInv
<1>2. n \in InDriver(s) /\ n \in Nat
  BY <1>1, EntriesTail DEF InDriver
<1>3. n \in sendingData[s] /\ n \notin Ended(s)
  BY <1>2, EndedHeld
<1>4. n \in Outstanding(s) /\ n \in 1..Len(ops)
  <2>1. n \in Outstanding(s)
    BY <1>2 DEF Outstanding
  <2> QED
    BY <2>1, OutstandingMine DEF Mine
<1> HIDE DEF n
<1>5. \A x \in Session : Ended(x)' = Ended(x) \cup (IF x = s THEN {n} ELSE {})
  <2>1. CASE ser.pc = "write" /\ ser.t.op = n
    <3>1. /\ ser' = [pc |-> "close", t |-> [ser.t EXCEPT !.ok = ok]] /\ strand' = strand
      BY <2>1 DEF DriverDone, n
    <3>2. ser.t.s \in Session /\ n \in Outstanding(ser.t.s)
      BY <2>1 DEF TypeInv, SerTyped, DataInv, Waiting, Outstanding
    <3>3. ser.t.s = s
      BY <1>4, <3>2, OneOwner
    <3>4. ser'.pc = "close" /\ ser'.t.s = s /\ ser'.t.op = n
      BY <2>1, <3>1, <3>3 DEF TypeInv, TypeOK, Sers, Tasks
    <3>5. \A x \in Session : InClose(x)' = InClose(x) \cup (IF x = s THEN {n} ELSE {})
      BY <2>1, <3>4 DEF InClose
    <3> QED
      BY <3>1, <3>5, EndedParts
  <2>2. CASE ~(ser.pc = "write" /\ ser.t.op = n)
    <3>1. ser' = ser /\ strand' = Append(strand, DoneTask(s, n, ok))
      BY <2>2 DEF DriverDone, n
    <3>2. PICK t \in Tasks : t.k = "done" /\ t.s = s /\ t.op = n /\ Joins(strand, t, strand')
      BY <1>2, <3>1, TasksMade DEF DoneTask, Joins
    <3>3. \A x : Completed(strand', x) = Completed(strand, x) \cup
                    (IF t.k = "done" /\ t.s = x THEN {t.op} ELSE {})
      BY <1>1, <3>2, CompletedJoin
    <3>4. \A x \in Session : InClose(x)' = InClose(x)
      BY <3>1 DEF InClose
    <3> QED
      BY <3>2, <3>3, <3>4, EndedParts
  <2> QED
    BY <2>1, <2>2
<1>6. waits' = [waits EXCEPT ![s] = @ \ {n}] /\ n \in waits[s]
  BY <1>1, <1>3, <1>5
<1>7. ends' = [ends EXCEPT ![s] = @ \cup {n}]
  BY <1>5
<1>8. StateOf' = StateOf
  <2>1. ser' = ser \/ "open" \notin {ser.pc, ser'.pc}
    BY DEF DriverDone
  <2> QED
    BY <1>1, <2>1, StateStays
<1>9. \/ StateOf[s] = "open" /\ last' = [last EXCEPT ![name[s]] = ops[n].cmd]
      \/ last' = last
  BY <1>1, OpenMapped
<1>10. PICK m \in 1..Len(ops) : m = n
  BY <1>4
<1>11. Channel!Finish(s, m)
  BY <1>1, <1>6, <1>7, <1>8, <1>9, <1>10 DEF Channel!Finish
<1> QED
  BY <1>11 DEF Channel!Next

\* The data of a command is released by the completion handler of its write.
LEMMA WriteDoneMaps ==
    ASSUME TypeInv, DataInv, ChannelInv, WriteDone
    PROVE  Channel!Next
<1> DEFINE s == Head1.s
           n == Head1.op
           waits == [x \in Session |-> sendingData[x] \ Ended(x)]
           ends == [x \in Session |-> Ended(x)]
<1>1. /\ strand \in Seq(Tasks) /\ strand # <<>> /\ strand' = Tail(strand)
      /\ DistinctTasks(strand) /\ Head1.k = "done" /\ ser.pc = "idle" /\ phase = "up"
      /\ sendingData' = [sendingData EXCEPT ![s] = @ \ {n}]
      /\ sendingData \in [Session -> SUBSET Nat]
      /\ UNCHANGED <<name, opened, ops, ser, last, phase>>
  BY DEF WriteDone, SerReady, TypeInv, TypeOK, DataInv
<1>2. s \in Session /\ n \in 1..Len(ops)
  <2>1. Head1 = strand[1] /\ 1 \in 1..Len(strand)
    BY <1>1, TailFacts DEF Head1
  <2> QED
    BY <1>1, <2>1 DEF TypeInv, TaskTyped, Mine
<1>3. /\ \A x : Completed(strand', x) = Completed(strand, x) \
                    (IF Head1.k = "done" /\ Head1.s = x THEN {Head1.op} ELSE {})
      /\ n \in Completed(strand, s)
  BY <1>1, CompletedTail, Zenon DEF Head1
<1>4. \A x : InClose(x) = {} /\ InClose(x)' = {}
  BY <1>1 DEF InClose
<1> HIDE DEF s, n
<1>5. /\ n \in Ended(s)
      /\ \A x \in Session : Ended(x)' = Ended(x) \ (IF x = s THEN {n} ELSE {})
  BY <1>1, <1>3, <1>4, EndedParts DEF s, n
<1>6. \A x \in Session : sendingData'[x] = sendingData[x] \ (IF x = s THEN {n} ELSE {})
  BY <1>1, <1>2
<1>7. waits' = waits
  BY <1>5, <1>6
<1>8. ends' = [ends EXCEPT ![s] = @ \ {n}] /\ n \in ends[s]
  BY <1>2, <1>5
<1>9. StateOf' = StateOf
  BY <1>1, StateStays
<1>10. Channel!Release(s, n)
  BY <1>1, <1>7, <1>8, <1>9 DEF Channel!Release
<1> QED
  BY <1>2, <1>10 DEF Channel!Next

\* The data of a stop command is released by close(), which closes the port.
LEMMA StopCloseMaps ==
    ASSUME TypeInv, StopInv, DataInv, ChannelInv, StopClose
    PROVE  Channel!Next
<1> DEFINE s == ser.t.s
           n == ser.t.op
           waits == [x \in Session |-> sendingData[x] \ Ended(x)]
           ends == [x \in Session |-> Ended(x)]
<1>1. /\ ser.pc = "close" /\ ser'.pc = "idle" /\ phase = "up" /\ strand' = strand
      /\ sendingData' = [sendingData EXCEPT ![s] = @ \ {n}]
      /\ sendingData \in [Session -> SUBSET Nat] /\ opened' = opened \ {s}
      /\ UNCHANGED <<name, ops, last, phase>>
  BY TasksMade DEF StopClose, TypeInv, TypeOK
<1>2. /\ s \in Session /\ n \in 1..Len(ops) /\ ops[n].cmd = Stop /\ s \in opened
  BY <1>1 DEF TypeInv, SerTyped, Mine, StopInv, ChannelInv, StopCommands
<1>3. n \notin Completed(strand, s)
  BY <1>1, <1>2, EndedHeld DEF InClose
<1> HIDE DEF s, n
<1>4. \A x : InClose(x) = (IF x = s THEN {n} ELSE {}) /\ InClose(x)' = {}
  BY <1>1 DEF InClose, s, n
<1>5. /\ n \in Ended(s)
      /\ \A x \in Session : Ended(x)' = Ended(x) \ (IF x = s THEN {n} ELSE {})
  BY <1>1, <1>3, <1>4, EndedParts
<1>6. \A x \in Session : sendingData'[x] = sendingData[x] \ (IF x = s THEN {n} ELSE {})
  BY <1>1, <1>2
<1>7. waits' = waits
  BY <1>5, <1>6
<1>8. ends' = [ends EXCEPT ![s] = @ \ {n}] /\ n \in ends[s]
  BY <1>2, <1>5
<1>9. StateOf[s] = "open"
  BY <1>2, OpenMapped
<1>10. StateOf' = [StateOf EXCEPT ![s] = "closed"]
  <2>1. \A x \in Session : StateOf'[x] = IF x = s THEN "closed" ELSE StateOf[x]
    BY <1>1, <1>2 DEF StateOf, Unsettled, ChannelInv, SettledInv
  <2> QED
    BY <1>2, <2>1 DEF StateOf
<1>11. Channel!Close(s, n)
  BY <1>1, <1>2, <1>7, <1>8, <1>9, <1>10 DEF Channel!Close
<1> QED
  BY <1>2, <1>11 DEF Channel!Next

\* sendAsync accepts a command for an open port only.
LEMMA WebSendMaps ==
    ASSUME TypeInv, DataInv, ChannelInv, WebSend
    PROVE  Channel!Next \/ UNCHANGED Channel!vars
<1>1. /\ phase = "up" /\ web.s \in Session /\ web.req \in Request
      /\ UNCHANGED <<name, opened, last, phase, strand, ser>>
  BY DEF WebSend, TypeInv, WebTyped
<1>2. \A x : Ended(x)' = Ended(x)
  BY <1>1, EndedStays
<1>3. CASE web.s \in opened
  <2>1. PICK s \in opened, b \in {Stop} \cup {r.cmd : r \in Request} :
            s = web.s /\ b = web.req.cmd
    BY <1>1, <1>3
  <2>2. /\ ops' = Append(ops, [s |-> s, cmd |-> b])
        /\ sendingData' = [sendingData EXCEPT ![s] = @ \cup {Len(ops) + 1}]
    BY <1>3, <2>1 DEF WebSend
  <2> QED
    BY <1>1, <1>2, <2>2, AcceptMaps
<1>4. CASE web.s \notin opened
  <2>1. UNCHANGED <<ops, sendingData>>
    BY <1>4 DEF WebSend
  <2> QED
    BY <1>1, <1>2, <2>1, StutterMaps
<1> QED
  BY <1>3, <1>4

\* So does the sweep, for the stop command.
LEMMA SweepCloseMaps ==
    ASSUME TypeInv, DataInv, ChannelInv, SweepClose
    PROVE  Channel!Next \/ UNCHANGED Channel!vars
<1>1. phase = "up" /\ UNCHANGED <<name, opened, last, phase, ser>>
  BY DEF SweepClose
<1>2. PICK s \in Session :
          \/ /\ s \in opened
             /\ ops' = Append(ops, [s |-> s, cmd |-> Stop])
             /\ sendingData' = [sendingData EXCEPT ![s] = @ \cup {Len(ops) + 1}]
             /\ \E t \in Tasks : t.k = "stop" /\ Joins(strand, t, strand')
          \/ s \notin opened /\ UNCHANGED <<ops, sendingData, strand>>
  BY SweepCases
<1>3. \/ strand' = strand
      \/ \E t \in Tasks : t.k # "done" /\ Joins(strand, t, strand')
  BY <1>2
<1>4. \A x : Ended(x)' = Ended(x)
  BY <1>1, <1>3, EndedStays
<1>5. CASE s \in opened
  BY <1>1, <1>2, <1>4, <1>5, AcceptMaps
<1>6. CASE s \notin opened
  BY <1>1, <1>2, <1>4, <1>6, StutterMaps
<1> QED
  BY <1>5, <1>6

\* The timer's handler: a step that crashes ends the process, any other is invisible.
LEMMA TickMaps ==
    ASSUME TypeInv, DataInv, Tick \/ TickArm
    PROVE  Channel!Next \/ UNCHANGED Channel!vars
<1>1. /\ phase = "up" /\ UNCHANGED <<name, opened, sendingData, ops, last>>
      /\ {"open", "close"} \cap {ser.pc, ser'.pc} = {}
  BY TasksMade DEF Tick, TickArm, SerReady, serialVars
<1>2. \/ strand' = strand
      \/ strand # <<>> /\ Head1.k # "done" /\ strand' = Tail(strand)
  BY DEF Tick, TickArm, SerReady
<1>3. \A x : Ended(x)' = Ended(x)
  BY <1>1, <1>2, EndedStays
<1>4. CASE phase' = phase
  BY <1>1, <1>3, <1>4, StutterMaps
<1>5. CASE phase' # phase
  BY <1>1, <1>3, <1>5, DownMaps
<1> QED
  BY <1>4, <1>5

\* The steps that the channel does not see.
LEMMA QuietMaps ==
    ASSUME TypeInv, DataInv,
           \/ \E r \in Request : WebLookup(r)
           \/ WebCheck \/ WebWrite \/ WebCreate \/ PortsFound \/ StopWrite
           \/ Signal \/ SweepClear \/ TimerExpire \/ UNCHANGED vars
    PROVE  UNCHANGED Channel!vars
<1>1. CASE \/ \E r \in Request : WebLookup(r)
           \/ WebCheck \/ WebWrite \/ PortsFound \/ SweepClear \/ UNCHANGED vars
  <2>1. UNCHANGED <<name, opened, sendingData, ops, last, phase, strand, ser>>
    BY <1>1 DEF WebLookup, WebCheck, WebWrite, PortsFound, SweepClear, vars, serialVars
  <2>2. \A x : Ended(x)' = Ended(x)
    BY <2>1, EndedStays
  <2> QED
    BY <2>1, <2>2, StutterMaps
<1>2. CASE WebCreate
  <2>1. \/ strand' = strand
        \/ \E t \in Tasks : t.k # "done" /\ Joins(strand, t, strand')
    <3>1. CASE checkNameValid(web.req.com)
      <4>1. created \in 0..MaxSession /\ created < MaxSession /\ web.req \in Request
        BY <1>2 DEF WebCreate, TypeInv, TypeOK, WebTyped
      <4>2. created + 1 \in Session /\ web.req.com \in Port
        BY <4>1, ConstantsOK DEF Session, Requests
      <4>3. InitTask(created + 1, web.req.com) \in Tasks
            /\ InitTask(created + 1, web.req.com).k # "done"
        BY <4>2, TasksMade DEF InitTask
      <4> QED
        BY <1>2, <3>1, <4>3 DEF WebCreate, Dispatch, Joins
    <3>2. CASE ~checkNameValid(web.req.com)
      BY <1>2, <3>2 DEF WebCreate
    <3> QED
      BY <3>1, <3>2
  <2>2. UNCHANGED <<name, opened, sendingData, ops, last, phase, ser>>
    BY <1>2 DEF WebCreate, serialVars
  <2>3. \A x : Ended(x)' = Ended(x)
    BY <2>1, <2>2, EndedStays
  <2> QED
    BY <2>2, <2>3, StutterMaps
<1>3. CASE StopWrite
  <2>1. /\ UNCHANGED <<name, opened, sendingData, ops, last, phase>>
        /\ strand # <<>> /\ Head1.k # "done" /\ strand' = Tail(strand)
        /\ ser' = ser \/ {"open", "close"} \cap {ser.pc, ser'.pc} = {}
    BY <1>3 DEF StopWrite, SerReady
  <2>2. \A x : Ended(x)' = Ended(x)
    BY <2>1, EndedStays
  <2> QED
    BY <2>1, <2>2, StutterMaps
<1>4. CASE Signal \/ TimerExpire
  <2>1. \/ strand' = strand
        \/ \E t \in Tasks : t.k # "done" /\ Joins(strand, t, strand')
    BY <1>4, TasksMade DEF Signal, TimerExpire, TickTask, Joins
  <2>2. UNCHANGED <<name, opened, sendingData, ops, last, phase, ser>>
    BY <1>4 DEF Signal, TimerExpire, serialVars
  <2>3. \A x : Ended(x)' = Ended(x)
    BY <2>1, <2>2, EndedStays
  <2> QED
    BY <2>2, <2>3, StutterMaps
<1> QED
  BY <1>1, <1>2, <1>3, <1>4

LEMMA ExitMaps ==
    ASSUME TypeInv, DataInv, Exit \/ ListRace
    PROVE  Channel!Next
<1>1. /\ phase = "up" /\ phase' # "up"
      /\ UNCHANGED <<name, opened, sendingData, ops, last, strand, ser>>
  BY DEF Exit, ListRace, ThreadFree, serialVars
<1>2. \A x : Ended(x)' = Ended(x)
  BY <1>1, EndedStays
<1> QED
  BY <1>1, <1>2, DownMaps

LEMMA StepMaps ==
    TypeInv /\ StopInv /\ DataInv /\ NameInv /\ ChannelInv /\ [Next]_vars
        => [Channel!Next]_(Channel!vars)
<1> SUFFICES ASSUME TypeInv, StopInv, DataInv, NameInv, ChannelInv, [Next]_vars
             PROVE  Channel!Next \/ UNCHANGED Channel!vars
  OBVIOUS
<1>1. CASE Next
  BY <1>1, WebSendMaps, InitNameMaps, InitOpenMaps, StopCloseMaps, WriteDoneMaps,
     TickMaps, SweepCloseMaps, ExitMaps, DriverDoneMaps, QuietMaps
  DEF Next, Halted
<1>2. CASE UNCHANGED vars
  BY <1>2, QuietMaps
<1> QED
  BY <1>1, <1>2

\* The serial side, its two strands, its threads and its queues implement the channel:
\* a command is accepted for an open port only, reaches the device of that port at most
\* once and keeps its data until its write has ended, and a port opens at most once and
\* is closed only together with the release of a stop command.
THEOREM ChannelImplemented == Spec => ChannelSpec
<1>1. Spec => []TypeInv /\ []StopInv
  BY TypeInvariant, StopInvariant, PTL
<1>2. Spec => []DataInv
  BY InitData, StepData, TypeInvariant, StopInvariant, PTL DEF Spec
<1>3. Spec => []NameInv
  BY InitNames, StepNames, TypeInvariant, PTL DEF Spec
<1>4. TypeInv /\ NameInv /\ ChannelInv /\ [Next]_vars => ChannelInv'
  BY StepSettled, StepCommands DEF ChannelInv
<1>5. Spec => []ChannelInv
  BY <1>1, <1>3, <1>4, InitChannelInv, PTL DEF Spec
<1>6. Spec => Channel!Spec
  BY <1>1, <1>2, <1>3, <1>5, InitMaps, StepMaps, PTL DEF Spec, Channel!Spec
<1> QED
  BY <1>6 DEF ChannelSpec
=============================================================================
