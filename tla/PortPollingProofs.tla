-------------------------- MODULE PortPollingProofs --------------------------
(***************************************************************************)
(* For any number of threads, any period, delay and length of a query: the *)
(* safety of the refreshing of the ports and of the end of a shutdown.     *)
(*                                                                         *)
(* The argument for the times.  The clock only moves when every free       *)
(* thread has nothing to do, so a handler that is queued while a thread is *)
(* free runs at the same time.  A tick therefore finds the queries ended,  *)
(* with several threads because a query is shorter than the period, with   *)
(* one because the strand of the queries is queued before the timer's;     *)
(* and a query that begins after the signal begins with it.                *)
(***************************************************************************)
EXTENDS PortPolling, FiniteSetTheorems, SequenceTheorems, TLAPS

\* A strand, or the signal's handler, has its place in the queue or its thread.
Scheduled(x) == x \in held \/ \E i \in DOMAIN io : io[i] = x

WebQ == queue["web"]
SerQ == queue["ser"]

Queries == {i \in DOMAIN WebQ : WebQ[i].k = "query"}

\* A query that has not begun.
Waiting == \E i \in Queries : i # 1 \/ web = "idle"

\* The timer's handler is queued or running; and it has not asked for its query.
TickDue == SerQ # <<>> /\ Head(SerQ).k = "tick"
Asking == TickDue /\ ser \in {"idle", "post"}

\* The web strand comes before the serial one.
WebFirst ==
    "web" \in held \/ \E i, j \in DOMAIN io : i < j /\ io[i] = "web" /\ io[j] = "ser"

\* Who has handlers is scheduled, once; as many run as there are threads.
Turns ==
    /\ \A st \in Strand :
          /\ batch[st] = 0 <=> queue[st] = <<>>
          /\ queue[st] # <<>> <=> Scheduled(st)
    /\ \A i, j \in DOMAIN io : io[i] = io[j] => i = j
    /\ \A i \in DOMAIN io : io[i] \notin held
    /\ Cardinality(held) <= threads

SigPlace ==
    /\ sig.pc = "none" => ~Scheduled("sig")
    /\ sig.pc = "sweep" => "sig" \in held /\ now = sig.at

\* The serial strand never has more than one handler, since the timer waits only when the
\* last one is over; only stop() takes the timer away.
SerSide ==
    /\ Len(SerQ) <= 1
    /\ timer = "armed" => SerQ = <<>>
    /\ timer = "queued" => TickDue
    /\ ser # "idle" => TickDue /\ "ser" \in held
    /\ timer = "null" <=> sig.pc \notin {"none", "queued"}
    /\ timer = "null" /\ TickDue => sig.tick

\* The queries wait in the order of their numbers, all newer than any result; a query
\* ends before the then() of its promise only on another thread.
WebSide ==
    /\ web = "query" => "web" \in held /\ 1 \in Queries
    /\ \A i \in Queries : settled < WebQ[i].n /\ portsInfo < WebQ[i].n
    /\ \A i, j \in Queries : i < j => WebQ[i].n < WebQ[j].n
    /\ threads = 1 /\ ser = "attach" => settled < polls
    /\ sig.pc = "over" => \E i \in DOMAIN WebQ : WebQ[i].k = "exit"

\* The timer is due a period after the last query that it asked for, or sooner.
Times ==
    /\ web = "query" => now <= until /\ until <= asked + slowest
    /\ timer # "null" =>
          /\ expiry <= now + Period
          /\ TickDue /\ ser = "idle" => expiry <= now
          /\ ~Waiting /\ ser # "post" => expiry <= asked + Period

\* Ticks and queries take turns.
OneQuery ==
    Paced =>
        /\ \A i, j \in Queries : i = j
        /\ Asking => Queries = {} \/ (threads = 1 /\ WebFirst)

\* With a second thread the timer is never late, and a query is over before the next tick.
OnTime ==
    threads # 1 /\ slowest < Period /\ timer # "null" =>
        /\ timer = "armed" \/ (TickDue /\ ser = "idle") => now <= expiry
        /\ ser # "idle" => now + Period <= expiry
        /\ Queries # {} /\ web = "idle" => now + Period <= expiry
        /\ web = "query" => until + Period <= expiry + slowest

\* After the signal no query begins later than its handler ran.
LastQuery ==
    Paced /\ timer = "null" =>
        /\ Waiting \/ ser = "post" => now = sig.at
        /\ asked <= sig.at

Inv ==
    /\ TypeOK
    /\ Turns /\ SigPlace /\ SerSide /\ WebSide /\ Times /\ OneQuery /\ OnTime /\ LastQuery
    /\ Fresh /\ ExitInTime /\ CrashOnlyQueuedTick

-----------------------------------------------------------------------------
(* Queues.                                                                 *)

LEMMA AppendFacts ==
    ASSUME NEW S, NEW q \in Seq(S), NEW e \in S
    PROVE  /\ Append(q, e) \in Seq(S) /\ Len(q) \in Nat /\ Len(Append(q, e)) = Len(q) + 1
           /\ DOMAIN q = 1..Len(q) /\ DOMAIN Append(q, e) = 1..(Len(q) + 1)
           /\ Append(q, e)[Len(q) + 1] = e /\ Append(q, e) # <<>>
           /\ \A i \in DOMAIN q : Append(q, e)[i] = q[i]
OBVIOUS

LEMMA TailFacts ==
    ASSUME NEW S, NEW q \in Seq(S), q # <<>>
    PROVE  /\ Tail(q) \in Seq(S) /\ Head(q) \in S /\ Head(q) = q[1]
           /\ Len(q) \in Nat /\ Len(q) >= 1 /\ Len(Tail(q)) = Len(q) - 1
           /\ DOMAIN q = 1..Len(q) /\ DOMAIN Tail(q) = 1..(Len(q) - 1)
           /\ \A i \in DOMAIN Tail(q) : i + 1 \in DOMAIN q /\ Tail(q)[i] = q[i + 1]
OBVIOUS

LEMMA EmptyFacts ==
    ASSUME NEW S, NEW q \in Seq(S)
    PROVE  q = <<>> <=> Len(q) = 0
BY EmptySeq

Place == Strand \cup {"sig"}

\* The system's threads are finitely many.
LEMMA HeldFinite ==
    ASSUME NEW A, A \subseteq Place
    PROVE  IsFiniteSet(A) /\ Cardinality(A) \in Nat
<1>1. IsFiniteSet({"ser"}) /\ IsFiniteSet({"web"}) /\ IsFiniteSet({"sig"})
  BY FS_Singleton
<1>2. IsFiniteSet({"ser"} \cup {"web"})
  BY <1>1, FS_Union
<1>3. IsFiniteSet(({"ser"} \cup {"web"}) \cup {"sig"})
  BY <1>1, <1>2, FS_Union
<1>4. Place = ({"ser"} \cup {"web"}) \cup {"sig"}
  BY DEF Place, Strand
<1> QED
  BY <1>3, <1>4, FS_Subset, FS_CardinalityType

\* Appending to the io_context's queue who is not scheduled.
LEMMA IoAppended ==
    ASSUME io \in Seq(Place), NEW x \in Place, io' = Append(io, x), held' = held
    PROVE  /\ io' \in Seq(Place)
           /\ \A y : Scheduled(y)' <=> Scheduled(y) \/ y = x
           /\ WebFirst => WebFirst'
           /\ x = "ser" /\ (\E i \in DOMAIN io : io[i] = "web") => WebFirst'
           /\ /\ ~Scheduled(x)
              /\ \A i, j \in DOMAIN io : io[i] = io[j] => i = j
              /\ \A i \in DOMAIN io : io[i] \notin held
              => /\ \A i, j \in DOMAIN io' : io'[i] = io'[j] => i = j
                 /\ \A i \in DOMAIN io' : io'[i] \notin held'
<1>1. /\ io' \in Seq(Place) /\ Len(io) \in Nat
      /\ DOMAIN io = 1..Len(io) /\ DOMAIN io' = 1..(Len(io) + 1)
      /\ io'[Len(io) + 1] = x
      /\ \A i \in DOMAIN io : io'[i] = io[i]
  BY AppendFacts
<1> DEFINE n == Len(io)
<1>2. /\ n \in Nat /\ DOMAIN io' = DOMAIN io \cup {n + 1} /\ n + 1 \notin DOMAIN io
      /\ \A i \in DOMAIN io : i < n + 1
      /\ io'[n + 1] = x
  BY <1>1
<1> HIDE DEF n
<1>3. \A y : Scheduled(y)' <=> Scheduled(y) \/ y = x
  BY <1>1, <1>2 DEF Scheduled
<1>4. WebFirst => WebFirst'
  BY <1>1, <1>2 DEF WebFirst
<1>5. x = "ser" /\ (\E i \in DOMAIN io : io[i] = "web") => WebFirst'
  BY <1>1, <1>2 DEF WebFirst
<1> QED
  BY <1>1, <1>2, <1>3, <1>4, <1>5 DEF Scheduled

LEMMA PostOK ==
    ASSUME NEW S, queue \in [Strand -> Seq(S)], batch \in [Strand -> Nat],
           io \in Seq(Place), Turns, threads' = threads,
           \A x \in Strand : batch[x] <= Len(queue[x]),
           NEW st \in Strand, NEW h \in S, Post(st, h)
    PROVE  /\ queue' \in [Strand -> Seq(S)] /\ batch' \in [Strand -> Nat]
           /\ io' \in Seq(Place) /\ held' = held /\ Turns'
           /\ queue'[st] = Append(queue[st], h)
           /\ \A x \in Strand \ {st} : queue'[x] = queue[x]
           /\ \A x : Scheduled(x)' <=> Scheduled(x) \/ x = st
           /\ WebFirst => WebFirst'
           /\ /\ st = "ser" /\ SerQ = <<>>
              /\ \E i \in DOMAIN io : io[i] = "web"
              => WebFirst'
           /\ \A x \in Strand : batch'[x] <= Len(queue'[x])
<1>1. /\ queue' = [queue EXCEPT ![st] = Append(queue[st], h)] /\ held' = held
      /\ IF batch[st] = 0
         THEN batch' = [batch EXCEPT ![st] = 1] /\ io' = Append(io, st)
         ELSE batch' = batch /\ io' = io
  BY DEF Post
<1>2. /\ queue[st] \in Seq(S) /\ Append(queue[st], h) \in Seq(S)
      /\ Append(queue[st], h) # <<>>
      /\ Len(queue[st]) \in Nat /\ Len(Append(queue[st], h)) = Len(queue[st]) + 1
  BY AppendFacts
<1>3. /\ queue' \in [Strand -> Seq(S)]
      /\ queue'[st] = Append(queue[st], h)
      /\ \A x \in Strand \ {st} : queue'[x] = queue[x]
  BY <1>1, <1>2
<1>4. batch' \in [Strand -> Nat]
  <2>1. [batch EXCEPT ![st] = 1] \in [Strand -> Nat]
    OBVIOUS
  <2> QED
    BY <1>1, <2>1
<1>5. st \in Place
  BY DEF Place
<1>6. CASE batch[st] = 0
  <2>1. queue[st] = <<>> /\ ~Scheduled(st)
    BY <1>6 DEF Turns
  <2>2. /\ batch' = [batch EXCEPT ![st] = 1] /\ io' = Append(io, st)
        /\ batch'[st] = 1 /\ \A x \in Strand \ {st} : batch'[x] = batch[x]
    BY <1>1, <1>6
  <2>3. /\ io' \in Seq(Place)
        /\ \A y : Scheduled(y)' <=> Scheduled(y) \/ y = st
        /\ WebFirst => WebFirst'
        /\ st = "ser" /\ (\E i \in DOMAIN io : io[i] = "web") => WebFirst'
        /\ \A i, j \in DOMAIN io' : io'[i] = io'[j] => i = j
        /\ \A i \in DOMAIN io' : io'[i] \notin held'
    BY <1>1, <1>5, <2>1, <2>2, IoAppended DEF Turns
  <2>4. Turns'
    <3>1. \A x \in Strand : batch'[x] = 0 <=> queue'[x] = <<>>
      BY <1>2, <1>3, <2>2 DEF Turns
    <3>2. \A x \in Strand : queue'[x] # <<>> <=> Scheduled(x)'
      BY <1>2, <1>3, <2>3 DEF Turns
    <3> QED
      BY <1>1, <2>3, <3>1, <3>2 DEF Turns
  <2>5. \A x \in Strand : batch'[x] <= Len(queue'[x])
    BY <1>2, <1>3, <2>2
  <2> QED
    BY <1>1, <1>3, <1>4, <2>3, <2>4, <2>5
<1>7. CASE batch[st] # 0
  <2>1. queue[st] # <<>> /\ Scheduled(st) /\ batch' = batch /\ io' = io
    BY <1>1, <1>7 DEF Turns
  <2>2. /\ \A x : Scheduled(x)' <=> Scheduled(x)
        /\ WebFirst => WebFirst'
    BY <1>1, <2>1 DEF Scheduled, WebFirst
  <2>3. Turns'
    <3>1. \A x \in Strand : batch'[x] = 0 <=> queue'[x] = <<>>
      BY <1>2, <1>3, <1>7, <2>1 DEF Turns
    <3>2. \A x \in Strand : queue'[x] # <<>> <=> Scheduled(x)'
      BY <1>2, <1>3, <2>1, <2>2 DEF Turns
    <3> QED
      BY <1>1, <2>1, <3>1, <3>2 DEF Turns
  <2>4. \A x \in Strand : batch'[x] <= Len(queue'[x])
    BY <1>2, <1>3, <2>1
  <2> QED
    BY <1>1, <1>3, <1>4, <2>1, <2>2, <2>3, <2>4 DEF SerQ
<1> QED
  BY <1>4, <1>6, <1>7

LEMMA FinishOK ==
    ASSUME NEW S, queue \in [Strand -> Seq(S)], batch \in [Strand -> Nat],
           io \in Seq(Place), held \subseteq Place, Turns, threads' = threads,
           threads \in Nat, \A x \in Strand : batch[x] <= Len(queue[x]), NEW st \in Strand, st \in held, Finish(st)
    PROVE  /\ queue' \in [Strand -> Seq(S)] /\ batch' \in [Strand -> Nat]
           /\ io' \in Seq(Place) /\ held' \subseteq held /\ held \ {st} \subseteq held'
           /\ Turns'
           /\ queue[st] # <<>> /\ queue'[st] = Tail(queue[st])
           /\ \A x \in Strand \ {st} : queue'[x] = queue[x]
           /\ \A x : x # st => (Scheduled(x)' <=> Scheduled(x))
           /\ \A x \in Strand : batch'[x] <= Len(queue'[x])
<1> DEFINE rest == Tail(queue[st])
<1>1. /\ queue' = [queue EXCEPT ![st] = rest]
      /\ IF batch[st] > 1
         THEN batch' = [batch EXCEPT ![st] = batch[st] - 1] /\ io' = io /\ held' = held
         ELSE /\ batch' = [batch EXCEPT ![st] = Len(rest)]
              /\ io' = IF rest = <<>> THEN io ELSE Append(io, st)
              /\ held' = held \ {st}
  BY DEF Finish
<1>2. queue[st] # <<>>
  BY DEF Turns, Scheduled
<1>3. /\ queue[st] \in Seq(S) /\ rest \in Seq(S)
      /\ Len(queue[st]) \in Nat /\ Len(queue[st]) >= 1 /\ Len(rest) = Len(queue[st]) - 1
      /\ rest = <<>> <=> Len(rest) = 0
      /\ Len(rest) \in Nat
  <2> HIDE DEF rest
  <2>1. queue[st] \in Seq(S)
    OBVIOUS
  <2>2. /\ rest \in Seq(S) /\ Len(queue[st]) \in Nat /\ Len(queue[st]) >= 1
        /\ Len(rest) = Len(queue[st]) - 1
    BY <1>2, <2>1, TailFacts DEF rest
  <2>3. rest = <<>> <=> Len(rest) = 0
    BY <2>2, EmptyFacts
  <2> QED
    BY <2>1, <2>2, <2>3
<1> HIDE DEF rest
<1>4. /\ queue' \in [Strand -> Seq(S)] /\ queue'[st] = rest
      /\ \A x \in Strand \ {st} : queue'[x] = queue[x]
  BY <1>1, <1>3
<1>5. st \in Place /\ \A i \in DOMAIN io : io[i] # st
  BY DEF Place, Turns
<1>6. CASE batch[st] > 1
  <2>1. /\ batch' \in [Strand -> Nat] /\ batch'[st] = batch[st] - 1 /\ batch'[st] # 0
        /\ \A x \in Strand \ {st} : batch'[x] = batch[x]
        /\ io' = io /\ held' = held
    BY <1>1, <1>6
  <2>2. \A x : Scheduled(x)' <=> Scheduled(x)
    BY <2>1 DEF Scheduled
  <2>3. rest # <<>> /\ Scheduled(st) /\ batch'[st] <= Len(rest)
    BY <1>3, <1>6, <2>1 DEF Scheduled
  <2>4. Turns'
    BY <1>4, <2>1, <2>2, <2>3 DEF Turns
  <2> QED
    BY <1>2, <1>3, <1>4, <2>1, <2>2, <2>3, <2>4 DEF rest
<1>7. CASE ~(batch[st] > 1)
  <2>1. /\ batch' = [batch EXCEPT ![st] = Len(rest)] /\ held' = held \ {st}
        /\ io' = IF rest = <<>> THEN io ELSE Append(io, st)
    BY <1>1, <1>7
  <2>2. /\ batch' \in [Strand -> Nat] /\ batch'[st] = Len(rest)
        /\ \A x \in Strand \ {st} : batch'[x] = batch[x]
    BY <1>3, <2>1
  <2>3. /\ io' \in Seq(Place) /\ DOMAIN io \subseteq DOMAIN io'
        /\ \A i \in DOMAIN io : io'[i] = io[i]
        /\ \A i \in DOMAIN io' \ DOMAIN io : io'[i] = st
        /\ rest = <<>> => io' = io
        /\ rest # <<>> => \E i \in DOMAIN io' : io'[i] = st
        /\ \A i, j \in DOMAIN io' : io'[i] = io'[j] => i = j
    <3>1. CASE rest = <<>>
      BY <2>1, <3>1 DEF Turns
    <3>2. CASE rest # <<>>
      <4>1. /\ io' \in Seq(Place) /\ Len(io) \in Nat /\ DOMAIN io = 1..Len(io)
            /\ DOMAIN io' = 1..(Len(io) + 1) /\ io'[Len(io) + 1] = st
            /\ \A i \in DOMAIN io : io'[i] = io[i]
        BY <1>5, <2>1, <3>2, AppendFacts
      <4> DEFINE n == Len(io)
      <4>2. n \in Nat /\ DOMAIN io' = DOMAIN io \cup {n + 1} /\ io'[n + 1] = st
        BY <4>1
      <4> HIDE DEF n
      <4> QED
        BY <1>5, <3>2, <4>1, <4>2 DEF Turns
    <3> QED
      BY <3>1, <3>2
  <2>4. \A x : x # st => (Scheduled(x)' <=> Scheduled(x))
    BY <2>1, <2>3 DEF Scheduled
  <2>5. Scheduled(st)' <=> rest # <<>>
    BY <1>5, <2>1, <2>3 DEF Scheduled
  <2>6. Cardinality(held') <= threads
    <3>1. IsFiniteSet(held) /\ Cardinality(held) \in Nat
      BY HeldFinite
    <3>2. Cardinality(held') <= Cardinality(held) /\ Cardinality(held') \in Nat
      BY <2>1, <3>1, HeldFinite, FS_Subset
    <3> QED
      BY <3>1, <3>2 DEF Turns
  <2>7. \A i \in DOMAIN io' : io'[i] \notin held'
    BY <2>1, <2>3 DEF Turns
  <2>8. Turns'
    BY <1>3, <1>4, <2>2, <2>3, <2>4, <2>5, <2>6, <2>7 DEF Turns
  <2>9. \A x \in Strand : batch'[x] <= Len(queue'[x])
    BY <1>3, <1>4, <2>2
  <2>10. held' \subseteq held /\ held \ {st} \subseteq held'
    BY <2>1
  <2> QED
    BY <1>2, <1>4, <2>2, <2>3, <2>4, <2>8, <2>9, <2>10 DEF rest
<1> QED
  BY <1>3, <1>6, <1>7

-----------------------------------------------------------------------------
(* What the steps do to the two strands' queues.                           *)

H == [k : Kinds, n : 0..polls]

LEMMA QueueTyped ==
    ASSUME TypeOK
    PROVE  /\ queue \in [Strand -> Seq(H)] /\ WebQ \in Seq(H) /\ SerQ \in Seq(H)
           /\ batch \in [Strand -> Nat] /\ io \in Seq(Place) /\ held \subseteq Place
           /\ \A st \in Strand : batch[st] <= Len(queue[st])
           /\ threads \in Nat /\ threads # 0 /\ slowest \in Nat /\ expiry \in Nat
           /\ polls \in Nat /\ now \in Nat /\ asked \in 0..now /\ until \in Nat
           /\ Period \in Nat /\ Period > 0 /\ Delay \in Nat
<1>1. queue \in [Strand -> Seq(H)] /\ "web" \in Strand /\ "ser" \in Strand
  BY DEF TypeOK, H, Strand
<1>2. WebQ \in Seq(H) /\ SerQ \in Seq(H)
  BY <1>1 DEF WebQ, SerQ
<1>3. batch \in [Strand -> Nat] /\ io \in Seq(Place) /\ held \subseteq Place
  BY DEF TypeOK, Place
<1>4. \A st \in Strand : batch[st] <= Len(queue[st])
  BY DEF TypeOK
<1>5. /\ threads \in Nat /\ threads # 0 /\ slowest \in Nat /\ expiry \in Nat
      /\ polls \in Nat /\ now \in Nat /\ asked \in 0..now /\ until \in Nat
  BY TimesOK DEF TypeOK
<1>6. Period \in Nat /\ Period > 0 /\ Delay \in Nat
  BY TimesOK
<1> QED
  BY <1>1, <1>2, <1>3, <1>4, <1>5, <1>6

\* What Post does to the strand that is given a handler and to the other.
LEMMA PostedWeb ==
    ASSUME Inv, threads' = threads, NEW S, queue \in [Strand -> Seq(S)], NEW h \in S,
           Post("web", h)
    PROVE  /\ queue' \in [Strand -> Seq(S)] /\ batch' \in [Strand -> Nat]
           /\ io' \in Seq(Place) /\ held' = held /\ Turns'
           /\ WebQ' = Append(WebQ, h) /\ SerQ' = SerQ /\ WebQ \in Seq(S)
           /\ \A x : Scheduled(x)' <=> Scheduled(x) \/ x = "web"
           /\ WebFirst => WebFirst'
           /\ \A x \in Strand : batch'[x] <= Len(queue'[x])
<1>1. TypeOK /\ Turns /\ "ser" \in Strand /\ "web" \in Strand
  BY DEF Inv, Strand
<1>2. batch \in [Strand -> Nat] /\ io \in Seq(Place) /\ \A x \in Strand : batch[x] <= Len(queue[x])
  BY <1>1, QueueTyped
<1>3. /\ queue' \in [Strand -> Seq(S)] /\ batch' \in [Strand -> Nat]
      /\ io' \in Seq(Place) /\ held' = held /\ Turns'
      /\ queue'["web"] = Append(queue["web"], h)
      /\ \A x \in Strand \ {"web"} : queue'[x] = queue[x]
      /\ \A x : Scheduled(x)' <=> Scheduled(x) \/ x = "web"
      /\ WebFirst => WebFirst'
      /\ \A x \in Strand : batch'[x] <= Len(queue'[x])
  BY <1>1, <1>2, PostOK, ZenonT(30)
<1>4. queue'["ser"] = queue["ser"]
  BY <1>1, <1>3
<1>5. queue["web"] \in Seq(S)
  BY <1>1
<1> QED
  BY <1>3, <1>4, <1>5 DEF WebQ, SerQ

LEMMA PostedSer ==
    ASSUME Inv, threads' = threads, NEW S, queue \in [Strand -> Seq(S)], NEW h \in S,
           Post("ser", h)
    PROVE  /\ queue' \in [Strand -> Seq(S)] /\ batch' \in [Strand -> Nat]
           /\ io' \in Seq(Place) /\ held' = held /\ Turns'
           /\ SerQ' = Append(SerQ, h) /\ WebQ' = WebQ /\ SerQ \in Seq(S)
           /\ \A x : Scheduled(x)' <=> Scheduled(x) \/ x = "ser"
           /\ WebFirst => WebFirst'
           /\ SerQ = <<>> /\ (\E i \in DOMAIN io : io[i] = "web") => WebFirst'
           /\ \A x \in Strand : batch'[x] <= Len(queue'[x])
<1>1. TypeOK /\ Turns /\ "ser" \in Strand /\ "web" \in Strand
  BY DEF Inv, Strand
<1>2. batch \in [Strand -> Nat] /\ io \in Seq(Place) /\ \A x \in Strand : batch[x] <= Len(queue[x])
  BY <1>1, QueueTyped
<1>3. /\ queue' \in [Strand -> Seq(S)] /\ batch' \in [Strand -> Nat]
      /\ io' \in Seq(Place) /\ held' = held /\ Turns'
      /\ queue'["ser"] = Append(queue["ser"], h)
      /\ \A x \in Strand \ {"ser"} : queue'[x] = queue[x]
      /\ \A x : Scheduled(x)' <=> Scheduled(x) \/ x = "ser"
      /\ WebFirst => WebFirst'
      /\ SerQ = <<>> /\ (\E i \in DOMAIN io : io[i] = "web") => WebFirst'
      /\ \A x \in Strand : batch'[x] <= Len(queue'[x])
  BY <1>1, <1>2, PostOK, ZenonT(30)
<1>4. queue'["web"] = queue["web"]
  BY <1>1, <1>3
<1>5. queue["ser"] \in Seq(S)
  BY <1>1
<1> QED
  BY <1>3, <1>4, <1>5 DEF WebQ, SerQ

LEMMA WebAppended ==
    ASSUME NEW S, WebQ \in Seq(S), NEW h \in S, WebQ' = Append(WebQ, h)
    PROVE  /\ Queries' = IF h.k = "query" THEN Queries \cup {Len(WebQ) + 1} ELSE Queries
           /\ \A i \in Queries : i < Len(WebQ) + 1 /\ WebQ'[i] = WebQ[i]
           /\ WebQ'[Len(WebQ) + 1] = h
           /\ 1 \in Queries' => 1 \in Queries \/ WebQ = <<>>
           /\ Len(WebQ) + 1 = 1 <=> WebQ = <<>>
           /\ (\E i \in DOMAIN WebQ : WebQ[i].k = "exit") \/ h.k = "exit"
              => \E i \in DOMAIN WebQ' : WebQ'[i].k = "exit"
<1>1. /\ Len(WebQ) \in Nat /\ DOMAIN WebQ = 1..Len(WebQ)
      /\ DOMAIN WebQ' = 1..(Len(WebQ) + 1) /\ WebQ'[Len(WebQ) + 1] = h
      /\ \A i \in DOMAIN WebQ : WebQ'[i] = WebQ[i]
  BY AppendFacts
<1>2. WebQ = <<>> <=> Len(WebQ) = 0
  BY EmptyFacts
<1> DEFINE n == Len(WebQ)
<1>3. /\ n \in Nat /\ DOMAIN WebQ' = DOMAIN WebQ \cup {n + 1} /\ n + 1 \notin DOMAIN WebQ
      /\ \A i \in DOMAIN WebQ : i < n + 1
      /\ WebQ'[n + 1] = h /\ (n + 1 = 1 <=> WebQ = <<>>)
  BY <1>1, <1>2
<1> HIDE DEF n
<1>4. Queries' = IF h.k = "query" THEN Queries \cup {n + 1} ELSE Queries
  BY <1>1, <1>3 DEF Queries
<1>5. /\ \A i \in Queries : i < n + 1 /\ WebQ'[i] = WebQ[i]
      /\ 1 \in Queries' => 1 \in Queries \/ WebQ = <<>>
  BY <1>1, <1>3, <1>4 DEF Queries
<1> QED
  BY <1>1, <1>3, <1>4, <1>5 DEF n

LEMMA WebTaken ==
    ASSUME NEW S, WebQ \in Seq(S), WebQ # <<>>, WebQ' = Tail(WebQ)
    PROVE  /\ \A i \in Queries' : i \in Nat \ {0} /\ i + 1 \in Queries /\ WebQ'[i] = WebQ[i + 1]
           /\ \A i \in Queries : i # 1 => i \in Nat /\ i - 1 \in Queries'
           /\ Head(WebQ) = WebQ[1] /\ Head(WebQ) \in S
           /\ Head(WebQ).k = "query" <=> 1 \in Queries
           /\ Head(WebQ).k = "query" /\ (\E i \in DOMAIN WebQ : WebQ[i].k = "exit")
              => \E i \in DOMAIN WebQ' : WebQ'[i].k = "exit"
<1>1. /\ Head(WebQ) \in S /\ Head(WebQ) = WebQ[1]
      /\ Len(WebQ) \in Nat /\ Len(WebQ) >= 1
      /\ DOMAIN WebQ = 1..Len(WebQ) /\ DOMAIN WebQ' = 1..(Len(WebQ) - 1)
      /\ \A i \in DOMAIN WebQ' : i + 1 \in DOMAIN WebQ /\ WebQ'[i] = WebQ[i + 1]
  BY TailFacts
<1> DEFINE n == Len(WebQ)
<1>2. /\ 1 \in DOMAIN WebQ /\ DOMAIN WebQ' \subseteq Nat \ {0}
      /\ \A i \in DOMAIN WebQ : i # 1 => i \in Nat /\ i - 1 \in DOMAIN WebQ' /\ (i - 1) + 1 = i
  <2>1. n \in Nat /\ n >= 1 /\ DOMAIN WebQ = 1..n /\ DOMAIN WebQ' = 1..(n - 1)
    BY <1>1
  <2> HIDE DEF n
  <2> QED
    BY <2>1
<1> HIDE DEF n
<1>3. \A i \in DOMAIN WebQ : i # 1 => i - 1 \in DOMAIN WebQ' /\ WebQ'[i - 1] = WebQ[i]
  BY <1>1, <1>2
<1>4. \A i \in Queries' : i \in Nat \ {0} /\ i + 1 \in Queries /\ WebQ'[i] = WebQ[i + 1]
  BY <1>1, <1>2 DEF Queries
<1>5. \A i \in Queries : i # 1 => i \in Nat /\ i - 1 \in Queries'
  BY <1>2, <1>3 DEF Queries
<1>6. Head(WebQ).k = "query" <=> 1 \in Queries
  BY <1>1, <1>2 DEF Queries
<1>7. Head(WebQ).k = "query" /\ (\E i \in DOMAIN WebQ : WebQ[i].k = "exit")
      => \E i \in DOMAIN WebQ' : WebQ'[i].k = "exit"
  <2>1. ASSUME Head(WebQ).k = "query", NEW i \in DOMAIN WebQ, WebQ[i].k = "exit"
        PROVE  i # 1
    BY <1>1, <2>1
  <2> QED
    BY <1>3, <2>1
<1> QED
  BY <1>1, <1>4, <1>5, <1>6, <1>7

\* The serial strand's queue holds at most one handler: it gets one, or loses it.
LEMMA SerAppended ==
    ASSUME NEW S, SerQ = <<>>, NEW h \in S, SerQ' = Append(SerQ, h)
    PROVE  Len(SerQ') = 1 /\ SerQ' # <<>> /\ Head(SerQ') = h
<1>1. SerQ' = <<h>>
  OBVIOUS
<1> QED
  BY <1>1

LEMMA SerTaken ==
    ASSUME NEW S, SerQ \in Seq(S), SerQ # <<>>, Len(SerQ) <= 1, SerQ' = Tail(SerQ)
    PROVE  SerQ' = <<>> /\ Len(SerQ') = 0 /\ ~TickDue'
<1>1. Tail(SerQ) \in Seq(S) /\ Len(Tail(SerQ)) = Len(SerQ) - 1 /\ Len(SerQ) \in Nat
      /\ Len(SerQ) >= 1
  BY TailFacts
<1>2. Len(Tail(SerQ)) = 0
  BY <1>1
<1> QED
  BY <1>1, <1>2, EmptyFacts DEF TickDue

LEMMA SerEmptyOrOne ==
    ASSUME NEW S, SerQ \in Seq(S)
    PROVE  Len(SerQ) \in Nat /\ (SerQ = <<>> <=> Len(SerQ) = 0)
BY EmptyFacts

\* One thread runs one handler at a time.
LEMMA OneThread ==
    ASSUME Inv, threads = 1, NEW x \in held, NEW y \in held
    PROVE  x = y
<1> SUFFICES ASSUME x # y PROVE FALSE
  OBVIOUS
<1>1. /\ {x, y} \subseteq held /\ IsFiniteSet(held) /\ Cardinality(held) \in Nat
      /\ Cardinality(held) <= 1
  BY HeldFinite, QueueTyped DEF Inv, Turns
<1>2. Cardinality({x, y}) <= Cardinality(held)
  BY <1>1, FS_Subset
<1>3. Cardinality({x}) = 1 /\ IsFiniteSet({x})
  BY FS_Singleton
<1>4. Cardinality({x} \cup {y}) = Cardinality({x}) + 1
  BY <1>3, FS_AddElement
<1>5. {x, y} = {x} \cup {y}
  OBVIOUS
<1> QED
  BY <1>1, <1>2, <1>3, <1>4, <1>5

-----------------------------------------------------------------------------
(* One lemma per kind of step.                                             *)

LEMMA TakeOK == Inv /\ Take => Inv'
<1> SUFFICES ASSUME Inv, Take PROVE Inv'
  OBVIOUS
<1> USE DEF machine, promise, work
<1>1. /\ io # <<>> /\ ThreadFree /\ held' = held \cup {Head(io)} /\ io' = Tail(io)
      /\ UNCHANGED <<machine, now, timer, expiry, queue, batch, ser, web, until, promise, sig,
                     phase, asked>>
  BY DEF Take
<1>2. /\ io \in Seq(Place) /\ held \subseteq Place /\ threads \in Nat
  BY QueueTyped DEF Inv
<1>3. /\ io' \in Seq(Place) /\ Head(io) \in Place /\ Head(io) = io[1]
      /\ Len(io) \in Nat /\ Len(io) >= 1
      /\ DOMAIN io = 1..Len(io) /\ DOMAIN io' = 1..(Len(io) - 1)
      /\ \A i \in DOMAIN io' : i + 1 \in DOMAIN io /\ io'[i] = io[i + 1]
  BY <1>1, <1>2, TailFacts
<1>4. /\ 1 \in DOMAIN io /\ DOMAIN io \subseteq Nat /\ DOMAIN io' \subseteq Nat
      /\ \A i \in DOMAIN io' : i + 1 # 1
      /\ \A i \in DOMAIN io : i # 1 => i - 1 \in DOMAIN io' /\ (i - 1) + 1 = i
  <2> DEFINE n == Len(io)
  <2>1. n \in Nat /\ n >= 1 /\ DOMAIN io = 1..n /\ DOMAIN io' = 1..(n - 1)
    BY <1>3
  <2> HIDE DEF n
  <2> QED
    BY <2>1
<1>5. \A i \in DOMAIN io : i # 1 => i - 1 \in DOMAIN io' /\ io'[i - 1] = io[i]
  BY <1>3, <1>4
<1>6. \A x : Scheduled(x)' <=> Scheduled(x)
  BY <1>1, <1>3, <1>4, <1>5 DEF Scheduled
<1>7. WebFirst => WebFirst'
  <2>1. CASE "web" \in held
    BY <1>1, <2>1 DEF WebFirst
  <2>2. ASSUME NEW i \in DOMAIN io, NEW j \in DOMAIN io, i < j, io[i] = "web", io[j] = "ser"
        PROVE  WebFirst'
    <3>1. CASE i = 1
      BY <1>1, <1>3, <2>2, <3>1 DEF WebFirst
    <3>2. CASE i # 1
      <4>1. j # 1 /\ i - 1 < j - 1
        BY <1>3, <2>2, <3>2
      <4> QED
        BY <1>5, <2>2, <3>2, <4>1 DEF WebFirst
    <3> QED
      BY <3>1, <3>2
  <2> QED
    BY <2>1, <2>2 DEF WebFirst
<1>8. Turns'
  <2>1. Cardinality(held') <= threads'
    <3>1. IsFiniteSet(held) /\ Cardinality(held) \in Nat /\ Cardinality(held) < threads
      BY <1>1, <1>2, HeldFinite DEF ThreadFree
    <3>2. Cardinality(held \cup {Head(io)}) = IF Head(io) \in held THEN Cardinality(held) ELSE Cardinality(held) + 1
      BY <3>1, FS_AddElement
    <3> QED
      BY <1>1, <1>2, <3>1, <3>2
  <2>2. \A i, j \in DOMAIN io' : io'[i] = io'[j] => i = j
    <3> SUFFICES ASSUME NEW i \in DOMAIN io', NEW j \in DOMAIN io', io'[i] = io'[j] PROVE i = j
      OBVIOUS
    <3>1. i + 1 = j + 1 /\ i \in Nat /\ j \in Nat
      BY <1>3, <1>4 DEF Inv, Turns
    <3> QED
      BY <3>1
  <2>3. \A i \in DOMAIN io' : io'[i] \notin held'
    BY <1>1, <1>3, <1>4 DEF Inv, Turns
  <2> QED
    BY <1>1, <1>6, <2>1, <2>2, <2>3 DEF Inv, Turns
<1>9. TypeOK'
  <2>1. TypeOK
    BY DEF Inv
  <2>2. held' \subseteq Place /\ held \subseteq held'
    BY <1>1, <1>2, <1>3
  <2>3. /\ queue' \in [Strand -> Seq([k : Kinds, n : 0..polls'])]
        /\ batch' \in [Strand -> Nat] /\ \A st \in Strand : batch'[st] <= Len(queue'[st])
        /\ timer' = "queued" =>
              ser' # "idle" \/ \E i \in DOMAIN queue'["ser"] : queue'["ser"][i].k = "tick"
    BY <1>1, <2>1 DEF TypeOK
  <2>4. /\ io' \in Seq(Strand \cup {"sig"}) /\ held' \subseteq Strand \cup {"sig"}
        /\ ser' # "idle" => "ser" \in held'
        /\ web' # "idle" => "web" \in held'
    BY <1>1, <1>3, <2>1, <2>2 DEF TypeOK, Place
  <2>5. /\ threads' \in ThreadCounts /\ slowest' \in QueryTimes
        /\ now' \in 0..MaxTime /\ asked' \in 0..now'
        /\ timer' \in {"armed", "queued", "null"} /\ expiry' \in Nat
        /\ ser' \in {"idle", "post", "attach", "wait"}
        /\ web' \in {"idle", "query"} /\ until' \in Nat
        /\ polls' \in Nat /\ attached' \in 0..polls' /\ settled' \in 0..polls'
        /\ portsInfo' \in 0..polls'
        /\ sig' \in [pc : {"none", "queued", "sweep", "delay", "over"}, at : 0..now',
                    tick : BOOLEAN]
        /\ phase' \in {"up", "exited", "crashed"}
    BY <1>1, <2>1 DEF TypeOK
  <2> QED
    BY <2>3, <2>4, <2>5, Zenon DEF TypeOK
<1>10. SigPlace' /\ SerSide' /\ WebSide' /\ Times' /\ OnTime' /\ LastQuery'
  BY <1>1, <1>6 DEF Inv, SigPlace, SerSide, WebSide, Times, OnTime, LastQuery, TickDue, Waiting,
     Queries, SerQ, WebQ, Paced
<1>11. OneQuery'
  BY <1>1, <1>7 DEF Inv, OneQuery, Asking, TickDue, Queries, SerQ, WebQ, Paced
<1>12. Fresh' /\ ExitInTime' /\ CrashOnlyQueuedTick'
  BY <1>1 DEF Inv, Fresh, ExitInTime, CrashOnlyQueuedTick, Paced
<1> QED
  BY <1>8, <1>9, <1>10, <1>11, <1>12 DEF Inv

LEMMA AdvanceOK == Inv /\ Advance => Inv'
<1> SUFFICES ASSUME Inv, Advance PROVE Inv'
  OBVIOUS
<1> USE DEF machine, promise, work
<1>1. /\ phase = "up" /\ ~Urgent /\ now < MaxTime /\ now' = now + 1
      /\ UNCHANGED <<machine, timer, expiry, work, ser, web, until, promise, sig, phase, asked>>
  BY DEF Advance
<1>2. /\ held \subseteq Place /\ threads \in Nat \ {0} /\ slowest \in Nat /\ expiry \in Nat
      /\ now \in Nat /\ asked \in Nat /\ until \in Nat /\ Period \in Nat /\ Period > 0
      /\ Delay \in Nat /\ sig.at \in Nat /\ web \in {"idle", "query"}
      /\ timer \in {"armed", "queued", "null"}
      /\ sig.pc \in {"none", "queued", "sweep", "delay", "over"}
  <2>1. sig.at \in 0..now /\ sig.pc \in {"none", "queued", "sweep", "delay", "over"}
    BY DEF Inv, TypeOK
  <2>2. now \in Nat /\ asked \in 0..now
    BY QueueTyped DEF Inv
  <2>3. asked \in Nat /\ sig.at \in Nat
    BY <2>1, <2>2
  <2>4. web \in {"idle", "query"} /\ timer \in {"armed", "queued", "null"}
    BY DEF Inv, TypeOK
  <2> QED
    BY <2>1, <2>2, <2>3, <2>4, QueueTyped DEF Inv
<1>3. held \subseteq {"web"} /\ ("web" \in held => web = "query" /\ now < until)
  BY <1>1, <1>2 DEF Urgent
<1>4. threads # 1 \/ held = {} => ThreadFree
  <2>1. CASE held = {}
    BY <1>1, <1>2, <2>1, FS_EmptySet DEF ThreadFree
  <2>2. CASE held = {"web"}
    <3>1. Cardinality(held) = 1
      BY <2>2, FS_Singleton
    <3> QED
      BY <1>1, <1>2, <2>2, <3>1 DEF ThreadFree
  <2> QED
    BY <1>3, <2>1, <2>2
<1>5. ThreadFree => io = <<>> /\ ~TimerDue /\ ~DelayDue
  BY <1>1 DEF Urgent
<1>6. ser = "idle" /\ sig.pc # "sweep" /\ (web = "query" => held = {"web"})
  BY <1>3 DEF Inv, SerSide, SigPlace, WebSide
<1>7. ThreadFree => \A x : Scheduled(x) => x = "web" /\ held = {"web"}
  <2>1. io = <<>> => DOMAIN io = {}
    OBVIOUS
  <2> QED
    BY <1>3, <1>5, <2>1 DEF Scheduled
<1>8. ThreadFree => SerQ = <<>> /\ ~TickDue
  BY <1>7 DEF Inv, Turns, Strand, SerQ, TickDue
<1>9. held = {} => WebQ = <<>> /\ Queries = {} /\ ~Waiting /\ web = "idle"
  <2>1. held = {} => WebQ = <<>>
    BY <1>4, <1>7 DEF Inv, Turns, Strand, WebQ
  <2>2. WebQ = <<>> => DOMAIN WebQ = {}
    OBVIOUS
  <2> QED
    BY <1>2, <1>6, <2>1, <2>2 DEF Queries, Waiting
<1>10. web = "query" => now' <= until /\ until <= asked + slowest
  BY <1>1, <1>2, <1>3, <1>6 DEF Inv, Times
<1>11. TypeOK'
  <2>1. now' \in 0..MaxTime /\ 0..now \subseteq 0..now'
    BY <1>1, <1>2, TimesOK
  <2>2. asked' \in 0..now'
    BY <1>1, <2>1 DEF Inv, TypeOK
  <2>3. sig' \in [pc : {"none", "queued", "sweep", "delay", "over"}, at : 0..now',
                  tick : BOOLEAN]
    BY <1>1, <2>1 DEF Inv, TypeOK
  <2> QED
    BY <1>1, <2>1, <2>2, <2>3 DEF Inv, TypeOK
<1>12. Turns' /\ SerSide' /\ WebSide' /\ OneQuery' /\ CrashOnlyQueuedTick'
  BY <1>1 DEF Inv, Turns, SerSide, WebSide, OneQuery, CrashOnlyQueuedTick, Scheduled, Asking,
     TickDue, Queries, WebFirst, SerQ, WebQ, Paced
<1>13. SigPlace'
  BY <1>1, <1>6 DEF Inv, SigPlace, Scheduled
<1>14. ~(held = {}) => web = "query"
  BY <1>3
<1>15. Waiting' <=> Waiting
  BY <1>1 DEF Waiting, Queries, WebQ
<1>16. TickDue' <=> TickDue
  BY <1>1 DEF TickDue, SerQ
<1>17. Times'
  <2>1. timer # "null" => expiry <= now + Period
    BY DEF Inv, Times
  <2>2. timer # "null" /\ TickDue => expiry <= now
    BY <1>6 DEF Inv, Times
  <2>3. timer # "null" /\ ~Waiting => expiry <= asked + Period
    BY <1>6 DEF Inv, Times
  <2>4. expiry <= now => expiry <= now'
    BY <1>1, <1>2
  <2>5. expiry <= now + Period => expiry <= now' + Period
    BY <1>1, <1>2
  <2> QED
    BY <1>1, <1>10, <1>15, <1>16, <2>1, <2>2, <2>3, <2>4, <2>5 DEF Times
<1>18. OnTime'
  <2> SUFFICES ASSUME threads # 1, slowest < Period, timer # "null" PROVE OnTime'
    BY <1>1 DEF OnTime
  <2>1. ThreadFree /\ ~TickDue
    BY <1>4, <1>8
  <2>2. timer = "armed" => now' <= expiry
    BY <1>1, <1>2, <1>5, <2>1 DEF TimerDue
  <2>3. Queries # {} => web = "query"
    BY <1>9, <1>14
  <2>4. web = "query" => until + Period <= expiry + slowest
    BY DEF Inv, OnTime
  <2>5. Queries' = Queries
    BY <1>1 DEF Queries, WebQ
  <2> QED
    BY <1>1, <1>6, <1>16, <2>1, <2>2, <2>3, <2>4, <2>5 DEF OnTime
<1>19. Paced => ~Waiting
  <2>1. CASE web = "query"
    BY <2>1 DEF Inv, OneQuery, WebSide, Waiting
  <2> QED
    BY <1>9, <1>14, <2>1
<1>20. LastQuery'
  BY <1>1, <1>6, <1>15, <1>19 DEF Inv, LastQuery, Paced
<1>21. Larger(Period, slowest) \in Nat /\ Larger(Period, slowest) >= Period
       /\ Larger(Period, slowest) >= slowest
       /\ Larger(Delay, slowest) \in Nat /\ Larger(Delay, slowest) >= Delay
       /\ Larger(Delay, slowest) >= slowest
  BY <1>2 DEF Larger
<1>22. Fresh'
  <2> SUFFICES ASSUME sig.pc \in {"none", "queued"}
               PROVE  now' - asked <= Larger(Period, slowest)
    BY <1>1 DEF Fresh, Larger
  <2>1. CASE held = {}
    <3>1. timer = "armed"
      BY <1>2, <1>4, <1>8, <2>1 DEF Inv, SerSide
    <3>2. now < expiry /\ expiry <= asked + Period
      BY <1>2, <1>4, <1>5, <1>6, <1>9, <2>1, <3>1 DEF Inv, Times, TimerDue
    <3> QED
      BY <1>1, <1>2, <1>21, <3>2
  <2>2. CASE web = "query"
    BY <1>1, <1>2, <1>10, <1>21, <2>2
  <2> QED
    BY <1>14, <2>1, <2>2
<1>23. ExitInTime'
  <2> SUFFICES ASSUME Paced, sig.pc \in {"delay", "over"}
               PROVE  now' - sig.at <= Larger(Delay, slowest)
    BY <1>1 DEF ExitInTime, Larger, Paced
  <2>1. timer = "null" /\ asked <= sig.at
    BY DEF Inv, SerSide, LastQuery
  <2>2. CASE held = {}
    <3>1. sig.pc = "over" => DOMAIN WebQ # {}
      BY DEF Inv, WebSide
    <3>2. WebQ = <<>>
      BY <1>9, <2>2
    <3>3. sig.pc = "delay"
      BY <3>1, <3>2
    <3>4. now < sig.at + Delay
      BY <1>2, <1>4, <1>5, <2>2, <3>3 DEF DelayDue
    <3> QED
      BY <1>1, <1>2, <1>21, <3>4
  <2>3. CASE web = "query"
    BY <1>1, <1>2, <1>10, <1>21, <2>1, <2>3
  <2> QED
    BY <1>14, <2>2, <2>3
<1> QED
  BY <1>11, <1>12, <1>13, <1>17, <1>18, <1>20, <1>22, <1>23 DEF Inv

LEMMA TimerExpiresOK == Inv /\ TimerExpires => Inv'
<1> SUFFICES ASSUME Inv, TimerExpires PROVE Inv'
  OBVIOUS
<1> USE DEF machine, promise, work
<1>1. /\ ThreadFree /\ TimerDue /\ timer' = "queued" /\ Post("ser", Handler("tick", 0))
      /\ UNCHANGED <<machine, now, expiry, ser, web, until, promise, sig, phase, asked>>
  BY DEF TimerExpires
<1> DEFINE h == Handler("tick", 0)
<1>2. h \in H /\ h.k = "tick" /\ "ser" \in Strand /\ "web" \in Strand
  BY QueueTyped DEF Inv, Handler, H, Kinds, Strand
<1> HIDE DEF h
<1>3. /\ queue' \in [Strand -> Seq(H)] /\ batch' \in [Strand -> Nat]
      /\ io' \in Seq(Place) /\ held' = held /\ Turns'
      /\ SerQ' = Append(SerQ, h) /\ WebQ' = WebQ
      /\ \A x : Scheduled(x)' <=> Scheduled(x) \/ x = "ser"
      /\ SerQ = <<>> /\ (\E i \in DOMAIN io : io[i] = "web") => WebFirst'
      /\ \A x \in Strand : batch'[x] <= Len(queue'[x])
  <2>1. queue \in [Strand -> Seq(H)] /\ threads' = threads
    BY <1>1, QueueTyped DEF Inv
  <2>2. Post("ser", h)
    BY <1>1 DEF h
  <2> QED
    BY <1>2, <2>1, <2>2, PostedSer
<1>4. timer = "armed" /\ expiry <= now /\ SerQ = <<>> /\ ser = "idle" /\ ~TickDue
  <2>1. timer = "armed" /\ now >= expiry /\ SerQ = <<>>
    BY <1>1 DEF TimerDue, Inv, SerSide
  <2>2. ~TickDue
    BY <2>1 DEF TickDue
  <2> QED
    BY <2>1, <2>2, QueueTyped DEF Inv, SerSide
<1>5. Len(SerQ') = 1 /\ SerQ' # <<>> /\ Head(SerQ') = h /\ TickDue'
  BY <1>2, <1>3, <1>4, SerAppended DEF TickDue
<1>6. Queries' = Queries /\ (Waiting' <=> Waiting)
  BY <1>1, <1>3 DEF Queries, Waiting
<1>7. TypeOK'
  <2>1. H' = H
    BY <1>1 DEF H
  <2>2. \E i \in DOMAIN queue'["ser"] : queue'["ser"][i].k = "tick"
    BY <1>2, <1>3, <1>4, <1>5 DEF SerQ
  <2> QED
    BY <1>1, <1>3, <2>1, <2>2 DEF Inv, TypeOK, H, Place
<1>8. SigPlace'
  BY <1>1, <1>3 DEF Inv, SigPlace
<1>9. SerSide'
  BY <1>1, <1>3, <1>4, <1>5 DEF Inv, SerSide
<1>10. WebSide'
  BY <1>1, <1>3, <1>6 DEF Inv, WebSide
<1>11. Times'
  BY <1>1, <1>4, <1>5, <1>6 DEF Inv, Times
<1>12. OnTime' /\ (threads # 1 /\ slowest < Period => Queries = {})
  <2>1. CASE threads # 1 /\ slowest < Period
    <3>1. now <= expiry /\ now = expiry
      BY <1>4, <2>1, QueueTyped DEF Inv, OnTime
    <3>2. Queries = {}
      <4>1. CASE web = "idle"
        BY <1>4, <2>1, <3>1, <4>1, QueueTyped DEF Inv, OnTime
      <4>2. CASE web = "query"
        BY <1>4, <2>1, <3>1, <4>2, QueueTyped DEF Inv, OnTime, Times
      <4> QED
        BY <4>1, <4>2 DEF Inv, TypeOK
    <3>3. web # "query"
      BY <3>2 DEF Inv, WebSide
    <3> QED
      BY <1>1, <1>4, <1>6, <2>1, <3>1, <3>2, <3>3 DEF OnTime
  <2>2. CASE ~(threads # 1 /\ slowest < Period)
    BY <1>1, <2>2 DEF OnTime
  <2> QED
    BY <2>1, <2>2
<1>13. OneQuery'
  <2> SUFFICES ASSUME Paced PROVE OneQuery'
    BY <1>1 DEF OneQuery, Paced
  <2>1. \A i, j \in Queries' : i = j
    BY <1>6 DEF Inv, OneQuery
  <2>2. Queries' = {} \/ (threads = 1 /\ WebFirst')
    <3>1. CASE threads = 1 /\ Queries # {}
      <4>1. held = {}
        <5>1. IsFiniteSet(held) /\ Cardinality(held) = 0
          BY <1>1, <3>1, HeldFinite, QueueTyped DEF Inv, ThreadFree
        <5> QED
          BY <5>1, FS_EmptySet
      <4>2. WebQ # <<>>
        BY <3>1 DEF Queries
      <4>3. \E i \in DOMAIN io : io[i] = "web"
        BY <1>2, <4>1, <4>2 DEF Inv, Turns, Scheduled, WebQ
      <4> QED
        BY <1>3, <1>4, <3>1, <4>3
    <3> QED
      BY <1>6, <1>12, <3>1 DEF Paced
  <2> QED
    BY <1>1, <2>1, <2>2 DEF OneQuery
<1>14. LastQuery' /\ Fresh' /\ ExitInTime' /\ CrashOnlyQueuedTick'
  BY <1>1, <1>4, <1>6 DEF Inv, SerSide, LastQuery, Fresh, ExitInTime, CrashOnlyQueuedTick, Paced
<1> QED
  BY <1>3, <1>7, <1>8, <1>9, <1>10, <1>11, <1>12, <1>13, <1>14 DEF Inv

LEMMA DelayExpiresOK == Inv /\ DelayExpires => Inv'
<1> SUFFICES ASSUME Inv, DelayExpires PROVE Inv'
  OBVIOUS
<1> USE DEF machine, promise, work
<1>1. /\ ThreadFree /\ DelayDue /\ sig' = [sig EXCEPT !.pc = "over"]
      /\ Post("web", Handler("exit", 0))
      /\ UNCHANGED <<machine, now, timer, expiry, ser, web, until, promise, phase, asked>>
  BY DEF DelayExpires
<1> DEFINE h == Handler("exit", 0)
<1>2. h \in H /\ h.k = "exit" /\ "ser" \in Strand /\ "web" \in Strand
  BY QueueTyped DEF Inv, Handler, H, Kinds, Strand
<1> HIDE DEF h
<1>3. /\ queue' \in [Strand -> Seq(H)] /\ batch' \in [Strand -> Nat]
      /\ io' \in Seq(Place) /\ held' = held /\ Turns'
      /\ WebQ' = Append(WebQ, h) /\ SerQ' = SerQ
      /\ WebFirst => WebFirst'
      /\ \A x \in Strand : batch'[x] <= Len(queue'[x])
  <2>1. queue \in [Strand -> Seq(H)] /\ threads' = threads
    BY <1>1, QueueTyped DEF Inv
  <2>2. Post("web", h)
    BY <1>1 DEF h
  <2> QED
    BY <1>2, <2>1, <2>2, PostedWeb
<1>4. /\ sig.pc = "delay" /\ sig'.pc = "over" /\ sig'.at = sig.at /\ sig'.tick = sig.tick
      /\ sig' \in [pc : {"none", "queued", "sweep", "delay", "over"}, at : 0..now,
                   tick : BOOLEAN]
  BY <1>1 DEF DelayDue, Inv, TypeOK
<1>5. /\ Queries' = Queries /\ \A i \in Queries : WebQ'[i] = WebQ[i]
      /\ \E i \in DOMAIN WebQ' : WebQ'[i].k = "exit"
  BY <1>2, <1>3, QueueTyped, WebAppended DEF Inv
<1>6. (Waiting' <=> Waiting) /\ (TickDue' <=> TickDue) /\ (Asking' <=> Asking)
  BY <1>1, <1>3, <1>5 DEF Waiting, TickDue, Asking
<1>7. TypeOK'
  <2>1. H' = H
    BY <1>1 DEF H
  <2>2. (\E i \in DOMAIN queue["ser"] : queue["ser"][i].k = "tick")
        => \E i \in DOMAIN queue'["ser"] : queue'["ser"][i].k = "tick"
    BY <1>3 DEF SerQ
  <2> QED
    BY <1>1, <1>3, <1>4, <2>1, <2>2 DEF Inv, TypeOK, H, Place
<1>8. SigPlace' /\ SerSide'
  BY <1>1, <1>3, <1>4, <1>6 DEF Inv, SigPlace, SerSide
<1>9. WebSide'
  BY <1>1, <1>3, <1>5 DEF Inv, WebSide
<1>10. Times' /\ OnTime' /\ LastQuery'
  BY <1>1, <1>4, <1>5, <1>6 DEF Inv, Times, OnTime, LastQuery, Paced
<1>11. OneQuery'
  BY <1>1, <1>3, <1>5, <1>6 DEF Inv, OneQuery, Paced
<1>12. Fresh' /\ ExitInTime' /\ CrashOnlyQueuedTick'
  BY <1>1, <1>4 DEF Inv, Fresh, ExitInTime, CrashOnlyQueuedTick, Paced
<1> QED
  BY <1>3, <1>7, <1>8, <1>9, <1>10, <1>11, <1>12 DEF Inv

LEMMA TickOK == Inv /\ Tick => Inv'
<1> SUFFICES ASSUME Inv, Tick PROVE Inv'
  OBVIOUS
<1> USE DEF machine, promise, work
<1>1. /\ TickDue /\ "ser" \in held /\ ser = "idle" /\ phase = "up"
      /\ IF timer = "null" THEN phase' = "crashed" /\ UNCHANGED <<expiry, ser>>
         ELSE expiry' = expiry + Period /\ ser' = "post" /\ UNCHANGED phase
      /\ UNCHANGED <<machine, now, timer, work, web, until, promise, sig, asked>>
  <2>1. "ser" \in held => SerQ # <<>>
    BY DEF Inv, Turns, Strand, Scheduled, SerQ
  <2> QED
    BY <2>1 DEF Tick, SerStarts, Runs, TickDue, SerQ
<1>2. /\ Queries' = Queries /\ (Waiting' <=> Waiting) /\ TickDue' /\ Asking
      /\ (WebFirst' <=> WebFirst) /\ WebQ' = WebQ /\ SerQ' = SerQ
  BY <1>1 DEF Queries, Waiting, TickDue, Asking, WebFirst, WebQ, SerQ
<1>3. Turns' /\ SigPlace' /\ OneQuery'
  BY <1>1, <1>2 DEF Inv, Turns, SigPlace, OneQuery, Scheduled, Paced
<1>4. CASE timer = "null"
  <2>1. phase' = "crashed" /\ expiry' = expiry /\ ser' = ser
    BY <1>1, <1>4
  <2>2. TypeOK'
    BY <1>1, <2>1 DEF Inv, TypeOK
  <2>3. SerSide' /\ WebSide' /\ Times' /\ OnTime' /\ LastQuery'
    BY <1>1, <1>2, <2>1 DEF Inv, SerSide, WebSide, Times, OnTime, LastQuery, Paced
  <2>4. Fresh' /\ ExitInTime' /\ CrashOnlyQueuedTick'
    BY <1>1, <1>4, <2>1 DEF Inv, SerSide, Fresh, ExitInTime, CrashOnlyQueuedTick
  <2> QED
    BY <1>3, <2>2, <2>3, <2>4 DEF Inv
<1>5. CASE timer # "null"
  <2>1. /\ expiry' = expiry + Period /\ ser' = "post" /\ phase' = phase
        /\ expiry \in Nat /\ Period \in Nat /\ expiry' \in Nat /\ now \in Nat /\ now' = now
        /\ until \in Nat /\ slowest \in Nat
    BY <1>1, <1>5, QueueTyped DEF Inv
  <2>2. TypeOK'
    BY <1>1, <2>1 DEF Inv, TypeOK
  <2>3. timer = "queued" /\ expiry <= now
    BY <1>1, <1>5 DEF Inv, TypeOK, SerSide, TickDue, Times
  <2>4. SerSide' /\ WebSide'
    BY <1>1, <1>2, <2>1, <2>3 DEF Inv, SerSide, WebSide
  <2>5. Times'
    BY <1>1, <2>1, <2>3 DEF Inv, Times
  <2>6. OnTime'
    <3> SUFFICES ASSUME threads # 1, slowest < Period PROVE OnTime'
      BY <1>1 DEF OnTime
    <3>1. now <= expiry
      BY <1>1, <1>5 DEF Inv, OnTime
    <3>2. Queries = {} /\ web # "query"
      BY <1>2 DEF Inv, OneQuery, WebSide, Paced
    <3> QED
      BY <1>1, <1>2, <2>1, <2>3, <3>1, <3>2 DEF OnTime
  <2>7. LastQuery' /\ Fresh' /\ ExitInTime' /\ CrashOnlyQueuedTick'
    BY <1>1, <1>5, <2>1 DEF Inv, LastQuery, Fresh, ExitInTime, CrashOnlyQueuedTick, Paced
  <2> QED
    BY <1>3, <2>2, <2>4, <2>5, <2>6, <2>7 DEF Inv
<1> QED
  BY <1>4, <1>5

LEMMA TickAbortedOK == Inv /\ TickAborted => Inv'
<1> SUFFICES ASSUME Inv, TickAborted PROVE Inv'
  OBVIOUS
<1> USE DEF machine, promise, work
<1>1. /\ "ser" \in held /\ ser = "idle" /\ Head(SerQ).k = "aborted" /\ Finish("ser")
      /\ UNCHANGED <<machine, now, timer, expiry, ser, web, until, promise, sig, phase, asked>>
  BY DEF TickAborted, SerStarts, Runs, SerQ
<1>2. "ser" \in Strand /\ "web" \in Strand
  BY DEF Strand
<1>3. /\ queue' \in [Strand -> Seq(H)] /\ batch' \in [Strand -> Nat]
      /\ io' \in Seq(Place) /\ held' \subseteq held /\ held \ {"ser"} \subseteq held' /\ Turns'
      /\ SerQ # <<>> /\ SerQ' = Tail(SerQ) /\ WebQ' = WebQ
      /\ \A x : x # "ser" => (Scheduled(x)' <=> Scheduled(x))
      /\ \A x \in Strand : batch'[x] <= Len(queue'[x])
  BY <1>1, <1>2, QueueTyped, FinishOK DEF Inv, SerQ, WebQ, Strand
<1>4. SerQ' = <<>> /\ Len(SerQ') = 0 /\ ~TickDue' /\ ~TickDue
  BY <1>1, <1>3, QueueTyped, SerTaken DEF Inv, SerSide, TickDue
<1>5. Queries' = Queries /\ (Waiting' <=> Waiting) /\ ~Asking'
  BY <1>1, <1>3, <1>4 DEF Queries, Waiting, Asking
<1>6. TypeOK'
  <2>1. H' = H
    BY <1>1 DEF H
  <2>2. timer # "queued"
    BY <1>4 DEF Inv, SerSide
  <2>3. web # "idle" => "web" \in held'
    BY <1>3 DEF Inv, TypeOK
  <2> QED
    BY <1>1, <1>3, <2>1, <2>2, <2>3 DEF Inv, TypeOK, H, Place
<1>7. SigPlace' /\ SerSide' /\ WebSide'
  BY <1>1, <1>3, <1>4, <1>5 DEF Inv, SigPlace, SerSide, WebSide
<1>8. Times' /\ OnTime' /\ LastQuery' /\ OneQuery'
  BY <1>1, <1>3, <1>4, <1>5 DEF Inv, Times, OnTime, LastQuery, OneQuery, Paced
<1>9. Fresh' /\ ExitInTime' /\ CrashOnlyQueuedTick'
  BY <1>1 DEF Inv, Fresh, ExitInTime, CrashOnlyQueuedTick, Paced
<1> QED
  BY <1>3, <1>6, <1>7, <1>8, <1>9 DEF Inv

LEMMA FindOK == Inv /\ Find => Inv'
<1> SUFFICES ASSUME Inv, Find PROVE Inv'
  OBVIOUS
<1> USE DEF machine, work
<1>1. /\ phase = "up" /\ ser = "post" /\ polls' = polls + 1
      /\ Post("web", Handler("query", polls + 1)) /\ ser' = "attach"
      /\ UNCHANGED <<machine, now, timer, expiry, web, until, attached, settled, portsInfo, sig,
                     phase, asked>>
  BY DEF Find
<1>2. polls \in Nat /\ polls' \in Nat /\ 0..polls \subseteq 0..polls' /\ polls' \in 0..polls'
      /\ settled \in 0..polls /\ portsInfo \in 0..polls /\ attached \in 0..polls
  <2>1. polls \in Nat /\ settled \in 0..polls /\ portsInfo \in 0..polls /\ attached \in 0..polls
    BY DEF Inv, TypeOK
  <2> QED
    BY <1>1, <2>1
<1> DEFINE h == Handler("query", polls + 1)
           HN == [k : Kinds, n : 0..polls']
<1>3. h \in HN /\ h.k = "query" /\ h.n = polls' /\ "ser" \in Strand /\ "web" \in Strand
      /\ H \subseteq HN
  BY <1>1, <1>2 DEF Handler, H, Kinds, Strand
<1>4. H' = HN
  BY DEF H
<1> HIDE DEF h, HN
<1>5. queue \in [Strand -> Seq(HN)]
  <2>1. ASSUME NEW q \in Seq(H) PROVE q \in Seq(HN)
    BY <1>3, <2>1
  <2>2. queue \in [Strand -> Seq(H)]
    BY QueueTyped DEF Inv
  <2> DEFINE A == Seq(H)
             B == Seq(HN)
  <2>3. queue \in [Strand -> A] /\ \A q \in A : q \in B
    BY <2>1, <2>2
  <2> HIDE DEF A, B
  <2>4. queue \in [Strand -> B]
    BY <2>3
  <2> QED
    BY <2>4 DEF B
<1>6. /\ queue' \in [Strand -> Seq(HN)] /\ batch' \in [Strand -> Nat]
      /\ io' \in Seq(Place) /\ held' = held /\ Turns'
      /\ WebQ' = Append(WebQ, h) /\ SerQ' = SerQ
      /\ \A x \in Strand : batch'[x] <= Len(queue'[x])
      /\ WebQ \in Seq(HN)
      /\ \A x : Scheduled(x)' <=> Scheduled(x) \/ x = "web"
  <2>1. Post("web", h) /\ threads' = threads
    BY <1>1 DEF h
  <2> QED
    BY <1>3, <1>5, <2>1, PostedWeb
<1> DEFINE n == Len(WebQ) + 1
<1>7. /\ Queries' = Queries \cup {n}
      /\ \A i \in Queries : i < n /\ WebQ'[i] = WebQ[i]
      /\ WebQ'[n] = h
      /\ (\E i \in DOMAIN WebQ : WebQ[i].k = "exit") => \E i \in DOMAIN WebQ' : WebQ'[i].k = "exit"
      /\ n \in Nat
  <2>1. Len(WebQ) \in Nat
    BY <1>6, AppendFacts
  <2>2. /\ Queries' = IF h.k = "query" THEN Queries \cup {Len(WebQ) + 1} ELSE Queries
        /\ \A i \in Queries : i < Len(WebQ) + 1 /\ WebQ'[i] = WebQ[i]
        /\ WebQ'[Len(WebQ) + 1] = h
        /\ (\E i \in DOMAIN WebQ : WebQ[i].k = "exit") \/ h.k = "exit"
           => \E i \in DOMAIN WebQ' : WebQ'[i].k = "exit"
    BY <1>3, <1>6, WebAppended
  <2> QED
    BY <1>3, <2>1, <2>2
<1> HIDE DEF n
<1>8. /\ TickDue /\ TickDue' /\ "ser" \in held /\ Asking /\ ~Asking'
  BY <1>1, <1>6 DEF Inv, SerSide, TickDue, Asking
<1>9. \A i \in Queries : WebQ[i].n \in 0..polls /\ i \in Nat
  <2>1. WebQ \in Seq(H)
    BY QueueTyped DEF Inv
  <2>2. Queries \subseteq 1..Len(WebQ) /\ Len(WebQ) \in Nat
    BY <2>1, EmptyFacts DEF Queries
  <2>3. \A i \in 1..Len(WebQ) : WebQ[i] \in H
    BY <2>1
  <2> QED
    BY <2>2, <2>3 DEF H
<1>10. Paced => Queries = {} /\ Queries' = {n} /\ web = "idle"
  <2>1. Paced => Queries = {}
    <3> SUFFICES ASSUME Paced, threads = 1, WebFirst PROVE FALSE
      BY <1>8 DEF Inv, OneQuery
    <3>1. "web" \in held
      BY <1>8 DEF WebFirst, Inv, Turns
    <3> QED
      BY <1>8, <3>1, OneThread
  <2> QED
    BY <1>7, <2>1 DEF Inv, WebSide, TypeOK
<1>11. TypeOK'
  <2>1. (\E i \in DOMAIN queue["ser"] : queue["ser"][i].k = "tick")
        => \E i \in DOMAIN queue'["ser"] : queue'["ser"][i].k = "tick"
    BY <1>6 DEF SerQ
  <2>2. polls' \in Nat /\ attached' \in 0..polls' /\ settled' \in 0..polls' /\ portsInfo' \in 0..polls'
    BY <1>1, <1>2
  <2>3. queue' \in [Strand -> Seq([k : Kinds, n : 0..polls'])]
    BY <1>6 DEF HN
  <2> QED
    BY <1>1, <1>6, <1>8, <2>1, <2>2, <2>3 DEF Inv, TypeOK, Place
<1>12. SigPlace'
  <2>1. ASSUME sig.pc = "none" PROVE ~Scheduled("sig")'
    BY <1>6, <2>1 DEF Inv, SigPlace
  <2> QED
    BY <1>1, <1>6, <2>1 DEF Inv, SigPlace
<1>13. SerSide'
  BY <1>1, <1>6, <1>8 DEF Inv, SerSide
<1>14. WebSide'
  <2>1. \A i \in Queries' : settled' < WebQ'[i].n /\ portsInfo' < WebQ'[i].n
    BY <1>1, <1>2, <1>3, <1>7 DEF Inv, WebSide
  <2>2. \A i, j \in Queries' : i < j => WebQ'[i].n < WebQ'[j].n
    <3> SUFFICES ASSUME NEW i \in Queries', NEW j \in Queries', i < j
                 PROVE  WebQ'[i].n < WebQ'[j].n
      OBVIOUS
    <3>1. CASE j = n
      <4>1. i \in Queries
        BY <1>7, <3>1
      <4> QED
        <5>1. WebQ'[j].n = polls + 1
          BY <1>1, <1>3, <1>7, <3>1
        <5>2. WebQ'[i] = WebQ[i] /\ WebQ[i].n \in 0..polls
          BY <1>7, <1>9, <4>1
        <5>3. polls \in Nat
          BY <1>2
        <5> QED
          BY <5>1, <5>2, <5>3
    <3>2. CASE j \in Queries
      <4>1. j < n /\ j \in Nat
        BY <1>7, <1>9, <3>2
      <4>2. i # n
        BY <1>7, <4>1
      <4> QED
        BY <1>7, <3>2, <4>2 DEF Inv, WebSide
    <3> QED
      BY <1>7, <3>1, <3>2
  <2>3. settled' < polls'
    BY <1>1, <1>2
  <2> QED
    BY <1>1, <1>6, <1>7, <2>1, <2>2, <2>3 DEF Inv, WebSide
<1>15. Times' /\ CrashOnlyQueuedTick' /\ Fresh' /\ ExitInTime'
  <2>1. web = "idle" => Waiting'
    BY <1>1, <1>7 DEF Waiting
  <2>2. web = "query" => Waiting'
    <3>1. web = "query" => 1 \in Queries
      BY DEF Inv, WebSide
    <3>2. 1 \in Queries => n # 1
      BY <1>7
    <3> QED
      BY <1>7, <3>1, <3>2 DEF Waiting
  <2>3. Waiting'
    BY <2>1, <2>2 DEF Inv, TypeOK
  <2>4. Times'
    BY <1>1, <1>8, <2>3 DEF Inv, Times
  <2>5. CrashOnlyQueuedTick' /\ Fresh' /\ ExitInTime'
    BY <1>1 DEF Inv, CrashOnlyQueuedTick, Fresh, ExitInTime, Paced
  <2> QED
    BY <2>4, <2>5
<1>16. OneQuery'
  BY <1>1, <1>8, <1>10 DEF Inv, OneQuery, Paced
<1>17. OnTime' /\ LastQuery'
  BY <1>1, <1>8, <1>10 DEF Inv, OnTime, LastQuery, Paced, SerSide
<1> QED
  BY <1>6, <1>11, <1>12, <1>13, <1>14, <1>15, <1>16, <1>17 DEF Inv

LEMMA ThenOK == Inv /\ Then => Inv'
<1> SUFFICES ASSUME Inv, Then PROVE Inv'
  OBVIOUS
<1> USE DEF machine, work
<1>1. /\ phase = "up" /\ ser = "attach" /\ attached' = polls /\ ser' = "wait"
      /\ portsInfo' = IF settled = polls THEN polls ELSE portsInfo
      /\ UNCHANGED <<machine, now, timer, expiry, work, web, until, polls, settled, sig, phase, asked>>
  BY DEF Then
<1>2. /\ Queries' = Queries /\ (Waiting' <=> Waiting) /\ (TickDue' <=> TickDue) /\ ~Asking'
      /\ (WebFirst' <=> WebFirst) /\ WebQ' = WebQ /\ SerQ' = SerQ
  BY <1>1 DEF Queries, Waiting, TickDue, Asking, WebFirst, WebQ, SerQ
<1>3. TypeOK'
  <2>1. polls \in Nat /\ portsInfo \in 0..polls
    BY DEF Inv, TypeOK
  <2>2. portsInfo' \in 0..polls /\ attached' \in 0..polls
    BY <1>1, <2>1
  <2> QED
    BY <1>1, <2>2 DEF Inv, TypeOK
<1>4. Turns' /\ SigPlace' /\ OneQuery' /\ SerSide'
  BY <1>1, <1>2 DEF Inv, Turns, SigPlace, OneQuery, SerSide, Scheduled, Paced
<1>5. WebSide'
  BY <1>1, <1>2 DEF Inv, WebSide
<1>6. Times' /\ OnTime' /\ LastQuery'
  BY <1>1, <1>2 DEF Inv, Times, OnTime, LastQuery, Paced
<1>7. Fresh' /\ ExitInTime' /\ CrashOnlyQueuedTick'
  BY <1>1 DEF Inv, Fresh, ExitInTime, CrashOnlyQueuedTick, Paced
<1> QED
  BY <1>3, <1>4, <1>5, <1>6, <1>7 DEF Inv

LEMMA WaitOK == Inv /\ Wait => Inv'
<1> SUFFICES ASSUME Inv, Wait PROVE Inv'
  OBVIOUS
<1> USE DEF machine, promise, work
<1>1. /\ phase = "up" /\ ser = "wait" /\ ser' = "idle" /\ Finish("ser")
      /\ IF timer = "null" THEN phase' = "crashed" /\ UNCHANGED timer
         ELSE timer' = "armed" /\ UNCHANGED phase
      /\ UNCHANGED <<machine, now, expiry, web, until, promise, sig, asked>>
  BY DEF Wait
<1>2. "ser" \in Strand /\ "web" \in Strand /\ "ser" \in held /\ TickDue
  BY <1>1 DEF Strand, Inv, SerSide
<1>3. /\ queue' \in [Strand -> Seq(H)] /\ batch' \in [Strand -> Nat]
      /\ io' \in Seq(Place) /\ held' \subseteq held /\ held \ {"ser"} \subseteq held' /\ Turns'
      /\ SerQ # <<>> /\ SerQ' = Tail(SerQ) /\ WebQ' = WebQ
      /\ \A x : x # "ser" => (Scheduled(x)' <=> Scheduled(x))
      /\ \A x \in Strand : batch'[x] <= Len(queue'[x])
  BY <1>1, <1>2, QueueTyped, FinishOK DEF Inv, SerQ, WebQ, Strand
<1>4. SerQ' = <<>> /\ Len(SerQ') = 0 /\ ~TickDue'
  BY <1>3, QueueTyped, SerTaken DEF Inv, SerSide
<1>5. Queries' = Queries /\ (Waiting' <=> Waiting) /\ ~Asking'
  BY <1>1, <1>3, <1>4 DEF Queries, Waiting, Asking
<1>6. /\ timer' \in {"armed", "null"} /\ phase' \in {"up", "crashed"}
      /\ timer' = "null" <=> timer = "null"
      /\ phase' = "crashed" => timer = "null"
  BY <1>1
<1>7. TypeOK'
  <2>1. H' = H
    BY <1>1 DEF H
  <2>2. web # "idle" => "web" \in held'
    BY <1>3 DEF Inv, TypeOK
  <2> QED
    BY <1>1, <1>3, <1>6, <2>1, <2>2 DEF Inv, TypeOK, H, Place
<1>8. SigPlace' /\ WebSide'
  BY <1>1, <1>3, <1>5 DEF Inv, SigPlace, WebSide
<1>9. SerSide'
  BY <1>1, <1>4, <1>6 DEF Inv, SerSide
<1>10. Times' /\ OneQuery' /\ LastQuery'
  BY <1>1, <1>3, <1>4, <1>5, <1>6 DEF Inv, Times, LastQuery, OneQuery, Paced
<1>11. OnTime'
  <2>1. threads # 1 /\ slowest < Period /\ timer # "null" => now <= expiry
    BY <1>1, QueueTyped DEF Inv, OnTime
  <2> QED
    BY <1>1, <1>4, <1>5, <1>6, <2>1 DEF Inv, OnTime
<1>12. Fresh' /\ ExitInTime' /\ CrashOnlyQueuedTick'
  BY <1>1, <1>2, <1>6 DEF Inv, SerSide, Fresh, ExitInTime, CrashOnlyQueuedTick, Paced
<1> QED
  BY <1>3, <1>7, <1>8, <1>9, <1>10, <1>11, <1>12 DEF Inv

LEMMA QueryBeginsOK == Inv /\ QueryBegins => Inv'
<1> SUFFICES ASSUME Inv, QueryBegins PROVE Inv'
  OBVIOUS
<1> USE DEF machine, promise, work
<1>1. /\ phase = "up" /\ "web" \in held /\ Head(WebQ).k = "query" /\ web = "idle"
      /\ asked' = now /\ web' = "query" /\ until' \in now..(now + slowest)
      /\ UNCHANGED <<machine, now, timer, expiry, work, ser, promise, sig, phase>>
  BY DEF QueryBegins, Runs, WebQ
<1>2. 1 \in Queries
  <2>1. WebQ # <<>> /\ WebQ \in Seq(H)
    BY <1>1, QueueTyped DEF Inv, Turns, Strand, Scheduled, WebQ
  <2>2. Head(WebQ) = WebQ[1] /\ Len(WebQ) \in Nat /\ Len(WebQ) >= 1 /\ DOMAIN WebQ = 1..Len(WebQ)
    BY <2>1, TailFacts
  <2> QED
    BY <1>1, <2>2 DEF Queries
<1>3. now \in Nat /\ slowest \in Nat /\ until' \in Nat /\ now <= until' /\ until' <= now + slowest
      /\ expiry \in Nat /\ Period \in Nat /\ asked \in 0..now
  <2>1. now \in Nat /\ slowest \in Nat
    BY QueueTyped DEF Inv
  <2> QED
    BY <1>1, <2>1, QueueTyped DEF Inv
<1>4. /\ Queries' = Queries /\ (TickDue' <=> TickDue) /\ (Asking' <=> Asking)
      /\ (WebFirst' <=> WebFirst) /\ WebQ' = WebQ /\ SerQ' = SerQ
      /\ Waiting /\ (Waiting' => \E i \in Queries : i # 1)
  BY <1>1, <1>2 DEF Queries, Waiting, TickDue, Asking, WebFirst, WebQ, SerQ
<1>5. TypeOK'
  <2>1. asked' \in 0..now
    BY <1>1, <1>3
  <2> QED
    BY <1>1, <1>3, <2>1 DEF Inv, TypeOK
<1>6. Turns' /\ SigPlace' /\ SerSide' /\ WebSide' /\ OneQuery'
  BY <1>1, <1>2, <1>4 DEF Inv, Turns, SigPlace, SerSide, WebSide, OneQuery, Scheduled, Paced
<1>7. Times'
  BY <1>1, <1>3, <1>4 DEF Inv, Times
<1>8. OnTime'
  <2>1. threads # 1 /\ slowest < Period /\ timer # "null" => now + Period <= expiry
    BY <1>1, <1>2 DEF Inv, OnTime
  <2>2. now + Period <= expiry => until' + Period <= expiry + slowest
    <3>1. \A u, n, s, p, e \in Nat : u <= n + s /\ n + p <= e => u + p <= e + s
      OBVIOUS
    <3> QED
      BY <1>3, <3>1
  <2> QED
    BY <1>1, <1>4, <2>1, <2>2 DEF Inv, OnTime
<1>9. LastQuery'
  <2>1. Paced => ~Waiting'
    BY <1>2, <1>4 DEF Inv, OneQuery
  <2>2. Paced /\ timer = "null" => now = sig.at
    BY <1>4 DEF Inv, LastQuery
  <2> QED
    BY <1>1, <1>3, <2>1, <2>2 DEF Inv, LastQuery, Paced
<1>10. Fresh' /\ ExitInTime' /\ CrashOnlyQueuedTick'
  <2>1. Fresh'
    BY <1>1, <1>3 DEF Fresh, Larger
  <2> QED
    BY <1>1, <2>1 DEF Inv, ExitInTime, CrashOnlyQueuedTick, Paced
<1> QED
  BY <1>5, <1>6, <1>7, <1>8, <1>9, <1>10 DEF Inv

LEMMA QueryEndsOK == Inv /\ QueryEnds => Inv'
<1> SUFFICES ASSUME Inv, QueryEnds PROVE Inv'
  OBVIOUS
<1> USE DEF machine, work
<1> DEFINE n == Head(WebQ).n
<1>1. /\ phase = "up" /\ "web" \in held /\ Head(WebQ).k = "query" /\ web = "query"
      /\ web' = "idle" /\ until' = 0 /\ Finish("web")
      /\ \/ n <= attached /\ portsInfo' = n /\ UNCHANGED settled
         \/ n > attached /\ settled' = n /\ UNCHANGED portsInfo
         \/ UNCHANGED <<portsInfo, settled>>
      /\ UNCHANGED <<machine, now, timer, expiry, ser, polls, attached, sig, phase, asked>>
  BY DEF QueryEnds, Runs, WebQ
<1>2. "ser" \in Strand /\ "web" \in Strand
  BY DEF Strand
<1>3. /\ queue' \in [Strand -> Seq(H)] /\ batch' \in [Strand -> Nat]
      /\ io' \in Seq(Place) /\ held' \subseteq held /\ held \ {"web"} \subseteq held' /\ Turns'
      /\ WebQ # <<>> /\ WebQ' = Tail(WebQ) /\ SerQ' = SerQ
      /\ \A x : x # "web" => (Scheduled(x)' <=> Scheduled(x))
      /\ \A x \in Strand : batch'[x] <= Len(queue'[x])
  BY <1>1, <1>2, QueueTyped, FinishOK DEF Inv, SerQ, WebQ, Strand
<1>4. /\ \A i \in Queries' : i \in Nat \ {0} /\ i + 1 \in Queries /\ WebQ'[i] = WebQ[i + 1]
      /\ \A i \in Queries : i # 1 => i \in Nat /\ i - 1 \in Queries'
      /\ Head(WebQ) = WebQ[1] /\ Head(WebQ) \in H /\ 1 \in Queries
      /\ (\E i \in DOMAIN WebQ : WebQ[i].k = "exit") => \E i \in DOMAIN WebQ' : WebQ'[i].k = "exit"
  BY <1>1, <1>3, QueueTyped, WebTaken DEF Inv
<1>5. /\ n = WebQ[1].n /\ n \in 0..polls /\ settled < n /\ portsInfo < n
      /\ polls \in Nat /\ settled \in 0..polls /\ portsInfo \in 0..polls
  BY <1>4 DEF H, Inv, WebSide, TypeOK
<1> HIDE DEF n
<1>6. /\ settled' \in {settled, n} /\ portsInfo' \in {portsInfo, n}
      /\ settled' \in 0..polls /\ portsInfo' \in 0..polls
  BY <1>1, <1>5
<1>7. (TickDue' <=> TickDue) /\ (Asking' <=> Asking) /\ (Waiting' <=> Waiting)
  <2>1. (TickDue' <=> TickDue) /\ (Asking' <=> Asking)
    BY <1>1, <1>3 DEF TickDue, Asking
  <2>2. Waiting <=> \E i \in Queries : i # 1
    BY <1>1 DEF Waiting
  <2>3. Waiting' <=> Queries' # {}
    BY <1>1 DEF Waiting
  <2>4. \A i \in Queries' : i + 1 # 1
    BY <1>4
  <2> QED
    BY <1>4, <2>1, <2>2, <2>3, <2>4
<1>8. Paced => Queries' = {}
  <2>1. Paced => \A i \in Queries : i = 1
    BY <1>4 DEF Inv, OneQuery
  <2>2. \A i \in Queries' : i + 1 # 1
    BY <1>4
  <2> QED
    BY <1>4, <2>1, <2>2
<1>9. TypeOK'
  <2>1. H' = H
    BY <1>1 DEF H
  <2>2. ser # "idle" => "ser" \in held'
    BY <1>3 DEF Inv, TypeOK
  <2>3. (\E i \in DOMAIN queue["ser"] : queue["ser"][i].k = "tick")
        => \E i \in DOMAIN queue'["ser"] : queue'["ser"][i].k = "tick"
    BY <1>3 DEF SerQ
  <2> QED
    BY <1>1, <1>3, <1>6, <2>1, <2>2, <2>3 DEF Inv, TypeOK, H, Place
<1>10. SigPlace' /\ SerSide'
  BY <1>1, <1>3, <1>7 DEF Inv, SigPlace, SerSide
<1>11. WebSide'
  <2>1. \A i \in Queries' : settled' < WebQ'[i].n /\ portsInfo' < WebQ'[i].n
    <3> SUFFICES ASSUME NEW i \in Queries' PROVE settled' < WebQ'[i].n /\ portsInfo' < WebQ'[i].n
      OBVIOUS
    <3>1. i + 1 \in Queries /\ 1 < i + 1 /\ WebQ'[i] = WebQ[i + 1]
      BY <1>4
    <3>2. n < WebQ[i + 1].n /\ settled < WebQ[i + 1].n /\ portsInfo < WebQ[i + 1].n
      BY <1>4, <1>5, <3>1 DEF Inv, WebSide
    <3> QED
      BY <1>6, <3>1, <3>2
  <2>2. \A i, j \in Queries' : i < j => WebQ'[i].n < WebQ'[j].n
    <3> SUFFICES ASSUME NEW i \in Queries', NEW j \in Queries', i < j
                 PROVE  WebQ'[i].n < WebQ'[j].n
      OBVIOUS
    <3>1. i + 1 \in Queries /\ j + 1 \in Queries /\ i + 1 < j + 1
      BY <1>4
    <3> QED
      BY <1>4, <3>1 DEF Inv, WebSide
  <2>3. ~(threads = 1 /\ ser = "attach")
    BY <1>1, OneThread DEF Inv, SerSide
  <2> QED
    BY <1>1, <1>4, <2>1, <2>2, <2>3 DEF Inv, WebSide
<1>12. Times' /\ LastQuery'
  BY <1>1, <1>7 DEF Inv, Times, LastQuery, Paced
<1>13. OneQuery' /\ OnTime'
  <2>1. threads # 1 /\ slowest < Period => Queries' = {}
    BY <1>8 DEF Paced
  <2>2. Paced' <=> Paced
    BY <1>1 DEF Paced
  <2>3. OneQuery'
    BY <1>8, <2>2 DEF OneQuery
  <2> QED
    BY <1>1, <1>7, <2>1, <2>3 DEF Inv, OnTime
<1>14. Fresh' /\ ExitInTime' /\ CrashOnlyQueuedTick'
  BY <1>1 DEF Inv, Fresh, ExitInTime, CrashOnlyQueuedTick, Paced
<1> QED
  BY <1>3, <1>9, <1>10, <1>11, <1>12, <1>13, <1>14 DEF Inv

LEMMA ExitOK == Inv /\ Exit => Inv'
<1> SUFFICES ASSUME Inv, Exit PROVE Inv'
  OBVIOUS
<1> USE DEF machine, promise, work
<1>1. /\ phase' = "exited"
      /\ UNCHANGED <<machine, now, timer, expiry, work, ser, web, until, promise, sig, asked>>
  BY DEF Exit
<1>2. /\ Queries' = Queries /\ (Waiting' <=> Waiting) /\ (TickDue' <=> TickDue)
      /\ (Asking' <=> Asking) /\ (WebFirst' <=> WebFirst) /\ WebQ' = WebQ /\ SerQ' = SerQ
  BY <1>1 DEF Queries, Waiting, TickDue, Asking, WebFirst, WebQ, SerQ
<1>3. TypeOK'
  BY <1>1 DEF Inv, TypeOK
<1>4. Turns' /\ SigPlace' /\ OneQuery' /\ SerSide' /\ WebSide'
  BY <1>1, <1>2 DEF Inv, Turns, SigPlace, OneQuery, SerSide, WebSide, Scheduled, Paced
<1>5. Times' /\ OnTime' /\ LastQuery'
  BY <1>1, <1>2 DEF Inv, Times, OnTime, LastQuery, Paced
<1>6. Fresh' /\ ExitInTime' /\ CrashOnlyQueuedTick'
  BY <1>1 DEF Fresh, ExitInTime, CrashOnlyQueuedTick
<1> QED
  BY <1>3, <1>4, <1>5, <1>6 DEF Inv

LEMMA SignalArrivesOK == Inv /\ SignalArrives => Inv'
<1> SUFFICES ASSUME Inv, SignalArrives PROVE Inv'
  OBVIOUS
<1> USE DEF machine, promise, work
<1>1. /\ phase = "up" /\ sig.pc = "none" /\ sig' = [sig EXCEPT !.pc = "queued"]
      /\ io' = Append(io, "sig")
      /\ UNCHANGED <<machine, now, timer, expiry, held, queue, batch, ser, web, until, promise,
                     phase, asked>>
  BY DEF SignalArrives
<1>2. /\ sig'.pc = "queued" /\ sig'.at = sig.at /\ sig'.tick = sig.tick
      /\ sig' \in [pc : {"none", "queued", "sweep", "delay", "over"}, at : 0..now,
                   tick : BOOLEAN]
  BY <1>1 DEF Inv, TypeOK
<1>3. "sig" \in Place /\ ~Scheduled("sig") /\ io \in Seq(Place)
  BY <1>1, QueueTyped DEF Inv, SigPlace, Place
<1>4. /\ io' \in Seq(Place) /\ (WebFirst => WebFirst')
      /\ \A y : Scheduled(y)' <=> Scheduled(y) \/ y = "sig"
      /\ \A i, j \in DOMAIN io' : io'[i] = io'[j] => i = j
      /\ \A i \in DOMAIN io' : io'[i] \notin held'
  BY <1>1, <1>3, IoAppended DEF Inv, Turns
<1>5. Turns'
  BY <1>1, <1>4 DEF Inv, Turns, Strand
<1>6. /\ Queries' = Queries /\ (Waiting' <=> Waiting) /\ (TickDue' <=> TickDue)
      /\ (Asking' <=> Asking) /\ WebQ' = WebQ /\ SerQ' = SerQ
  BY <1>1 DEF Queries, Waiting, TickDue, Asking, WebQ, SerQ
<1>7. TypeOK'
  BY <1>1, <1>2, <1>4 DEF Inv, TypeOK, Place
<1>8. SigPlace' /\ SerSide' /\ WebSide'
  BY <1>1, <1>2, <1>6 DEF Inv, SigPlace, SerSide, WebSide
<1>9. OneQuery' /\ Times' /\ OnTime'
  BY <1>1, <1>4, <1>6 DEF Inv, OneQuery, Times, OnTime, Paced
<1>10. LastQuery' /\ Fresh' /\ ExitInTime' /\ CrashOnlyQueuedTick'
  BY <1>1, <1>2 DEF Inv, SerSide, LastQuery, Fresh, ExitInTime, CrashOnlyQueuedTick, Paced
<1> QED
  BY <1>5, <1>7, <1>8, <1>9, <1>10 DEF Inv

LEMMA SignalOK == Inv /\ Signal => Inv'
<1> SUFFICES ASSUME Inv, Signal PROVE Inv'
  OBVIOUS
<1> USE DEF machine, promise, work
<1>1. /\ phase = "up" /\ "sig" \in held /\ sig.pc = "queued" /\ timer' = "null"
      /\ IF timer = "armed" THEN Post("ser", Handler("aborted", 0)) ELSE UNCHANGED work
      /\ sig' = [pc |-> "sweep", at |-> now, tick |-> TickUnderWay]
      /\ UNCHANGED <<machine, now, expiry, ser, web, until, promise, phase, asked>>
  BY DEF Signal
<1>2. now \in Nat /\ asked \in 0..now /\ now \in 0..now /\ Delay \in Nat /\ slowest \in Nat
  <2>1. now \in Nat /\ asked \in 0..now /\ Delay \in Nat /\ slowest \in Nat
    BY QueueTyped DEF Inv
  <2> QED
    BY <2>1
<1>3. sig' \in [pc : {"none", "queued", "sweep", "delay", "over"}, at : 0..now, tick : BOOLEAN]
  BY <1>1, <1>2 DEF TickUnderWay
<1>4. /\ sig'.pc = "sweep" /\ sig'.at = now /\ (sig'.tick <=> TickUnderWay)
  BY <1>1
<1>5. timer \in {"armed", "queued"} /\ phase # "crashed" /\ (TickDue => timer = "queued")
  BY <1>1 DEF Inv, TypeOK, SerSide, TickDue
<1>6. /\ queue' \in [Strand -> Seq(H)] /\ batch' \in [Strand -> Nat]
      /\ io' \in Seq(Place) /\ held' = held /\ Turns'
      /\ WebQ' = WebQ /\ (WebFirst => WebFirst')
      /\ \A x \in Strand : batch'[x] <= Len(queue'[x])
      /\ Len(SerQ') <= 1 /\ (TickDue' <=> TickDue)
  <2>1. CASE timer = "armed"
    <3> DEFINE h == Handler("aborted", 0)
    <3>1. h \in H /\ h.k = "aborted" /\ "ser" \in Strand /\ "web" \in Strand
      BY QueueTyped DEF Inv, Handler, H, Kinds, Strand
    <3> HIDE DEF h
    <3>2. Post("ser", h)
      BY <1>1, <2>1 DEF h
    <3>3. /\ queue' \in [Strand -> Seq(H)] /\ batch' \in [Strand -> Nat]
          /\ io' \in Seq(Place) /\ held' = held /\ Turns'
          /\ WebQ' = WebQ /\ (WebFirst => WebFirst')
          /\ \A x \in Strand : batch'[x] <= Len(queue'[x])
          /\ SerQ' = Append(SerQ, h)
      <4>1. queue \in [Strand -> Seq(H)] /\ threads' = threads
        BY <1>1, QueueTyped DEF Inv
      <4> QED
        BY <3>1, <3>2, <4>1, PostedSer
    <3>4. SerQ = <<>> /\ ~TickDue
      BY <2>1 DEF Inv, SerSide, TickDue
    <3>5. Len(SerQ') = 1 /\ Head(SerQ') = h
      BY <3>1, <3>3, <3>4, SerAppended
    <3>6. Len(SerQ') <= 1 /\ ~TickDue'
      BY <3>1, <3>5 DEF TickDue
    <3> QED
      BY <3>3, <3>4, <3>6
  <2>2. CASE timer # "armed"
    <3>1. UNCHANGED <<io, held, queue, batch>>
      BY <1>1, <2>2
    <3>2. Turns'
      BY <1>1, <3>1 DEF Inv, Turns, Scheduled
    <3> QED
      BY <3>1, <3>2, QueueTyped DEF Inv, SerSide, SerQ, WebQ, TickDue, WebFirst
  <2> QED
    BY <2>1, <2>2
<1>7. Queries' = Queries /\ (Waiting' <=> Waiting) /\ (Asking' <=> Asking)
  BY <1>1, <1>6 DEF Queries, Waiting, Asking
<1>8. TypeOK'
  <2>1. H' = H
    BY <1>1 DEF H
  <2> QED
    BY <1>1, <1>3, <1>6, <2>1 DEF Inv, TypeOK, H, Place
<1>9. SigPlace'
  BY <1>1, <1>4, <1>6 DEF SigPlace
<1>10. SerSide'
  BY <1>1, <1>4, <1>5, <1>6 DEF Inv, SerSide, TickUnderWay
<1>11. WebSide' /\ Times' /\ OnTime' /\ OneQuery'
  BY <1>1, <1>4, <1>6, <1>7 DEF Inv, WebSide, Times, OnTime, OneQuery, Paced
<1>12. LastQuery' /\ Fresh' /\ ExitInTime' /\ CrashOnlyQueuedTick'
  BY <1>1, <1>2, <1>4, <1>5 DEF LastQuery, Fresh, ExitInTime, CrashOnlyQueuedTick
<1> QED
  BY <1>6, <1>8, <1>9, <1>10, <1>11, <1>12 DEF Inv

LEMMA AsyncDelayOK == Inv /\ AsyncDelay => Inv'
<1> SUFFICES ASSUME Inv, AsyncDelay PROVE Inv'
  OBVIOUS
<1> USE DEF machine, promise, work
<1>1. /\ phase = "up" /\ "sig" \in held /\ sig.pc = "sweep"
      /\ sig' = [sig EXCEPT !.pc = "delay"] /\ held' = held \ {"sig"}
      /\ UNCHANGED <<machine, now, timer, expiry, io, queue, batch, ser, web, until, promise,
                     phase, asked>>
  BY DEF AsyncDelay
<1>2. /\ sig'.pc = "delay" /\ sig'.at = sig.at /\ sig'.tick = sig.tick /\ now = sig.at
      /\ sig' \in [pc : {"none", "queued", "sweep", "delay", "over"}, at : 0..now,
                   tick : BOOLEAN]
  BY <1>1 DEF Inv, TypeOK, SigPlace
<1>3. "ser" # "sig" /\ "web" # "sig"
  OBVIOUS
<1>4. /\ \A x : x # "sig" => (Scheduled(x)' <=> Scheduled(x))
      /\ WebFirst => WebFirst'
  BY <1>1 DEF Scheduled, WebFirst
<1>5. Turns'
  <2>1. Cardinality(held') <= threads'
    <3>1. IsFiniteSet(held) /\ Cardinality(held) \in Nat /\ Cardinality(held') \in Nat
      BY <1>1, HeldFinite, QueueTyped DEF Inv
    <3>2. Cardinality(held') <= Cardinality(held) /\ Cardinality(held) <= threads
      BY <1>1, <3>1, FS_Subset DEF Inv, Turns
    <3> QED
      BY <1>1, <3>1, <3>2, QueueTyped DEF Inv
  <2>2. \A st \in Strand : Scheduled(st)' <=> Scheduled(st)
    BY <1>4 DEF Strand
  <2> QED
    BY <1>1, <2>1, <2>2 DEF Inv, Turns
<1>6. /\ Queries' = Queries /\ (Waiting' <=> Waiting) /\ (TickDue' <=> TickDue)
      /\ (Asking' <=> Asking) /\ WebQ' = WebQ /\ SerQ' = SerQ
  BY <1>1 DEF Queries, Waiting, TickDue, Asking, WebQ, SerQ
<1>7. TypeOK'
  BY <1>1, <1>2 DEF Inv, TypeOK
<1>8. SigPlace' /\ SerSide' /\ WebSide'
  BY <1>1, <1>2, <1>6 DEF Inv, SigPlace, SerSide, WebSide
<1>9. OneQuery' /\ Times' /\ OnTime' /\ LastQuery'
  BY <1>1, <1>2, <1>4, <1>6 DEF Inv, OneQuery, Times, OnTime, LastQuery, Paced
<1>10. Fresh' /\ ExitInTime' /\ CrashOnlyQueuedTick'
  <2>1. now \in Nat /\ Delay \in Nat /\ slowest \in Nat
    BY QueueTyped DEF Inv
  <2> QED
    BY <1>1, <1>2, <2>1 DEF Inv, Fresh, ExitInTime, CrashOnlyQueuedTick, Larger
<1> QED
  BY <1>5, <1>7, <1>8, <1>9, <1>10 DEF Inv

LEMMA InitOK == Init => Inv
<1> SUFFICES ASSUME Init PROVE Inv
  OBVIOUS
<1> USE DEF machine, promise, work
<1> DEFINE h == Handler("query", 1)
<1>1. /\ threads \in Nat \ {0} /\ slowest \in Nat /\ Period \in Nat /\ Period > 0
      /\ Delay \in Nat /\ MaxTime \in Nat
  BY TimesOK DEF Init
<1>2. /\ WebQ = <<h>> /\ SerQ = <<>> /\ h.k = "query" /\ h.n = 1 /\ io = <<"web">> /\ held = {}
      /\ batch["web"] = 1 /\ batch["ser"] = 0 /\ queue["web"] = WebQ /\ queue["ser"] = SerQ
      /\ h \in H
  BY DEF Init, WebQ, SerQ, Strand, Handler, H, Kinds
<1> HIDE DEF h
<1>3. /\ DOMAIN WebQ = {1} /\ WebQ[1] = h /\ Len(WebQ) = 1 /\ Len(SerQ) = 0
      /\ DOMAIN io = {1} /\ io[1] = "web" /\ WebQ # <<>>
  BY <1>2
<1>4. Queries = {1} /\ ~TickDue /\ ~Asking /\ Waiting
  BY <1>2, <1>3 DEF Queries, TickDue, Asking, Waiting, Init
<1>5. TypeOK
  <2>1. WebQ \in Seq(H) /\ SerQ \in Seq(H) /\ io \in Seq(Place)
    BY <1>2 DEF Place, Strand
  <2>2. queue \in [Strand -> Seq(H)]
    BY <1>2, <2>1 DEF Init, Strand
  <2>3. batch \in [Strand -> Nat] /\ \A st \in Strand : batch[st] <= Len(queue[st])
    BY <1>2, <1>3 DEF Init, Strand
  <2>4. 0 \in 0..MaxTime /\ 0 \in 0..0 /\ 0 \in 0..1 /\ 1 \in 0..1
    BY <1>1
  <2>5. sig \in [pc : {"none", "queued", "sweep", "delay", "over"}, at : 0..0, tick : BOOLEAN]
    BY <2>4 DEF Init
  <2> QED
    BY <1>1, <1>2, <2>1, <2>2, <2>3, <2>4, <2>5 DEF Init, TypeOK, H, Place
<1>6. Turns
  <2>1. Cardinality(held) <= threads
    BY <1>1, <1>2, FS_EmptySet
  <2>2. Scheduled("web") /\ ~Scheduled("ser")
    BY <1>2, <1>3 DEF Scheduled
  <2>3. \A st \in Strand :
           /\ batch[st] = 0 <=> queue[st] = <<>>
           /\ queue[st] # <<>> <=> Scheduled(st)
    <3>1. (batch["ser"] = 0 <=> queue["ser"] = <<>>) /\ (queue["ser"] # <<>> <=> Scheduled("ser"))
      BY <1>2, <2>2
    <3>2. (batch["web"] = 0 <=> queue["web"] = <<>>) /\ (queue["web"] # <<>> <=> Scheduled("web"))
      BY <1>2, <1>3, <2>2
    <3> QED
      BY <3>1, <3>2 DEF Strand
  <2> QED
    BY <1>2, <1>3, <2>1, <2>3 DEF Turns
<1>7. SigPlace /\ SerSide
  BY <1>2, <1>3, <1>4 DEF Init, SigPlace, SerSide, Scheduled
<1>8. WebSide /\ Times /\ OneQuery /\ LastQuery
  BY <1>1, <1>2, <1>3, <1>4 DEF Init, WebSide, Times, OneQuery, LastQuery
<1>9. OnTime
  BY <1>1, <1>4 DEF Init, OnTime
<1>10. Fresh /\ ExitInTime /\ CrashOnlyQueuedTick
  BY <1>1 DEF Init, Fresh, ExitInTime, CrashOnlyQueuedTick, Larger
<1> QED
  BY <1>5, <1>6, <1>7, <1>8, <1>9, <1>10 DEF Inv

LEMMA StepOK == Inv /\ [Next]_vars => Inv'
<1> SUFFICES ASSUME Inv, [Next]_vars PROVE Inv'
  OBVIOUS
<1>1. ASSUME UNCHANGED vars PROVE Inv'
  <2> USE DEF vars, machine, promise, work
  <2>1. /\ Queries' = Queries /\ (Waiting' <=> Waiting) /\ (TickDue' <=> TickDue)
        /\ (Asking' <=> Asking) /\ (WebFirst' <=> WebFirst) /\ WebQ' = WebQ /\ SerQ' = SerQ
    BY <1>1 DEF Queries, Waiting, TickDue, Asking, WebFirst, WebQ, SerQ
  <2>2. TypeOK'
    <3>1. TypeOK
      BY DEF Inv
    <3>2. /\ queue' \in [Strand -> Seq([k : Kinds, n : 0..polls'])]
          /\ batch' \in [Strand -> Nat] /\ \A st \in Strand : batch'[st] <= Len(queue'[st])
          /\ timer' = "queued" =>
                ser' # "idle" \/ \E i \in DOMAIN queue'["ser"] : queue'["ser"][i].k = "tick"
          /\ io' \in Seq(Strand \cup {"sig"}) /\ held' \subseteq Strand \cup {"sig"}
          /\ ser' # "idle" => "ser" \in held'
          /\ web' # "idle" => "web" \in held'
      BY <1>1, <3>1 DEF TypeOK
    <3>3. /\ threads' \in ThreadCounts /\ slowest' \in QueryTimes
          /\ now' \in 0..MaxTime /\ asked' \in 0..now'
          /\ timer' \in {"armed", "queued", "null"} /\ expiry' \in Nat
          /\ ser' \in {"idle", "post", "attach", "wait"}
          /\ web' \in {"idle", "query"} /\ until' \in Nat
          /\ polls' \in Nat /\ attached' \in 0..polls' /\ settled' \in 0..polls'
          /\ portsInfo' \in 0..polls'
          /\ sig' \in [pc : {"none", "queued", "sweep", "delay", "over"}, at : 0..now',
                      tick : BOOLEAN]
          /\ phase' \in {"up", "exited", "crashed"}
      BY <1>1, <3>1 DEF TypeOK
    <3> QED
      BY <3>2, <3>3, Zenon DEF TypeOK
  <2>3. Turns' /\ SigPlace' /\ OneQuery' /\ SerSide' /\ WebSide'
    BY <1>1, <2>1 DEF Inv, Turns, SigPlace, OneQuery, SerSide, WebSide, Scheduled, Paced
  <2>4. Times' /\ OnTime' /\ LastQuery'
    BY <1>1, <2>1 DEF Inv, Times, OnTime, LastQuery, Paced
  <2>5. Fresh' /\ ExitInTime' /\ CrashOnlyQueuedTick'
    BY <1>1 DEF Inv, Fresh, ExitInTime, CrashOnlyQueuedTick, Paced
  <2> QED
    BY <2>2, <2>3, <2>4, <2>5 DEF Inv
<1> QED
  BY <1>1, TakeOK, AdvanceOK, TimerExpiresOK, DelayExpiresOK, TickOK, TickAbortedOK, FindOK,
     ThenOK, WaitOK, QueryBeginsOK, QueryEndsOK, ExitOK, SignalArrivesOK, SignalOK, AsyncDelayOK
  DEF Next

LEMMA Invariant == Spec => []Inv
<1> QED
  BY InitOK, StepOK, PTL DEF Spec

-----------------------------------------------------------------------------
(* The theorems.                                                           *)

\* The types of the variables; and a timer that expired has its handler queued or running,
\* so that the chain of the refreshes is not lost between two of its handlers.
THEOREM PollingTyped == Spec => []TypeOK
<1>1. Inv => TypeOK
  BY DEF Inv
<1> QED
  BY <1>1, Invariant, PTL

\* With one thread, or with queries shorter than the period, at most one query waits on the
\* web strand or runs there, whenever the timer and the queries catch up.
THEOREM QueriesTakeTurns == Spec => []Backlog
<1>1. Inv => Backlog
  <2> SUFFICES ASSUME Inv, Paced PROVE Cardinality(Queries) <= 1
    BY DEF Backlog, Queries, WebQ
  <2>1. CASE Queries = {}
    BY <2>1, FS_EmptySet
  <2>2. CASE Queries # {}
    <3>1. PICK i \in Queries : Queries = {i}
      BY <2>2 DEF Inv, OneQuery
    <3>2. Cardinality(Queries) = 1
      BY <3>1, FS_Singleton
    <3> QED
      BY <3>2
  <2> QED
    BY <2>1, <2>2
<1> QED
  BY <1>1, Invariant, PTL

\* Until the signal is handled, the last query began no longer ago than a period or the
\* time that the slowest query takes: on any number of threads, and however late the timer.
THEOREM PollsOnTime == Spec => []Fresh
<1>1. Inv => Fresh
  BY DEF Inv
<1> QED
  BY <1>1, Invariant, PTL

\* ioc.stop() comes 500 ms after the handler of the signal, or when a query ends that was
\* already asked for: a shutdown waits for at most one query.
THEOREM ShutdownInTime == Spec => []ExitInTime
<1>1. Inv => ExitInTime
  BY DEF Inv
<1> QED
  BY <1>1, Invariant, PTL

\* stop() makes the process crash only when a handler of the timer was queued or running.
THEOREM CrashNeedsTick == Spec => []CrashOnlyQueuedTick
<1>1. Inv => CrashOnlyQueuedTick
  BY DEF Inv
<1> QED
  BY <1>1, Invariant, PTL

\* portsInfo never goes back to the result of an older query: both callbacks of a promise,
\* the one at once and the one from the other strand, keep the order of the queries.
THEOREM ResultsAdvance == Spec => ResultsInOrder
<1>1. Inv /\ [Next]_vars => [portsInfo' >= portsInfo]_vars
  <2> SUFFICES ASSUME Inv, Next PROVE portsInfo' >= portsInfo
    BY DEF vars
  <2>1. polls \in Nat /\ portsInfo \in 0..polls
    BY DEF Inv, TypeOK
  <2>2. portsInfo \in Nat /\ portsInfo <= polls
    BY <2>1
  <2>3. CASE Then
    BY <2>2, <2>3 DEF Then
  <2>4. CASE QueryEnds
    <3>1. /\ WebQ # <<>> /\ Head(WebQ).k = "query" /\ WebQ \in Seq(H)
          /\ portsInfo' \in {portsInfo, Head(WebQ).n}
      BY <2>4, QueueTyped DEF QueryEnds, Runs, Inv, Turns, Strand, Scheduled, WebQ
    <3>2. Head(WebQ) \in H /\ Head(WebQ) = WebQ[1] /\ 1 \in DOMAIN WebQ
      <4>1. Len(WebQ) \in Nat /\ Len(WebQ) >= 1 /\ DOMAIN WebQ = 1..Len(WebQ)
        BY <3>1, TailFacts
      <4> QED
        BY <3>1, <4>1, TailFacts
    <3>3. portsInfo < Head(WebQ).n /\ Head(WebQ).n \in 0..polls
      BY <3>1, <3>2 DEF Inv, WebSide, Queries, H
    <3> QED
      BY <2>1, <2>2, <3>1, <3>3
  <2>5. CASE portsInfo' = portsInfo
    BY <2>2, <2>5
  <2> QED
    BY <2>3, <2>4, <2>5
    DEF Next, Take, Advance, TimerExpires, DelayExpires, Tick, TickAborted, Find, Wait,
        QueryBegins, Exit, SignalArrives, Signal, AsyncDelay, promise
<1> QED
  BY <1>1, Invariant, PTL DEF Spec, ResultsInOrder

\* With one thread portsInfo is only assigned in a handler of the web strand, whose requests
\* read it: no handler of another strand runs then.
THEOREM PortsOnWebStrand == Spec => AssignedOnWeb
<1>1. Inv /\ [Next]_vars => [threads = 1 /\ portsInfo' # portsInfo => held = {"web"}]_vars
  <2> SUFFICES ASSUME Inv, Next, threads = 1, portsInfo' # portsInfo PROVE held = {"web"}
    BY DEF vars
  <2>1. CASE Then
    <3>1. ser = "attach" /\ settled < polls /\ polls \in Nat /\ settled \in 0..polls
      BY <2>1 DEF Then, Inv, WebSide, TypeOK
    <3> QED
      BY <2>1, <3>1 DEF Then
  <2>2. CASE QueryEnds
    BY <2>2, OneThread DEF QueryEnds, Runs
  <2> QED
    BY <2>1, <2>2
    DEF Next, Take, Advance, TimerExpires, DelayExpires, Tick, TickAborted, Find, Wait,
        QueryBegins, Exit, SignalArrives, Signal, AsyncDelay, promise
<1> QED
  BY <1>1, Invariant, PTL DEF Spec, AssignedOnWeb
=============================================================================
