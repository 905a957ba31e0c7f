------------------------ MODULE HttpConnectionsProofs ------------------------
(***************************************************************************)
(* For any number of connections: an operation never waits without a       *)
(* deadline, and one accept is under way until the loop gives up.  The     *)
(* argument for the first: an operation is under way only on an open       *)
(* socket, an open socket has its deadline ahead, and an operation is in   *)
(* one place at a time, so the handler that cancels the deadline runs when *)
(* nothing is under way.                                                   *)
(***************************************************************************)
EXTENDS HttpConnections, TLAPS, FiniteSetTheorems

Kinds == {"accept", "read", "write", "deadline"}
\* Connection 0 stands for the acceptor.
Handlers ==
    {h \in [k : Kinds, c : Conn \cup {0}, how : Ends] : h.k = "accept" <=> h.c = 0}

TypeInv ==
    /\ accepted \in Nat
    /\ socket \in [Conn -> {"none", "open", "shut", "closed"}]
    /\ op \in [Conn -> {"none", "read", "write"}]
    /\ deadline \in [Conn -> {"none", "armed", "over"}]
    /\ queue \in Seq(Handlers)

\* Position i of q holds the end of an operation of connection c.
EndAt(q, i, c) == i \in DOMAIN q /\ q[i].c = c /\ q[i].k \in {"read", "write"}
Ended(q, c) == \E i \in DOMAIN q : EndAt(q, i, c)
Unique(q) == \A c \in Conn, i, j \in DOMAIN q : EndAt(q, i, c) /\ EndAt(q, j, c) => i = j
Expires(q, c) == \E i \in DOMAIN q : q[i] = Handler("deadline", c, "ok")

\* Connections not accepted yet have nothing under way or queued.
Fresh == \A c \in Conn : c > accepted =>
            op[c] = "none" /\ ~Ended(queue, c)

\* An operation is under way or its end is queued, once.
InOnePlace == Unique(queue) /\ \A c \in Conn : Ended(queue, c) => op[c] = "none"

OpenOnly == \A c \in Conn : op[c] # "none" => socket[c] = "open"

Guarded == \A c \in Conn : socket[c] = "open" => deadline[c] = "armed" \/ Expires(queue, c)

Inv == TypeInv /\ Fresh /\ InOnePlace /\ OpenOnly /\ Guarded

-----------------------------------------------------------------------------
(* Appending to the queue and taking its head.                             *)

LEMMA AppendFacts ==
    ASSUME NEW q \in Seq(Handlers), NEW h \in Handlers
    PROVE  /\ Append(q, h) \in Seq(Handlers)
           /\ \A c \in Conn : Ended(Append(q, h), c) =>
                 Ended(q, c) \/ (h.c = c /\ h.k \in {"read", "write"})
           /\ Unique(q) /\ (h.k \in {"read", "write"} => ~Ended(q, h.c))
                 => Unique(Append(q, h))
           /\ \A c \in Conn : Expires(q, c) => Expires(Append(q, h), c)
           /\ \A c \in Conn : h = Handler("deadline", c, "ok") => Expires(Append(q, h), c)
<1> DEFINE n == Len(q) + 1
           r == Append(q, h)
<1>1. r \in Seq(Handlers) /\ DOMAIN r = 1..n /\ DOMAIN q = 1..(n - 1) /\ n \in Nat
      /\ r[n] = h /\ \A i \in DOMAIN q : r[i] = q[i]
    OBVIOUS
<1>2. \A c \in Conn, i \in DOMAIN r : EndAt(r, i, c) =>
        EndAt(q, i, c) \/ (i = n /\ h.c = c /\ h.k \in {"read", "write"})
    BY <1>1 DEF EndAt
<1>3. \A c \in Conn : Ended(r, c) => Ended(q, c) \/ (h.c = c /\ h.k \in {"read", "write"})
    BY <1>2 DEF Ended, EndAt
<1>4. ASSUME Unique(q), h.k \in {"read", "write"} => ~Ended(q, h.c) PROVE Unique(r)
    <2> SUFFICES ASSUME NEW c \in Conn, NEW i \in DOMAIN r, NEW j \in DOMAIN r,
                        EndAt(r, i, c), EndAt(r, j, c)
                 PROVE  i = j
        BY DEF Unique
    <2>1. CASE EndAt(q, i, c) /\ EndAt(q, j, c) BY <1>4, <2>1 DEF Unique, EndAt
    <2>2. CASE ~EndAt(q, i, c) \/ ~EndAt(q, j, c)
        <3>1. h.c = c /\ h.k \in {"read", "write"} BY <1>2, <2>2
        <3>2. ~EndAt(q, i, c) /\ ~EndAt(q, j, c) BY <1>4, <3>1 DEF Ended, EndAt
        <3> QED BY <1>2, <3>2
    <2> QED BY <2>1, <2>2
<1>5. \A c \in Conn : Expires(q, c) => Expires(r, c) BY <1>1 DEF Expires
<1>6. \A c \in Conn : h = Handler("deadline", c, "ok") => Expires(r, c)
    BY <1>1 DEF Expires
<1> HIDE DEF r
<1> QED BY <1>1, <1>3, <1>4, <1>5, <1>6 DEF r

LEMMA TailFacts ==
    ASSUME NEW q \in Seq(Handlers), q # <<>>
    PROVE  /\ Tail(q) \in Seq(Handlers) /\ Head(q) \in Handlers
           /\ \A c \in Conn : Ended(Tail(q), c) => Ended(q, c)
           /\ Unique(q) => Unique(Tail(q))
           /\ \A c \in Conn : Unique(q) /\ Head(q).c = c /\ Head(q).k \in {"read", "write"}
                 => ~Ended(Tail(q), c)
           /\ \A c \in Conn : Expires(q, c) /\ Head(q) # Handler("deadline", c, "ok")
                 => Expires(Tail(q), c)
<1> DEFINE r == Tail(q)
<1>1. /\ r \in Seq(Handlers) /\ Head(q) \in Handlers /\ Head(q) = q[1]
      /\ Len(q) \in Nat /\ DOMAIN q = 1..Len(q) /\ 1 \in DOMAIN q
      /\ DOMAIN r = 1..(Len(q) - 1)
      /\ \A i \in DOMAIN r : i + 1 \in DOMAIN q /\ i + 1 # 1 /\ r[i] = q[i + 1]
    OBVIOUS
<1> HIDE DEF r
<1>2. \A c \in Conn, i \in DOMAIN r : EndAt(r, i, c) => EndAt(q, i + 1, c)
    BY <1>1 DEF EndAt
<1>3. \A c \in Conn : Ended(r, c) => Ended(q, c) BY <1>1, <1>2 DEF Ended
<1>4. Unique(q) => Unique(r)
    <2> SUFFICES ASSUME Unique(q), NEW c \in Conn, NEW i \in DOMAIN r, NEW j \in DOMAIN r,
                        EndAt(r, i, c), EndAt(r, j, c)
                 PROVE  i = j
        BY DEF Unique
    <2>1. i + 1 = j + 1 BY <1>1, <1>2 DEF Unique
    <2> QED BY <1>1, <2>1
<1>5. \A c \in Conn : Unique(q) /\ Head(q).c = c /\ Head(q).k \in {"read", "write"}
        => ~Ended(r, c)
    <2> SUFFICES ASSUME NEW c \in Conn, Unique(q), Head(q).c = c,
                        Head(q).k \in {"read", "write"}, NEW i \in DOMAIN r, EndAt(r, i, c)
                 PROVE  FALSE
        BY DEF Ended
    <2>1. EndAt(q, 1, c) BY <1>1 DEF EndAt
    <2>2. EndAt(q, i + 1, c) BY <1>2
    <2> QED BY <1>1, <2>1, <2>2 DEF Unique
<1>6. \A c \in Conn : Expires(q, c) /\ Head(q) # Handler("deadline", c, "ok") => Expires(r, c)
    <2> SUFFICES ASSUME NEW c \in Conn, NEW i \in DOMAIN q,
                        q[i] = Handler("deadline", c, "ok"),
                        Head(q) # Handler("deadline", c, "ok")
                 PROVE  Expires(r, c)
        BY DEF Expires
    <2>1. i - 1 \in DOMAIN r /\ r[i - 1] = q[i] BY <1>1
    <2> QED BY <2>1 DEF Expires
<1> QED BY <1>1, <1>3, <1>4, <1>5, <1>6 DEF r

LEMMA HandlerType ==
    ASSUME NEW k \in Kinds, NEW c \in Conn \cup {0}, NEW how \in Ends,
           k = "accept" <=> c = 0
    PROVE  /\ Handler(k, c, how) \in Handlers
           /\ Handler(k, c, how).k = k /\ Handler(k, c, how).c = c
BY DEF Handler, Handlers
-----------------------------------------------------------------------------
LEMMA InitOK == Init => Inv
<1> SUFFICES ASSUME Init PROVE Inv
    OBVIOUS
<1>1. queue = <<>> /\ DOMAIN queue = {} BY DEF Init
<1>2. TypeInv BY DEF Init, TypeInv
<1>3. \A c \in Conn : ~Ended(queue, c) BY <1>1 DEF Ended
<1> QED BY <1>1, <1>2, <1>3 DEF Init, Inv, Fresh, InOnePlace, Unique, OpenOnly, Guarded

\* The facts about the queue that a step which only takes its head leaves behind.
LEMMA RestFacts ==
    ASSUME Inv, queue # <<>>
    PROVE  /\ Rest \in Seq(Handlers) /\ Head(queue) \in Handlers
           /\ (Head(queue).k # "accept" => This \in Conn) /\ Unique(Rest)
           /\ \A c \in Conn : Ended(Rest, c) => Ended(queue, c)
           /\ \A c \in Conn : Expires(queue, c) /\ Head(queue) # Handler("deadline", c, "ok")
                 => Expires(Rest, c)
           /\ Head(queue).k \in {"read", "write"} =>
                 \A c \in Conn : c = This => op[c] = "none" /\ c <= accepted /\ ~Ended(Rest, c)
<1>1. queue \in Seq(Handlers) BY DEF Inv, TypeInv
<1>2. /\ Rest \in Seq(Handlers) /\ Head(queue) \in Handlers /\ Unique(Rest)
      /\ \A c \in Conn : Ended(Rest, c) => Ended(queue, c)
      /\ \A c \in Conn : Expires(queue, c) /\ Head(queue) # Handler("deadline", c, "ok")
            => Expires(Rest, c)
    BY <1>1, TailFacts DEF Inv, InOnePlace, Rest
<1>3. Head(queue).k # "accept" => This \in Conn BY <1>2 DEF This, Handlers
<1>4. ASSUME Head(queue).k \in {"read", "write"}, NEW c \in Conn, c = This
      PROVE  op[c] = "none" /\ c <= accepted /\ ~Ended(Rest, c)
    <2>1. EndAt(queue, 1, c)
        <3>1. 1 \in DOMAIN queue /\ queue[1] = Head(queue) BY <1>1
        <3> QED BY <1>4, <3>1 DEF EndAt, This
    <2>2. Ended(queue, c) BY <2>1 DEF Ended, EndAt
    <2>3. op[c] = "none" BY <2>2 DEF Inv, InOnePlace
    <2>4. c <= accepted BY <2>2 DEF Inv, Fresh, TypeInv, Conn
    <2>5. ~Ended(Rest, c) BY <1>1, <1>4, TailFacts DEF Inv, InOnePlace, Rest, This
    <2> QED BY <2>3, <2>4, <2>5
<1> QED BY <1>2, <1>3, <1>4

\* A handler that only leaves the queue, and was no deadline that expired.
LEMMA JustTaken ==
    ASSUME Inv, queue # <<>>, queue' = Rest,
           Head(queue).k # "deadline" \/ Head(queue).how # "ok",
           UNCHANGED <<accepted, socket, op, deadline>>
    PROVE  Inv'
<1>1. \A c \in Conn : Head(queue) # Handler("deadline", c, "ok") BY DEF Handler
<1>2. TypeInv' BY RestFacts DEF Inv, TypeInv
<1>3. Fresh' BY RestFacts DEF Inv, Fresh
<1>4. InOnePlace' BY RestFacts DEF Inv, InOnePlace
<1>5. OpenOnly' BY DEF Inv, OpenOnly
<1>6. Guarded' BY <1>1, RestFacts DEF Inv, Guarded
<1> QED BY <1>2, <1>3, <1>4, <1>5, <1>6 DEF Inv

\* A handler that is no end of an operation is appended, or an operation ends.
LEMMA AcceptEndsOK == Inv /\ AcceptEnds => Inv'
<1> SUFFICES ASSUME Inv, AcceptEnds PROVE Inv'
    OBVIOUS
<1>1. PICK how \in Ends : queue' = Append(queue, Handler("accept", 0, how))
    BY DEF AcceptEnds
<1>2. /\ Handler("accept", 0, how) \in Handlers
      /\ Handler("accept", 0, how).k = "accept"
    BY HandlerType DEF Kinds, Conn
<1>3. queue \in Seq(Handlers) BY DEF Inv, TypeInv
<1>4. /\ queue' \in Seq(Handlers)
      /\ \A c \in Conn : Ended(queue', c) => Ended(queue, c)
      /\ Unique(queue) => Unique(queue')
      /\ \A c \in Conn : Expires(queue, c) => Expires(queue', c)
    BY <1>1, <1>2, <1>3, AppendFacts
<1>5. UNCHANGED <<accepted, socket, op, deadline>> BY DEF AcceptEnds
<1> QED BY <1>4, <1>5
        DEF Inv, TypeInv, Fresh, InOnePlace, OpenOnly, Guarded

LEMMA OpEndsOK == ASSUME NEW c \in Conn PROVE Inv /\ OpEnds(c) => Inv'
<1> SUFFICES ASSUME Inv, OpEnds(c) PROVE Inv'
    OBVIOUS
<1>1. PICK how \in {"ok", "error"} : queue' = Append(queue, Handler(op[c], c, how))
    BY DEF OpEnds
<1>2. op[c] \in {"read", "write"} BY DEF OpEnds, Inv, TypeInv
<1>3. /\ Handler(op[c], c, how) \in Handlers
      /\ Handler(op[c], c, how).k = op[c] /\ Handler(op[c], c, how).c = c
    BY <1>2, HandlerType DEF Kinds, Conn, Ends
<1>4. queue \in Seq(Handlers) BY DEF Inv, TypeInv
<1>5. ~Ended(queue, c) BY <1>2 DEF Inv, InOnePlace
<1>6. /\ queue' \in Seq(Handlers)
      /\ \A d \in Conn : Ended(queue', d) => Ended(queue, d) \/ d = c
      /\ Unique(queue')
      /\ \A d \in Conn : Expires(queue, d) => Expires(queue', d)
    BY <1>1, <1>3, <1>4, <1>5, AppendFacts DEF Inv, InOnePlace
<1>7. op' = [op EXCEPT ![c] = "none"] /\ UNCHANGED <<accepted, socket, deadline>>
    BY DEF OpEnds
<1>8. TypeInv' BY <1>6, <1>7 DEF Inv, TypeInv
<1>9. Fresh' BY <1>2, <1>6, <1>7 DEF Inv, Fresh, TypeInv
<1>10. InOnePlace' BY <1>6, <1>7 DEF Inv, InOnePlace, TypeInv
<1>11. OpenOnly' BY <1>7 DEF Inv, OpenOnly, TypeInv
<1>12. Guarded' BY <1>6, <1>7 DEF Inv, Guarded
<1> QED BY <1>8, <1>9, <1>10, <1>11, <1>12 DEF Inv

LEMMA ExpireOK == ASSUME NEW c \in Conn PROVE Inv /\ Expire(c) => Inv'
<1> SUFFICES ASSUME Inv, Expire(c) PROVE Inv'
    OBVIOUS
<1> DEFINE h == Handler("deadline", c, "ok")
<1>1. queue' = Append(queue, h) /\ deadline' = [deadline EXCEPT ![c] = "over"]
      /\ UNCHANGED <<accepted, socket, op>>
    BY DEF Expire
<1>2. h \in Handlers /\ h.k = "deadline" /\ h.c = c BY HandlerType DEF Kinds, Conn, Ends
<1>3. queue \in Seq(Handlers) BY DEF Inv, TypeInv
<1>4. /\ queue' \in Seq(Handlers)
      /\ \A d \in Conn : Ended(queue', d) => Ended(queue, d)
      /\ Unique(queue')
      /\ \A d \in Conn : Expires(queue, d) => Expires(queue', d)
      /\ Expires(queue', c)
    BY <1>1, <1>2, <1>3, AppendFacts DEF Inv, InOnePlace
<1>5. TypeInv' BY <1>1, <1>4 DEF Inv, TypeInv
<1>6. Fresh' BY <1>1, <1>4 DEF Inv, Fresh
<1>7. InOnePlace' BY <1>1, <1>4 DEF Inv, InOnePlace
<1>8. OpenOnly' BY <1>1 DEF Inv, OpenOnly
<1>9. Guarded' BY <1>1, <1>4 DEF Inv, Guarded, TypeInv
<1> QED BY <1>5, <1>6, <1>7, <1>8, <1>9 DEF Inv

LEMMA AcceptedOK == Inv /\ Accepted => Inv'
<1> SUFFICES ASSUME Inv, Accepted PROVE Inv'
    OBVIOUS
<1> DEFINE c0 == accepted + 1
<1>1. queue # <<>> /\ Head(queue).k = "accept" BY DEF Accepted, Runs
<1>2. /\ accepted' = c0 /\ socket' = [socket EXCEPT ![c0] = "open"]
      /\ op' = [op EXCEPT ![c0] = "read"] /\ deadline' = [deadline EXCEPT ![c0] = "armed"]
      /\ queue' = Rest
    BY DEF Accepted
<1>3. \A c \in Conn : Head(queue) # Handler("deadline", c, "ok") BY <1>1 DEF Handler
<1>4. /\ Rest \in Seq(Handlers) /\ Unique(Rest)
      /\ \A c \in Conn : Ended(Rest, c) => Ended(queue, c)
      /\ \A c \in Conn : Expires(queue, c) => Expires(Rest, c)
    BY <1>1, <1>3, RestFacts
<1>5. accepted \in Nat /\ c0 > accepted /\ Conn \subseteq Nat
    BY DEF Inv, TypeInv, Conn
<1>6. TypeInv'
    <2>1. accepted' \in Nat BY <1>2, <1>5
    <2>2. /\ socket' \in [Conn -> {"none", "open", "shut", "closed"}]
          /\ op' \in [Conn -> {"none", "read", "write"}]
          /\ deadline' \in [Conn -> {"none", "armed", "over"}]
        BY <1>2 DEF Inv, TypeInv
    <2> QED BY <1>2, <1>4, <2>1, <2>2 DEF TypeInv
<1>7. Fresh' BY <1>2, <1>4, <1>5 DEF Inv, Fresh, TypeInv
<1>8. InOnePlace' BY <1>2, <1>4, <1>5 DEF Inv, InOnePlace, Fresh, TypeInv
<1>9. OpenOnly' BY <1>2 DEF Inv, OpenOnly, TypeInv
<1>10. Guarded' BY <1>2, <1>4 DEF Inv, Guarded, TypeInv
<1> QED BY <1>6, <1>7, <1>8, <1>9, <1>10 DEF Inv

LEMMA ReadDoneOK == Inv /\ ReadDone => Inv'
<1> SUFFICES ASSUME Inv, ReadDone PROVE Inv'
    OBVIOUS
<1>1. queue # <<>> /\ Head(queue).k = "read" BY DEF ReadDone, Runs
<1>2. \A c \in Conn : Head(queue) # Handler("deadline", c, "ok") BY <1>1 DEF Handler
<1>3. /\ Rest \in Seq(Handlers) /\ This \in Conn /\ Unique(Rest)
      /\ \A c \in Conn : Ended(Rest, c) => Ended(queue, c)
      /\ \A c \in Conn : Expires(queue, c) => Expires(Rest, c)
      /\ op[This] = "none" /\ This <= accepted /\ ~Ended(Rest, This)
    BY <1>1, <1>2, RestFacts
<1>4. UNCHANGED <<accepted, socket, deadline>> BY DEF ReadDone
<1>5. CASE socket[This] = "open"
    <2>1. op' = [op EXCEPT ![This] = "write"] /\ queue' = Rest BY <1>5 DEF ReadDone
    <2>2. TypeInv' BY <1>3, <1>4, <2>1 DEF Inv, TypeInv
    <2>3. Fresh' BY <1>3, <1>4, <2>1 DEF Inv, Fresh, TypeInv, Conn
    <2>4. InOnePlace' BY <1>3, <2>1 DEF Inv, InOnePlace, TypeInv
    <2>5. OpenOnly' BY <1>4, <1>5, <2>1 DEF Inv, OpenOnly, TypeInv
    <2>6. Guarded' BY <1>3, <1>4, <2>1 DEF Inv, Guarded
    <2> QED BY <2>2, <2>3, <2>4, <2>5, <2>6 DEF Inv
<1>6. CASE socket[This] # "open"
    <2> DEFINE h == Handler("write", This, "error")
    <2>1. op' = op /\ queue' = Append(Rest, h) BY <1>6 DEF ReadDone
    <2>2. h \in Handlers /\ h.k = "write" /\ h.c = This
        BY <1>3, HandlerType DEF Kinds, Conn, Ends
    <2>3. Unique(queue')
        BY <1>3, <2>1, <2>2, AppendFacts
    <2>4. /\ queue' \in Seq(Handlers)
          /\ \A c \in Conn : Ended(queue', c) => Ended(Rest, c) \/ c = This
          /\ \A c \in Conn : Expires(Rest, c) => Expires(queue', c)
        BY <1>3, <2>1, <2>2, AppendFacts
    <2>5. TypeInv' BY <1>4, <2>1, <2>4 DEF Inv, TypeInv
    <2>6. Fresh' BY <1>3, <1>4, <2>1, <2>4 DEF Inv, Fresh, TypeInv, Conn
    <2>7. InOnePlace' BY <1>3, <2>1, <2>3, <2>4 DEF Inv, InOnePlace
    <2>8. OpenOnly' BY <1>4, <2>1 DEF Inv, OpenOnly
    <2>9. Guarded' BY <1>3, <1>4, <2>4 DEF Inv, Guarded
    <2> QED BY <2>5, <2>6, <2>7, <2>8, <2>9 DEF Inv
<1> QED BY <1>5, <1>6

LEMMA WriteDoneOK == Inv /\ WriteDone => Inv'
<1> SUFFICES ASSUME Inv, WriteDone PROVE Inv'
    OBVIOUS
<1>1. queue # <<>> /\ Head(queue).k = "write" BY DEF WriteDone, Runs
<1>2. \A c \in Conn : Head(queue) # Handler("deadline", c, "ok") BY <1>1 DEF Handler
<1>3. /\ Rest \in Seq(Handlers) /\ This \in Conn /\ Unique(Rest)
      /\ \A c \in Conn : Ended(Rest, c) => Ended(queue, c)
      /\ \A c \in Conn : Expires(queue, c) => Expires(Rest, c)
      /\ op[This] = "none" /\ This <= accepted /\ ~Ended(Rest, This)
    BY <1>1, <1>2, RestFacts
<1>4. /\ socket' = [socket EXCEPT ![This] = IF @ = "open" THEN "shut" ELSE @]
      /\ deadline' = [deadline EXCEPT ![This] = "over"]
      /\ queue' = Cancelled(This, Rest)
      /\ UNCHANGED <<accepted, op>>
    BY DEF WriteDone
<1>5. /\ queue' \in Seq(Handlers) /\ Unique(queue')
      /\ \A c \in Conn : Ended(queue', c) => Ended(Rest, c)
      /\ \A c \in Conn : Expires(Rest, c) => Expires(queue', c)
    <2> DEFINE h == Handler("deadline", This, "error")
    <2>1. h \in Handlers /\ h.k = "deadline" BY <1>3, HandlerType DEF Kinds, Conn, Ends
    <2>2. CASE deadline[This] # "armed"
        BY <1>3, <1>4, <2>2 DEF Cancelled
    <2>3. CASE deadline[This] = "armed"
        <3>1. queue' = Append(Rest, h) BY <1>4, <2>3 DEF Cancelled
        <3> HIDE DEF h
        <3>2. Unique(queue') /\ queue' \in Seq(Handlers) BY <1>3, <2>1, <3>1, AppendFacts
        <3>3. /\ \A c \in Conn : Ended(queue', c) => Ended(Rest, c)
              /\ \A c \in Conn : Expires(Rest, c) => Expires(queue', c)
            BY <1>3, <2>1, <3>1, AppendFacts
        <3> QED BY <3>2, <3>3
    <2> QED BY <2>2, <2>3
<1>6. TypeInv' BY <1>4, <1>5 DEF Inv, TypeInv
<1>7. Fresh' BY <1>3, <1>4, <1>5 DEF Inv, Fresh, TypeInv
<1>8. InOnePlace' BY <1>3, <1>4, <1>5 DEF Inv, InOnePlace
<1>9. OpenOnly' BY <1>3, <1>4 DEF Inv, OpenOnly, TypeInv
<1>10. Guarded' BY <1>3, <1>4, <1>5 DEF Inv, Guarded, TypeInv
<1> QED BY <1>6, <1>7, <1>8, <1>9, <1>10 DEF Inv

LEMMA DeadlineOK == Inv /\ Deadline => Inv'
<1> SUFFICES ASSUME Inv, Deadline PROVE Inv'
    OBVIOUS
<1>1. queue # <<>> /\ Head(queue).k = "deadline" BY DEF Deadline, Runs
<1>2. \A c \in Conn : c # This => Head(queue) # Handler("deadline", c, "ok")
    BY DEF Handler, This
<1>3. /\ Rest \in Seq(Handlers) /\ This \in Conn /\ Unique(Rest)
      /\ \A c \in Conn : Ended(Rest, c) => Ended(queue, c)
      /\ \A c \in Conn : c # This /\ Expires(queue, c) => Expires(Rest, c)
    BY <1>1, <1>2, RestFacts
<1>4. /\ socket' = [socket EXCEPT ![This] = "closed"]
      /\ op' = [op EXCEPT ![This] = "none"]
      /\ UNCHANGED <<accepted, deadline>>
    BY DEF Deadline
<1>5. /\ queue' \in Seq(Handlers) /\ Unique(queue')
      /\ \A c \in Conn : Ended(queue', c) => Ended(queue, c) \/ (c = This /\ op[c] # "none")
      /\ \A c \in Conn : Expires(Rest, c) => Expires(queue', c)
    <2>1. CASE op[This] = "none"
        BY <1>3, <2>1 DEF Deadline
    <2>2. CASE op[This] # "none"
        <3> DEFINE h == Handler(op[This], This, "error")
        <3>1. op[This] \in {"read", "write"} BY <1>3, <2>2 DEF Inv, TypeInv
        <3>2. h \in Handlers /\ h.k = op[This] /\ h.c = This
            BY <1>3, <3>1, HandlerType DEF Kinds, Ends, Conn
        <3>3. queue' = Append(Rest, h) BY <2>2 DEF Deadline
        <3>4. ~Ended(Rest, This) BY <1>3, <2>2 DEF Inv, InOnePlace
        <3>5. \A c \in Conn : Ended(queue', c) => Ended(Rest, c) \/ c = This
            BY <1>3, <3>2, <3>3, AppendFacts
        <3> HIDE DEF h
        <3> QED BY <1>3, <2>2, <3>2, <3>3, <3>4, <3>5, AppendFacts
    <2> QED BY <2>1, <2>2
<1>6. TypeInv' BY <1>4, <1>5 DEF Inv, TypeInv
<1>7. Fresh' BY <1>4, <1>5 DEF Inv, Fresh, TypeInv
<1>8. InOnePlace' BY <1>4, <1>5 DEF Inv, InOnePlace, TypeInv
<1>9. OpenOnly' BY <1>4 DEF Inv, OpenOnly, TypeInv
<1>10. Guarded' BY <1>3, <1>4, <1>5 DEF Inv, Guarded, TypeInv
<1> QED BY <1>6, <1>7, <1>8, <1>9, <1>10 DEF Inv

LEMMA StepOK == Inv /\ [Next]_vars => Inv'
<1> SUFFICES ASSUME Inv, [Next]_vars PROVE Inv'
    OBVIOUS
<1>1. CASE AcceptEnds BY <1>1, AcceptEndsOK
<1>2. CASE \E c \in Conn : OpEnds(c) \/ Expire(c) BY <1>2, OpEndsOK, ExpireOK
<1>3. CASE Accepted BY <1>3, AcceptedOK
<1>4. CASE AcceptError BY <1>4, JustTaken DEF AcceptError, Runs
<1>5. CASE AcceptFatal BY <1>5, JustTaken DEF AcceptFatal, Runs
<1>6. CASE ReadDone BY <1>6, ReadDoneOK
<1>7. CASE ReadFailed BY <1>7, JustTaken DEF ReadFailed, Runs
<1>8. CASE WriteDone BY <1>8, WriteDoneOK
<1>9. CASE Deadline BY <1>9, DeadlineOK
<1>10. CASE DeadlineCancelled BY <1>10, JustTaken DEF DeadlineCancelled, Runs
<1>11. CASE ReadThrows BY <1>11, JustTaken DEF ReadThrows, Runs
<1>12. CASE UNCHANGED vars
    BY <1>12 DEF vars, Inv, TypeInv, Fresh, InOnePlace, OpenOnly, Guarded
<1> QED
    BY <1>1, <1>2, <1>3, <1>4, <1>5, <1>6, <1>7, <1>8, <1>9, <1>10, <1>11, <1>12 DEF Next

\* Whatever waits for the peer is cut off by a deadline to come
\* (WebControlServer.cpp:301-311): an operation is under way on an open socket only, and
\* an open socket has its deadline ahead.
THEOREM DeadlinesAhead == Spec => []DeadlineAhead
<1>1. Inv => DeadlineAhead
    BY DEF Inv, OpenOnly, Guarded, DeadlineAhead, Expires, Expiring
<1> QED BY <1>1, InitOK, StepOK, PTL DEF Spec

-----------------------------------------------------------------------------
(* The accept loop.                                                        *)

HasAccept(q) == \E i \in 1..Len(q) : q[i].k = "accept"
OneAtMost(q) == \A i, j \in 1..Len(q) : q[i].k = "accept" /\ q[j].k = "accept" => i = j

\* The end of an accept is queued as long as "accept" says so, once, and there is room
\* for the connection it brings.
AcceptInv ==
    /\ accept \in {"pending", "queued", "stopped"}
    /\ accepted \in 0..MaxConn
    /\ OneAtMost(queue)
    /\ HasAccept(queue) <=> accept = "queued"
    /\ accept = "queued" => accepted < MaxConn

LEMMA AcceptAppended ==
    ASSUME NEW q \in Seq(Handlers), NEW h \in Handlers
    PROVE  /\ h.k # "accept" => /\ HasAccept(Append(q, h)) <=> HasAccept(q)
                                /\ OneAtMost(q) => OneAtMost(Append(q, h))
           /\ h.k = "accept" => /\ HasAccept(Append(q, h))
                                /\ ~HasAccept(q) => OneAtMost(Append(q, h))
<1> DEFINE r == Append(q, h)
<1>1. /\ Len(q) \in Nat /\ Len(r) = Len(q) + 1 /\ r[Len(q) + 1] = h
      /\ \A i \in 1..Len(q) : r[i] = q[i]
    OBVIOUS
<1> HIDE DEF r
<1>2. CASE h.k # "accept"
    <2>1. \A i : i \in 1..Len(r) /\ r[i].k = "accept" <=> i \in 1..Len(q) /\ q[i].k = "accept"
        BY <1>1, <1>2
    <2>2. HasAccept(r) <=> HasAccept(q) BY <2>1 DEF HasAccept
    <2>3. OneAtMost(q) => OneAtMost(r) BY <2>1 DEF OneAtMost
    <2> QED BY <1>2, <2>2, <2>3 DEF r
<1>3. CASE h.k = "accept"
    <2>1. HasAccept(r)
        <3>1. Len(q) + 1 \in 1..Len(r) BY <1>1
        <3> QED BY <1>1, <1>3, <3>1 DEF HasAccept
    <2>2. ASSUME ~HasAccept(q) PROVE OneAtMost(r)
        <3>1. \A i \in 1..Len(r) : r[i].k = "accept" => i = Len(q) + 1
            BY <1>1, <2>2 DEF HasAccept
        <3> QED BY <3>1 DEF OneAtMost
    <2> QED BY <1>3, <2>1, <2>2 DEF r
<1> QED BY <1>2, <1>3

LEMMA AcceptTaken ==
    ASSUME NEW q \in Seq(Handlers), q # <<>>, OneAtMost(q)
    PROVE  /\ OneAtMost(Tail(q))
           /\ Head(q).k # "accept" => (HasAccept(Tail(q)) <=> HasAccept(q))
           /\ Head(q).k = "accept" => HasAccept(q) /\ ~HasAccept(Tail(q))
<1> DEFINE r == Tail(q)
<1>1. /\ Head(q) = q[1] /\ Len(q) \in Nat /\ 1 \in 1..Len(q) /\ Len(r) = Len(q) - 1
      /\ \A i \in 1..Len(r) : i + 1 \in 1..Len(q) /\ i + 1 # 1 /\ r[i] = q[i + 1]
    OBVIOUS
<1> HIDE DEF r
<1>2. ASSUME NEW i \in 1..Len(q), i # 1
      PROVE  i - 1 \in 1..Len(r) /\ r[i - 1] = q[i]
    <2>1. i - 1 \in 1..Len(r) /\ (i - 1) + 1 = i BY <1>1, <1>2
    <2> QED BY <1>1, <2>1
<1>3. OneAtMost(r)
    <2> SUFFICES ASSUME NEW i \in 1..Len(r), NEW j \in 1..Len(r),
                        r[i].k = "accept", r[j].k = "accept"
                 PROVE  i = j
        BY DEF OneAtMost
    <2>1. i + 1 = j + 1 BY <1>1 DEF OneAtMost
    <2> QED BY <2>1
<1>4. HasAccept(r) => HasAccept(q) BY <1>1 DEF HasAccept
<1>5. Head(q).k # "accept" /\ HasAccept(q) => HasAccept(r) BY <1>1, <1>2 DEF HasAccept
<1>6. Head(q).k = "accept" => HasAccept(q) /\ ~HasAccept(r)
    BY <1>1 DEF HasAccept, OneAtMost
<1> QED BY <1>3, <1>4, <1>5, <1>6 DEF r

LEMMA InitAccept == Init => AcceptInv
<1> SUFFICES ASSUME Init PROVE AcceptInv
    OBVIOUS
<1>1. Len(queue) = 0 /\ accept = "pending" /\ accepted = 0 BY DEF Init
<1> QED BY <1>1, MaxConnOK DEF AcceptInv, OneAtMost, HasAccept

\* The handlers of connections and what befalls connections leave the loop alone.
LEMMA LoopAlone ==
    ASSUME Inv, AcceptInv, UNCHANGED <<accept, accepted>>,
           \E q \in Seq(Handlers) :
               /\ \/ q = queue
                  \/ queue # <<>> /\ Head(queue).k # "accept" /\ q = Rest
               /\ \/ queue' = q
                  \/ \E h \in Handlers : h.k # "accept" /\ queue' = Append(q, h)
    PROVE  AcceptInv'
<1>1. queue \in Seq(Handlers) /\ OneAtMost(queue) BY DEF Inv, TypeInv, AcceptInv
<1>2. PICK q \in Seq(Handlers) :
        /\ \/ q = queue
           \/ queue # <<>> /\ Head(queue).k # "accept" /\ q = Rest
        /\ \/ queue' = q
           \/ \E h \in Handlers : h.k # "accept" /\ queue' = Append(q, h)
    OBVIOUS
<1>3. OneAtMost(q) /\ (HasAccept(q) <=> HasAccept(queue))
    <2>1. CASE q = queue BY <1>1, <2>1
    <2>2. CASE queue # <<>> /\ Head(queue).k # "accept" /\ q = Rest
        <3>1. OneAtMost(Tail(queue)) /\ (HasAccept(Tail(queue)) <=> HasAccept(queue))
            BY <1>1, <2>2, AcceptTaken
        <3> QED BY <2>2, <3>1 DEF Rest
    <2> QED BY <1>2, <2>1, <2>2
<1>4. OneAtMost(queue') /\ (HasAccept(queue') <=> HasAccept(q))
    <2>1. CASE queue' = q BY <1>3, <2>1
    <2>2. ASSUME NEW h \in Handlers, h.k # "accept", queue' = Append(q, h)
          PROVE  OneAtMost(queue') /\ (HasAccept(queue') <=> HasAccept(q))
        <3>1. /\ HasAccept(Append(q, h)) <=> HasAccept(q)
              /\ OneAtMost(q) => OneAtMost(Append(q, h))
            BY <2>2, AcceptAppended
        <3> QED BY <1>3, <2>2, <3>1
    <2> QED BY <1>2, <2>1, <2>2
<1> QED BY <1>3, <1>4 DEF AcceptInv

\* The end of an accept is taken from the queue: none is left there.
LEMMA LoopRuns ==
    ASSUME Inv, AcceptInv, NEW how \in Ends, Runs("accept", how), queue' = Rest
    PROVE  ~HasAccept(queue') /\ OneAtMost(queue') /\ accept = "queued"
           /\ accepted \in Nat /\ accepted < MaxConn
BY AcceptTaken, MaxConnOK DEF Inv, TypeInv, AcceptInv, Runs, Rest

LEMMA StepAccept == Inv /\ AcceptInv /\ [Next]_vars => AcceptInv'
<1> SUFFICES ASSUME Inv, AcceptInv, [Next]_vars PROVE AcceptInv'
    OBVIOUS
<1>1. queue \in Seq(Handlers) BY DEF Inv, TypeInv
<1>2. CASE AcceptEnds
    <2>1. PICK how \in Ends : queue' = Append(queue, Handler("accept", 0, how))
        BY <1>2 DEF AcceptEnds
    <2>2. /\ Handler("accept", 0, how) \in Handlers
          /\ Handler("accept", 0, how).k = "accept"
        BY HandlerType DEF Kinds, Conn
    <2>3. accept = "pending" /\ accept' = "queued" /\ accepted < MaxConn /\ accepted' = accepted
        BY <1>2 DEF AcceptEnds
    <2>4. HasAccept(queue') /\ OneAtMost(queue')
        BY <1>1, <2>1, <2>2, <2>3, AcceptAppended DEF AcceptInv
    <2> QED BY <2>3, <2>4 DEF AcceptInv
<1>3. ASSUME NEW c \in Conn, OpEnds(c) PROVE AcceptInv'
    <2>1. PICK how \in {"ok", "error"} : queue' = Append(queue, Handler(op[c], c, how))
        BY <1>3 DEF OpEnds
    <2>2. op[c] \in {"read", "write"} BY <1>3 DEF OpEnds, Inv, TypeInv
    <2>3. Handler(op[c], c, how) \in Handlers /\ Handler(op[c], c, how).k # "accept"
        BY <2>2, HandlerType DEF Kinds, Conn, Ends
    <2> QED BY <1>1, <1>3, <2>1, <2>3, LoopAlone DEF OpEnds
<1>4. ASSUME NEW c \in Conn, Expire(c) PROVE AcceptInv'
    <2>1. Handler("deadline", c, "ok") \in Handlers /\ Handler("deadline", c, "ok").k # "accept"
        BY HandlerType DEF Kinds, Conn, Ends
    <2> QED BY <1>1, <1>4, <2>1, LoopAlone DEF Expire
<1>5. CASE Accepted
    <2>1. ~HasAccept(queue') /\ OneAtMost(queue') /\ accepted \in Nat /\ accepted < MaxConn
        BY <1>5, LoopRuns DEF Accepted, Ends
    <2>2. accept' = "pending" /\ accepted' = accepted + 1 BY <1>5 DEF Accepted
    <2> QED BY <2>1, <2>2, MaxConnOK DEF AcceptInv
<1>6. CASE AcceptError
    <2>1. ~HasAccept(queue') /\ OneAtMost(queue') BY <1>6, LoopRuns DEF AcceptError, Ends
    <2> QED BY <1>6, <2>1 DEF AcceptError, AcceptInv
<1>7. CASE AcceptFatal
    <2>1. ~HasAccept(queue') /\ OneAtMost(queue') BY <1>7, LoopRuns DEF AcceptFatal, Ends
    <2> QED BY <1>7, <2>1 DEF AcceptFatal, AcceptInv
<1>8. CASE ReadFailed \/ ReadThrows \/ DeadlineCancelled
    <2>1. queue # <<>> /\ Head(queue).k # "accept" /\ queue' = Rest
        BY <1>8 DEF ReadFailed, ReadThrows, DeadlineCancelled, Runs
    <2> QED BY <1>8, <2>1, RestFacts, LoopAlone DEF ReadFailed, ReadThrows, DeadlineCancelled
<1>9. CASE ReadDone
    <2>1. queue # <<>> /\ Head(queue).k = "read" BY <1>9 DEF ReadDone, Runs
    <2>2. Rest \in Seq(Handlers) /\ This \in Conn BY <2>1, RestFacts
    <2>3. /\ Handler("write", This, "error") \in Handlers
          /\ Handler("write", This, "error").k # "accept"
        BY <2>2, HandlerType DEF Kinds, Conn, Ends
    <2>4. queue' = Rest \/ queue' = Append(Rest, Handler("write", This, "error"))
        BY <1>9 DEF ReadDone
    <2>5. UNCHANGED <<accept, accepted>> BY <1>9 DEF ReadDone
    <2> QED BY <2>1, <2>2, <2>3, <2>4, <2>5, LoopAlone
<1>10. CASE WriteDone
    <2>1. queue # <<>> /\ Head(queue).k = "write" BY <1>10 DEF WriteDone, Runs
    <2>2. Rest \in Seq(Handlers) /\ This \in Conn BY <2>1, RestFacts
    <2>3. /\ Handler("deadline", This, "error") \in Handlers
          /\ Handler("deadline", This, "error").k # "accept"
        BY <2>2, HandlerType DEF Kinds, Conn, Ends
    <2>4. queue' = Rest \/ queue' = Append(Rest, Handler("deadline", This, "error"))
        BY <1>10 DEF WriteDone, Cancelled
    <2>5. UNCHANGED <<accept, accepted>> BY <1>10 DEF WriteDone
    <2> QED BY <2>1, <2>2, <2>3, <2>4, <2>5, LoopAlone
<1>11. CASE Deadline
    <2>1. queue # <<>> /\ Head(queue).k = "deadline" BY <1>11 DEF Deadline, Runs
    <2>2. Rest \in Seq(Handlers) /\ This \in Conn BY <2>1, RestFacts
    <2>3. op[This] # "none" => /\ Handler(op[This], This, "error") \in Handlers
                               /\ Handler(op[This], This, "error").k # "accept"
        <3> SUFFICES ASSUME op[This] # "none"
                     PROVE  /\ Handler(op[This], This, "error") \in Handlers
                            /\ Handler(op[This], This, "error").k # "accept"
            OBVIOUS
        <3>1. op[This] \in {"read", "write"} BY <2>2 DEF Inv, TypeInv
        <3> QED BY <2>2, <3>1, HandlerType DEF Kinds, Conn, Ends
    <2>4. queue' = IF op[This] = "none" THEN Rest
                   ELSE Append(Rest, Handler(op[This], This, "error"))
        BY <1>11 DEF Deadline
    <2>5. UNCHANGED <<accept, accepted>> BY <1>11 DEF Deadline
    <2> QED BY <2>1, <2>2, <2>3, <2>4, <2>5, LoopAlone
<1>12. CASE UNCHANGED vars BY <1>12 DEF vars, AcceptInv
<1> QED
    BY <1>2, <1>3, <1>4, <1>5, <1>6, <1>7, <1>8, <1>9, <1>10, <1>11, <1>12 DEF Next

\* Every variable keeps its type; the number of connections stays in its bound because
\* an accept is under way only while there is room for one.
THEOREM ConnectionsTyped == Spec => []TypeOK
<1>1. Inv /\ AcceptInv => TypeOK
    <2> SUFFICES ASSUME Inv, AcceptInv PROVE TypeOK
        OBVIOUS
    <2> DEFINE S == [k : {"accept", "read", "write", "deadline"},
                     c : Conn \cup {0}, how : Ends]
    <2>1. Handlers \subseteq S BY DEF Handlers, Kinds
    <2> HIDE DEF S
    <2>2. queue \in Seq(Handlers) BY DEF Inv, TypeInv
    <2>3. queue \in Seq(S) BY <2>1, <2>2
    <2> QED BY <2>3 DEF S, TypeOK, Inv, TypeInv, AcceptInv
<1> QED BY <1>1, InitOK, StepOK, InitAccept, StepAccept, PTL DEF Spec

\* Until a listed error stops the loop, exactly one accept is under way: its end is
\* queued once, and accepting goes on when that end is handled.
THEOREM AcceptsOne == Spec => []OneAccept
<1>1. Inv /\ AcceptInv => OneAccept
    <2> SUFFICES ASSUME Inv, AcceptInv PROVE OneAccept
        OBVIOUS
    <2> DEFINE A == {i \in DOMAIN queue : queue[i].k = "accept"}
    <2>1. DOMAIN queue = 1..Len(queue) BY DEF Inv, TypeInv
    <2>2. CASE A = {}
        <3>1. Cardinality(A) = 0 BY <2>2, FS_EmptySet
        <3>2. accept # "queued" BY <2>1, <2>2 DEF AcceptInv, HasAccept
        <3> QED BY <3>1, <3>2 DEF AcceptInv, OneAccept
    <2>3. CASE A # {}
        <3>1. PICK i \in A : TRUE BY <2>3
        <3>2. A = {i} BY <2>1, <3>1 DEF AcceptInv, OneAtMost
        <3>3. Cardinality(A) = 1 BY <3>2, FS_Singleton
        <3>4. accept = "queued" BY <2>1, <3>1 DEF AcceptInv, HasAccept
        <3> QED BY <3>3, <3>4 DEF OneAccept
    <2> QED BY <2>2, <2>3
<1> QED BY <1>1, InitOK, StepOK, InitAccept, StepAccept, PTL DEF Spec
=============================================================================
