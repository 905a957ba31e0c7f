-------------------------- MODULE EmbedSessionProofs --------------------------
(***************************************************************************)
(* For any number of pipelined requests: the embedded server answers them  *)
(* once each, in order, and only a file that vanished is "not found".  The *)
(* argument for the order: what the session has read and not answered is   *)
(* at most the one request it is handling, so the number of replies tells  *)
(* the number of the request.                                              *)
(***************************************************************************)
EXTENDS EmbedSession, TLAPS

\* Requests wait in the order in which they were sent.
InboxInOrder == \A i \in 1..Len(inbox) : inbox[i].id = (sent - Len(inbox)) + i

\* What was read was answered, but for the request in handle_request.
OneHandled ==
    /\ pc = "idle" => sent = Len(inbox) + Len(replies)
    /\ pc # "idle" => sent = Len(inbox) + Len(replies) + 1 /\ req.id = Len(replies) + 1

\* The session that reads, or handles what it read, has not announced its end.
StillOpen ==
    op = "read" \/ pc # "idle" => \A i \in 1..Len(replies) : ~replies[i].close

\* handle_request opens a file only when it found it.
LookedFirst == pc = "open" => found

Inv ==
    /\ TypeOK /\ InboxInOrder /\ OneHandled /\ StillOpen
    /\ op = "write" => replies # <<>>
    /\ RepliesInOrder
    /\ LookedFirst /\ NotFoundVanished

-----------------------------------------------------------------------------
(* Queues.                                                                 *)

LEMMA AppendFacts ==
    ASSUME NEW S, NEW q \in Seq(S), NEW e \in S
    PROVE  /\ Append(q, e) \in Seq(S) /\ Len(q) \in Nat /\ Len(Append(q, e)) = Len(q) + 1
           /\ Append(q, e)[Len(q) + 1] = e /\ Append(q, e) # <<>>
           /\ \A i \in 1..Len(q) : Append(q, e)[i] = q[i]
OBVIOUS

LEMMA TailFacts ==
    ASSUME NEW S, NEW q \in Seq(S), q # <<>>
    PROVE  /\ Tail(q) \in Seq(S) /\ Head(q) \in S /\ Head(q) = q[1]
           /\ Len(q) \in Nat /\ Len(q) >= 1 /\ Len(Tail(q)) = Len(q) - 1
           /\ \A i \in 1..(Len(q) - 1) : Tail(q)[i] = q[i + 1]
OBVIOUS

\* A reply to the request that is next in order keeps the order, if no reply before it
\* announced the end.
LEMMA RespondInOrder ==
    ASSUME TypeOK, RepliesInOrder, \A i \in 1..Len(replies) : ~replies[i].close,
           NEW r \in Request, r.id = Len(replies) + 1,
           NEW status \in {200, 400, 404, 500}, Respond(r, status)
    PROVE  /\ replies' \in Seq(Reply) /\ replies' # <<>> /\ RepliesInOrder'
           /\ Len(replies) \in Nat /\ Len(replies') = Len(replies) + 1
           /\ replies'[Len(replies')].status = status /\ op' = "write"
<1> DEFINE e == [id |-> r.id, status |-> status, close |-> ~r.keep]
<1>1. e \in Reply /\ e.id = r.id /\ e.status = status
  BY MaxRequestOK DEF Request, Reply
<1>2. replies' = Append(replies, e) /\ op' = "write"
  BY DEF Respond
<1> HIDE DEF e
<1>3. replies \in Seq(Reply)
  BY DEF TypeOK
<1>4. /\ replies' \in Seq(Reply) /\ Len(replies) \in Nat /\ Len(replies') = Len(replies) + 1
      /\ replies'[Len(replies) + 1] = e /\ replies' # <<>>
      /\ \A i \in 1..Len(replies) : replies'[i] = replies[i]
  BY <1>1, <1>2, <1>3, AppendFacts
<1>5. DOMAIN replies = 1..Len(replies) /\ DOMAIN replies' = 1..Len(replies')
  BY <1>3, <1>4
<1>6. ASSUME NEW i \in 1..Len(replies')
      PROVE  replies'[i].id = i /\ (i < Len(replies') => ~replies'[i].close)
  <2>1. CASE i = Len(replies) + 1
    BY <1>1, <1>4, <2>1
  <2>2. CASE i \in 1..Len(replies)
    BY <1>4, <1>5, <2>2 DEF RepliesInOrder
  <2> QED
    BY <1>4, <2>1, <2>2
<1>7. RepliesInOrder'
  BY <1>5, <1>6 DEF RepliesInOrder
<1> QED
  BY <1>1, <1>2, <1>4, <1>7

-----------------------------------------------------------------------------
(* One lemma per kind of step.                                             *)

LEMMA InitOK == Init => Inv
<1> SUFFICES ASSUME Init PROVE Inv
  OBVIOUS
<1>1. Len(inbox) = 0 /\ Len(replies) = 0 /\ DOMAIN replies = {} /\ sent = 0
      /\ inbox = <<>> /\ replies = <<>>
  BY DEF Init
<1>2. inbox \in Seq(Request) /\ replies \in Seq(Reply)
  BY <1>1
<1>3. sent \in 0..MaxRequest
  BY <1>1, MaxRequestOK
<1>4. TypeOK
  BY <1>1, <1>2, <1>3 DEF Init, TypeOK
<1> QED
  BY <1>1, <1>4
  DEF Init, Inv, InboxInOrder, OneHandled, StillOpen, RepliesInOrder, LookedFirst,
      NotFoundVanished

LEMMA SendOK == Inv /\ Send => Inv'
<1> SUFFICES ASSUME Inv, Send PROVE Inv'
  OBVIOUS
<1>1. PICK m \in Method, t \in Target, k \in BOOLEAN :
          inbox' = Append(inbox, [id |-> sent + 1, method |-> m, target |-> t, keep |-> k])
  BY DEF Send
<1> DEFINE r == [id |-> sent + 1, method |-> m, target |-> t, keep |-> k]
<1>2. /\ sent \in Nat /\ sent < MaxRequest /\ sent' = sent + 1 /\ inbox \in Seq(Request)
      /\ UNCHANGED <<eof, present, op, pc, req, found, replies>>
  BY DEF Send, Inv, TypeOK
<1>3. r \in Request /\ r.id = sent + 1
  BY <1>2, MaxRequestOK DEF Request
<1> HIDE DEF r
<1>4. inbox' = Append(inbox, r)
  BY <1>1 DEF r
<1>5. /\ inbox' \in Seq(Request) /\ Len(inbox) \in Nat /\ Len(inbox') = Len(inbox) + 1
      /\ inbox'[Len(inbox) + 1] = r /\ \A i \in 1..Len(inbox) : inbox'[i] = inbox[i]
  BY <1>2, <1>3, <1>4, AppendFacts
<1>6. sent' \in 0..MaxRequest
  BY <1>2, MaxRequestOK
<1>7. TypeOK'
  BY <1>2, <1>5, <1>6 DEF Inv, TypeOK
<1>8. ASSUME NEW i \in 1..Len(inbox') PROVE inbox'[i].id = (sent' - Len(inbox')) + i
  <2>1. CASE i = Len(inbox) + 1
    BY <1>2, <1>3, <1>5, <2>1
  <2>2. CASE i \in 1..Len(inbox)
    <3>1. inbox[i].id = (sent - Len(inbox)) + i
      BY <2>2 DEF Inv, InboxInOrder
    <3> QED
      BY <1>2, <1>5, <2>2, <3>1
  <2> QED
    BY <1>5, <2>1, <2>2
<1>9. InboxInOrder'
  BY <1>8 DEF InboxInOrder
<1>10. OneHandled'
  <2>1. Len(replies) \in Nat
    BY DEF Inv, TypeOK
  <2> QED
    BY <1>2, <1>5, <2>1 DEF Inv, OneHandled
<1> QED
  BY <1>2, <1>7, <1>9, <1>10
  DEF Inv, StillOpen, RepliesInOrder, LookedFirst, NotFoundVanished

\* The steps that neither read, look nor answer: an operation at most ends.
LEMMA IdleOK ==
    ASSUME Inv, UNCHANGED <<sent, inbox, pc, req, found, replies>>,
           present' \subseteq {"backend", "page", "other"}, eof' \in BOOLEAN,
           op' \in {op, "none"}
    PROVE  Inv'
<1>1. TypeOK'
  BY DEF Inv, TypeOK
<1> QED
  BY <1>1
  DEF Inv, InboxInOrder, OneHandled, StillOpen, RepliesInOrder, LookedFirst,
      NotFoundVanished

LEMMA OnReadOK == Inv /\ OnRead => Inv'
<1> SUFFICES ASSUME Inv, OnRead PROVE Inv'
  OBVIOUS
<1>1. /\ op = "read" /\ inbox # <<>> /\ req' = Head(inbox) /\ inbox' = Tail(inbox)
      /\ inbox \in Seq(Request) /\ sent \in Nat /\ pc = "idle"
      /\ UNCHANGED <<sent, eof, present, found>>
  BY DEF OnRead, Inv, TypeOK
<1>2. /\ inbox' \in Seq(Request) /\ req' \in Request /\ req' = inbox[1]
      /\ Len(inbox) \in Nat /\ Len(inbox) >= 1 /\ Len(inbox') = Len(inbox) - 1
      /\ \A i \in 1..(Len(inbox) - 1) : inbox'[i] = inbox[i + 1]
  BY <1>1, TailFacts
<1>3. Len(replies) \in Nat /\ sent = Len(inbox) + Len(replies)
  BY <1>1 DEF Inv, TypeOK, OneHandled
<1>4. req'.id = Len(replies) + 1
  <2>1. 1 \in 1..Len(inbox)
    BY <1>2
  <2>2. inbox[1].id = (sent - Len(inbox)) + 1
    BY <2>1 DEF Inv, InboxInOrder
  <2> QED
    BY <1>2, <1>3, <2>2
<1>5. InboxInOrder'
  <2>1. ASSUME NEW i \in 1..Len(inbox') PROVE inbox'[i].id = (sent' - Len(inbox')) + i
    <3>1. i + 1 \in 1..Len(inbox) /\ inbox'[i] = inbox[i + 1]
      BY <1>2
    <3>2. inbox[i + 1].id = (sent - Len(inbox)) + (i + 1)
      BY <3>1 DEF Inv, InboxInOrder
    <3> QED
      BY <1>1, <1>2, <3>1, <3>2
  <2> QED
    BY <2>1 DEF InboxInOrder
<1>6. \A i \in 1..Len(replies) : ~replies[i].close
  BY <1>1 DEF Inv, StillOpen
<1>7. CASE op' = "none" /\ pc' = "check" /\ UNCHANGED replies
  <2>1. TypeOK'
    BY <1>1, <1>2, <1>7 DEF Inv, TypeOK
  <2>2. OneHandled'
    BY <1>1, <1>2, <1>3, <1>4, <1>7 DEF OneHandled
  <2> QED
    BY <1>5, <1>6, <1>7, <2>1, <2>2
    DEF Inv, StillOpen, RepliesInOrder, LookedFirst, NotFoundVanished
<1>8. CASE Respond(req', 200) /\ UNCHANGED pc
  <2>1. PICK r \in Request : r = req'
    BY <1>2
  <2>2. /\ replies' \in Seq(Reply) /\ replies' # <<>> /\ RepliesInOrder'
        /\ Len(replies') = Len(replies) + 1
        /\ replies'[Len(replies')].status = 200 /\ op' = "write"
    <3>1. Respond(r, 200)
      BY <1>8, <2>1
    <3> QED
      BY <1>4, <1>6, <2>1, <3>1, RespondInOrder DEF Inv
  <2>3. TypeOK'
    BY <1>1, <1>2, <1>8, <2>2 DEF Inv, TypeOK
  <2>4. OneHandled'
    BY <1>1, <1>2, <1>3, <1>8, <2>2 DEF OneHandled
  <2> QED
    BY <1>1, <1>5, <1>8, <2>2, <2>3, <2>4
    DEF Inv, StillOpen, LookedFirst, NotFoundVanished
<1> QED
  BY <1>7, <1>8 DEF OnRead

\* handle_request answers: the request it handles is the next in order.
LEMMA HandleOK ==
    ASSUME Inv, pc # "idle", pc' = "idle", UNCHANGED <<client, present, req>>,
           NEW status \in {200, 400, 404, 500}, Respond(req, status),
           found' \in BOOLEAN, status = 404 => found'
    PROVE  Inv'
<1>1. /\ op = "none" /\ Len(replies) \in Nat /\ Len(inbox) \in Nat /\ sent \in Nat
      /\ sent = Len(inbox) + Len(replies) + 1 /\ req.id = Len(replies) + 1
      /\ \A i \in 1..Len(replies) : ~replies[i].close
  BY DEF Inv, TypeOK, OneHandled, StillOpen
<1>2. req \in Request
  BY <1>1 DEF Inv, TypeOK, NoRequest
<1>3. /\ replies' \in Seq(Reply) /\ replies' # <<>> /\ RepliesInOrder'
      /\ Len(replies') = Len(replies) + 1
      /\ replies'[Len(replies')].status = status /\ op' = "write"
  BY <1>1, <1>2, RespondInOrder DEF Inv
<1>4. TypeOK'
  BY <1>3 DEF Inv, TypeOK, client
<1>5. InboxInOrder' /\ OneHandled'
  BY <1>1, <1>3 DEF Inv, InboxInOrder, OneHandled, client
<1> QED
  BY <1>3, <1>4, <1>5 DEF Inv, StillOpen, LookedFirst, NotFoundVanished

LEMMA CheckOK == Inv /\ Check => Inv'
<1> SUFFICES ASSUME Inv, Check PROVE Inv'
  OBVIOUS
<1>1. /\ pc = "check" /\ found' = (req.target \in present) /\ found' \in BOOLEAN
      /\ UNCHANGED <<client, present, req>>
  BY DEF Check
<1>2. CASE Refuse
  BY <1>1, <1>2, HandleOK DEF Refuse
<1>3. CASE GoOn /\ req.target \in present
  <2>1. pc' = "open" /\ found' /\ UNCHANGED <<op, replies>>
    BY <1>1, <1>3 DEF GoOn
  <2>2. TypeOK' /\ op = "none"
    BY <1>1, <2>1 DEF Inv, TypeOK, client
  <2> QED
    BY <1>1, <2>1, <2>2
    DEF Inv, InboxInOrder, OneHandled, StillOpen, RepliesInOrder, LookedFirst,
        NotFoundVanished, client
<1> QED
  BY <1>2, <1>3 DEF Check

LEMMA OpenOK == Inv /\ Open => Inv'
<1> SUFFICES ASSUME Inv, Open PROVE Inv'
  OBVIOUS
<1>1. /\ pc = "open" /\ pc' = "idle" /\ found' = found /\ found \in BOOLEAN /\ found
      /\ UNCHANGED <<client, present, req>>
  BY DEF Open, Inv, TypeOK, LookedFirst
<1>2. PICK status \in {200, 400, 404, 500} : Respond(req, status)
  BY DEF Open
<1> QED
  BY <1>1, <1>2, HandleOK

LEMMA OnWriteOK == Inv /\ OnWrite => Inv'
<1> SUFFICES ASSUME Inv, OnWrite PROVE Inv'
  OBVIOUS
<1>1. /\ op = "write" /\ op' = IF replies[Len(replies)].close THEN "none" ELSE "read"
      /\ UNCHANGED <<client, present, pc, req, found, replies>>
  BY DEF OnWrite
<1>2. pc = "idle" /\ replies \in Seq(Reply) /\ replies # <<>>
  BY <1>1 DEF Inv, TypeOK
<1>3. TypeOK'
  BY <1>1, <1>2 DEF Inv, TypeOK, client
<1>4. StillOpen'
  <2>1. ASSUME op' = "read", NEW i \in 1..Len(replies) PROVE ~replies[i].close
    <3>1. DOMAIN replies = 1..Len(replies) /\ Len(replies) \in Nat
      BY <1>2
    <3>2. CASE i = Len(replies)
      BY <1>1, <2>1, <3>2
    <3>3. CASE i < Len(replies)
      BY <3>1, <3>3 DEF Inv, RepliesInOrder
    <3> DEFINE n == Len(replies)
    <3>4. i \in 1..n /\ n \in Nat
      BY <3>1
    <3> HIDE DEF n
    <3>5. i = n \/ i < n
      BY <3>4
    <3> QED
      BY <3>2, <3>3, <3>5 DEF n
  <2> QED
    BY <1>1, <1>2, <2>1 DEF StillOpen
<1> QED
  BY <1>1, <1>3, <1>4
  DEF Inv, InboxInOrder, OneHandled, RepliesInOrder, LookedFirst, NotFoundVanished, client

LEMMA StepOK == Inv /\ [Next]_vars => Inv'
<1> SUFFICES ASSUME Inv, [Next]_vars PROVE Inv'
  OBVIOUS
<1>1. CASE HangUp \/ FilesChange \/ OnEof \/ Timeout \/ UNCHANGED vars
  BY <1>1, IdleOK DEF HangUp, FilesChange, OnEof, Timeout, vars, client, Inv, TypeOK
<1> QED
  BY <1>1, SendOK, OnReadOK, CheckOK, OpenOK, OnWriteOK DEF Next

LEMMA Invariance == Spec => []Inv
BY InitOK, StepOK, PTL DEF Spec

\* Every variable keeps its type, and no operation is under way in handle_request.
THEOREM SessionTyped == Spec => []TypeOK
BY Invariance, PTL DEF Inv

\* However many requests a client sends ahead, each is answered at most once and in its
\* turn, and nothing follows a response that announced the end of the connection.
THEOREM AnsweredInOrder == Spec => []RepliesInOrder
BY Invariance, PTL DEF Inv

\* "Not found" answers only a file that handle_request saw and could not open any more.
THEOREM OnlyVanishedNotFound == Spec => []NotFoundVanished
BY Invariance, PTL DEF Inv
=============================================================================
