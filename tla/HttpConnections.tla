--------------------------- MODULE HttpConnections ---------------------------
(***************************************************************************)
(* WebControlServer and its connections: the accept loop http_server, and  *)
(* HttpConnectSession from start() to the release of its last shared_ptr.  *)
(*                                                                         *)
(* Acceptor, sockets and deadlines live on the web strand `ex`: an         *)
(* operation that ends outside queues its handler there, and each handler  *)
(* runs alone and whole.  What it was told may be out of date by then: a   *)
(* deadline and an answer that race are both queued, in either order.      *)
(*                                                                         *)
(* process_request's effect on the serial ports and on the response is     *)
(* the subject of SerialControl and CommandDecode; here it is the fact     *)
(* that it ran.  The end of the process is not modelled.                   *)
(*                                                                         *)
(* A definition whose comment starts with "Variant" is not part of the     *)
(* model: it is a slip that a property would notice.                       *)
(***************************************************************************)
EXTENDS Naturals, Sequences, FiniteSets

CONSTANT MaxConn    \* bound: connections accepted

ASSUME MaxConnOK == MaxConn \in Nat

Conn == 1..MaxConn

VARIABLES
    accept,      \* async_accept: "pending", "queued", "stopped"
    accepted,    \* connections so far; they are numbered in order
    socket,      \* of each connection: "none", "open", "shut" (sending ended), "closed"
    op,          \* its operation that has not ended: "none", "read", "write"
    deadline,    \* its timer: "none", "armed", "over" (expired or cancelled)
    queue        \* handlers queued on the strand, oldest first

vars == <<accept, accepted, socket, op, deadline, queue>>

\* A queued handler: what ended, of which connection, and how.  An accept ends "ok",
\* with one of the error codes that http_server gives up on ("fatal"), or with another.
Handler(k, c, how) == [k |-> k, c |-> c, how |-> how]
Ends == {"ok", "error", "fatal"}

Expiring(c) == \E i \in DOMAIN queue : queue[i] = Handler("deadline", c, "ok")

\* The connection object lives while an operation, its timer or a handler holds it.
Held(c) ==
    \/ op[c] # "none" \/ deadline[c] = "armed"
    \/ \E i \in DOMAIN queue : queue[i].c = c

\* The strand runs the handler at its head, of connection This, and leaves Rest.
Runs(k, how) == queue # <<>> /\ Head(queue).k = k /\ Head(queue).how = how
This == Head(queue).c
Rest == Tail(queue)

-----------------------------------------------------------------------------
(* Outside the program: peers, the network, the clock.                     *)

AcceptEnds ==
    /\ accept = "pending" /\ accepted < MaxConn
    /\ accept' = "queued"
    /\ \E how \in Ends : queue' = Append(queue, Handler("accept", 0, how))
    /\ UNCHANGED <<accepted, socket, op, deadline>>

\* A whole request arrived, or reading failed: the peer left, or sent what cannot be
\* parsed or held.  A response was written, or writing failed.
OpEnds(c) ==
    /\ op[c] # "none"
    /\ op' = [op EXCEPT ![c] = "none"]
    /\ \E how \in {"ok", "error"} : queue' = Append(queue, Handler(op[c], c, how))
    /\ UNCHANGED <<accept, accepted, socket, deadline>>

Expire(c) ==
    /\ deadline[c] = "armed"
    /\ deadline' = [deadline EXCEPT ![c] = "over"]
    /\ queue' = Append(queue, Handler("deadline", c, "ok"))
    /\ UNCHANGED <<accept, accepted, socket, op>>

-----------------------------------------------------------------------------
(* http_server                                                             *)

\* Variant: the deadline is forgotten.
AcceptedBare ==
    /\ Runs("accept", "ok")
    /\ accepted' = accepted + 1
    /\ socket' = [socket EXCEPT ![accepted + 1] = "open"]
    /\ op' = [op EXCEPT ![accepted + 1] = "read"]
    /\ accept' = "pending"
    /\ queue' = Rest
    /\ UNCHANGED deadline

\* A session is made and started: read_request and check_deadline; accept again.
Accepted ==
    /\ Runs("accept", "ok")
    /\ accepted' = accepted + 1
    /\ socket' = [socket EXCEPT ![accepted + 1] = "open"]
    /\ op' = [op EXCEPT ![accepted + 1] = "read"]
    /\ deadline' = [deadline EXCEPT ![accepted + 1] = "armed"]
    /\ accept' = "pending"
    /\ queue' = Rest

\* Variant: every error ends the loop.
AcceptErrorReturn ==
    /\ Runs("accept", "error")
    /\ queue' = Rest
    /\ UNCHANGED <<accept, accepted, socket, op, deadline>>

\* Any other error: accept again.
AcceptError ==
    /\ Runs("accept", "error")
    /\ accept' = "pending"
    /\ queue' = Rest
    /\ UNCHANGED <<accepted, socket, op, deadline>>

\* The loop returns.
AcceptFatal ==
    /\ Runs("accept", "fatal")
    /\ accept' = "stopped"
    /\ queue' = Rest
    /\ UNCHANGED <<accepted, socket, op, deadline>>

-----------------------------------------------------------------------------
(* HttpConnectSession                                                      *)

\* deadline_.cancel(): a wait that has not ended ends with operation_aborted.
Cancelled(c, q) ==
    IF deadline[c] = "armed" THEN Append(q, Handler("deadline", c, "error")) ELSE q

\* Variant: the deadline is cancelled as soon as the request is read.
ReadDoneCancel ==
    /\ Runs("read", "ok")
    /\ IF socket[This] = "open"
       THEN op' = [op EXCEPT ![This] = "write"] /\ queue' = Cancelled(This, Rest)
       ELSE queue' = Append(Cancelled(This, Rest), Handler("write", This, "error"))
            /\ UNCHANGED op
    /\ deadline' = [deadline EXCEPT ![This] = "over"]
    /\ UNCHANGED <<accept, accepted, socket>>

\* The request is carried out even when the deadline closed the socket meanwhile;
\* async_write on a closed socket ends at once.
ReadDone ==
    /\ Runs("read", "ok")
    /\ IF socket[This] = "open"
       THEN op' = [op EXCEPT ![This] = "write"] /\ queue' = Rest
       ELSE queue' = Append(Rest, Handler("write", This, "error")) /\ UNCHANGED op
    /\ UNCHANGED <<accept, accepted, socket, deadline>>

\* Nothing is done about a failed read: the deadline will close the socket.
ReadFailed ==
    /\ Runs("read", "error")
    /\ queue' = Rest
    /\ UNCHANGED <<accept, accepted, socket, op, deadline>>

\* process_request throws, as regex_match may, through the strand: the operation is gone,
\* and the connection stays with its deadline.  What becomes of the thread is in Lifecycle.
ReadThrows ==
    /\ Runs("read", "ok")
    /\ queue' = Rest
    /\ UNCHANGED <<accept, accepted, socket, op, deadline>>

\* Whatever became of the response: shutdown(shutdown_send), deadline_.cancel().
WriteDone ==
    /\ \E how \in {"ok", "error"} : Runs("write", how)
    /\ socket' = [socket EXCEPT ![This] = IF @ = "open" THEN "shut" ELSE @]
    /\ queue' = Cancelled(This, Rest)
    /\ deadline' = [deadline EXCEPT ![This] = "over"]
    /\ UNCHANGED <<accept, accepted, op>>

\* Variant: closing completes an operation whether or not there is one.
DeadlineAborts ==
    /\ Runs("deadline", "ok")
    /\ socket' = [socket EXCEPT ![This] = "closed"]
    /\ op' = [op EXCEPT ![This] = "none"]
    /\ queue' = Append(Rest, Handler(op[This], This, "error"))
    /\ UNCHANGED <<accept, accepted, deadline>>

\* check_deadline's handler: close the socket, which ends the operation on it.
Deadline ==
    /\ Runs("deadline", "ok")
    /\ socket' = [socket EXCEPT ![This] = "closed"]
    /\ op' = [op EXCEPT ![This] = "none"]
    /\ queue' = IF op[This] = "none" THEN Rest
                ELSE Append(Rest, Handler(op[This], This, "error"))
    /\ UNCHANGED <<accept, accepted, deadline>>

DeadlineCancelled ==
    /\ Runs("deadline", "error")
    /\ queue' = Rest
    /\ UNCHANGED <<accept, accepted, socket, op, deadline>>

-----------------------------------------------------------------------------
Init ==
    /\ accept = "pending" /\ accepted = 0
    /\ socket = [c \in Conn |-> "none"]
    /\ op = [c \in Conn |-> "none"]
    /\ deadline = [c \in Conn |-> "none"]
    /\ queue = <<>>

Strand ==
    \/ Accepted \/ AcceptError \/ AcceptFatal
    \/ ReadDone \/ ReadFailed \/ ReadThrows \/ WriteDone \/ Deadline \/ DeadlineCancelled

Next ==
    \/ AcceptEnds
    \/ \E c \in Conn : OpEnds(c) \/ Expire(c)
    \/ Accepted \/ AcceptError \/ AcceptFatal
    \/ ReadDone \/ ReadFailed \/ ReadThrows \/ WriteDone \/ Deadline \/ DeadlineCancelled

Spec == Init /\ [][Next]_vars

\* The strand runs what is queued, and a deadline expires; peers owe nothing.
FairSpec == Spec /\ WF_vars(Strand) /\ \A c \in Conn : WF_vars(Expire(c))
-----------------------------------------------------------------------------
\* Types of the variables.
TypeOK ==
    /\ accept \in {"pending", "queued", "stopped"}
    /\ accepted \in 0..MaxConn
    /\ socket \in [Conn -> {"none", "open", "shut", "closed"}]
    /\ op \in [Conn -> {"none", "read", "write"}]
    /\ deadline \in [Conn -> {"none", "armed", "over"}]
    /\ queue \in Seq([k : {"accept", "read", "write", "deadline"},
                      c : Conn \cup {0}, how : Ends])

\* The deadline is there to cut off "any outstanding operation" (WebControlServer.cpp:
\* 301-311): as long as a connection waits for its peer, its deadline lies ahead, whether
\* or not the timer was cancelled, expired or closed the socket in between.
DeadlineAhead == \A c \in Conn : op[c] # "none" => deadline[c] = "armed" \/ Expiring(c)

\* "Loop" forever accepting (WebControlServer.h:133): unless a listed error stopped the
\* loop there is one accept under way, never two on the one `socket` member, never none.
OneAccept ==
    LET queued == Cardinality({i \in DOMAIN queue : queue[i].k = "accept"})
    IN  queued + (IF accept = "pending" THEN 1 ELSE 0) = (IF accept = "stopped" THEN 0 ELSE 1)

\* Each connection is let go, and its socket with it, however silent, early gone or slow
\* its peer is (HttpConnectSession::start arms the deadline for that).
Released == \A c \in Conn : accepted >= c ~> ~Held(c)
=============================================================================
