---------------------------- MODULE EmbedSession ----------------------------
(***************************************************************************)
(* One connection of the embedded web server: EmbedWebServerSession and    *)
(* the order in which handle_request refuses, finds and opens a file.      *)
(*                                                                         *)
(* A session has a strand of its own and one operation at a time, so an    *)
(* operation's end and its handler are one step.  Around it the client     *)
(* sends requests before the earlier ones are answered, and files come and *)
(* go, also between handle_request's look at a path and its open.          *)
(*                                                                         *)
(* A target is "backend" (the JSON), "page" (a path under the root with an *)
(* allowed extension), "other" (any other path) or "illegal" (empty, not   *)
(* absolute or with ".."); contents, headers and mime types are left out.  *)
(*                                                                         *)
(* A definition whose comment starts with "Variant" is not part of the     *)
(* model: it is a slip that a property would notice.                       *)
(***************************************************************************)
EXTENDS Naturals, Sequences

CONSTANT MaxRequest    \* bound: requests the client sends

ASSUME MaxRequestOK == MaxRequest \in Nat

Method == {"get", "head", "post"}
Target == {"backend", "page", "other", "illegal"}
Request == [id : 1..MaxRequest, method : Method, target : Target, keep : BOOLEAN]
NoRequest == [id |-> 0, method |-> "get", target |-> "illegal", keep |-> FALSE]
Reply == [id : 0..MaxRequest, status : {200, 400, 404, 500}, close : BOOLEAN]

VARIABLES
    sent,       \* requests the client sent
    inbox,      \* those that the session has not read
    eof,        \* the client has ended its side
    present,    \* paths that exist under the root
    op,         \* operation under way: "none", "read", "write"
    pc,         \* inside handle_request: "idle", "check", "open"
    req,        \* req_
    found,      \* whether the path existed when handle_request looked
    replies     \* responses handed to async_write, the last one is res_

vars == <<sent, inbox, eof, present, op, pc, req, found, replies>>
client == <<sent, inbox, eof>>

Ended == op = "none" /\ pc = "idle"

-----------------------------------------------------------------------------
(* Outside the program: the client, the files.                             *)

Send ==
    /\ ~eof /\ sent < MaxRequest
    /\ sent' = sent + 1
    /\ \E m \in Method, t \in Target, k \in BOOLEAN :
          inbox' = Append(inbox, [id |-> sent + 1, method |-> m, target |-> t, keep |-> k])
    /\ UNCHANGED <<eof, present, op, pc, req, found, replies>>

HangUp ==
    /\ ~eof /\ eof' = TRUE
    /\ UNCHANGED <<sent, inbox, present, op, pc, req, found, replies>>

FilesChange ==
    /\ present' \in SUBSET {"backend", "page", "other"}
    /\ UNCHANGED <<client, op, pc, req, found, replies>>

-----------------------------------------------------------------------------
\* The response goes to async_write; need_eof is the contrary of keep_alive.
Respond(r, status) ==
    /\ replies' = Append(replies, [id |-> r.id, status |-> status, close |-> ~r.keep])
    /\ op' = "write"

\* Variant: the next request is read while this one is being handled.
OnReadAhead ==
    /\ op = "read" /\ inbox # <<>> /\ pc = "idle"
    /\ req' = Head(inbox) /\ inbox' = Tail(inbox)
    /\ IF req'.method = "get" /\ req'.target = "backend"
       THEN Respond(req', 200) /\ UNCHANGED pc
       ELSE pc' = "check" /\ UNCHANGED <<op, replies>>
    /\ UNCHANGED <<sent, eof, present, found>>

\* on_read: a GET of "/backend" is answered at once, the rest goes to handle_request.
OnRead ==
    /\ op = "read" /\ inbox # <<>>
    /\ req' = Head(inbox) /\ inbox' = Tail(inbox)
    /\ IF req'.method = "get" /\ req'.target = "backend"
       THEN Respond(req', 200) /\ UNCHANGED pc
       ELSE op' = "none" /\ pc' = "check" /\ UNCHANGED replies
    /\ UNCHANGED <<sent, eof, present, found>>

\* on_read with end_of_stream: do_close.
OnEof ==
    /\ op = "read" /\ inbox = <<>> /\ eof
    /\ op' = "none"
    /\ UNCHANGED <<client, present, pc, req, found, replies>>

Refuse == pc' = "idle" /\ Respond(req, 400)
GoOn == pc' = "open" /\ UNCHANGED <<op, replies>>

\* Variant: the error of canonical() is not looked at.
CheckLenient ==
    /\ pc = "check"
    /\ found' = (req.target \in present)
    /\ Refuse \/ (req.method \in {"get", "head"} /\ req.target = "page" /\ GoOn)
    /\ UNCHANGED <<client, present, req>>

\* handle_request up to body.open: the method, the form of the target, canonical(),
\* which fails when nothing is there, then the root and the extension.  Every question
\* to the file system may fail besides.
Check ==
    /\ pc = "check"
    /\ found' = (req.target \in present)
    /\ \/ Refuse
       \/ /\ req.method \in {"get", "head"}
          /\ req.target = "page" /\ req.target \in present
          /\ GoOn
    /\ UNCHANGED <<client, present, req>>

\* body.open and the response: the file may be gone by now, or not open.
Open ==
    /\ pc = "open"
    /\ pc' = "idle"
    /\ \E status \in IF req.target \in present THEN {200, 500} ELSE {404} :
          Respond(req, status)
    /\ UNCHANGED <<client, present, req, found>>

\* Variant: the connection is always kept.
OnWriteKeep ==
    /\ op = "write"
    /\ op' = "read"
    /\ UNCHANGED <<client, present, pc, req, found, replies>>

\* on_write: do_close, or read the next request.
OnWrite ==
    /\ op = "write"
    /\ op' = IF replies[Len(replies)].close THEN "none" ELSE "read"
    /\ UNCHANGED <<client, present, pc, req, found, replies>>

\* Variant: only reading is timed.
TimeoutRead ==
    /\ op = "read"
    /\ op' = "none"
    /\ UNCHANGED <<client, present, pc, req, found, replies>>

\* 30 seconds after do_read the stream closes and its operation ends with an error, of
\* which on_read and on_write only report; so do other errors.
Timeout ==
    /\ op # "none"
    /\ op' = "none"
    /\ UNCHANGED <<client, present, pc, req, found, replies>>

-----------------------------------------------------------------------------
\* run() and the first do_read.
Init ==
    /\ sent = 0 /\ inbox = <<>> /\ eof = FALSE
    /\ present \in SUBSET {"backend", "page", "other"}
    /\ op = "read" /\ pc = "idle"
    /\ req = NoRequest /\ found = FALSE
    /\ replies = <<>>

Next ==
    \/ Send \/ HangUp \/ FilesChange
    \/ OnRead \/ OnEof \/ Check \/ Open \/ OnWrite \/ Timeout

Spec == Init /\ [][Next]_vars

\* A handler that runs goes on, and the timer of an operation expires.
FairSpec == Spec /\ WF_vars(Check) /\ WF_vars(Open) /\ WF_vars(Timeout)
-----------------------------------------------------------------------------
\* Types of the variables; while handle_request runs no operation is under way.
TypeOK ==
    /\ sent \in 0..MaxRequest
    /\ inbox \in Seq(Request)
    /\ eof \in BOOLEAN /\ found \in BOOLEAN
    /\ present \subseteq {"backend", "page", "other"}
    /\ op \in {"none", "read", "write"} /\ pc \in {"idle", "check", "open"}
    /\ pc # "idle" => op = "none"
    /\ req \in Request \cup {NoRequest}
    /\ replies \in Seq(Reply)

\* Requests that a client sends without waiting (EmbedWebServer.cpp:301-364) are answered
\* once each, in their order, and nothing follows a response that announced the end of
\* the connection.
RepliesInOrder ==
    \A i \in DOMAIN replies :
        /\ replies[i].id = i
        /\ i < Len(replies) => ~replies[i].close

\* As built, "not found" only answers a file that vanished between handle_request's look
\* at the path (EmbedWebServer.cpp:175) and its open (line 217): a path where nothing is
\* has been refused before.
NotFoundVanished ==
    op = "write" /\ replies[Len(replies)].status = 404 => found

\* handle_request is to "Handle the case where the file doesn't exist" with not_found
\* (EmbedWebServer.cpp:219-221).
MissingNotFound ==
    op = "write" /\ req.method # "post" /\ req.target = "page" /\ ~found
        => replies[Len(replies)].status = 404

\* A session whose client sends no more is let go, wherever the client stopped, however
\* slowly it reads: the timeout of do_read covers request and response.
Released == <>Ended
=============================================================================
