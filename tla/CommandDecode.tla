---------------------------- MODULE CommandDecode ----------------------------
(***************************************************************************)
(* What becomes of the text of a request: HttpConnectSession's             *)
(* process_request, create_response and the first half of path_op, which   *)
(* decide the answer and whether a serial port is asked for, and           *)
(* SerialPortSession::setState, which packs a direction and a speed into   *)
(* the third byte of a command.                                            *)
(*                                                                         *)
(* A number in a query is a text, given by its length and the code of its  *)
(* first character: boost::lexical_cast<uint8_t> reads no more, because    *)
(* uint8_t is a character type to it.  The JSON of "/", the words of the   *)
(* error answers and the printing to the console are left out.             *)
(*                                                                         *)
(* A definition whose comment starts with "Variant" is not part of the     *)
(* model: it is a slip that a property would notice.                       *)
(***************************************************************************)
EXTENDS Integers

CONSTANTS
    Code,      \* codes of the characters of a number's text
    MaxLen     \* bound: length of a number's text

\* The HTTP parser lets no blank and no control character through in a target.
ASSUME CodesOK ==
    /\ Code \subseteq 33..255
    /\ MaxLen \in Nat

Byte == 0..255
Keys == {"_targetMode", "_targetCOM", "_targetDirect", "_targetSpeed"}

Text == [len : 0..MaxLen, code : Code]
Zero == [len |-> 1, code |-> 48]
One  == [len |-> 1, code |-> 49]

\* method: GET or another; target: "/", a path "/op" with a query, or any other;
\* has: the keys of path_op that the query gives.
Requests == [method : {"get", "other"}, target : {"root", "op", "other"},
             has : SUBSET Keys, direct : Text, speed : Text]

NoRequest == [method |-> "none"]

VARIABLES
    req,       \* the request being answered, NoRequest between requests
    status,    \* of its response
    branch,    \* the branch of path_op that was taken, "none" outside it
    args,      \* the last arguments of setState
    cmd        \* the command byte it made of them

vars == <<req, status, branch, args, cmd>>

-----------------------------------------------------------------------------
\* boost::lexical_cast<uint8_t>: the code of the only character, or bad_lexical_cast.
BadCast == -1
LexicalCast(t) == IF t.len = 1 THEN t.code ELSE BadCast

DirectIsValid(d) == d = 1 \/ d = 0
SpeedIsValid(v) == v >= 0 /\ v <= 100

\* Variant: the direction is not looked at.
PathOpSpeedOnly(r) ==
    LET direct == LexicalCast(r.direct)
        speed  == LexicalCast(r.speed)
    IN  CASE r.has # Keys -> "no_parameters"
          [] r.has = Keys /\ (direct = BadCast \/ speed = BadCast) -> "bad_cast"
          [] OTHER -> IF SpeedIsValid(speed) THEN "get" ELSE "bad_speed"

\* path_op: the branch that the query leads to.  "get" is the one that asks for a port and
\* sends the command, as SerialControl has it.
PathOp(r) ==
    LET direct == LexicalCast(r.direct)
        speed  == LexicalCast(r.speed)
    IN  CASE r.has # Keys -> "no_parameters"
          [] r.has = Keys /\ (direct = BadCast \/ speed = BadCast) -> "bad_cast"
          [] OTHER -> IF ~DirectIsValid(direct) THEN "bad_direct"
                      ELSE IF ~SpeedIsValid(speed) THEN "bad_speed" ELSE "get"

\* process_request and create_response: only a GET of "/op" comes to path_op.
Branch(r) == IF r.method = "get" /\ r.target = "op" THEN PathOp(r) ELSE "none"

\* What a call of the branch "get" throws is caught, and answered like a bad cast.
Statuses(r) ==
    CASE r.method # "get" -> {400}
      [] r.method = "get" /\ r.target = "other" -> {404}
      [] OTHER -> CASE Branch(r) = "bad_cast" -> {400}
                    [] Branch(r) = "get" -> {200, 400}
                    [] OTHER -> {200}

\* Variant: the cap on the speed is left out.
SpeedUncapped(v) == IF v >= 128 THEN 0 ELSE v

\* setState: the cap and the check that follows it.
Speed(v) ==
    LET capped == IF v > 100 THEN 100 ELSE v
    IN  IF capped >= 128 THEN 0 ELSE capped

\* static_cast<uint8_t>(direct ? 0x80 : 0x00) + speed, passed on as an unsigned char.
Command(direct, v) == ((IF direct THEN 128 ELSE 0) + Speed(v)) % 256

-----------------------------------------------------------------------------
NoArgs == [direct |-> FALSE, speed |-> 0]

Idle == req = NoRequest /\ args = NoArgs

Init ==
    /\ req = NoRequest
    /\ status = 200 /\ branch = "none"
    /\ args = NoArgs /\ cmd = 0

ProcessRequest ==
    /\ Idle
    /\ \E r \in Requests : req' = r /\ status' \in Statuses(r) /\ branch' = Branch(r)
    /\ UNCHANGED <<args, cmd>>

\* setState(direct, speed), whatever its caller decoded.
SetState ==
    /\ Idle
    /\ \E d \in BOOLEAN, v \in Byte :
          args' = [direct |-> d, speed |-> v] /\ cmd' = Command(d, v)
    /\ UNCHANGED <<req, status, branch>>

\* Outside src/: the call is over, and another will come.
Return ==
    /\ req' = NoRequest
    /\ status' = 200 /\ branch' = "none"
    /\ args' = NoArgs /\ cmd' = 0

Next == ProcessRequest \/ SetState \/ Return

Spec == Init /\ [][Next]_vars
-----------------------------------------------------------------------------
\* As built, no request gets to a serial port: lexical_cast gives the code of a
\* character, the check wants 0 or 1, and no target carries those characters
\* (WebControlServer.cpp:162-180).
OpNeverReachesPort == branch # "get"

\* The branch commented "bad direct" (WebControlServer.cpp:173) is for a direction that
\* is neither "0" nor "1".
BadDirectIsBad == branch = "bad_direct" => req.direct \notin {Zero, One}

\* The command byte tells the direction and the speed, capped at 100: the capped sum
\* does not wrap at 256 and the speed does not reach the direction's bit
\* (SerialPortControlServer.h:323-329).
CommandFaithful ==
    /\ cmd >= 128 <=> args.direct = TRUE
    /\ cmd % 128 = (IF args.speed <= 100 THEN args.speed ELSE 100)
=============================================================================
