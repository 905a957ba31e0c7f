------------------------- MODULE CommandDecodeProofs -------------------------
(* For every set of characters a target may carry. *)
EXTENDS CommandDecode, TLAPS

\* A text of a query never reads as 0 or 1: it reads as the code of a character, which
\* is at least 33, or not at all.
LEMMA NotADirection ==
    ASSUME NEW t \in Text PROVE ~DirectIsValid(LexicalCast(t))
<1>1. CASE t.len = 1
    <2>1. t.code \in 33..255 BY CodesOK DEF Text
    <2> QED BY <1>1, <2>1 DEF LexicalCast, DirectIsValid
<1>2. CASE t.len # 1
    BY <1>2 DEF LexicalCast, DirectIsValid, BadCast
<1> QED BY <1>1, <1>2

\* Whatever the request, path_op ends before it asks for a port.
LEMMA PathOpNeverGets ==
    ASSUME NEW r \in Requests PROVE Branch(r) # "get"
<1>1. ~DirectIsValid(LexicalCast(r.direct)) BY NotADirection DEF Requests
<1>2. PathOp(r) # "get"
    <2>1. CASE r.has # Keys BY <2>1 DEF PathOp
    <2>2. CASE r.has = Keys
        <3>1. CASE LexicalCast(r.direct) = BadCast \/ LexicalCast(r.speed) = BadCast
            BY <2>2, <3>1 DEF PathOp
        <3>2. CASE ~(LexicalCast(r.direct) = BadCast \/ LexicalCast(r.speed) = BadCast)
            BY <1>1, <2>2, <3>2 DEF PathOp
        <3> QED BY <3>1, <3>2
    <2> QED BY <2>1, <2>2
<1> QED BY <1>2 DEF Branch

\* As built, no request gets to a serial port (WebControlServer.cpp:162-180), whatever
\* characters a target may carry and however long its texts are.
THEOREM PortUnreachable == Spec => []OpNeverReachesPort
<1>1. Init => OpNeverReachesPort BY DEF Init, OpNeverReachesPort
<1>2. OpNeverReachesPort /\ [Next]_vars => OpNeverReachesPort'
    <2> SUFFICES ASSUME OpNeverReachesPort, [Next]_vars PROVE OpNeverReachesPort'
        OBVIOUS
    <2>1. CASE ProcessRequest
        BY <2>1, PathOpNeverGets DEF ProcessRequest, OpNeverReachesPort
    <2>2. CASE SetState BY <2>2 DEF SetState, OpNeverReachesPort
    <2>3. CASE Return BY <2>3 DEF Return, OpNeverReachesPort
    <2>4. CASE UNCHANGED vars BY <2>4 DEF vars, OpNeverReachesPort
    <2> QED BY <2>1, <2>2, <2>3, <2>4 DEF Next
<1> QED BY <1>1, <1>2, PTL DEF Spec

\* The byte that setState sends, for each direction and each uint8_t speed.
LEMMA CommandByte ==
    ASSUME NEW d \in BOOLEAN, NEW v \in Byte
    PROVE  /\ Command(d, v) >= 128 <=> d = TRUE
           /\ Command(d, v) % 128 = (IF v <= 100 THEN v ELSE 100)
<1>1. Speed(v) = (IF v <= 100 THEN v ELSE 100) /\ Speed(v) \in 0..100
    BY DEF Speed, Byte
<1>2. CASE d = TRUE
    <2>1. Command(d, v) = 128 + Speed(v) BY <1>1, <1>2 DEF Command
    <2> QED BY <1>1, <1>2, <2>1
<1>3. CASE d = FALSE
    <2>1. Command(d, v) = Speed(v) BY <1>1, <1>3 DEF Command
    <2> QED BY <1>1, <1>3, <2>1
<1> QED BY <1>2, <1>3

\* The command byte always tells the direction and the capped speed
\* (SerialPortControlServer.h:323-329).
THEOREM CommandsFaithful == Spec => []CommandFaithful
<1>1. Init => CommandFaithful BY DEF Init, CommandFaithful, NoArgs
<1>2. CommandFaithful /\ [Next]_vars => CommandFaithful'
    <2> SUFFICES ASSUME CommandFaithful, [Next]_vars PROVE CommandFaithful'
        OBVIOUS
    <2>1. CASE ProcessRequest BY <2>1 DEF ProcessRequest, CommandFaithful
    <2>2. CASE SetState
        <3>1. PICK d \in BOOLEAN, v \in Byte :
                args' = [direct |-> d, speed |-> v] /\ cmd' = Command(d, v)
            BY <2>2 DEF SetState
        <3>2. args'.direct = d /\ args'.speed = v BY <3>1
        <3>3. /\ Command(d, v) >= 128 <=> d = TRUE
              /\ Command(d, v) % 128 = (IF v <= 100 THEN v ELSE 100)
            BY CommandByte, ZenonT(30)
        <3>4. cmd' = Command(d, v) BY <3>1
        <3> QED BY <3>2, <3>3, <3>4, Zenon DEF CommandFaithful
    <2>3. CASE Return BY <2>3 DEF Return, CommandFaithful, NoArgs
    <2>4. CASE UNCHANGED vars BY <2>4 DEF vars, CommandFaithful
    <2> QED BY <2>1, <2>2, <2>3, <2>4 DEF Next
<1> QED BY <1>1, <1>2, PTL DEF Spec
=============================================================================
