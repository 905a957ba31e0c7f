--------------------------- MODULE SerialRefinement ---------------------------
(***************************************************************************)
(* SerialControl implements CommandChannel, for any number of threads: the *)
(* mapping forgets where a command is queued and which actor holds it.     *)
(***************************************************************************)
EXTENDS SerialControl

\* init is under way, or has not begun.
Unsettled(s) == name[s] = NoPort \/ (ser.pc = "open" /\ ser.t.s = s)

StateOf == [s \in Session |->
    IF Unsettled(s) THEN "new" ELSE IF s \in opened THEN "open" ELSE "closed"]

\* Commands of a session whose write has ended: a completion handler is queued, or the
\* handler that wrote the stop command has not erased its copy yet.
Ended(s) ==
    {strand[i].op : i \in {j \in DOMAIN strand : strand[j].k = "done" /\ strand[j].s = s}}
    \cup (IF ser.pc = "close" /\ ser.t.s = s THEN {ser.t.op} ELSE {})

Channel == INSTANCE CommandChannel WITH
    Byte <- {Stop} \cup {r.cmd : r \in Request},
    port <- name,
    state <- StateOf,
    commands <- ops,
    waiting <- [s \in Session |-> sendingData[s] \ Ended(s)],
    ended <- [s \in Session |-> Ended(s)],
    device <- last,
    up <- phase = "up"

\* Only what requests ask for and the stop command reaches a device.  A command is accepted
\* for an open port only, reaches that port's device at most once and has its data until
\* its write has ended.  A session opens at most once, so a port whose open failed stays
\* closed under its name (SerialPortControlServer.h:284).  close() closes when the write
\* of its stop command has ended (lines 260-275), not before.
ChannelSpec == Channel!Spec
=============================================================================
